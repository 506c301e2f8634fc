------------------------- MODULE CandidateLifecycle -------------------------
(***************************************************************************)
(* What the reversible memory apply promises about the Context Mesh         *)
(* candidates it creates, whatever files and steps it takes:                *)
(*                                                                          *)
(*   unused --Publish--> pending --Review--> reviewed                        *)
(*      \__________________|____________________|____Retire--> gone          *)
(*                                                                          *)
(* A candidate is published only for content the user approved, it becomes  *)
(* an answer anchor (reviewed) only once it has been published, it is never  *)
(* demoted, and once it is gone (rolled back, or lost with its file) it      *)
(* does not come back.                                                      *)
(***************************************************************************)
CONSTANTS
    Ids,            \* identities an application can have
    Approved(_)     \* Approved(c): the user approved applying content c

VARIABLE
    application     \* Ids -> [state, content]

StateOf(id) == application[id].state

Init == \A id \in Ids : StateOf(id) = "unused"

\* Everything outside S keeps its state and its content.
Untouched(S) ==
    /\ DOMAIN application' = DOMAIN application
    /\ \A id \in Ids \ S : application'[id] = application[id]

Publish(id) ==
    /\ StateOf(id) = "unused"
    /\ StateOf(id)' = "pending"
    /\ Approved(application'[id].content)
    /\ Untouched({id})

Review(id) ==
    /\ StateOf(id) \in {"pending", "reviewed"}
    /\ StateOf(id)' = "reviewed"
    /\ application'[id].content = application[id].content
    /\ Untouched({id})

\* Spent without being published, rolled back, or lost with the whole file.
Retire(S) ==
    /\ \A id \in S : StateOf(id)' = "gone"
    /\ Untouched(S)

Next ==
    \/ \E id \in Ids : Publish(id) \/ Review(id)
    \/ \E S \in SUBSET Ids : Retire(S)

Spec == Init /\ [][Next]_application
=============================================================================
