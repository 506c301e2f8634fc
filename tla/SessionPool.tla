----------------------------- MODULE SessionPool -----------------------------
(***************************************************************************)
(* What the session workspace promises about the user's work sessions,      *)
(* whatever file holds them: a session is on one of three shelves and never  *)
(* leaves the pool (there is no permanent delete), at most one session is    *)
(* current, the current one is open, and it changes only when the user       *)
(* opens another one or puts it away.                                       *)
(***************************************************************************)
CONSTANTS
    Ids,        \* identities a session can have
    Nobody      \* no session is current

VARIABLES
    shelf,      \* Ids -> absent, open, archived or delete_pending
    current     \* the session the user works in, or Nobody

poolVars == <<shelf, current>>

Open == {id \in Ids : shelf[id] = "open"}

\* Shelves before the first call are whatever the program starts with.
Init ==
    /\ shelf \in [Ids -> {"absent", "open", "archived", "delete_pending"}]
    /\ current \in Open \cup {Nobody}

MoveTo(id, place) == shelf' = [shelf EXCEPT ![id] = place]

Create(id) ==
    /\ shelf[id] = "absent"
    /\ MoveTo(id, "open")
    /\ current' = id

Select(id) ==
    /\ shelf[id] = "open"
    /\ current' = id
    /\ UNCHANGED shelf

\* Putting the current session away hands over to an open one if there is one.
PutAway(id, place) ==
    /\ shelf[id] # "absent"
    /\ place \in {"archived", "delete_pending"}
    /\ MoveTo(id, place)
    /\ current' \in
        LET heirs == Open \ {id} IN
        CASE current = id /\ heirs = {} -> {Nobody}
          [] current = id /\ heirs # {} -> heirs
          [] current = Nobody           -> heirs \cup {Nobody}
          [] OTHER                      -> {current}

\* Taking a session back does not interrupt the one the user works in.
TakeBack(id) ==
    /\ shelf[id] \in {"archived", "delete_pending"}
    /\ MoveTo(id, "open")
    /\ current' \in IF current = Nobody THEN {Nobody, id} ELSE {current}

Next ==
    \E id \in Ids :
        \/ Create(id)
        \/ Select(id)
        \/ \E place \in {"archived", "delete_pending"} : PutAway(id, place)
        \/ TakeBack(id)

Spec == Init /\ [][Next]_poolVars
=============================================================================
