---------------------------- MODULE MCMemoryApply ----------------------------
(***************************************************************************)
(* Small instances of MemoryApply: two candidates, and approvals such that  *)
(* one candidate is approved for the mesh in two user turns, one was         *)
(* rejected for the mesh and approved only for another target.               *)
(***************************************************************************)
EXTENDS MemoryApply

CONSTANTS c1, c2

Approval(decision, c, target, turn) ==
    [decision |-> decision, candidateId |-> c, target |-> target,
     userTurnRef |-> turn]

MCConsent == {
    Approval("approved", c1, "context_mesh_candidate", "turn1"),
    Approval("approved", c1, "context_mesh_candidate", "turn2"),
    Approval("rejected", c2, "context_mesh_candidate", "turn1"),
    Approval("approved", c2, "gpao_t_memory_wiki", "turn1")}

MCKinds == {"review", "replay", "request", "bridge", "apply", "rollback", "foreign"}

CallBound(review, replay, request, bridge, apply, rollback, foreign) ==
    [k \in MCKinds |->
        CASE k = "review"   -> review   [] k = "replay"   -> replay
          [] k = "request"  -> request  [] k = "bridge"   -> bridge
          [] k = "apply"    -> apply    [] k = "rollback" -> rollback
          [] k = "foreign"  -> foreign]

\* One process over one candidate and every kind of call, or over two candidates
\* with two requests and two approvals, or with another user of the ledgers.  What
\* one of them does not need is spent at the start.
SerialCalls == CallBound(2, 3, 2, 2, 2, 2, 1)
SpentOfOne  == CallBound(1, 0, 1, 0, 0, 0, 1)
SpentOfTwo  == CallBound(0, 1, 0, 0, 1, 2, 1)
SpentOfThree == CallBound(1, 2, 1, 0, 1, 1, 0)

MCInit ==
    /\ queue = <<>>
    /\ tcells = {}
    /\ now = 1
    /\ pc = [a \in Actors |-> "idle"]
    /\ held = [a \in Actors |-> NoRecord]
    /\ seen = [a \in Actors |-> {}]
    /\ approvalRecords = <<>>
    /\ auditRecords = <<>>
    /\ \/ calls = SpentOfOne /\ crashes = 0
       \/ calls = SpentOfTwo /\ crashes = MaxCrashes
       \/ calls = SpentOfThree /\ crashes = 0

MCSpec == MCInit /\ [][Next]_vars

\* The shortest calls that show the disagreement with the documentation.
RewriteCalls  == CallBound(1, 2, 1, 1, 1, 1, 0)
=============================================================================
