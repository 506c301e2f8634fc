------------------------------- MODULE MCServed -------------------------------
(***************************************************************************)
(* Small instances of the calls on one root: two callers that differ in         *)
(* nothing but their name, with or without the server.  An instance is the      *)
(* number of calls of each kind, starts, aborted bodies and stops.               *)
(***************************************************************************)
EXTENDS Served

Welcome == "/workspace/welcome/apply"
OsTurn == "/turn/os"
SelfCheck == "/memory/local-apply-invocation/verify"
Rollback == "/memory/local-apply/rollback"
Review == "/memory/replay-record"
Kinds == {"turn", "capture", "growth", "live", "record", "propose", "gate", "index",
          "search", "gateway", Welcome, OsTurn, SelfCheck, Rollback, Review, "cli",
          "start", "get", "post", "abort", "stop"}
Bounds(bounds) == [k \in Kinds |-> IF k \in DOMAIN bounds THEN bounds[k] ELSE 0]

\* On a root nobody used: two first calls at once, each kind of the gateway.
NewRoot == {
    Bounds([turn |-> 2, stop |-> 1]),
    Bounds([capture |-> 2, turn |-> 1]),
    Bounds([growth |-> 1, capture |-> 1, stop |-> 1]),
    Bounds([gateway |-> 1, stop |-> 1])}

\* Turns and growth with each other, the index, the gates.
UsedRoot == {
    Bounds([turn |-> 3, stop |-> 1]),
    Bounds([growth |-> 1, live |-> 1]),
    Bounds([capture |-> 2, index |-> 1, search |-> 1, stop |-> 1]),
    Bounds([record |-> 2, propose |-> 1, gate |-> 1])}

\* Two requests of the gateway at once: the same, or one and a capture.
GatewayRoot == {
    Bounds((Welcome :> 2) @@ [stop |-> 1]),
    Bounds((SelfCheck :> 2) @@ [stop |-> 1]),
    Bounds((SelfCheck :> 1) @@ [capture |-> 1]),
    Bounds((SelfCheck :> 1) @@ [turn |-> 1, stop |-> 1]),
    Bounds((SelfCheck :> 1) @@ (Rollback :> 1) @@ [stop |-> 1]),
    Bounds((SelfCheck :> 1) @@ (Review :> 1) @@ [stop |-> 1]),
    Bounds((OsTurn :> 1) @@ [capture |-> 1])}

\* The server by itself, with a caller beside it, and started again; a command.
ServedRoot == {
    Bounds([start |-> 2, post |-> 1, stop |-> 1]),
    Bounds([start |-> 1, post |-> 1, abort |-> 1]),
    Bounds([start |-> 1, post |-> 2]),
    Bounds([start |-> 1, get |-> 1, capture |-> 1, stop |-> 1]),
    Bounds([start |-> 1, get |-> 1, post |-> 1, stop |-> 1]),
    Bounds([cli |-> 1, capture |-> 1, stop |-> 1])}

MCInit ==
    \/ \E calls \in NewRoot : ServedInit("new", calls)
    \/ \E calls \in UsedRoot \cup GatewayRoot \cup ServedRoot : ServedInit("used", calls)

MCSpec == MCInit /\ [][ServedNext]_allVars

\* One post to a server by itself.
FormsSpec ==
    ServedInit("used", Bounds([start |-> 1, post |-> 1])) /\ [][ServedNext]_allVars

Symmetry == Permutations(Callers)
=============================================================================
