----------------------------- MODULE MCInstaller -----------------------------
(***************************************************************************)
(* A small instance of Installer: one release that migrates a workspace and  *)
(* one that leaves it alone. A behaviour starts where a first install has     *)
(* ended, and runs two more operations, or on an empty disk, and runs one.    *)
(***************************************************************************)
EXTENDS Installer

MCInstalls == {[version |-> "v1", migrate |-> TRUE],
               [version |-> "v2", migrate |-> FALSE]}

FirstInstall ==
    [NoOp EXCEPT !.kind = "install", !.id = 1, !.version = "v1", !.migrate = TRUE]

Rest ==
    /\ lock = "free"
    /\ pc = [a \in Actors |-> "idle"]
    /\ op = [a \in Actors |-> NoOp]
    /\ todo = [a \in Actors |-> {}]
    /\ userData = {}
    /\ writes = 0 /\ faults = 0

Fresh ==
    /\ disk = EmptyDisk
    /\ snapshots = {}
    /\ loaded = FALSE
    /\ ops = MaxOps - 1

Installed ==
    LET managed == ManagedTargets(FirstInstall) IN
    /\ disk = [t \in Paths |-> IF t \in managed THEN Staged(FirstInstall, t) ELSE {}]
    /\ snapshots = {[id |-> 1, files |-> [t \in managed |-> {}], loaded |-> FALSE]}
    /\ loaded = TRUE
    /\ ops = 1

MCInit == Rest /\ (Fresh \/ Installed)

MCSpec == MCInit /\ [][Next]_vars /\ Fairness
=============================================================================
