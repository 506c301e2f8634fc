------------------------------- MODULE Installer -------------------------------
(***************************************************************************)
(* The macOS installer (src/tools/gpao-t-local-install-lib.mjs): install    *)
(* and rollback of a release under the state home, with a lock directory,    *)
(* a snapshot of the managed targets before they are replaced, and the       *)
(* launchd service that runs the installed release.                          *)
(*                                                                          *)
(* Each operation is a process of its own that awaits files and launchctl,    *)
(* so every await is a step, which may fail or be the last one before a      *)
(* crash. The content of a target is the set of what went into it: the       *)
(* operation that staged it, the release the current pointer names, the user  *)
(* data the running service wrote to the workspace; an absent target is {}.   *)
(* launchd and the user who stops the service are external.                  *)
(***************************************************************************)
EXTENDS Naturals

CONSTANTS
    Actors,         \* installer processes
    Versions,       \* releases that can be installed
    Installs,       \* release and migration an install is asked for
    MaxOps,         \* operations a behaviour starts
    MaxWrites,      \* user writes by the running service
    MaxFaults       \* crashes, and steps that fail without a cause in the model

Fixed == {"node", "current", "config", "workspace", "plist"}
Paths == Fixed \cup Versions

ASSUME InstallerAssumption ==
    /\ Versions \subseteq STRING
    /\ Versions \cap Fixed = {}
    /\ Installs \subseteq [version : Versions, migrate : BOOLEAN]
    /\ {"free", "stale"} \cap Actors = {}
    /\ {MaxOps, MaxWrites, MaxFaults} \subseteq Nat

VARIABLES
    disk,       \* Paths -> content
    snapshots,  \* complete snapshots under the state home
    loaded,     \* launchd has the service loaded
    lock,       \* .install-lock: free, the process that made it, or stale
    pc,         \* where each process is in its operation
    op,         \* what each process is doing, and the disk before it (history)
    todo,       \* targets a process has yet to replace or restore
    userData,   \* user writes made while no operation ran (history)
    writes, ops, faults     \* counts that bound the model

counts == <<writes, ops, faults>>
vars == <<disk, snapshots, loaded, lock, pc, op, todo, userData, counts>>

NoSnapshot == [id |-> 0, files |-> [t \in {} |-> {}], loaded |-> FALSE]
EmptyDisk == [t \in Paths |-> {}]
NoOp == [kind |-> "none", id |-> 0, version |-> "none", migrate |-> FALSE,
         before |-> EmptyDisk, plan |-> NoSnapshot, own |-> NoSnapshot, wasLoaded |-> FALSE,
         started |-> FALSE, restarted |-> FALSE, result |-> "open"]

\* plan.managedTargets; a rollback manages what its snapshot holds.
ManagedTargets(o) ==
    IF o.kind = "rollback" THEN DOMAIN o.plan.files
    ELSE {"node", o.version, "current", "config", "plist"}
            \cup (IF o.migrate THEN {"workspace"} ELSE {})

\* applyInstall replaces the release first and writes the plist last.
InstallRank(t) ==
    CASE t \in Versions -> 1   [] t = "node" -> 2      [] t = "config" -> 3
      [] t = "workspace" -> 4  [] t = "current" -> 5   [] t = "plist" -> 6

\* restoreSnapshot goes through the managed targets last to first.
RestoreRank(t) ==
    CASE t = "plist" -> 1      [] t = "workspace" -> 2 [] t = "config" -> 3
      [] t = "current" -> 4    [] t \in Versions -> 5  [] t = "node" -> 6

IsFirst(t, S, Rank(_)) == t \in S /\ \A u \in S : Rank(t) <= Rank(u)

\* What an install puts in place of a target.
Staged(o, t) == IF t = "current" THEN {o.version} ELSE {o.id}

\* The guard of a rollback records the service as it was before the bootout.
SnapshotOf(o) ==
    [id |-> o.id, files |-> [t \in ManagedTargets(o) |-> disk[t]],
     loaded |-> IF o.kind = "rollback" THEN o.wasLoaded ELSE loaded]

-----------------------------------------------------------------------------
(* One step of process a, and what it does when it fails. *)

At(a, step) == pc[a] = step
Working(a) == pc[a] \notin {"idle", "planned"}

Go(a, step, o, rest) ==
    /\ pc' = [pc EXCEPT ![a] = step]
    /\ op' = [op EXCEPT ![a] = o]
    /\ todo' = [todo EXCEPT ![a] = rest]

Fault == faults < MaxFaults /\ faults' = faults + 1
NoFault == UNCHANGED faults
SameFiles == UNCHANGED <<disk, snapshots>>
SameRun == UNCHANGED <<lock, userData, writes, ops>>

Unwind(a) == Go(a, "unwind", [op[a] EXCEPT !.result = "failed"], {})

-----------------------------------------------------------------------------
(* Before the lock: the plan and the checks of the apply. *)

StartOp(a, o) ==
    /\ At(a, "idle")
    /\ ops < MaxOps
    /\ ops' = ops + 1
    /\ Go(a, "planned", o, {})
    /\ UNCHANGED <<disk, snapshots, loaded, lock, userData, writes, faults>>

\* createInstallPlan and the refusals of applyInstall: the service, and with it
\* the port, must be down.
CheckInstall(a, install) ==
    /\ ~loaded
    /\ StartOp(a, [NoOp EXCEPT !.kind = "install", !.id = ops + 1,
                    !.version = install.version, !.migrate = install.migrate])

\* createRollbackPlan reads and verifies a complete snapshot.
PlanRollback(a, s) ==
    StartOp(a, [NoOp EXCEPT !.kind = "rollback", !.id = ops + 1, !.plan = s])

FirstStep(o) == IF o.kind = "install" THEN "snapshot" ELSE "bootout"

\* acquireLock: mkdir succeeds for one process; the others are refused, and a
\* refused operation leaves the lock alone. A rollback then looks at the service.
AcquireLock(a) ==
    /\ At(a, "planned")
    /\ lock = "free"
    /\ lock' = a
    /\ Go(a, FirstStep(op[a]), [op[a] EXCEPT !.before = disk, !.wasLoaded = loaded], {})
    /\ NoFault
    /\ UNCHANGED <<disk, snapshots, loaded, userData, writes, ops>>

\* Mutant: the refused operation runs the finally block.
RefusedAndReleased(a) ==
    /\ At(a, "planned")
    /\ lock # "free"
    /\ lock' = "free"
    /\ Go(a, "idle", NoOp, {})
    /\ UNCHANGED <<disk, snapshots, loaded, userData, counts>>

Refused(a) ==
    /\ At(a, "planned")
    /\ lock # "free"
    /\ Go(a, "idle", NoOp, {})
    /\ UNCHANGED <<disk, snapshots, loaded, lock, userData, counts>>

\* The directory is made and owner.json is not: nobody removes the lock.
AcquireFails(a) ==
    /\ At(a, "planned")
    /\ lock = "free"
    /\ Fault
    /\ lock' = "stale"
    /\ Go(a, "idle", NoOp, {})
    /\ UNCHANGED <<disk, snapshots, loaded, userData, writes, ops>>

-----------------------------------------------------------------------------
(* Under the lock. *)

\* Mutant: no snapshot is kept.
SnapshotNothing(a) ==
    /\ At(a, "snapshot")
    /\ LET o == op[a] IN
        IF o.kind = "install" THEN Go(a, "replace", o, ManagedTargets(o))
                              ELSE Go(a, "restore", o, DOMAIN o.plan.files)
    /\ NoFault /\ SameFiles /\ SameRun
    /\ UNCHANGED loaded

\* Mutant: only the newest snapshot is kept.
SnapshotNewestOnly(a) ==
    /\ At(a, "snapshot")
    /\ snapshots' = {SnapshotOf(op[a])}
    /\ LET o == [op[a] EXCEPT !.own = SnapshotOf(op[a])] IN
        IF o.kind = "install" THEN Go(a, "replace", o, ManagedTargets(o))
                              ELSE Go(a, "restore", o, DOMAIN o.plan.files)
    /\ NoFault /\ SameRun
    /\ UNCHANGED <<disk, loaded>>

\* snapshotTargets: of an install, or the guard of a rollback.
SnapshotTargets(a) ==
    /\ At(a, "snapshot")
    /\ snapshots' = snapshots \cup {SnapshotOf(op[a])}
    /\ LET o == [op[a] EXCEPT !.own = SnapshotOf(op[a])] IN
        IF o.kind = "install" THEN Go(a, "replace", o, ManagedTargets(o))
                              ELSE Go(a, "restore", o, DOMAIN o.plan.files)
    /\ NoFault /\ SameRun
    /\ UNCHANGED <<disk, loaded>>

\* replaceWithStaged, pointCurrentAtomically and the plist, one at a time.
ReplaceWithStaged(a, t) ==
    /\ At(a, "replace")
    /\ IsFirst(t, todo[a], InstallRank)
    /\ disk' = [disk EXCEPT ![t] = Staged(op[a], t)]
    /\ Go(a, IF todo[a] = {t} THEN "bootout" ELSE "replace", op[a], todo[a] \ {t})
    /\ NoFault /\ SameRun
    /\ UNCHANGED <<snapshots, loaded>>

Removed(t) == [disk EXCEPT ![t] = {}]

\* All but the pointer and the plist are removed before they are replaced.
CutShort(a, t) ==
    \/ /\ At(a, "replace")
       /\ IsFirst(t, todo[a], InstallRank)
       /\ disk' \in IF t \in {"current", "plist"} THEN {disk} ELSE {disk, Removed(t)}
    \/ /\ At(a, "restore")
       /\ IsFirst(t, todo[a], RestoreRank)
       /\ disk' \in {disk, Removed(t)}

ReplaceFails(a, t) ==
    /\ At(a, "replace")
    /\ CutShort(a, t)
    /\ Unwind(a)
    /\ Fault /\ SameRun
    /\ UNCHANGED <<snapshots, loaded>>

BootoutService(a) ==
    /\ At(a, "bootout")
    /\ loaded' = FALSE
    /\ LET o == [op[a] EXCEPT !.started = FALSE] IN
        Go(a, IF o.kind = "install" THEN "bootstrap" ELSE "snapshot", o, {})
    /\ NoFault /\ SameFiles /\ SameRun

\* The service may go down after the wait for it has timed out.
BootoutFails(a) ==
    /\ At(a, "bootout")
    /\ loaded
    /\ loaded' \in BOOLEAN
    /\ Unwind(a)
    /\ Fault /\ SameFiles /\ SameRun

AfterBootstrap(o) == IF o.kind = "install" THEN "health" ELSE "receipt"

BootstrapService(a) ==
    /\ At(a, "bootstrap")
    /\ ~loaded
    /\ loaded' = TRUE
    /\ Go(a, AfterBootstrap(op[a]), [op[a] EXCEPT !.started = TRUE], {})
    /\ NoFault /\ SameFiles /\ SameRun

\* The bootstrap itself, the wait for the service or the kickstart fails: the
\* service may be loaded and serviceStarted is still false.
BootstrapFails(a) ==
    /\ At(a, "bootstrap")
    /\ IF loaded THEN NoFault ELSE Fault
    /\ loaded' \in {loaded, TRUE}
    /\ Unwind(a)
    /\ SameFiles /\ SameRun

\* Peer links were repaired after the first start: the service starts again,
\* once.
RestartForPeerLinks(a) ==
    /\ At(a, "health")
    /\ ~op[a].restarted
    /\ Go(a, "bootout", [op[a] EXCEPT !.restarted = TRUE], {})
    /\ NoFault /\ SameFiles /\ SameRun
    /\ UNCHANGED loaded

HealthCheck(a) ==
    /\ At(a, "health")
    /\ loaded
    /\ Go(a, "receipt", op[a], {})
    /\ NoFault /\ SameFiles /\ SameRun
    /\ UNCHANGED loaded

HealthCheckFails(a) ==
    /\ At(a, "health")
    /\ IF loaded THEN Fault ELSE NoFault
    /\ Unwind(a)
    /\ SameFiles /\ SameRun
    /\ UNCHANGED loaded

WriteReceipt(a) ==
    /\ At(a, "receipt")
    /\ Go(a, "release", [op[a] EXCEPT !.result = "done"], {})
    /\ NoFault /\ SameFiles /\ SameRun
    /\ UNCHANGED loaded

\* Any other await of an operation that throws: the snapshot, the lint of the
\* plist before the first start, the receipt.
StepFails(a) ==
    /\ \/ pc[a] \in {"snapshot", "receipt"}
       \/ At(a, "bootout") /\ op[a].kind = "install" /\ ~op[a].restarted
    /\ Unwind(a)
    /\ Fault /\ SameFiles /\ SameRun
    /\ UNCHANGED loaded

-----------------------------------------------------------------------------
(* The catch block: stop what was started, restore the own snapshot. *)

\* Errors are swallowed: the bootout of a failed install may not work.
CatchError(a) ==
    /\ At(a, "unwind")
    /\ LET o == op[a] IN
        /\ IF o.kind = "install" /\ o.started /\ loaded
           THEN \/ loaded' = FALSE /\ NoFault
                \/ UNCHANGED loaded /\ Fault
           ELSE UNCHANGED loaded /\ NoFault
        /\ IF o.own = NoSnapshot THEN Go(a, "release", o, {})
                                 ELSE Go(a, "restore", o, DOMAIN o.own.files)
    /\ SameFiles /\ SameRun

\* The snapshot a restore writes back: its own one to undo, else the plan's.
Restored(o) == IF o.result = "failed" THEN o.own ELSE o.plan

\* Mutant: targets that did not exist are left where they are.
RestoredContentIfAny(o, t) ==
    IF Restored(o).files[t] = {} THEN disk[t] ELSE Restored(o).files[t]

RestoredContent(o, t) == Restored(o).files[t]

\* A rolled back plist is there when the snapshot held one.
AfterRestore(o) ==
    CASE o.kind = "install" -> "release"
      [] o.kind = "rollback" /\ o.result = "failed" -> "restart"
      [] OTHER -> IF o.plan.loaded /\ o.plan.files["plist"] # {}
                  THEN "bootstrap" ELSE "receipt"

RestoreSnapshot(a, t) ==
    /\ At(a, "restore")
    /\ IsFirst(t, todo[a], RestoreRank)
    /\ disk' = [disk EXCEPT ![t] = RestoredContent(op[a], t)]
    /\ Go(a, IF todo[a] = {t} THEN AfterRestore(op[a]) ELSE "restore", op[a], todo[a] \ {t})
    /\ NoFault /\ SameRun
    /\ UNCHANGED <<snapshots, loaded>>

\* A restore that fails stops; while undoing, its error is swallowed.
RestoreFails(a, t) ==
    /\ At(a, "restore")
    /\ CutShort(a, t)
    /\ IF op[a].result = "failed"
       THEN Go(a, AfterRestore(op[a]), [op[a] EXCEPT !.result = "broken"], {})
       ELSE Unwind(a)
    /\ Fault /\ SameRun
    /\ UNCHANGED <<snapshots, loaded>>

\* After its guard a failed rollback starts the service it had stopped.
RestartFromGuard(a) ==
    /\ At(a, "restart")
    /\ LET o == op[a] IN
        /\ IF o.own.loaded /\ disk["plist"] # {}
           THEN loaded' \in {loaded, TRUE}
           ELSE UNCHANGED loaded
        /\ Go(a, "release", o, {})
    /\ NoFault /\ SameFiles /\ SameRun

-----------------------------------------------------------------------------
(* The finally block. *)

\* Mutant: only an operation that succeeds removes the lock.
ReleaseWhenDone(a) ==
    /\ At(a, "release")
    /\ lock' = IF op[a].result = "done" THEN "free" ELSE lock
    /\ Go(a, "idle", NoOp, {})
    /\ UNCHANGED <<disk, snapshots, loaded, userData, counts>>

ReleaseLock(a) ==
    /\ At(a, "release")
    /\ lock' = "free"
    /\ Go(a, "idle", NoOp, {})
    /\ UNCHANGED <<disk, snapshots, loaded, userData, counts>>

ReleaseFails(a) ==
    /\ At(a, "release")
    /\ Fault
    /\ lock' = "stale"
    /\ Go(a, "idle", NoOp, {})
    /\ UNCHANGED <<disk, snapshots, loaded, userData, writes, ops>>

-----------------------------------------------------------------------------
(* The environment. *)

\* The process dies: its lock stays, and a target may be removed and not yet
\* replaced.
Crash(a) ==
    /\ pc[a] # "idle"
    /\ Fault
    /\ lock' = IF lock = a THEN "stale" ELSE lock
    /\ UNCHANGED disk \/ \E t \in todo[a] : CutShort(a, t)
    /\ Go(a, "idle", NoOp, {})
    /\ UNCHANGED <<snapshots, loaded, userData, writes, ops>>

\* The loaded service writes user data to the workspace.
ServiceWrites ==
    /\ loaded
    /\ writes < MaxWrites
    /\ writes' = writes + 1
    /\ LET w == MaxOps + writes + 1 IN
        /\ disk' = [disk EXCEPT !["workspace"] = @ \cup {w}]
        /\ userData' = IF lock \in Actors THEN userData ELSE userData \cup {w}
    /\ UNCHANGED <<snapshots, loaded, lock, pc, op, todo, ops, faults>>

\* The user stops the service, as an install asks for.
UserStopsService ==
    /\ loaded
    /\ loaded' = FALSE
    /\ UNCHANGED <<disk, snapshots, lock, pc, op, todo, userData, counts>>

Init ==
    /\ disk = EmptyDisk
    /\ snapshots = {}
    /\ loaded = FALSE
    /\ lock = "free"
    /\ pc = [a \in Actors |-> "idle"]
    /\ op = [a \in Actors |-> NoOp]
    /\ todo = [a \in Actors |-> {}]
    /\ userData = {}
    /\ writes = 0 /\ ops = 0 /\ faults = 0

Begin(a) ==
    \/ \E install \in Installs : CheckInstall(a, install)
    \/ \E s \in snapshots : PlanRollback(a, s)

Forward(a) ==
    \/ AcquireLock(a) \/ Refused(a) \/ AcquireFails(a)
    \/ SnapshotTargets(a)
    \/ \E t \in todo[a] : ReplaceWithStaged(a, t) \/ ReplaceFails(a, t)
    \/ BootoutService(a) \/ BootoutFails(a)
    \/ BootstrapService(a) \/ BootstrapFails(a)
    \/ RestartForPeerLinks(a) \/ HealthCheck(a) \/ HealthCheckFails(a)
    \/ WriteReceipt(a) \/ StepFails(a)

Backward(a) ==
    \/ CatchError(a)
    \/ \E t \in todo[a] : RestoreSnapshot(a, t) \/ RestoreFails(a, t)
    \/ RestartFromGuard(a) \/ ReleaseLock(a) \/ ReleaseFails(a)

Proceed(a) == Forward(a) \/ Backward(a)

Next ==
    \/ \E a \in Actors : Begin(a) \/ Proceed(a) \/ Crash(a)
    \/ ServiceWrites
    \/ UserStopsService

\* An operation under way goes on: every wait in it has a deadline. Nobody has
\* to start an operation, write data or stop the service.
Fairness == \A a \in Actors : WF_vars(Proceed(a))

Spec == Init /\ [][Next]_vars /\ Fairness

-----------------------------------------------------------------------------
(* Properties *)

OpIds == 1 .. MaxOps
WriteIds == MaxOps + 1 .. MaxOps + MaxWrites
ContentType(t) == IF t = "current" THEN SUBSET Versions ELSE SUBSET (OpIds \cup WriteIds)

FilesTyped(files, targets) ==
    DOMAIN files = targets /\ \A t \in targets : files[t] \in ContentType(t)

SnapshotTyped(s) ==
    /\ s.id \in OpIds
    /\ s.loaded \in BOOLEAN
    /\ DOMAIN s.files \subseteq Paths
    /\ FilesTyped(s.files, DOMAIN s.files)

\* Every target holds what an operation staged or the service wrote, the
\* current pointer names releases (pointCurrentAtomically, restoreSnapshot), and
\* an operation that replaces or restores has a target left to do.
TypeOK ==
    /\ FilesTyped(disk, Paths)
    /\ \A s \in snapshots : SnapshotTyped(s)
    /\ loaded \in BOOLEAN
    /\ lock \in Actors \cup {"free", "stale"}
    /\ \A a \in Actors :
        /\ pc[a] \in {"idle", "planned", "snapshot", "replace", "bootout", "bootstrap",
                      "health", "receipt", "unwind", "restore", "restart", "release"}
        /\ \A s \in {op[a].plan, op[a].own} : s = NoSnapshot \/ SnapshotTyped(s)
        /\ op[a].result \in {"open", "done", "failed", "broken"}
        /\ todo[a] \subseteq Paths
        /\ pc[a] \in {"replace", "restore"} => todo[a] # {}
        /\ FilesTyped(op[a].before, Paths)
    /\ userData \subseteq WriteIds

\* Whoever changes targets, snapshots or the service holds the lock, so no two
\* operations do, and whoever holds it is at work: no path out of an operation
\* forgets it (acquireLock, and the finally blocks that release it).
OneMutator == \A a \in Actors : Working(a) <=> lock = a

\* What the user's service wrote while no operation ran is in the workspace or in
\* a complete snapshot, whichever operations follow, fail or crash
\* (snapshotTargets before replaceWithStaged and restoreSnapshot).
UserDataKept ==
    \A w \in userData :
        \/ w \in disk["workspace"]
        \/ \E s \in snapshots : "workspace" \in DOMAIN s.files /\ w \in s.files["workspace"]

\* The disk holds what it held under `files`, and the workspace maybe more.
Holds(files) ==
    \A t \in DOMAIN files :
        IF t = "workspace" THEN files[t] \subseteq disk[t] ELSE disk[t] = files[t]

Unmanaged(a) == [t \in Paths \ ManagedTargets(op[a]) |-> op[a].before[t]]

\* An operation that ends has done all of it or nothing: each managed target is
\* the new one, or the one the rolled back snapshot held, or, after a failure
\* whose undoing did not fail too, what it was when the lock was taken.
AllOrNothing ==
    \A a \in Actors : At(a, "release") =>
        LET o == op[a] IN
        /\ o.result = "failed" => Holds(o.before)
        /\ o.result = "done" =>
            /\ Holds(Unmanaged(a))
            /\ IF o.kind = "rollback" THEN Holds(o.plan.files)
               ELSE Holds([t \in ManagedTargets(o) |-> Staged(o, t)])

\* Every operation that takes the lock comes to an end and gives it back, or
\* leaves it stale by a crash or a failed removal: undoing never undoes forever.
LockGivenBack == \A a \in Actors : lock = a ~> lock # a

\* "an existing GPAO-T destination can be snapshotted without concurrent runtime
\* writes" (installer/README.md): no install snapshots under a loaded service.
SnapshotWithoutRuntime ==
    \A a \in Actors : At(a, "snapshot") => ~loaded

-----------------------------------------------------------------------------
(* The abstract release: the programs, as the operation under way will leave *)
(* them unless it succeeds.                                                 *)

WithoutUserData(files) == [t \in DOMAIN files \ {"workspace"} |-> files[t]]

\* An operation counts once its receipt is written, or its undoing has failed.
Undecided == lock \in Actors /\ op[lock].result \in {"open", "failed"}

Visible == WithoutUserData(IF Undecided THEN op[lock].before ELSE disk)

Release == INSTANCE InstalledRelease WITH
    Ids <- OpIds,
    installed <- Visible,
    kept <- {WithoutUserData(s.files) : s \in snapshots}

\* However its steps fail, crash and undo, the installer replaces a release as a
\* whole, never before what it replaces is in a complete snapshot, and damages
\* it only through a fault, within the targets of one change (applyInstall and
\* applyRollback: snapshotTargets, the receipt, the catch blocks).
ImplementsRelease == Release!Spec
=============================================================================
