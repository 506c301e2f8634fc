--------------------------- MODULE Installer_proofs ---------------------------
(***************************************************************************)
(* Theorems about Installer, for any number of processes, releases,          *)
(* operations, writes and faults.                                           *)
(***************************************************************************)
EXTENDS Installer, TLAPS

(***************************************************************************)
(* The invariant.                                                           *)
(***************************************************************************)

OpFields == {"kind", "id", "version", "migrate", "before", "plan", "own", "wasLoaded",
             "started", "restarted", "result"}

Shape ==
    /\ DOMAIN pc = Actors /\ DOMAIN op = Actors /\ DOMAIN todo = Actors
    /\ \A a \in Actors : DOMAIN op[a] = OpFields

\* An operation is one of the two kinds, and owns no snapshot before it has
\* the lock.
KindKnown == \A a \in Actors : pc[a] # "idle" => op[a].kind \in {"install", "rollback"}
OwnsNothing == \A a \in Actors : pc[a] \in {"idle", "planned"} => op[a].own = NoSnapshot

\* What is replaced or restored is in the snapshot the operation owns.
TodoCovered ==
    \A a \in Actors :
        pc[a] \in {"replace", "restore"} => todo[a] \subseteq DOMAIN op[a].own.files

Control == Shape /\ OneMutator /\ KindKnown /\ OwnsNothing /\ TodoCovered

Snapped(w) ==
    \E s \in snapshots : "workspace" \in DOMAIN s.files /\ w \in s.files["workspace"]
AllSnapped == \A w \in userData : Snapped(w)

\* An operation that owns a snapshot of the workspace has all user data in
\* snapshots.
OwnSnapped ==
    \A a \in Actors : "workspace" \in DOMAIN op[a].own.files => AllSnapped

Data == DOMAIN disk = Paths /\ OwnSnapped /\ UserDataKept

(***************************************************************************)
(* Control.                                                                 *)
(***************************************************************************)

\* A step inside an operation keeps the lock with the process that holds it.
LEMMA InsideKeeps ==
    ASSUME Control, NEW a \in Actors, Working(a), lock' = lock,
           NEW step, step \notin {"idle", "planned"},
           NEW o, DOMAIN o = OpFields, o.kind = op[a].kind,
           NEW rest, Go(a, step, o, rest),
           step \in {"replace", "restore"} => rest \subseteq DOMAIN o.own.files
    PROVE  Control'
  <1>1. /\ Shape'
        /\ pc'[a] = step /\ op'[a] = o /\ todo'[a] = rest
        /\ \A b \in Actors \ {a} : pc'[b] = pc[b] /\ op'[b] = op[b] /\ todo'[b] = todo[b]
    BY DEF Control, Shape, Go
  <1>2. OneMutator'
    BY <1>1 DEF Control, OneMutator, Working
  <1>3. KindKnown' /\ OwnsNothing'
    BY <1>1 DEF Control, KindKnown, OwnsNothing, Working
  <1>4. TodoCovered'
    BY <1>1 DEF Control, TodoCovered
  <1> QED BY <1>1, <1>2, <1>3, <1>4 DEF Control

\* A process that leaves its operation leaves no lock of its own behind.
LEMMA LeavingKeeps ==
    ASSUME Control, NEW a \in Actors, Go(a, "idle", NoOp, {}),
           Working(a) => lock' \in {"free", "stale"},
           ~Working(a) => lock' = lock \/ (lock \notin Actors /\ lock' = "stale")
    PROVE  Control'
  <1>1. /\ Shape'
        /\ pc'[a] = "idle" /\ op'[a] = NoOp
        /\ \A b \in Actors \ {a} : pc'[b] = pc[b] /\ op'[b] = op[b] /\ todo'[b] = todo[b]
    BY DEF Control, Shape, Go, NoOp, OpFields
  <1>2. OneMutator'
    BY <1>1, InstallerAssumption DEF Control, OneMutator, Working
  <1>3. KindKnown' /\ OwnsNothing'
    BY <1>1 DEF Control, KindKnown, OwnsNothing, NoOp
  <1>4. TodoCovered'
    BY <1>1 DEF Control, TodoCovered
  <1> QED BY <1>1, <1>2, <1>3, <1>4 DEF Control

\* A planned operation holds no lock.
LEMMA PlanningKeeps ==
    ASSUME Control, NEW a \in Actors, NEW o, StartOp(a, o),
           DOMAIN o = OpFields, o.kind \in {"install", "rollback"}, o.own = NoSnapshot
    PROVE  Control'
  <1>1. /\ Shape'
        /\ pc[a] = "idle" /\ pc'[a] = "planned" /\ op'[a] = o /\ lock' = lock
        /\ \A b \in Actors \ {a} : pc'[b] = pc[b] /\ op'[b] = op[b] /\ todo'[b] = todo[b]
    BY DEF Control, Shape, StartOp, Go, At
  <1>2. OneMutator'
    BY <1>1 DEF Control, OneMutator, Working
  <1>3. KindKnown' /\ OwnsNothing'
    BY <1>1 DEF Control, KindKnown, OwnsNothing
  <1>4. TodoCovered'
    BY <1>1 DEF Control, TodoCovered
  <1> QED BY <1>1, <1>2, <1>3, <1>4 DEF Control

\* mkdir gives the lock to a process when nobody works.
LEMMA AcquiringKeeps ==
    ASSUME Control, NEW a \in Actors, AcquireLock(a)
    PROVE  Control'
  <1>1. /\ Shape'
        /\ pc[a] = "planned" /\ lock = "free" /\ lock' = a
        /\ pc'[a] \in {"snapshot", "bootout"} /\ op'[a].kind = op[a].kind
        /\ \A b \in Actors \ {a} : pc'[b] = pc[b] /\ op'[b] = op[b] /\ todo'[b] = todo[b]
    BY DEF Control, Shape, AcquireLock, FirstStep, Go, At, OpFields
  <1>2. OneMutator'
    BY <1>1, InstallerAssumption DEF Control, OneMutator, Working
  <1>3. KindKnown' /\ OwnsNothing'
    BY <1>1 DEF Control, KindKnown, OwnsNothing
  <1>4. TodoCovered'
    BY <1>1 DEF Control, TodoCovered
  <1> QED BY <1>1, <1>2, <1>3, <1>4 DEF Control

\* Nobody works before the first operation.
LEMMA ControlInit == Init => Control
  BY InstallerAssumption
     DEF Init, Control, Shape, OneMutator, Working, KindKnown, OwnsNothing, TodoCovered,
         NoOp, OpFields

\* Planning: every new operation is of a kind and owns nothing.
LEMMA BeginKeeps ==
    ASSUME Control, NEW a \in Actors, Begin(a)
    PROVE  Control'
  <1>1. CASE \E install \in Installs : CheckInstall(a, install)
    <2>1. PICK install \in Installs : CheckInstall(a, install)
      BY <1>1
    <2> DEFINE o == [NoOp EXCEPT !.kind = "install", !.id = ops + 1,
                        !.version = install.version, !.migrate = install.migrate]
    <2>2. StartOp(a, o)
      BY <2>1 DEF CheckInstall
    <2>3. DOMAIN o = OpFields /\ o.kind = "install" /\ o.own = NoSnapshot
      BY DEF NoOp, OpFields
    <2> HIDE DEF o
    <2> QED BY <2>2, <2>3, PlanningKeeps
  <1>2. CASE \E s \in snapshots : PlanRollback(a, s)
    <2>1. PICK s \in snapshots : PlanRollback(a, s)
      BY <1>2
    <2> DEFINE o == [NoOp EXCEPT !.kind = "rollback", !.id = ops + 1, !.plan = s]
    <2>2. StartOp(a, o)
      BY <2>1 DEF PlanRollback
    <2>3. DOMAIN o = OpFields /\ o.kind = "rollback" /\ o.own = NoSnapshot
      BY DEF NoOp, OpFields
    <2> HIDE DEF o
    <2> QED BY <2>2, <2>3, PlanningKeeps
  <1> QED BY <1>1, <1>2 DEF Begin

\* Undoing starts with nothing left to replace.
LEMMA UnwindKeeps ==
    ASSUME Control, NEW a \in Actors, Working(a), lock' = lock, Unwind(a)
    PROVE  Control'
  <1> DEFINE o == [op[a] EXCEPT !.result = "failed"]
  <1>1. DOMAIN o = OpFields /\ o.kind = op[a].kind
    BY DEF Control, Shape, OpFields
  <1>2. Go(a, "unwind", o, {})
    BY DEF Unwind
  <1> HIDE DEF o
  <1> QED BY <1>1, <1>2, InsideKeeps

\* The steps of an operation up to its end.
LEMMA ForwardKeeps ==
    ASSUME Control, NEW a \in Actors, Forward(a)
    PROVE  Control'
  <1>0. DOMAIN op[a] = OpFields
    BY DEF Control, Shape
  <1>1. CASE AcquireLock(a)
    BY <1>1, AcquiringKeeps
  <1>2. CASE Refused(a)
    BY <1>2, LeavingKeeps DEF Refused, At, Working
  <1>3. CASE AcquireFails(a)
    BY <1>3, LeavingKeeps, InstallerAssumption DEF AcquireFails, At, Working
  <1>4. CASE SnapshotTargets(a)
    <2> DEFINE o == [op[a] EXCEPT !.own = SnapshotOf(op[a])]
    <2>1. Working(a) /\ lock' = lock
      BY <1>4 DEF SnapshotTargets, At, Working, SameRun
    <2>2. DOMAIN o = OpFields /\ o.kind = op[a].kind
      BY <1>0 DEF OpFields
    <2>3. DOMAIN o.own.files = ManagedTargets(op[a])
      BY <1>0 DEF OpFields, SnapshotOf
    <2>4. ManagedTargets(o) = ManagedTargets(op[a]) /\ o.plan = op[a].plan
      BY <1>0 DEF OpFields, ManagedTargets
    <2>5. IF o.kind = "install" THEN Go(a, "replace", o, ManagedTargets(o))
                                ELSE Go(a, "restore", o, DOMAIN o.plan.files)
      BY <1>4 DEF SnapshotTargets
    <2> HIDE DEF o
    <2>6. o.kind # "install" => DOMAIN o.plan.files = ManagedTargets(op[a])
      <3>1. At(a, "snapshot")
        BY <1>4 DEF SnapshotTargets
      <3> QED BY <2>2, <2>4, <3>1 DEF At, Control, KindKnown, ManagedTargets
    <2>7. CASE o.kind = "install"
      BY <2>1, <2>2, <2>3, <2>4, <2>5, <2>7, InsideKeeps
    <2>8. CASE o.kind # "install"
      BY <2>1, <2>2, <2>3, <2>5, <2>6, <2>8, InsideKeeps
    <2> QED BY <2>7, <2>8
  <1>5. ASSUME NEW t \in todo[a], ReplaceWithStaged(a, t)
        PROVE  Control'
    <2>1. /\ At(a, "replace") /\ Working(a) /\ lock' = lock
          /\ Go(a, IF todo[a] = {t} THEN "bootout" ELSE "replace", op[a], todo[a] \ {t})
      BY <1>5 DEF ReplaceWithStaged, At, Working, SameRun
    <2>2. todo[a] \ {t} \subseteq DOMAIN op[a].own.files
      BY <2>1 DEF Control, TodoCovered, At
    <2> QED BY <1>0, <2>1, <2>2, InsideKeeps
  <1>6. ASSUME NEW t \in todo[a], ReplaceFails(a, t)
        PROVE  Control'
    BY <1>6, UnwindKeeps DEF ReplaceFails, At, Working, SameRun
  <1>7. CASE BootoutService(a)
    <2> DEFINE o == [op[a] EXCEPT !.started = FALSE]
    <2>1. /\ Working(a) /\ lock' = lock
          /\ Go(a, IF o.kind = "install" THEN "bootstrap" ELSE "snapshot", o, {})
      BY <1>7 DEF BootoutService, At, Working, SameRun
    <2>2. DOMAIN o = OpFields /\ o.kind = op[a].kind
      BY <1>0 DEF OpFields
    <2> HIDE DEF o
    <2> QED BY <2>1, <2>2, InsideKeeps
  <1>8. CASE BootoutFails(a)
    BY <1>8, UnwindKeeps DEF BootoutFails, At, Working, SameRun
  <1>9. CASE BootstrapService(a)
    <2> DEFINE o == [op[a] EXCEPT !.started = TRUE]
    <2>1. /\ Working(a) /\ lock' = lock
          /\ Go(a, AfterBootstrap(op[a]), o, {})
      BY <1>9 DEF BootstrapService, At, Working, SameRun
    <2>2. DOMAIN o = OpFields /\ o.kind = op[a].kind
      BY <1>0 DEF OpFields
    <2> HIDE DEF o
    <2> QED BY <2>1, <2>2, InsideKeeps DEF AfterBootstrap
  <1>10. CASE BootstrapFails(a)
    BY <1>10, UnwindKeeps DEF BootstrapFails, At, Working, SameRun
  <1>11. CASE RestartForPeerLinks(a)
    <2> DEFINE o == [op[a] EXCEPT !.restarted = TRUE]
    <2>1. Working(a) /\ lock' = lock /\ Go(a, "bootout", o, {})
      BY <1>11 DEF RestartForPeerLinks, At, Working, SameRun
    <2>2. DOMAIN o = OpFields /\ o.kind = op[a].kind
      BY <1>0 DEF OpFields
    <2> HIDE DEF o
    <2> QED BY <2>1, <2>2, InsideKeeps
  <1>12. CASE HealthCheck(a)
    BY <1>0, <1>12, InsideKeeps DEF HealthCheck, At, Working, SameRun
  <1>13. CASE HealthCheckFails(a)
    BY <1>13, UnwindKeeps DEF HealthCheckFails, At, Working, SameRun
  <1>14. CASE WriteReceipt(a)
    <2> DEFINE o == [op[a] EXCEPT !.result = "done"]
    <2>1. Working(a) /\ lock' = lock /\ Go(a, "release", o, {})
      BY <1>14 DEF WriteReceipt, At, Working, SameRun
    <2>2. DOMAIN o = OpFields /\ o.kind = op[a].kind
      BY <1>0 DEF OpFields
    <2> HIDE DEF o
    <2> QED BY <2>1, <2>2, InsideKeeps
  <1>15. CASE StepFails(a)
    BY <1>15, UnwindKeeps DEF StepFails, At, Working, SameRun
  <1> QED BY <1>1, <1>2, <1>3, <1>4, <1>5, <1>6, <1>7, <1>8, <1>9, <1>10, <1>11,
             <1>12, <1>13, <1>14, <1>15 DEF Forward

\* The steps that undo an operation and leave it.
LEMMA BackwardKeeps ==
    ASSUME Control, NEW a \in Actors, Backward(a)
    PROVE  Control'
  <1>0. DOMAIN op[a] = OpFields
    BY DEF Control, Shape
  <1>1. CASE CatchError(a)
    <2>1. Working(a) /\ lock' = lock
      BY <1>1 DEF CatchError, At, Working, SameRun
    <2>2. \/ Go(a, "release", op[a], {})
          \/ Go(a, "restore", op[a], DOMAIN op[a].own.files)
      BY <1>1 DEF CatchError
    <2> QED BY <1>0, <2>1, <2>2, InsideKeeps
  <1>2. ASSUME NEW t \in todo[a], RestoreSnapshot(a, t)
        PROVE  Control'
    <2> DEFINE step == IF todo[a] = {t} THEN AfterRestore(op[a]) ELSE "restore"
    <2>1. /\ At(a, "restore") /\ Working(a) /\ lock' = lock
          /\ Go(a, step, op[a], todo[a] \ {t})
      BY <1>2 DEF RestoreSnapshot, At, Working, SameRun
    <2>2. todo[a] \ {t} \subseteq DOMAIN op[a].own.files
      BY <2>1 DEF Control, TodoCovered, At
    <2>3. step \notin {"idle", "planned"}
      BY DEF AfterRestore
    <2> HIDE DEF step
    <2> QED BY <1>0, <2>1, <2>2, <2>3, InsideKeeps
  <1>3. ASSUME NEW t \in todo[a], RestoreFails(a, t)
        PROVE  Control'
    <2>1. Working(a) /\ lock' = lock
      BY <1>3 DEF RestoreFails, At, Working, SameRun
    <2>2. CASE op[a].result = "failed"
      <3> DEFINE o == [op[a] EXCEPT !.result = "broken"]
      <3>1. Go(a, AfterRestore(op[a]), o, {})
        BY <1>3, <2>2 DEF RestoreFails
      <3>2. DOMAIN o = OpFields /\ o.kind = op[a].kind
        BY <1>0 DEF OpFields
      <3>3. AfterRestore(op[a]) \notin {"idle", "planned"}
        BY DEF AfterRestore
      <3> HIDE DEF o
      <3> QED BY <2>1, <3>1, <3>2, <3>3, InsideKeeps
    <2>3. CASE op[a].result # "failed"
      BY <1>3, <2>1, <2>3, UnwindKeeps DEF RestoreFails
    <2> QED BY <2>2, <2>3
  <1>4. CASE RestartFromGuard(a)
    <2>1. Working(a) /\ lock' = lock /\ Go(a, "release", op[a], {})
      BY <1>4 DEF RestartFromGuard, At, Working, SameRun
    <2> QED BY <1>0, <2>1, InsideKeeps
  <1>5. CASE ReleaseLock(a)
    BY <1>5, LeavingKeeps DEF ReleaseLock, At, Working
  <1>6. CASE ReleaseFails(a)
    BY <1>6, LeavingKeeps DEF ReleaseFails, At, Working
  <1> QED BY <1>1, <1>2, <1>3, <1>4, <1>5, <1>6 DEF Backward

\* A process that dies leaves its lock stale.
LEMMA CrashKeeps ==
    ASSUME Control, NEW a \in Actors, Crash(a)
    PROVE  Control'
  <1>1. /\ Go(a, "idle", NoOp, {})
        /\ lock' = IF lock = a THEN "stale" ELSE lock
    BY DEF Crash
  <1>2. Working(a) <=> lock = a
    BY DEF Control, OneMutator
  <1> QED BY <1>1, <1>2, LeavingKeeps

\* The service, the user and a stutter leave every operation alone.
LEMMA OutsideKeeps ==
    ASSUME Control, UNCHANGED <<lock, pc, op, todo>>
    PROVE  Control'
  BY DEF Control, Shape, OneMutator, Working, KindKnown, OwnsNothing, TodoCovered

\* Every step preserves the control invariant.
LEMMA ControlNext == Control /\ [Next]_vars => Control'
  <1> SUFFICES ASSUME Control, [Next]_vars PROVE Control'
    OBVIOUS
  <1>1. ASSUME NEW a \in Actors, Begin(a) PROVE Control'
    BY <1>1, BeginKeeps
  <1>2. ASSUME NEW a \in Actors, Proceed(a) PROVE Control'
    BY <1>2, ForwardKeeps, BackwardKeeps DEF Proceed
  <1>3. ASSUME NEW a \in Actors, Crash(a) PROVE Control'
    BY <1>3, CrashKeeps
  <1>4. CASE ServiceWrites
    BY <1>4, OutsideKeeps DEF ServiceWrites
  <1>5. CASE UserStopsService
    BY <1>5, OutsideKeeps DEF UserStopsService
  <1>6. CASE UNCHANGED vars
    BY <1>6, OutsideKeeps DEF vars
  <1> QED BY <1>1, <1>2, <1>3, <1>4, <1>5, <1>6 DEF Next

\* One process at most changes the installation, it holds the lock, and every
\* way out of an operation gives the lock back or leaves it stale.
THEOREM Mutual_Exclusion == Spec => []OneMutator
  <1>1. Control => OneMutator
    BY DEF Control
  <1> QED BY <1>1, ControlInit, ControlNext, PTL DEF Spec

(***************************************************************************)
(* User data.                                                               *)
(***************************************************************************)

\* A step that takes no data from the workspace before all of it is in
\* snapshots, and gives no operation a new snapshot before that, keeps it.
LEMMA SameDataKeeps ==
    ASSUME Data, userData' = userData, snapshots \subseteq snapshots',
           DOMAIN disk' = Paths, disk'["workspace"] = disk["workspace"] \/ AllSnapped,
           \A b \in Actors : \/ op'[b].own = op[b].own
                             \/ op'[b].own = NoSnapshot
                             \/ AllSnapped'
    PROVE  Data'
  <1>1. AllSnapped => AllSnapped'
    BY DEF AllSnapped, Snapped
  <1>2. OwnSnapped'
    <2> SUFFICES ASSUME NEW b \in Actors, "workspace" \in DOMAIN op'[b].own.files
                 PROVE  AllSnapped'
      BY DEF OwnSnapped
    <2>1. CASE op'[b].own = op[b].own
      BY <1>1, <2>1 DEF Data, OwnSnapped
    <2>2. CASE op'[b].own = NoSnapshot
      BY <2>2 DEF NoSnapshot
    <2> QED BY <2>1, <2>2
  <1>3. UserDataKept'
    BY <1>1 DEF Data, UserDataKept, AllSnapped, Snapped
  <1> QED BY <1>2, <1>3 DEF Data

\* A step of one process that leaves the disk alone, or changes a target it has
\* yet to replace or restore, and keeps the snapshot it owns or forgets it.
LEMMA StepKeepsData ==
    ASSUME Control, Data, NEW a \in Actors,
           NEW step, NEW o, NEW rest, Go(a, step, o, rest),
           o.own = op[a].own \/ o.own = NoSnapshot,
           UNCHANGED <<userData, snapshots>>,
           DOMAIN disk' = DOMAIN disk,
           \/ disk'["workspace"] = disk["workspace"]
           \/ pc[a] \in {"replace", "restore"} /\ "workspace" \in todo[a]
    PROVE  Data'
  <1>1. \A b \in Actors : op'[b].own = op[b].own \/ op'[b].own = NoSnapshot
    BY DEF Control, Shape, Go
  <1>2. DOMAIN disk' = Paths
    BY DEF Data
  <1>3. disk'["workspace"] = disk["workspace"] \/ AllSnapped
    BY DEF Data, OwnSnapped, Control, TodoCovered
  <1> QED BY <1>1, <1>2, <1>3, SameDataKeeps

\* A target that is cut short is as it was, or removed.
LEMMA CutShortChanges ==
    ASSUME Data, NEW a \in Actors, NEW t \in todo[a], CutShort(a, t)
    PROVE  /\ pc[a] \in {"replace", "restore"}
           /\ DOMAIN disk' = DOMAIN disk
           /\ disk'["workspace"] = disk["workspace"] \/ t = "workspace"
  <1>1. pc[a] \in {"replace", "restore"} /\ disk' \in {disk, Removed(t)}
    BY Zenon DEF CutShort, At
  <1> QED BY <1>1 DEF Removed, Data, Paths, Fixed

\* Snapshotting the workspace puts all user data in snapshots.
LEMMA SnapshotKeepsData ==
    ASSUME Control, Data, NEW a \in Actors, SnapshotTargets(a)
    PROVE  Data'
  <1> DEFINE o == [op[a] EXCEPT !.own = SnapshotOf(op[a])]
  <1>1. /\ snapshots' = snapshots \cup {SnapshotOf(op[a])}
        /\ UNCHANGED <<userData, disk>>
    BY DEF SnapshotTargets, SameRun
  <1>2. op' = [op EXCEPT ![a] = o]
    BY DEF SnapshotTargets, Go
  <1>3. o.own = SnapshotOf(op[a])
    BY DEF Control, Shape, OpFields
  <1> HIDE DEF o
  <1>4. \A b \in Actors \ {a} : op'[b] = op[b]
    BY <1>2 DEF Control, Shape
  <1>5. op'[a].own = SnapshotOf(op[a])
    BY <1>2, <1>3 DEF Control, Shape
  <1>6. CASE "workspace" \in ManagedTargets(op[a])
    <2>1. /\ "workspace" \in DOMAIN SnapshotOf(op[a]).files
          /\ SnapshotOf(op[a]).files["workspace"] = disk["workspace"]
      BY <1>6 DEF SnapshotOf
    <2>2. AllSnapped'
      BY <1>1, <2>1 DEF AllSnapped, Snapped, Data, UserDataKept
    <2> QED BY <1>1, <1>4, <2>2, SameDataKeeps DEF Data
  <1>7. CASE "workspace" \notin ManagedTargets(op[a])
    <2>1. "workspace" \notin DOMAIN op'[a].own.files
      BY <1>5, <1>7 DEF SnapshotOf
    <2>2. AllSnapped => AllSnapped'
      BY <1>1 DEF AllSnapped, Snapped
    <2>3. OwnSnapped'
      BY <1>4, <2>1, <2>2 DEF OwnSnapped, Data
    <2>4. UserDataKept'
      BY <1>1 DEF Data, UserDataKept
    <2> QED BY <1>1, <2>3, <2>4 DEF Data
  <1> QED BY <1>6, <1>7

\* Before the lock no operation owns a snapshot, and none changes a target.
LEMMA BeginKeepsData ==
    ASSUME Control, Data, NEW a \in Actors, Begin(a)
    PROVE  Data'
  <1>1. PICK o : StartOp(a, o) /\ o.own = NoSnapshot
    <2>1. CASE \E install \in Installs : CheckInstall(a, install)
      <3>1. PICK install \in Installs : CheckInstall(a, install)
        BY <2>1
      <3> WITNESS [NoOp EXCEPT !.kind = "install", !.id = ops + 1,
                    !.version = install.version, !.migrate = install.migrate]
      <3> QED BY <3>1 DEF CheckInstall, NoOp
    <2>2. CASE \E s \in snapshots : PlanRollback(a, s)
      <3>1. PICK s \in snapshots : PlanRollback(a, s)
        BY <2>2
      <3> WITNESS [NoOp EXCEPT !.kind = "rollback", !.id = ops + 1, !.plan = s]
      <3> QED BY <3>1 DEF PlanRollback, NoOp
    <2> QED BY <2>1, <2>2 DEF Begin
  <1>2. Go(a, "planned", o, {}) /\ UNCHANGED <<disk, snapshots, userData>>
    BY <1>1 DEF StartOp
  <1> QED BY <1>1, <1>2, StepKeepsData

\* A failing step only records that it failed.
LEMMA UnwindKeepsData ==
    ASSUME Control, Data, NEW a \in Actors, Unwind(a),
           UNCHANGED <<userData, snapshots>>, DOMAIN disk' = DOMAIN disk,
           \/ disk'["workspace"] = disk["workspace"]
           \/ pc[a] \in {"replace", "restore"} /\ "workspace" \in todo[a]
    PROVE  Data'
  <1> DEFINE o == [op[a] EXCEPT !.result = "failed"]
  <1>1. o.own = op[a].own
    BY DEF Control, Shape, OpFields
  <1>2. Go(a, "unwind", o, {})
    BY DEF Unwind
  <1> HIDE DEF o
  <1> QED BY <1>1, <1>2, StepKeepsData

\* The steps of an operation up to its end.
LEMMA ForwardKeepsData ==
    ASSUME Control, Data, NEW a \in Actors, Forward(a)
    PROVE  Data'
  <1>0. DOMAIN op[a] = OpFields
    BY DEF Control, Shape
  <1>1. CASE AcquireLock(a)
    <2>1. /\ op' = [op EXCEPT ![a] = [op[a] EXCEPT !.before = disk, !.wasLoaded = loaded]]
          /\ UNCHANGED <<disk, snapshots, userData>>
      BY <1>1 DEF AcquireLock, Go
    <2>2. \A b \in Actors : op'[b].own = op[b].own
      BY <1>0, <2>1 DEF Control, Shape, OpFields
    <2> QED BY <2>1, <2>2, SameDataKeeps DEF Data
  <1>2. CASE Refused(a) \/ AcquireFails(a)
    <2>1. Go(a, "idle", NoOp, {}) /\ UNCHANGED <<disk, snapshots, userData>>
      BY <1>2 DEF Refused, AcquireFails
    <2> QED BY <2>1, StepKeepsData DEF NoOp
  <1>3. CASE SnapshotTargets(a)
    BY <1>3, SnapshotKeepsData
  <1>4. ASSUME NEW t \in todo[a], ReplaceWithStaged(a, t)
        PROVE  Data'
    <2>1. /\ pc[a] = "replace"
          /\ Go(a, IF todo[a] = {t} THEN "bootout" ELSE "replace", op[a], todo[a] \ {t})
          /\ UNCHANGED <<snapshots, userData>>
      BY <1>4 DEF ReplaceWithStaged, At, SameRun
    <2>2. DOMAIN disk' = DOMAIN disk /\ (disk'["workspace"] = disk["workspace"] \/ t = "workspace")
      BY <1>4 DEF ReplaceWithStaged
    <2> QED BY <2>1, <2>2, StepKeepsData
  <1>5. ASSUME NEW t \in todo[a], ReplaceFails(a, t)
        PROVE  Data'
    <2>1. CutShort(a, t) /\ Unwind(a) /\ UNCHANGED <<snapshots, userData>>
      BY <1>5 DEF ReplaceFails, SameRun
    <2> QED BY <2>1, CutShortChanges, UnwindKeepsData
  <1>6. CASE \/ BootoutService(a) \/ BootstrapService(a) \/ RestartForPeerLinks(a)
             \/ HealthCheck(a) \/ WriteReceipt(a)
    <2>1. UNCHANGED <<disk, snapshots, userData>>
      BY <1>6 DEF BootoutService, BootstrapService, RestartForPeerLinks, HealthCheck,
                  WriteReceipt, SameFiles, SameRun
    <2>2. PICK step, o, rest : Go(a, step, o, rest) /\ o.own = op[a].own
      <3>1. /\ [op[a] EXCEPT !.started = FALSE].own = op[a].own
            /\ [op[a] EXCEPT !.started = TRUE].own = op[a].own
            /\ [op[a] EXCEPT !.restarted = TRUE].own = op[a].own
            /\ [op[a] EXCEPT !.result = "done"].own = op[a].own
        BY <1>0 DEF OpFields
      <3> QED BY <1>6, <3>1, Zenon DEF BootoutService, BootstrapService, RestartForPeerLinks,
                                HealthCheck, WriteReceipt
    <2> QED BY <2>1, <2>2, StepKeepsData
  <1>7. CASE BootoutFails(a) \/ BootstrapFails(a) \/ HealthCheckFails(a) \/ StepFails(a)
    BY <1>7, UnwindKeepsData
       DEF BootoutFails, BootstrapFails, HealthCheckFails, StepFails, SameFiles, SameRun
  <1> QED BY <1>1, <1>2, <1>3, <1>4, <1>5, <1>6, <1>7 DEF Forward

\* Undoing gives the workspace back what the own snapshot holds.
LEMMA BackwardKeepsData ==
    ASSUME Control, Data, NEW a \in Actors, Backward(a)
    PROVE  Data'
  <1>0. DOMAIN op[a] = OpFields
    BY DEF Control, Shape
  <1>1. CASE CatchError(a)
    <2>1. PICK step, rest : Go(a, step, op[a], rest)
      BY <1>1, Zenon DEF CatchError
    <2>2. UNCHANGED <<disk, snapshots, userData>>
      BY <1>1 DEF CatchError, SameFiles, SameRun
    <2> QED BY <2>1, <2>2, StepKeepsData
  <1>2. ASSUME NEW t \in todo[a], RestoreSnapshot(a, t)
        PROVE  Data'
    <2> DEFINE step == IF todo[a] = {t} THEN AfterRestore(op[a]) ELSE "restore"
    <2>1. /\ pc[a] = "restore"
          /\ Go(a, step, op[a], todo[a] \ {t})
          /\ UNCHANGED <<snapshots, userData>>
      BY <1>2 DEF RestoreSnapshot, At, SameRun
    <2>2. DOMAIN disk' = DOMAIN disk /\ (disk'["workspace"] = disk["workspace"] \/ t = "workspace")
      BY <1>2 DEF RestoreSnapshot
    <2> HIDE DEF step
    <2> QED BY <2>1, <2>2, StepKeepsData
  <1>3. ASSUME NEW t \in todo[a], RestoreFails(a, t)
        PROVE  Data'
    <2>1. CutShort(a, t) /\ UNCHANGED <<snapshots, userData>>
      BY <1>3 DEF RestoreFails, SameRun
    <2>2. CASE op[a].result = "failed"
      <3> DEFINE o == [op[a] EXCEPT !.result = "broken"]
      <3>1. Go(a, AfterRestore(op[a]), o, {})
        BY <1>3, <2>2 DEF RestoreFails
      <3>2. o.own = op[a].own
        BY <1>0 DEF OpFields
      <3> HIDE DEF o
      <3> QED BY <2>1, <3>1, <3>2, CutShortChanges, StepKeepsData
    <2>3. CASE op[a].result # "failed"
      BY <1>3, <2>1, <2>3, CutShortChanges, UnwindKeepsData DEF RestoreFails
    <2> QED BY <2>2, <2>3
  <1>4. CASE RestartFromGuard(a)
    <2>1. Go(a, "release", op[a], {}) /\ UNCHANGED <<disk, snapshots, userData>>
      BY <1>4 DEF RestartFromGuard, SameFiles, SameRun
    <2> QED BY <2>1, StepKeepsData
  <1>5. CASE ReleaseLock(a) \/ ReleaseFails(a)
    <2>1. Go(a, "idle", NoOp, {}) /\ UNCHANGED <<disk, snapshots, userData>>
      BY <1>5 DEF ReleaseLock, ReleaseFails
    <2> QED BY <2>1, StepKeepsData DEF NoOp
  <1> QED BY <1>1, <1>2, <1>3, <1>4, <1>5 DEF Backward

\* A crash may leave the workspace removed, but only after it is in a snapshot.
LEMMA CrashKeepsData ==
    ASSUME Control, Data, NEW a \in Actors, Crash(a)
    PROVE  Data'
  <1>1. Go(a, "idle", NoOp, {}) /\ UNCHANGED <<snapshots, userData>>
    BY DEF Crash
  <1>2. disk' = disk \/ \E t \in todo[a] : CutShort(a, t)
    BY DEF Crash
  <1> QED BY <1>1, <1>2, CutShortChanges, StepKeepsData DEF NoOp

\* User data counts only while no operation runs, when none owns a snapshot.
LEMMA ServiceKeepsData ==
    ASSUME Control, Data, ServiceWrites
    PROVE  Data'
  <1> DEFINE w == MaxOps + writes + 1
  <1>1. /\ disk' = [disk EXCEPT !["workspace"] = @ \cup {w}]
        /\ userData' = IF lock \in Actors THEN userData ELSE userData \cup {w}
        /\ UNCHANGED <<snapshots, op>>
    BY DEF ServiceWrites
  <1> HIDE DEF w
  <1>2. DOMAIN disk' = Paths /\ disk'["workspace"] = disk["workspace"] \cup {w}
    BY <1>1 DEF Data, Paths, Fixed
  <1>3. UserDataKept'
    BY <1>1, <1>2 DEF Data, UserDataKept
  <1>4. CASE lock \in Actors
    BY <1>1, <1>2, <1>3, <1>4 DEF Data, OwnSnapped, AllSnapped, Snapped
  <1>5. CASE lock \notin Actors
    <2>1. \A a \in Actors : op'[a].own = NoSnapshot
      BY <1>1, <1>5 DEF Control, OneMutator, Working, OwnsNothing
    <2>2. OwnSnapped'
      BY <2>1 DEF OwnSnapped, NoSnapshot
    <2> QED BY <1>2, <1>3, <2>2 DEF Data
  <1> QED BY <1>4, <1>5

\* There is no user data before the first operation.
LEMMA DataInit == Init => Data
  BY DEF Init, Data, OwnSnapped, UserDataKept, EmptyDisk, NoOp, NoSnapshot

\* Every step preserves the data invariant.
LEMMA DataNext == Control /\ Data /\ [Next]_vars => Data'
  <1> SUFFICES ASSUME Control, Data, [Next]_vars PROVE Data'
    OBVIOUS
  <1>1. ASSUME NEW a \in Actors, Begin(a) PROVE Data'
    BY <1>1, BeginKeepsData
  <1>2. ASSUME NEW a \in Actors, Proceed(a) PROVE Data'
    BY <1>2, ForwardKeepsData, BackwardKeepsData DEF Proceed
  <1>3. ASSUME NEW a \in Actors, Crash(a) PROVE Data'
    BY <1>3, CrashKeepsData
  <1>4. CASE ServiceWrites
    BY <1>4, ServiceKeepsData
  <1>5. CASE UNCHANGED <<disk, snapshots, userData, op>>
    BY <1>5, SameDataKeeps DEF Data
  <1> QED BY <1>1, <1>2, <1>3, <1>4, <1>5 DEF Next, UserStopsService, vars

\* What the user's service wrote while no operation ran survives installs,
\* migrations, rollbacks, failures and crashes, in place or in a snapshot.
THEOREM User_Data_Safety == Spec => []UserDataKept
  <1>1. Data => UserDataKept
    BY DEF Data
  <1> QED BY <1>1, ControlInit, ControlNext, DataInit, DataNext, PTL DEF Spec

(***************************************************************************)
(* Types, and how far an operation has come.                                *)
(***************************************************************************)

PcSteps == {"idle", "planned", "snapshot", "replace", "bootout", "bootstrap", "health",
            "receipt", "unwind", "restore", "restart", "release"}

\* What a process at a point of an operation holds.
ActorTyped(step, o, rest) ==
    /\ step \in PcSteps
    /\ \A s \in {o.plan, o.own} : s = NoSnapshot \/ SnapshotTyped(s)
    /\ o.result \in {"open", "done", "failed", "broken"}
    /\ o.wasLoaded \in BOOLEAN
    /\ rest \subseteq Paths
    /\ step \in {"replace", "restore"} => rest # {}
    /\ FilesTyped(o.before, Paths)
    /\ step = "planned" => o.result = "open"
    /\ step # "idle" =>
        /\ o.id \in OpIds
        /\ o.kind = "install" => o.version \in Versions
        /\ o.kind = "rollback" => SnapshotTyped(o.plan) /\ DOMAIN o.plan.files # {}

\* What is outside the processes.
WorldTyped ==
    /\ FilesTyped(disk, Paths)
    /\ \A s \in snapshots : SnapshotTyped(s) /\ DOMAIN s.files # {}
    /\ loaded \in BOOLEAN
    /\ lock \in Actors \cup {"free", "stale"}
    /\ userData \subseteq WriteIds
    /\ ops \in Nat /\ ops <= MaxOps
    /\ writes \in Nat /\ writes <= MaxWrites

ActorsTyped == \A a \in Actors : ActorTyped(pc[a], op[a], todo[a])

\* The service may write to the workspace at any time.
Matches(t, before, after) ==
    IF t = "workspace" THEN before \subseteq after ELSE after = before

\* What the steps of an operation put in a target.
Wanted(o, t) ==
    IF o.result = "failed" THEN o.own.files[t]
    ELSE IF o.kind = "install" THEN Staged(o, t) ELSE o.plan.files[t]

StepFits(step, o) ==
    /\ step \in {"replace", "health"} => o.kind = "install"
    /\ step = "restart" => o.kind = "rollback"
    /\ step \in {"snapshot", "replace", "bootout", "bootstrap", "health", "receipt"}
          => o.result = "open"
    /\ step = "unwind" => o.result = "failed"
    /\ step = "restore" => o.result = "failed" \/ (o.result = "open" /\ o.kind = "rollback")
    /\ step = "restart" => o.result \in {"failed", "broken"}
    /\ step = "release" => o.result \in {"failed", "broken", "done"}

\* Before its snapshot an operation changes nothing.
Untouched(files, step, o) ==
    /\ o.result \in {"open", "failed"}
    /\ step \in {"snapshot", "unwind", "release"} \/ (step = "bootout" /\ o.kind = "rollback")
    /\ \A t \in Paths : Matches(t, o.before[t], files[t])

\* After it the snapshot holds what was there, and each target that is not left
\* to do is as wanted, unless undoing has failed too.
Undoable(files, step, o, rest) ==
    /\ DOMAIN o.own.files = ManagedTargets(o)
    /\ \A t \in ManagedTargets(o) : Matches(t, o.before[t], o.own.files[t])
    /\ step # "snapshot"
    /\ step = "bootout" => o.kind = "install"
    /\ step # "unwind" /\ o.result # "broken" =>
        \A t \in ManagedTargets(o) \ rest : Matches(t, Wanted(o, t), files[t])

ProgressOf(files, step, o, rest) ==
    /\ StepFits(step, o)
    /\ rest \subseteq ManagedTargets(o)
    /\ step \notin {"replace", "restore"} => rest = {}
    /\ \A t \in Paths \ ManagedTargets(o) : Matches(t, o.before[t], files[t])
    /\ IF o.own = NoSnapshot THEN Untouched(files, step, o)
                             ELSE Undoable(files, step, o, rest)

Progress == \A a \in Actors : Working(a) => ProgressOf(disk, pc[a], op[a], todo[a])

InstallInv == Control /\ WorldTyped /\ ActorsTyped /\ Progress

\* One process moves; the others stay as far as they were.
LEMMA MoveKeeps ==
    ASSUME InstallInv, NEW a \in Actors, NEW step, NEW o, NEW rest, Go(a, step, o, rest),
           WorldTyped', ActorTyped(step, o, rest),
           step \notin {"idle", "planned"} => ProgressOf(disk', step, o, rest),
           disk' = disk \/ Working(a)
    PROVE  WorldTyped' /\ ActorsTyped' /\ Progress'
  <1>1. /\ pc'[a] = step /\ op'[a] = o /\ todo'[a] = rest
        /\ \A b \in Actors \ {a} : pc'[b] = pc[b] /\ op'[b] = op[b] /\ todo'[b] = todo[b]
    BY DEF InstallInv, Control, Shape, Go
  <1>2. ActorsTyped'
    BY <1>1 DEF InstallInv, ActorsTyped
  <1>3. ASSUME NEW b \in Actors, Working(b)' PROVE ProgressOf(disk, pc[b], op[b], todo[b])'
    <2>1. CASE b = a
      BY <1>1, <1>3, <2>1 DEF Working
    <2>2. CASE b # a
      <3>1. Working(b) /\ disk' = disk
        BY <1>1, <1>3, <2>2 DEF InstallInv, Control, OneMutator, Working
      <3>2. ProgressOf(disk, pc[b], op[b], todo[b])
        BY <3>1 DEF InstallInv, Progress
      <3> QED BY <1>1, <2>2, <3>1, <3>2
    <2> QED BY <2>1, <2>2
  <1> QED BY <1>2, <1>3 DEF Progress

\* The same operation, but for what it has started and how it will end.
Alike(o, p) ==
    /\ o.id = p.id /\ o.kind = p.kind /\ o.version = p.version /\ o.migrate = p.migrate
    /\ o.before = p.before /\ o.plan = p.plan /\ o.own = p.own /\ o.wasLoaded = p.wasLoaded

\* Alike operations manage and stage the same targets.
LEMMA AlikeManages ==
    ASSUME NEW o, NEW p, Alike(o, p)
    PROVE  /\ ManagedTargets(o) = ManagedTargets(p)
           /\ \A t : Staged(o, t) = Staged(p, t)
  BY DEF Alike, ManagedTargets, Staged

\* An operation that goes to a step that leaves the disk alone.
LEMMA AlikeTyped ==
    ASSUME NEW o, NEW p, Alike(o, p), NEW from, NEW rest, from \notin {"idle", "planned"},
           ActorTyped(from, o, rest), NEW step \in PcSteps \ {"idle", "planned", "replace", "restore"},
           p.result \in {"open", "done", "failed", "broken"}
    PROVE  ActorTyped(step, p, {})
  BY DEF Alike, ActorTyped

\* It is as far as it was when its result is, or becomes "done".
LEMMA AlikeProgress ==
    ASSUME NEW o, NEW p, Alike(o, p), NEW files, NEW from, ProgressOf(files, from, o, {}),
           NEW step, StepFits(step, p), from # "unwind", step \notin {"replace", "restore"},
           p.result = o.result \/ (o.result = "open" /\ p.result = "done"),
           o.own = NoSnapshot =>
               /\ p.result = o.result
               /\ step \in {"snapshot", "unwind", "release"}
                  \/ (step = "bootout" /\ p.kind = "rollback"),
           o.own # NoSnapshot => step # "snapshot" /\ (step = "bootout" => p.kind = "install")
    PROVE  ProgressOf(files, step, p, {})
  <1>1. ManagedTargets(p) = ManagedTargets(o)
    BY AlikeManages
  <1>2. \A t : Wanted(p, t) = Wanted(o, t)
    BY AlikeManages DEF Alike, Wanted
  <1>3. CASE o.own = NoSnapshot
    BY <1>1, <1>3 DEF Alike, ProgressOf, Untouched
  <1>4. CASE o.own # NoSnapshot
    BY <1>1, <1>2, <1>4 DEF Alike, ProgressOf, Undoable
  <1> QED BY <1>3, <1>4

\* A step that fails, with targets left to do in any state.
LEMMA FailedProgress ==
    ASSUME NEW o, NEW p, Alike(o, p), p.result = "failed",
           NEW files, NEW after, NEW from, NEW rest, ProgressOf(files, from, o, rest),
           o.result = "open",
           \A t \in Paths : after[t] = files[t] \/ t \in rest
    PROVE  ProgressOf(after, "unwind", p, {})
  <1>1. ManagedTargets(p) = ManagedTargets(o)
    BY AlikeManages
  <1>2. StepFits("unwind", p)
    BY DEF StepFits
  <1>3. CASE o.own = NoSnapshot
    <2>1. rest = {}
      BY <1>3 DEF ProgressOf, Untouched
    <2> QED BY <1>1, <1>2, <1>3, <2>1 DEF Alike, ProgressOf, Untouched
  <1>4. CASE o.own # NoSnapshot
    BY <1>1, <1>2, <1>4 DEF Alike, ProgressOf, Undoable
  <1> QED BY <1>3, <1>4

\* The workspace may grow under an operation.
LEMMA GrowthKept ==
    ASSUME NEW o, NEW step, NEW rest, NEW files, NEW after,
           ProgressOf(files, step, o, rest), rest \subseteq Paths, ManagedTargets(o) \subseteq Paths,
           \A t \in Paths : IF t = "workspace" THEN files[t] \subseteq after[t]
                                                ELSE after[t] = files[t]
    PROVE  ProgressOf(after, step, o, rest)
  <1>1. \A t \in Paths : \A c : Matches(t, c, files[t]) => Matches(t, c, after[t])
    BY DEF Matches
  <1> QED BY <1>1 DEF ProgressOf, Untouched, Undoable

\* What is known of a process at work.
LEMMA WorkerFacts ==
    ASSUME InstallInv, NEW a \in Actors
    PROVE  /\ DOMAIN op[a] = OpFields
           /\ ActorTyped(pc[a], op[a], todo[a])
           /\ Working(a) => ProgressOf(disk, pc[a], op[a], todo[a])
           /\ pc[a] # "idle" => op[a].kind \in {"install", "rollback"}
           /\ DOMAIN disk = Paths
  BY DEF InstallInv, Control, Shape, ActorsTyped, Progress, KindKnown, WorldTyped, FilesTyped

\* What an operation manages are paths, and there are some.
LEMMA ManagedArePaths ==
    ASSUME NEW o, NEW step, NEW rest, ActorTyped(step, o, rest), step # "idle",
           o.kind \in {"install", "rollback"}
    PROVE  ManagedTargets(o) \subseteq Paths /\ ManagedTargets(o) # {}
  BY DEF ActorTyped, ManagedTargets, SnapshotTyped, Paths, Fixed

\* Steps that leave the disk, the snapshots and the counts alone.
LEMMA WorldKept ==
    ASSUME InstallInv, UNCHANGED <<disk, snapshots, userData, writes>>,
           loaded' \in BOOLEAN, lock' \in Actors \cup {"free", "stale"},
           ops' = ops
    PROVE  WorldTyped'
  BY DEF InstallInv, WorldTyped, FilesTyped

\* Steps that write one target.
LEMMA WorldWritten ==
    ASSUME InstallInv, NEW t \in Paths, NEW c \in ContentType(t), disk' = [disk EXCEPT ![t] = c],
           UNCHANGED <<snapshots, loaded, userData, writes, ops>>,
           lock' \in Actors \cup {"free", "stale"}
    PROVE  WorldTyped'
  <1>1. \A u \in Paths : disk'[u] \in ContentType(u)
    BY DEF InstallInv, WorldTyped, FilesTyped
  <1>2. DOMAIN disk' = Paths
    BY DEF InstallInv, WorldTyped, FilesTyped
  <1> QED BY <1>1, <1>2 DEF InstallInv, WorldTyped, FilesTyped

\* A target cut short is a file that has its shape.
LEMMA CutShortWorld ==
    ASSUME InstallInv, NEW a \in Actors, NEW t \in todo[a], CutShort(a, t),
           UNCHANGED <<snapshots, loaded, userData, writes, ops>>,
           lock' \in Actors \cup {"free", "stale"}
    PROVE  /\ WorldTyped' /\ pc[a] \in {"replace", "restore"}
           /\ \A u \in Paths : disk'[u] = disk[u] \/ u \in todo[a]
  <1>1. pc[a] \in {"replace", "restore"} /\ disk' \in {disk, Removed(t)}
    BY Zenon DEF CutShort, At
  <1>2. t \in Paths
    BY WorkerFacts DEF ActorTyped
  <1>3. {} \in ContentType(t)
    BY DEF ContentType
  <1>4. CASE disk' = disk
    BY <1>1, <1>4, WorldKept DEF InstallInv, WorldTyped
  <1>5. CASE disk' = Removed(t)
    <2>1. disk' = [disk EXCEPT ![t] = {}]
      BY <1>5 DEF Removed
    <2>2. \A u \in Paths : disk'[u] = disk[u] \/ u = t
      BY <2>1, WorkerFacts
    <2> QED BY <1>1, <1>2, <1>3, <2>1, <2>2, WorldWritten
  <1> QED BY <1>1, <1>4, <1>5

\* An empty disk is in shape.
LEMMA EmptyTyped == FilesTyped(EmptyDisk, Paths)
  BY DEF FilesTyped, EmptyDisk, ContentType

\* A process that leaves its operation is as at the start.
LEMMA IdleTyped == ActorTyped("idle", NoOp, {})
  BY EmptyTyped DEF ActorTyped, NoOp, NoSnapshot, PcSteps

\* A process that leaves its operation has nothing to account for.
LEMMA LeavingProgress ==
    ASSUME InstallInv, NEW a \in Actors, Go(a, "idle", NoOp, {}), WorldTyped',
           disk' = disk \/ Working(a)
    PROVE  WorldTyped' /\ ActorsTyped' /\ Progress'
  <1> DEFINE step == "idle"
  <1>1. ActorTyped(step, NoOp, {}) /\ step \in {"idle", "planned"} /\ Go(a, step, NoOp, {})
    BY IdleTyped
  <1> HIDE DEF step
  <1> QED BY <1>1, MoveKeeps

\* Undoing starts.
LEMMA UnwindProgress ==
    ASSUME InstallInv, NEW a \in Actors, Unwind(a), Working(a), op[a].result = "open", WorldTyped',
           \A t \in Paths : disk'[t] = disk[t] \/ t \in todo[a]
    PROVE  WorldTyped' /\ ActorsTyped' /\ Progress'
  <1> DEFINE o == [op[a] EXCEPT !.result = "failed"]
  <1>1. Alike(op[a], o) /\ o.result = "failed"
    BY WorkerFacts DEF Alike, OpFields
  <1>2. Go(a, "unwind", o, {})
    BY DEF Unwind
  <1> HIDE DEF o
  <1>3. ActorTyped("unwind", o, {})
    BY <1>1, WorkerFacts, AlikeTyped DEF PcSteps, Working
  <1>4. ProgressOf(disk', "unwind", o, {})
    BY <1>1, WorkerFacts, FailedProgress
  <1> QED BY <1>2, <1>3, <1>4, MoveKeeps

\* A step that leaves the disk alone and goes on.
LEMMA OnwardProgress ==
    ASSUME InstallInv, NEW a \in Actors, Working(a), disk' = disk, WorldTyped',
           NEW step \in PcSteps \ {"idle", "planned", "replace", "restore"},
           NEW o, Alike(op[a], o), Go(a, step, o, {}), StepFits(step, o),
           pc[a] \notin {"unwind", "replace", "restore"},
           o.result = op[a].result \/ (op[a].result = "open" /\ o.result = "done"),
           op[a].own = NoSnapshot =>
               /\ o.result = op[a].result
               /\ step \in {"snapshot", "unwind", "release"}
                  \/ (step = "bootout" /\ o.kind = "rollback"),
           op[a].own # NoSnapshot => step # "snapshot" /\ (step = "bootout" => o.kind = "install")
    PROVE  WorldTyped' /\ ActorsTyped' /\ Progress'
  <1>1. ActorTyped(pc[a], op[a], todo[a]) /\ pc[a] \notin {"idle", "planned"}
    BY WorkerFacts DEF Working
  <1>2. o.result \in {"open", "done", "failed", "broken"}
    BY <1>1 DEF ActorTyped
  <1>3. ActorTyped(step, o, {})
    BY <1>1, <1>2, AlikeTyped
  <1>4. ProgressOf(disk, pc[a], op[a], {})
    BY WorkerFacts DEF ProgressOf
  <1>5. ProgressOf(disk, step, o, {})
    BY <1>4, AlikeProgress
  <1> QED BY <1>3, <1>5, MoveKeeps

\* Before the first operation nothing is in progress.
LEMMA InstallInit == Init => WorldTyped /\ ActorsTyped /\ Progress
  <1> SUFFICES ASSUME Init PROVE WorldTyped /\ ActorsTyped /\ Progress
    OBVIOUS
  <1>1. WorldTyped
    <2>1. MaxOps \in Nat /\ MaxWrites \in Nat
      BY InstallerAssumption
    <2>2. FilesTyped(disk, Paths)
      BY EmptyTyped DEF Init
    <2>3. ops \in Nat /\ ops <= MaxOps /\ writes \in Nat /\ writes <= MaxWrites
      BY <2>1 DEF Init
    <2>4. loaded \in BOOLEAN /\ lock \in {"free", "stale"} /\ snapshots = {} /\ userData = {}
      BY DEF Init
    <2> QED BY <2>2, <2>3, <2>4 DEF WorldTyped
  <1>2. ActorsTyped
    BY IdleTyped DEF Init, ActorsTyped
  <1> QED BY <1>1, <1>2 DEF Init, Progress, Working

\* A new operation has written nothing yet.
LEMMA BeginProgress ==
    ASSUME InstallInv, NEW a \in Actors, Begin(a)
    PROVE  WorldTyped' /\ ActorsTyped' /\ Progress'
  <1>0. ops \in Nat /\ ops <= MaxOps /\ MaxOps \in Nat
    BY InstallerAssumption DEF InstallInv, WorldTyped
  <1>1. ASSUME NEW o, StartOp(a, o), ActorTyped("planned", o, {})
        PROVE  WorldTyped' /\ ActorsTyped' /\ Progress'
    <2>1. Go(a, "planned", o, {}) /\ disk' = disk
      BY <1>1 DEF StartOp
    <2>2. WorldTyped'
      BY <1>0, <1>1 DEF StartOp, InstallInv, WorldTyped, FilesTyped
    <2> QED BY <1>1, <2>1, <2>2, MoveKeeps
  <1>2. ops < MaxOps => ops + 1 \in OpIds
    BY <1>0 DEF OpIds
  <1>3. ASSUME NEW install \in Installs, CheckInstall(a, install)
        PROVE  WorldTyped' /\ ActorsTyped' /\ Progress'
    <2> DEFINE o == [NoOp EXCEPT !.kind = "install", !.id = ops + 1,
                        !.version = install.version, !.migrate = install.migrate]
    <2>1. StartOp(a, o)
      BY <1>3 DEF CheckInstall
    <2>2. install.version \in Versions
      BY InstallerAssumption
    <2>3. /\ o.kind = "install" /\ o.id = ops + 1 /\ o.version \in Versions
          /\ o.plan = NoSnapshot /\ o.own = NoSnapshot /\ o.result = "open" /\ o.before = EmptyDisk
          /\ o.wasLoaded = FALSE
      BY <2>2 DEF NoOp
    <2> HIDE DEF o
    <2>4. ops < MaxOps
      BY <2>1 DEF StartOp
    <2>5. ActorTyped("planned", o, {})
      BY <1>2, EmptyTyped, <2>3, <2>4 DEF ActorTyped, PcSteps
    <2> QED BY <1>1, <2>1, <2>5
  <1>4. ASSUME NEW s \in snapshots, PlanRollback(a, s)
        PROVE  WorldTyped' /\ ActorsTyped' /\ Progress'
    <2> DEFINE o == [NoOp EXCEPT !.kind = "rollback", !.id = ops + 1, !.plan = s]
    <2>1. StartOp(a, o)
      BY <1>4 DEF PlanRollback
    <2>2. SnapshotTyped(s) /\ DOMAIN s.files # {}
      BY DEF InstallInv, WorldTyped
    <2>3. /\ o.kind = "rollback" /\ o.id = ops + 1
          /\ o.plan = s /\ o.own = NoSnapshot /\ o.result = "open" /\ o.before = EmptyDisk
          /\ o.wasLoaded = FALSE
      BY DEF NoOp
    <2> HIDE DEF o
    <2>4. ops < MaxOps
      BY <2>1 DEF StartOp
    <2>5. ActorTyped("planned", o, {})
      BY <1>2, EmptyTyped, <2>2, <2>3, <2>4 DEF ActorTyped, PcSteps
    <2> QED BY <1>1, <2>1, <2>5
  <1> QED BY <1>3, <1>4 DEF Begin

\* The steps of an operation up to its end.
LEMMA ForwardProgress ==
    ASSUME InstallInv, NEW a \in Actors, Forward(a)
    PROVE  WorldTyped' /\ ActorsTyped' /\ Progress'
  <1> DEFINE Kept == WorldTyped' /\ ActorsTyped' /\ Progress'
  <1>0. /\ DOMAIN op[a] = OpFields /\ ActorTyped(pc[a], op[a], todo[a]) /\ DOMAIN disk = Paths
        /\ Working(a) => ProgressOf(disk, pc[a], op[a], todo[a])
        /\ pc[a] # "idle" => op[a].kind \in {"install", "rollback"}
    BY WorkerFacts
  <1>w. loaded \in BOOLEAN /\ lock \in Actors \cup {"free", "stale"} /\ FilesTyped(disk, Paths)
    BY DEF InstallInv, WorldTyped
  <1>o. Working(a) /\ pc[a] \in {"snapshot", "replace", "bootout", "bootstrap", "health", "receipt"}
           => op[a].result = "open"
    BY <1>0 DEF ProgressOf, StepFits
  <1>m. Working(a) => ManagedTargets(op[a]) \subseteq Paths /\ ManagedTargets(op[a]) # {}
    BY <1>0, ManagedArePaths DEF Working
  <1>1. CASE AcquireLock(a)
    <2> DEFINE o == [op[a] EXCEPT !.before = disk, !.wasLoaded = loaded]
    <2> DEFINE step == FirstStep(op[a])
    <2>1. /\ Go(a, step, o, {}) /\ pc[a] = "planned" /\ disk' = disk
          /\ lock' = a /\ UNCHANGED <<snapshots, loaded, userData, writes, ops>>
      BY <1>1 DEF AcquireLock, At
    <2>2. /\ o.before = disk /\ o.own = op[a].own /\ o.kind = op[a].kind /\ o.id = op[a].id
          /\ o.plan = op[a].plan /\ o.result = op[a].result /\ o.version = op[a].version
          /\ o.wasLoaded = loaded
      BY <1>0 DEF OpFields
    <2>3. /\ o.kind \in {"install", "rollback"} /\ o.own = NoSnapshot /\ o.result = "open"
          /\ step = IF o.kind = "install" THEN "snapshot" ELSE "bootout"
      BY <1>0, <2>1, <2>2 DEF InstallInv, Control, OwnsNothing, ActorTyped, FirstStep
    <2> HIDE DEF o, step
    <2>4. ActorTyped(step, o, {})
      BY <1>0, <1>w, <2>1, <2>2, <2>3 DEF ActorTyped, PcSteps
    <2>5. ProgressOf(disk, step, o, {})
      BY <2>2, <2>3 DEF ProgressOf, StepFits, Untouched, Matches
    <2>6. WorldTyped'
      BY <1>w, <2>1, WorldKept
    <2> QED BY <2>1, <2>4, <2>5, <2>6, MoveKeeps
  <1>2. CASE Refused(a) \/ AcquireFails(a)
    <2>1. /\ Go(a, "idle", NoOp, {}) /\ disk' = disk /\ lock' \in {lock, "stale"}
          /\ UNCHANGED <<snapshots, loaded, userData, writes, ops>>
      BY <1>2 DEF Refused, AcquireFails, counts
    <2> QED BY <1>w, <2>1, WorldKept, LeavingProgress
  <1>3. CASE SnapshotTargets(a)
    <2> DEFINE own == SnapshotOf(op[a])
    <2> DEFINE o == [op[a] EXCEPT !.own = own]
    <2>1. /\ pc[a] = "snapshot" /\ Working(a) /\ disk' = disk /\ snapshots' = snapshots \cup {own}
          /\ UNCHANGED <<loaded, lock, userData, writes, ops>>
          /\ IF o.kind = "install" THEN Go(a, "replace", o, ManagedTargets(o))
                                   ELSE Go(a, "restore", o, DOMAIN o.plan.files)
      BY <1>3 DEF SnapshotTargets, At, Working, SameRun
    <2>2. /\ o.own = own /\ o.kind = op[a].kind /\ o.id = op[a].id /\ o.before = op[a].before
          /\ o.plan = op[a].plan /\ o.result = op[a].result /\ o.version = op[a].version
          /\ o.wasLoaded = op[a].wasLoaded /\ ManagedTargets(o) = ManagedTargets(op[a])
      BY <1>0 DEF OpFields, ManagedTargets
    <2>3. /\ own.id = o.id /\ DOMAIN own.files = ManagedTargets(o)
          /\ \A t \in ManagedTargets(o) : own.files[t] = disk[t]
          /\ own.loaded = IF op[a].kind = "rollback" THEN op[a].wasLoaded ELSE loaded
      BY <2>2 DEF SnapshotOf
    <2>l. own.loaded \in BOOLEAN
      <3>1. op[a].wasLoaded \in BOOLEAN
        BY <1>0 DEF ActorTyped
      <3> HIDE DEF own
      <3> QED BY <1>w, <2>3, <3>1
    <2>4. SnapshotTyped(own) /\ own # NoSnapshot
      BY <1>0, <1>w, <1>m, <2>1, <2>2, <2>3, <2>l DEF SnapshotTyped, FilesTyped, ActorTyped, OpIds, NoSnapshot
    <2>5. o.result = "open" /\ o.kind \in {"install", "rollback"}
      BY <1>0, <1>o, <2>1, <2>2
    <2>6. \A t \in Paths : Matches(t, o.before[t], disk[t])
      <3>1. ProgressOf(disk, "snapshot", op[a], todo[a])
        BY <1>0, <2>1
      <3>2. op[a].own = NoSnapshot
        BY <3>1 DEF ProgressOf, Undoable
      <3> QED BY <2>2, <3>1, <3>2 DEF ProgressOf, Untouched
    <2>7. WorldTyped'
      BY <1>m, <2>1, <2>2, <2>3, <2>4 DEF InstallInv, WorldTyped
    <2>8. ASSUME NEW step \in {"replace", "restore"},
                 step = "replace" <=> o.kind = "install",
                 Go(a, step, o, ManagedTargets(o))
          PROVE  Kept
      <3>1. ActorTyped(step, o, ManagedTargets(o))
        <4> HIDE DEF o, own
        <4> QED BY <1>0, <1>m, <2>1, <2>2, <2>4, <2>5 DEF ActorTyped, PcSteps, Working
      <3>2. ProgressOf(disk, step, o, ManagedTargets(o))
        <4> HIDE DEF o, own
        <4>1. StepFits(step, o)
          BY <2>5, <2>8 DEF StepFits
        <4>2. Undoable(disk, step, o, ManagedTargets(o))
          BY <1>m, <2>1, <2>2, <2>3, <2>6, <2>8 DEF Undoable
        <4> QED BY <1>m, <2>1, <2>2, <2>4, <2>6, <2>8, <4>1, <4>2 DEF ProgressOf
      <3> HIDE DEF o, own
      <3> QED BY <2>1, <2>7, <2>8, <3>1, <3>2, MoveKeeps
    <2>9. o.kind # "install" => DOMAIN o.plan.files = ManagedTargets(o)
      <3> HIDE DEF o, own
      <3> QED BY <2>5 DEF ManagedTargets
    <2> HIDE DEF o, own, Kept
    <2>10. Kept
      BY <2>1, <2>8, <2>9
    <2> QED BY <2>10 DEF Kept
  <1>4. ASSUME NEW t \in todo[a], ReplaceWithStaged(a, t)
        PROVE  Kept
    <2> DEFINE step == IF todo[a] = {t} THEN "bootout" ELSE "replace"
    <2> DEFINE rest == todo[a] \ {t}
    <2>1. /\ pc[a] = "replace" /\ Working(a) /\ disk' = [disk EXCEPT ![t] = Staged(op[a], t)]
          /\ Go(a, step, op[a], rest)
          /\ UNCHANGED <<snapshots, loaded, lock, userData, writes, ops>>
      BY <1>4 DEF ReplaceWithStaged, At, Working, SameRun
    <2>2. ProgressOf(disk, "replace", op[a], todo[a]) /\ ActorTyped("replace", op[a], todo[a])
      BY <1>0, <2>1
    <2>3. op[a].kind = "install" /\ op[a].result = "open" /\ op[a].own # NoSnapshot
      BY <2>2 DEF ProgressOf, StepFits, Untouched
    <2>4. t \in Paths /\ t \in ManagedTargets(op[a])
      BY <2>2 DEF ProgressOf, ActorTyped
    <2>5. Staged(op[a], t) \in ContentType(t)
      BY <2>2, <2>3 DEF Staged, ContentType, ActorTyped
    <2>6. WorldTyped'
      BY <1>w, <2>1, <2>4, <2>5, WorldWritten
    <2>7. ActorTyped(step, op[a], rest)
      BY <2>2, <2>3 DEF ActorTyped, PcSteps
    <2>8. \A u \in Paths : disk'[u] = IF u = t THEN Staged(op[a], t) ELSE disk[u]
      BY <1>0, <2>1
    <2>9. ProgressOf(disk', step, op[a], rest)
      <3>1. StepFits(step, op[a])
        BY <2>3 DEF StepFits
      <3>2. \A u \in Paths \ ManagedTargets(op[a]) : Matches(u, op[a].before[u], disk'[u])
        BY <2>2, <2>4, <2>8 DEF ProgressOf
      <3>3. Undoable(disk', step, op[a], rest)
        <4>1. Undoable(disk, "replace", op[a], todo[a])
          BY <2>2, <2>3 DEF ProgressOf
        <4>2. \A u \in ManagedTargets(op[a]) \ rest : Matches(u, Wanted(op[a], u), disk'[u])
          BY <1>m, <2>1, <2>3, <2>8, <4>1 DEF Undoable, Wanted, Matches
        <4> QED BY <2>3, <4>1, <4>2 DEF Undoable
      <3> QED BY <2>2, <2>3, <3>1, <3>2, <3>3 DEF ProgressOf
    <2> HIDE DEF step, rest
    <2> QED BY <2>1, <2>6, <2>7, <2>9, MoveKeeps
  <1>5. ASSUME NEW t \in todo[a], ReplaceFails(a, t)
        PROVE  Kept
    <2>1. /\ CutShort(a, t) /\ Unwind(a) /\ pc[a] = "replace" /\ Working(a)
          /\ UNCHANGED <<snapshots, loaded, lock, userData, writes, ops>>
      BY <1>5 DEF ReplaceFails, SameRun, At, Working
    <2> QED BY <1>o, <1>w, <2>1, CutShortWorld, UnwindProgress
  <1>6. CASE BootoutService(a)
    <2> DEFINE o == [op[a] EXCEPT !.started = FALSE]
    <2> DEFINE step == IF o.kind = "install" THEN "bootstrap" ELSE "snapshot"
    <2>1. /\ pc[a] = "bootout" /\ Working(a) /\ disk' = disk /\ loaded' = FALSE
          /\ Go(a, step, o, {})
          /\ UNCHANGED <<snapshots, lock, userData, writes, ops>>
      BY <1>6 DEF BootoutService, At, Working, SameFiles, SameRun
    <2>2. Alike(op[a], o) /\ o.result = op[a].result /\ o.kind = op[a].kind
      BY <1>0 DEF Alike, OpFields
    <2>3. op[a].kind \in {"install", "rollback"} /\ op[a].result = "open"
      BY <1>0, <1>o, <2>1
    <2>4. step \in {"bootstrap", "snapshot"} /\ (step = "snapshot" <=> op[a].kind = "rollback")
      BY <2>2, <2>3
    <2> HIDE DEF o, step
    <2>5. op[a].own = NoSnapshot <=> op[a].kind = "rollback"
      BY <1>0, <2>1, <2>3 DEF ProgressOf, Untouched, Undoable
    <2>6. StepFits(step, o)
      BY <2>2, <2>3, <2>4 DEF StepFits
    <2>7. WorldTyped'
      BY <1>w, <2>1, WorldKept
    <2> QED BY <2>1, <2>2, <2>4, <2>5, <2>6, <2>7, OnwardProgress DEF PcSteps
  <1>7. CASE BootstrapService(a)
    <2> DEFINE o == [op[a] EXCEPT !.started = TRUE]
    <2> DEFINE step == AfterBootstrap(op[a])
    <2>1. /\ pc[a] = "bootstrap" /\ Working(a) /\ disk' = disk /\ loaded' = TRUE
          /\ Go(a, step, o, {})
          /\ UNCHANGED <<snapshots, lock, userData, writes, ops>>
      BY <1>7 DEF BootstrapService, At, Working, SameFiles, SameRun
    <2>2. Alike(op[a], o) /\ o.result = op[a].result /\ o.kind = op[a].kind
      BY <1>0 DEF Alike, OpFields
    <2>3. op[a].result = "open" /\ op[a].own # NoSnapshot
      BY <1>0, <1>o, <2>1 DEF ProgressOf, Untouched
    <2>4. step \in {"health", "receipt"} /\ (step = "health" => op[a].kind = "install")
      BY DEF AfterBootstrap
    <2> HIDE DEF o, step
    <2>5. StepFits(step, o)
      BY <2>2, <2>3, <2>4 DEF StepFits
    <2>6. WorldTyped'
      BY <1>w, <2>1, WorldKept
    <2> QED BY <2>1, <2>2, <2>3, <2>4, <2>5, <2>6, OnwardProgress DEF PcSteps
  <1>8. CASE RestartForPeerLinks(a)
    <2> DEFINE o == [op[a] EXCEPT !.restarted = TRUE]
    <2>1. /\ pc[a] = "health" /\ Working(a) /\ disk' = disk
          /\ Go(a, "bootout", o, {})
          /\ UNCHANGED <<snapshots, loaded, lock, userData, writes, ops>>
      BY <1>8 DEF RestartForPeerLinks, At, Working, SameFiles, SameRun
    <2>2. Alike(op[a], o) /\ o.result = op[a].result /\ o.kind = op[a].kind
      BY <1>0 DEF Alike, OpFields
    <2> HIDE DEF o
    <2>3. op[a].result = "open" /\ op[a].own # NoSnapshot /\ op[a].kind = "install"
      BY <1>0, <1>o, <2>1 DEF ProgressOf, StepFits, Untouched
    <2>4. StepFits("bootout", o)
      BY <2>2, <2>3 DEF StepFits
    <2>5. WorldTyped'
      BY <1>w, <2>1, WorldKept
    <2> QED BY <2>1, <2>2, <2>3, <2>4, <2>5, OnwardProgress DEF PcSteps
  <1>9. CASE HealthCheck(a)
    <2>1. /\ pc[a] = "health" /\ Working(a) /\ disk' = disk
          /\ Go(a, "receipt", op[a], {})
          /\ UNCHANGED <<snapshots, loaded, lock, userData, writes, ops>>
      BY <1>9 DEF HealthCheck, At, Working, SameFiles, SameRun
    <2>2. op[a].result = "open" /\ op[a].own # NoSnapshot
      BY <1>0, <1>o, <2>1 DEF ProgressOf, Untouched
    <2>3. StepFits("receipt", op[a]) /\ Alike(op[a], op[a])
      BY <2>2 DEF StepFits, Alike
    <2>4. WorldTyped'
      BY <1>w, <2>1, WorldKept
    <2> QED BY <2>1, <2>2, <2>3, <2>4, OnwardProgress DEF PcSteps
  <1>10. CASE WriteReceipt(a)
    <2> DEFINE o == [op[a] EXCEPT !.result = "done"]
    <2>1. /\ pc[a] = "receipt" /\ Working(a) /\ disk' = disk
          /\ Go(a, "release", o, {})
          /\ UNCHANGED <<snapshots, loaded, lock, userData, writes, ops>>
      BY <1>10 DEF WriteReceipt, At, Working, SameFiles, SameRun
    <2>2. Alike(op[a], o) /\ o.result = "done"
      BY <1>0 DEF Alike, OpFields
    <2> HIDE DEF o
    <2>3. op[a].result = "open" /\ op[a].own # NoSnapshot
      BY <1>0, <1>o, <2>1 DEF ProgressOf, Untouched
    <2>4. StepFits("release", o)
      BY <2>2 DEF StepFits
    <2>5. WorldTyped'
      BY <1>w, <2>1, WorldKept
    <2> QED BY <2>1, <2>2, <2>3, <2>4, <2>5, OnwardProgress DEF PcSteps
  <1>11. CASE BootoutFails(a) \/ BootstrapFails(a) \/ HealthCheckFails(a) \/ StepFails(a)
    <2>1. /\ pc[a] \in {"snapshot", "bootout", "bootstrap", "health", "receipt"} /\ Working(a)
          /\ Unwind(a) /\ disk' = disk /\ loaded' \in {loaded, TRUE, FALSE}
          /\ UNCHANGED <<snapshots, lock, userData, writes, ops>>
      BY <1>11 DEF BootoutFails, BootstrapFails, HealthCheckFails, StepFails, At, Working,
                   SameFiles, SameRun
    <2>2. WorldTyped'
      BY <1>w, <2>1, WorldKept
    <2> QED BY <1>o, <2>1, <2>2, UnwindProgress
  <1> QED BY <1>1, <1>2, <1>3, <1>4, <1>5, <1>6, <1>7, <1>8, <1>9, <1>10, <1>11 DEF Forward

\* A restore writes back one target after the other.
LEMMA RestoreProgress ==
    ASSUME InstallInv, NEW a \in Actors, NEW t \in todo[a], RestoreSnapshot(a, t)
    PROVE  WorldTyped' /\ ActorsTyped' /\ Progress'
  <1> DEFINE step == IF todo[a] = {t} THEN AfterRestore(op[a]) ELSE "restore"
  <1> DEFINE rest == todo[a] \ {t}
  <1>0. /\ ActorTyped(pc[a], op[a], todo[a]) /\ DOMAIN disk = Paths
        /\ Working(a) => ProgressOf(disk, pc[a], op[a], todo[a])
        /\ pc[a] # "idle" => op[a].kind \in {"install", "rollback"}
    BY WorkerFacts
  <1>1. /\ pc[a] = "restore" /\ Working(a) /\ disk' = [disk EXCEPT ![t] = RestoredContent(op[a], t)]
        /\ Go(a, step, op[a], rest)
        /\ UNCHANGED <<snapshots, loaded, lock, userData, writes, ops>>
    BY DEF RestoreSnapshot, At, Working, SameRun
  <1>2. ProgressOf(disk, "restore", op[a], todo[a]) /\ ActorTyped("restore", op[a], todo[a])
    BY <1>0, <1>1
  <1>3. /\ op[a].own # NoSnapshot /\ op[a].kind \in {"install", "rollback"}
        /\ op[a].result = "failed" \/ (op[a].result = "open" /\ op[a].kind = "rollback")
    BY <1>0, <1>1, <1>2 DEF ProgressOf, StepFits, Untouched
  <1>4. t \in Paths /\ t \in ManagedTargets(op[a])
    BY <1>2 DEF ProgressOf, ActorTyped
  <1>5. Undoable(disk, "restore", op[a], todo[a])
    BY <1>2, <1>3 DEF ProgressOf
  <1>6. RestoredContent(op[a], t) = Wanted(op[a], t)
    BY <1>3 DEF RestoredContent, Restored, Wanted
  <1>7. Wanted(op[a], t) \in ContentType(t)
    <2>1. CASE op[a].result = "failed"
      BY <1>2, <1>3, <1>4, <1>5, <2>1 DEF ActorTyped, SnapshotTyped, FilesTyped, Wanted, Undoable
    <2>2. CASE op[a].result = "open" /\ op[a].kind = "rollback"
      BY <1>2, <1>4, <2>2 DEF ActorTyped, SnapshotTyped, FilesTyped, Wanted, ManagedTargets
    <2> QED BY <1>3, <2>1, <2>2
  <1>8. WorldTyped'
    <2>1. lock \in Actors \cup {"free", "stale"}
      BY DEF InstallInv, WorldTyped
    <2> QED BY <1>1, <1>4, <1>6, <1>7, <2>1, WorldWritten
  <1>9. \A u \in Paths : disk'[u] = IF u = t THEN Wanted(op[a], t) ELSE disk[u]
    BY <1>0, <1>1, <1>6
  <1>10. step \in {"restore", "release", "restart", "bootstrap", "receipt"}
         /\ (step = "restore" <=> rest # {})
    BY DEF AfterRestore
  <1>11. StepFits(step, op[a])
    BY <1>3 DEF StepFits, AfterRestore
  <1>12. ManagedTargets(op[a]) \subseteq Paths
    BY <1>0, <1>1, ManagedArePaths
  <1> HIDE DEF step
  <1>13. ActorTyped(step, op[a], rest)
    BY <1>2, <1>10 DEF ActorTyped, PcSteps
  <1>14. ProgressOf(disk', step, op[a], rest)
    <2>1. \A u \in Paths \ ManagedTargets(op[a]) : Matches(u, op[a].before[u], disk'[u])
      BY <1>2, <1>4, <1>9 DEF ProgressOf
    <2>2. \A u \in ManagedTargets(op[a]) \ rest : Matches(u, Wanted(op[a], u), disk'[u])
      BY <1>3, <1>5, <1>9, <1>12 DEF Undoable, Matches
    <2>3. Undoable(disk', step, op[a], rest)
      BY <1>5, <1>10, <2>2 DEF Undoable
    <2> QED BY <1>2, <1>3, <1>10, <1>11, <2>1, <2>3 DEF ProgressOf
  <1> HIDE DEF rest
  <1> QED BY <1>1, <1>8, <1>13, <1>14, MoveKeeps

\* A restore that fails stops, or gives up undoing.
LEMMA RestoreFailsProgress ==
    ASSUME InstallInv, NEW a \in Actors, NEW t \in todo[a], RestoreFails(a, t)
    PROVE  WorldTyped' /\ ActorsTyped' /\ Progress'
  <1>0. /\ DOMAIN op[a] = OpFields /\ ActorTyped(pc[a], op[a], todo[a])
        /\ Working(a) => ProgressOf(disk, pc[a], op[a], todo[a])
        /\ lock \in Actors \cup {"free", "stale"}
    BY WorkerFacts DEF InstallInv, WorldTyped
  <1>1. /\ CutShort(a, t) /\ pc[a] = "restore" /\ Working(a)
        /\ UNCHANGED <<snapshots, loaded, lock, userData, writes, ops>>
    BY DEF RestoreFails, SameRun, At, Working
  <1>2. WorldTyped' /\ \A u \in Paths : disk'[u] = disk[u] \/ u \in todo[a]
    BY <1>0, <1>1, CutShortWorld
  <1>3. ProgressOf(disk, "restore", op[a], todo[a])
    BY <1>0, <1>1
  <1>4. op[a].result \in {"open", "failed"} /\ op[a].own # NoSnapshot
    BY <1>3 DEF ProgressOf, StepFits, Untouched
  <1>5. CASE op[a].result = "open"
    <2>1. Unwind(a)
      BY <1>5 DEF RestoreFails
    <2> QED BY <1>1, <1>2, <1>5, <2>1, UnwindProgress
  <1>6. CASE op[a].result = "failed"
    <2> DEFINE o == [op[a] EXCEPT !.result = "broken"]
    <2> DEFINE step == AfterRestore(op[a])
    <2>1. Alike(op[a], o) /\ o.result = "broken" /\ o.own # NoSnapshot
      BY <1>0, <1>4 DEF Alike, OpFields
    <2>2. Go(a, step, o, {})
      BY <1>6 DEF RestoreFails
    <2>3. op[a].kind \in {"install", "rollback"}
      BY <1>1, WorkerFacts
    <2>4. step = IF op[a].kind = "install" THEN "release" ELSE "restart"
      BY <1>6, <2>3 DEF AfterRestore
    <2> HIDE DEF o, step
    <2>5. step \in {"release", "restart"} /\ StepFits(step, o)
      BY <2>1, <2>3, <2>4 DEF StepFits, Alike
    <2>6. ActorTyped(step, o, {})
      BY <1>0, <1>1, <2>1, <2>5, AlikeTyped DEF PcSteps
    <2>7. ProgressOf(disk', step, o, {})
      <3>1. ManagedTargets(o) = ManagedTargets(op[a])
        BY <2>1, AlikeManages
      <3>2. Undoable(disk', step, o, {})
        BY <1>3, <1>4, <2>1, <2>5, <3>1 DEF ProgressOf, Undoable, Alike
      <3>3. \A u \in Paths \ ManagedTargets(o) : Matches(u, o.before[u], disk'[u])
        BY <1>2, <1>3, <2>1, <3>1 DEF ProgressOf, Alike
      <3> QED BY <2>1, <2>5, <3>2, <3>3 DEF ProgressOf
    <2> QED BY <1>1, <1>2, <2>2, <2>6, <2>7, MoveKeeps
  <1> QED BY <1>4, <1>5, <1>6

\* The steps that undo an operation and leave it.
LEMMA BackwardProgress ==
    ASSUME InstallInv, NEW a \in Actors, Backward(a)
    PROVE  WorldTyped' /\ ActorsTyped' /\ Progress'
  <1> DEFINE Kept == WorldTyped' /\ ActorsTyped' /\ Progress'
  <1>0. /\ ActorTyped(pc[a], op[a], todo[a])
        /\ Working(a) => ProgressOf(disk, pc[a], op[a], todo[a])
        /\ pc[a] # "idle" => op[a].kind \in {"install", "rollback"}
        /\ loaded \in BOOLEAN /\ lock \in Actors \cup {"free", "stale"}
    BY WorkerFacts DEF InstallInv, WorldTyped
  <1>1. CASE CatchError(a)
    <2>1. /\ pc[a] = "unwind" /\ Working(a) /\ disk' = disk /\ loaded' \in {loaded, FALSE}
          /\ UNCHANGED <<snapshots, lock, userData, writes, ops>>
          /\ IF op[a].own = NoSnapshot THEN Go(a, "release", op[a], {})
             ELSE Go(a, "restore", op[a], DOMAIN op[a].own.files)
      BY <1>1 DEF CatchError, At, Working, SameFiles, SameRun
    <2>2. ProgressOf(disk, "unwind", op[a], {}) /\ ActorTyped("unwind", op[a], todo[a])
      BY <1>0, <2>1 DEF ProgressOf
    <2>3. op[a].result = "failed"
      BY <2>2 DEF ProgressOf, StepFits
    <2>4. WorldTyped'
      BY <1>0, <2>1, WorldKept
    <2>5. CASE op[a].own = NoSnapshot
      <3>1. ProgressOf(disk, "release", op[a], {})
        BY <2>2, <2>3, <2>5 DEF ProgressOf, StepFits, Untouched
      <3>2. ActorTyped("release", op[a], {})
        BY <2>2 DEF ActorTyped, PcSteps
      <3> QED BY <2>1, <2>4, <2>5, <3>1, <3>2, MoveKeeps
    <2>6. CASE op[a].own # NoSnapshot
      <3>1. Undoable(disk, "unwind", op[a], {})
        BY <2>2, <2>6 DEF ProgressOf
      <3>2. DOMAIN op[a].own.files = ManagedTargets(op[a])
        BY <3>1 DEF Undoable
      <3>3. ManagedTargets(op[a]) \subseteq Paths /\ ManagedTargets(op[a]) # {}
        BY <1>0, <2>1, ManagedArePaths
      <3>4. ActorTyped("restore", op[a], ManagedTargets(op[a]))
        BY <2>2, <3>3 DEF ActorTyped, PcSteps
      <3>5. Undoable(disk, "restore", op[a], ManagedTargets(op[a]))
        BY <3>1 DEF Undoable
      <3>6. ProgressOf(disk, "restore", op[a], ManagedTargets(op[a]))
        BY <2>2, <2>3, <2>6, <3>5 DEF ProgressOf, StepFits
      <3> QED BY <2>1, <2>4, <2>6, <3>2, <3>4, <3>6, MoveKeeps
    <2> QED BY <2>5, <2>6
  <1>2. CASE RestartFromGuard(a)
    <2>1. /\ pc[a] = "restart" /\ Working(a) /\ disk' = disk /\ loaded' \in {loaded, TRUE}
          /\ Go(a, "release", op[a], {})
          /\ UNCHANGED <<snapshots, lock, userData, writes, ops>>
      BY <1>2 DEF RestartFromGuard, At, Working, SameFiles, SameRun
    <2>2. op[a].result \in {"failed", "broken"} /\ op[a].own # NoSnapshot
      BY <1>0, <2>1 DEF ProgressOf, StepFits, Untouched
    <2>3. StepFits("release", op[a]) /\ Alike(op[a], op[a])
      BY <2>2 DEF StepFits, Alike
    <2>4. WorldTyped'
      BY <1>0, <2>1, WorldKept
    <2> QED BY <2>1, <2>2, <2>3, <2>4, OnwardProgress DEF PcSteps
  <1>3. CASE ReleaseLock(a) \/ ReleaseFails(a)
    <2>1. /\ Go(a, "idle", NoOp, {}) /\ disk' = disk /\ lock' \in {"free", "stale"}
          /\ UNCHANGED <<snapshots, loaded, userData, writes, ops>>
      BY <1>3 DEF ReleaseLock, ReleaseFails, counts
    <2> QED BY <1>0, <2>1, WorldKept, LeavingProgress
  <1> QED BY <1>1, <1>2, <1>3, RestoreProgress, RestoreFailsProgress DEF Backward

\* The operation that a crash ends is forgotten.
LEMMA CrashProgress ==
    ASSUME InstallInv, NEW a \in Actors, Crash(a)
    PROVE  WorldTyped' /\ ActorsTyped' /\ Progress'
  <1>1. /\ Go(a, "idle", NoOp, {}) /\ lock' \in Actors \cup {"free", "stale"}
        /\ UNCHANGED <<snapshots, loaded, userData, writes, ops>>
        /\ disk' = disk \/ \E t \in todo[a] : CutShort(a, t)
    BY DEF Crash, InstallInv, WorldTyped
  <1>2. CASE disk' = disk
    BY <1>1, <1>2, WorldKept, LeavingProgress DEF InstallInv, WorldTyped
  <1>3. ASSUME NEW t \in todo[a], CutShort(a, t)
        PROVE  WorldTyped' /\ ActorsTyped' /\ Progress'
    <2>1. WorldTyped' /\ pc[a] \in {"replace", "restore"}
      BY <1>1, <1>3, CutShortWorld
    <2> QED BY <1>1, <2>1, LeavingProgress DEF Working
  <1> QED BY <1>1, <1>2, <1>3

\* What the service writes goes to the workspace.
LEMMA ServiceProgress ==
    ASSUME InstallInv, ServiceWrites
    PROVE  WorldTyped' /\ ActorsTyped' /\ Progress'
  <1> DEFINE w == MaxOps + writes + 1
  <1>1. /\ disk' = [disk EXCEPT !["workspace"] = @ \cup {w}]
        /\ userData' = IF lock \in Actors THEN userData ELSE userData \cup {w}
        /\ writes < MaxWrites /\ writes' = writes + 1
        /\ UNCHANGED <<snapshots, loaded, lock, pc, op, todo, ops>>
    BY DEF ServiceWrites
  <1>2. /\ MaxOps \in Nat /\ MaxWrites \in Nat /\ writes \in Nat
        /\ FilesTyped(disk, Paths) /\ "workspace" \in Paths
        /\ userData \subseteq WriteIds
    BY InstallerAssumption DEF InstallInv, WorldTyped, Paths, Fixed
  <1>3. w \in WriteIds /\ writes' \in Nat /\ writes' <= MaxWrites
    BY <1>1, <1>2 DEF WriteIds
  <1> HIDE DEF w
  <1>4. /\ DOMAIN disk' = Paths
        /\ \A t \in Paths : disk'[t] = IF t = "workspace" THEN disk[t] \cup {w} ELSE disk[t]
    BY <1>1, <1>2 DEF FilesTyped
  <1>5. FilesTyped(disk', Paths)
    BY <1>2, <1>3, <1>4 DEF FilesTyped, ContentType
  <1>6. userData' \subseteq WriteIds
    BY <1>1, <1>2, <1>3
  <1>7. WorldTyped'
    BY <1>1, <1>3, <1>5, <1>6 DEF InstallInv, WorldTyped
  <1>8. ActorsTyped'
    BY <1>1 DEF InstallInv, ActorsTyped
  <1>9. ASSUME NEW a \in Actors, Working(a) PROVE ProgressOf(disk', pc[a], op[a], todo[a])
    <2>1. ProgressOf(disk, pc[a], op[a], todo[a]) /\ todo[a] \subseteq Paths
      BY <1>9, WorkerFacts DEF ActorTyped
    <2>2. ManagedTargets(op[a]) \subseteq Paths
      BY <1>9, WorkerFacts, ManagedArePaths DEF Working
    <2> QED BY <1>4, <2>1, <2>2, GrowthKept
  <1>10. Progress'
    BY <1>1, <1>9 DEF Progress, Working
  <1> QED BY <1>7, <1>8, <1>10

\* Every step preserves types and progress.
LEMMA InstallNext == InstallInv /\ [Next]_vars => InstallInv'
  <1> SUFFICES ASSUME InstallInv, [Next]_vars PROVE WorldTyped' /\ ActorsTyped' /\ Progress'
    BY ControlNext DEF InstallInv
  <1>1. ASSUME NEW a \in Actors, Begin(a) \/ Proceed(a) \/ Crash(a)
        PROVE  WorldTyped' /\ ActorsTyped' /\ Progress'
    BY <1>1, BeginProgress, ForwardProgress, BackwardProgress, CrashProgress DEF Proceed
  <1>2. CASE ServiceWrites
    BY <1>2, ServiceProgress
  <1>3. CASE UserStopsService \/ UNCHANGED vars
    <2>1. /\ UNCHANGED <<disk, snapshots, lock, pc, op, todo, userData, writes, ops>>
          /\ loaded' \in {loaded, FALSE}
      BY <1>3 DEF UserStopsService, vars, counts
    <2>2. WorldTyped'
      BY <2>1, WorldKept DEF InstallInv, WorldTyped
    <2>3. ActorsTyped' /\ Progress'
      BY <2>1 DEF InstallInv, ActorsTyped, Progress, Working
    <2> QED BY <2>2, <2>3
  <1> QED BY <1>1, <1>2, <1>3 DEF Next

\* Control, shapes and progress hold of every state.
LEMMA InstallAlways == Spec => []InstallInv
  <1>1. Init => InstallInv
    BY ControlInit, InstallInit DEF InstallInv
  <1> QED BY <1>1, InstallNext, PTL DEF Spec

\* Targets, snapshots, the lock and what every operation holds keep their shapes,
\* and an operation that replaces or restores has a target left to do.
THEOREM Types_Kept == Spec => []TypeOK
  <1>1. InstallInv => TypeOK
    BY DEF InstallInv, WorldTyped, ActorsTyped, ActorTyped, PcSteps, TypeOK
  <1> QED BY <1>1, InstallAlways, PTL

\* Whatever fails and whatever the service writes meanwhile, an install or a
\* rollback that ends with applyInstall's or applyRollback's finally block has put
\* every managed target in place, or every target back as it was when the lock
\* was taken, unless undoing failed too.
THEOREM All_Or_Nothing == Spec => []AllOrNothing
  <1>1. ASSUME InstallInv, NEW a \in Actors, At(a, "release")
        PROVE  LET o == op[a] IN
               /\ o.result = "failed" => Holds(o.before)
               /\ o.result = "done" =>
                   /\ Holds(Unmanaged(a))
                   /\ IF o.kind = "rollback" THEN Holds(o.plan.files)
                      ELSE Holds([t \in ManagedTargets(o) |-> Staged(o, t)])
    <2> DEFINE o == op[a]
    <2>1. /\ ProgressOf(disk, "release", o, todo[a]) /\ ActorTyped("release", o, todo[a])
          /\ o.kind \in {"install", "rollback"}
      BY <1>1, WorkerFacts DEF At, Working
    <2>2. todo[a] = {}
      BY <2>1 DEF ProgressOf
    <2>3. DOMAIN o.before = Paths /\ ManagedTargets(o) \subseteq Paths
      BY <2>1, ManagedArePaths DEF ActorTyped, FilesTyped
    <2>4. ASSUME o.result = "failed" PROVE Holds(o.before)
      <3>1. \A t \in Paths : Matches(t, o.before[t], disk[t])
        <4>1. CASE o.own = NoSnapshot
          BY <2>1, <4>1 DEF ProgressOf, Untouched
        <4>2. CASE o.own # NoSnapshot
          BY <2>1, <2>2, <2>4, <4>2 DEF ProgressOf, Undoable, Wanted, Matches
        <4> QED BY <4>1, <4>2
      <3> QED BY <2>3, <3>1 DEF Holds, Matches
    <2>5. ASSUME o.result = "done" PROVE Holds(Unmanaged(a))
      BY <2>1 DEF ProgressOf, Holds, Unmanaged, Matches
    <2>6. ASSUME o.result = "done"
          PROVE  \A t \in ManagedTargets(o) :
                    Matches(t, IF o.kind = "install" THEN Staged(o, t) ELSE o.plan.files[t], disk[t])
      <3>1. o.own # NoSnapshot
        BY <2>1, <2>6 DEF ProgressOf, Untouched
      <3> QED BY <2>1, <2>2, <2>6, <3>1 DEF ProgressOf, Undoable, Wanted
    <2>7. ASSUME o.result = "done", o.kind = "rollback" PROVE Holds(o.plan.files)
      BY <2>6, <2>7 DEF Holds, Matches, ManagedTargets
    <2>8. ASSUME o.result = "done", o.kind # "rollback"
          PROVE  Holds([t \in ManagedTargets(o) |-> Staged(o, t)])
      BY <2>1, <2>6, <2>8 DEF Holds, Matches
    <2> QED BY <2>4, <2>5, <2>7, <2>8
  <1>2. InstallInv => AllOrNothing
    BY <1>1 DEF AllOrNothing
  <1> QED BY <1>2, InstallAlways, PTL

(***************************************************************************)
(* The abstract release.                                                    *)
(***************************************************************************)

\* What an operation means to put in a target it manages.
Goal(o, t) == IF o.kind = "install" THEN Staged(o, t) ELSE o.plan.files[t]

Programs == Paths \ {"workspace"}

\* A managed program is the old one, the new one, or missing.
Halfway(files, o) ==
    \A t \in ManagedTargets(o) \ {"workspace"} : files[t] \in {o.before[t], {}, Goal(o, t)}

\* What an operation owns or rolls back is in a complete snapshot.
RecordOf(files, complete, step, o) ==
    /\ o.own = NoSnapshot \/ o.own \in complete
    /\ step # "idle" /\ o.kind = "rollback" => o.plan \in complete
    /\ step \notin {"idle", "planned"} => Halfway(files, o)

Recorded == \A a \in Actors : RecordOf(disk, snapshots, pc[a], op[a])

\* How a step of an operation may change how it will end.
Turns(a) ==
    \/ /\ op'[a].result = op[a].result
       /\ op[a].result \in {"done", "broken"} => disk' = disk
    \/ op[a].result = "open" /\ op'[a].result = "failed"
    \/ op[a].result = "failed" /\ op'[a].result = "broken" /\ faults' = faults + 1

\* A step under the lock that neither snapshots nor ends the operation well.
InnerStep(a) ==
    /\ Working(a) /\ pc'[a] \notin {"idle", "planned"}
    /\ Alike(op[a], op'[a])
    /\ \A b \in Actors \ {a} : pc'[b] = pc[b] /\ op'[b] = op[b]
    /\ lock' = lock /\ snapshots' = snapshots
    /\ \A t \in Programs :
        \/ disk'[t] = disk[t]
        \/ t \in ManagedTargets(op[a]) /\ disk'[t] \in {{}, op[a].before[t], Goal(op[a], t)}
    /\ faults' \in {faults, faults + 1}
    /\ Turns(a)

\* Where a step leads the process that takes it, and that the others stay.
LEMMA GoMoves ==
    ASSUME InstallInv, NEW a \in Actors, NEW step, NEW o, NEW rest, Go(a, step, o, rest)
    PROVE  /\ pc'[a] = step /\ op'[a] = o
           /\ \A b \in Actors \ {a} : pc'[b] = pc[b] /\ op'[b] = op[b]
  BY DEF InstallInv, Control, Shape, Go

\* A step that leaves the disk alone, and may start undoing.
LEMMA InnerSame ==
    ASSUME InstallInv, NEW a \in Actors, NEW step, NEW o, NEW rest, Go(a, step, o, rest),
           Working(a), step \notin {"idle", "planned"}, Alike(op[a], o),
           UNCHANGED <<lock, snapshots, disk>>, faults' \in {faults, faults + 1},
           o.result = op[a].result \/ (op[a].result = "open" /\ o.result = "failed")
    PROVE  InnerStep(a)
  BY GoMoves DEF InnerStep, Turns

\* Undoing starts after a target was cut short.
LEMMA InnerUnwind ==
    ASSUME InstallInv, NEW a \in Actors, Unwind(a), Working(a), op[a].result = "open",
           UNCHANGED <<lock, snapshots>>, faults' \in {faults, faults + 1},
           \A t \in Programs :
               disk'[t] = disk[t] \/ (t \in ManagedTargets(op[a]) /\ disk'[t] = {})
    PROVE  InnerStep(a)
  <1> DEFINE o == [op[a] EXCEPT !.result = "failed"]
  <1>1. Alike(op[a], o) /\ o.result = "failed"
    BY WorkerFacts DEF Alike, OpFields
  <1>2. Go(a, "unwind", o, {})
    BY DEF Unwind
  <1> HIDE DEF o
  <1>3. /\ pc'[a] = "unwind" /\ op'[a] = o
        /\ \A b \in Actors \ {a} : pc'[b] = pc[b] /\ op'[b] = op[b]
    BY <1>2, GoMoves
  <1> QED BY <1>1, <1>3 DEF InnerStep, Turns

\* A target cut short is as it was, or missing.
LEMMA CutShortPrograms ==
    ASSUME InstallInv, NEW a \in Actors, NEW t \in todo[a], CutShort(a, t), Working(a)
    PROVE  /\ pc[a] \in {"replace", "restore"}
           /\ \A u \in Paths : disk'[u] = disk[u] \/ (u \in ManagedTargets(op[a]) /\ disk'[u] = {})
  <1>1. pc[a] \in {"replace", "restore"} /\ disk' \in {disk, Removed(t)}
    BY Zenon DEF CutShort, At
  <1>2. t \in ManagedTargets(op[a]) /\ DOMAIN disk = Paths
    BY WorkerFacts DEF ProgressOf
  <1> QED BY <1>1, <1>2 DEF Removed

\* The steps under the lock that go on, or fail.
LEMMA ForwardInner ==
    ASSUME InstallInv, NEW a \in Actors, Forward(a), Working(a),
           ~SnapshotTargets(a), ~WriteReceipt(a)
    PROVE  InnerStep(a)
  <1>0. /\ DOMAIN op[a] = OpFields /\ DOMAIN disk = Paths
        /\ ProgressOf(disk, pc[a], op[a], todo[a])
    BY WorkerFacts
  <1>o. pc[a] \in {"snapshot", "replace", "bootout", "bootstrap", "health", "receipt"}
           => op[a].result = "open"
    BY <1>0 DEF ProgressOf, StepFits
  <1>1. ~AcquireLock(a) /\ ~Refused(a) /\ ~AcquireFails(a)
    BY DEF AcquireLock, Refused, AcquireFails, At, Working
  <1>2. ASSUME NEW t \in todo[a], ReplaceWithStaged(a, t) PROVE InnerStep(a)
    <2> DEFINE step == IF todo[a] = {t} THEN "bootout" ELSE "replace"
    <2>1. /\ pc[a] = "replace" /\ disk' = [disk EXCEPT ![t] = Staged(op[a], t)]
          /\ Go(a, step, op[a], todo[a] \ {t})
          /\ UNCHANGED <<snapshots, lock, faults>>
      BY <1>2 DEF ReplaceWithStaged, At, SameRun, NoFault
    <2>2. step \notin {"idle", "planned"}
      OBVIOUS
    <2> HIDE DEF step
    <2>3. op[a].kind = "install" /\ op[a].result = "open" /\ t \in ManagedTargets(op[a])
      BY <1>0, <2>1 DEF ProgressOf, StepFits
    <2>4. \A u \in Programs :
              \/ disk'[u] = disk[u]
              \/ u \in ManagedTargets(op[a]) /\ disk'[u] = Goal(op[a], u)
      BY <1>0, <2>1, <2>3 DEF Goal, Programs
    <2>5. /\ pc'[a] = step /\ op'[a] = op[a]
          /\ \A b \in Actors \ {a} : pc'[b] = pc[b] /\ op'[b] = op[b]
      BY <2>1, GoMoves
    <2> QED BY <2>1, <2>2, <2>3, <2>4, <2>5 DEF InnerStep, Turns, Alike
  <1>3. ASSUME NEW t \in todo[a], ReplaceFails(a, t) PROVE InnerStep(a)
    <2>1. /\ CutShort(a, t) /\ Unwind(a) /\ pc[a] = "replace"
          /\ UNCHANGED <<snapshots, lock>> /\ faults' = faults + 1
      BY <1>3 DEF ReplaceFails, SameRun, At, Fault
    <2> QED BY <1>o, <2>1, CutShortPrograms, InnerUnwind DEF Programs
  <1>4. CASE BootoutService(a)
    <2> DEFINE o == [op[a] EXCEPT !.started = FALSE]
    <2> DEFINE step == IF o.kind = "install" THEN "bootstrap" ELSE "snapshot"
    <2>1. Go(a, step, o, {}) /\ UNCHANGED <<lock, snapshots, disk, faults>>
      BY <1>4 DEF BootoutService, SameFiles, SameRun, NoFault
    <2>2. Alike(op[a], o) /\ o.result = op[a].result /\ step \notin {"idle", "planned"}
      BY <1>0 DEF Alike, OpFields
    <2> HIDE DEF o, step
    <2> QED BY <2>1, <2>2, InnerSame
  <1>5. CASE BootstrapService(a)
    <2> DEFINE o == [op[a] EXCEPT !.started = TRUE]
    <2> DEFINE step == AfterBootstrap(op[a])
    <2>1. Go(a, step, o, {}) /\ UNCHANGED <<lock, snapshots, disk, faults>>
      BY <1>5 DEF BootstrapService, SameFiles, SameRun, NoFault
    <2>2. Alike(op[a], o) /\ o.result = op[a].result /\ step \notin {"idle", "planned"}
      BY <1>0 DEF Alike, OpFields, AfterBootstrap
    <2> HIDE DEF o, step
    <2> QED BY <2>1, <2>2, InnerSame
  <1>6. CASE RestartForPeerLinks(a)
    <2> DEFINE o == [op[a] EXCEPT !.restarted = TRUE]
    <2> DEFINE step == "bootout"
    <2>1. Go(a, step, o, {}) /\ UNCHANGED <<lock, snapshots, disk, faults>>
      BY <1>6 DEF RestartForPeerLinks, SameFiles, SameRun, NoFault
    <2>2. Alike(op[a], o) /\ o.result = op[a].result /\ step \notin {"idle", "planned"}
      BY <1>0 DEF Alike, OpFields
    <2> HIDE DEF o, step
    <2> QED BY <2>1, <2>2, InnerSame
  <1>7. CASE HealthCheck(a)
    <2> DEFINE step == "receipt"
    <2>1. Go(a, step, op[a], {}) /\ UNCHANGED <<lock, snapshots, disk, faults>>
      BY <1>7 DEF HealthCheck, SameFiles, SameRun, NoFault
    <2>2. Alike(op[a], op[a]) /\ step \notin {"idle", "planned"}
      BY DEF Alike
    <2> HIDE DEF step
    <2> QED BY <2>1, <2>2, InnerSame
  <1>8. CASE BootoutFails(a) \/ BootstrapFails(a) \/ HealthCheckFails(a) \/ StepFails(a)
    <2>1. /\ pc[a] \in {"snapshot", "bootout", "bootstrap", "health", "receipt"}
          /\ Unwind(a) /\ UNCHANGED <<lock, snapshots, disk>> /\ faults' \in {faults, faults + 1}
      BY <1>8 DEF BootoutFails, BootstrapFails, HealthCheckFails, StepFails, At,
                  SameFiles, SameRun, Fault, NoFault
    <2> QED BY <1>o, <2>1, InnerUnwind
  <1> QED BY <1>1, <1>2, <1>3, <1>4, <1>5, <1>6, <1>7, <1>8 DEF Forward

\* The steps of the catch block, and the restores.
LEMMA BackwardInner ==
    ASSUME InstallInv, NEW a \in Actors, Backward(a), Working(a),
           ~ReleaseLock(a), ~ReleaseFails(a)
    PROVE  InnerStep(a)
  <1>0. /\ DOMAIN op[a] = OpFields /\ DOMAIN disk = Paths
        /\ ProgressOf(disk, pc[a], op[a], todo[a]) /\ ActorTyped(pc[a], op[a], todo[a])
    BY WorkerFacts
  <1>s. Alike(op[a], op[a])
    BY DEF Alike
  <1>1. CASE CatchError(a)
    <2>1. /\ UNCHANGED <<lock, snapshots, disk>> /\ faults' \in {faults, faults + 1}
          /\ IF op[a].own = NoSnapshot THEN Go(a, "release", op[a], {})
             ELSE Go(a, "restore", op[a], DOMAIN op[a].own.files)
      BY <1>1 DEF CatchError, SameFiles, SameRun, Fault, NoFault
    <2>2. PICK step \in {"release", "restore"} : \E rest : Go(a, step, op[a], rest)
      BY <2>1
    <2>3. PICK rest : Go(a, step, op[a], rest)
      BY <2>2
    <2> QED BY <1>s, <2>1, <2>2, <2>3, InnerSame
  <1>2. CASE RestartFromGuard(a)
    <2> DEFINE step == "release"
    <2>1. Go(a, step, op[a], {}) /\ UNCHANGED <<lock, snapshots, disk, faults>>
      BY <1>2 DEF RestartFromGuard, SameFiles, SameRun, NoFault
    <2>2. step \notin {"idle", "planned"}
      OBVIOUS
    <2> HIDE DEF step
    <2> QED BY <1>s, <2>1, <2>2, InnerSame
  <1>3. ASSUME NEW t \in todo[a], RestoreSnapshot(a, t) PROVE InnerStep(a)
    <2> DEFINE step == IF todo[a] = {t} THEN AfterRestore(op[a]) ELSE "restore"
    <2>1. /\ pc[a] = "restore" /\ disk' = [disk EXCEPT ![t] = RestoredContent(op[a], t)]
          /\ Go(a, step, op[a], todo[a] \ {t})
          /\ UNCHANGED <<snapshots, lock, faults>>
      BY <1>3 DEF RestoreSnapshot, At, SameRun, NoFault
    <2>2. step \notin {"idle", "planned"}
      BY DEF AfterRestore
    <2> HIDE DEF step
    <2>3. /\ t \in ManagedTargets(op[a]) /\ op[a].own # NoSnapshot
          /\ op[a].result = "failed" \/ (op[a].result = "open" /\ op[a].kind = "rollback")
      BY <1>0, <2>1 DEF ProgressOf, StepFits, Untouched
    <2>4. t # "workspace" => op[a].own.files[t] = op[a].before[t]
      BY <1>0, <2>3 DEF ProgressOf, Undoable, Matches
    <2>5. t # "workspace" => RestoredContent(op[a], t) \in {op[a].before[t], Goal(op[a], t)}
      BY <2>3, <2>4 DEF RestoredContent, Restored, Goal
    <2>6. \A u \in Programs :
              \/ disk'[u] = disk[u]
              \/ u \in ManagedTargets(op[a]) /\ disk'[u] \in {op[a].before[u], Goal(op[a], u)}
      BY <1>0, <2>1, <2>3, <2>5 DEF Programs
    <2>7. /\ pc'[a] = step /\ op'[a] = op[a]
          /\ \A b \in Actors \ {a} : pc'[b] = pc[b] /\ op'[b] = op[b]
      BY <2>1, GoMoves
    <2> QED BY <1>s, <2>1, <2>2, <2>3, <2>6, <2>7 DEF InnerStep, Turns
  <1>4. ASSUME NEW t \in todo[a], RestoreFails(a, t) PROVE InnerStep(a)
    <2>1. /\ CutShort(a, t) /\ pc[a] = "restore"
          /\ UNCHANGED <<snapshots, lock>> /\ faults' = faults + 1
          /\ IF op[a].result = "failed"
             THEN Go(a, AfterRestore(op[a]), [op[a] EXCEPT !.result = "broken"], {})
             ELSE Unwind(a)
      BY <1>4 DEF RestoreFails, SameRun, At, Fault
    <2>2. \A u \in Programs : disk'[u] = disk[u] \/ (u \in ManagedTargets(op[a]) /\ disk'[u] = {})
      BY <2>1, CutShortPrograms DEF Programs
    <2>3. op[a].result \in {"open", "failed"}
      BY <1>0, <2>1 DEF ProgressOf, StepFits
    <2>4. CASE op[a].result = "open"
      BY <2>1, <2>2, <2>4, InnerUnwind
    <2>5. CASE op[a].result = "failed"
      <3> DEFINE o == [op[a] EXCEPT !.result = "broken"]
      <3> DEFINE step == AfterRestore(op[a])
      <3>1. Alike(op[a], o) /\ o.result = "broken" /\ step \notin {"idle", "planned"}
        BY <1>0 DEF Alike, OpFields, AfterRestore
      <3>2. Go(a, step, o, {})
        BY <2>1, <2>5
      <3> HIDE DEF o, step
      <3>3. /\ pc'[a] = step /\ op'[a] = o
            /\ \A b \in Actors \ {a} : pc'[b] = pc[b] /\ op'[b] = op[b]
        BY <3>2, GoMoves
      <3> QED BY <2>1, <2>2, <2>5, <3>1, <3>3 DEF InnerStep, Turns
    <2> QED BY <2>3, <2>4, <2>5
  <1> QED BY <1>1, <1>2, <1>3, <1>4 DEF Backward

\* One process moves; the records of the others stay.
LEMMA RecordMoves ==
    ASSUME InstallInv, Recorded, NEW a \in Actors, snapshots \subseteq snapshots',
           \A b \in Actors \ {a} : pc'[b] = pc[b] /\ op'[b] = op[b],
           RecordOf(disk', snapshots', pc'[a], op'[a]),
           disk' = disk \/ Working(a)
    PROVE  Recorded'
  <1> SUFFICES ASSUME NEW b \in Actors PROVE RecordOf(disk', snapshots', pc'[b], op'[b])
    BY DEF Recorded
  <1>1. CASE b = a
    BY <1>1
  <1>2. CASE b # a
    <2>1. RecordOf(disk, snapshots, pc[b], op[b]) /\ pc'[b] = pc[b] /\ op'[b] = op[b]
      BY <1>2 DEF Recorded
    <2>2. disk' = disk \/ pc[b] \in {"idle", "planned"}
      BY <1>2 DEF InstallInv, Control, OneMutator, Working
    <2> QED BY <2>1, <2>2 DEF RecordOf
  <1> QED BY <1>1, <1>2

\* A process that leaves its operation has nothing on record.
LEMMA LeavingRecords ==
    ASSUME InstallInv, Recorded, NEW a \in Actors, Go(a, "idle", NoOp, {}),
           snapshots' = snapshots, disk' = disk \/ Working(a)
    PROVE  Recorded'
  <1>1. /\ pc'[a] = "idle" /\ op'[a] = NoOp
        /\ \A b \in Actors \ {a} : pc'[b] = pc[b] /\ op'[b] = op[b]
    BY GoMoves
  <1>2. RecordOf(disk', snapshots', pc'[a], op'[a])
    BY <1>1 DEF RecordOf, NoOp
  <1> QED BY <1>1, <1>2, RecordMoves

\* What an operation has changed stays between the old and the new.
LEMMA InnerRecords ==
    ASSUME InstallInv, Recorded, NEW a \in Actors, InnerStep(a)
    PROVE  Recorded'
  <1> DEFINE o == op[a]
  <1> DEFINE p == op'[a]
  <1>1. Alike(o, p) /\ Working(a) /\ snapshots' = snapshots
    BY DEF InnerStep
  <1>2. RecordOf(disk, snapshots, pc[a], o) /\ pc[a] \notin {"idle", "planned"}
    BY <1>1 DEF Recorded, Working
  <1>3. ManagedTargets(p) = ManagedTargets(o) /\ ManagedTargets(o) \subseteq Paths
    BY <1>1, <1>2, AlikeManages, WorkerFacts, ManagedArePaths
  <1>4. \A t : Goal(p, t) = Goal(o, t)
    BY <1>1, AlikeManages DEF Alike, Goal
  <1>5. Halfway(disk', p)
    <2> SUFFICES ASSUME NEW t \in ManagedTargets(o) \ {"workspace"}
                 PROVE  disk'[t] \in {o.before[t], {}, Goal(o, t)}
      BY <1>1, <1>3, <1>4 DEF Halfway, Alike
    <2>1. disk[t] \in {o.before[t], {}, Goal(o, t)}
      BY <1>2 DEF RecordOf, Halfway
    <2>2. disk'[t] = disk[t] \/ disk'[t] \in {{}, o.before[t], Goal(o, t)}
      BY <1>3 DEF InnerStep, Programs
    <2> QED BY <2>1, <2>2
  <1>6. RecordOf(disk', snapshots', pc'[a], p)
    BY <1>1, <1>2, <1>5 DEF RecordOf, Alike
  <1>7. \A b \in Actors \ {a} : pc'[b] = pc[b] /\ op'[b] = op[b]
    BY DEF InnerStep
  <1> HIDE DEF o, p
  <1> QED BY <1>1, <1>6, <1>7, RecordMoves DEF p

\* A rollback is planned from a complete snapshot.
LEMMA BeginRecords ==
    ASSUME InstallInv, Recorded, NEW a \in Actors, Begin(a)
    PROVE  Recorded'
  <1>1. PICK o : /\ StartOp(a, o) /\ o.own = NoSnapshot
                 /\ o.kind = "rollback" => o.plan \in snapshots
    <2>1. ASSUME NEW install \in Installs, CheckInstall(a, install)
          PROVE  \E o : /\ StartOp(a, o) /\ o.own = NoSnapshot
                        /\ o.kind = "rollback" => o.plan \in snapshots
      <3> DEFINE o == [NoOp EXCEPT !.kind = "install", !.id = ops + 1,
                                   !.version = install.version, !.migrate = install.migrate]
      <3>1. StartOp(a, o)
        BY <2>1 DEF CheckInstall
      <3>2. o.own = NoSnapshot /\ o.kind = "install"
        BY DEF NoOp
      <3> HIDE DEF o
      <3> QED BY <3>1, <3>2
    <2>2. ASSUME NEW s \in snapshots, PlanRollback(a, s)
          PROVE  \E o : /\ StartOp(a, o) /\ o.own = NoSnapshot
                        /\ o.kind = "rollback" => o.plan \in snapshots
      <3> DEFINE o == [NoOp EXCEPT !.kind = "rollback", !.id = ops + 1, !.plan = s]
      <3>1. StartOp(a, o)
        BY <2>2 DEF PlanRollback
      <3>2. o.own = NoSnapshot /\ o.plan = s
        BY DEF NoOp
      <3> HIDE DEF o
      <3> QED BY <3>1, <3>2
    <2> QED BY <2>1, <2>2 DEF Begin
  <1>2. Go(a, "planned", o, {}) /\ UNCHANGED <<disk, snapshots>>
    BY <1>1 DEF StartOp
  <1>3. /\ pc'[a] = "planned" /\ op'[a] = o
        /\ \A b \in Actors \ {a} : pc'[b] = pc[b] /\ op'[b] = op[b]
    BY <1>2, GoMoves
  <1>4. RecordOf(disk', snapshots', pc'[a], op'[a])
    BY <1>1, <1>2, <1>3 DEF RecordOf
  <1> QED BY <1>2, <1>3, <1>4, RecordMoves

\* An operation that has just taken the lock has changed nothing.
LEMMA AcquireRecords ==
    ASSUME InstallInv, Recorded, NEW a \in Actors, AcquireLock(a)
    PROVE  Recorded'
  <1> DEFINE o == [op[a] EXCEPT !.before = disk, !.wasLoaded = loaded]
  <1> DEFINE step == FirstStep(op[a])
  <1>1. Go(a, step, o, {}) /\ UNCHANGED <<disk, snapshots>> /\ pc[a] = "planned"
    BY DEF AcquireLock, At
  <1>2. /\ o.before = disk /\ o.own = op[a].own /\ o.kind = op[a].kind /\ o.plan = op[a].plan
        /\ RecordOf(disk, snapshots, pc[a], op[a])
    BY WorkerFacts DEF OpFields, Recorded
  <1> HIDE DEF o, step
  <1>3. /\ pc'[a] = step /\ op'[a] = o
        /\ \A b \in Actors \ {a} : pc'[b] = pc[b] /\ op'[b] = op[b]
    BY <1>1, GoMoves
  <1>4. RecordOf(disk', snapshots', pc'[a], op'[a])
    BY <1>1, <1>2, <1>3 DEF RecordOf, Halfway
  <1> QED BY <1>1, <1>3, <1>4, RecordMoves

\* The snapshot an operation owns is complete.
LEMMA SnapshotRecords ==
    ASSUME InstallInv, Recorded, NEW a \in Actors, SnapshotTargets(a)
    PROVE  Recorded'
  <1> DEFINE own == SnapshotOf(op[a])
  <1> DEFINE o == [op[a] EXCEPT !.own = own]
  <1>1. /\ pc[a] = "snapshot" /\ disk' = disk /\ snapshots' = snapshots \cup {own}
        /\ IF o.kind = "install" THEN Go(a, "replace", o, ManagedTargets(o))
                                 ELSE Go(a, "restore", o, DOMAIN o.plan.files)
    BY DEF SnapshotTargets, At
  <1>2. /\ o.own = own /\ o.kind = op[a].kind /\ o.plan = op[a].plan /\ o.before = op[a].before
        /\ ManagedTargets(o) = ManagedTargets(op[a]) /\ \A t : Goal(o, t) = Goal(op[a], t)
        /\ RecordOf(disk, snapshots, pc[a], op[a])
    BY WorkerFacts DEF OpFields, Recorded, ManagedTargets, Goal, Staged
  <1> HIDE DEF o, own
  <1>3. /\ pc'[a] \in {"replace", "restore"} /\ op'[a] = o
        /\ \A b \in Actors \ {a} : pc'[b] = pc[b] /\ op'[b] = op[b]
    BY <1>1, GoMoves
  <1>4. RecordOf(disk', snapshots', pc'[a], op'[a])
    BY <1>1, <1>2, <1>3 DEF RecordOf, Halfway
  <1> QED BY <1>1, <1>3, <1>4, RecordMoves

\* A receipt changes no file.
LEMMA ReceiptRecords ==
    ASSUME InstallInv, Recorded, NEW a \in Actors, WriteReceipt(a)
    PROVE  Recorded'
  <1> DEFINE o == [op[a] EXCEPT !.result = "done"]
  <1>1. Go(a, "release", o, {}) /\ pc[a] = "receipt" /\ UNCHANGED <<disk, snapshots>>
    BY DEF WriteReceipt, At, SameFiles
  <1>2. Alike(op[a], o) /\ RecordOf(disk, snapshots, pc[a], op[a])
    BY WorkerFacts DEF Alike, OpFields, Recorded
  <1> HIDE DEF o
  <1>3. /\ pc'[a] = "release" /\ op'[a] = o
        /\ \A b \in Actors \ {a} : pc'[b] = pc[b] /\ op'[b] = op[b]
    BY <1>1, GoMoves
  <1>4. ManagedTargets(o) = ManagedTargets(op[a]) /\ \A t : Goal(o, t) = Goal(op[a], t)
    BY <1>2, AlikeManages DEF Alike, Goal
  <1>5. RecordOf(disk', snapshots', pc'[a], op'[a])
    BY <1>1, <1>2, <1>3, <1>4 DEF RecordOf, Halfway, Alike
  <1> QED BY <1>1, <1>3, <1>5, RecordMoves

\* The service changes no program.
LEMMA ServiceRecords ==
    ASSUME InstallInv, Recorded, ServiceWrites
    PROVE  Recorded'
  <1>1. UNCHANGED <<snapshots, pc, op>>
    BY DEF ServiceWrites
  <1>2. \A t \in Programs : disk'[t] = disk[t]
    BY DEF ServiceWrites, Programs, InstallInv, WorldTyped, FilesTyped
  <1> SUFFICES ASSUME NEW a \in Actors PROVE RecordOf(disk', snapshots, pc[a], op[a])
    BY <1>1 DEF Recorded
  <1>3. RecordOf(disk, snapshots, pc[a], op[a])
    BY DEF Recorded
  <1>4. Working(a) => ManagedTargets(op[a]) \subseteq Paths
    BY WorkerFacts, ManagedArePaths DEF Working
  <1> QED BY <1>2, <1>3, <1>4 DEF RecordOf, Halfway, Programs, Working

\* A step under the lock is an inner one, or the one that starts, snapshots,
\* succeeds or leaves.
LEMMA ProceedCases ==
    ASSUME InstallInv, NEW a \in Actors, Proceed(a)
    PROVE  \/ AcquireLock(a) \/ Refused(a) \/ AcquireFails(a)
           \/ SnapshotTargets(a) \/ WriteReceipt(a) \/ InnerStep(a)
           \/ ReleaseLock(a) \/ ReleaseFails(a)
  <1>1. CASE Working(a)
    BY <1>1, ForwardInner, BackwardInner DEF Proceed
  <1>2. CASE ~Working(a)
    <2>1. todo[a] = {} \/ pc[a] \in {"idle", "planned"}
      BY <1>2 DEF Working
    <2> QED BY <1>2, <2>1 DEF Proceed, Forward, Backward, Working, At, AcquireLock, Refused,
            AcquireFails, SnapshotTargets, ReplaceWithStaged, ReplaceFails, BootoutService,
            BootoutFails, BootstrapService, BootstrapFails, RestartForPeerLinks, HealthCheck,
            HealthCheckFails, WriteReceipt, StepFails, CatchError, RestoreSnapshot, RestoreFails,
            RestartFromGuard, ReleaseLock, ReleaseFails
  <1> QED BY <1>1, <1>2

\* A crash forgets one operation.
LEMMA CrashMoves ==
    ASSUME InstallInv, NEW a \in Actors, Crash(a)
    PROVE  /\ Go(a, "idle", NoOp, {}) /\ UNCHANGED snapshots /\ faults' = faults + 1
           /\ lock' = IF lock = a THEN "stale" ELSE lock
           /\ disk' = disk \/ (Working(a) /\ \E t \in todo[a] : CutShort(a, t))
  BY DEF Crash, Fault, CutShort, At, Working

\* Every step preserves the records.
LEMMA RecordedNext ==
    ASSUME InstallInv, Recorded, [Next]_vars
    PROVE  Recorded'
  <1>1. ASSUME NEW a \in Actors, Begin(a) \/ Proceed(a) \/ Crash(a) PROVE Recorded'
    <2>1. CASE Crash(a)
      BY <2>1, CrashMoves, LeavingRecords
    <2>2. CASE Refused(a) \/ AcquireFails(a) \/ ReleaseLock(a) \/ ReleaseFails(a)
      <3>1. Go(a, "idle", NoOp, {}) /\ UNCHANGED <<disk, snapshots>>
        BY <2>2 DEF Refused, AcquireFails, ReleaseLock, ReleaseFails
      <3> QED BY <3>1, LeavingRecords
    <2> QED BY <1>1, <2>1, <2>2, BeginRecords, ProceedCases, AcquireRecords, SnapshotRecords,
               ReceiptRecords, InnerRecords
  <1>2. CASE UserStopsService \/ UNCHANGED vars
    BY <1>2 DEF UserStopsService, vars, Recorded
  <1> QED BY <1>1, <1>2, ServiceRecords DEF Next

(***************************************************************************)
(* The refinement.                                                          *)
(***************************************************************************)

\* The targets of the abstract release are the programs.
LEMMA TargetsArePrograms == Release!Targets = Programs
  BY InstallerAssumption DEF Release!Targets, Programs, Paths, Fixed

\* What is visible of the files of a disk.
LEMMA VisibleFiles ==
    ASSUME NEW files, DOMAIN files = Paths
    PROVE  WithoutUserData(files) = [t \in Programs |-> files[t]]
  BY DEF WithoutUserData, Programs

\* Files that agree on the programs look the same.
LEMMA SameVisible ==
    ASSUME NEW files, NEW after, DOMAIN files = Paths, DOMAIN after = Paths,
           \A t \in Programs : after[t] = files[t]
    PROVE  WithoutUserData(after) = WithoutUserData(files)
  BY VisibleFiles

\* An operation that works is a change of the abstract release, and the snapshot
\* it owns keeps what it replaces.
LEMMA ChangeOf ==
    ASSUME InstallInv, Recorded, NEW a \in Actors, Working(a), op[a].own # NoSnapshot,
           op[a].result \in {"open", "failed"}
    PROVE  \E c \in Release!Changes :
               /\ DOMAIN c = ManagedTargets(op[a]) \ {"workspace"}
               /\ \A t \in DOMAIN c : c[t] = Goal(op[a], t)
               /\ Release!ReplacedBy(c) \in {WithoutUserData(s.files) : s \in snapshots}
               /\ op[a].kind = "install" =>
                    /\ op[a].id \in OpIds /\ op[a].version \in Versions
                    /\ c = Release!InstallOf(op[a].id, op[a].version)
               /\ op[a].kind = "rollback" =>
                    c \in {WithoutUserData(s.files) : s \in snapshots}
  <1> DEFINE o == op[a]
  <1> DEFINE c == IF o.kind = "install" THEN Release!InstallOf(o.id, o.version)
                                        ELSE WithoutUserData(o.plan.files)
  <1>1. /\ ActorTyped(pc[a], o, todo[a]) /\ ProgressOf(disk, pc[a], o, todo[a])
        /\ o.kind \in {"install", "rollback"} /\ pc[a] \notin {"idle", "planned"}
        /\ RecordOf(disk, snapshots, pc[a], o)
    BY WorkerFacts DEF Working, Recorded
  <1>2. lock = a /\ Undecided
    BY <1>1 DEF InstallInv, Control, OneMutator, Undecided
  <1>3. DOMAIN o.before = Paths /\ ManagedTargets(o) \subseteq Paths
    BY <1>1, ManagedArePaths DEF ActorTyped, FilesTyped
  <1>4. Visible = [t \in Programs |-> o.before[t]]
    BY <1>2, <1>3, VisibleFiles DEF Visible
  <1>5. /\ DOMAIN c = ManagedTargets(o) \ {"workspace"}
        /\ \A t \in DOMAIN c : c[t] = Goal(o, t)
    <2>1. CASE o.kind = "install"
      <3>1. o.version \in Versions /\ o.version # "workspace"
        BY <1>1, <2>1, InstallerAssumption DEF ActorTyped, Fixed
      <3> QED BY <2>1, <3>1 DEF Release!InstallOf, ManagedTargets, Goal, Staged
    <2>2. CASE o.kind = "rollback"
      BY <2>2 DEF WithoutUserData, ManagedTargets, Goal
    <2> QED BY <1>1, <2>1, <2>2
  <1>6. o.kind = "install" =>
            o.id \in OpIds /\ o.version \in Versions /\ c = Release!InstallOf(o.id, o.version)
    BY <1>1 DEF ActorTyped
  <1>7. o.kind = "rollback" => c \in {WithoutUserData(s.files) : s \in snapshots}
    BY <1>1 DEF RecordOf
  <1>8. c \in Release!Changes
    BY <1>1, <1>6, <1>7 DEF Release!Changes
  <1>9. Release!ReplacedBy(c) = WithoutUserData(o.own.files)
    <2>1. /\ DOMAIN o.own.files = ManagedTargets(o)
          /\ \A t \in ManagedTargets(o) \ {"workspace"} : o.own.files[t] = o.before[t]
      BY <1>1 DEF ProgressOf, Undoable, Matches
    <2>2. Release!ReplacedBy(c) = [t \in ManagedTargets(o) \ {"workspace"} |-> Visible[t]]
      BY <1>5 DEF Release!ReplacedBy
    <2>3. \A t \in ManagedTargets(o) \ {"workspace"} : Visible[t] = o.before[t]
      BY <1>3, <1>4 DEF Programs
    <2> HIDE DEF o, c
    <2> QED BY <2>1, <2>2, <2>3 DEF WithoutUserData
  <1>10. Release!ReplacedBy(c) \in {WithoutUserData(s.files) : s \in snapshots}
    BY <1>1, <1>9 DEF RecordOf
  <1> HIDE DEF c
  <1> QED BY <1>5, <1>6, <1>7, <1>8, <1>10

\* The files an operation found when it took the lock are what is visible.
LEMMA VisibleBefore ==
    ASSUME InstallInv, NEW a \in Actors, Working(a), op[a].result \in {"open", "failed"}
    PROVE  /\ Visible = [t \in Programs |-> op[a].before[t]]
           /\ \A t \in Programs \ ManagedTargets(op[a]) : disk[t] = op[a].before[t]
  <1>1. lock = a /\ Undecided
    BY DEF InstallInv, Control, OneMutator, Undecided
  <1>2. DOMAIN op[a].before = Paths /\ ProgressOf(disk, pc[a], op[a], todo[a])
    BY WorkerFacts DEF ActorTyped, FilesTyped
  <1>3. \A t \in Programs \ ManagedTargets(op[a]) : disk[t] = op[a].before[t]
    BY <1>2 DEF ProgressOf, Programs, Matches
  <1> QED BY <1>1, <1>2, <1>3, VisibleFiles DEF Visible

\* A change that is left half done is a fault.
LEMMA HalfwayIsTorn ==
    ASSUME InstallInv, Recorded, NEW a \in Actors, Working(a), op[a].own # NoSnapshot,
           op[a].result \in {"open", "failed"}, DOMAIN disk' = Paths,
           Visible' = WithoutUserData(disk'), snapshots' = snapshots, faults' = faults + 1,
           \A t \in Programs :
               \/ disk'[t] = disk[t]
               \/ t \in ManagedTargets(op[a]) /\ disk'[t] \in {{}, op[a].before[t], Goal(op[a], t)}
    PROVE  Release!Fault
  <1> DEFINE o == op[a]
  <1>1. PICK c \in Release!Changes :
            /\ DOMAIN c = ManagedTargets(o) \ {"workspace"}
            /\ \A t \in DOMAIN c : c[t] = Goal(o, t)
            /\ Release!ReplacedBy(c) \in {WithoutUserData(s.files) : s \in snapshots}
    BY ChangeOf
  <1>2. /\ Visible = [t \in Programs |-> o.before[t]]
        /\ \A t \in Programs \ ManagedTargets(o) : disk[t] = o.before[t]
    BY VisibleBefore
  <1>3. Visible' = [t \in Programs |-> disk'[t]]
    BY VisibleFiles
  <1>4. \A t \in ManagedTargets(o) \ {"workspace"} : disk[t] \in {o.before[t], {}, Goal(o, t)}
    BY DEF Recorded, RecordOf, Halfway, Working
  <1>5. \A t \in Programs :
            Visible'[t] \in {Visible[t]} \cup (IF t \in DOMAIN c THEN {{}, c[t]} ELSE {})
    <2> SUFFICES ASSUME NEW t \in Programs
                 PROVE  disk'[t] \in {o.before[t]} \cup (IF t \in DOMAIN c THEN {{}, c[t]} ELSE {})
      BY <1>2, <1>3
    <2>1. CASE t \in ManagedTargets(o)
      BY <1>1, <1>4, <2>1 DEF Programs
    <2>2. CASE t \notin ManagedTargets(o)
      BY <1>2, <2>2
    <2> QED BY <2>1, <2>2
  <1>6. DOMAIN Visible' = Release!Targets
    BY <1>3, TargetsArePrograms
  <1>7. Release!Torn(c)
    BY <1>1, <1>5, <1>6, TargetsArePrograms DEF Release!Torn
  <1> QED BY <1>1, <1>7 DEF Release!Fault

\* A step that shows nothing, and may be a fault.
LEMMA Unseen ==
    ASSUME Visible' = Visible, snapshots' = snapshots, faults' \in {faults, faults + 1}
    PROVE  [Release!Next]_(Release!releaseVars)
  BY DEF Release!releaseVars, Release!Next, Release!Fault

\* An inner step shows nothing, unless undoing fails.
LEMMA InnerSimulates ==
    ASSUME InstallInv, InstallInv', Recorded, NEW a \in Actors, InnerStep(a)
    PROVE  [Release!Next]_(Release!releaseVars)
  <1>1. /\ Working(a) /\ Alike(op[a], op'[a]) /\ lock' = lock /\ snapshots' = snapshots
        /\ faults' \in {faults, faults + 1} /\ Turns(a)
    BY DEF InnerStep
  <1>2. lock = a
    BY <1>1 DEF InstallInv, Control, OneMutator
  <1>3. op[a].result \in {"open", "failed", "done", "broken"}
    BY WorkerFacts DEF ActorTyped
  <1>4. CASE op[a].result \in {"open", "failed"} /\ op'[a].result \in {"open", "failed"}
    <2>1. Undecided /\ Undecided' /\ op'[lock'].before = op[lock].before
      BY <1>1, <1>2, <1>4 DEF Undecided, Alike
    <2>2. Visible' = Visible
      BY <2>1 DEF Visible
    <2> QED BY <1>1, <2>2, Unseen
  <1>5. CASE op[a].result \in {"done", "broken"}
    <2>1. ~Undecided /\ ~Undecided' /\ disk' = disk
      BY <1>1, <1>2, <1>5 DEF Undecided, Turns
    <2>2. Visible' = Visible
      BY <2>1 DEF Visible
    <2> QED BY <1>1, <2>2, Unseen
  <1>6. CASE op[a].result = "failed" /\ op'[a].result = "broken"
    <2>1. ~Undecided' /\ faults' = faults + 1 /\ DOMAIN disk' = Paths
      BY <1>1, <1>2, <1>6 DEF Undecided, Turns, InstallInv, WorldTyped, FilesTyped
    <2>2. Visible' = WithoutUserData(disk')
      BY <2>1 DEF Visible
    <2>3. CASE op[a].own # NoSnapshot
      <3>1. Release!Fault
        BY <1>1, <1>6, <2>1, <2>2, <2>3, HalfwayIsTorn DEF InnerStep
      <3> QED BY <3>1 DEF Release!Next
    <2>4. CASE op[a].own = NoSnapshot
      <3>1. op'[a].own = NoSnapshot /\ Working(a)'
        BY <1>1, <2>4 DEF Alike, InnerStep, Working
      <3>2. ProgressOf(disk', pc'[a], op'[a], todo'[a])
        BY <3>1 DEF InstallInv, Progress
      <3> QED BY <1>6, <3>1, <3>2 DEF ProgressOf, Untouched
    <2> QED BY <2>3, <2>4
  <1> QED BY <1>1, <1>3, <1>4, <1>5, <1>6 DEF Turns

\* Taking the lock shows nothing.
LEMMA AcquireSimulates ==
    ASSUME InstallInv, NEW a \in Actors, AcquireLock(a)
    PROVE  [Release!Next]_(Release!releaseVars)
  <1> DEFINE o == [op[a] EXCEPT !.before = disk, !.wasLoaded = loaded]
  <1>1. /\ Go(a, FirstStep(op[a]), o, {}) /\ pc[a] = "planned" /\ lock = "free" /\ lock' = a
        /\ UNCHANGED <<disk, snapshots, faults>>
    BY DEF AcquireLock, At, NoFault
  <1>2. o.before = disk /\ o.result = op[a].result
    BY WorkerFacts DEF OpFields
  <1>3. op[a].result = "open"
    BY <1>1, WorkerFacts DEF ActorTyped
  <1> HIDE DEF o
  <1>4. op'[a] = o
    BY <1>1, GoMoves
  <1>5. ~Undecided /\ Undecided' /\ op'[lock'].before = disk
    BY <1>1, <1>2, <1>3, <1>4, InstallerAssumption DEF Undecided
  <1>6. Visible' = Visible
    BY <1>5 DEF Visible
  <1> QED BY <1>1, <1>6, Unseen

\* A snapshot keeps what the operation will replace.
LEMMA SnapshotSimulates ==
    ASSUME InstallInv, InstallInv', Recorded, Recorded', NEW a \in Actors, SnapshotTargets(a)
    PROVE  Release!Next
  <1> DEFINE own == SnapshotOf(op[a])
  <1> DEFINE o == [op[a] EXCEPT !.own = own]
  <1>1. /\ pc[a] = "snapshot" /\ snapshots' = snapshots \cup {own}
        /\ UNCHANGED <<disk, lock, faults>>
        /\ IF o.kind = "install" THEN Go(a, "replace", o, ManagedTargets(o))
                                 ELSE Go(a, "restore", o, DOMAIN o.plan.files)
    BY DEF SnapshotTargets, At, NoFault, SameRun
  <1>2. /\ o.before = op[a].before /\ o.result = op[a].result
        /\ DOMAIN own.files = ManagedTargets(op[a])
        /\ \A t \in ManagedTargets(op[a]) : own.files[t] = disk[t]
    BY WorkerFacts DEF OpFields, SnapshotOf
  <1> HIDE DEF o, own
  <1>3. op'[a] = o
    BY <1>1, GoMoves
  <1>4. /\ Working(a) /\ ProgressOf(disk, "snapshot", op[a], todo[a])
        /\ ActorTyped("snapshot", op[a], todo[a])
    BY <1>1, WorkerFacts DEF Working
  <1>5. op[a].result = "open" /\ op[a].own = NoSnapshot
    BY <1>4 DEF ProgressOf, StepFits, Undoable
  <1>6. lock = a
    BY <1>4 DEF InstallInv, Control, OneMutator
  <1>7. Visible' = Visible
    <2>1. Undecided /\ Undecided' /\ op'[lock'].before = op[lock].before
      BY <1>1, <1>2, <1>3, <1>5, <1>6 DEF Undecided
    <2> QED BY <2>1 DEF Visible
  <1>8. Visible = [t \in Programs |-> op[a].before[t]]
    BY <1>4, <1>5, VisibleBefore
  <1>9. ManagedTargets(op[a]) \subseteq Paths
    BY <1>4, WorkerFacts, ManagedArePaths DEF Working
  <1>10. \A t \in ManagedTargets(op[a]) \ {"workspace"} : own.files[t] = Visible[t]
    BY <1>2, <1>4, <1>5, <1>8, <1>9 DEF ProgressOf, Untouched, Matches, Programs
  <1>11. WithoutUserData(own.files)
            = [t \in ManagedTargets(op[a]) \ {"workspace"} |-> Visible[t]]
    BY <1>2, <1>10 DEF WithoutUserData
  <1>12. PICK c \in Release!Changes : DOMAIN c = ManagedTargets(op[a]) \ {"workspace"}
    <2>1. CASE op[a].kind = "install"
      <3>1. /\ op[a].id \in OpIds /\ op[a].version \in Versions /\ op[a].version # "workspace"
        BY <1>4, <2>1, InstallerAssumption DEF ActorTyped, Fixed
      <3>2. Release!InstallOf(op[a].id, op[a].version) \in Release!Changes
        BY <3>1 DEF Release!Changes
      <3>3. DOMAIN Release!InstallOf(op[a].id, op[a].version)
              = ManagedTargets(op[a]) \ {"workspace"}
        BY <2>1, <3>1 DEF Release!InstallOf, ManagedTargets
      <3> QED BY <3>2, <3>3
    <2>2. CASE op[a].kind = "rollback"
      <3>1. op[a].plan \in snapshots
        BY <1>1, <2>2 DEF Recorded, RecordOf
      <3>2. WithoutUserData(op[a].plan.files) \in Release!Changes
        BY <3>1 DEF Release!Changes
      <3>3. DOMAIN WithoutUserData(op[a].plan.files) = ManagedTargets(op[a]) \ {"workspace"}
        BY <2>2 DEF WithoutUserData, ManagedTargets
      <3> QED BY <3>2, <3>3
    <2>3. op[a].kind \in {"install", "rollback"}
      BY <1>1, WorkerFacts
    <2> QED BY <2>1, <2>2, <2>3
  <1>13. {WithoutUserData(s.files) : s \in snapshots}'
            = {WithoutUserData(s.files) : s \in snapshots} \cup {Release!ReplacedBy(c)}
    <2>1. Release!ReplacedBy(c) = WithoutUserData(own.files)
      BY <1>11, <1>12 DEF Release!ReplacedBy
    <2> QED BY <1>1, <2>1
  <1>14. Release!Keep(c)
    BY <1>1, <1>7, <1>13 DEF Release!Keep
  <1> QED BY <1>12, <1>14 DEF Release!Next

\* With the receipt the change takes effect.
LEMMA ReceiptSimulates ==
    ASSUME InstallInv, Recorded, NEW a \in Actors, WriteReceipt(a)
    PROVE  Release!Next
  <1> DEFINE done == [op[a] EXCEPT !.result = "done"]
  <1>1. /\ Go(a, "release", done, {}) /\ pc[a] = "receipt"
        /\ UNCHANGED <<disk, snapshots, lock, faults>>
    BY DEF WriteReceipt, At, SameFiles, SameRun, NoFault
  <1>2. done.result = "done"
    BY WorkerFacts DEF OpFields
  <1> HIDE DEF done
  <1>3. op'[a].result = "done"
    BY <1>1, <1>2, GoMoves
  <1>4. /\ Working(a) /\ ProgressOf(disk, "receipt", op[a], todo[a]) /\ DOMAIN disk = Paths
        /\ op[a].kind \in {"install", "rollback"}
    BY <1>1, WorkerFacts DEF Working
  <1>5. op[a].result = "open" /\ op[a].own # NoSnapshot /\ todo[a] = {}
    BY <1>4 DEF ProgressOf, StepFits, Untouched
  <1>6. ~Undecided'
    BY <1>1, <1>3, <1>4 DEF InstallInv, Control, OneMutator, Undecided
  <1>7. Visible' = [t \in Programs |-> disk[t]]
    BY <1>1, <1>4, <1>6, VisibleFiles DEF Visible
  <1>8. /\ Visible = [t \in Programs |-> op[a].before[t]]
        /\ \A t \in Programs \ ManagedTargets(op[a]) : disk[t] = op[a].before[t]
    BY <1>4, <1>5, VisibleBefore
  <1>9. \A t \in ManagedTargets(op[a]) \ {"workspace"} : disk[t] = Goal(op[a], t)
    BY <1>4, <1>5 DEF ProgressOf, Undoable, Wanted, Goal, Matches
  <1>10. PICK c \in Release!Changes :
             /\ DOMAIN c = ManagedTargets(op[a]) \ {"workspace"}
             /\ \A t \in DOMAIN c : c[t] = Goal(op[a], t)
             /\ Release!ReplacedBy(c) \in {WithoutUserData(s.files) : s \in snapshots}
             /\ op[a].kind = "install" =>
                  /\ op[a].id \in OpIds /\ op[a].version \in Versions
                  /\ c = Release!InstallOf(op[a].id, op[a].version)
             /\ op[a].kind = "rollback" =>
                  c \in {WithoutUserData(s.files) : s \in snapshots}
    BY <1>4, <1>5, ChangeOf
  <1>11. Visible' = [t \in Release!Targets |-> IF t \in DOMAIN c THEN c[t] ELSE Visible[t]]
    <2>1. \A t \in Programs : disk[t] = IF t \in DOMAIN c THEN c[t] ELSE Visible[t]
      <3> SUFFICES ASSUME NEW t \in Programs
                   PROVE  disk[t] = IF t \in DOMAIN c THEN c[t] ELSE Visible[t]
        OBVIOUS
      <3>1. t \in DOMAIN c <=> t \in ManagedTargets(op[a])
        BY <1>10 DEF Programs
      <3>2. Visible[t] = op[a].before[t]
        BY <1>8
      <3> QED BY <1>8, <1>9, <1>10, <3>1, <3>2
    <2> QED BY <1>7, <2>1, TargetsArePrograms
  <1>12. Release!Commit(c)
    BY <1>1, <1>10, <1>11 DEF Release!Commit
  <1> QED BY <1>4, <1>10, <1>12 DEF Release!Next, Release!Install, Release!RollBack

\* The visible files are on the disk when an operation ends.
LEMMA VisibleAtEnd ==
    ASSUME InstallInv, NEW a \in Actors, pc[a] = "release"
    PROVE  Visible = WithoutUserData(disk)
  <1>1. /\ Working(a) /\ ProgressOf(disk, "release", op[a], todo[a]) /\ DOMAIN disk = Paths
        /\ ActorTyped("release", op[a], todo[a])
    BY WorkerFacts DEF Working
  <1>2. lock = a /\ DOMAIN op[a].before = Paths /\ todo[a] = {}
    BY <1>1 DEF InstallInv, Control, OneMutator, ActorTyped, FilesTyped, ProgressOf
  <1>3. CASE op[a].result = "failed"
    <2>1. \A t \in Paths : Matches(t, op[a].before[t], disk[t])
      <3>1. CASE op[a].own = NoSnapshot
        BY <1>1, <3>1 DEF ProgressOf, Untouched
      <3>2. CASE op[a].own # NoSnapshot
        BY <1>1, <1>2, <1>3, <3>2 DEF ProgressOf, Undoable, Wanted, Matches
      <3> QED BY <3>1, <3>2
    <2>2. \A t \in Programs : disk[t] = op[a].before[t]
      BY <2>1 DEF Matches, Programs
    <2>3. WithoutUserData(disk) = WithoutUserData(op[a].before)
      BY <1>1, <1>2, <2>2, SameVisible
    <2> QED BY <1>2, <1>3, <2>3 DEF Visible, Undecided
  <1>4. CASE op[a].result # "failed"
    <2>1. ~Undecided
      BY <1>1, <1>2, <1>4 DEF Undecided, ProgressOf, StepFits
    <2> QED BY <2>1 DEF Visible
  <1> QED BY <1>3, <1>4

\* Leaving shows nothing.
LEMMA ReleaseSimulates ==
    ASSUME InstallInv, NEW a \in Actors, ReleaseLock(a) \/ ReleaseFails(a)
    PROVE  [Release!Next]_(Release!releaseVars)
  <1>1. /\ pc[a] = "release" /\ lock' \in {"free", "stale"}
        /\ UNCHANGED <<disk, snapshots>> /\ faults' \in {faults, faults + 1}
    BY DEF ReleaseLock, ReleaseFails, At, Fault, counts
  <1>2. ~Undecided'
    BY <1>1, InstallerAssumption DEF Undecided
  <1>3. Visible' = Visible
    BY <1>1, <1>2, VisibleAtEnd DEF Visible
  <1> QED BY <1>1, <1>3, Unseen

\* Before the lock nothing shows, even when there is no lock to take.
LEMMA RefusedSimulates ==
    ASSUME InstallInv, NEW a \in Actors, Refused(a) \/ AcquireFails(a)
    PROVE  [Release!Next]_(Release!releaseVars)
  <1>1. /\ pc[a] = "planned" /\ Go(a, "idle", NoOp, {})
        /\ lock' = lock \/ (lock = "free" /\ lock' = "stale")
        /\ UNCHANGED <<disk, snapshots>> /\ faults' \in {faults, faults + 1}
    BY DEF Refused, AcquireFails, At, Fault, counts
  <1>2. lock # a /\ \A b \in Actors \ {a} : op'[b] = op[b]
    BY <1>1, GoMoves DEF InstallInv, Control, OneMutator, Working
  <1>3. (Undecided <=> Undecided') /\ (Undecided => op'[lock'].before = op[lock].before)
    BY <1>1, <1>2, InstallerAssumption DEF Undecided
  <1>4. Visible' = Visible
    BY <1>1, <1>3 DEF Visible
  <1> QED BY <1>1, <1>4, Unseen

\* A plan shows nothing.
LEMMA BeginSimulates ==
    ASSUME InstallInv, NEW a \in Actors, Begin(a)
    PROVE  [Release!Next]_(Release!releaseVars)
  <1>1. PICK o : StartOp(a, o)
    BY DEF Begin, CheckInstall, PlanRollback
  <1>2. /\ pc[a] = "idle" /\ Go(a, "planned", o, {})
        /\ UNCHANGED <<disk, snapshots, lock, faults>>
    BY <1>1 DEF StartOp, At
  <1>3. lock # a /\ \A b \in Actors \ {a} : op'[b] = op[b]
    BY <1>2, GoMoves DEF InstallInv, Control, OneMutator, Working
  <1>4. (Undecided <=> Undecided') /\ (Undecided => op'[lock'].before = op[lock].before)
    BY <1>2, <1>3 DEF Undecided
  <1>5. Visible' = Visible
    BY <1>2, <1>4 DEF Visible
  <1> QED BY <1>2, <1>5, Unseen

\* A crash leaves the change half done, or shows nothing.
LEMMA CrashSimulates ==
    ASSUME InstallInv, InstallInv', Recorded, NEW a \in Actors, Crash(a)
    PROVE  [Release!Next]_(Release!releaseVars)
  <1>1. /\ Go(a, "idle", NoOp, {}) /\ snapshots' = snapshots /\ faults' = faults + 1
        /\ lock' = IF lock = a THEN "stale" ELSE lock
        /\ disk' = disk \/ (Working(a) /\ \E t \in todo[a] : CutShort(a, t))
    BY CrashMoves
  <1>2. \A b \in Actors \ {a} : op'[b] = op[b]
    BY <1>1, GoMoves
  <1>3. CASE ~Working(a)
    <2>1. lock # a /\ lock' = lock /\ disk' = disk
      BY <1>1, <1>3 DEF InstallInv, Control, OneMutator
    <2>2. (Undecided <=> Undecided') /\ (Undecided => op'[lock'].before = op[lock].before)
      BY <1>2, <2>1 DEF Undecided
    <2>3. Visible' = Visible
      BY <2>1, <2>2 DEF Visible
    <2> QED BY <1>1, <2>3, Unseen
  <1>4. CASE Working(a)
    <2>1. lock = a /\ lock' = "stale"
      BY <1>1, <1>4 DEF InstallInv, Control, OneMutator
    <2>2. Visible' = WithoutUserData(disk')
      BY <2>1, InstallerAssumption DEF Visible, Undecided
    <2>3. DOMAIN disk = Paths /\ DOMAIN disk' = Paths
      BY DEF InstallInv, WorldTyped, FilesTyped
    <2>4. /\ ProgressOf(disk, pc[a], op[a], todo[a]) /\ DOMAIN op[a].before = Paths
          /\ op[a].result \in {"open", "done", "failed", "broken"}
      BY <1>4, WorkerFacts DEF ActorTyped, FilesTyped
    <2>5. \A t \in Programs :
              disk'[t] = disk[t] \/ (t \in ManagedTargets(op[a]) /\ disk'[t] = {})
      BY <1>1, CutShortPrograms DEF Programs
    <2>6. CASE op[a].result \in {"done", "broken"}
      <3>1. ~Undecided /\ pc[a] \notin {"replace", "restore"}
        BY <2>1, <2>4, <2>6 DEF Undecided, ProgressOf, StepFits
      <3>2. disk' = disk
        BY <1>1, <3>1, CutShortPrograms
      <3>3. Visible' = Visible
        BY <2>2, <3>1, <3>2 DEF Visible
      <3> QED BY <1>1, <3>3, Unseen
    <2>7. CASE op[a].result \in {"open", "failed"} /\ op[a].own # NoSnapshot
      <3>1. Release!Fault
        BY <1>1, <1>4, <2>2, <2>3, <2>5, <2>7, HalfwayIsTorn
      <3> QED BY <3>1 DEF Release!Next
    <2>8. CASE op[a].result \in {"open", "failed"} /\ op[a].own = NoSnapshot
      <3>1. /\ pc[a] \notin {"replace", "restore"}
            /\ \A t \in Paths : Matches(t, op[a].before[t], disk[t])
        BY <2>4, <2>8 DEF ProgressOf, Untouched
      <3>2. disk' = disk
        BY <1>1, <3>1, CutShortPrograms
      <3>3. \A t \in Programs : disk'[t] = op[a].before[t]
        BY <3>1, <3>2 DEF Matches, Programs
      <3>4. Visible' = [t \in Programs |-> op[a].before[t]]
        BY <2>2, <2>3, <3>3, VisibleFiles
      <3>5. Visible' = Visible
        BY <1>4, <2>8, <3>4, VisibleBefore
      <3> QED BY <1>1, <3>5, Unseen
    <2> QED BY <2>4, <2>6, <2>7, <2>8
  <1> QED BY <1>3, <1>4

\* The service and the user show nothing.
LEMMA OutsideSimulates ==
    ASSUME InstallInv, ServiceWrites \/ UserStopsService \/ UNCHANGED vars
    PROVE  [Release!Next]_(Release!releaseVars)
  <1>1. UNCHANGED <<snapshots, lock, op, faults>>
    BY DEF ServiceWrites, UserStopsService, vars, counts
  <1>2. DOMAIN disk = Paths /\ DOMAIN disk' = Paths /\ \A t \in Programs : disk'[t] = disk[t]
    BY DEF ServiceWrites, UserStopsService, vars, Programs, InstallInv, WorldTyped, FilesTyped
  <1>3. WithoutUserData(disk') = WithoutUserData(disk)
    BY <1>2, SameVisible
  <1>4. Visible' = Visible
    BY <1>1, <1>3 DEF Visible, Undecided
  <1> QED BY <1>1, <1>4, Unseen

\* Every step of the installer is one of the abstract release, or shows nothing.
LEMMA StepSimulates ==
    ASSUME InstallInv, Recorded, [Next]_vars
    PROVE  [Release!Next]_(Release!releaseVars)
  <1>1. InstallInv' /\ Recorded'
    BY InstallNext, RecordedNext
  <1>2. ASSUME NEW a \in Actors, Proceed(a) PROVE [Release!Next]_(Release!releaseVars)
    BY <1>1, <1>2, ProceedCases, AcquireSimulates, RefusedSimulates, SnapshotSimulates,
       ReceiptSimulates, InnerSimulates, ReleaseSimulates
  <1>3. ASSUME NEW a \in Actors, Begin(a) \/ Crash(a) PROVE [Release!Next]_(Release!releaseVars)
    BY <1>1, <1>3, BeginSimulates, CrashSimulates
  <1> QED BY <1>2, <1>3, OutsideSimulates DEF Next

\* The empty disk is a release too.
LEMMA ReleaseInit == Init => Release!Init /\ Recorded
  <1> SUFFICES ASSUME Init PROVE Release!Init /\ Recorded
    OBVIOUS
  <1>1. ~Undecided /\ DOMAIN disk = Paths
    BY InstallerAssumption DEF Init, Undecided, EmptyDisk
  <1>2. DOMAIN Visible = Release!Targets
    BY <1>1, VisibleFiles, TargetsArePrograms DEF Visible
  <1>3. Recorded
    BY DEF Init, Recorded, RecordOf, NoOp
  <1> QED BY <1>2, <1>3 DEF Init, Release!Init

\* For any installers, releases, failures and crashes, applyInstall and
\* applyRollback implement the abstract release: programs change as a whole, never
\* before what they replace is in a complete snapshot, and only a crash or an
\* undoing that fails leaves them half changed, within one change.
THEOREM Implements_Release == Spec => ImplementsRelease
  <1>1. Init => Release!Init /\ Recorded /\ InstallInv
    BY ReleaseInit, ControlInit, InstallInit DEF InstallInv
  <1>2. InstallInv /\ Recorded /\ [Next]_vars => InstallInv' /\ Recorded'
    BY InstallNext, RecordedNext
  <1>3. InstallInv /\ Recorded /\ [Next]_vars => [Release!Next]_(Release!releaseVars)
    BY StepSimulates
  <1> QED BY <1>1, <1>2, <1>3, PTL DEF Spec, ImplementsRelease, Release!Spec
=============================================================================
