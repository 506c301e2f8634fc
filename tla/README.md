# A TLA+ verification of GPAO-T

GPAO-T is a local-first personal AI runtime. Most of it computes previews from
texts and constants. What can go wrong lies elsewhere: calls that read and
rewrite shared files without a lock, ledgers and records that have to agree with
each other, servers and tools that work on one directory at once, and scripts that
replace the files of a release that is installed or running. This directory
models that part in TLA+, checks it with TLC and proves some of the most important
properties with TLAPS.

All paths below are relative to the repository.

## 1. Inventory

### 1.1 Components

| component | state | operations | module |
|---|---|---|---|
| Reversible memory apply (`src/core/memory-candidate-review-queue.js`) | the review queue, the applied candidates | review candidate, replay, apply request, approval bridge, apply, rollback, post-apply review | `MemoryApply` |
| Approval and audit ledgers (`approval-audit-records.js`) | two append-only files | write a pair of records, read it back | `ApprovalLedger` |
| Session workspace (`session-workspace.js`) | the workspace file, the event log | new, select, rename, pin, archive, restore, mark for deletion, cancel | `SessionWorkspace` |
| Runtime state (`storage.js`, `runtime.js`) | the state file, the event log | initialize, turn, replay views | `RuntimeTurns` |
| Memory wiki (`memory-wiki.js`), growth loop, live turns, search | wiki, candidate file, logs of packets, answers, evaluations and progress, the index | capture, grow, absorb a live turn, index, search | `RuntimeTurns` |
| Growth proposals and gates (`growth-proposals.js`, `growth-application-gates.js`, `replay-history.js`) | append-only files | record, propose, gate | `RuntimeTurns` |
| Local work (`execution-runtime.js`, `first-local-work-loop.js`, `first-real-os-turn-pipeline.js`, `work-surface-execution-flow.js`, `runtime-workspace-welcome.js`) | progress, ledgers, OS turns, sessions, welcome files | dry run, work loop, OS turn, submission, welcome settings, self-checks | `LocalWork` |
| Entry points (`gateway.js`, `control-center-serving.js`, `bin/gpao-t-full.js`) | whether the server is up, its tokens, the requests that wait | every route and command | `Served` |
| Owner operations (`owner-ops*.js`) | packages, evidence, decision ledgers with indexes, test reports, local records, spent receipts | build, read back, decide, approve and invoke dry runs, test, repair, record | `OwnerOpsRelease`, `OwnerOpsTesting`, `OwnerOpsLocalRecords` |
| macOS installer (`tools/gpao-t-local-install-lib.mjs`) | the state home, snapshots, a lock, launchd | install, roll back | `Installer` |
| Release build (`tools/build-gpao-t-*.mjs`, the seal, the verifications, the feed) | stage, output, packages, archives, checksums, feed | build, pack, verify, build a feed; upload (external) | `ReleaseBuild` |
| Update client (written by the build), `update-boundary.js` | the update lock, releases and pointer of the state home | status, apply | `ReleaseUpdate` |
| Live release tools (`tools/apply-*`, `repair-*`, `fix-*`, `reseal-*`, `rollback-*`) | the files of an installed release and their backups | patch, undo, repair, roll back, reseal | `LivePatches` |

Turn kernel, admission, authority, skill catalogue, model and connection settings and
the desktop contracts keep no state of their own; see section 7.

### 1.2 How they interact

The components meet in files. The memory apply writes the ledgers and reads them
back, and shares the candidate file with the wiki, the growth loop and the
self-checks. Turns, sessions and growth append to one event log. An OS turn
goes through the work loop, the dry run and the live turn bridge; a submission adds
a session. The gateway, the CLI, the preview server and the MCP servers call all of them
on one root. No module of `src/core` takes a lock. Most calls are synchronous, so
a process runs one at a time, but several processes run calls on one root; the
preview server waits for the body of a POST and serves others meanwhile. The
installer and the update client both replace releases and the current pointer, each
under a lock of its own; the release build copies its runtime through that
pointer; the live tools patch the same release with no lock at all.

### 1.3 What is hard here

* **Read-modify-write of whole files by several processes**: candidates, wiki,
  sessions, state, owner records, configuration, release files.
* **Several files that must agree**, written one after the other: a stop leaves any
  prefix, and a second process may come between any two.
* **Identity**: ids with the resolution of a second or a millisecond, windows over
  the latest lines of a ledger, positions used as ids.
* **Protocol order**: requests, approvals, applies, rollbacks, decisions and dry runs
  come in any order and more than once; approvals expire; receipts are spent.
* **State read before an await and used after it**: tokens checked before the body
  is there, a feed read before the lock, a pointer followed entry by entry.
* **Partial failure**: tools that change six or more files, undo steps that fail,
  processes that die holding a lock.

The line of each hazard, with the properties that would catch it, is in
`PROJECT.json` under `hazards`.

### 1.4 What makes each component correct

* Memory apply: nothing is applied that the user did not approve for exactly this
  candidate and target after a proven replay; the newest apply can be undone; a
  rollback is final (for one process); only a call cut short leaves an orphan.
* Session workspace: no session is lost, at most one is active, it changes as asked.
* Runtime and memory: what is lost is lost only to a write over an older read; a
  record has everything it names; the counter counts the turns.
* Local work: a dry run that was shown as running ends, once; a completed OS turn has
  its ledger pair, dry run, live turn and event; self-checks leave nothing behind.
* Entry points: what the server changes was asked for with the tokens of its run.
* Owner operations: readers get the newest whole package; evidence, decisions and dry runs
  rest on what was on disk and on record; a critical report is not forgotten early;
  a receipt is spent once.
* Installer: one operation at a time, user data kept, all or nothing, the lock given
  back. Build: an archive is of one release, the feed is true. Update: it ends whole or
  leaves a release that runs, and installs only what a feed had named.
* Live tools: whatever stops, the text from before is kept; what was applied stays; a
  seal is honest; the user's settings survive.

## 2. Modules

| module | role | extends |
|---|---|---|
| `ApprovalLedger` | the two ledgers, as operators | - |
| `MemoryApply` | detailed calls on the four files | `ApprovalLedger` |
| `CandidateLifecycle` | abstract: unused, pending, reviewed, gone | - |
| `SessionWorkspace` | the workspace file and the events | - |
| `SessionPool` | abstract: shelves and a current session | - |
| `RuntimeTurns` | turns, captures, growth, gates, index and search | - |
| `LocalWork` | dry run, work loop, OS turn, submission, welcome, self-checks | `RuntimeTurns` |
| `Served` | routes, commands, tokens, waiting bodies, restarts | `LocalWork` |
| `ServedPlans` | what lists of steps have in common; the inductive invariant of `Served` | `Served` |
| `OwnerOpsRelease` | package, evidence, decisions, dry-run approvals and invocations | - |
| `OwnerOpsTesting` | field and broader tests, repairs, owner decisions, readiness | `OwnerOpsRelease` |
| `OwnerOpsLocalRecords` | local records, MCP receipts | - |
| `Installer` | install and rollback under the lock | - |
| `InstalledRelease` | abstract: programs replaced as a whole, over what is kept | - |
| `ReleaseBuild` | build, seal, packages, archives, feed, verification, uploads | `Installer` |
| `ReleaseUpdate` | the update client, composed with build and installer | `ReleaseBuild` |
| `LivePatches` | the tools on a live release | - |
| `MC...` | small instances for TLC | the module they name |
| `..._proofs` | theorems | the module they name |

### 2.1 MemoryApply and ApprovalLedger

`queue`, `approvalRecords` and `auditRecords` are the three append-only files, `tcells` the
applied candidates of the candidate file. `pc`, `held` and `seen` are the local state of
a process. A call is one action when it has one file write, and is split between two
accesses otherwise:

| call | actions |
|---|---|
| `appendMemoryReviewCandidate` | `AppendMemoryReviewCandidate` |
| `appendMemoryReplayEvidence` | `AppendMemoryReplayEvidence`; with an apply record `ReadForReview`, `RewriteReviewed`, `RecordReview` |
| `appendMemoryApplyRequest` | `AppendMemoryApplyRequest` |
| `appendMemoryApplyApprovalAuditBridge` | `WriteApproval`, `WriteAudit`, `RecordBridge` |
| other users of the ledgers | `WriteForeignApproval`, `WriteAudit` |
| `appendMemoryReversibleApply` | `ValidateApply`, `AppendTCellCandidate`, `RecordApply` |
| `rollbackMemoryReversibleApply` | `ReadForRollback`, `RewriteWithout`, `RecordRollback` |
| `buildMemoryLocalApplyInvocationContract` | `CanInvokeRollback`, over `ReadLines` |
| death of a process | `Crash`, also between truncation and write of a rewrite |

A candidate is a member of `Cand`; the scores of a replay are the Boolean `improved`,
its mode and references the Boolean `independent`. Ledger ids have
`now \div StampWidth`, so they collide. `ReadLimit` and `ReplayLimit` are the windows the
readbacks of the ledgers see (500 and 100 in the code), `ContractLimit` the one of the
contract on the queue (500): what is latest is latest among those lines. `Consent` is what the user has approved: a
caller has no other approvals to hand over.

### 2.2 SessionWorkspace

`file` is the workspace with its status (absent, whole, torn), `audited` the
sessions whose `new_session` event is in the log. A call is `Begin` (read,
normalize, change, normalize again), `WriteSessionWorkspaceState` and
`AppendAuditEvent`. `Normalize` and `EnsureOneActive` are translated in full, because
the order of the sessions decides which one becomes active. Titles, pins and
timestamps are left out. A torn file makes `JSON.parse` throw, so no call follows it.

### 2.3 RuntimeTurns, LocalWork, Served

A call is a list of file accesses (`TurnSteps`, `CaptureSteps`, `GrowthSteps`,
`OsTurnSteps`, `WelcomeSteps`, ...), chosen when it begins from what decides it in the
code, and `doing` holds what is left of it: each step takes the first access, and
between two steps another process may run or this one may stop. What a step cannot
know before it looks (a file that is absent, torn or already there) is decided in the
step, and may put further accesses in front or make the call throw. State, wiki,
candidates and sessions are rewritten from an earlier look; every other file is a
sequence of lines with their kind and the call they are from. `writes` (history) has, for
each rewritten file, every write and how many came before the look it was made of: so
a property can say that something was lost only to a write over an older read.

`LocalWork` adds the calls of the local surfaces, whose lists go through those of
`RuntimeTurns` (the OS turn has the work loop's, the dry run's and the live turn's
accesses in it). A self-check applies a candidate, lets the contract replay it, and rolls it back;
the contract it asks for before the apply has no request to replay and runs no turn. Its
rollback, and the rollbacks and reviews that the gateway is asked for by the id of an apply, look
at the candidates (`ReadAppliedCell`) and write back what they read (`WriteKept`), so those of
two processes can overtake each other. `Served` has the tables of routes and commands: `ProtectedPosts`,
`GetTodos`, `GatewayRoutes`, `RecordedRoutes` and `CliCommands` give for each one the lists its handler may run; a route that
is not in a table writes nothing. `server` is whether it listens and its run; the
tokens are known by the run that made them. A POST to a protected path is `ArrivePost`
(envelope and cookie), `ReadBody` (the csrf token) and `Respond`; an aborted body or a torn
file makes the handler throw (`BodyFails`, `HandlerThrew`), which ends the process with all
that waits.

### 2.4 Owner operations

`package` is three files written one after the other, each with the number of the
write it is of; `evidence` has, for each of five files, what it said and of which
package; `ledger` and `index` are the decision lines and the index files rewritten after every append. A call is
its checks, and then one step for each file access (`call`). The many build and
verify functions of the release lane are operators over that state, one for
each function of the code; the sha256 of a bundle is the number of its write.
`OwnerOpsTesting` adds reports and the windows over them; `OwnerOpsLocalRecords` the record file, issued
receipts, and what each server process remembers as spent (`spent`, `life`).

### 2.5 Installer

`disk` maps each managed target to the set of what went into it: the operation
that staged it, the release the pointer names, or the user's writes. `snapshots`
holds complete snapshots only: the manifest is what makes one visible. Each
await is an action with a failing twin. `CutShort` says what a failing or dying
replacement leaves. `CatchError`, `RestoreSnapshot`, `RestartFromGuard` and `ReleaseLock` are the
`catch` and `finally` blocks. Two history variables exist only for properties: `op[a].before`
and `userData`. The service that writes and the user who stops it are external.

`InstalledRelease` is what this amounts to for whoever finds the programs once no operation is
under way: an install or a rollback replaces all of its targets at once (`Commit`), only when
what it replaces is kept (`Keep`), and only a `Fault` leaves a change half done (`Torn`).
Under the mapping an operation shows what it found when it took the lock (`Visible`) until its
receipt is written or its undoing has failed. The workspace is left out, as the service
writes it at any time; `UserDataKept` is about it.

### 2.6 ReleaseBuild and ReleaseUpdate

A job of the publisher is `builder`, one step for every tree it copies or file it
writes; it may stop at each (`JobStops`) or be refused (`JobRefused`). A tree is what each of
its parts was copied from; of the parts two are compared by the seal and
`node_modules` is not. The sha256 of an archive is its number. `Source` follows the
installed release's current pointer as it is at the moment. An update is
`LaunchUpdater`, `UpdateStatus` (the feed, before the lock), `AcquireUpdateLock`,
`DownloadFile`, `RemoveRelease`, `PlaceRelease`, `PointCurrent`, `WriteUpdateReceipt`, `FinishUpdate`,
each with what it leaves when it fails, and `CrashUpdate`. `InstallerStep` is any step of
`Installer`: the two know nothing of each other's lock. Uploads are external.

### 2.7 LivePatches

A file is the set of changes in it; a tool is a list of accesses (look, copy, write,
rename, verify, undo) as its code makes them, and `runs` holds what is left of it.
Each tool keeps its own backups (`saved`); `evidence` (history) is what became of each
run: the texts it started from, what it wrote and saved, whether another run
overlapped it. A step that fails leads to what the tool's catch does (`Undo`); the outbound
boundary writes its report after its catch (`PastCatch`, `WriteReport`), so a failure there
ends the run with nothing undone. `seal` is the distribution manifest as last resealed.

## 3. Runs

| run | instance | asks |
|---|---|---|
| `MemoryApply_serial` | 1 process: one candidate with every kind of call, or two candidates with two requests and approvals and a crash | `TypeOK`, `RolledBackStaysOut`, `OnlyConsentedCells`, `NewestUndoable`, `OrphansBounded`, `ImplementsLifecycle` |
| `SessionWorkspace_serial` | 1 process, 4 calls, 1 crash | `NoSessionLost`, `UnauditedBounded`, `ImplementsPool` |
| `OwnerOps` | 2 processes, 8 choices of what they do; or 2 MCP servers, the CLI, 2 users | `NewestWholePackage`, `EvidenceBacked`, `IndexFollowsLedger`, `InvocationCovered`, `CriticalForgottenOnlyByWindow`, `RecordsKept`, `ReceiptSpentOnce`, `OwnerDecisionsKept` |
| `Served` | a server and 2 callers, 21 choices of calls, on a new or a used root | `TurnsCounted`, `MemoryKept`, `RunsBacked`, `IndexPairsEntries`, `DryRunsEnd`, `WorkBacked`, `WelcomeWhole`, `SelfChecksLeaveNothing`, `RestartRevokes` |
| `Installer_shared` | 2 processes, 3 operations, 1 user write, 2 faults | `OneMutator`, `UserDataKept`, `AllOrNothing`, `LockGivenBack`, `ImplementsRelease` |
| `Releases` | a publisher, 2 updaters, an installer, 3 releases, 7 choices of jobs, uploads, updates and faults | `SealedTrees`, `FeedTrue`, `UpdateEnds`, `Vouched` |
| `LiveTools` | 2 runs of any two tools that share files, a user write, a failure or a kill | `RestorePoint`, `AppliedStays`, `UndoneWhole`, `SealHonest`, `SettingsKept` |
| `MemoryApply_rollback_race` | 2 processes | `RolledBackStaysOut` is violated |
| `SessionWorkspace_lost` | 2 processes | `NoSessionLost` is violated |
| `SessionWorkspace_no_active` | 1 process, 5 calls | `ActiveWhenSelectable` is violated |
| `Installer_runtime` | 2 installs, no fault | `SnapshotWithoutRuntime` is violated |
| `Served_forms` | a server, 1 post | `FormsAnswered` is violated |

What they show:

* One process, crashes included, keeps the whole promise of the candidate
  lifecycle and of the session pool (both shown by refinement, as is the installer's promise
  about the programs, with several installers and faults). Several processes
  keep consent (proved), but not the finality of a rollback, and not every session.
* Turns, captures, growth and submissions lose something only to a rewrite made of an
  older read; no record says more than the files hold, wherever a process stops.
* A readiness decision in owner operations rests on what was once whole on disk. What
  a reader takes for the newest package is the newest, unless two builds overlap.
* The installer keeps user data and undoes what it did whatever step fails, as
  long as undoing works, and always ends. What a crash leaves half replaced is in a complete
  snapshot, and is confined to the targets of that operation. The update client undoes nothing: it
  leaves the old pointer or the new one, and what it names is there, unless an
  installer or an earlier update came between.
* A patch of a live release can be undone as long as no other run overlapped it; a tool
  that undoes itself does so whole, but for a report that cannot be written.
* The rollback of an applied candidate is offered until 500 records of the queue came after it.

Exceptions are part of the properties (a call cut short, an overlap, a look that was
overtaken): each is stated as narrowly as the code allows, and what lies outside of it
is what is shown.

**Bounds.** With `ReadLimit` 2, `ReplayLimit` 1, `ContractLimit` 3 and `StampWidth` 4 the windows overflow
and ids collide within a behaviour of a few calls; the same is true of `Window` 2 (200 in the
code) of the tests. Two processes are enough for a look to be overtaken, three for the
server to be a bystander. The instances of `Served`, `OwnerOps`, `Releases` and `LiveTools` do not
bound all kinds of call by one number, which would be out of reach, but are sets of
choices: each allows the few kinds that share files, with one stop or failure. A pair
of calls that share no file commutes and is not an instance. Roots that are released or used start from
the state a first use leaves, new ones from nothing, since first calls create the
files. Three broader reports and a window of two let a critical one fall out. Three
releases let an update be overtaken by a newer one; two jobs let the second stop after
the archive and before its checksum. `Installer_shared` starts where a first install
ended and runs two more operations (or on an empty disk and runs one). Every bound
(`MaxCalls`, `MaxCrashes`, `MaxOps`, `MaxWrites`, `MaxFaults`, `MaxStops`, `MaxReceipts`, `MaxSecond`, `left`,
the bounds of the `MC` modules) is of the model and not of the program.
`CHECK_DEADLOCK FALSE` is in every configuration because a behaviour ends when its
calls are used up; an operation that hangs is caught by `LockGivenBack`.

**Symmetry** is used where processes differ in their name only: the actors of `OwnerOps` and
`LiveTools`, the callers of `Served`, the updaters of `Releases`. The properties of those runs are
invariants and one action property; liveness and the refinements are checked without it.

**Fairness.** Calls of `src/core` and the tools are sequences that nothing else waits for: a
process is inside one or has died, and their specifications have no
fairness. The installer waits, and each wait has a deadline, so an operation under
way goes on: `WF_vars(Proceed(a))`. It is assumed that `launchctl` and the file system
return. Nobody has to start an operation, to write, to stop the service or to
crash. The update client is given none, as its download has no deadline.

## 4. Where code and documentation disagree

Shown by runs:

| run | what happens | against |
|---|---|---|
| `MemoryApply_rollback_race` | a review that read before a rollback writes the rolled back candidate in again, open for answers | `docs/03-engineering/GPAO-T-MEMORY-TCELL-KERNEL-LANE-v0.1-ko.md:63` |
| `SessionWorkspace_lost` | of two sessions created at once one is dropped | `docs/03-engineering/INTERACTIVE-SESSION-BEHAVIOR-V1.md:42` |
| `SessionWorkspace_no_active` | restoring into a workspace where all sessions are shelved leaves none active | `src/core/session-workspace.js:194` |
| `Installer_runtime` | the check that the service is down is made before the lock, and not again under it | `installer/README.md:23` |
| `Served_forms` | the forms of the settings pages are answered 405 before their handlers are reached | `src/core/settings-connection-hub.js:384` |

Met while modelling, and kept in the models as the code has them:

* `control-center-serving.js:328` says `getMutationAllowed: false`; several GET routes create
  files or append records.
* The gateway's GET `/connectors/execution-runtime/invoke-dry-run` makes up the approval it
  needs (`gateway.js:2732`).
* A submission answers that it was completed for an OS turn that was blocked, and the
  ledger pair of the loop is written twice.
* The memory self-checks apply and roll back a candidate on the user's own root. After the
  apply they look at the runtime state, which throws if another process was stopped
  inside a rewrite of it: the candidate then stays. It also comes back when a rollback or a review in
  another process had read the file before and writes it after (both are exceptions in
  `SelfChecksLeaveNothing`).
* The invocation contract reads the last 500 records of the queue
  (`memory-candidate-review-queue.js:657`). A candidate applied before those stays in the file, and
  no rollback of it is offered any more (`NewestUndoable` says exactly when).
* `apply-live-gpao-t-outbound-boundary-patch.mjs:157` writes the report after the catch that undoes the
  patch. When that write fails the run fails and every bundle stays patched (`UndoneWhole`).
* An aborted body, or a torn file, ends the preview server.
* `production-completion.js:242` asks the work loop to write by a name the loop does not read
  (`writeRecords`); it writes because its own default does.
* `update-boundary.js:122` and `docs/05-release/GPAO-T-GITHUB-UPDATE-CHANNEL-v0.1-ko.md` promise a snapshot, a health
  check and a rollback around an update; the client does none of them.
* Of two updates that read the feed before the lock, the later may move the pointer back
  (the exception in `UpdateEnds`).
* The verifications of installer packages look at the package in its directory, and of its
  archive at the checksum only.
* The index of the live memory tool drops a wiki file of more than 96 KB.
* The workspace pack rewrites the note of the day in place and without a copy (the
  exception in `SettingsKept`).

## 5. Proofs

All are for every value of the constants. The theorems with parameters (`root`, `calls`,
`events`) are for the specification started from any of its initial states. The
assumptions are those named `...Assumption` in the modules: the kinds of the constants, and that
markers are distinct from process names. TLC evaluates them in the runs. Two more are
hypotheses of the theorems that need them:

* `OneProcess` (`\A a, b \in Actors : a = b`), in five theorems: `RolledBack_StaysOut`,
  `Newest_Undoable` and `Implements_Lifecycle` of `MemoryApply`, `No_Session_Lost` and `Implements_Pool` of
  `SessionWorkspace`. The code takes no lock, and with two processes a rolled back candidate can
  come back and a session can be lost: the runs `MemoryApply_rollback_race` and
  `SessionWorkspace_lost` show it. Crashes between any two accesses remain.
* `root \in Roots` ("new", "older", "released"), for `NewestWholePackage` and
  `EvidenceBacked`: the states a package directory may be found in.

### Memory and sessions

* `Typing`: `Spec => []TypeOK` of `MemoryApply`.
* `Consent_Safety`: `Spec => []OnlyConsentedCells`. The property is not inductive: an
  apply trusts a bridge, a bridge in hand trusts the binding check, and a rollback
  or review writes back what it read. `ConsentInv` adds that requests rest on proven
  replays, bridges (recorded and in hand) carry approvals that say yes, and what
  a process has read or is about to write is authorized. Authorization is only
  ever about lines of append-only files, so it lasts (`AuthorizedStays`); what is
  left is that a validated apply is authorized (`ValidatedIsAuthorized`). This holds
  whatever ids collide, because the receipt check compares what the records bind
  and not only their ids.
* `Orphans_Bounded`: `Spec => []OrphansBounded`, for any number of processes. `IdInv` says that the ids of
  candidates are stamped once (`Stamped`, `Apart`, `Fresh`), key the file (`Keyed`), and
  that a rollback names a recorded apply (`RollbacksName`). `OrphanInv` counts:
  the candidates without a record and without a call that is about to write one
  (`Lost`) are no more than the crashes. A stale rewrite can drop a candidate or bring back
  one that has its record, and neither makes an orphan.
* `RolledBack_StaysOut`, `Newest_Undoable` (one process). `SerialInv` says that what a call read is
  still the file (`SeenIsFile`) and that a rollback about to be recorded has taken its candidate
  out (`TakenOut`). What `Newest_Undoable` proves is exact: the rollback of the newest apply is
  offered if and only if fewer than `ContractLimit` records came after it.
* `Implements_Lifecycle` (one process): `Spec` implements `CandidateLifecycle` under the mapping of
  the run, by step simulation: every action is a step of one candidate or a
  stutter. `PendingInHand` adds that an apply about to be written is not reviewed yet.
* `Unaudited_Bounded`: `Spec => []UnauditedBounded` of `SessionWorkspace`, for any number of processes.
  `SeatInv` says that every workspace in the file or in hand is settled (normalizing it again
  changes nothing), that ids are given out once, and that a call holds at most one
  session that is not audited.
* `No_Session_Lost`, `Implements_Pool` (one process). `Sole` says that what a call is about to write
  holds every session of the file and is one step of `SessionPool` from it. The double
  normalization is the difficulty: `Normalize` and `EnsureOneActive` are proved to keep ids and
  shelves and to leave one session active.

### Installer and releases

* `Types_Kept`: `Spec => []TypeOK` of `Installer`, the one property that is proved and not also run.
* `Mutual_Exclusion`: `Spec => []OneMutator`. The invariant `Control` adds
  the shape of the local state, and that what is still to be replaced or restored is
  covered by the snapshot the operation owns.
* `User_Data_Safety`: `Spec => []UserDataKept`. The invariant `Data` adds that an
  operation that owns a snapshot of the workspace has all user data in
  snapshots. That needs `Control`: while an operation holds the lock no other one
  replaces the workspace, and writes made meanwhile are not counted as user data.
* `All_Or_Nothing`: `Spec => []AllOrNothing`. The property speaks of the last step of an operation only, so
  `Progress` follows it from the lock on: before its snapshot it has changed nothing
  (`Untouched`); after it the snapshot holds what was there, and each target that is not left to do is
  as this operation wants it - staged, planned, or put back (`Undoable`). The service may write
  to the workspace meanwhile, so the workspace only has to hold what it held (`Matches`).
* `Implements_Release`: `Spec => ImplementsRelease`, for any number of installers and faults and
  with no further hypothesis. `AllOrNothing` says how an operation ends; the refinement also says what
  holds in between and after a crash. `Recorded` adds to the invariant that the snapshot an
  operation owns and the one it rolls back are complete ones, and that each managed program
  is at any moment the old one, the new one or missing (`Halfway`). The snapshot step is then
  `Keep` (`SnapshotSimulates`), the receipt is `Commit` (`ReceiptSimulates`), a crash or an
  undoing that fails is `Fault` (`CrashSimulates`, `InnerSimulates`), and any other step shows nothing.
* `SealedTreesHold`: `ReleaseSpec => []SealedTrees`, over the composition of build, updates and
  installer. The seal is compared before the old output is removed, and the archive is
  made several steps later. `SealInv` follows the tree: the stage until it is copied, the
  output until it is patched, any output that was patched, the package before it is packed.
* `FeedTrueHolds`: `ReleaseSpec => []FeedTrue`. The feed believes the checksum beside an archive. `FeedInv`
  says that of an archive whose job came to its checksum, or that was verified since, the
  checksum is its own (`ChecksumsTrue`), and that a job writes a checksum only of an
  archive there can be (`OfKind`); it rests on `SealInv` for the job under way.
* `VouchedHolds`: `ReleaseSpec => []Vouched`. `VouchInv` says where each release file comes from - an
  operation of the installer, or an archive named by a feed that was served - of the disk, of every
  snapshot, of what each operation of the installer holds and will write back, and of what each update has read
  and downloaded. Feeds that were served stay served (`MoreFeeds`).
* `UpdateEndsHolds`: `ReleaseSpec => []UpdateEnds`. `UpdaterInv` says that an updater past the lock is
  the one that made it, so no other writes meanwhile (`OneUpdater`), and what pointer and releases are, by the
  step the update is in and against what they were when it took the lock (`Whereabouts`),
  unless an installer has moved one of them. That the pointer does not go back rests on
  the comparison of versions before the lock, and on no version being newer than itself.

### Owner operations and the gateway

* `InvocationsCovered`: `TestingSpec(root, events) => []InvocationCovered`, for any root and any
  number of calls. The approval and the package are checked when a dry run is asked for
  and its line is written later, so `RunInv` says that a run in hand is already covered
  (`CallsGood`); that approvals on file, and those in hand, are not of the future, so that a
  covered run came after its approval (`ApprovalsGiven`); and that a whole
  package, or the older one, was whole when it was written (`PackageOnce`, `LegacyOnce`).
  Ledgers only grow, so what covers a run stays.
* `IndexFollowsLedgerHolds`: `TestingSpec(root, events) => []IndexFollowsLedger`. `IndexInv` adds what a call
  has read: its record is in the ledger, its count no more than the ledger's length
  (`ReadersGood`); and, of a ledger that no stop or overlap disturbed, that one call at a time is in it, that its
  record is the last line, and that the index is exact but between the line and its rewrite
  (`ExactUnlessRunning`).
* `NewestWholePackageHolds`, `EvidenceBackedHolds`: `PackageInv`. The three files are written
  one by one, the checksum last: while no two writes overlapped, the write under
  way is the latest and has written the parts before its step, and the checksum, when there is one, is of the newest
  whole write (`InOrder`). Evidence in the file or in hand that says ready is of
  a package that was whole (`EvidenceGood`).
* `CriticalForgottenHolds`: `DecisionInv` says of each decision, recorded or in hand, how many reports it has
  seen, and that those of them that are critical are a window behind. Reports are appended between look and line, so the
  count is of the look.
* `OwnerDecisionsKeptHolds`: the action property `OwnerDecisionsKept`, from `RunInv`.
* `ReceiptSpentOnceHolds`: `RecordsSpec => []ReceiptSpentOnce`. A server spends a receipt in its
  memory, and the record is written later. `ReceiptInv` says that what a server has
  written or has in hand was issued for it and is remembered as spent by the process that did it
  (`WrittenCovered`, `PendingCovered`), and that no two of them share receipt,
  server and life (`WrittenApart`, `PendingApart`).
* `RecordsKeptHolds`: `RecordsSpec => []RecordsKept`. `KeptInv` says the same of what each call has read: of the writes it
  had seen then, each is in what it holds or was overtaken by another of them.
* `RestartRevokesHolds`: `ServedSpec(root, calls) => []RestartRevokes`. `TokenInv` adds that a
  request that waits for its body waits in the run its cookie is of: the
  cookie was checked before, and a server that ends takes those that wait with it.

### The files of a root

The theorems about turns, memory, work and settings (`TurnsCountedHolds`, `MemoryKeptHolds`, `RunsBackedHolds`,
`IndexPairsEntriesHolds`, `DryRunsEndHolds`, `WorkBackedHolds`, `WelcomeWholeHolds` and
`SelfChecksLeaveNothingHolds`) are all of `ServedSpec(root, calls)`: the server, its requests and stops, and the calls of the gateway and
the CLI, together. `ServedPlans` has the definitions, and the argument is in three parts:

1. *The lists* (`ServedPlans_proofs`). A step gives tags (a line of some kind, a write, a look) and
   needs tags given by earlier steps of its call. A list is one of a whole call (`Call`) when each step has what
   it needs (`Good`), what must come at once does - the event of a turn after its state, a candidate after its
   entry, a tool after the line that says it runs (`Prompt`, `Led`) -, an applied
   candidate of a self-check is looked for later (`RollsBack`), and it writes every base file of the welcome settings or no
   welcome file. `CallsSound` says so of every route, method and command with all of its inputs,
   from lemmas about lists put one after the other (`TakesThen`).
2. *The invariant* (`ServedInvHolds`). `ServedInv` says of each call under way that what is left to do is on such a plan, given
   what is done: on record, or held from a look (`OnPlan`); and of the files:
   * what a line, a candidate or a session names is there (`Backed`), and what a write promises comes next
     or its call was cut short (`Prompted`);
   * the counter, and each look at it, is no more than the turns that were written, and exactly those when no
     write was made over another (`Counted`); the same of entries, sessions and candidates, as
     sets, with what each call holds and may write back (`WikiKept`, `SessionsKept`, `CellsKept`); the applied
     candidates that a rewrite holds were approved;
   * the index in the file and each one being built pair entries with candidates (`Indexed`);
   * a tool runs exactly while the next step of its call runs it or shows its end (`ToolsEnd`);
   * a call that is applying the welcome settings still has to write each base file, or has, or was there
     when another wrote it (`WelcomeKept`);
   * a candidate of a self-check is of one that can still take it back, or was cut short or threw, or a
     rewrite of the file was written over; and a rewrite that holds the candidate has seen it there, or another
     rewrite came after its look (`ChecksPend`).

   The properties are not inductive by themselves: `RunsBacked` is about a line written after
   everything it names, which only the plan of its call knows; and a rewrite puts back what its call
   read long before, which only what it holds tells.
3. *The steps.* Every step of the server, the gateway, the CLI and the stops moves one process in one of a
   few ways or none (`StepMoves`): it walks on, looks, writes, adds a line, runs its tool, begins or quits. Lines and
   writes are only added (`StepGrows`), so what was done stays done; then each part of the invariant has a
   lemma (`PlanKept`, `BackedKept`, `PromptedKept`, `CountedKept`, ... `ChecksStay`).

TLC found the parts of `ServedInv` to hold on the instances of the run `Served` before they were proved.

### Live release tools

The argument is in three parts, all in `LivePatches_proofs`:

1. *The lists.* Of each of the 24 tools, what its list of steps keeps to (`Sound`): a file is read
   before it is patched, copied before it is put, put at most once, looked at before it is replaced, and so on.
   These are facts about concatenated sequences (`BeforeInTurn`, `BeforeConcat`, `NotAfterConcat`,
   ...); each tool has a lemma.
2. *The steps.* Every action is one of a few effects on one run (`StepEffects`): it passes, looks,
   copies, puts, swaps, fails, is spared, begins or ends. What is left of a list keeps to what the list
   kept to, as far as the run's own copies, texts and writes make up for what it has done (`Sane`), through an undo
   too (`SaneFailed`).
3. *The properties*, each from `Sane` and an invariant of its own. `RestoreInv`: of
   the only run, a file it has not put is as at its start, and its copy is of that text, and
   what the catch puts back comes to every file; a run whose only step left is its report has
   patched every file. `AppliedInv`: a patch that stands is also in each text
   that another run has read and may write back, which is where a stale rewrite would lose it;
   each run is making progress to its own. `SealInv`: a manifest that is not verified yet has, for each file that differs, a check still to come
   in the run that wrote it, and whoever writes a file marks it as moved. `SettingsInv`: each
   write of the user is in its file or safe, which is in a copy, or in one of the cases the
   property excepts; a run that will put a text it holds over the file, with no look in between,
   has the write in that text or the write is safe (`Carried`); and no run copies a file twice,
   so no copy is lost (`Tidy`).

These are `RestorePointHolds`, `UndoneWholeHolds`, `AppliedStaysHolds`, `SealHonestHolds` and `SettingsKeptHolds`, for
`PatchesInit(events) /\ [][PatchesNext]_patchVars` with any shells and any numbers of runs, failures and
kills. `ActorsAssumption` keeps a shell's name apart from the mark of a verified manifest.

### Model-checked only

`LockGivenBack`: liveness under fairness, and ENABLED, are out of the provers' reach. Every other
property that a passing run checks has a theorem. No module declares a RECURSIVE operator.

## 6. Status of components

`PROJECT.json` says of each component whether it is modelled in whole or in part. In part means that
every operation that changes shared state is an action, but for the ones named there.

## 7. Not modelled

* A reader that sees a file between truncation and write without a crash (a rewrite
  is one step, or torn by a stop); two memory calls in one millisecond; records a caller made up;
  a candidate file of more than 100000 lines (the code's limit).
* The turn kernel, admission, session overlay and authority: pure functions of a
  request text. What a turn makes of their answer is chosen with the call.
* The skill catalogue, the previews, plans, replays and handoff documents of owner
  operations, and rendered pages: pure functions of constants and of state that is
  modelled.
* Model and connection settings: the handlers that would save them are not reached
  (section 4), and keys are pasted through another program; the provider call is
  gated off. Once reached, a save would read a configuration it cannot parse as an empty
  one, and `mirrorProductNamedAuthStore` would copy an older store over a newer one.
* Desktop contracts: constants compared with constants.
* In the installer: discovery, hashing and copying, blockers of the plan, the
  repair of configuration after migration, a snapshot that copies a workspace
  while the service writes to it, and a target that is partly copied (it counts
  as removed). A migration manages the workspace as a whole.
* The scripts that run on Windows, the smoke tests, and the staging of dependencies that are
  missing; `node_modules` is in no seal, so no property speaks of it.
* The read-only audits among the tools, and what a patch puts into a text.

## 8. Plan

What is left, in the order of importance:

1. `Installer`: a third operation, so that the pointer always names a release that is
   there (`CurrentResolves`), and a property relating files, service and receipt after a
   failed bootstrap.
2. Ids that collide in one millisecond in `MemoryApply` and `RuntimeTurns`.
3. A form of `InstalledRelease` for the update client, which keeps nothing and undoes nothing
   but changes the pointer last.
