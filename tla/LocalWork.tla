------------------------------- MODULE LocalWork -------------------------------
(***************************************************************************)
(* The work a user asks for on the local surfaces: the dry run                *)
(* (execution-runtime.js), the local work loop (first-local-work-loop.js),      *)
(* the OS turn (first-real-os-turn-pipeline.js), the execution flow record       *)
(* (work-surface-execution-flow.js), the first-install welcome settings           *)
(* (runtime-workspace-welcome.js) and the self-checks that run on the user's      *)
(* own root (memory-candidate-review-queue.js).  Each is a list of the file       *)
(* accesses it makes, like the calls of RuntimeTurns it goes through.             *)
(*                                                                          *)
(* Abstractions.  A text is empty, asks for a review first, or is clear; the       *)
(* sessions file is the set of sessions opened (SessionWorkspace has the rest).    *)
(***************************************************************************)
EXTENDS RuntimeTurns

VARIABLES
    sessions,   \* the calls whose session is in sessions/sessions.json
    welcome,    \* for each welcome file, the call that wrote it last
    performed   \* operations of other modules that calls performed

workVars == <<sessions, welcome, performed>>
localVars == <<vars, workVars>>

Texts == {"empty", "risky", "clear"}

\* An operation another module has: who performed it, and what.
Perform(operation) == [do |-> "perform", operation |-> operation]

-----------------------------------------------------------------------------
(* The dry run of one command of a fixed list. *)

\* Mutant: a command that fails leaves no progress line.
RunCommandQuietly(a) ==
    /\ At(a, "runCommand")
    /\ \/ Goes(a, <<>>, <<Add("progress", "tool_complete")>>)
       \/ GoesOn(a)
    /\ UNCHANGED <<runtime, wiki, candidates, lines, search, writes, past, left>>

\* execFileSync returns, or throws (a failure, or 30 seconds); either is told.
RunCommand(a) ==
    /\ At(a, "runCommand")
    /\ \E outcome \in {"tool_complete", "tool_error"} :
          Goes(a, <<>>, <<Add("progress", outcome)>>)
    /\ UNCHANGED <<runtime, wiki, candidates, lines, search, writes, past, left>>

\* invokeExecutionRuntimeDryRun; `allowed`: a known command, approved, and not
\* one that calls itself.
DryRunSteps(allowed) ==
    IF allowed THEN <<Add("progress", "tool_running"), Step("runCommand")>>
    ELSE <<Add("progress", "tool_blocked")>>

-----------------------------------------------------------------------------
(* The local work loop and the OS turn *)

\* writeApprovalAuditLocalRecords for a preview that may be recorded.
LedgerPair(approval, audit) ==
    <<Add("approvals", approval), Add("audits", audit)>>

\* buildFirstLocalWorkLoop: with findings on the text nothing is read or written.
LoopSteps(text, writeLocalRecords) ==
    IF text # "clear" THEN <<>>
    ELSE <<Step("readRest"), Step("readCandidates"), Step("readCandidates")>>
         \o DryRunSteps(TRUE)
         \o (IF writeLocalRecords THEN LedgerPair("loop_approval", "loop_audit")
             ELSE <<>>)

\* appendGpaoTOsTurnRecord
OsTurnRecord(status, writeLocalRecords) ==
    IF writeLocalRecords THEN <<Add("osTurns", status)>> ELSE <<>>

\* Mutant: the turn is recorded before the answer is evaluated and kept.
OsTurnRecordFirst(c, writeLocalRecords) ==
    IF c.text = "empty" THEN OsTurnRecord("blocked", writeLocalRecords)
    ELSE LoopSteps(c.text, writeLocalRecords)
         \o OsTurnRecord(IF c.text = "clear" THEN "completed" ELSE "blocked",
                         writeLocalRecords)
         \o LiveSteps(c) \o <<Add("events", "os_turn")>>

\* runGpaoTOsTurn.  The search of it builds no index and an index it cannot
\* read does not stop it.  A blocked loop does: of the record, not of the turn.
OsTurnSteps(c, writeLocalRecords) ==
    IF c.text = "empty" THEN OsTurnRecord("blocked", writeLocalRecords)
    ELSE LoopSteps(c.text, writeLocalRecords)
         \o LiveSteps(c)
         \o <<Add("events", "os_turn")>>
         \o OsTurnRecord(IF c.text = "clear" THEN "completed" ELSE "blocked",
                         writeLocalRecords)

\* What an OS turn may be of: the answer is always there, the growth loop gets
\* no approval.
TurnInputs ==
    {c \in [text : Texts, message : {"answered"}, signal : Signals \ {"text_missing"},
            proven : BOOLEAN, approved : {FALSE}] :
        /\ c.text = "empty" => c.signal = "not_growth_material"
        /\ c.signal # "worthy" => ~c.proven}

\* applySessionWorkspaceAction of a new session: asked for, or of a submission.
SessionSteps(kind) ==
    <<Step("readSessions"), [do |-> "writeSessions", kind |-> kind],
      Add("events", "session")>>

\* POST /work-surface/submit: a loop, then an OS turn with a loop of its own,
\* then a session, whatever became of the two.
SubmitSteps(c) ==
    LoopSteps(c.text, TRUE) \o OsTurnSteps(c, TRUE) \o SessionSteps("submitted")

\* recordWorkSurfaceExecutionFlow
FlowSteps(matchesIntent, recordable) ==
    IF matchesIntent /\ recordable THEN LedgerPair("flow_approval", "flow_audit")
    ELSE <<>>

\* readState: without the file there are no sessions.
ReadSessions(a) ==
    /\ At(a, "readSessions")
    /\ Reads(a, sessions, [sessions |-> sessions.open,
                           sessionsSeen |-> Len(writes["sessions"])], <<>>)
    /\ UNCHANGED <<runtime, wiki, candidates, lines, search, writes, left>>
    /\ UNCHANGED workVars

WriteSessions(a) ==
    /\ At(a, "writeSessions")
    /\ sessions' = [status |-> "ok", open |-> doing[a].sessions \cup {doing[a].call}]
    /\ Wrote("sessions", a, doing[a].sessionsSeen, Head(doing[a].todo).kind)
    /\ GoesOn(a)
    /\ UNCHANGED <<runtime, wiki, candidates, lines, search, past, left>>
    /\ UNCHANGED <<welcome, performed>>

PerformOperation(a) ==
    /\ At(a, "perform")
    /\ performed' = performed \cup
          {[call |-> doing[a].call, operation |-> Head(doing[a].todo).operation]}
    /\ GoesOn(a)
    /\ UNCHANGED <<runtime, wiki, candidates, lines, search, writes, past, left>>
    /\ UNCHANGED <<sessions, welcome>>

-----------------------------------------------------------------------------
(* The welcome settings *)

BaseFiles == <<"identity", "user", "soul", "state">>
WelcomeFiles == ToSet(BaseFiles) \cup {"memory", "heartbeat"}

WriteWelcomeSteps(c, files) ==
    [i \in DOMAIN files |->
        [do |-> "writeWelcome", file |-> files[i], answers |-> c]]

\* Mutant: the heartbeat is written when it is on, approved or not.
WelcomeStepsUnapproved(c) ==
    IF ~(c.token /\ c.answered) THEN <<>>
    ELSE WriteWelcomeSteps(c, BaseFiles
            \o (IF c.memory THEN <<"memory">> ELSE <<>>)
            \o <<"heartbeat">>)

\* applyRuntimeWorkspaceWelcomeSettings: a wrong token throws and the caller
\* answers; answers with findings are not applied.
WelcomeSteps(c) ==
    IF ~(c.token /\ c.answered) THEN <<>>
    ELSE WriteWelcomeSteps(c, BaseFiles
            \o (IF c.memory THEN <<"memory">> ELSE <<>>)
            \o (IF c.heartbeat THEN <<"heartbeat">> ELSE <<>>))

WelcomeInputs ==
    {c \in [token : BOOLEAN, answered : BOOLEAN, memory : BOOLEAN,
            heartbeat : BOOLEAN] :
        ~(c.token /\ c.answered) => ~c.memory /\ ~c.heartbeat}

\* `with`, the other calls under way, and `approved` are kept to state
\* properties with.
WriteWelcome(a) ==
    /\ At(a, "writeWelcome")
    /\ LET file == Head(doing[a].todo).file
           open == {doing[b].call : b \in {b \in Actors : doing[b] # Rest}}
       IN  welcome' = [welcome EXCEPT ![file] =
                         [call |-> doing[a].call, with |-> open,
                          approved |-> Head(doing[a].todo).answers]]
    /\ GoesOn(a)
    /\ UNCHANGED <<runtime, wiki, candidates, lines, search, writes, past, left>>
    /\ UNCHANGED <<sessions, performed>>

-----------------------------------------------------------------------------
(* The self-checks.  Times and ids of what they record are fixed, so the lines   *)
(* and the candidate are those of call 0, whoever runs them.                       *)

CheckId == 0
CheckLine(file, kind) == Line(file, [kind |-> kind, call |-> CheckId])

ReviewSteps ==
    <<CheckLine("queue", "candidate"), CheckLine("queue", "replay"),
      CheckLine("queue", "request"), CheckLine("approvals", "approval"),
      CheckLine("audits", "audit"), CheckLine("queue", "bridge")>>

\* verifyMemoryReviewQueue
VerifyMemoryReviewQueue == ReviewSteps

CheckCell == [call |-> CheckId, applied |-> TRUE]

\* A look at the candidates to write them again, without the cell or with it reviewed.
ReadApplied(cell, drops) ==
    <<[do |-> "readApplied", cell |-> cell, drops |-> drops]>>

\* Mutant: the check leaves when its apply went well.
ApplyWithoutRollback(replay) ==
    ReviewSteps
    \o ApplyReversibly(Step("appendCheckCell"), CheckLine("queue", "apply"))
    \o replay

\* verifyMemoryLocalApplyInvocationContract: a real apply, the replay of the
\* contract after it, and the rollback.  The contracts' own looks at the candidates
\* come right before the looks of the apply and of the rollback.
VerifyMemoryLocalApplyInvocationContract(replay) ==
    ReviewSteps
    \o ApplyReversibly(Step("appendCheckCell"), CheckLine("queue", "apply"))
    \o replay
    \o ReadApplied(CheckCell, TRUE)

\* buildAppliedContextMeshReplay: without a request, or without an apply of the
\* latest records that is not rolled back, it comes to nothing.
MeshReplayView == {<<>>, TurnView}

SelfCheckTodos ==
    {VerifyMemoryLocalApplyInvocationContract(replay) : replay \in MeshReplayView}

\* rollbackMemoryReversibleApply and appendMemoryReplayEvidence, of an apply
\* record: of a candidate that is there, of the self-check's, whose id is known, or
\* of one that is not fit; a replay may be of none.
AppliedCells == {c \in candidates.cells : c.applied} \cup {CheckCell}
RollbackTodos ==
    {<<Step("readCandidates")>>} \cup {ReadApplied(cell, TRUE) : cell \in AppliedCells}
ReplayTodos ==
    {<<Add("queue", "replay")>>, <<Step("readCandidates"), Add("queue", "replay")>>}
    \cup {ReadApplied(cell, FALSE) \o <<Add("queue", "replay")>> : cell \in AppliedCells}

AppendCheckCell(a) ==
    /\ At(a, "appendCheckCell")
    /\ candidates' = [status |-> IF candidates.status = "torn" THEN "torn" ELSE "ok",
                      cells |-> candidates.cells \cup {CheckCell}]
    /\ Wrote("candidates", a, Len(writes["candidates"]), "check")
    /\ GoesOn(a)
    /\ UNCHANGED <<runtime, wiki, lines, search, past, left>>
    /\ UNCHANGED workVars

RollbackLine(cell) ==
    IF cell = CheckCell THEN CheckLine("queue", "rollback") ELSE Add("queue", "rollback")

\* rollbackMemoryReversibleApply, reviewAppliedCandidateLifecycle: without the
\* candidate nothing is written.
ReadAppliedCell(a) ==
    /\ At(a, "readApplied")
    /\ LET x == Head(doing[a].todo) IN
       Reads(a, candidates,
             [kept |-> IF x.drops THEN candidates.cells \ {x.cell} ELSE candidates.cells,
              keptSeen |-> Len(writes["candidates"])],
             CASE x.cell \in candidates.cells ->
                    <<Step("writeKept")>>
                    \o (IF x.drops THEN <<RollbackLine(x.cell)>> ELSE <<>>)
               [] x.cell \notin candidates.cells /\ candidates.status = "missing" ->
                    InitializeMemoryWiki
               [] OTHER -> <<>>)
    /\ UNCHANGED <<runtime, wiki, candidates, lines, search, writes, left>>
    /\ UNCHANGED workVars

WriteKept(a) ==
    /\ At(a, "writeKept")
    /\ candidates' = [status |-> "ok", cells |-> doing[a].kept]
    /\ Wrote("candidates", a, doing[a].keptSeen, "kept")
    /\ GoesOn(a)
    /\ UNCHANGED <<runtime, wiki, lines, search, past, left>>
    /\ UNCHANGED workVars

-----------------------------------------------------------------------------
(* A process stops inside one of the rewrites of this module.  Candidates are     *)
(* lines: the first few may be left, with or without a broken one after them;      *)
(* `writes` has it as a write that had seen none.                                   *)

StopInRewrite(a) ==
    /\ doing[a] # Rest /\ left["stop"] > 0
    /\ left' = [left EXCEPT !["stop"] = @ - 1]
    /\ past' = [past EXCEPT !.cut = @ \cup {doing[a].call}]
    /\ Leaves(a)
    /\ \/ /\ At(a, "writeSessions")
          /\ sessions' = Torn(sessions)
          /\ UNCHANGED <<candidates, writes>>
       \/ /\ At(a, "writeKept")
          /\ \E cells \in SUBSET doing[a].kept, status \in {"ok", "torn"} :
                candidates' = [status |-> status, cells |-> cells]
          /\ Wrote("candidates", a, 0, "cut")
          /\ UNCHANGED sessions
    /\ UNCHANGED <<runtime, wiki, lines, search, welcome, performed>>

NoFile == [call |-> 0, with |-> {}, approved |-> <<>>]

WorkInit(root, calls) ==
    /\ TurnsInit(root, calls)
    /\ sessions = [status |-> "missing", open |-> {}]
    /\ welcome = [file \in WelcomeFiles |-> NoFile]
    /\ performed = {}

WorkNext ==
    \/ TurnsNext /\ UNCHANGED workVars
    \/ \E a \in Actors :
          \/ RunCommand(a) /\ UNCHANGED workVars
          \/ ReadSessions(a) \/ WriteSessions(a) \/ PerformOperation(a)
          \/ WriteWelcome(a)
          \/ AppendCheckCell(a) \/ ReadAppliedCell(a) \/ WriteKept(a)
    \/ \E a \in Callers : StopInRewrite(a)

-----------------------------------------------------------------------------
(* Properties *)

Count(file, kinds, call) ==
    Cardinality({i \in DOMAIN lines[file] :
        lines[file][i].kind \in kinds /\ lines[file][i].call = call})

\* A tool shown as running is shown as ended, once: only a call under way or
\* cut short leaves one running, and never more than one.
DryRunsEnd ==
    \A call \in 1 .. past.calls :
        LET running == Count("progress", {"tool_running"}, call)
            ended == Count("progress", {"tool_complete", "tool_error"}, call)
        IN  /\ ended \in {running, running - 1}
            /\ ended = running \/ call \in Unfinished

\* An OS turn recorded as completed has everything its record names: the ledger
\* pair and the dry run of its loop, its live turn, and its audit event.  A
\* session a submission opened has the record of the OS turn, and it is there
\* unless a call that had not seen it wrote the file again.
WorkBacked ==
    LET completed == LinesOf("osTurns", "completed")
        recorded == completed \cup LinesOf("osTurns", "blocked")
    IN  /\ completed \subseteq
              LinesOf("approvals", "loop_approval") \cap LinesOf("audits", "loop_audit")
              \cap LinesOf("progress", "tool_running") \cap LinesOf("live", "recorded")
              \cap LinesOf("events", "os_turn")
        /\ CallsThat("sessions", "submitted") \subseteq recorded
        /\ sessions.status = "ok" => \A i \in DOMAIN writes["sessions"] :
              \/ writes["sessions"][i].call \in sessions.open
              \/ MadeOver("sessions", i)

\* The welcome files are those of one application of the settings, unless it is
\* under way, was cut short, or another one ran at the same time; and the memory
\* and heartbeat files are of one that approved them.
WelcomeWhole ==
    /\ \A f, g \in ToSet(BaseFiles) :
          LET one == welcome[f]
              other == welcome[g]
          IN  \/ one.call = other.call
              \/ {one.call, other.call} \cap Unfinished # {}
              \/ one.call \in other.with \/ other.call \in one.with
    /\ \A f \in {"memory", "heartbeat"} :
          welcome[f].call # 0 => welcome[f].approved[f]

\* Writes of the candidate file that put whole contents in place of it.
Rewrote(i) == writes["candidates"][i].kind \in {"empty", "kept", "cut"}

\* A self-check takes back the candidate it applied on the user's root.  One is
\* left only while the check runs, after it was cut short or threw before its
\* rollback (the replay reads the state, and the state may be torn), or because a
\* rollback or a review that had read the file before wrote it over a rewrite.
SelfChecksLeaveNothing ==
    CheckCell \in candidates.cells =>
        \/ CallsThat("candidates", "check") \cap (Unfinished \cup past.threw) # {}
        \/ \E i \in DOMAIN writes["candidates"] :
              Rewrote(i) /\ MadeOver("candidates", i)
=============================================================================
