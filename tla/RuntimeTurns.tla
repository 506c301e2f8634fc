----------------------------- MODULE RuntimeTurns -----------------------------
(***************************************************************************)
(* What a turn leaves behind: the runtime state and its audit events          *)
(* (runtime.js, storage.js), the memory wiki and its candidate file            *)
(* (memory-wiki.js), the growth loop and the bridge of a live turn             *)
(* (auto-memory-growth-loop.js, live-turn-absorption-bridge.js,                *)
(* chat-preflight-replay.js), the growth proposals and their gates             *)
(* (replay-history.js, growth-proposals.js, growth-application-gates.js) and    *)
(* the search index (memory-search.js).                                        *)
(*                                                                          *)
(* A call is a list of file accesses, one step each: the gateway and the CLI    *)
(* run calls on one root without a lock, and either may stop between two         *)
(* accesses.  Three files are rewritten whole from an earlier look at them;     *)
(* every other file is JSON lines and only appended to.                         *)
(*                                                                          *)
(* Abstractions.  Of a line the model keeps its kind and the call it is from.   *)
(* What the patterns and scores of a text decide is chosen with the call.       *)
(* An append is one step; a rewrite cut short leaves a file JSON.parse rejects. *)
(***************************************************************************)
EXTENDS Integers, SequencesExt

CONSTANTS
    Actors,         \* processes that work on one root
    Callers,        \* those that make calls of their own: all but a server
    Targets,        \* the targets a recovery record may be about
    MinEvidence,    \* records a proposal and its gate ask for: 2
    ReadLimit       \* how many of the latest lines the readers return: 50

ASSUME TurnsAssumption ==
    Callers \subseteq Actors /\ MinEvidence \in Nat /\ ReadLimit \in Nat \ {0}

LineFiles == {"events", "progress", "preflight", "answers", "evaluations",
              "queue", "approvals", "audits", "growth", "live", "history",
              "proposals", "gates", "osTurns", "skills", "hardening"}
Rewritten == {"state", "wiki", "candidates", "sessions"}

VARIABLES
    runtime,    \* state/runtime.json
    wiki,       \* memory/wiki.json
    candidates, \* memory/tcell-candidates.jsonl
    lines,      \* the JSON-lines files
    search,     \* the search index
    doing,      \* what each process has still to do of its call
    writes,     \* every write of a rewritten file, in order
    past,       \* calls made, calls cut short, calls that threw
    left        \* calls and stops still to come (bounds the model)

vars == <<runtime, wiki, candidates, lines, search, doing, writes, past, left>>

-----------------------------------------------------------------------------
(* The steps of a call *)

Step(name) == [do |-> name]
Line(file, rec) == [do |-> "append", file |-> file, rec |-> rec]
Add(file, kind) == Line(file, [kind |-> kind])
Cell(applied) == [do |-> "appendCandidate", applied |-> applied]

\* initializeMemoryWiki makes the files that are missing and reads the wiki.
InitializeMemoryWiki ==
    <<Step("checkWiki"), Step("checkCandidates"), Step("readWiki")>>

\* runTurn reads the candidates, and makes the memory files if there are none.
RunTurn == <<Step("readBase"), Step("readCandidates")>>

\* Mutant: the event comes before the state it tells of.
TurnEventFirst(status) ==
    <<Step("checkState")>> \o RunTurn
    \o <<Step("readRest"), Add("events", status), Step("writeState")>>

\* runRuntimeTurn; `status` is what the turn decided about authority.
TurnSteps(status) ==
    <<Step("checkState")>> \o RunTurn
    \o <<Step("readRest"), Step("writeState"), Add("events", status)>>

\* The same without persisting: replay views and preflight packets.
TurnView == <<Step("checkState")>> \o RunTurn

CaptureSteps == InitializeMemoryWiki \o <<Step("writeWiki"), Cell(FALSE)>>

\* appendMemoryReversibleApply counts the candidates before and after.
ApplyReversibly(append, line) ==
    <<Step("readCandidates"), append, Step("readCandidates"), line>>

\* Mutant: the run is recorded before the audit event of it.
GrowthRunFirst(c) ==
    IF c.signal # "worthy" THEN <<Add("growth", c.signal)>>
    ELSE CaptureSteps
         \o <<Add("queue", "candidate"), Add("queue", "replay"),
              Add("growth", "captured_review_only"),
              Add("events", "auto_memory_growth")>>

\* runAutoMemoryGrowthLoop.  A text is missing, needs approval, is routine, or
\* is worthy; a request is recorded when its replay is proven, and an apply needs
\* the approval handed in with the call.
GrowthSteps(c) ==
    IF c.signal # "worthy" THEN <<Add("growth", c.signal)>>
    ELSE LET review ==
                 CaptureSteps \o <<Add("queue", "candidate"), Add("queue", "replay")>>
             request == IF c.proven THEN <<Add("queue", "request")>> ELSE <<>>
             apply ==
                 <<Add("approvals", "approval"), Add("audits", "audit"),
                   Add("queue", "bridge")>>
                 \o ApplyReversibly(Cell(TRUE), Add("queue", "apply"))
             applied == c.proven /\ c.approved
         IN  review \o request \o (IF applied THEN apply ELSE <<>>)
             \o <<Add("events", "auto_memory_growth"),
                  Add("growth", IF applied THEN "completed_local_auto_loop"
                                ELSE "captured_review_only")>>

\* runLiveTurnAbsorptionBridge: without a message, without an answer, with one.
LiveSteps(c) ==
    LET Progress(phase) == Add("progress", phase)
        preflight == <<Progress("context_retrieval")>> \o TurnView
                     \o <<Add("preflight", "packet")>>
        answer == <<Progress("verifying"), Add("answers", "post_answer"),
                    Add("evaluations", "evaluation")>>
                  \o GrowthSteps(c) \o <<Progress("self_growth_review")>>
        record(status) == <<Add("events", "live_turn"), Progress("complete"),
                            Add("live", status)>>
    IN  CASE c.message = "none" ->
               <<Progress("context_retrieval"), Progress("blocked"),
                 Add("live", "blocked")>>
          [] c.message = "question" ->
               preflight \o <<Progress("drafting")>> \o record("waiting")
          [] c.message = "answered" ->
               preflight \o answer \o record("recorded")

Signals == {"text_missing", "approval_required", "not_growth_material", "worthy"}

-----------------------------------------------------------------------------
(* Calls begin and end *)

Rest == [op |-> "rest"]

\* The fields of both records, those of the first before those of the second.
Merge(new, old) ==
    [field \in DOMAIN new \cup DOMAIN old |->
        IF field \in DOMAIN new THEN new[field] ELSE old[field]]

Starts(a, op, rec, todo) ==
    /\ doing[a] = Rest
    /\ past' = [past EXCEPT !.calls = @ + 1]
    /\ doing' = [doing EXCEPT ![a] =
                   Merge(rec, [op |-> op, call |-> past.calls + 1, todo |-> todo])]
    /\ UNCHANGED <<runtime, wiki, candidates, lines, search, writes>>

Begin(a, op, rec, todo) ==
    /\ left[op] > 0
    /\ left' = [left EXCEPT ![op] = @ - 1]
    /\ Starts(a, op, rec, todo)

TurnTodos == {TurnSteps(status) : status \in {"turn.completed", "turn.authority_needed"}}

BeginTurn(a) == \E todo \in TurnTodos : Begin(a, "turn", <<>>, todo)

BeginCapture(a) == Begin(a, "capture", <<>>, CaptureSteps)

GrowthInputs ==
    {c \in [signal : Signals, proven : BOOLEAN, approved : BOOLEAN] :
        c.signal # "worthy" => ~c.proven /\ ~c.approved}

BeginGrowth(a) == \E c \in GrowthInputs : Begin(a, "growth", <<>>, GrowthSteps(c))

\* The bridge hands no approval to the growth loop, and no empty text.
LiveInputs ==
    {c \in [message : {"none", "question", "answered"},
            signal : Signals \ {"text_missing"},
            proven : BOOLEAN, approved : {FALSE}] :
        /\ c.message # "answered" => c.signal = "not_growth_material"
        /\ c.signal # "worthy" => ~c.proven}

BeginLive(a) == \E c \in LiveInputs : Begin(a, "live", <<>>, LiveSteps(c))

At(a, name) == doing[a] # Rest /\ Head(doing[a].todo).do = name

\* The process goes on with what is left, after the steps put in between.
Goes(a, rec, between) ==
    LET rest == between \o Tail(doing[a].todo)
    IN  doing' = [doing EXCEPT ![a] =
                    IF rest = <<>> THEN Rest
                    ELSE Merge(rec, [doing[a] EXCEPT !.todo = rest])]
GoesOn(a) == Goes(a, <<>>, <<>>)

Leaves(a) == doing' = [doing EXCEPT ![a] = Rest]

\* A file that cannot be parsed: the call throws.
Throws(a) == Leaves(a) /\ past' = [past EXCEPT !.threw = @ \cup {doing[a].call}]

\* It reads on, unless the file cannot be parsed.
Reads(a, file, rec, between) ==
    IF file.status = "torn" THEN Throws(a)
    ELSE Goes(a, rec, between) /\ UNCHANGED past

-----------------------------------------------------------------------------
(* The runtime state.  `seen` of a write is how many writes of the file there   *)
(* were when the call last looked; it is kept to state properties with.         *)

NoState == [status |-> "missing", turns |-> 0]
Wrote(file, a, seen, kind) ==
    writes' = [writes EXCEPT ![file] =
                 Append(@, [call |-> doing[a].call, seen |-> seen, kind |-> kind])]

\* initializeRuntimeState
CheckState(a) ==
    /\ At(a, "checkState")
    /\ Goes(a, <<>>, IF runtime.status = "missing"
                     THEN <<Step("writeDefault"), Add("events", "initialized")>>
                     ELSE <<>>)
    /\ UNCHANGED <<runtime, wiki, candidates, lines, search, writes, past, left>>

WriteDefault(a) ==
    /\ At(a, "writeDefault")
    /\ runtime' = [status |-> "ok", turns |-> 0]
    /\ Wrote("state", a, 0, "default")
    /\ GoesOn(a)
    /\ UNCHANGED <<wiki, candidates, lines, search, past, left>>

\* The counters of the turn are made from this read.
ReadBase(a) ==
    /\ At(a, "readBase")
    /\ Reads(a, runtime, [base |-> runtime.turns, baseSeen |-> Len(writes["state"])], <<>>)
    /\ UNCHANGED <<runtime, wiki, candidates, lines, search, writes, left>>

\* The rest of the state is from this one.
ReadRest(a) ==
    /\ At(a, "readRest")
    /\ Reads(a, runtime, <<>>, <<>>)
    /\ UNCHANGED <<runtime, wiki, candidates, lines, search, writes, left>>

\* writeRuntimeState
WriteState(a) ==
    /\ At(a, "writeState")
    /\ runtime' = [status |-> "ok", turns |-> doing[a].base + 1]
    /\ Wrote("state", a, doing[a].baseSeen, "turn")
    /\ GoesOn(a)
    /\ UNCHANGED <<wiki, candidates, lines, search, past, left>>

-----------------------------------------------------------------------------
(* The memory wiki and the candidate file. *)

CheckWiki(a) ==
    /\ At(a, "checkWiki")
    /\ Goes(a, <<>>, IF wiki.status = "missing" THEN <<Step("writeEmptyWiki")>>
                     ELSE <<>>)
    /\ UNCHANGED <<runtime, wiki, candidates, lines, search, writes, past, left>>

WriteEmptyWiki(a) ==
    /\ At(a, "writeEmptyWiki")
    /\ wiki' = [status |-> "ok", entries |-> {}]
    /\ Wrote("wiki", a, 0, "empty")
    /\ GoesOn(a)
    /\ UNCHANGED <<runtime, candidates, lines, search, past, left>>

CheckCandidates(a) ==
    /\ At(a, "checkCandidates")
    /\ Goes(a, <<>>, IF candidates.status = "missing"
                     THEN <<Step("writeEmptyCandidates")>> ELSE <<>>)
    /\ UNCHANGED <<runtime, wiki, candidates, lines, search, writes, past, left>>

WriteEmptyCandidates(a) ==
    /\ At(a, "writeEmptyCandidates")
    /\ candidates' = [status |-> "ok", cells |-> {}]
    /\ Wrote("candidates", a, 0, "empty")
    /\ GoesOn(a)
    /\ UNCHANGED <<runtime, wiki, lines, search, past, left>>

\* readTCellCandidates: without the file, both memory files are made.
ReadTCellCandidates(a) ==
    /\ At(a, "readCandidates")
    /\ Reads(a, candidates, <<>>,
             IF candidates.status = "missing" THEN InitializeMemoryWiki ELSE <<>>)
    /\ UNCHANGED <<runtime, wiki, candidates, lines, search, writes, left>>

\* readMemoryWiki: without the file, both memory files are made, and it is read again.
ReadMemoryWiki(a) ==
    /\ At(a, "readWiki")
    /\ Reads(a, wiki, [wiki |-> wiki.entries, wikiSeen |-> Len(writes["wiki"])],
             IF wiki.status = "missing" THEN InitializeMemoryWiki ELSE <<>>)
    /\ UNCHANGED <<runtime, wiki, candidates, lines, search, writes, left>>

\* Mutant: the wiki keeps the newest entry.
WriteNewestEntry(a) ==
    /\ At(a, "writeWiki")
    /\ wiki' = [status |-> "ok", entries |-> {doing[a].call}]
    /\ Wrote("wiki", a, doing[a].wikiSeen, "entry")
    /\ GoesOn(a)
    /\ UNCHANGED <<runtime, candidates, lines, search, past, left>>

WriteMemoryWiki(a) ==
    /\ At(a, "writeWiki")
    /\ wiki' = [status |-> "ok", entries |-> doing[a].wiki \cup {doing[a].call}]
    /\ Wrote("wiki", a, doing[a].wikiSeen, "entry")
    /\ GoesOn(a)
    /\ UNCHANGED <<runtime, candidates, lines, search, past, left>>

\* appendTCellCandidate: the captured candidate, or the applied one after it.
AppendTCellCandidate(a) ==
    /\ At(a, "appendCandidate")
    /\ candidates' = [status |-> IF candidates.status = "torn" THEN "torn" ELSE "ok",
                      cells |-> candidates.cells \cup
                          {[call |-> doing[a].call,
                            applied |-> Head(doing[a].todo).applied]}]
    /\ Wrote("candidates", a, Len(writes["candidates"]),
             IF Head(doing[a].todo).applied THEN "applied" ELSE "cell")
    /\ GoesOn(a)
    /\ UNCHANGED <<runtime, wiki, lines, search, past, left>>

-----------------------------------------------------------------------------
(* JSON lines *)

AppendLine(a) ==
    /\ At(a, "append")
    /\ LET step == Head(doing[a].todo)
       IN  lines' = [lines EXCEPT ![step.file] =
                       Append(@, Merge(step.rec, [call |-> doing[a].call]))]
    /\ GoesOn(a)
    /\ UNCHANGED <<runtime, wiki, candidates, search, writes, past, left>>

LastOf(file) ==
    LET n == Len(lines[file])
    IN  SubSeq(lines[file], IF n > ReadLimit THEN n - ReadLimit + 1 ELSE 1, n)

RecordsOf(target) ==
    SelectSeq(LastOf("history"), LAMBDA r : r.target = target)

\* appendReplayRecoveryRecord, of the target the turn came to.
RecordTodos == {TurnView \o <<Line("history", [target |-> t])>> : t \in Targets}

BeginRecord(a) == \E todo \in RecordTodos : Begin(a, "record", <<>>, todo)

\* appendSelfGrowthProposal: with too little evidence nothing is written.
ProposeTodos ==
    {<<Line("proposals", [target |-> t])>> :
        t \in {t \in Targets : Len(RecordsOf(t)) >= MinEvidence}}

BeginPropose(a) == \E todo \in ProposeTodos : Begin(a, "propose", <<>>, todo)

ReplayPassed(target) == Len(RecordsOf(target)) >= MinEvidence

\* buildGrowthApplicationGate: of a proposal among the latest, or of none.
Gate(proposal, target, approved) ==
    [target |-> target, proposed |-> proposal # <<>>,
     review |-> IF proposal = <<>> \/ ~ReplayPassed(target) THEN "not_ready"
                ELSE IF approved THEN "review_passed_apply_blocked"
                ELSE "awaiting_approval"]

\* appendGrowthApplicationGate
GateTodos ==
    LET about == {<<p, p.target>> : p \in ToSet(LastOf("proposals"))}
                     \cup {<<<<>>, t>> : t \in Targets}
    IN  {<<Line("gates", Gate(x[1], x[2], approved))>> :
            x \in about, approved \in BOOLEAN}

BeginGate(a) == \E todo \in GateTodos : Begin(a, "gate", <<>>, todo)

-----------------------------------------------------------------------------
(* The search index: the wiki is read, then the lines, then the index written. *)

\* Mutant: the wiki is read last.
CellsBeforeEntries ==
    <<Step("collectCells"), Step("collectEntries"), Step("writeIndex")>>

\* buildMemorySearchIndex
BuildSteps ==
    <<Step("collectEntries"), Step("collectCells"), Step("writeIndex")>>

BeginIndex(a) == Begin(a, "index", <<>>, BuildSteps)

\* searchMemory: an index that is there is used as it is.
SearchSteps(allowBuild) == <<[do |-> "readIndex", allowBuild |-> allowBuild]>>

BeginSearch(a) ==
    \E allowBuild \in BOOLEAN : Begin(a, "search", <<>>, SearchSteps(allowBuild))

ReadMemorySearchIndex(a) ==
    /\ At(a, "readIndex")
    /\ Reads(a, search, <<>>,
             IF search.status = "missing" /\ Head(doing[a].todo).allowBuild
             THEN BuildSteps ELSE <<>>)
    /\ UNCHANGED <<runtime, wiki, candidates, lines, search, writes, left>>

\* A wiki that cannot be parsed counts as none.
CollectEntries(a) ==
    /\ At(a, "collectEntries")
    /\ Goes(a, [entries |-> IF wiki.status = "ok" THEN wiki.entries ELSE {}], <<>>)
    /\ UNCHANGED <<runtime, wiki, candidates, lines, search, writes, past, left>>

\* `open`, the calls under way then, is kept to state properties with.
CollectCells(a) ==
    /\ At(a, "collectCells")
    /\ LET open == {doing[b].call : b \in {b \in Actors : doing[b] # Rest}}
       IN  Goes(a, [cells |-> {c.call : c \in candidates.cells},
                    open |-> open], <<>>)
    /\ UNCHANGED <<runtime, wiki, candidates, lines, search, writes, past, left>>

WriteIndex(a) ==
    /\ At(a, "writeIndex")
    /\ search' = [status |-> "ready", entries |-> doing[a].entries,
                  cells |-> doing[a].cells, open |-> doing[a].open]
    /\ GoesOn(a)
    /\ UNCHANGED <<runtime, wiki, candidates, lines, writes, past, left>>

-----------------------------------------------------------------------------
(* A process stops between two accesses, or inside a rewrite. *)

Torn(file) == [file EXCEPT !.status = "torn"]

Stop(a) ==
    /\ doing[a] # Rest /\ left["stop"] > 0
    /\ left' = [left EXCEPT !["stop"] = @ - 1]
    /\ past' = [past EXCEPT !.cut = @ \cup {doing[a].call}]
    /\ Leaves(a)
    /\ UNCHANGED <<candidates, lines, writes>>
    /\ \/ UNCHANGED <<runtime, wiki, search>>
       \/ /\ At(a, "writeState") \/ At(a, "writeDefault")
          /\ runtime' = Torn(runtime)
          /\ UNCHANGED <<wiki, search>>
       \/ /\ At(a, "writeWiki") \/ At(a, "writeEmptyWiki")
          /\ wiki' = Torn(wiki)
          /\ UNCHANGED <<runtime, search>>
       \/ /\ At(a, "writeIndex")
          /\ search' = Torn(search)
          /\ UNCHANGED <<runtime, wiki>>

\* A root nobody used, or one with an empty state and memory.
TurnsInit(root, calls) ==
    /\ runtime = [NoState EXCEPT !.status = IF root = "new" THEN "missing" ELSE "ok"]
    /\ wiki = [status |-> IF root = "new" THEN "missing" ELSE "ok", entries |-> {}]
    /\ candidates = [status |-> wiki.status, cells |-> {}]
    /\ lines = [file \in LineFiles |-> <<>>]
    /\ search = [status |-> "missing", entries |-> {}, cells |-> {}, open |-> {}]
    /\ doing = [a \in Actors |-> Rest]
    /\ writes = [file \in Rewritten |-> <<>>]
    /\ past = [calls |-> 0, cut |-> {}, threw |-> {}]
    /\ left = calls

TurnsNext ==
    \/ \E a \in Callers :
          \/ BeginTurn(a) \/ BeginCapture(a) \/ BeginGrowth(a) \/ BeginLive(a)
          \/ BeginRecord(a) \/ BeginPropose(a) \/ BeginGate(a)
          \/ BeginIndex(a) \/ BeginSearch(a) \/ Stop(a)
    \/ \E a \in Actors :
        \/ CheckState(a) \/ WriteDefault(a) \/ ReadBase(a) \/ ReadRest(a)
        \/ WriteState(a) \/ CheckWiki(a) \/ WriteEmptyWiki(a)
        \/ CheckCandidates(a) \/ WriteEmptyCandidates(a)
        \/ ReadTCellCandidates(a) \/ ReadMemoryWiki(a) \/ WriteMemoryWiki(a)
        \/ AppendTCellCandidate(a) \/ AppendLine(a)
        \/ ReadMemorySearchIndex(a) \/ CollectEntries(a) \/ CollectCells(a)
        \/ WriteIndex(a)

-----------------------------------------------------------------------------
(* Properties *)

Open == {doing[a].call : a \in {a \in Actors : doing[a] # Rest}}
Unfinished == Open \cup past.cut

\* Every write of the file was made by a call that had seen the write before it.
Undisturbed(file) ==
    \A i \in DOMAIN writes[file] : writes[file][i].seen = i - 1

\* The write was made over by a call that had not seen it.
MadeOver(file, i) ==
    \E j \in DOMAIN writes[file] : j > i /\ writes[file][j].seen < i

CallsThat(file, kind) ==
    {w.call : w \in {w \in ToSet(writes[file]) : w.kind = kind}}

LinesOf(file, kind) ==
    {l.call : l \in {l \in ToSet(lines[file]) : l.kind = kind}}

\* The turn counter is the number of turns written, unless one was made by a
\* call that had read the counter before another changed it; it never exceeds
\* that number; and a turn without its event is unfinished or was cut short.
TurnsCounted ==
    LET turns == {i \in DOMAIN writes["state"] : writes["state"][i].kind = "turn"}
        told == LinesOf("events", "turn.completed")
                    \cup LinesOf("events", "turn.authority_needed")
    IN  /\ runtime.status = "ok" => runtime.turns <= Cardinality(turns)
        /\ runtime.status = "ok" /\ Undisturbed("state") =>
              runtime.turns = Cardinality(turns)
        /\ told \subseteq CallsThat("state", "turn")
        /\ CallsThat("state", "turn") \ told \subseteq Unfinished

\* A captured entry stays in the wiki, and its candidate in the candidate file,
\* unless a call that had not seen it wrote the file again; and an entry
\* without a candidate ever written is of an unfinished capture.
MemoryKept ==
    /\ wiki.status = "ok" =>
          \A i \in DOMAIN writes["wiki"] :
              LET w == writes["wiki"][i] IN
              w.kind = "entry" => w.call \in wiki.entries \/ MadeOver("wiki", i)
    /\ \A i \in DOMAIN writes["candidates"] :
          LET w == writes["candidates"][i] IN
          w.kind = "cell" => \/ \E c \in candidates.cells : c.call = w.call /\ ~c.applied
                             \/ MadeOver("candidates", i)
    /\ CallsThat("candidates", "cell") \subseteq CallsThat("wiki", "entry")
    /\ CallsThat("wiki", "entry") \ CallsThat("candidates", "cell") \subseteq
          Unfinished

\* A run on record has everything it names on file: a growth run its entry,
\* candidate, replay and audit event, an applied one its approval and audit
\* lines, a live turn its packet, answer, evaluation, growth run and last
\* progress.  And no candidate is applied without both approval lines.
RunsBacked ==
    LET reviewed == LinesOf("growth", "captured_review_only")
        applied == LinesOf("growth", "completed_local_auto_loop")
        approved == LinesOf("approvals", "approval") \cap LinesOf("audits", "audit")
        recorded == LinesOf("live", "recorded")
    IN  /\ reviewed \cup applied \subseteq
              CallsThat("wiki", "entry") \cap CallsThat("candidates", "cell")
              \cap LinesOf("queue", "candidate") \cap LinesOf("queue", "replay")
              \cap LinesOf("events", "auto_memory_growth")
        /\ applied \subseteq approved \cap LinesOf("queue", "bridge")
                               \cap LinesOf("queue", "apply")
        /\ \A c \in candidates.cells : c.applied => c.call \in approved
        /\ recorded \subseteq
              LinesOf("preflight", "packet") \cap LinesOf("answers", "post_answer")
              \cap LinesOf("evaluations", "evaluation")
              \cap LinesOf("events", "live_turn") \cap LinesOf("progress", "complete")
              \cap {l.call : l \in ToSet(lines["growth"])}

\* An entry in the index has its candidate there too, unless its capture was
\* under way or had been cut short when the index was built, or the candidate
\* file was written over by a call that had not seen it.
IndexPairsEntries ==
    search.status = "ready" /\ Undisturbed("candidates") =>
        search.entries \subseteq search.cells \cup search.open \cup past.cut
=============================================================================
