-------------------------------- MODULE Served --------------------------------
(***************************************************************************)
(* The entry points of the runtime: the preview server of the control center  *)
(* (control-center-serving.js), the gateway (gateway.js) and the commands of    *)
(* the CLI (bin/gpao-t-full.js).  An entry point is a table of routes; a route   *)
(* is the file accesses its handler may make, one list for each input that       *)
(* matters.  A route a table does not name writes nothing.                       *)
(*                                                                          *)
(* The server handles a request in one go, but a POST to a protected path        *)
(* waits for its body in between, and other requests come first.  Tokens are       *)
(* made when a server starts, so they are known by its run; 0 is no token.         *)
(*                                                                          *)
(* Abstractions.  Headers are whether the origin is a local one, the cookie and    *)
(* the csrf token.  Views of one call that follow each other are one view: the      *)
(* later ones find the files the first has made.  An operation of another module     *)
(* is performed in one step here.                                                     *)
(***************************************************************************)
EXTENDS LocalWork

CONSTANT Server         \* the process that serves the control center

ASSUME ServerAssumption == Server \in Actors \ Callers

VARIABLES
    server,     \* whether it listens, and its run
    requests,   \* the requests that reached it, in order
    asked       \* the calls an entry point made, and what they were asked with

servedVars == <<server, requests, asked>>
allVars == <<localVars, servedVars>>

-----------------------------------------------------------------------------
(* Routes *)

Route(methods, path, todos) == [methods |-> methods, path |-> path, todos |-> todos]
Get(path, todos) == Route({"GET"}, path, todos)

Post(path, todos) == Route({"POST"}, path, todos)

\* A route that runs one operation of another module.
Performs(path) == Post(path, {<<Perform(path)>>})

(* What a view reads, a file once: one that cannot be parsed is the end of it.  *)

\* readMemoryWiki and readTCellCandidates
WikiView == <<Step("readWiki")>>
CandidatesView == <<Step("readCandidates")>>

\* readSessionWorkspaceState, and buildCodexStyleMultiChatWorkspace on it
SessionsView == <<Step("readSessions")>>
ThreadsView == SessionsView

\* buildCoreWorkSurface: the turn it previews is not run on the root's state.
SurfaceView == <<Step("readRest")>> \o WikiView \o CandidatesView \o ThreadsView

\* buildWorkSurfaceSubmissionValidationGate
SubmissionView == SurfaceView

\* buildMemoryLocalApplyInvocationContract without a request to replay: with an
\* apply that is not rolled back it looks whether the candidate is reviewed.
ContractView == {<<>>, CandidatesView}

\* buildGpaoTFirstCompletionAudit: the apply gate with the invocation contract,
\* the mesh, the sessions.
CompletionView ==
    {contract \o InitializeMemoryWiki \o CandidatesView \o SessionsView :
        contract \in ContractView}

\* buildGpaoTWorkspaceShell: the audit finds the files the surface has read.
ShellView == SurfaceView

\* buildMultiChatStageSixCompletion, buildThreadScopedMemoryReviewQueue
StagesView == ThreadsView \o SurfaceView
ReviewQueueView == ThreadsView

\* buildControlCenterSnapshot: the surface and the audit are among its panels.
SnapshotSteps == SurfaceView

\* buildSessionEventHeart, buildMemoryContextHeart
SessionHeartView == SessionsView
MemoryHeartView == SearchSteps(TRUE)

\* The inspector of buildAppliedContextMeshReplay, and the packet of a model:
\* without a request they come to nothing.
InspectorView == MeshReplayView
LlmPacketView == {<<>>, TurnView}

\* buildProductionCompletion runs the local work loop, records and all.
ProductionCompletion == LoopSteps("clear", TRUE)

\* Inputs of the routes that more than one entry point has.
SessionTodos ==
    {SessionSteps("opened"), SessionsView,
     <<Perform("applySessionWorkspaceAction")>>}
FlowTodos == {FlowSteps(matches, recordable) : matches, recordable \in BOOLEAN}
WelcomeTodos == {WelcomeSteps(c) : c \in WelcomeInputs}
DryRunTodos == {DryRunSteps(allowed) : allowed \in BOOLEAN}
LoopTodos == {LoopSteps(text, keep) : text \in Texts, keep \in BOOLEAN}
OsTurnTodos == {OsTurnSteps(c, keep) : c \in TurnInputs, keep \in BOOLEAN}
GrowthTodos == {GrowthSteps(c) : c \in GrowthInputs}
LiveTodos == {LiveSteps(c) : c \in LiveInputs}
SearchTodos == {SearchSteps(TRUE)}
EvidenceTodos ==
    {view \o <<Perform("writeGpaoTFirstCompletionEvidence")>> : view \in CompletionView}

-----------------------------------------------------------------------------
(* The routes of the server *)

\* The handlers of the protected paths.
ProtectedPosts == {
    Post("/sessions/action", SessionTodos),
    Post("/work-surface/submit", {SubmitSteps(c) : c \in TurnInputs}),
    Post("/work-surface/execution-flow/record", FlowTodos),
    Post("/workspace/welcome/draft", {<<>>}),
    Post("/workspace/welcome/apply", WelcomeTodos),
    Post("/connectors/execution-runtime/invoke-dry-run", DryRunTodos)}

\* The protected paths whose handlers come after the refusal of every method
\* but GET.
SettingsPaths == {
    "/settings/model-connection/openai-api-key/save",
    "/settings/model-connection/openai-oauth",
    "/settings/channels/telegram/save",
    "/settings/channels/telegram/verify-connection"}

\* PROTECTED_POST_ROUTES
ProtectedPaths == {r.path : r \in ProtectedPosts} \cup SettingsPaths

ControlCenterGets == {
    Get("/control-center/summary", {SnapshotSteps}),
    Get("/control-center/ui-snapshot", {SnapshotSteps}),
    Get("/control-center/ui-validate", {SnapshotSteps})}

HeartGets == {
    Get("/runtime/session-event-heart", {SessionHeartView}),
    Get("/runtime/session-event-heart/verify", {SessionHeartView}),
    Get("/runtime/memory-context-heart", {MemoryHeartView}),
    Get("/runtime/memory-context-heart/verify", {MemoryHeartView}),
    Get("/runtime/heart", {SessionHeartView \o MemoryHeartView}),
    Get("/runtime/heart/verify", {SessionHeartView \o MemoryHeartView})}

RuntimeGets == HeartGets \cup
    {Get("/connectors/execution-runtime/invocation/verify", {DryRunSteps(TRUE)})}

SubmissionGets ==
    {Get(path, {SubmissionView}) : path \in {
        "/work-surface/submission-gate", "/work-surface/submission-gate/verify",
        "/work-surface/submission-validation-gate",
        "/work-surface/submission-validation-gate/verify"}}

SessionGets ==
    {Get(path, {SessionsView}) : path \in {"/sessions", "/sessions/verify"}}
    \cup {Get(path, {ThreadsView}) : path \in {
        "/multi-chat-workspace", "/multi-chat-workspace/verify"}}
    \cup {Get("/multi-chat-workspace/memory-review-queue", {ReviewQueueView})}
    \cup {Get(path, {StagesView}) : path \in {
        "/multi-chat-workspace/stages-1-6", "/multi-chat-workspace/stages-1-6/verify"}}

WorkspaceGets ==
    {Get(path, {SurfaceView}) : path \in {
        "/work-surface", "/work-surface/state", "/work-surface/verify"}}
    \cup {Get(path, {ShellView}) : path \in {
        "/gpao-t-workspace", "/gpao-t-workspace/state", "/gpao-t-workspace/verify"}}
    \cup SubmissionGets \cup SessionGets

\* The app shell, its gates and the page itself: made of what is in memory.
ShellGets == {
    Get("/app-shell/state", {<<>>}), Get("/app-shell/verify", {<<>>}),
    Get("/app-shell/tauri-gate/verify", {<<>>}),
    Get("/app-shell/production-hardening/state", {<<>>})}

PageGets == {Get("/app-shell", {<<>>}), Get("/control-center", {<<>>})}

ServerGets ==
    ControlCenterGets \cup RuntimeGets \cup WorkspaceGets \cup ShellGets \cup PageGets
GetTodos == UNION {r.todos : r \in ServerGets}

-----------------------------------------------------------------------------
(* The routes of the gateway, in the order of handleGatewayRequest *)

FileRoutes == {
    Post("/init", {<<Step("checkState")>>}),
    Get("/memory", {WikiView}),
    Get("/tcells", {CandidatesView}),
    Performs("/owner-ops/record")}

ScenarioRoutes == {Performs("/owner-ops/first-owner-scenario/run")}

PrePublicRoutes == {Performs(path) : path \in {
    "/owner-ops/pre-public-repair-backlog",
    "/owner-ops/pre-public-repair-completion"}}

ReviewRoutes == {Performs(path) : path \in {
    "/owner-ops/release-readiness-evidence",
    "/owner-ops/human-review-approval-packet",
    "/owner-ops/human-review-decision-append"}}

SigningRoutes == {Performs(path) : path \in {
    "/owner-ops/marketplace-upload-decision-append",
    "/owner-ops/signed-package-evidence",
    "/owner-ops/install-update-rollback-proof",
    "/owner-ops/deployment-dry-run-plan",
    "/owner-ops/dry-run-executor-proof"}}

DryRunRoutes == {Performs(path) : path \in {
    "/owner-ops/dry-run-approval-record-design",
    "/owner-ops/dry-run-approval-record-append",
    "/owner-ops/controlled-dry-run-invoke",
    "/owner-ops/dry-run-result-handoff"}}

PackageRoutes == {Performs(path) : path \in {
    "/owner-ops/internal-production-package",
    "/owner-ops/team-alpha-handoff-bundle",
    "/owner-ops/first-owner-beta-handoff-bundle",
    "/owner-ops/first-owner-beta-operational-package"}}

FieldTestRoutes == {Performs(path) : path \in {
    "/owner-ops/first-owner-beta-result-review",
    "/owner-ops/field-test-records",
    "/owner-ops/field-test-action-queue",
    "/owner-ops/field-test-repair-completion",
    "/owner-ops/broader-owner-testing-handoff",
    "/owner-ops/broader-owner-testing-results"}}

BroaderTestRoutes == {Performs(path) : path \in {
    "/owner-ops/broader-owner-testing-repair-queue",
    "/owner-ops/broader-owner-testing-repair-completion",
    "/owner-ops/next-owner-testing-loop",
    "/owner-ops/production-ready",
    "/owner-ops/internal-production-owner-decision/records"}}

CenterRoutes == {
    Performs("/owner-ops/beta-feedback-action-queue"),
    Performs("/owner-ops/market-evidence-bundle"),
    Get("/control-center", {SnapshotSteps}),
    Get("/control-center/summary", {SnapshotSteps}),
    Post("/workspace/welcome/draft", {<<>>}),
    Post("/workspace/welcome/apply", WelcomeTodos),
    Get("/work-surface/state", {SurfaceView}),
    Get("/gpao-t-workspace/state", {ShellView}),
    Get("/gpao-t-workspace", {ShellView})}

SurfaceRoutes ==
    {Get("/gpao-t-workspace/verify", {ShellView}),
     Get("/work-surface/verify", {SurfaceView}),
     Post("/sessions/action", SessionTodos)}
    \cup SubmissionGets \cup SessionGets

WorkRoutes == {
    Post("/work-surface/execution-flow/record", FlowTodos),
    Post("/work-surface/local-loop", LoopTodos),
    Post("/work-surface/local-loop/verify", LoopTodos),
    Get("/control-center/ui-snapshot", {SnapshotSteps}),
    Get("/control-center/ui-validate", {SnapshotSteps})}

\* The dry run of a GET has the approval the gateway makes for it.
ProductionRoutes == {
    Get("/production/completion", {ProductionCompletion}),
    Get("/production/completion/verify", {ProductionCompletion}),
    Performs("/production/internal-production-package"),
    Get("/connectors/execution-runtime/invoke-dry-run", DryRunTodos),
    Get("/connectors/execution-runtime/invocation/verify", {DryRunSteps(TRUE)})}

LocalRecordTodos == {LedgerPair("asked_approval", "asked_audit"), <<>>}

ApprovalRoutes == {Post("/approval/local-records/write", LocalRecordTodos)}

SettingsRoutes == {Performs("/settings/model-connection/openai-api-key/save")}

RuntimeRoutes == HeartGets \cup {
    Post("/adapters/plan", TurnTodos),
    Post("/memory/capture", {CaptureSteps}),
    Get("/memory/review-queue/verify", {VerifyMemoryReviewQueue}),
    Get("/memory/local-apply-invocation", ContractView \cup MeshReplayView),
    Get("/memory/local-apply-invocation/verify", SelfCheckTodos)}

MemoryRoutes == {
    Get("/memory/self-growth-approval-ux", ContractView),
    Get("/memory/self-growth-approval-ux/verify", ContractView),
    Performs("/memory/review-candidate"),
    Performs("/memory/apply-request"),
    Performs("/memory/apply-approval-record"),
    Post("/memory/apply-engine/apply", {<<>>}),
    Post("/memory/apply-engine/rollback", {<<>>}),
    Performs("/memory/local-apply/invoke")}

LiveRoutes == {
    Post("/auto-memory-growth/run", GrowthTodos),
    Post("/live-turn/absorption/run", LiveTodos),
    Post("/live-turn/progress/tool", {<<Add("progress", "tool_event")>>}),
    Get("/live-turn/absorption/verify", {TurnView}),
    Post("/mesh/resolve", {CandidatesView})}

\* recordChatPreflightPacket and verifyChatPreflightReplay: a message, or none.
PacketTodos == {<<Add("preflight", "packet")>>,
                TurnView \o <<Add("preflight", "packet")>>}
PreflightView == TurnView

\* An answer and its evaluation are kept with text or without, whether what they
\* name is there or not.
PostAnswerTodos == {<<Add("answers", "post_answer")>>}
EvaluationTodos == {<<Add("evaluations", "evaluation")>>}

\* appendSkillExecutionRun keeps no run that is blocked.
SkillRunTodos == {<<>>, <<Add("skills", "run")>>}

\* appendInstallHardeningReport
HardeningTodos == {<<Add("hardening", "report")>>}

TurnRoutes ==
    {Post("/turn", TurnTodos),
     Post("/turn/os", OsTurnTodos),
     Post("/turn/os/verify", OsTurnTodos),
     Post("/chat/preflight-record", PacketTodos),
     Post("/chat/post-answer-replay-record", PostAnswerTodos),
     Post("/mesh/applied-candidate-replay", MeshReplayView),
     Post("/surface/applied-replay-inspector", InspectorView),
     Post("/chat/preflight-packet", LlmPacketView),
     Get("/mesh/applied-candidate-replay/verify", MeshReplayView),
     Get("/surface/applied-replay-inspector/verify", InspectorView),
     Get("/turn/llm-ready-packet/verify", LlmPacketView)}
    \cup {Post(path, LlmPacketView) : path \in {
        "/turn/llm-ready-packet", "/surface/llm-ready-packet"}}

ReplayRoutes == {
    Post("/chat/answer-replay-evaluation-record",
         EvaluationTodos),
    Get("/chat/preflight-replay/verify", {PreflightView}),
    Post("/skill/execute/record", SkillRunTodos),
    Post("/replay/recovery", {TurnView}),
    Post("/replay/record", RecordTodos)}

EvidenceRoutes == {
    Get("/first-completion", CompletionView),
    Get("/first-completion/verify", CompletionView),
    Post("/first-completion/evidence", EvidenceTodos),
    Post("/ops/install-hardening/record", HardeningTodos)}

\* What these append depends on what is on record.
RecordedRoutes == {
    Post("/growth/propose", ProposeTodos),
    Post("/growth/application-gate/record", GateTodos),
    Post("/memory/replay-record", ReplayTodos),
    Post("/memory/local-apply/rollback", RollbackTodos)}

GatewayRoutes ==
    UNION {FileRoutes, ScenarioRoutes, PrePublicRoutes, ReviewRoutes, SigningRoutes,
           DryRunRoutes, PackageRoutes, FieldTestRoutes, BroaderTestRoutes,
           CenterRoutes, SurfaceRoutes, WorkRoutes, ProductionRoutes, ApprovalRoutes,
           SettingsRoutes, RuntimeRoutes, MemoryRoutes, LiveRoutes, TurnRoutes,
           ReplayRoutes, EvidenceRoutes}

-----------------------------------------------------------------------------
(* The commands of the CLI *)

Command(name, todos) == Route({"command"}, name, todos)
PerformsCommand(name) == Command(name, {<<Perform(name)>>})

\* Live turns and growth runs of the command line have an answer or none, and
\* no approval.
TurnCommands == {
    Command("init", {<<Step("checkState")>>}),
    Command("memory capture", {CaptureSteps}),
    Command("memory list", {WikiView}),
    Command("memory index", {BuildSteps}),
    Command("memory search", SearchTodos),
    Command("memory heart", {MemoryHeartView}),
    Command("mesh resolve", {CandidatesView}),
    Command("turn", TurnTodos),
    Command("replay", TurnTodos),
    Command("replay-view", {TurnView}),
    Command("replay-record", RecordTodos)}

GrowthCommands == {
    Command("auto-memory-growth run",
        {GrowthSteps(c) : c \in {c \in GrowthInputs :
                                   c.signal # "text_missing" /\ ~c.approved}}),
    Command("live-turn run",
        {LiveSteps(c) : c \in {c \in LiveInputs : c.message = "question"}}),
    Command("live-turn run-answer",
        {LiveSteps(c) : c \in {c \in LiveInputs : c.message = "answered"}}),
    Command("live-turn tool-progress", {<<Add("progress", "tool_event")>>}),
    Command("live-turn verify", {TurnView}),
    Command("runtime heart", {SessionHeartView \o MemoryHeartView}),
    Command("skill execute-record", SkillRunTodos)}

RecordedCommands == {
    Command("growth propose", ProposeTodos),
    Command("growth gate-record", GateTodos)}

\* rebuild-live-gpao-t-memory-index.mjs: another process that builds the index.
RebuildCommands == {Command("rebuild-live-gpao-t-memory-index", {BuildSteps})}

EvidenceCommands == {PerformsCommand(name) : name \in {
    "record", "run-first-owner-scenario", "pre-public-repair-write"}}

ReviewCommands == {PerformsCommand(name) : name \in {
    "pre-public-repair-completion-write", "release-readiness-write",
    "human-review-approval-write", "human-review-decision-append",
    "marketplace-upload-decision-append", "signed-package-evidence-write",
    "install-update-rollback-proof-write", "deployment-dry-run-write",
    "dry-run-executor-write", "dry-run-approval-record-write",
    "dry-run-approval-record-append", "controlled-dry-run-invoke"}}

TestingCommands == {PerformsCommand(name) : name \in {
    "dry-run-result-handoff-write", "internal-production-package",
    "team-alpha-handoff-write", "first-owner-beta-handoff-write",
    "first-owner-beta-operational-write", "first-owner-beta-result-write",
    "field-test-record-append", "field-test-action-write",
    "field-test-repair-completion-write", "broader-owner-testing-handoff-write"}}

DecisionCommands == {PerformsCommand(name) : name \in {
    "broader-owner-testing-result-append", "broader-owner-testing-repair-write",
    "broader-owner-testing-repair-completion-write", "next-owner-testing-loop-write",
    "production-ready-write", "internal-production-owner-decision-append",
    "beta-feedback-action-write", "market-evidence-write"}}

LocalCommands == {
    Command("connectors execution-dry-run", DryRunTodos),
    Command("connectors execution-invocation-check", {DryRunSteps(TRUE)}),
    Command("approval record-write", LocalRecordTodos),
    Command("ops hardening-record", HardeningTodos),
    Command("workspace welcome-apply", WelcomeTodos),
    Command("production completion", {ProductionCompletion}),
    Command("production completion-check", {ProductionCompletion}),
    PerformsCommand("production internal-production-package"),
    Command("first-completion", CompletionView),
    Command("first-completion-write", EvidenceTodos),
    Command("adapters plan", TurnTodos)}

\* `control serve` is StartServer.
ControlCommands ==
    {Command("control " \o name, {SnapshotSteps}) : name \in {
        "snapshot", "summary", "ui-snapshot", "ui-validate", "html", "render"}}
    \cup {Command("control " \o name, {SurfaceView}) : name \in {
        "work-surface", "work-surface-html", "work-surface-check"}}
    \cup {Command("control " \o name, {SubmissionView}) : name \in {
        "work-surface-submission-gate", "work-surface-submission-gate-check",
        "work-surface-submission-validation-gate",
        "work-surface-submission-validation-gate-check"}}
    \cup {Command("control " \o name, {SessionsView}) : name \in {
        "sessions", "sessions-check"}}
    \cup {Command("control " \o name, {SessionHeartView}) : name \in {
        "session-heart", "session-heart-check"}}
    \cup {Command("control " \o name, {ThreadsView}) : name \in {
        "multi-chat-workspace", "multi-chat-workspace-check"}}
    \cup {Command("control multi-chat-memory-review-queue", {ReviewQueueView})}
    \cup {Command("control " \o name, {ShellView}) : name \in {
        "workspace-shell", "workspace-shell-html", "workspace-shell-check"}}
    \cup {Command("control sessions-action", SessionTodos),
          Command("control work-surface-local-loop",
              {LoopSteps(text, TRUE) : text \in Texts}),
          Command("control work-surface-execution-record", FlowTodos)}

CliCommands ==
    UNION {TurnCommands, GrowthCommands, RebuildCommands, EvidenceCommands, ReviewCommands,
           TestingCommands, DecisionCommands, LocalCommands, ControlCommands}

-----------------------------------------------------------------------------
(* Calls of the gateway and the CLI: a process of its own, until it is done. *)

Asked(via, method, q) ==
    asked' = asked \cup {[call |-> past.calls + 1, via |-> via, method |-> method,
                          run |-> server.run, cookie |-> q.cookie, csrf |-> q.csrf]}

NoTokens == [cookie |-> 0, csrf |-> 0]

\* handleGatewayRequest; a route that is not found, or that writes and reads
\* nothing, leaves no trace.  A bound is for any route, or for one path.
HandleGatewayRequest(a) ==
    \E r \in GatewayRoutes \cup RecordedRoutes, method \in {"GET", "POST"} :
        /\ method \in r.methods
        /\ \E todo \in r.todos \ {<<>>}, kind \in {"gateway", r.path} \cap DOMAIN left :
              Begin(a, kind, <<>>, todo)
        /\ Asked("gateway", method, NoTokens)
        /\ UNCHANGED <<server, requests>>

RunCommandLine(a) ==
    \E r \in CliCommands \cup RecordedCommands :
        /\ \E todo \in r.todos \ {<<>>} : Begin(a, "cli", <<>>, todo)
        /\ Asked("cli", "command", NoTokens)
        /\ UNCHANGED <<server, requests>>

-----------------------------------------------------------------------------
(* The server *)

Handling == \E k \in DOMAIN requests : requests[k].status = "handled"
Idle == doing[Server] = Rest /\ ~Handling

\* startControlCenterPreviewServer renders the page, then listens.
StartServer ==
    /\ Idle /\ ~server.up
    /\ Begin(Server, "start", <<>>, SnapshotSteps \o <<Step("listen")>>)
    /\ UNCHANGED servedVars

\* New tokens with every start.
Listen ==
    /\ ~server.up /\ At(Server, "listen")
    /\ server' = [up |-> TRUE, run |-> server.run + 1]
    /\ GoesOn(Server)
    /\ UNCHANGED <<runtime, wiki, candidates, lines, search, writes, past, left>>
    /\ UNCHANGED <<requests, asked>>

Request(path, q, status) ==
    [path |-> path, valid |-> q = [cookie |-> server.run, csrf |-> server.run],
     status |-> status, cookie |-> q.cookie, csrf |-> q.csrf]

\* The handler runs: the request is a call of the server until it responds.
Handled(method, q, todo) ==
    /\ Starts(Server, "request", <<>>, todo \o <<Step("respond")>>)
    /\ Asked("server", method, q)

NotHandled == UNCHANGED <<vars, asked>>

\* Every answer comes to this: a status, and the request is done.
Answers(k, status) == requests' = [requests EXCEPT ![k].status = status]

Arrives(kind) ==
    /\ server.up /\ Idle /\ left[kind] > 0
    /\ left' = [left EXCEPT ![kind] = @ - 1]
    /\ UNCHANGED server

ArriveGet ==
    /\ Arrives("get")
    /\ \E todo \in GetTodos : Handled("GET", NoTokens, todo)
    /\ requests' = Append(requests, Request("page", NoTokens, "handled"))

\* A method the path is not for.
ArriveWrongMethod ==
    /\ Arrives("get")
    /\ requests' = Append(requests, Request("page", NoTokens, "405"))
    /\ UNCHANGED <<runtime, wiki, candidates, lines, search, doing, writes, past, asked>>

\* verifyMutationRequestEnvelope: the origin and the cookie, before the body.
EnvelopeStatus(origin, q) ==
    IF ~origin THEN "403" ELSE IF q.cookie # server.run THEN "401" ELSE "waiting"

ArrivePost ==
    /\ Arrives("post")
    /\ \E path \in ProtectedPaths, origin \in BOOLEAN,
          q \in [cookie : 0 .. server.run, csrf : 0 .. server.run] :
        requests' = Append(requests, Request(path, q, EnvelopeStatus(origin, q)))
    /\ UNCHANGED <<runtime, wiki, candidates, lines, search, doing, writes, past, asked>>

\* Mutant: a token of any run will do.
CsrfOfAnyRun(q) == q.csrf # 0

\* verifyMutationCsrf
CsrfReady(q) == q.csrf = server.run

\* The body is there, and the handler runs to its end.  A settings path has no
\* handler before the refusal of all methods but GET.
ReadBody ==
    /\ server.up /\ Idle
    /\ \E k \in DOMAIN requests :
        LET q == requests[k] IN
        /\ q.status = "waiting"
        /\ \/ ~CsrfReady(q) /\ Answers(k, "403") /\ NotHandled
           \/ /\ CsrfReady(q) /\ q.path \in SettingsPaths
              /\ Answers(k, "405") /\ NotHandled
           \/ /\ CsrfReady(q) /\ Answers(k, "handled")
              /\ \E r \in ProtectedPosts :
                    /\ r.path = q.path
                    /\ \E todo \in r.todos : Handled("POST", q, todo)
              /\ UNCHANGED left
    /\ UNCHANGED server

Respond ==
    /\ At(Server, "respond")
    /\ requests' = [k \in DOMAIN requests |->
          IF requests[k].status = "handled"
          THEN [requests[k] EXCEPT !.status = "answered"] ELSE requests[k]]
    /\ GoesOn(Server)
    /\ UNCHANGED <<runtime, wiki, candidates, lines, search, writes, past, left>>
    /\ UNCHANGED <<server, asked>>

\* The process is gone, and with it every request it had not answered.
ServerEnds ==
    /\ server' = [server EXCEPT !.up = FALSE]
    /\ requests' = [k \in DOMAIN requests |->
          IF requests[k].status \in {"waiting", "handled"}
          THEN [requests[k] EXCEPT !.status = "lost"] ELSE requests[k]]
    /\ UNCHANGED asked

\* A throw in a handler is an unhandled rejection, which ends the process.
HandlerThrew ==
    /\ server.up /\ doing[Server] = Rest /\ Handling
    /\ ServerEnds
    /\ UNCHANGED vars

\* So is a body that is cut off.
BodyFails ==
    /\ server.up /\ Idle /\ left["abort"] > 0
    /\ \E k \in DOMAIN requests : requests[k].status = "waiting"
    /\ left' = [left EXCEPT !["abort"] = @ - 1]
    /\ ServerEnds
    /\ UNCHANGED <<runtime, wiki, candidates, lines, search, doing, writes, past>>

\* The process is stopped: while it handles a request, starts, or waits.
StopServer ==
    \/ /\ (Stop(Server) /\ UNCHANGED workVars) \/ StopInRewrite(Server)
       /\ IF server.up THEN ServerEnds ELSE UNCHANGED servedVars
    \/ /\ server.up /\ Idle /\ left["stop"] > 0
       /\ left' = [left EXCEPT !["stop"] = @ - 1]
       /\ ServerEnds
       /\ UNCHANGED <<runtime, wiki, candidates, lines, search, doing, writes, past>>
       /\ UNCHANGED workVars

ServedInit(root, calls) ==
    /\ WorkInit(root, calls)
    /\ server = [up |-> FALSE, run |-> 0]
    /\ requests = <<>>
    /\ asked = {}

ServedNext ==
    \/ WorkNext /\ UNCHANGED servedVars
    \/ /\ \/ \E a \in Callers : HandleGatewayRequest(a) \/ RunCommandLine(a)
          \/ StartServer \/ Listen
          \/ ArriveGet \/ ArriveWrongMethod \/ ArrivePost \/ ReadBody
          \/ Respond \/ HandlerThrew \/ BodyFails
       /\ UNCHANGED workVars
    \/ StopServer

ServedSpec(root, calls) == ServedInit(root, calls) /\ [][ServedNext]_allVars

-----------------------------------------------------------------------------
(* Properties *)

\* What the server changes for a POST was asked with the cookie and the csrf
\* token of the very run that did it: a restart revokes all earlier tokens, and
\* a request that waited for its body does not outlive it.
RestartRevokes ==
    \A q \in asked : q.via = "server" /\ q.method = "POST" =>
        q.cookie = q.run /\ q.csrf = q.run

\* A form of the settings pages, posted with the tokens of the running server,
\* is not refused for its method.
FormsAnswered ==
    \A k \in DOMAIN requests :
        requests[k].path \in ProtectedPaths /\ requests[k].valid =>
            requests[k].status # "405"
=============================================================================
