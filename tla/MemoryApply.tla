----------------------------- MODULE MemoryApply -----------------------------
(***************************************************************************)
(* The reversible memory apply of GPAO-T:                                   *)
(* src/src/core/memory-candidate-review-queue.js with the candidate file of  *)
(* memory-wiki.js and the ledgers of approval-audit-records.js.              *)
(*                                                                          *)
(* Every call reads and writes whole files synchronously and takes no lock.  *)
(* Several processes (the CLI, the HTTP server, the owner-ops MCP server)    *)
(* run the calls on one directory, so a call is split where another process  *)
(* can come between two of its file accesses, and where a crash leaves the   *)
(* earlier accesses done and the later ones not.                             *)
(*                                                                          *)
(* Abstractions.  A call takes one millisecond of its own (`now`), so the    *)
(* ids that embed it are numbers.  A candidate body is a member of Cand; the *)
(* text scores of a replay are the Boolean `improved`; the references and    *)
(* mode of a replay case are the Boolean `independent`.  A call that is      *)
(* blocked before it writes anything is no step.  Callers pass the records   *)
(* that earlier calls returned, and those are in the queue.                  *)
(***************************************************************************)
EXTENDS ApprovalLedger, SequencesExt

CONSTANTS
    Actors,         \* processes that run calls on the shared directory
    Cand,           \* review candidates with source, principle and reason
    Consent,        \* the approvals the user has given
    None,           \* a null reference
    Kinds,          \* kinds of call that are bounded
    ContractLimit,  \* queue lines the invocation contract reads (500)
    MaxCalls,       \* how many calls of each kind a behaviour makes
    MaxCrashes      \* how many calls a crash cuts short

Targets == {"context_mesh_candidate", "gpao_t_memory_wiki",
            "openclaw_memory", "session_meta"}
Decisions == {"approved", "rejected"}

\* The approval a caller hands over; target id and scope determine each other.
Approvals == [decision : Decisions, candidateId : Cand, target : Targets,
              userTurnRef : {"turn1", "turn2"}]

ASSUME MemoryAssumption ==
    /\ Consent \subseteq Approvals
    /\ None \notin Cand \cup Targets \cup {"turn1", "turn2"}
    /\ Kinds = {"review", "replay", "request", "bridge", "apply",
                "rollback", "foreign"}
    /\ ContractLimit \in Nat \ {0}
    /\ MaxCalls \in [Kinds -> Nat]
    /\ MaxCrashes \in Nat

VARIABLES
    queue,      \* review-queue.jsonl
    tcells,     \* tcell-candidates.jsonl: the applied candidates in it
    now,        \* the millisecond of the next call
    calls,      \* calls made so far, by kind (bounds the model)
    pc,         \* where each process is in its call
    held,       \* the record a process is building and has yet to append
    seen,       \* the candidate file as a process read it
    crashes     \* calls cut short so far (bounds the model)

vars == <<queue, tcells, now, calls, pc, held, seen, crashes, ledgerVars>>

-----------------------------------------------------------------------------
(* Records *)

Recorded(type) == {rec \in ToSet(queue) : rec.recordType = type}

Reviewables   == Recorded("memory_candidate")
Evidence      == Recorded("memory_replay_evidence")
ApplyRequests == Recorded("memory_apply_request")
Bridges       == Recorded("memory_apply_approval_audit")
Applies       == Recorded("memory_reversible_apply")
Rollbacks     == Recorded("memory_reversible_apply_rollback")

Binding(approval) ==
    [candidateId |-> approval.candidateId, target |-> approval.target,
     userTurnRef |-> approval.userTurnRef]

NoBinding == [candidateId |-> None, target |-> None, userTurnRef |-> None]
NoRecord  == [recordType |-> "none"]

\* The candidate an apply writes: not an answer anchor before it is reviewed.
ContextMeshCandidate(r, b, time) ==
    [id |-> time, lifecycle |-> "applied_pending_independent_replay",
     trace |-> [candidateId |-> r.candidateId, applyRequestId |-> r.id,
                approvalRecordId |-> b.approvalRecord.id,
                binding |-> Binding(b.approval)],
     evidenceId |-> 0]

\* Mutant: the review writes a lifecycle no reader knows.
ReviewedCellAsPromoted(cell, evidenceId) ==
    [cell EXCEPT !.lifecycle = "promoted", !.evidenceId = evidenceId]

\* reviewAppliedCandidateLifecycle opens answer_anchor on one candidate.
ReviewedCell(cell, evidenceId) ==
    [cell EXCEPT !.lifecycle = "reviewed", !.evidenceId = evidenceId]

InFile(id) == \E cell \in tcells : cell.id = id

-----------------------------------------------------------------------------
(* One call at a time per process, each with a millisecond of its own. *)

Begin(a, kind) ==
    /\ pc[a] = "idle"
    /\ calls[kind] < MaxCalls[kind]
    /\ calls' = [calls EXCEPT ![kind] = @ + 1]
    /\ now' = now + 1
    /\ UNCHANGED crashes

Continue(a, step) ==
    /\ pc[a] = step
    /\ UNCHANGED <<calls, now, crashes>>

GoTo(a, step, rec, file) ==
    /\ pc' = [pc EXCEPT ![a] = step]
    /\ held' = [held EXCEPT ![a] = rec]
    /\ seen' = [seen EXCEPT ![a] = file]

Return(a) == GoTo(a, "idle", NoRecord, {})
AppendQueueRecord(rec) == queue' = Append(queue, rec)
InCall == UNCHANGED <<pc, held, seen>>

-----------------------------------------------------------------------------
(* Calls that only append one line: candidate, evidence, apply request. *)

AppendMemoryReviewCandidate(a, c) ==
    /\ Begin(a, "review")
    /\ \A rec \in Reviewables : rec.id # c
    /\ AppendQueueRecord([recordType |-> "memory_candidate", id |-> c])
    /\ InCall
    /\ UNCHANGED <<tcells, ledgerVars>>

BuildReplayEvidence(c, improved, independent, time) ==
    [recordType |-> "memory_replay_evidence", id |-> time, candidateId |-> c,
     proven |-> improved /\ independent, reviewed |-> 0]

\* appendMemoryReplayEvidence without an apply record.
AppendMemoryReplayEvidence(a, c, improved, independent) ==
    /\ Begin(a, "replay")
    /\ \E rec \in Reviewables : rec.id = c
    /\ AppendQueueRecord(BuildReplayEvidence(c, improved, independent, now))
    /\ InCall
    /\ UNCHANGED <<tcells, ledgerVars>>

\* Mutant: the proven replay of another candidate will do.
RequestReadyAcrossCandidates(c, e) == e.proven

RequestReady(c, e) == e.proven /\ e.candidateId = c

AppendMemoryApplyRequest(a, c, e, target) ==
    /\ Begin(a, "request")
    /\ \E rec \in Reviewables : rec.id = c
    /\ RequestReady(c, e)
    /\ AppendQueueRecord(
           [recordType |-> "memory_apply_request", id |-> now,
            candidateId |-> c, replayEvidenceId |-> e.id, target |-> target])
    /\ InCall
    /\ UNCHANGED <<tcells, ledgerVars>>

-----------------------------------------------------------------------------
(* appendMemoryApplyApprovalAuditBridge: approval line, audit line, readback,
   bridge line. *)

\* Mutant: a binding is taken for an approval whatever it decided.
BoundToAnyDecision(approval, r) ==
    /\ approval.candidateId = r.candidateId
    /\ approval.target = r.target

\* normalizeExplicitApprovalBinding finds nothing.
BoundTo(approval, r) ==
    /\ approval.decision = "approved"
    /\ approval.candidateId = r.candidateId
    /\ approval.target = r.target

Bridge(r, approval, approvalRecord) ==
    [recordType |-> "memory_apply_approval_audit", applyRequestId |-> r.id,
     approval |-> approval, approvalRecord |-> approvalRecord]

WriteApproval(a, r, approval) ==
    /\ Begin(a, "bridge")
    /\ BoundTo(approval, r)
    /\ LET rec == BuildApprovalRecord(r.id, Binding(approval), Explicit, now)
       IN  /\ AppendApproval(rec)
           /\ GoTo(a, "audit", Bridge(r, approval, rec), {})
    /\ UNCHANGED <<queue, tcells, auditRecords>>

\* The same ledgers are written for proposals that are no memory apply.
WriteForeignApproval(a) ==
    /\ Begin(a, "foreign")
    /\ LET rec == BuildApprovalRecord(0, NoBinding, LocalOnly, now)
       IN  /\ AppendApproval(rec)
           /\ GoTo(a, "audit", [recordType |-> "local_record", approvalRecord |-> rec], {})
    /\ UNCHANGED <<queue, tcells, auditRecords>>

WriteAudit(a) ==
    /\ Continue(a, "audit")
    /\ AppendAudit(BuildAuditRecord(held[a].approvalRecord))
    /\ IF held[a].recordType = "memory_apply_approval_audit"
       THEN GoTo(a, "bridge", held[a], {})
       ELSE Return(a)
    /\ UNCHANGED <<queue, tcells, approvalRecords>>

\* The bridge is recorded when the readback finds the approval; otherwise the
\* call reports "blocked" and leaves both ledger lines behind.
RecordBridge(a) ==
    /\ Continue(a, "bridge")
    /\ IF ReplayReady(held[a].approvalRecord.id)
       THEN AppendQueueRecord(held[a])
       ELSE UNCHANGED queue
    /\ Return(a)
    /\ UNCHANGED <<tcells, ledgerVars>>

-----------------------------------------------------------------------------
(* appendMemoryReversibleApply: validate, candidate line, apply line.  There
   is no check that the request was not applied before. *)

ValidateReversibleApply(r, b) ==
    /\ r.target = "context_mesh_candidate"
    /\ b.applyRequestId = r.id
    /\ b.approval.candidateId = r.candidateId
    /\ b.approval.target = r.target
    /\ ReceiptHolds(b.approvalRecord.id, r.id, Binding(b.approval))

ValidateApply(a, r, b) ==
    /\ Begin(a, "apply")
    /\ ValidateReversibleApply(r, b)
    /\ GoTo(a, "apply_write",
            [recordType |-> "memory_reversible_apply", id |-> now,
             applyRequestId |-> r.id, candidateId |-> r.candidateId,
             cell |-> ContextMeshCandidate(r, b, now)], {})
    /\ UNCHANGED <<queue, tcells, ledgerVars>>

AppendTCellCandidate(a) ==
    /\ Continue(a, "apply_write")
    /\ tcells' = tcells \cup {held[a].cell}
    /\ GoTo(a, "apply_record", held[a], {})
    /\ UNCHANGED <<queue, ledgerVars>>

\* Mutant: the call returns its record without appending it.
RecordApplyNowhere(a) ==
    /\ Continue(a, "apply_record")
    /\ Return(a)
    /\ UNCHANGED <<queue, tcells, ledgerVars>>

RecordApply(a) ==
    /\ Continue(a, "apply_record")
    /\ AppendQueueRecord(held[a])
    /\ Return(a)
    /\ UNCHANGED <<tcells, ledgerVars>>

-----------------------------------------------------------------------------
(* rollbackMemoryReversibleApply: read the file, rewrite it without the
   candidate, rollback line. *)

\* Mutant: the rollback only withdraws the review.
WithoutReview(file, id) ==
    {IF cell.id = id
     THEN [cell EXCEPT !.lifecycle = "applied_pending_independent_replay"]
     ELSE cell : cell \in file}

WithoutCell(file, id) == {cell \in file : cell.id # id}

ReadForRollback(a, x) ==
    /\ Begin(a, "rollback")
    /\ InFile(x.cell.id)
    /\ GoTo(a, "rollback_write",
            [recordType |-> "memory_reversible_apply_rollback", id |-> now,
             applyRecordId |-> x.id, appliedCandidateId |-> x.cell.id], tcells)
    /\ UNCHANGED <<queue, tcells, ledgerVars>>

RewriteWithout(a) ==
    /\ Continue(a, "rollback_write")
    /\ tcells' = WithoutCell(seen[a], held[a].appliedCandidateId)
    /\ GoTo(a, "rollback_record", held[a], {})
    /\ UNCHANGED <<queue, ledgerVars>>

RecordRollback(a) ==
    /\ Continue(a, "rollback_record")
    /\ AppendQueueRecord(held[a])
    /\ Return(a)
    /\ UNCHANGED <<tcells, ledgerVars>>

-----------------------------------------------------------------------------
(* appendMemoryReplayEvidence with an apply record: read the file, rewrite it
   with the candidate reviewed, evidence line. *)

\* reviewAppliedCandidateLifecycle finds nothing.
LifecycleMayBeReviewed(e, x, stage) ==
    /\ x.candidateId = e.candidateId
    /\ e.proven
    /\ stage = "post_apply"
    /\ InFile(x.cell.id)

ReadForReview(a, c, x, improved, independent, stage) ==
    LET e == BuildReplayEvidence(c, improved, independent, now) IN
    /\ Begin(a, "replay")
    /\ \E rec \in Reviewables : rec.id = c
    /\ IF LifecycleMayBeReviewed(e, x, stage)
       THEN /\ GoTo(a, "review_write", [e EXCEPT !.reviewed = x.cell.id], tcells)
            /\ UNCHANGED queue
       ELSE AppendQueueRecord(e) /\ InCall
    /\ UNCHANGED <<tcells, ledgerVars>>

RewriteReviewed(a) ==
    /\ Continue(a, "review_write")
    /\ tcells' = {IF cell.id = held[a].reviewed
                  THEN ReviewedCell(cell, held[a].id) ELSE cell : cell \in seen[a]}
    /\ GoTo(a, "review_record", held[a], {})
    /\ UNCHANGED <<queue, ledgerVars>>

RecordReview(a) ==
    /\ Continue(a, "review_record")
    /\ AppendQueueRecord(held[a])
    /\ Return(a)
    /\ UNCHANGED <<tcells, ledgerVars>>

-----------------------------------------------------------------------------
\* The process dies between two file accesses, or inside a rewrite after
\* writeFileSync truncated the file and before it wrote the new lines.
Crash(a) ==
    /\ pc[a] # "idle"
    /\ crashes < MaxCrashes
    /\ crashes' = crashes + 1
    /\ \/ UNCHANGED tcells
       \/ pc[a] \in {"rollback_write", "review_write"} /\ tcells' = {}
    /\ Return(a)
    /\ UNCHANGED <<queue, now, calls, ledgerVars>>

Init ==
    /\ queue = <<>>
    /\ tcells = {}
    /\ now = 1
    /\ calls = [k \in Kinds |-> 0]
    /\ pc = [a \in Actors |-> "idle"]
    /\ held = [a \in Actors |-> NoRecord]
    /\ seen = [a \in Actors |-> {}]
    /\ crashes = 0
    /\ approvalRecords = <<>>
    /\ auditRecords = <<>>

Start(a) ==
    \/ \E c \in Cand : AppendMemoryReviewCandidate(a, c)
    \/ \E c \in Cand, improved, independent \in BOOLEAN :
        \/ AppendMemoryReplayEvidence(a, c, improved, independent)
        \/ \E x \in Applies, stage \in {"pre_apply", "post_apply"} :
            ReadForReview(a, c, x, improved, independent, stage)
    \/ \E c \in Cand, e \in Evidence, target \in Targets :
        AppendMemoryApplyRequest(a, c, e, target)
    \/ \E r \in ApplyRequests, approval \in Consent : WriteApproval(a, r, approval)
    \/ WriteForeignApproval(a)
    \/ \E r \in ApplyRequests, b \in Bridges : ValidateApply(a, r, b)
    \/ \E x \in Applies : ReadForRollback(a, x)

Resume(a) ==
    \/ WriteAudit(a)
    \/ RecordBridge(a)
    \/ AppendTCellCandidate(a)
    \/ RecordApply(a)
    \/ RewriteWithout(a)
    \/ RecordRollback(a)
    \/ RewriteReviewed(a)
    \/ RecordReview(a)

Next == \E a \in Actors : Start(a) \/ Resume(a) \/ Crash(a)

Spec == Init /\ [][Next]_vars

-----------------------------------------------------------------------------
(* What buildMemoryLocalApplyInvocationContract shows the user. *)

\* The lines readMemoryReviewQueue returns.
ReadLines == {i \in DOMAIN queue : Len(queue) - i < ContractLimit}

\* latestRecord of the lines read, when there is one.
IsLatest(rec) ==
    \E i \in ReadLines :
        /\ queue[i] = rec
        /\ \A j \in ReadLines :
            j > i => queue[j].recordType # rec.recordType

\* Mutant: nothing is offered once anything was rolled back.
CanInvokeFirstRollback(x) ==
    x \in Applies /\ IsLatest(x) /\ Rollbacks = {}

\* activeApplyRecord: the latest apply, unless the latest rollback names it.
CanInvokeRollback(x) ==
    /\ x \in Applies
    /\ IsLatest(x)
    /\ \A y \in Rollbacks : IsLatest(y) => y.applyRecordId # x.id

-----------------------------------------------------------------------------
(* Properties *)

Quiet == \A a \in Actors : pc[a] = "idle"

Lifecycles == {"applied_pending_independent_replay", "reviewed"}
BindingType == [candidateId : Cand, target : Targets,
                userTurnRef : {"turn1", "turn2"}]
RecordIdType == Nat \X Nat
ApprovalRecordType ==
    [id : RecordIdType, proposalId : Nat, confirmationState : {Explicit, LocalOnly},
     expectedEffect : BindingType \cup {NoBinding}]
AuditRecordType ==
    [id : RecordIdType, approvalRecordId : RecordIdType, proposalId : Nat,
     userConfirmationState : {Explicit, LocalOnly},
     expectedEffect : BindingType \cup {NoBinding}]
CellType ==
    [id : Nat, lifecycle : Lifecycles,
     trace : [candidateId : Cand, applyRequestId : Nat,
              approvalRecordId : RecordIdType, binding : BindingType],
     evidenceId : Nat]
EvidenceType ==
    [recordType : {"memory_replay_evidence"}, id : Nat, candidateId : Cand,
     proven : BOOLEAN, reviewed : Nat]
RequestType ==
    [recordType : {"memory_apply_request"}, id : Nat, candidateId : Cand,
     replayEvidenceId : Nat, target : Targets]
BridgeType ==
    [recordType : {"memory_apply_approval_audit"}, applyRequestId : Nat,
     approval : Consent, approvalRecord : ApprovalRecordType]
ApplyType ==
    [recordType : {"memory_reversible_apply"}, id : Nat, applyRequestId : Nat,
     candidateId : Cand, cell : CellType]
RollbackType ==
    [recordType : {"memory_reversible_apply_rollback"}, id : Nat,
     applyRecordId : Nat, appliedCandidateId : Nat]
QueueRecordType ==
    [recordType : {"memory_candidate"}, id : Cand] \cup EvidenceType
    \cup RequestType \cup BridgeType \cup ApplyType \cup RollbackType

\* What a process holds at each point of a call.
HeldType(step) ==
    CASE step = "idle"  -> {NoRecord}
      [] step = "audit" -> BridgeType \cup
            [recordType : {"local_record"}, approvalRecord : ApprovalRecordType]
      [] step = "bridge" -> BridgeType
      [] step \in {"apply_write", "apply_record"} -> ApplyType
      [] step \in {"rollback_write", "rollback_record"} -> RollbackType
      [] step \in {"review_write", "review_record"} -> EvidenceType

Steps == {"idle", "audit", "bridge", "apply_write", "apply_record",
          "rollback_write", "rollback_record", "review_write", "review_record"}

\* Every line of the four files has one of the shapes the code writes, and a
\* process holds what the point of its call says.
TypeOK ==
    /\ queue \in Seq(QueueRecordType)
    /\ approvalRecords \in Seq(ApprovalRecordType)
    /\ auditRecords \in Seq(AuditRecordType)
    /\ tcells \in SUBSET CellType
    /\ now \in Nat
    /\ calls \in [Kinds -> Nat]
    /\ crashes \in Nat
    /\ pc \in [Actors -> Steps]
    /\ DOMAIN held = Actors
    /\ \A a \in Actors : held[a] \in HeldType(pc[a])
    /\ seen \in [Actors -> SUBSET CellType]

\* A candidate's trace leads back to an approval the user gave for this very
\* candidate and target.
Consented(t) ==
    \E approval \in Consent :
        /\ Binding(approval) = t.binding
        /\ approval.decision = "approved"
        /\ approval.candidateId = t.candidateId
        /\ approval.target = "context_mesh_candidate"

\* Both ledgers hold the approval and what it binds.
InLedgers(t) ==
    /\ \E rec \in ToSet(approvalRecords) :
        /\ rec.id = t.approvalRecordId
        /\ rec.proposalId = t.applyRequestId
        /\ rec.confirmationState = Explicit
        /\ rec.expectedEffect = t.binding
    /\ \E rec \in ToSet(auditRecords) :
        /\ rec.approvalRecordId = t.approvalRecordId
        /\ rec.proposalId = t.applyRequestId
        /\ rec.userConfirmationState = Explicit
        /\ rec.expectedEffect = t.binding

\* The request rests on a proven replay of the same candidate.
RequestProven(r) ==
    \E e \in Evidence :
        e.id = r.replayEvidenceId /\ e.proven /\ e.candidateId = r.candidateId

Requested(t) ==
    \E r \in ApplyRequests :
        /\ r.id = t.applyRequestId
        /\ r.candidateId = t.candidateId
        /\ RequestProven(r)

Authorized(cell) ==
    Consented(cell.trace) /\ InLedgers(cell.trace) /\ Requested(cell.trace)

\* Whatever the processes interleave, whoever crashes and however record ids
\* collide, a candidate in the file (appendMemoryReversibleApply) is one the
\* user approved for this candidate and target, with the approval in both
\* ledgers and a proven replay of the same candidate behind its request.
OnlyConsentedCells == \A cell \in tcells : Authorized(cell)

\* Why it is so: requests rest on proven replays, bridges carry approvals that
\* say yes, and no process is about to write, or has read, anything else. This
\* is the inductive invariant behind OnlyConsentedCells.
RequestsProven == \A r \in ApplyRequests : RequestProven(r)

BridgesApproved == \A b \in Bridges : b.approval.decision = "approved"

BridgesInHandApproved ==
    \A a \in Actors :
        held[a].recordType = "memory_apply_approval_audit"
            => held[a].approval.decision = "approved"

AuthorizedInHand ==
    \A a \in Actors :
        /\ \A cell \in seen[a] : Authorized(cell)
        /\ pc[a] = "apply_write" => Authorized(held[a].cell)

ConsentInv ==
    /\ TypeOK
    /\ RequestsProven
    /\ BridgesApproved
    /\ BridgesInHandApproved
    /\ AuthorizedInHand
    /\ OnlyConsentedCells

At(step) == {a \in Actors : pc[a] = step}

\* The candidate line comes before the apply line: a candidate without its
\* apply record, hence without rollback receipt, is one whose call is between
\* the two or was cut short there.
OrphansBounded ==
    Cardinality({cell \in tcells : \A x \in Applies : x.cell # cell /\ x.cell.id # cell.id})
        <= Cardinality(At("apply_record")) + crashes

ReviewRecorded(cell) ==
    \E e \in Evidence :
        /\ e.id = cell.evidenceId
        /\ e.proven
        /\ e.candidateId = cell.trace.candidateId

\* A candidate whose rollback is recorded is not in the file again. True of
\* calls that run one after the other, in a process or across crashes; two
\* processes break it.
RolledBackStaysOut ==
    \A y \in Rollbacks : ~InFile(y.appliedCandidateId)

IsNewestApply(i) ==
    /\ queue[i].recordType = "memory_reversible_apply"
    /\ \A j \in DOMAIN queue : j > i => queue[j].recordType # queue[i].recordType

\* When no call is running and the candidate of the newest apply is in the file,
\* the user is offered its rollback, whatever was applied, rolled back or
\* reviewed before - until ContractLimit later lines push the apply out of what
\* buildMemoryLocalApplyInvocationContract reads: from then on the candidate
\* stays in the file and no rollback of it is offered.
NewestUndoable ==
    Quiet => \A i \in DOMAIN queue :
        IsNewestApply(i) /\ InFile(queue[i].cell.id)
            => (CanInvokeRollback(queue[i]) <=> Len(queue) - i < ContractLimit)

-----------------------------------------------------------------------------
(* The abstract lifecycle. The identity of an application is the millisecond
   of its apply call. *)

Cut(id) == \A a \in At("apply_write") : held[a].cell.id # id

LifecycleOf(id) ==
    IF InFile(id)
    THEN LET cell == CHOOSE c \in tcells : c.id = id
         IN  [state |-> IF cell.lifecycle = "reviewed" THEN "reviewed" ELSE "pending",
              content |-> cell.trace.candidateId]
    ELSE [state |-> IF id < now /\ Cut(id) THEN "gone" ELSE "unused",
          content |-> None]

ConsentedContent(c) ==
    \E approval \in Consent :
        /\ approval.decision = "approved"
        /\ approval.candidateId = c
        /\ approval.target = "context_mesh_candidate"

\* A behaviour has as many milliseconds as calls.
Milliseconds ==
    1 .. MaxCalls["review"] + MaxCalls["replay"] + MaxCalls["request"]
         + MaxCalls["bridge"] + MaxCalls["apply"] + MaxCalls["rollback"]
         + MaxCalls["foreign"]

Lifecycle == INSTANCE CandidateLifecycle WITH
    Ids <- Milliseconds,
    Approved <- ConsentedContent,
    application <- [id \in Milliseconds |-> LifecycleOf(id)]

\* Calls that run one after the other, crashes included, publish a candidate
\* only for approved content, review it only after that, never demote it and
\* never bring back one that is gone.
ImplementsLifecycle == Lifecycle!Spec
=============================================================================

