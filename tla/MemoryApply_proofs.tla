------------------------- MODULE MemoryApply_proofs -------------------------
(***************************************************************************)
(* Theorems about MemoryApply, for any number of processes, candidates,     *)
(* approvals, calls and crashes, and any window and stamp width.            *)
(***************************************************************************)
EXTENDS MemoryApply, SequenceTheorems, FiniteSetTheorems, FunctionTheorems, TLAPS

(***************************************************************************)
(* Files that are only appended to keep their lines.                        *)
(***************************************************************************)

\* Appending a line adds it to the lines of a file and takes none away.
LEMMA AppendedLines ==
    ASSUME NEW S, NEW file \in Seq(S), NEW line \in S
    PROVE  /\ Append(file, line) \in Seq(S)
           /\ ToSet(Append(file, line)) = ToSet(file) \cup {line}
  <1>1. /\ Append(file, line) \in Seq(S)
        /\ Len(Append(file, line)) = Len(file) + 1
        /\ \A i \in 1 .. Len(file) : Append(file, line)[i] = file[i]
        /\ Append(file, line)[Len(file) + 1] = line
    BY AppendProperties
  <1>2. /\ DOMAIN file = 1 .. Len(file)
        /\ Len(file) \in Nat
        /\ DOMAIN Append(file, line) = 1 .. Len(file) + 1
    BY <1>1
  <1>3. ASSUME NEW x \in ToSet(Append(file, line))
        PROVE  x \in ToSet(file) \cup {line}
    BY <1>1, <1>2, <1>3 DEF ToSet
  <1>4. ASSUME NEW x \in ToSet(file) \cup {line}
        PROVE  x \in ToSet(Append(file, line))
    BY <1>1, <1>2, <1>4 DEF ToSet
  <1> QED BY <1>1, <1>3, <1>4

\* The records the calls build have the shapes the files hold.
LEMMA LedgerShapes ==
    ASSUME NEW p \in Nat, NEW effect \in BindingType \cup {NoBinding},
           NEW confirmation \in {Explicit, LocalOnly}, NEW time \in Nat
    PROVE  BuildApprovalRecord(p, effect, confirmation, time) \in ApprovalRecordType
  <1>1. time \div StampWidth \in Nat
    BY LedgerAssumption, SMT
  <1> QED BY <1>1 DEF BuildApprovalRecord, BuildRecordId, ApprovalRecordType, RecordIdType

\* The audit line repeats what the approval line it is built from says.
LEMMA AuditShape ==
    ASSUME NEW rec \in ApprovalRecordType
    PROVE  BuildAuditRecord(rec) \in AuditRecordType
  BY DEF BuildAuditRecord, AuditRecordType, ApprovalRecordType

\* A queue line is of the shape its recordType names.
LEMMA QueueShapes ==
    ASSUME TypeOK
    PROVE  /\ Evidence \subseteq EvidenceType
           /\ ApplyRequests \subseteq RequestType
           /\ Bridges \subseteq BridgeType
           /\ Applies \subseteq ApplyType
  <1>1. \A rec \in ToSet(queue) : rec \in QueueRecordType
    BY DEF TypeOK, ToSet
  <1>2. Evidence \subseteq EvidenceType
    BY <1>1 DEF QueueRecordType, Evidence, Recorded, EvidenceType, RequestType, BridgeType, ApplyType, RollbackType
  <1>3. ApplyRequests \subseteq RequestType
    BY <1>1 DEF QueueRecordType, ApplyRequests, Recorded, EvidenceType, RequestType, BridgeType, ApplyType, RollbackType
  <1>4. Bridges \subseteq BridgeType
    BY <1>1 DEF QueueRecordType, Bridges, Recorded, EvidenceType, RequestType, BridgeType, ApplyType, RollbackType
  <1>5. Applies \subseteq ApplyType
    BY <1>1 DEF QueueRecordType, Applies, Recorded, EvidenceType, RequestType, BridgeType, ApplyType, RollbackType
  <1> QED BY <1>2, <1>3, <1>4, <1>5
(***************************************************************************)
(* Typing.                                                                  *)
(***************************************************************************)

\* What one process is about to hold is all that a step changes of pc, held
\* and seen.
HeldTyped ==
    /\ pc \in [Actors -> Steps]
    /\ DOMAIN held = Actors
    /\ \A a \in Actors : held[a] \in HeldType(pc[a])
    /\ seen \in [Actors -> SUBSET CellType]

\* Moving one process to another point of its call keeps the others in place.
LEMMA GoToTyped ==
    ASSUME HeldTyped, NEW a \in Actors, NEW step \in Steps,
           NEW rec \in HeldType(step), NEW file \in SUBSET CellType,
           GoTo(a, step, rec, file)
    PROVE  HeldTyped'
  <1>1. \A b \in Actors : pc'[b] = IF b = a THEN step ELSE pc[b]
    BY DEF HeldTyped, GoTo
  <1>2. \A b \in Actors : held'[b] = IF b = a THEN rec ELSE held[b]
    BY DEF HeldTyped, GoTo
  <1>3. \A b \in Actors : held'[b] \in HeldType(pc'[b])
    BY <1>1, <1>2 DEF HeldTyped
  <1> QED BY <1>3 DEF HeldTyped, GoTo

\* A process that returns holds nothing.
LEMMA ReturnTyped ==
    ASSUME HeldTyped, NEW a \in Actors, Return(a)
    PROVE  HeldTyped'
  <1>1. NoRecord \in HeldType("idle") /\ "idle" \in Steps
    BY DEF HeldType, Steps
  <1> QED BY <1>1, GoToTyped DEF Return

\* A call of a single append leaves what every process holds alone.
LEMMA InCallTyped ==
    ASSUME HeldTyped, InCall
    PROVE  HeldTyped'
  BY DEF HeldTyped, InCall

\* Appending a record of a known shape keeps the queue in shape.
LEMMA QueueTyped ==
    ASSUME TypeOK, NEW rec \in QueueRecordType, AppendQueueRecord(rec)
    PROVE  queue' \in Seq(QueueRecordType)
  BY AppendedLines DEF TypeOK, AppendQueueRecord

\* The counters only count.
LEMMA CountersTyped ==
    ASSUME TypeOK, NEW a \in Actors,
           \/ \E kind \in Kinds : Begin(a, kind)
           \/ \E step \in Steps : Continue(a, step)
    PROVE  /\ now' \in Nat
           /\ calls' \in [Kinds -> Nat]
           /\ crashes' \in Nat
  BY DEF TypeOK, Begin, Continue

\* What a process holds is known from the point of its call.
LEMMA HeldAt ==
    ASSUME TypeOK, NEW a \in Actors
    PROVE  /\ HeldTyped
           /\ pc[a] = "bridge" => held[a] \in BridgeType
           /\ pc[a] \in {"apply_write", "apply_record"} => held[a] \in ApplyType
           /\ pc[a] \in {"rollback_write", "rollback_record"} => held[a] \in RollbackType
           /\ pc[a] \in {"review_write", "review_record"} => held[a] \in EvidenceType
           /\ seen[a] \in SUBSET CellType
  <1>1. HeldTyped /\ held[a] \in HeldType(pc[a])
    BY DEF TypeOK, HeldTyped
  <1> QED BY <1>1 DEF HeldType, HeldTyped

\* A consented approval binds a candidate, a target and a user turn.
LEMMA BindingTyped ==
    ASSUME NEW approval \in Consent
    PROVE  Binding(approval) \in BindingType
  BY MemoryAssumption DEF Binding, Approvals, BindingType

\* The empty files have the right shape.
LEMMA TypeInit == Init => TypeOK
  BY MemoryAssumption DEF Init, TypeOK, HeldType, Steps

\* Every step keeps every line and every held record in shape.
LEMMA TypeStep == TypeOK /\ [Next]_vars => TypeOK'
  <1> SUFFICES ASSUME TypeOK, [Next]_vars PROVE TypeOK'
    OBVIOUS
  <1> USE QueueShapes
  <1>a. /\ queue \in Seq(QueueRecordType)
        /\ approvalRecords \in Seq(ApprovalRecordType)
        /\ auditRecords \in Seq(AuditRecordType)
        /\ tcells \in SUBSET CellType
        /\ now \in Nat
        /\ calls \in [Kinds -> Nat]
        /\ crashes \in Nat
        /\ HeldTyped
    BY DEF TypeOK, HeldTyped
  <1>k. Kinds = {"review", "replay", "request", "bridge", "apply", "rollback", "foreign"}
    BY MemoryAssumption
  <1>1. ASSUME NEW a \in Actors, NEW c \in Cand, AppendMemoryReviewCandidate(a, c)
        PROVE  TypeOK'
    <2>1. queue' \in Seq(QueueRecordType)
      BY <1>1, QueueTyped DEF AppendMemoryReviewCandidate, QueueRecordType
    <2>2. now' \in Nat /\ calls' \in [Kinds -> Nat] /\ crashes' \in Nat
      BY <1>1, <1>k, CountersTyped DEF AppendMemoryReviewCandidate
    <2>3. HeldTyped'
      BY <1>1, <1>a, InCallTyped DEF AppendMemoryReviewCandidate
    <2> QED BY <1>1, <1>a, <2>1, <2>2, <2>3 DEF AppendMemoryReviewCandidate, ledgerVars, TypeOK, HeldTyped
  <1>e. ASSUME NEW c \in Cand, NEW improved \in BOOLEAN, NEW independent \in BOOLEAN
        PROVE  BuildReplayEvidence(c, improved, independent, now) \in EvidenceType
    BY <1>a DEF BuildReplayEvidence, EvidenceType
  <1>2. ASSUME NEW a \in Actors, NEW c \in Cand, NEW improved \in BOOLEAN, NEW independent \in BOOLEAN,
               AppendMemoryReplayEvidence(a, c, improved, independent)
        PROVE  TypeOK'
    <2>1. queue' \in Seq(QueueRecordType)
      BY <1>2, <1>e, QueueTyped DEF AppendMemoryReplayEvidence, QueueRecordType
    <2>2. now' \in Nat /\ calls' \in [Kinds -> Nat] /\ crashes' \in Nat
      BY <1>2, <1>k, CountersTyped DEF AppendMemoryReplayEvidence
    <2>3. HeldTyped'
      BY <1>2, <1>a, InCallTyped DEF AppendMemoryReplayEvidence
    <2> QED BY <1>2, <1>a, <2>1, <2>2, <2>3 DEF AppendMemoryReplayEvidence, ledgerVars, TypeOK, HeldTyped
  <1>3. ASSUME NEW a \in Actors, NEW c \in Cand, NEW e \in Evidence, NEW target \in Targets,
               AppendMemoryApplyRequest(a, c, e, target)
        PROVE  TypeOK'
    <2>r. [recordType |-> "memory_apply_request", id |-> now, candidateId |-> c,
           replayEvidenceId |-> e.id, target |-> target] \in QueueRecordType
      BY <1>a DEF QueueRecordType, RequestType, EvidenceType
    <2>1. queue' \in Seq(QueueRecordType)
      BY <1>3, <2>r, QueueTyped DEF AppendMemoryApplyRequest
    <2>2. now' \in Nat /\ calls' \in [Kinds -> Nat] /\ crashes' \in Nat
      BY <1>3, <1>k, CountersTyped DEF AppendMemoryApplyRequest
    <2>3. HeldTyped'
      BY <1>3, <1>a, InCallTyped DEF AppendMemoryApplyRequest
    <2> QED BY <1>3, <1>a, <2>1, <2>2, <2>3 DEF AppendMemoryApplyRequest, ledgerVars, TypeOK, HeldTyped
  <1>4. ASSUME NEW a \in Actors, NEW r \in ApplyRequests, NEW approval \in Consent,
               WriteApproval(a, r, approval)
        PROVE  TypeOK'
    <2> DEFINE rec == BuildApprovalRecord(r.id, Binding(approval), Explicit, now)
    <2>r. rec \in ApprovalRecordType
      BY <1>a, BindingTyped, LedgerShapes DEF RequestType
    <2>b. Bridge(r, approval, rec) \in HeldType("audit")
      BY <2>r DEF Bridge, HeldType, BridgeType, RequestType
    <2>1. approvalRecords' \in Seq(ApprovalRecordType)
      BY <1>4, <1>a, <2>r, AppendedLines DEF WriteApproval, AppendApproval
    <2>2. now' \in Nat /\ calls' \in [Kinds -> Nat] /\ crashes' \in Nat
      BY <1>4, <1>k, CountersTyped DEF WriteApproval
    <2>3. HeldTyped'
      <3>1. GoTo(a, "audit", Bridge(r, approval, rec), {})
        BY <1>4 DEF WriteApproval
      <3> QED BY <3>1, <1>a, <2>b, GoToTyped DEF Steps
    <2> QED BY <1>4, <1>a, <2>1, <2>2, <2>3 DEF WriteApproval, TypeOK, HeldTyped
  <1>5. ASSUME NEW a \in Actors, WriteForeignApproval(a)
        PROVE  TypeOK'
    <2> DEFINE rec == BuildApprovalRecord(0, NoBinding, LocalOnly, now)
    <2> DEFINE item == [recordType |-> "local_record", approvalRecord |-> rec]
    <2>r. rec \in ApprovalRecordType
      BY <1>a, LedgerShapes
    <2>b. item \in HeldType("audit")
      BY <2>r DEF HeldType
    <2>1. approvalRecords' \in Seq(ApprovalRecordType)
      BY <1>5, <1>a, <2>r, AppendedLines DEF WriteForeignApproval, AppendApproval
    <2>2. now' \in Nat /\ calls' \in [Kinds -> Nat] /\ crashes' \in Nat
      BY <1>5, <1>k, CountersTyped DEF WriteForeignApproval
    <2>3. HeldTyped'
      <3>1. GoTo(a, "audit", item, {})
        BY <1>5 DEF WriteForeignApproval
      <3> QED BY <3>1, <1>a, <2>b, GoToTyped DEF Steps
    <2> QED BY <1>5, <1>a, <2>1, <2>2, <2>3 DEF WriteForeignApproval, TypeOK, HeldTyped
  <1>6. ASSUME NEW a \in Actors, WriteAudit(a)
        PROVE  TypeOK'
    <2>h. /\ held[a] \in HeldType("audit")
          /\ held[a].approvalRecord \in ApprovalRecordType
          /\ held[a].recordType = "memory_apply_approval_audit" => held[a] \in HeldType("bridge")
      BY <1>6, <1>a DEF WriteAudit, Continue, HeldTyped, HeldType, BridgeType
    <2>1. auditRecords' \in Seq(AuditRecordType)
      BY <1>6, <1>a, <2>h, AuditShape, AppendedLines DEF WriteAudit, AppendAudit
    <2>2. now' \in Nat /\ calls' \in [Kinds -> Nat] /\ crashes' \in Nat
      BY <1>6, CountersTyped DEF WriteAudit, Steps
    <2>3. HeldTyped'
      BY <1>6, <1>a, <2>h, GoToTyped, ReturnTyped DEF WriteAudit, Steps
    <2> QED BY <1>6, <1>a, <2>1, <2>2, <2>3 DEF WriteAudit, TypeOK, HeldTyped
  <1>7. ASSUME NEW a \in Actors, RecordBridge(a)
        PROVE  TypeOK'
    <2>h. held[a] \in QueueRecordType
      BY <1>7, HeldAt DEF RecordBridge, Continue, QueueRecordType
    <2>1. queue' \in Seq(QueueRecordType)
      BY <1>7, <1>a, <2>h, QueueTyped DEF RecordBridge
    <2>2. now' \in Nat /\ calls' \in [Kinds -> Nat] /\ crashes' \in Nat
      BY <1>7, CountersTyped DEF RecordBridge, Steps
    <2>3. HeldTyped'
      BY <1>7, <1>a, ReturnTyped DEF RecordBridge
    <2> QED BY <1>7, <1>a, <2>1, <2>2, <2>3 DEF RecordBridge, ledgerVars, TypeOK, HeldTyped
  <1>8. ASSUME NEW a \in Actors, NEW r \in ApplyRequests, NEW b \in Bridges,
               ValidateApply(a, r, b)
        PROVE  TypeOK'
    <2> DEFINE cell == ContextMeshCandidate(r, b, now)
    <2> DEFINE x == [recordType |-> "memory_reversible_apply", id |-> now,
                     applyRequestId |-> r.id, candidateId |-> r.candidateId,
                     cell |-> cell]
    <2>c. cell \in CellType
      <3>1. Binding(b.approval) \in BindingType
        BY BindingTyped DEF BridgeType
      <3> QED BY <1>a, <3>1 DEF ContextMeshCandidate, CellType, Lifecycles,
                    BridgeType, ApprovalRecordType, RequestType
    <2>x. x \in HeldType("apply_write")
      BY <1>a, <2>c DEF HeldType, ApplyType, RequestType
    <2>2. now' \in Nat /\ calls' \in [Kinds -> Nat] /\ crashes' \in Nat
      BY <1>8, <1>k, CountersTyped DEF ValidateApply
    <2>3. HeldTyped'
      <3>1. GoTo(a, "apply_write", x, {})
        BY <1>8 DEF ValidateApply
      <3> QED BY <3>1, <1>a, <2>x, GoToTyped DEF Steps
    <2> QED BY <1>8, <1>a, <2>2, <2>3 DEF ValidateApply, ledgerVars, TypeOK, HeldTyped
  <1>9. ASSUME NEW a \in Actors, AppendTCellCandidate(a)
        PROVE  TypeOK'
    <2>h. held[a] \in HeldType("apply_record") /\ held[a].cell \in CellType
      BY <1>9, HeldAt DEF AppendTCellCandidate, Continue, HeldType, ApplyType
    <2>2. now' \in Nat /\ calls' \in [Kinds -> Nat] /\ crashes' \in Nat
      BY <1>9, CountersTyped DEF AppendTCellCandidate, Steps
    <2>3. HeldTyped'
      BY <1>9, <1>a, <2>h, GoToTyped DEF AppendTCellCandidate, Steps
    <2> QED BY <1>9, <1>a, <2>h, <2>2, <2>3 DEF AppendTCellCandidate, ledgerVars, TypeOK, HeldTyped
  <1>10. ASSUME NEW a \in Actors, RecordApply(a)
         PROVE  TypeOK'
    <2>1. queue' \in Seq(QueueRecordType)
      BY <1>10, HeldAt, QueueTyped DEF RecordApply, Continue, QueueRecordType
    <2>2. now' \in Nat /\ calls' \in [Kinds -> Nat] /\ crashes' \in Nat
      BY <1>10, CountersTyped DEF RecordApply, Steps
    <2>3. HeldTyped'
      BY <1>10, <1>a, ReturnTyped DEF RecordApply
    <2> QED BY <1>10, <1>a, <2>1, <2>2, <2>3 DEF RecordApply, ledgerVars, TypeOK, HeldTyped
  <1>11. ASSUME NEW a \in Actors, NEW x \in Applies, ReadForRollback(a, x)
         PROVE  TypeOK'
    <2> DEFINE y == [recordType |-> "memory_reversible_apply_rollback", id |-> now,
                     applyRecordId |-> x.id, appliedCandidateId |-> x.cell.id]
    <2>y. y \in HeldType("rollback_write")
      BY <1>a DEF HeldType, RollbackType, ApplyType, CellType
    <2>2. now' \in Nat /\ calls' \in [Kinds -> Nat] /\ crashes' \in Nat
      BY <1>11, <1>k, CountersTyped DEF ReadForRollback
    <2>3. HeldTyped'
      <3>1. GoTo(a, "rollback_write", y, tcells)
        BY <1>11 DEF ReadForRollback
      <3> QED BY <3>1, <1>a, <2>y, GoToTyped DEF Steps
    <2> QED BY <1>11, <1>a, <2>2, <2>3 DEF ReadForRollback, ledgerVars, TypeOK, HeldTyped
  <1>12. ASSUME NEW a \in Actors, RewriteWithout(a)
         PROVE  TypeOK'
    <2>h. held[a] \in HeldType("rollback_record") /\ seen[a] \in SUBSET CellType
      BY <1>12, HeldAt DEF RewriteWithout, Continue, HeldType
    <2>2. now' \in Nat /\ calls' \in [Kinds -> Nat] /\ crashes' \in Nat
      BY <1>12, CountersTyped DEF RewriteWithout, Steps
    <2>3. HeldTyped'
      BY <1>12, <1>a, <2>h, GoToTyped DEF RewriteWithout, Steps
    <2> QED BY <1>12, <1>a, <2>h, <2>2, <2>3 DEF RewriteWithout, WithoutCell, ledgerVars, TypeOK, HeldTyped
  <1>13. ASSUME NEW a \in Actors, RecordRollback(a)
         PROVE  TypeOK'
    <2>1. queue' \in Seq(QueueRecordType)
      BY <1>13, HeldAt, QueueTyped DEF RecordRollback, Continue, QueueRecordType
    <2>2. now' \in Nat /\ calls' \in [Kinds -> Nat] /\ crashes' \in Nat
      BY <1>13, CountersTyped DEF RecordRollback, Steps
    <2>3. HeldTyped'
      BY <1>13, <1>a, ReturnTyped DEF RecordRollback
    <2> QED BY <1>13, <1>a, <2>1, <2>2, <2>3 DEF RecordRollback, ledgerVars, TypeOK, HeldTyped
  <1>14. ASSUME NEW a \in Actors, NEW c \in Cand, NEW x \in Applies, NEW improved \in BOOLEAN,
                NEW independent \in BOOLEAN, NEW stage \in {"pre_apply", "post_apply"},
                ReadForReview(a, c, x, improved, independent, stage)
         PROVE  TypeOK'
    <2> DEFINE e == BuildReplayEvidence(c, improved, independent, now)
    <2> DEFINE named == [e EXCEPT !.reviewed = x.cell.id]
    <2>e. e \in EvidenceType
      BY <1>e
    <2>n. named \in HeldType("review_write")
      <3>1. x.cell.id \in Nat
        BY DEF ApplyType, CellType
      <3> HIDE DEF e
      <3> QED BY <2>e, <3>1 DEF HeldType, EvidenceType
    <2>2. now' \in Nat /\ calls' \in [Kinds -> Nat] /\ crashes' \in Nat
      BY <1>14, <1>k, CountersTyped DEF ReadForReview
    <2>3. CASE LifecycleMayBeReviewed(e, x, stage)
      <3>1. GoTo(a, "review_write", named, tcells) /\ queue' = queue
        BY <1>14, <2>3 DEF ReadForReview
      <3>2. HeldTyped'
        BY <3>1, <1>a, <2>n, GoToTyped DEF Steps
      <3> QED BY <1>14, <1>a, <2>2, <3>1, <3>2 DEF ReadForReview, ledgerVars, TypeOK, HeldTyped
    <2>4. CASE ~LifecycleMayBeReviewed(e, x, stage)
      <3>1. AppendQueueRecord(e) /\ InCall
        BY <1>14, <2>4 DEF ReadForReview
      <3>2. queue' \in Seq(QueueRecordType)
        BY <3>1, <2>e, QueueTyped DEF QueueRecordType
      <3>3. HeldTyped'
        BY <3>1, <1>a, InCallTyped
      <3> QED BY <1>14, <1>a, <2>2, <3>2, <3>3 DEF ReadForReview, ledgerVars, TypeOK, HeldTyped
    <2> QED BY <2>3, <2>4
  <1>15. ASSUME NEW a \in Actors, RewriteReviewed(a)
         PROVE  TypeOK'
    <2>h. /\ held[a] \in HeldType("review_record")
          /\ held[a].id \in Nat
          /\ seen[a] \in SUBSET CellType
      BY <1>15, HeldAt DEF RewriteReviewed, Continue, HeldType, EvidenceType
    <2>1. tcells' \in SUBSET CellType
      <3>1. \A cell \in seen[a] : ReviewedCell(cell, held[a].id) \in CellType
        BY <2>h DEF ReviewedCell, CellType, Lifecycles
      <3> QED BY <1>15, <2>h, <3>1 DEF RewriteReviewed
    <2>2. now' \in Nat /\ calls' \in [Kinds -> Nat] /\ crashes' \in Nat
      BY <1>15, CountersTyped DEF RewriteReviewed, Steps
    <2>3. HeldTyped'
      BY <1>15, <1>a, <2>h, GoToTyped DEF RewriteReviewed, Steps
    <2> QED BY <1>15, <1>a, <2>1, <2>2, <2>3 DEF RewriteReviewed, ledgerVars, TypeOK, HeldTyped
  <1>16. ASSUME NEW a \in Actors, RecordReview(a)
         PROVE  TypeOK'
    <2>1. queue' \in Seq(QueueRecordType)
      BY <1>16, HeldAt, QueueTyped DEF RecordReview, Continue, QueueRecordType
    <2>2. now' \in Nat /\ calls' \in [Kinds -> Nat] /\ crashes' \in Nat
      BY <1>16, CountersTyped DEF RecordReview, Steps
    <2>3. HeldTyped'
      BY <1>16, <1>a, ReturnTyped DEF RecordReview
    <2> QED BY <1>16, <1>a, <2>1, <2>2, <2>3 DEF RecordReview, ledgerVars, TypeOK, HeldTyped
  <1>17. ASSUME NEW a \in Actors, Crash(a)
         PROVE  TypeOK'
    <2>1. HeldTyped'
      BY <1>17, <1>a, ReturnTyped DEF Crash
    <2> QED BY <1>17, <1>a, <2>1 DEF Crash, ledgerVars, TypeOK, HeldTyped
  <1>18. CASE UNCHANGED vars
    BY <1>18 DEF vars, ledgerVars, TypeOK
  <1> QED
    BY <1>1, <1>2, <1>3, <1>4, <1>5, <1>6, <1>7, <1>8, <1>9, <1>10, <1>11, <1>12,
       <1>13, <1>14, <1>15, <1>16, <1>17, <1>18 DEF Next, Start, Resume

\* Every line of the four files keeps one of the shapes the code writes.
THEOREM Typing == Spec => []TypeOK
  BY TypeInit, TypeStep, PTL DEF Spec

(***************************************************************************)
(* Consent.                                                                 *)
(***************************************************************************)

\* The queue and the ledgers only grow.
Grown ==
    /\ ToSet(queue) \subseteq ToSet(queue')
    /\ ToSet(approvalRecords) \subseteq ToSet(approvalRecords')
    /\ ToSet(auditRecords) \subseteq ToSet(auditRecords')

\* What authorizes a candidate stays, since it is in files that only grow.
LEMMA AuthorizedStays ==
    ASSUME Grown, NEW cell, Authorized(cell)
    PROVE  Authorized(cell)'
  <1>1. /\ Evidence \subseteq Evidence'
        /\ ApplyRequests \subseteq ApplyRequests'
    BY DEF Grown, Evidence, ApplyRequests, Recorded
  <1>2. InLedgers(cell.trace)'
    BY DEF Grown, Authorized, InLedgers
  <1>3. Requested(cell.trace)'
    BY <1>1 DEF Authorized, Requested, RequestProven
  <1> QED BY <1>2, <1>3 DEF Authorized, Consented

\* A proven replay behind a request stays in the queue.
LEMMA ProvenStays ==
    ASSUME Grown, NEW r, RequestProven(r)
    PROVE  RequestProven(r)'
  BY DEF Grown, RequestProven, Evidence, Recorded

\* A queue append that is no request and no bridge, or no append at all,
\* disturbs neither of them.
LEMMA QueueGrows ==
    ASSUME TypeOK, NEW rec \in QueueRecordType, AppendQueueRecord(rec)
    PROVE  /\ ToSet(queue') = ToSet(queue) \cup {rec}
           /\ ApplyRequests' = ApplyRequests \cup
                (IF rec.recordType = "memory_apply_request" THEN {rec} ELSE {})
           /\ Bridges' = Bridges \cup
                (IF rec.recordType = "memory_apply_approval_audit" THEN {rec} ELSE {})
  <1>1. ToSet(queue') = ToSet(queue) \cup {rec}
    BY AppendedLines DEF TypeOK, AppendQueueRecord
  <1> QED BY <1>1 DEF ApplyRequests, Bridges, Recorded

\* A candidate that is authorized before a step is authorized after it.
Lasting == \A cell : Authorized(cell) => Authorized(cell)'

\* Growing files keep every candidate authorized that was.
LEMMA GrownLasts == Grown => Lasting
  BY AuthorizedStays DEF Lasting

\* The parts of the invariant about what processes hold.
InHand == BridgesInHandApproved /\ AuthorizedInHand

\* A process may pick up an authorized candidate file, an authorized apply
\* and an approved bridge without disturbing what the others hold.
LEMMA GoToInHand ==
    ASSUME HeldTyped, InHand, Lasting,
           NEW a \in Actors, NEW step \in Steps, NEW rec, NEW file,
           GoTo(a, step, rec, file),
           \A cell \in file : Authorized(cell),
           step = "apply_write" => Authorized(rec.cell),
           rec.recordType = "memory_apply_approval_audit" => rec.approval.decision = "approved"
    PROVE  InHand'
  <1>1. \A b \in Actors : /\ pc'[b] = IF b = a THEN step ELSE pc[b]
                          /\ held'[b] = IF b = a THEN rec ELSE held[b]
                          /\ seen'[b] = IF b = a THEN file ELSE seen[b]
    BY DEF HeldTyped, GoTo
  <1>2. BridgesInHandApproved'
    BY <1>1 DEF InHand, BridgesInHandApproved
  <1>3. ASSUME NEW b \in Actors
        PROVE  \A cell \in seen'[b] : Authorized(cell)'
    BY <1>1 DEF InHand, AuthorizedInHand, Lasting
  <1>4. ASSUME NEW b \in Actors, pc'[b] = "apply_write"
        PROVE  Authorized(held[b].cell)'
    <2> DEFINE cell == IF b = a THEN rec.cell ELSE held[b].cell
    <2>1. held'[b].cell = cell /\ Authorized(cell)
      BY <1>1, <1>4 DEF InHand, AuthorizedInHand
    <2>2. PICK c : c = cell
      OBVIOUS
    <2>3. Authorized(c)'
      BY <2>1, <2>2 DEF Lasting
    <2>4. held'[b].cell = c
      BY <2>1, <2>2
    <2> QED BY <2>3, <2>4 DEF Authorized, Consented, InLedgers, Requested
  <1>5. AuthorizedInHand'
    BY <1>3, <1>4 DEF AuthorizedInHand
  <1> QED BY <1>2, <1>5 DEF InHand

\* A process that returns drops what it held.
LEMMA ReturnInHand ==
    ASSUME HeldTyped, InHand, Lasting, NEW a \in Actors, Return(a)
    PROVE  InHand'
  <1>1. NoRecord.recordType # "memory_apply_approval_audit" /\ "idle" \in Steps
    BY DEF NoRecord, Steps
  <1>2. GoTo(a, "idle", NoRecord, {})
    BY DEF Return
  <1> QED BY <1>1, <1>2, GoToInHand

\* A call of a single append disturbs nothing in hand.
LEMMA InCallInHand ==
    ASSUME HeldTyped, InHand, Lasting, InCall
    PROVE  InHand'
  <1>1. BridgesInHandApproved'
    BY DEF InHand, BridgesInHandApproved, InCall
  <1>2. ASSUME NEW b \in Actors, pc[b] = "apply_write"
        PROVE  Authorized(held[b].cell)'
    <2>1. PICK c : c = held[b].cell
      OBVIOUS
    <2>2. Authorized(c)' /\ held'[b].cell = c
      BY <1>2, <2>1 DEF InHand, AuthorizedInHand, Lasting, InCall
    <2> QED BY <2>2 DEF Authorized, Consented, InLedgers, Requested
  <1>3. AuthorizedInHand'
    BY <1>2 DEF InHand, AuthorizedInHand, Lasting, InCall
  <1> QED BY <1>1, <1>3 DEF InHand

\* What a line appended to the queue has to satisfy.
Sound(rec) ==
    /\ rec.recordType = "memory_apply_request" => RequestProven(rec)
    /\ rec.recordType = "memory_apply_approval_audit" => rec.approval.decision = "approved"

OnlyAppends ==
    /\ \/ UNCHANGED queue
       \/ \E rec \in QueueRecordType : AppendQueueRecord(rec) /\ Sound(rec)
    /\ UNCHANGED approvalRecords \/ \E rec \in ApprovalRecordType : AppendApproval(rec)
    /\ UNCHANGED auditRecords \/ \E rec \in AuditRecordType : AppendAudit(rec)

\* A step that leaves the candidate file alone and appends at most one queue
\* line keeps the invariant, if a request it appends is proven and a bridge approved.
LEMMA AppendsKeep ==
    ASSUME TypeOK, RequestsProven, BridgesApproved, OnlyAppends
    PROVE  Lasting /\ RequestsProven' /\ BridgesApproved'
  <1>1. ToSet(queue) \subseteq ToSet(queue')
    BY QueueGrows DEF OnlyAppends
  <1>2. ToSet(approvalRecords) \subseteq ToSet(approvalRecords')
    <2>1. approvalRecords \in Seq(ApprovalRecordType)
      BY DEF TypeOK
    <2>2. CASE UNCHANGED approvalRecords
      BY <2>2
    <2>3. ASSUME NEW rec \in ApprovalRecordType, AppendApproval(rec)
          PROVE  ToSet(approvalRecords) \subseteq ToSet(approvalRecords')
      <3>1. ToSet(Append(approvalRecords, rec)) = ToSet(approvalRecords) \cup {rec}
        BY <2>1, AppendedLines
      <3> QED BY <2>3, <3>1 DEF AppendApproval
    <2> QED BY <2>2, <2>3 DEF OnlyAppends
  <1>3. ToSet(auditRecords) \subseteq ToSet(auditRecords')
    <2>1. auditRecords \in Seq(AuditRecordType)
      BY DEF TypeOK
    <2>2. CASE UNCHANGED auditRecords
      BY <2>2
    <2>3. ASSUME NEW rec \in AuditRecordType, AppendAudit(rec)
          PROVE  ToSet(auditRecords) \subseteq ToSet(auditRecords')
      <3>1. ToSet(Append(auditRecords, rec)) = ToSet(auditRecords) \cup {rec}
        BY <2>1, AppendedLines
      <3> QED BY <2>3, <3>1 DEF AppendAudit
    <2> QED BY <2>2, <2>3 DEF OnlyAppends
  <1>4. Grown
    BY <1>1, <1>2, <1>3 DEF Grown
  <1>5. CASE UNCHANGED queue
    <2>1. ApplyRequests' = ApplyRequests /\ Bridges' = Bridges
      BY <1>5 DEF ApplyRequests, Bridges, Recorded
    <2> QED BY <1>4, <2>1, GrownLasts, ProvenStays DEF RequestsProven, BridgesApproved
  <1>6. ASSUME NEW rec \in QueueRecordType, AppendQueueRecord(rec), Sound(rec)
        PROVE  RequestsProven' /\ BridgesApproved'
    <2>1. \A r \in ApplyRequests' : RequestProven(r)
      BY <1>6, QueueGrows DEF RequestsProven, Sound
    <2>2. RequestsProven'
      BY <1>4, <2>1, ProvenStays DEF RequestsProven
    <2> QED BY <1>6, <2>2, QueueGrows DEF BridgesApproved, Sound
  <1> QED BY <1>4, <1>5, <1>6, GrownLasts DEF OnlyAppends

\* The approval a bridge carries, the ledgers read back and the replay behind
\* the request are what authorizes the candidate an apply is about to write.
LEMMA ValidatedIsAuthorized ==
    ASSUME TypeOK, RequestsProven, BridgesApproved,
           NEW r \in ApplyRequests, NEW b \in Bridges, NEW time,
           ValidateReversibleApply(r, b)
    PROVE  Authorized(ContextMeshCandidate(r, b, time))
  <1> DEFINE t == ContextMeshCandidate(r, b, time).trace
  <1>1. /\ t.candidateId = r.candidateId
        /\ t.applyRequestId = r.id
        /\ t.approvalRecordId = b.approvalRecord.id
        /\ t.binding = Binding(b.approval)
    BY DEF ContextMeshCandidate
  <1> HIDE DEF t
  <1>2. Consented(t)
    <2>1. b.approval \in Consent
      BY QueueShapes DEF BridgeType
    <2> QED BY <1>1, <2>1 DEF Consented, ValidateReversibleApply, BridgesApproved
  <1>3. InLedgers(t)
    <2>1. ReceiptHolds(b.approvalRecord.id, r.id, Binding(b.approval))
      BY DEF ValidateReversibleApply
    <2> QED BY <1>1, <2>1 DEF ReceiptHolds, InLedgers, IsNewest, ToSet
  <1>4. Requested(t)
    BY <1>1 DEF Requested, RequestsProven
  <1> QED BY <1>2, <1>3, <1>4 DEF Authorized, t

\* With nothing in the files nothing is unauthorized.
LEMMA ConsentInit == Init => ConsentInv
  <1> SUFFICES ASSUME Init PROVE ConsentInv
    OBVIOUS
  <1>1. ToSet(queue) = {}
    BY DEF Init, ToSet
  <1> QED BY <1>1, TypeInit DEF Init, ConsentInv, RequestsProven, BridgesApproved, ApplyRequests,
             Bridges, Recorded, BridgesInHandApproved, NoRecord, AuthorizedInHand, OnlyConsentedCells

\* No step puts a candidate in the file that the user did not approve.
LEMMA ConsentStep == ConsentInv /\ [Next]_vars => ConsentInv'
  <1> SUFFICES ASSUME ConsentInv, [Next]_vars PROVE ConsentInv'
    OBVIOUS
  <1> DEFINE Kept == OnlyAppends /\ InHand' /\ OnlyConsentedCells'
  <1>i. TypeOK /\ RequestsProven /\ BridgesApproved /\ InHand /\ OnlyConsentedCells
    BY DEF ConsentInv, InHand
  <1>h. HeldTyped
    BY <1>i DEF TypeOK, HeldTyped
  <1>s. QueueRecordType = [recordType : {"memory_candidate"}, id : Cand] \cup EvidenceType
           \cup RequestType \cup BridgeType \cup ApplyType \cup RollbackType
    BY DEF QueueRecordType
  <1>k. SUFFICES Kept
    <2>1. Lasting /\ RequestsProven' /\ BridgesApproved'
      BY <1>i, <1>k, AppendsKeep
    <2>2. TypeOK'
      BY <1>i, TypeStep
    <2> QED BY <1>k, <2>1, <2>2 DEF ConsentInv, InHand
  <1>l. OnlyAppends => Lasting
    BY <1>i, AppendsKeep
  <1>u. OnlyAppends /\ UNCHANGED tcells => OnlyConsentedCells'
    BY <1>i, <1>l DEF Lasting, OnlyConsentedCells
  <1>e. ASSUME NEW c \in Cand, NEW improved \in BOOLEAN, NEW independent \in BOOLEAN
        PROVE  LET e == BuildReplayEvidence(c, improved, independent, now)
               IN  e \in EvidenceType /\ Sound(e)
    BY <1>i DEF BuildReplayEvidence, EvidenceType, Sound, TypeOK
  <1>1. ASSUME NEW a \in Actors, NEW c \in Cand, AppendMemoryReviewCandidate(a, c)
        PROVE  Kept
    <2>1. OnlyAppends
      BY <1>1, <1>s DEF AppendMemoryReviewCandidate, OnlyAppends, Sound, ledgerVars
    <2> QED BY <1>1, <2>1, <1>h, <1>i, <1>l, <1>u, InCallInHand DEF AppendMemoryReviewCandidate
  <1>2. ASSUME NEW a \in Actors, NEW c \in Cand, NEW improved \in BOOLEAN, NEW independent \in BOOLEAN,
               AppendMemoryReplayEvidence(a, c, improved, independent)
        PROVE  Kept
    <2>1. OnlyAppends
      BY <1>2, <1>e, <1>s DEF AppendMemoryReplayEvidence, OnlyAppends, ledgerVars
    <2> QED BY <1>2, <2>1, <1>h, <1>i, <1>l, <1>u, InCallInHand DEF AppendMemoryReplayEvidence
  <1>3. ASSUME NEW a \in Actors, NEW c \in Cand, NEW e \in Evidence, NEW target \in Targets,
               AppendMemoryApplyRequest(a, c, e, target)
        PROVE  Kept
    <2> DEFINE r == [recordType |-> "memory_apply_request", id |-> now, candidateId |-> c,
                     replayEvidenceId |-> e.id, target |-> target]
    <2>1. r \in QueueRecordType
      BY <1>i, <1>s, QueueShapes DEF RequestType, EvidenceType, TypeOK
    <2>2. Sound(r)
      BY <1>3 DEF Sound, RequestProven, RequestReady, AppendMemoryApplyRequest
    <2>3. OnlyAppends
      BY <1>3, <2>1, <2>2 DEF AppendMemoryApplyRequest, OnlyAppends, ledgerVars
    <2> QED BY <1>3, <2>3, <1>h, <1>i, <1>l, <1>u, InCallInHand DEF AppendMemoryApplyRequest
  <1>4. ASSUME NEW a \in Actors, NEW r \in ApplyRequests, NEW approval \in Consent,
               WriteApproval(a, r, approval)
        PROVE  Kept
    <2> DEFINE rec == BuildApprovalRecord(r.id, Binding(approval), Explicit, now)
    <2>1. rec \in ApprovalRecordType
      BY <1>i, BindingTyped, LedgerShapes, QueueShapes DEF RequestType, TypeOK
    <2>2. OnlyAppends
      BY <1>4, <2>1 DEF WriteApproval, OnlyAppends
    <2>3. GoTo(a, "audit", Bridge(r, approval, rec), {})
      BY <1>4 DEF WriteApproval
    <2>4. Bridge(r, approval, rec).approval.decision = "approved"
      BY <1>4 DEF WriteApproval, BoundTo, Bridge
    <2>5. InHand'
      BY <2>2, <2>3, <2>4, <1>h, <1>i, <1>l, GoToInHand DEF Steps
    <2> QED BY <1>4, <2>2, <2>5, <1>u DEF WriteApproval
  <1>5. ASSUME NEW a \in Actors, WriteForeignApproval(a)
        PROVE  Kept
    <2> DEFINE rec == BuildApprovalRecord(0, NoBinding, LocalOnly, now)
    <2> DEFINE item == [recordType |-> "local_record", approvalRecord |-> rec]
    <2>1. rec \in ApprovalRecordType
      BY <1>i, LedgerShapes DEF TypeOK
    <2>2. OnlyAppends
      BY <1>5, <2>1 DEF WriteForeignApproval, OnlyAppends
    <2>3. GoTo(a, "audit", item, {}) /\ item.recordType # "memory_apply_approval_audit"
      BY <1>5 DEF WriteForeignApproval
    <2>4. InHand'
      BY <2>2, <2>3, <1>h, <1>i, <1>l, GoToInHand DEF Steps
    <2> QED BY <1>5, <2>2, <2>4, <1>u DEF WriteForeignApproval
  <1>6. ASSUME NEW a \in Actors, WriteAudit(a)
        PROVE  Kept
    <2>1. held[a].approvalRecord \in ApprovalRecordType
      BY <1>6, <1>h DEF WriteAudit, Continue, HeldTyped, HeldType, BridgeType
    <2>2. OnlyAppends
      BY <1>6, <2>1, AuditShape DEF WriteAudit, OnlyAppends
    <2>3. InHand'
      <3>1. CASE Return(a)
        BY <2>2, <3>1, <1>h, <1>i, <1>l, ReturnInHand
      <3>2. CASE GoTo(a, "bridge", held[a], {})
        <4>1. held[a].recordType = "memory_apply_approval_audit" => held[a].approval.decision = "approved"
          BY <1>i DEF InHand, BridgesInHandApproved
        <4> QED BY <2>2, <3>2, <4>1, <1>h, <1>i, <1>l, GoToInHand DEF Steps
      <3> QED BY <1>6, <3>1, <3>2 DEF WriteAudit
    <2> QED BY <1>6, <2>2, <2>3, <1>u DEF WriteAudit
  <1>7. ASSUME NEW a \in Actors, RecordBridge(a)
        PROVE  Kept
    <2>1. held[a] \in BridgeType /\ Sound(held[a])
      <3>1. held[a] \in BridgeType
        BY <1>7, <1>i, HeldAt DEF RecordBridge, Continue
      <3> QED BY <3>1, <1>i DEF BridgeType, Sound, InHand, BridgesInHandApproved
    <2>2. OnlyAppends
      BY <1>7, <2>1, <1>s DEF RecordBridge, OnlyAppends, ledgerVars
    <2> QED BY <1>7, <2>2, <1>h, <1>i, <1>l, <1>u, ReturnInHand DEF RecordBridge
  <1>8. ASSUME NEW a \in Actors, NEW r \in ApplyRequests, NEW b \in Bridges,
               ValidateApply(a, r, b)
        PROVE  Kept
    <2> DEFINE x == [recordType |-> "memory_reversible_apply", id |-> now,
                     applyRequestId |-> r.id, candidateId |-> r.candidateId,
                     cell |-> ContextMeshCandidate(r, b, now)]
    <2>1. Authorized(x.cell) /\ x.recordType # "memory_apply_approval_audit"
      BY <1>8, <1>i, ValidatedIsAuthorized DEF ValidateApply
    <2>2. OnlyAppends
      BY <1>8 DEF ValidateApply, OnlyAppends, ledgerVars
    <2>3. GoTo(a, "apply_write", x, {})
      BY <1>8 DEF ValidateApply
    <2> HIDE DEF x
    <2>4. InHand'
      BY <2>1, <2>2, <2>3, <1>h, <1>i, <1>l, GoToInHand DEF Steps
    <2> QED BY <1>8, <2>2, <2>4, <1>u DEF ValidateApply
  <1>9. ASSUME NEW a \in Actors, AppendTCellCandidate(a)
        PROVE  Kept
    <2>1. OnlyAppends
      BY <1>9 DEF AppendTCellCandidate, OnlyAppends, ledgerVars
    <2>2. Authorized(held[a].cell) /\ held[a] \in ApplyType
      BY <1>9, <1>i, HeldAt DEF AppendTCellCandidate, Continue, InHand, AuthorizedInHand
    <2>3. OnlyConsentedCells'
      BY <1>9, <2>1, <2>2, <1>i, <1>l DEF AppendTCellCandidate, Lasting, OnlyConsentedCells
    <2>4. InHand'
      BY <1>9, <2>1, <2>2, <1>h, <1>i, <1>l, GoToInHand DEF AppendTCellCandidate, Steps, ApplyType
    <2> QED BY <2>1, <2>3, <2>4
  <1>10. ASSUME NEW a \in Actors, RecordApply(a)
         PROVE  Kept
    <2>1. held[a] \in ApplyType
      BY <1>10, <1>i, HeldAt DEF RecordApply, Continue
    <2>2. OnlyAppends
      BY <1>10, <2>1, <1>s DEF RecordApply, OnlyAppends, Sound, ApplyType, ledgerVars
    <2> QED BY <1>10, <2>2, <1>h, <1>i, <1>l, <1>u, ReturnInHand DEF RecordApply
  <1>11. ASSUME NEW a \in Actors, NEW x \in Applies, ReadForRollback(a, x)
         PROVE  Kept
    <2> DEFINE y == [recordType |-> "memory_reversible_apply_rollback", id |-> now,
                     applyRecordId |-> x.id, appliedCandidateId |-> x.cell.id]
    <2>1. OnlyAppends
      BY <1>11 DEF ReadForRollback, OnlyAppends, ledgerVars
    <2>2. GoTo(a, "rollback_write", y, tcells) /\ y.recordType # "memory_apply_approval_audit"
      BY <1>11 DEF ReadForRollback
    <2> HIDE DEF y
    <2>3. InHand'
      BY <2>1, <2>2, <1>h, <1>i, <1>l, GoToInHand DEF Steps, OnlyConsentedCells
    <2> QED BY <1>11, <2>1, <2>3, <1>u DEF ReadForRollback
  <1>12. ASSUME NEW a \in Actors, RewriteWithout(a)
         PROVE  Kept
    <2>1. OnlyAppends
      BY <1>12 DEF RewriteWithout, OnlyAppends, ledgerVars
    <2>2. held[a] \in RollbackType
      BY <1>12, <1>i, HeldAt DEF RewriteWithout, Continue
    <2>3. OnlyConsentedCells'
      BY <1>12, <2>1, <1>i, <1>l DEF RewriteWithout, WithoutCell, Lasting, OnlyConsentedCells,
         InHand, AuthorizedInHand
    <2>4. InHand'
      BY <1>12, <2>1, <2>2, <1>h, <1>i, <1>l, GoToInHand DEF RewriteWithout, Steps, RollbackType
    <2> QED BY <2>1, <2>3, <2>4
  <1>13. ASSUME NEW a \in Actors, RecordRollback(a)
         PROVE  Kept
    <2>1. held[a] \in RollbackType
      BY <1>13, <1>i, HeldAt DEF RecordRollback, Continue
    <2>2. OnlyAppends
      BY <1>13, <2>1, <1>s DEF RecordRollback, OnlyAppends, Sound, RollbackType, ledgerVars
    <2> QED BY <1>13, <2>2, <1>h, <1>i, <1>l, <1>u, ReturnInHand DEF RecordRollback
  <1>14. ASSUME NEW a \in Actors, NEW c \in Cand, NEW x \in Applies, NEW improved \in BOOLEAN,
                NEW independent \in BOOLEAN, NEW stage \in {"pre_apply", "post_apply"},
                ReadForReview(a, c, x, improved, independent, stage)
         PROVE  Kept
    <2> DEFINE e == BuildReplayEvidence(c, improved, independent, now)
    <2> DEFINE named == [e EXCEPT !.reviewed = x.cell.id]
    <2>e. e \in EvidenceType /\ Sound(e)
      BY <1>e
    <2>1. CASE LifecycleMayBeReviewed(e, x, stage)
      <3>1. GoTo(a, "review_write", named, tcells) /\ UNCHANGED <<queue, tcells, ledgerVars>>
        BY <1>14, <2>1 DEF ReadForReview
      <3>2. named.recordType # "memory_apply_approval_audit"
        BY DEF BuildReplayEvidence
      <3> HIDE DEF named
      <3>3. OnlyAppends
        BY <3>1 DEF OnlyAppends, ledgerVars
      <3>4. InHand'
        BY <3>1, <3>2, <3>3, <1>h, <1>i, <1>l, GoToInHand DEF Steps, OnlyConsentedCells
      <3> QED BY <3>1, <3>3, <3>4, <1>u
    <2>2. CASE ~LifecycleMayBeReviewed(e, x, stage)
      <3>1. AppendQueueRecord(e) /\ InCall /\ UNCHANGED <<tcells, ledgerVars>>
        BY <1>14, <2>2 DEF ReadForReview
      <3>2. OnlyAppends
        BY <3>1, <2>e, <1>s DEF OnlyAppends, ledgerVars
      <3> QED BY <3>1, <3>2, <1>h, <1>i, <1>l, <1>u, InCallInHand
    <2> QED BY <2>1, <2>2
  <1>15. ASSUME NEW a \in Actors, RewriteReviewed(a)
         PROVE  Kept
    <2>1. OnlyAppends
      BY <1>15 DEF RewriteReviewed, OnlyAppends, ledgerVars
    <2>2. held[a] \in EvidenceType /\ seen[a] \in SUBSET CellType
      BY <1>15, <1>i, HeldAt DEF RewriteReviewed, Continue
    <2>3. \A cell \in seen[a] : Authorized(ReviewedCell(cell, held[a].id))
      <3>1. \A cell \in seen[a] : ReviewedCell(cell, held[a].id).trace = cell.trace
        BY <2>2 DEF ReviewedCell, CellType
      <3> QED BY <3>1, <1>i DEF Authorized, InHand, AuthorizedInHand
    <2>4. \A cell \in tcells' : Authorized(cell)
      BY <1>15, <2>3, <1>i DEF RewriteReviewed, InHand, AuthorizedInHand
    <2>5. OnlyConsentedCells'
      BY <2>1, <2>4, <1>l DEF Lasting, OnlyConsentedCells
    <2>6. InHand'
      BY <1>15, <2>1, <2>2, <1>h, <1>i, <1>l, GoToInHand DEF RewriteReviewed, Steps, EvidenceType
    <2> QED BY <2>1, <2>5, <2>6
  <1>16. ASSUME NEW a \in Actors, RecordReview(a)
         PROVE  Kept
    <2>1. held[a] \in EvidenceType
      BY <1>16, <1>i, HeldAt DEF RecordReview, Continue
    <2>2. OnlyAppends
      BY <1>16, <2>1, <1>s DEF RecordReview, OnlyAppends, Sound, EvidenceType, ledgerVars
    <2> QED BY <1>16, <2>2, <1>h, <1>i, <1>l, <1>u, ReturnInHand DEF RecordReview
  <1>17. ASSUME NEW a \in Actors, Crash(a)
         PROVE  Kept
    <2>1. OnlyAppends
      BY <1>17 DEF Crash, OnlyAppends, ledgerVars
    <2>2. OnlyConsentedCells'
      BY <1>17, <2>1, <1>u DEF Crash, OnlyConsentedCells
    <2>3. InHand'
      BY <1>17, <2>1, <1>h, <1>i, <1>l, ReturnInHand DEF Crash
    <2> QED BY <2>1, <2>2, <2>3
  <1>18. CASE UNCHANGED vars
    <2>1. OnlyAppends /\ InCall /\ UNCHANGED tcells
      BY <1>18 DEF vars, ledgerVars, OnlyAppends, InCall
    <2> QED BY <2>1, <1>h, <1>i, <1>l, <1>u, InCallInHand
  <1> QED
    BY <1>1, <1>2, <1>3, <1>4, <1>5, <1>6, <1>7, <1>8, <1>9, <1>10, <1>11, <1>12,
       <1>13, <1>14, <1>15, <1>16, <1>17, <1>18 DEF Next, Start, Resume

\* Whatever the processes interleave, whoever crashes and however record ids
\* collide, only candidates the user approved are ever in the candidate file.
THEOREM Consent_Safety == Spec => []OnlyConsentedCells
  <1>1. Spec => []ConsentInv
    BY ConsentInit, ConsentStep, PTL DEF Spec
  <1>2. ConsentInv => OnlyConsentedCells
    BY DEF ConsentInv
  <1> QED BY <1>1, <1>2, PTL

(***************************************************************************)
(* What a step does to the candidate file, the apply and rollback lines and   *)
(* what one process holds.                                                     *)
(***************************************************************************)

\* Process a is at a point of its call, with a record and a file it has read; the
\* others are where they were.
Took(a, step, rec, file) ==
    /\ pc'[a] = step /\ held'[a] = rec /\ seen'[a] = file
    /\ \A b \in Actors \ {a} : pc'[b] = pc[b] /\ held'[b] = held[b] /\ seen'[b] = seen[b]

SameRecords == Applies' = Applies /\ Rollbacks' = Rollbacks
SameFile == SameRecords /\ UNCHANGED <<tcells, crashes>>

\* A step of a call that neither applies, rolls back nor reviews.
Bystands(a) ==
    /\ SameFile /\ now' \in {now, now + 1}
    /\ \/ UNCHANGED <<pc, held, seen>>
       \/ /\ pc[a] \in {"idle", "audit", "bridge", "review_record"}
          /\ \E step \in {"idle", "audit", "bridge"} : \E rec : Took(a, step, rec, {})

Validates(a) ==
    /\ pc[a] = "idle" /\ now' = now + 1 /\ SameFile
    /\ \E x \in ApplyType :
        /\ x.id = now /\ x.cell.id = now
        /\ x.cell.lifecycle = "applied_pending_independent_replay"
        /\ Took(a, "apply_write", x, {})

WritesCell(a) ==
    /\ pc[a] = "apply_write" /\ SameRecords /\ UNCHANGED <<now, crashes>>
    /\ tcells' = tcells \cup {held[a].cell}
    /\ Took(a, "apply_record", held[a], {})

RecordsApply(a) ==
    /\ pc[a] = "apply_record" /\ UNCHANGED <<tcells, now, crashes>>
    /\ Applies' = Applies \cup {held[a]} /\ Rollbacks' = Rollbacks
    /\ Took(a, "idle", NoRecord, {})

ReadsFile(a) ==
    /\ pc[a] = "idle" /\ now' = now + 1 /\ SameFile
    /\ \/ \E x \in Applies : \E rec :
            /\ rec.applyRecordId = x.id /\ rec.appliedCandidateId = x.cell.id
            /\ Took(a, "rollback_write", rec, tcells)
       \/ \E rec : Took(a, "review_write", rec, tcells)

TakesOut(a) ==
    /\ pc[a] = "rollback_write" /\ SameRecords /\ UNCHANGED <<now, crashes>>
    /\ tcells' = WithoutCell(seen[a], held[a].appliedCandidateId)
    /\ Took(a, "rollback_record", held[a], {})

RecordsRollback(a) ==
    /\ pc[a] = "rollback_record" /\ UNCHANGED <<tcells, now, crashes>>
    /\ Applies' = Applies /\ Rollbacks' = Rollbacks \cup {held[a]}
    /\ Took(a, "idle", NoRecord, {})

Reviews(a) ==
    /\ pc[a] = "review_write" /\ SameRecords /\ UNCHANGED <<now, crashes>>
    /\ tcells' = {IF cell.id = held[a].reviewed
                  THEN ReviewedCell(cell, held[a].id) ELSE cell : cell \in seen[a]}
    /\ Took(a, "review_record", held[a], {})

CutsOff(a) ==
    /\ pc[a] # "idle" /\ SameRecords /\ now' = now /\ crashes' = crashes + 1
    /\ \/ tcells' = tcells
       \/ pc[a] \in {"rollback_write", "review_write"} /\ tcells' = {}
    /\ Took(a, "idle", NoRecord, {})

Effect(a) ==
    \/ Bystands(a) \/ Validates(a) \/ WritesCell(a) \/ RecordsApply(a) \/ ReadsFile(a)
    \/ TakesOut(a) \/ RecordsRollback(a) \/ Reviews(a) \/ CutsOff(a)

\* GoTo moves one process and leaves the others where they were.
LEMMA GoToTook ==
    ASSUME TypeOK, NEW a \in Actors, NEW step, NEW rec, NEW file, GoTo(a, step, rec, file)
    PROVE  Took(a, step, rec, file)
  BY DEF TypeOK, GoTo, Took

\* Apply and rollback lines are told by their recordType.
LEMMA RecordTypes ==
    ASSUME NEW rec \in QueueRecordType
    PROVE  /\ rec \in ApplyType <=> rec.recordType = "memory_reversible_apply"
           /\ rec \in RollbackType <=> rec.recordType = "memory_reversible_apply_rollback"
  BY DEF QueueRecordType, EvidenceType, RequestType, BridgeType, ApplyType, RollbackType

\* Appending a line adds to the apply and rollback lines what it is itself.
LEMMA RecordsAppended ==
    ASSUME TypeOK, NEW rec \in QueueRecordType, AppendQueueRecord(rec)
    PROVE  /\ Applies' = Applies \cup (IF rec \in ApplyType THEN {rec} ELSE {})
           /\ Rollbacks' = Rollbacks \cup (IF rec \in RollbackType THEN {rec} ELSE {})
  <1>1. ToSet(queue') = ToSet(queue) \cup {rec}
    BY QueueGrows
  <1> QED BY <1>1, RecordTypes DEF Applies, Rollbacks, Recorded

\* Without a new line there is no new apply and no new rollback.
LEMMA QueueKept == UNCHANGED queue => SameRecords
  BY DEF SameRecords, Applies, Rollbacks, Recorded

\* Records of other kinds than apply and rollback.
LEMMA OthersAppended ==
    ASSUME TypeOK, NEW rec, AppendQueueRecord(rec),
           rec \in [recordType : {"memory_candidate"}, id : Cand] \cup EvidenceType
                       \cup RequestType \cup BridgeType
    PROVE  SameRecords
  <1>1. rec \in QueueRecordType
    BY DEF QueueRecordType
  <1>2. rec \notin ApplyType /\ rec \notin RollbackType
    BY DEF EvidenceType, RequestType, BridgeType, ApplyType, RollbackType
  <1> QED BY <1>1, <1>2, RecordsAppended DEF SameRecords

\* The first step of a call has one of the effects.
LEMMA StartEffects ==
    ASSUME TypeOK, NEW a \in Actors, Start(a)
    PROVE  Effect(a)
  <1> USE QueueShapes
  <1>0. now \in Nat
    BY DEF TypeOK
  <1>e. ASSUME NEW c \in Cand, NEW improved \in BOOLEAN, NEW independent \in BOOLEAN
        PROVE  BuildReplayEvidence(c, improved, independent, now) \in EvidenceType
    BY <1>0 DEF BuildReplayEvidence, EvidenceType
  <1>1. ASSUME NEW c \in Cand, AppendMemoryReviewCandidate(a, c)
        PROVE  Bystands(a)
    BY <1>1, OthersAppended DEF AppendMemoryReviewCandidate, Begin, InCall, Bystands, SameFile
  <1>2. ASSUME NEW c \in Cand, NEW improved \in BOOLEAN, NEW independent \in BOOLEAN,
               AppendMemoryReplayEvidence(a, c, improved, independent)
        PROVE  Bystands(a)
    BY <1>2, <1>e, OthersAppended
       DEF AppendMemoryReplayEvidence, Begin, InCall, Bystands, SameFile
  <1>3. ASSUME NEW c \in Cand, NEW e \in Evidence, NEW target \in Targets,
               AppendMemoryApplyRequest(a, c, e, target)
        PROVE  Bystands(a)
    <2> DEFINE r == [recordType |-> "memory_apply_request", id |-> now, candidateId |-> c,
                     replayEvidenceId |-> e.id, target |-> target]
    <2>1. r \in RequestType
      BY <1>0 DEF RequestType, EvidenceType
    <2>2. AppendQueueRecord(r)
      BY <1>3 DEF AppendMemoryApplyRequest
    <2> HIDE DEF r
    <2>3. SameRecords
      BY <2>1, <2>2, OthersAppended
    <2> QED BY <1>3, <2>3 DEF AppendMemoryApplyRequest, Begin, InCall, Bystands, SameFile
  <1>4. ASSUME NEW r \in ApplyRequests, NEW approval \in Consent, WriteApproval(a, r, approval)
        PROVE  Bystands(a)
    <2>1. \E rec : GoTo(a, "audit", rec, {})
      BY <1>4 DEF WriteApproval
    <2> QED BY <1>4, <2>1, GoToTook, QueueKept DEF WriteApproval, Begin, Bystands, SameFile
  <1>5. CASE WriteForeignApproval(a)
    <2>1. \E rec : GoTo(a, "audit", rec, {})
      BY <1>5 DEF WriteForeignApproval
    <2>2. Bystands(a)
      BY <1>5, <2>1, GoToTook, QueueKept DEF WriteForeignApproval, Begin, Bystands, SameFile
    <2> QED BY <2>2 DEF Effect
  <1>6. ASSUME NEW r \in ApplyRequests, NEW b \in Bridges, ValidateApply(a, r, b)
        PROVE  Validates(a)
    <2> DEFINE cell == ContextMeshCandidate(r, b, now)
    <2> DEFINE x == [recordType |-> "memory_reversible_apply", id |-> now,
                     applyRequestId |-> r.id, candidateId |-> r.candidateId,
                     cell |-> cell]
    <2>1. Binding(b.approval) \in BindingType
      BY BindingTyped DEF BridgeType
    <2>2. /\ cell \in CellType /\ cell.id = now
          /\ cell.lifecycle = "applied_pending_independent_replay"
      BY <1>0, <2>1 DEF ContextMeshCandidate, CellType, Lifecycles, BridgeType,
                        ApprovalRecordType, RequestType
    <2> HIDE DEF cell
    <2>3. x \in ApplyType /\ x.id = now /\ x.cell = cell
      BY <1>0, <2>2 DEF ApplyType, RequestType
    <2>4. GoTo(a, "apply_write", x, {})
      BY <1>6 DEF ValidateApply, cell
    <2> HIDE DEF x
    <2>5. Took(a, "apply_write", x, {})
      BY <2>4, GoToTook
    <2> QED BY <1>6, <2>2, <2>3, <2>5, QueueKept DEF ValidateApply, Begin, Validates, SameFile
  <1>7. ASSUME NEW x \in Applies, ReadForRollback(a, x)
        PROVE  ReadsFile(a)
    <2> DEFINE y == [recordType |-> "memory_reversible_apply_rollback", id |-> now,
                     applyRecordId |-> x.id, appliedCandidateId |-> x.cell.id]
    <2>1. GoTo(a, "rollback_write", y, tcells)
      BY <1>7 DEF ReadForRollback
    <2>2. y.applyRecordId = x.id /\ y.appliedCandidateId = x.cell.id
      OBVIOUS
    <2> HIDE DEF y
    <2>3. Took(a, "rollback_write", y, tcells)
      BY <2>1, GoToTook
    <2> QED BY <1>7, <2>2, <2>3, QueueKept DEF ReadForRollback, Begin, ReadsFile, SameFile
  <1>8. ASSUME NEW c \in Cand, NEW x \in Applies, NEW improved \in BOOLEAN,
               NEW independent \in BOOLEAN, NEW stage \in {"pre_apply", "post_apply"},
               ReadForReview(a, c, x, improved, independent, stage)
        PROVE  ReadsFile(a) \/ Bystands(a)
    <2> DEFINE e == BuildReplayEvidence(c, improved, independent, now)
    <2>1. CASE LifecycleMayBeReviewed(e, x, stage)
      <3>1. \E rec : GoTo(a, "review_write", rec, tcells)
        BY <1>8, <2>1 DEF ReadForReview
      <3>2. UNCHANGED queue
        BY <1>8, <2>1 DEF ReadForReview
      <3> QED BY <1>8, <3>1, <3>2, GoToTook, QueueKept DEF ReadForReview, Begin, ReadsFile, SameFile
    <2>2. CASE ~LifecycleMayBeReviewed(e, x, stage)
      <3>1. AppendQueueRecord(e) /\ InCall
        BY <1>8, <2>2 DEF ReadForReview
      <3>2. SameRecords
        BY <1>e, <3>1, OthersAppended
      <3> QED BY <1>8, <3>1, <3>2 DEF ReadForReview, Begin, InCall, Bystands, SameFile
    <2> QED BY <2>1, <2>2
  <1> QED BY <1>1, <1>2, <1>3, <1>4, <1>5, <1>6, <1>7, <1>8 DEF Start, Effect

\* So has every later step of a call.
LEMMA ResumeEffects ==
    ASSUME TypeOK, NEW a \in Actors, Resume(a)
    PROVE  Effect(a)
  <1> USE HeldAt, GoToTook
  <1>1. CASE WriteAudit(a)
    <2>1. pc[a] = "audit" /\ \E step \in {"idle", "bridge"} : \E rec : GoTo(a, step, rec, {})
      BY <1>1 DEF WriteAudit, Continue, Return
    <2>2. Bystands(a)
      BY <1>1, <2>1, QueueKept DEF WriteAudit, Continue, Bystands, SameFile
    <2> QED BY <2>2 DEF Effect
  <1>2. CASE RecordBridge(a)
    <2>1. SameRecords
      BY <1>2, QueueKept, OthersAppended DEF RecordBridge, Continue
    <2>2. Bystands(a)
      BY <1>2, <2>1 DEF RecordBridge, Continue, Return, Bystands, SameFile
    <2> QED BY <2>2 DEF Effect
  <1>3. CASE AppendTCellCandidate(a)
    <2>1. WritesCell(a)
      BY <1>3, QueueKept DEF AppendTCellCandidate, Continue, WritesCell
    <2> QED BY <2>1 DEF Effect
  <1>4. CASE RecordApply(a)
    <2>1. held[a] \in ApplyType /\ held[a] \notin RollbackType
      BY <1>4 DEF RecordApply, Continue, ApplyType, RollbackType
    <2>2. Applies' = Applies \cup {held[a]} /\ Rollbacks' = Rollbacks
      BY <1>4, <2>1, RecordsAppended DEF RecordApply, QueueRecordType
    <2>3. RecordsApply(a)
      BY <1>4, <2>2 DEF RecordApply, Continue, Return, RecordsApply
    <2> QED BY <2>3 DEF Effect
  <1>5. CASE RewriteWithout(a)
    <2>1. TakesOut(a)
      BY <1>5, QueueKept DEF RewriteWithout, Continue, TakesOut
    <2> QED BY <2>1 DEF Effect
  <1>6. CASE RecordRollback(a)
    <2>1. held[a] \in RollbackType /\ held[a] \notin ApplyType
      BY <1>6 DEF RecordRollback, Continue, ApplyType, RollbackType
    <2>2. Applies' = Applies /\ Rollbacks' = Rollbacks \cup {held[a]}
      BY <1>6, <2>1, RecordsAppended DEF RecordRollback, QueueRecordType
    <2>3. RecordsRollback(a)
      BY <1>6, <2>2 DEF RecordRollback, Continue, Return, RecordsRollback
    <2> QED BY <2>3 DEF Effect
  <1>7. CASE RewriteReviewed(a)
    <2>1. Reviews(a)
      BY <1>7, QueueKept DEF RewriteReviewed, Continue, Reviews
    <2> QED BY <2>1 DEF Effect
  <1>8. CASE RecordReview(a)
    <2>1. SameRecords
      BY <1>8, OthersAppended DEF RecordReview, Continue
    <2>2. Bystands(a)
      BY <1>8, <2>1 DEF RecordReview, Continue, Return, Bystands, SameFile
    <2> QED BY <2>2 DEF Effect
  <1> QED BY <1>1, <1>2, <1>3, <1>4, <1>5, <1>6, <1>7, <1>8 DEF Resume

\* Every step has one of these effects.
LEMMA Effects ==
    ASSUME TypeOK, Next
    PROVE  \E a \in Actors : Effect(a)
  <1>1. ASSUME NEW a \in Actors, Crash(a) PROVE Effect(a)
    BY <1>1, GoToTook, QueueKept DEF Crash, Return, CutsOff, Effect
  <1> QED BY <1>1, StartEffects, ResumeEffects DEF Next

(***************************************************************************)
(* Ids: every apply has one of its own, and no file holds two candidates       *)
(* with one id.                                                                *)
(***************************************************************************)

Applying(a) == pc[a] \in {"apply_write", "apply_record"}
RollingBack(a) == pc[a] \in {"rollback_write", "rollback_record"}

\* The candidate file, and what a process has read of it.
InAFile(id) == InFile(id) \/ \E a \in Actors : \E cell \in seen[a] : cell.id = id
RecordedApply(id) == \E x \in Applies : x.cell.id = id

Stamped ==
    /\ \A cell \in tcells : cell.id < now
    /\ \A a \in Actors : \A cell \in seen[a] : cell.id < now
    /\ \A x \in Applies : x.id = x.cell.id /\ x.id < now
    /\ \A a \in Actors : Applying(a) => held[a].id = held[a].cell.id /\ held[a].id < now

Apart ==
    \A a, b \in Actors : Applying(a) /\ Applying(b) /\ held[a].id = held[b].id => a = b

Fresh ==
    \A a \in Actors : pc[a] = "apply_write" =>
        ~InAFile(held[a].id) /\ ~RecordedApply(held[a].id)

KeyedFile(cells) == \A c, d \in cells : c.id = d.id => c = d
Keyed == KeyedFile(tcells) /\ \A a \in Actors : KeyedFile(seen[a])

NamesApply(y) ==
    y.applyRecordId = y.appliedCandidateId /\ RecordedApply(y.appliedCandidateId)
RollbacksName ==
    /\ \A y \in Rollbacks : NamesApply(y)
    /\ \A a \in Actors : RollingBack(a) => NamesApply(held[a])

IdInv == Stamped /\ Apart /\ Fresh /\ Keyed /\ RollbacksName

\* The ids are numbers.
LEMMA IdTypes ==
    ASSUME TypeOK
    PROVE  /\ now \in Nat
           /\ \A cell \in tcells : cell.id \in Nat
           /\ \A a \in Actors : \A cell \in seen[a] : cell.id \in Nat
           /\ \A x \in Applies : x.id \in Nat /\ x.cell.id \in Nat
           /\ \A a \in Actors : Applying(a) => held[a].id \in Nat /\ held[a].cell.id \in Nat
  <1>1. now \in Nat /\ \A cell \in tcells : cell.id \in Nat
    BY DEF TypeOK, CellType
  <1>2. \A x \in Applies : x.id \in Nat /\ x.cell.id \in Nat
    BY QueueShapes DEF ApplyType, CellType
  <1>3. ASSUME NEW a \in Actors
        PROVE  /\ \A cell \in seen[a] : cell.id \in Nat
               /\ Applying(a) => held[a].id \in Nat /\ held[a].cell.id \in Nat
    BY HeldAt DEF Applying, ApplyType, CellType
  <1> QED BY <1>1, <1>2, <1>3

\* Empty files hold no ids.
LEMMA IdInit == Init => IdInv
  <1> SUFFICES ASSUME Init PROVE IdInv
    OBVIOUS
  <1>1. Applies = {} /\ Rollbacks = {}
    BY DEF Init, Applies, Rollbacks, Recorded, ToSet
  <1> QED BY <1>1 DEF Init, IdInv, Stamped, Apart, Fresh, Keyed, KeyedFile, RollbacksName,
                      Applying, RollingBack

\* A process that does not apply and puts in the file only what some file held
\* leaves every id in its place.
LEMMA IdKept ==
    ASSUME TypeOK, IdInv, NEW a \in Actors,
           now' \in {now, now + 1}, Applies' = Applies,
           \/ UNCHANGED <<pc, held, seen>>
           \/ \E step \in Steps \ {"apply_write", "apply_record"} : \E rec :
                \E file \in {{}, tcells} : Took(a, step, rec, file),
           KeyedFile(tcells'),
           \A cell \in tcells' : InAFile(cell.id),
           \A y \in Rollbacks' : NamesApply(y),
           RollingBack(a)' => NamesApply(held'[a])
    PROVE  IdInv'
  <1> USE IdTypes
  <1>1. \A b \in Actors :
            /\ seen'[b] \in {seen[b], {}, tcells}
            /\ pc'[b] \in {"apply_write", "apply_record"} => pc'[b] = pc[b] /\ held'[b] = held[b]
            /\ RollingBack(b)' => b = a \/ (RollingBack(b) /\ held'[b] = held[b])
    BY DEF Took, RollingBack
  <1>2. \A id : InAFile(id)' => InAFile(id)
    BY <1>1 DEF InAFile, InFile
  <1>3. \A id : InAFile(id) => id \in Nat /\ id < now
    BY DEF IdInv, Stamped, InAFile, InFile
  <1>4. Stamped'
    <2>1. \A cell \in tcells' : cell.id < now'
      BY <1>3
    <2>2. \A b \in Actors : \A cell \in seen'[b] : cell.id < now'
      BY <1>1, <1>3 DEF InAFile, InFile
    <2>3. \A x \in Applies' : x.id = x.cell.id /\ x.id < now'
      BY DEF IdInv, Stamped
    <2>4. \A b \in Actors : Applying(b)' => held'[b].id = held'[b].cell.id /\ held'[b].id < now'
      BY <1>1 DEF IdInv, Stamped, Applying
    <2> QED BY <2>1, <2>2, <2>3, <2>4 DEF Stamped
  <1>5. Apart'
    BY <1>1 DEF IdInv, Apart, Applying
  <1>6. Fresh'
    BY <1>1, <1>2 DEF IdInv, Fresh, RecordedApply
  <1>7. Keyed'
    BY <1>1 DEF IdInv, Keyed, KeyedFile
  <1>8. RollbacksName'
    BY <1>1 DEF IdInv, RollbacksName, NamesApply, RecordedApply
  <1> QED BY <1>4, <1>5, <1>6, <1>7, <1>8 DEF IdInv

\* No effect breaks what is known of ids.
LEMMA IdStep ==
    ASSUME TypeOK, IdInv, NEW a \in Actors, Effect(a)
    PROVE  IdInv'
  <1> USE IdTypes
  <1>1. CASE Bystands(a)
    <2>1. RollingBack(a)' => NamesApply(held'[a])
      BY <1>1 DEF Bystands, Took, RollingBack, IdInv, RollbacksName
    <2> QED BY <1>1, <2>1, IdKept DEF Bystands, SameFile, SameRecords, Steps, IdInv, Keyed, RollbacksName, InAFile, InFile
  <1>2. CASE Validates(a)
    <2>1. PICK x \in ApplyType : x.id = now /\ x.cell.id = now /\ Took(a, "apply_write", x, {})
      BY <1>2 DEF Validates
    <2>2. now' = now + 1 /\ SameFile
      BY <1>2 DEF Validates
    <2>3. /\ \A b \in Actors : seen'[b] \in {seen[b], {}}
          /\ pc'[a] = "apply_write" /\ held'[a] = x
          /\ \A b \in Actors \ {a} : pc'[b] = pc[b] /\ held'[b] = held[b]
      BY <2>1 DEF Took
    <2>4. Stamped'
      BY <2>1, <2>2, <2>3 DEF IdInv, Stamped, SameFile, SameRecords, Applying
    <2>5. Apart'
      BY <2>1, <2>3 DEF IdInv, Apart, Stamped, Applying
    <2>6. ~InAFile(now) /\ ~RecordedApply(now)
      BY DEF IdInv, Stamped, InAFile, InFile, RecordedApply
    <2>7. \A id : (InAFile(id)' => InAFile(id)) /\ (RecordedApply(id)' <=> RecordedApply(id))
      BY <2>2, <2>3 DEF SameFile, SameRecords, InAFile, InFile, RecordedApply
    <2>8. Fresh'
      BY <2>1, <2>3, <2>6, <2>7 DEF IdInv, Fresh
    <2>9. Keyed'
      BY <2>2, <2>3 DEF IdInv, Keyed, KeyedFile, SameFile
    <2>10. RollbacksName'
      BY <2>2, <2>3, <2>7 DEF IdInv, RollbacksName, NamesApply, RollingBack, SameFile, SameRecords
    <2> QED BY <2>4, <2>5, <2>8, <2>9, <2>10 DEF IdInv
  <1>3. CASE WritesCell(a)
    <2> DEFINE id == held[a].id
    <2>1. /\ tcells' = tcells \cup {held[a].cell} /\ now' = now /\ SameRecords
          /\ \A b \in Actors : seen'[b] \in {seen[b], {}} /\ held'[b] = held[b]
          /\ pc'[a] = "apply_record" /\ pc[a] = "apply_write"
          /\ \A b \in Actors \ {a} : pc'[b] = pc[b]
      BY <1>3 DEF WritesCell, Took
    <2>2. /\ held[a].cell.id = id /\ id < now
          /\ ~InAFile(id) /\ \A b \in Actors \ {a} : Applying(b) => held[b].id # id
      BY <2>1 DEF IdInv, Stamped, Fresh, Apart, Applying
    <2> HIDE DEF id
    <2>3. Stamped'
      BY <2>1, <2>2 DEF IdInv, Stamped, Applying, SameRecords
    <2>4. Apart'
      BY <2>1 DEF IdInv, Apart, Applying
    <2>5. \A i : (InAFile(i)' => InAFile(i) \/ i = id) /\ (RecordedApply(i)' <=> RecordedApply(i))
      BY <2>1, <2>2 DEF InAFile, InFile, RecordedApply, SameRecords
    <2>6. Fresh'
      BY <2>1, <2>2, <2>5 DEF IdInv, Fresh, Applying
    <2>7. Keyed'
      BY <2>1, <2>2 DEF IdInv, Keyed, KeyedFile, InAFile, InFile
    <2>8. RollbacksName'
      BY <2>1, <2>5 DEF IdInv, RollbacksName, NamesApply, RollingBack, SameRecords
    <2> QED BY <2>3, <2>4, <2>6, <2>7, <2>8 DEF IdInv
  <1>4. CASE RecordsApply(a)
    <2>1. /\ tcells' = tcells /\ now' = now /\ Rollbacks' = Rollbacks
          /\ Applies' = Applies \cup {held[a]}
          /\ \A b \in Actors : seen'[b] \in {seen[b], {}}
          /\ pc'[a] = "idle" /\ pc[a] = "apply_record"
          /\ \A b \in Actors \ {a} : pc'[b] = pc[b] /\ held'[b] = held[b]
      BY <1>4 DEF RecordsApply, Took
    <2>2. Stamped'
      BY <2>1 DEF IdInv, Stamped, Applying
    <2>3. Apart'
      BY <2>1 DEF IdInv, Apart, Applying
    <2>4. \A i : /\ InAFile(i)' => InAFile(i)
                 /\ RecordedApply(i)' <=> RecordedApply(i) \/ i = held[a].cell.id
      BY <2>1 DEF InAFile, InFile, RecordedApply
    <2>5. Fresh'
      BY <2>1, <2>4 DEF IdInv, Fresh, Apart, Applying, Stamped
    <2>6. Keyed'
      BY <2>1 DEF IdInv, Keyed, KeyedFile
    <2>7. RollbacksName'
      BY <2>1, <2>4 DEF IdInv, RollbacksName, NamesApply, RollingBack
    <2> QED BY <2>2, <2>3, <2>5, <2>6, <2>7 DEF IdInv
  <1>5. CASE ReadsFile(a)
    <2>1. RollingBack(a)' => NamesApply(held'[a])
      BY <1>5 DEF ReadsFile, Took, RollingBack, NamesApply, RecordedApply, IdInv, Stamped
    <2> QED BY <1>5, <2>1, IdKept DEF ReadsFile, SameFile, SameRecords, Steps, IdInv, Keyed, RollbacksName, InAFile, InFile
  <1>6. CASE TakesOut(a)
    <2>1. tcells' \subseteq seen[a] /\ held'[a] = held[a]
      BY <1>6 DEF TakesOut, WithoutCell, Took
    <2>2. RollingBack(a)' => NamesApply(held'[a])
      BY <1>6, <2>1 DEF TakesOut, RollingBack, IdInv, RollbacksName
    <2>3. KeyedFile(tcells') /\ \A cell \in tcells' : InAFile(cell.id)
      BY <2>1 DEF IdInv, Keyed, KeyedFile, InAFile
    <2> QED BY <1>6, <2>2, <2>3, IdKept DEF TakesOut, SameRecords, Steps, IdInv, RollbacksName
  <1>7. CASE RecordsRollback(a)
    <2>1. NamesApply(held[a])
      BY <1>7 DEF RecordsRollback, IdInv, RollbacksName, RollingBack
    <2>2. ~RollingBack(a)'
      BY <1>7 DEF RecordsRollback, Took, RollingBack
    <2> QED BY <1>7, <2>1, <2>2, IdKept DEF RecordsRollback, Steps, IdInv, Keyed, RollbacksName, InAFile, InFile
  <1>8. CASE Reviews(a)
    <2>1. \A cell \in seen[a] : ReviewedCell(cell, held[a].id).id = cell.id
      BY HeldAt DEF ReviewedCell, CellType
    <2>2. \A c \in tcells' : \E cell \in seen[a] :
              c.id = cell.id /\ c = IF cell.id = held[a].reviewed
                                    THEN ReviewedCell(cell, held[a].id) ELSE cell
      BY <1>8, <2>1 DEF Reviews
    <2>3. KeyedFile(tcells') /\ \A cell \in tcells' : InAFile(cell.id)
      BY <2>2 DEF IdInv, Keyed, KeyedFile, InAFile
    <2>4. ~RollingBack(a)'
      BY <1>8 DEF Reviews, Took, RollingBack
    <2> QED BY <1>8, <2>3, <2>4, IdKept DEF Reviews, SameRecords, Steps, IdInv, RollbacksName
  <1>9. CASE CutsOff(a)
    <2>1. KeyedFile(tcells') /\ \A cell \in tcells' : InAFile(cell.id)
      BY <1>9 DEF CutsOff, IdInv, Keyed, KeyedFile, InAFile, InFile
    <2>2. ~RollingBack(a)'
      BY <1>9 DEF CutsOff, Took, RollingBack
    <2> QED BY <1>9, <2>1, <2>2, IdKept DEF CutsOff, SameRecords, Steps, IdInv, RollbacksName
  <1> QED BY <1>1, <1>2, <1>3, <1>4, <1>5, <1>6, <1>7, <1>8, <1>9 DEF Effect

\* The ids stay in order through every step.
LEMMA IdNext == TypeOK /\ IdInv /\ [Next]_vars => IdInv'
  <1> SUFFICES ASSUME TypeOK, IdInv, [Next]_vars PROVE IdInv'
    OBVIOUS
  <1>1. CASE Next
    BY <1>1, Effects, IdStep
  <1>2. CASE UNCHANGED vars
    <2>1. SameRecords /\ UNCHANGED <<tcells, now, pc, held, seen>>
      BY <1>2, QueueKept DEF vars
    <2> QED BY <2>1 DEF IdInv, Stamped, Apart, Fresh, Keyed, KeyedFile, RollbacksName, NamesApply, RecordedApply,
              InAFile, InFile, SameRecords, Applying, RollingBack
  <1> QED BY <1>1, <1>2

(***************************************************************************)
(* Candidates without an apply record: each crash between the candidate line  *)
(* and the apply line leaves one, and nothing else does.                       *)
(***************************************************************************)

Held(id) == \E a \in Actors : pc[a] = "apply_record" /\ held[a].cell.id = id

\* Ids some file knows, that no process is about to record and no line records.
Lost == {id \in 0 .. now : InAFile(id) /\ ~Held(id) /\ ~RecordedApply(id)}

OrphanInv ==
    /\ IsFiniteSet(At("apply_record"))
    /\ Cardinality(Lost) <= crashes

\* Distinct keys of a set of records in a finite set bound the set.
LEMMA KeysBound ==
    ASSUME NEW S, NEW T, IsFiniteSet(T), KeyedFile(S), \A c \in S : c.id \in T
    PROVE  IsFiniteSet(S) /\ Cardinality(S) <= Cardinality(T)
  <1> DEFINE f == [c \in S |-> c.id]
  <1>1. f \in [S -> T] /\ \A c, d \in S : f[c] = f[d] => c = d
    BY DEF KeyedFile
  <1>2. f \in Injection(S, T)
    BY <1>1, Fun_IsInj
  <1> QED BY <1>2, FS_Injection

\* A set of numbers up to n is finite.
LEMMA UpToFinite ==
    ASSUME NEW n \in Nat, NEW S, S \subseteq 0 .. n
    PROVE  IsFiniteSet(S) /\ Cardinality(S) \in Nat
  <1>1. IsFiniteSet(0 .. n)
    BY FS_Interval
  <1> QED BY <1>1, FS_Subset, FS_CardinalityType

\* The lost ids are finitely many.
LEMMA LostFinite ==
    ASSUME TypeOK
    PROVE  IsFiniteSet(Lost) /\ Cardinality(Lost) \in Nat
  <1>1. now \in Nat /\ Lost \subseteq 0 .. now
    BY DEF TypeOK, Lost
  <1> QED BY <1>1, UpToFinite

\* Only a crash loses an id, and only one.
LEMMA LostStep ==
    ASSUME TypeOK, TypeOK', IdInv, NEW a \in Actors, Effect(a)
    PROVE  /\ At("apply_record")' \subseteq At("apply_record") \cup {a}
           /\ \/ Lost' \subseteq Lost /\ crashes' = crashes
              \/ /\ crashes' = crashes + 1
                 /\ \E id : Lost' \subseteq Lost \cup {id}
  <1> USE IdTypes
  <1>0. \A id : InAFile(id) => id \in 0 .. now
    BY DEF IdInv, Stamped, InAFile, InFile
  <1>1. \A b \in Actors \ {a} : pc'[b] = pc[b] /\ (pc[b] = "apply_record" => held'[b] = held[b])
    BY DEF Effect, Bystands, Validates, WritesCell, RecordsApply, ReadsFile, TakesOut,
           RecordsRollback, Reviews, CutsOff, Took
  <1>2. At("apply_record")' \subseteq At("apply_record") \cup {a}
    BY <1>1 DEF At
  <1>3. ASSUME \A id : InAFile(id)' => InAFile(id) \/ Held(id)',
               \A id : Held(id) => Held(id)' \/ RecordedApply(id)',
               Applies \subseteq Applies'
        PROVE  Lost' \subseteq Lost
    BY <1>0, <1>3 DEF Lost, RecordedApply
  <1>4. CASE Bystands(a)
    <2>1. \A id : InAFile(id)' => InAFile(id)
      BY <1>4 DEF Bystands, SameFile, InAFile, InFile, Took
    <2>2. \A id : Held(id) => Held(id)'
      BY <1>1, <1>4 DEF Bystands, Held
    <2> QED BY <1>2, <1>3, <1>4, <2>1, <2>2 DEF Bystands, SameFile, SameRecords
  <1>5. CASE Validates(a)
    <2>1. \A id : InAFile(id)' => InAFile(id)
      BY <1>5 DEF Validates, SameFile, InAFile, InFile, Took
    <2>2. \A id : Held(id) => Held(id)'
      BY <1>1, <1>5 DEF Validates, Held
    <2> QED BY <1>2, <1>3, <1>5, <2>1, <2>2 DEF Validates, SameFile, SameRecords
  <1>6. CASE WritesCell(a)
    <2>1. \A id : InAFile(id)' => InAFile(id) \/ Held(id)'
      BY <1>6 DEF WritesCell, InAFile, InFile, Held, Took
    <2>2. \A id : Held(id) => Held(id)'
      BY <1>1, <1>6 DEF WritesCell, Held
    <2> QED BY <1>2, <1>3, <1>6, <2>1, <2>2 DEF WritesCell, SameRecords
  <1>7. CASE RecordsApply(a)
    <2>1. \A id : InAFile(id)' => InAFile(id)
      BY <1>7 DEF RecordsApply, InAFile, InFile, Took
    <2>2. \A id : Held(id) => Held(id)' \/ RecordedApply(id)'
      BY <1>1, <1>7 DEF RecordsApply, Held, RecordedApply
    <2> QED BY <1>2, <1>3, <1>7, <2>1, <2>2 DEF RecordsApply
  <1>8. CASE ReadsFile(a)
    <2>1. \A id : InAFile(id)' => InAFile(id)
      BY <1>8 DEF ReadsFile, SameFile, InAFile, InFile, Took
    <2>2. \A id : Held(id) => Held(id)'
      BY <1>1, <1>8 DEF ReadsFile, Held
    <2> QED BY <1>2, <1>3, <1>8, <2>1, <2>2 DEF ReadsFile, SameFile, SameRecords
  <1>9. CASE TakesOut(a)
    <2>1. \A id : InAFile(id)' => InAFile(id)
      BY <1>9 DEF TakesOut, WithoutCell, InAFile, InFile, Took
    <2>2. \A id : Held(id) => Held(id)'
      BY <1>1, <1>9 DEF TakesOut, Held
    <2> QED BY <1>2, <1>3, <1>9, <2>1, <2>2 DEF TakesOut, SameRecords
  <1>10. CASE RecordsRollback(a)
    <2>1. \A id : InAFile(id)' => InAFile(id)
      BY <1>10 DEF RecordsRollback, InAFile, InFile, Took
    <2>2. \A id : Held(id) => Held(id)'
      BY <1>1, <1>10 DEF RecordsRollback, Held
    <2> QED BY <1>2, <1>3, <1>10, <2>1, <2>2 DEF RecordsRollback
  <1>11. CASE Reviews(a)
    <2>0. \A cell \in seen[a] : ReviewedCell(cell, held[a].id).id = cell.id
      BY HeldAt DEF ReviewedCell, CellType
    <2>1. \A id : InAFile(id)' => InAFile(id)
      BY <1>11, <2>0 DEF Reviews, InAFile, InFile, Took
    <2>2. \A id : Held(id) => Held(id)'
      BY <1>1, <1>11 DEF Reviews, Held
    <2> QED BY <1>2, <1>3, <1>11, <2>1, <2>2 DEF Reviews, SameRecords
  <1>12. CASE CutsOff(a)
    <2>1. \A id : InAFile(id)' => InAFile(id)
      BY <1>12 DEF CutsOff, InAFile, InFile, Took
    <2>2. \A id : Held(id) => Held(id)' \/ id = held[a].cell.id
      BY <1>1, <1>12 DEF CutsOff, Held
    <2>3. Lost' \subseteq Lost \cup {held[a].cell.id}
      BY <1>12, <1>0, <2>1, <2>2 DEF CutsOff, SameRecords, Lost, RecordedApply
    <2> QED BY <1>2, <1>12, <2>3 DEF CutsOff
  <1> QED BY <1>4, <1>5, <1>6, <1>7, <1>8, <1>9, <1>10, <1>11, <1>12 DEF Effect

\* Nothing is lost at the start.
LEMMA OrphanInit == Init => OrphanInv
  <1> SUFFICES ASSUME Init PROVE OrphanInv
    OBVIOUS
  <1>1. At("apply_record") = {} /\ Lost = {}
    BY DEF Init, At, Lost, InAFile, InFile
  <1>2. IsFiniteSet({}) /\ Cardinality({}) = 0
    BY FS_EmptySet
  <1>3. IsFiniteSet(At("apply_record"))
    BY <1>1, <1>2
  <1>4. Cardinality(Lost) <= crashes
    BY <1>1, <1>2 DEF Init
  <1> QED BY <1>3, <1>4 DEF OrphanInv

\* Every step keeps the lost ids within the crashes.
LEMMA OrphanNext == TypeOK /\ TypeOK' /\ IdInv /\ OrphanInv /\ [Next]_vars => OrphanInv'
  <1> SUFFICES ASSUME TypeOK, TypeOK', IdInv, OrphanInv, [Next]_vars PROVE OrphanInv'
    OBVIOUS
  <1>1. CASE Next
    <2>1. PICK a \in Actors : Effect(a)
      BY <1>1, Effects
    <2>2. IsFiniteSet(At("apply_record")')
      <3>1. IsFiniteSet(At("apply_record") \cup {a})
        BY FS_AddElement DEF OrphanInv
      <3> QED BY <2>1, <3>1, LostStep, FS_Subset
    <2>3. /\ IsFiniteSet(Lost) /\ Cardinality(Lost) \in Nat /\ Cardinality(Lost') \in Nat
          /\ crashes \in Nat
      <3>1. now' \in Nat /\ Lost' \subseteq 0 .. now' /\ crashes \in Nat
        BY DEF TypeOK, Lost
      <3>2. Cardinality(Lost') \in Nat
        BY <3>1, UpToFinite
      <3> QED BY <3>1, <3>2, LostFinite
    <2>4. CASE Lost' \subseteq Lost /\ crashes' = crashes
      BY <2>2, <2>3, <2>4, FS_Subset DEF OrphanInv
    <2>5. ASSUME NEW id, crashes' = crashes + 1, Lost' \subseteq Lost \cup {id}
          PROVE  OrphanInv'
      <3>1. IsFiniteSet(Lost \cup {id}) /\ Cardinality(Lost \cup {id}) <= Cardinality(Lost) + 1
        <4>1. IsFiniteSet(Lost \cup {id}) /\ Cardinality(Lost \cup {id})
                 = IF id \in Lost THEN Cardinality(Lost) ELSE Cardinality(Lost) + 1
          BY <2>3, FS_AddElement
        <4> QED BY <2>3, <4>1
      <3>2. Cardinality(Lost') <= Cardinality(Lost \cup {id}) /\ Cardinality(Lost \cup {id}) \in Nat
        BY <2>5, <3>1, FS_Subset, FS_CardinalityType
      <3> QED BY <2>2, <2>3, <2>5, <3>1, <3>2 DEF OrphanInv
    <2> QED BY <2>1, <2>4, <2>5, LostStep
  <1>2. CASE UNCHANGED vars
    <2>1. UNCHANGED <<Lost, At("apply_record"), crashes>>
      BY <1>2, QueueKept DEF vars, Lost, InAFile, InFile, Held, RecordedApply, SameRecords, At
    <2> QED BY <2>1 DEF OrphanInv
  <1> QED BY <1>1, <1>2

\* The candidates without an apply record have ids that are lost or in hand.
LEMMA OrphansCounted ==
    ASSUME TypeOK, IdInv, OrphanInv
    PROVE  OrphansBounded
  <1> DEFINE Orphans == {cell \in tcells : \A x \in Applies : x.cell # cell /\ x.cell.id # cell.id}
  <1> DEFINE writers == At("apply_record")
  <1> DEFINE ids == {held[a].cell.id : a \in writers}
  <1>1. IsFiniteSet(ids) /\ Cardinality(ids) <= Cardinality(writers)
    <2> DEFINE f == [a \in writers |-> held[a].cell.id]
    <2>1. f \in [writers -> ids] /\ \A id \in ids : \E a \in writers : f[a] = id
      OBVIOUS
    <2>2. f \in Surjection(writers, ids)
      BY <2>1, Fun_IsSurj
    <2> QED BY <2>2, FS_Surjection DEF OrphanInv
  <1>2. IsFiniteSet(Lost \cup ids) /\ Cardinality(Lost \cup ids) <= Cardinality(Lost) + Cardinality(ids)
    <2>1. IsFiniteSet(Lost \cap ids)
      BY <1>1, FS_Intersection
    <2> QED BY <1>1, <2>1, LostFinite, FS_Union, FS_CardinalityType
  <1>3. \A cell \in Orphans : cell.id \in Lost \cup ids
    <2> SUFFICES ASSUME NEW cell \in Orphans, ~Held(cell.id) PROVE cell.id \in Lost
      BY DEF Held, At
    <2>1. cell.id \in 0 .. now /\ InAFile(cell.id)
      BY IdTypes DEF IdInv, Stamped, InAFile, InFile
    <2>2. ~RecordedApply(cell.id)
      BY DEF RecordedApply
    <2> QED BY <2>1, <2>2 DEF Lost
  <1>4. KeyedFile(Orphans)
    BY DEF IdInv, Keyed, KeyedFile
  <1>5. Cardinality(Orphans) <= Cardinality(Lost \cup ids) /\ IsFiniteSet(Orphans)
    <2> HIDE DEF Orphans, ids
    <2> QED BY <1>2, <1>3, <1>4, KeysBound
  <1>6. /\ Cardinality(Orphans) \in Nat /\ Cardinality(Lost) \in Nat /\ Cardinality(ids) \in Nat
        /\ Cardinality(writers) \in Nat /\ Cardinality(Lost \cup ids) \in Nat /\ crashes \in Nat
    BY <1>1, <1>2, <1>5, LostFinite, FS_CardinalityType DEF OrphanInv, TypeOK
  <1> HIDE DEF Orphans, ids, writers
  <1>7. Cardinality(Orphans) <= Cardinality(writers) + crashes
    BY <1>1, <1>2, <1>5, <1>6 DEF OrphanInv
  <1> QED BY <1>7 DEF OrphansBounded, Orphans, writers

\* However the processes interleave and wherever their calls are cut short, the
\* candidates in the file that have no apply record (the candidate line is
\* written before the apply line in appendMemoryReversibleApply) are at most
\* those a process is about to record and those a crash left.
THEOREM Orphans_Bounded == Spec => []OrphansBounded
  <1>1. Init => TypeOK /\ IdInv /\ OrphanInv
    BY TypeInit, IdInit, OrphanInit
  <1>2. TypeOK /\ IdInv /\ OrphanInv /\ [Next]_vars => (TypeOK /\ IdInv /\ OrphanInv)'
    BY TypeStep, IdNext, OrphanNext
  <1>3. TypeOK /\ IdInv /\ OrphanInv => OrphansBounded
    BY OrphansCounted
  <1> QED BY <1>1, <1>2, <1>3, PTL DEF Spec

(***************************************************************************)
(* Calls that run one after the other: one process, crashes included.         *)
(***************************************************************************)

OneProcess == \A a, b \in Actors : a = b

\* Nobody rewrites the file between the read and the write of a call.
SeenIsFile ==
    \A a \in Actors : pc[a] \in {"rollback_write", "review_write"} => seen[a] = tcells

TakenOut ==
    \A a \in Actors : pc[a] = "rollback_record" => ~InFile(held[a].appliedCandidateId)

SerialInv == SeenIsFile /\ TakenOut /\ RolledBackStaysOut

\* Nothing is rolled back at the start.
LEMMA SerialInit == Init => SerialInv
  <1> SUFFICES ASSUME Init PROVE SerialInv
    OBVIOUS
  <1>1. Rollbacks = {}
    BY DEF Init, Rollbacks, Recorded, ToSet
  <1> QED BY <1>1 DEF Init, SerialInv, SeenIsFile, TakenOut, RolledBackStaysOut

\* What is in the file after a step was in it, or was never recorded.
LEMMA SerialFile ==
    ASSUME TypeOK, IdInv, SerialInv, NEW a \in Actors, Effect(a), NEW id, InFile(id)'
    PROVE  InFile(id) \/ ~RecordedApply(id)
  <1>1. CASE WritesCell(a)
    BY <1>1 DEF WritesCell, InFile, IdInv, Fresh, Stamped, Applying
  <1>2. CASE TakesOut(a)
    BY <1>2 DEF TakesOut, WithoutCell, InFile, SerialInv, SeenIsFile
  <1>3. CASE Reviews(a)
    <2>1. \A cell \in seen[a] : ReviewedCell(cell, held[a].id).id = cell.id
      BY HeldAt DEF ReviewedCell, CellType
    <2> QED BY <1>3, <2>1 DEF Reviews, InFile, SerialInv, SeenIsFile
  <1> QED BY <1>1, <1>2, <1>3 DEF Effect, Bystands, Validates, RecordsApply, ReadsFile,
             RecordsRollback, CutsOff, SameFile, InFile

\* One process brings nothing back that it took out.
LEMMA SerialStep ==
    ASSUME OneProcess, TypeOK, IdInv, SerialInv, NEW a \in Actors, Effect(a)
    PROVE  SerialInv'
  <1>1. \A b \in Actors : b = a
    BY DEF OneProcess
  <1>2. SeenIsFile'
    BY <1>1 DEF Effect, Bystands, Validates, WritesCell, RecordsApply, ReadsFile, TakesOut,
           RecordsRollback, Reviews, CutsOff, SameFile, Took, SerialInv, SeenIsFile
  <1>3. TakenOut'
    <2>1. CASE TakesOut(a)
      BY <1>1, <2>1 DEF TakesOut, Took, WithoutCell, TakenOut, InFile
    <2>2. CASE ~TakesOut(a)
      <3>1. CASE UNCHANGED <<pc, held, seen>> /\ SameFile
        BY <3>1 DEF SameFile, SerialInv, TakenOut, InFile
      <3>2. CASE pc'[a] # "rollback_record"
        BY <1>1, <3>2 DEF TakenOut
      <3> QED BY <2>2, <3>1, <3>2 DEF Effect, Bystands, Validates, WritesCell, RecordsApply,
              ReadsFile, RecordsRollback, Reviews, CutsOff, Took
    <2> QED BY <2>1, <2>2
  <1>4. RolledBackStaysOut'
    <2>1. \A id : InFile(id)' => InFile(id) \/ ~RecordedApply(id)
      BY SerialFile
    <2>2. CASE RecordsRollback(a)
      BY <2>2 DEF RecordsRollback, SerialInv, TakenOut, RolledBackStaysOut, InFile
    <2>3. CASE ~RecordsRollback(a)
      <3>1. Rollbacks' = Rollbacks
        BY <2>3 DEF Effect, Bystands, Validates, WritesCell, RecordsApply, ReadsFile, TakesOut,
           Reviews, CutsOff, SameFile, SameRecords
      <3> QED BY <2>1, <3>1 DEF SerialInv, RolledBackStaysOut, IdInv, RollbacksName, NamesApply
    <2> QED BY <2>2, <2>3
  <1> QED BY <1>2, <1>3, <1>4 DEF SerialInv

\* The serial invariant is inductive on top of the ids.
LEMMA SerialNext ==
    ASSUME OneProcess
    PROVE  TypeOK /\ IdInv /\ SerialInv /\ [Next]_vars => SerialInv'
  <1> SUFFICES ASSUME TypeOK, IdInv, SerialInv, [Next]_vars PROVE SerialInv'
    OBVIOUS
  <1>1. CASE Next
    BY <1>1, Effects, SerialStep
  <1>2. CASE UNCHANGED vars
    <2>1. SameRecords /\ UNCHANGED <<tcells, pc, held, seen>>
      BY <1>2, QueueKept DEF vars
    <2> QED BY <2>1 DEF SameRecords, SerialInv, SeenIsFile, TakenOut, RolledBackStaysOut, InFile
  <1> QED BY <1>1, <1>2

\* What is known of every state of one process.
LEMMA Serial ==
    ASSUME OneProcess
    PROVE  Spec => [](TypeOK /\ IdInv /\ SerialInv)
  <1>1. Init => TypeOK /\ IdInv /\ SerialInv
    BY TypeInit, IdInit, SerialInit
  <1>2. TypeOK /\ IdInv /\ SerialInv /\ [Next]_vars => (TypeOK /\ IdInv /\ SerialInv)'
    BY TypeStep, IdNext, SerialNext
  <1> QED BY <1>1, <1>2, PTL DEF Spec

\* With one process, crashes included, a candidate whose rollback
\* rollbackMemoryReversibleApply recorded is never in the file again.
THEOREM RolledBack_StaysOut ==
    ASSUME OneProcess
    PROVE  Spec => []RolledBackStaysOut
  <1>1. SerialInv => RolledBackStaysOut
    BY DEF SerialInv
  <1> QED BY <1>1, Serial, PTL

\* With one process, crashes included, the newest apply whose candidate is in the
\* file is offered for rollback (activeApplyRecord) exactly while it is among the
\* lines the invocation contract reads, whatever was applied, rolled back or
\* reviewed before it.
THEOREM Newest_Undoable ==
    ASSUME OneProcess
    PROVE  Spec => []NewestUndoable
  <1>1. ASSUME TypeOK, IdInv, SerialInv PROVE NewestUndoable
    <2> SUFFICES ASSUME NEW i \in DOMAIN queue, IsNewestApply(i),
                        InFile(queue[i].cell.id)
                 PROVE  CanInvokeRollback(queue[i])
                            <=> Len(queue) - i < ContractLimit
      BY DEF NewestUndoable
    <2>1. queue[i] \in Applies
      BY DEF Applies, Recorded, IsNewestApply, ToSet
    <2>2. \A y \in Rollbacks : y.applyRecordId # queue[i].id
      BY <1>1, <2>1 DEF IdInv, Stamped, RollbacksName, NamesApply, SerialInv, RolledBackStaysOut
    <2>3. CanInvokeRollback(queue[i]) <=> IsLatest(queue[i])
      BY <2>1, <2>2 DEF CanInvokeRollback
    <2>4. ASSUME IsLatest(queue[i]) PROVE i \in ReadLines
      <3>1. PICK k \in ReadLines :
              /\ queue[k] = queue[i]
              /\ \A j \in ReadLines : j > k => queue[j].recordType # queue[i].recordType
        BY <2>4 DEF IsLatest
      <3>2. ~(k > i)
        BY <3>1 DEF IsNewestApply, ReadLines
      <3>3. Len(queue) \in Nat /\ DOMAIN queue = 1 .. Len(queue)
        BY <1>1 DEF TypeOK
      <3>4. i >= k /\ Len(queue) - k < ContractLimit
        BY <3>1, <3>2, <3>3 DEF ReadLines
      <3>5. ContractLimit \in Nat /\ i \in Nat /\ k \in Nat
        BY <3>3, MemoryAssumption DEF ReadLines
      <3>6. Len(queue) - i < ContractLimit
        BY <3>3, <3>4, <3>5
      <3> QED BY <3>6 DEF ReadLines
    <2>5. ASSUME i \in ReadLines PROVE IsLatest(queue[i])
      BY <2>5 DEF IsLatest, IsNewestApply, ReadLines
    <2> QED BY <2>3, <2>4, <2>5 DEF ReadLines
  <1> QED BY <1>1, Serial, PTL

(***************************************************************************)
(* The lifecycle of an application, for calls that run one after the other.   *)
(***************************************************************************)

PendingInHand ==
    \A a \in Actors : pc[a] = "apply_write" =>
        held[a].cell.lifecycle = "applied_pending_independent_replay"

\* An apply writes a candidate that is not reviewed yet.
LEMMA PendingNext == TypeOK /\ PendingInHand /\ [Next]_vars => PendingInHand'
  <1> SUFFICES ASSUME TypeOK, PendingInHand, [Next]_vars PROVE PendingInHand'
    OBVIOUS
  <1>1. CASE Next
    <2>1. PICK a \in Actors : Effect(a)
      BY <1>1, Effects
    <2>2. CASE Validates(a)
      BY <2>2 DEF Validates, Took, PendingInHand
    <2>3. CASE ~Validates(a)
      BY <2>1, <2>3 DEF Effect, Bystands, WritesCell, RecordsApply, ReadsFile, TakesOut,
           RecordsRollback, Reviews, CutsOff, Took, PendingInHand
    <2> QED BY <2>2, <2>3
  <1>2. CASE UNCHANGED vars
    BY <1>2 DEF vars, PendingInHand
  <1> QED BY <1>1, <1>2

\* The identities of applications are positive numbers.
LEMMA MillisecondsAreNumbers == Milliseconds \subseteq Nat \ {0}
  <1> DEFINE last == MaxCalls["review"] + MaxCalls["replay"] + MaxCalls["request"]
                     + MaxCalls["bridge"] + MaxCalls["apply"] + MaxCalls["rollback"]
                     + MaxCalls["foreign"]
  <1>1. last \in Nat
    BY MemoryAssumption
  <1> QED BY <1>1 DEF Milliseconds

\* The state of an application whose candidate is in the file is the candidate's.
LEMMA InFileLifecycle ==
    ASSUME KeyedFile(tcells), NEW cell \in tcells
    PROVE  LifecycleOf(cell.id) =
               [state |-> IF cell.lifecycle = "reviewed" THEN "reviewed" ELSE "pending",
                content |-> cell.trace.candidateId]
  <1>1. (CHOOSE c \in tcells : c.id = cell.id) = cell
    BY DEF KeyedFile
  <1> QED BY <1>1 DEF LifecycleOf, InFile

\* Two states that agree on the candidate of an id, or whether it is spent.
LEMMA LifecycleKept ==
    ASSUME KeyedFile(tcells), KeyedFile(tcells'), NEW id,
           \A cell : cell.id = id => (cell \in tcells <=> cell \in tcells'),
           InFile(id) \/ ((id < now /\ Cut(id)) <=> (id < now /\ Cut(id))')
    PROVE  LifecycleOf(id)' = LifecycleOf(id)
  <1>1. CASE InFile(id)
    <2>1. PICK cell \in tcells : cell.id = id
      BY <1>1 DEF InFile
    <2>2. cell \in tcells'
      BY <2>1
    <2>3. (CHOOSE c \in tcells : c.id = id) = cell /\ (CHOOSE c \in tcells' : c.id = id) = cell
      BY <2>1, <2>2 DEF KeyedFile
    <2> QED BY <2>1, <2>2, <2>3 DEF LifecycleOf, InFile
  <1>2. CASE ~InFile(id)
    <2>1. ~InFile(id)'
      BY <1>2 DEF InFile
    <2> QED BY <1>2, <2>1 DEF LifecycleOf
  <1> QED BY <1>1, <1>2

\* A step that adds nothing to the file and lets no spent id become unspent leaves
\* each application alone or ends it.
LEMMA KeptOrGone ==
    ASSUME KeyedFile(tcells), tcells' \subseteq tcells, now \in Nat, now' \in {now, now + 1},
           \A cell \in tcells : cell.id < now,
           tcells' = tcells \/ \A id : Cut(id)',
           \A id : id < now /\ Cut(id) => Cut(id)',
           NEW id \in Nat
    PROVE  LifecycleOf(id)' = LifecycleOf(id) \/ LifecycleOf(id)'.state = "gone"
  <1>1. KeyedFile(tcells')
    BY DEF KeyedFile
  <1>2. CASE InFile(id)' \/ (InFile(id) /\ tcells' = tcells)
    <2>1. \A cell : cell.id = id => (cell \in tcells <=> cell \in tcells')
      BY <1>2 DEF InFile, KeyedFile
    <2>2. InFile(id)
      BY <1>2 DEF InFile
    <2> QED BY <1>1, <2>1, <2>2, LifecycleKept
  <1>3. CASE ~InFile(id)' /\ InFile(id) /\ tcells' # tcells
    <2>1. id < now' /\ Cut(id)'
      BY <1>3 DEF InFile
    <2> QED BY <1>3, <2>1 DEF LifecycleOf
  <1>4. CASE ~InFile(id)' /\ ~InFile(id)
    BY <1>4 DEF LifecycleOf
  <1> QED BY <1>2, <1>3, <1>4

\* An effect publishes one application, reviews one, or ends some and leaves the
\* others alone.
LEMMA LifecycleStep ==
    ASSUME OneProcess, ConsentInv, IdInv, IdInv', SerialInv, PendingInHand,
           NEW a \in Actors, Effect(a)
    PROVE  \/ \A id \in Nat : LifecycleOf(id)' = LifecycleOf(id) \/ LifecycleOf(id)'.state = "gone"
           \/ \E id : /\ LifecycleOf(id).state = "unused" /\ LifecycleOf(id)'.state = "pending"
                      /\ ConsentedContent(LifecycleOf(id)'.content)
                      /\ \A i : i # id => LifecycleOf(i)' = LifecycleOf(i)
           \/ \E id : /\ LifecycleOf(id).state \in {"pending", "reviewed"}
                      /\ LifecycleOf(id)'.state = "reviewed"
                      /\ LifecycleOf(id)'.content = LifecycleOf(id).content
                      /\ \A i : i # id => LifecycleOf(i)' = LifecycleOf(i)
  <1>0. \A b \in Actors : b = a
    BY DEF OneProcess
  <1>t. TypeOK
    BY DEF ConsentInv
  <1>k. KeyedFile(tcells) /\ KeyedFile(tcells')
    BY DEF IdInv, Keyed
  <1>s. now \in Nat /\ \A cell \in tcells : cell.id < now /\ cell.id \in Nat
    BY <1>t, IdTypes DEF IdInv, Stamped
  <1>c. /\ \A id : Cut(id) <=> (pc[a] = "apply_write" => held[a].cell.id # id)
        /\ \A id : Cut(id)' <=> (pc'[a] = "apply_write" => held'[a].cell.id # id)
    BY <1>0 DEF Cut, At
  <1>1. CASE Bystands(a)
    <2>1. tcells' = tcells /\ now' \in {now, now + 1}
      BY <1>1 DEF Bystands, SameFile
    <2>2. \A id : Cut(id) => Cut(id)'
      BY <1>1, <1>c DEF Bystands, Took
    <2> QED BY <1>k, <1>s, <2>1, <2>2, KeptOrGone
  <1>2. CASE Validates(a)
    <2>1. tcells' = tcells /\ now' = now + 1
      BY <1>2 DEF Validates, SameFile
    <2>2. \A id : id < now /\ Cut(id) => Cut(id)'
      BY <1>2, <1>c, <1>s DEF Validates, Took
    <2> QED BY <1>k, <1>s, <2>1, <2>2, KeptOrGone
  <1>3. CASE WritesCell(a)
    <2>0. PICK new, id : new = held[a].cell /\ id = new.id
      OBVIOUS
    <2>1. tcells' = tcells \cup {new} /\ now' = now /\ \A i : Cut(i)'
      BY <1>3, <1>c, <2>0 DEF WritesCell, Took
    <2>2. ~InFile(id) /\ ~Cut(id) /\ \A i : i # id => Cut(i)
      BY <1>3, <1>c, <2>0 DEF WritesCell, IdInv, Fresh, Stamped, Applying, InAFile
    <2>3. new.lifecycle # "reviewed"
      BY <1>3, <2>0 DEF WritesCell, PendingInHand
    <2>4. ConsentedContent(new.trace.candidateId)
      BY <1>3, <2>0 DEF WritesCell, ConsentInv, AuthorizedInHand, Authorized, Consented, ConsentedContent
    <2>5. ASSUME NEW i, i # id PROVE LifecycleOf(i)' = LifecycleOf(i)
      <3>1. \A cell : cell.id = i => (cell \in tcells <=> cell \in tcells')
        BY <2>0, <2>1, <2>5
      <3>2. (i < now /\ Cut(i)) <=> (i < now /\ Cut(i))'
        BY <2>1, <2>2, <2>5
      <3> QED BY <1>k, <3>1, <3>2, LifecycleKept
    <2>6. LifecycleOf(id).state = "unused"
      BY <2>2 DEF LifecycleOf
    <2>7. LifecycleOf(id)' = [state |-> "pending", content |-> new.trace.candidateId]
      <3>1. (CHOOSE c \in tcells' : c.id = id) = new
        BY <1>k, <2>0, <2>1 DEF KeyedFile
      <3>2. new \in tcells'
        BY <2>1
      <3>3. \E cell \in tcells' : cell.id = id
        BY <2>0, <3>2
      <3> QED BY <2>3, <3>1, <3>3 DEF LifecycleOf, InFile
    <2> QED BY <2>4, <2>5, <2>6, <2>7
  <1>4. CASE RecordsApply(a)
    <2>1. tcells' = tcells /\ now' = now
      BY <1>4 DEF RecordsApply
    <2>2. \A id : Cut(id)'
      BY <1>4, <1>c DEF RecordsApply, Took
    <2> QED BY <1>k, <1>s, <2>1, <2>2, KeptOrGone
  <1>5. CASE ReadsFile(a)
    <2>1. tcells' = tcells /\ now' = now + 1
      BY <1>5 DEF ReadsFile, SameFile
    <2>2. \A id : Cut(id)'
      BY <1>5, <1>c DEF ReadsFile, Took
    <2> QED BY <1>k, <1>s, <2>1, <2>2, KeptOrGone
  <1>6. CASE TakesOut(a)
    <2>1. tcells' \subseteq tcells /\ now' = now
      BY <1>6 DEF TakesOut, WithoutCell, SerialInv, SeenIsFile
    <2>2. \A id : Cut(id)'
      BY <1>6, <1>c DEF TakesOut, Took
    <2> QED BY <1>k, <1>s, <2>1, <2>2, KeptOrGone
  <1>7. CASE RecordsRollback(a)
    <2>1. tcells' = tcells /\ now' = now
      BY <1>7 DEF RecordsRollback
    <2>2. \A id : Cut(id)'
      BY <1>7, <1>c DEF RecordsRollback, Took
    <2> QED BY <1>k, <1>s, <2>1, <2>2, KeptOrGone
  <1>8. CASE Reviews(a)
    <2>0. PICK id : id = held[a].reviewed
      OBVIOUS
    <2>1. \A cell \in tcells : /\ ReviewedCell(cell, held[a].id).id = cell.id
                               /\ ReviewedCell(cell, held[a].id).trace = cell.trace
                               /\ ReviewedCell(cell, held[a].id).lifecycle = "reviewed"
      BY <1>t DEF TypeOK, ReviewedCell, CellType
    <2>2. /\ tcells' = {IF cell.id = id THEN ReviewedCell(cell, held[a].id) ELSE cell : cell \in tcells}
          /\ now' = now
      BY <1>8, <2>0 DEF Reviews, SerialInv, SeenIsFile
    <2>3. \A i : Cut(i) /\ Cut(i)'
      BY <1>8, <1>c DEF Reviews, Took
    <2>4. ASSUME NEW i, i # id \/ ~InFile(id) PROVE LifecycleOf(i)' = LifecycleOf(i)
      <3>1. ASSUME NEW cell, cell.id = i PROVE cell \in tcells <=> cell \in tcells'
        <4>1. cell \in tcells => cell \in tcells'
          BY <2>2, <2>4, <3>1 DEF InFile
        <4>2. cell \in tcells' => cell \in tcells
          BY <2>1, <2>2, <2>4, <3>1 DEF InFile
        <4> QED BY <4>1, <4>2
      <3> QED BY <1>k, <2>2, <2>3, <3>1, LifecycleKept
    <2>5. CASE InFile(id)
      <3>1. PICK cell \in tcells : cell.id = id
        BY <2>5 DEF InFile
      <3>n. PICK new : new = ReviewedCell(cell, held[a].id)
        OBVIOUS
      <3>2. /\ new \in tcells' /\ new.id = id /\ new.trace = cell.trace
            /\ new.lifecycle = "reviewed"
        BY <2>1, <2>2, <3>1, <3>n
      <3>3. LifecycleOf(id) = [state |-> IF cell.lifecycle = "reviewed" THEN "reviewed" ELSE "pending",
                               content |-> cell.trace.candidateId]
        BY <1>k, <3>1, InFileLifecycle
      <3>4. LifecycleOf(id)' = [state |-> "reviewed", content |-> cell.trace.candidateId]
        <4>1. (CHOOSE c \in tcells' : c.id = id) = new
          BY <1>k, <3>2 DEF KeyedFile
        <4>2. \E c \in tcells' : c.id = id
          BY <3>2
        <4> QED BY <3>2, <4>1, <4>2 DEF LifecycleOf, InFile
      <3>5. /\ LifecycleOf(id).state \in {"pending", "reviewed"}
            /\ LifecycleOf(id)'.state = "reviewed"
            /\ LifecycleOf(id)'.content = LifecycleOf(id).content
        BY <3>3, <3>4
      <3> QED BY <2>4, <3>5
    <2> QED BY <2>4, <2>5
  <1>9. CASE CutsOff(a)
    <2>1. now' = now /\ tcells' \subseteq tcells
      BY <1>9 DEF CutsOff
    <2>2. \A id : Cut(id)'
      BY <1>9, <1>c DEF CutsOff, Took
    <2> QED BY <1>k, <1>s, <2>1, <2>2, KeptOrGone
  <1> QED BY <1>1, <1>2, <1>3, <1>4, <1>5, <1>6, <1>7, <1>8, <1>9 DEF Effect

\* Nothing is published at the start.
LEMMA LifecycleInit == Init => Lifecycle!Init
  <1> SUFFICES ASSUME Init, NEW id \in Milliseconds
               PROVE  LifecycleOf(id).state = "unused"
    BY DEF Lifecycle!Init, Lifecycle!StateOf
  <1>1. now = 1 /\ ~InFile(id) /\ ~(id < 1)
    BY MillisecondsAreNumbers DEF Init, InFile
  <1> QED BY <1>1 DEF LifecycleOf

\* Each step of a call, and each crash, publishes one candidate, reviews one,
\* ends some, or changes nothing the lifecycle tells.
LEMMA LifecycleNext ==
    ASSUME OneProcess, ConsentInv, IdInv, IdInv', SerialInv, PendingInHand, [Next]_vars
    PROVE  [Lifecycle!Next]_([id \in Milliseconds |-> LifecycleOf(id)])
  <1> DEFINE app == [id \in Milliseconds |-> LifecycleOf(id)]
  <1>1. /\ \A id \in Milliseconds : app[id] = LifecycleOf(id) /\ app'[id] = LifecycleOf(id)'
        /\ DOMAIN app' = DOMAIN app
    OBVIOUS
  <1>2. ASSUME \A id \in Milliseconds :
                   LifecycleOf(id)' = LifecycleOf(id) \/ LifecycleOf(id)'.state = "gone"
        PROVE  Lifecycle!Next
    <2> DEFINE S == {id \in Milliseconds : LifecycleOf(id)' # LifecycleOf(id)}
    <2>1. Lifecycle!Retire(S)
      BY <1>1, <1>2 DEF Lifecycle!Retire, Lifecycle!Untouched, Lifecycle!StateOf
    <2> QED BY <2>1 DEF Lifecycle!Next
  <1>3. ASSUME \A id \in Milliseconds : LifecycleOf(id)' = LifecycleOf(id)
        PROVE  Lifecycle!Next
    BY <1>2, <1>3
  <1>4. CASE Next
    <2>1. PICK a \in Actors : Effect(a)
      BY <1>4, Effects DEF ConsentInv
    <2>2. CASE \A id \in Nat : LifecycleOf(id)' = LifecycleOf(id) \/ LifecycleOf(id)'.state = "gone"
      BY <1>2, <2>2, MillisecondsAreNumbers
    <2>3. ASSUME NEW id,
                 LifecycleOf(id).state = "unused", LifecycleOf(id)'.state = "pending",
                 ConsentedContent(LifecycleOf(id)'.content),
                 \A i : i # id => LifecycleOf(i)' = LifecycleOf(i)
          PROVE  Lifecycle!Next
      <3>1. CASE id \in Milliseconds
        <4>1. Lifecycle!Publish(id)
          BY <1>1, <2>3, <3>1 DEF Lifecycle!Publish, Lifecycle!Untouched, Lifecycle!StateOf
        <4> QED BY <3>1, <4>1 DEF Lifecycle!Next
      <3> QED BY <1>3, <2>3, <3>1
    <2>4. ASSUME NEW id,
                 LifecycleOf(id).state \in {"pending", "reviewed"},
                 LifecycleOf(id)'.state = "reviewed",
                 LifecycleOf(id)'.content = LifecycleOf(id).content,
                 \A i : i # id => LifecycleOf(i)' = LifecycleOf(i)
          PROVE  Lifecycle!Next
      <3>1. CASE id \in Milliseconds
        <4>1. Lifecycle!Review(id)
          BY <1>1, <2>4, <3>1 DEF Lifecycle!Review, Lifecycle!Untouched, Lifecycle!StateOf
        <4> QED BY <3>1, <4>1 DEF Lifecycle!Next
      <3> QED BY <1>3, <2>4, <3>1
    <2> QED BY <2>1, <2>2, <2>3, <2>4, LifecycleStep
  <1>5. CASE UNCHANGED vars
    <2>1. \A id : LifecycleOf(id)' = LifecycleOf(id)
      BY <1>5 DEF vars, LifecycleOf, InFile, Cut, At
    <2> QED BY <1>3, <2>1
  <1> QED BY <1>4, <1>5

\* With one process, crashes included, the calls implement CandidateLifecycle: a
\* candidate is published only for content the user approved, reviewed only
\* while it is there, and never back once it is gone.
THEOREM Implements_Lifecycle ==
    ASSUME OneProcess
    PROVE  Spec => ImplementsLifecycle
  <1> DEFINE Inv == ConsentInv /\ IdInv /\ SerialInv /\ PendingInHand
  <1>1. Init => Inv
    BY ConsentInit, IdInit, SerialInit DEF Init, PendingInHand
  <1>2. Inv /\ [Next]_vars => Inv'
    BY ConsentStep, IdNext, SerialNext, PendingNext DEF ConsentInv
  <1>3. Init => Lifecycle!Init
    BY LifecycleInit
  <1>4. Inv /\ Inv' /\ [Next]_vars => [Lifecycle!Next]_([id \in Milliseconds |-> LifecycleOf(id)])
    BY LifecycleNext
  <1> HIDE DEF Inv
  <1> QED BY <1>1, <1>2, <1>3, <1>4, PTL DEF Spec, ImplementsLifecycle, Lifecycle!Spec
=============================================================================
