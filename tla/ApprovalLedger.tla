--------------------------- MODULE ApprovalLedger ---------------------------
(***************************************************************************)
(* The local approval and audit ledgers of GPAO-T                           *)
(* (src/src/core/approval-audit-records.js): two JSONL files that are only  *)
(* ever appended to, written one after the other by                         *)
(* writeApprovalAuditLocalRecords and read back newest first through a      *)
(* window of a fixed number of lines.                                       *)
(*                                                                          *)
(* A proposal is abstracted to its id (the apply request it is about, or    *)
(* the one foreign proposal Other) and its expectedEffect (the binding      *)
(* trace: which candidate, which target, which user turn).                  *)
(***************************************************************************)
EXTENDS Naturals, Sequences

CONSTANTS
    ReadLimit,      \* lines an apply reads back from each ledger (500)
    ReplayLimit,    \* lines the replay after a write reads back (100)
    StampWidth      \* calls whose record ids share one 14-digit stamp

ASSUME LedgerAssumption ==
    /\ ReadLimit \in Nat \ {0}
    /\ ReplayLimit \in Nat \ {0}
    /\ StampWidth \in Nat \ {0}

VARIABLES
    approvalRecords,    \* approval-records.jsonl, oldest line first
    auditRecords        \* audit-records.jsonl, oldest line first

ledgerVars == <<approvalRecords, auditRecords>>

Explicit  == "explicit_user_approval_recorded"
LocalOnly == "confirmed_for_local_record_only"

\* The stamp has the resolution of a second and the proposal id is appended
\* to it, so two records about one proposal in one second share their id.
BuildRecordId(proposalId, time) == <<time \div StampWidth, proposalId>>

BuildApprovalRecord(proposalId, effect, confirmation, time) ==
    [id |-> BuildRecordId(proposalId, time), proposalId |-> proposalId,
     confirmationState |-> confirmation, expectedEffect |-> effect]

BuildAuditRecord(approvalRecord) ==
    [id |-> approvalRecord.id, approvalRecordId |-> approvalRecord.id,
     proposalId |-> approvalRecord.proposalId,
     userConfirmationState |-> approvalRecord.confirmationState,
     expectedEffect |-> approvalRecord.expectedEffect]

AppendApproval(rec) == approvalRecords' = Append(approvalRecords, rec)
AppendAudit(rec)    == auditRecords' = Append(auditRecords, rec)

\* What `read(limit).reverse().find(id)` returns: line i, if it is the newest
\* line with that id and is among the newest `limit` lines.
IsNewest(ledger, i, recordId, limit) ==
    /\ i \in DOMAIN ledger
    /\ ledger[i].id = recordId
    /\ \A j \in DOMAIN ledger : j > i => ledger[j].id # recordId
    /\ i + limit > Len(ledger)

\* buildApprovalAuditReplay reports "ready" as soon as it finds the record.
ReplayReady(recordId) ==
    \E i \in DOMAIN approvalRecords :
        IsNewest(approvalRecords, i, recordId, ReplayLimit)

\* validateApprovalLedgerReceipt: the records the receipt names are in both
\* ledgers and agree with the proposal the receipt was issued for.
ReceiptHolds(recordId, proposalId, effect) ==
    /\ \E i \in DOMAIN approvalRecords :
        /\ IsNewest(approvalRecords, i, recordId, ReadLimit)
        /\ approvalRecords[i].proposalId = proposalId
        /\ approvalRecords[i].confirmationState = Explicit
        /\ approvalRecords[i].expectedEffect = effect
    /\ \E i \in DOMAIN auditRecords :
        /\ IsNewest(auditRecords, i, recordId, ReadLimit)
        /\ auditRecords[i].approvalRecordId = recordId
        /\ auditRecords[i].proposalId = proposalId
        /\ auditRecords[i].userConfirmationState = Explicit
        /\ auditRecords[i].expectedEffect = effect
=============================================================================
