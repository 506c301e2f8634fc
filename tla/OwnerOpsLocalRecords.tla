-------------------------- MODULE OwnerOpsLocalRecords --------------------------
(***************************************************************************)
(* The local records of Owner Ops (src/src/core/owner-ops.js) and the MCP     *)
(* server that writes them for an approval receipt                           *)
(* (owner-ops-mcp-server.js).                                                 *)
(*                                                                          *)
(* A record is added by reading the file, dropping the record of the same id,  *)
(* and writing the file again with the new record.  An id is a workflow  *)
(* and a second.  The CLI, the gateway and MCP servers do so on one root       *)
(* without a lock.  An MCP server first spends the receipt in its memory:       *)
(* a failed write keeps it spent, a new server process knows nothing of it.    *)
(*                                                                          *)
(* Abstractions.  The signature, the root and the id of a receipt are one       *)
(* token: a receipt is what was issued, or it is no receipt.  Its request       *)
(* digest is the workflow.  Records are counted and looked up by id: the file   *)
(* is the set of them.                                                         *)
(***************************************************************************)
EXTENDS Integers, Sequences, FiniteSets

CONSTANTS
    Servers,        \* MCP server processes, one user each
    Others,         \* the CLI and the gateway, which ask for no receipt
    Users,
    Workflows,
    MaxSecond,      \* bound: seconds that pass
    MaxReceipts,    \* bound: receipts issued
    MaxWrites,      \* bound: calls that write
    MaxStops        \* bound: processes that stop, writes that fail

ASSUME RecordsAssumption ==
    /\ Servers \cap Others = {}
    /\ {MaxSecond, MaxReceipts, MaxWrites, MaxStops} \subseteq Nat

Writers == Servers \cup Others

VARIABLES
    second,         \* the clock
    receipts,       \* the receipts issued, in order
    userOf,         \* the user each server runs for
    spent,          \* the receipts each server process remembers
    life,           \* how many processes each server has had
    writer,         \* where each process is in its call
    recordFile,     \* the records in the file
    written,        \* every record whose write was carried out, in order
    stops           \* processes stopped and writes failed

recordVars == <<second, receipts, userOf, spent, life, writer, recordFile,
                written, stops>>

-----------------------------------------------------------------------------
NoReceipt == 0
AtRest == [at |-> "rest"]

\* buildRecordId
RecordId(record) == <<record.workflow, record.createdAt>>

\* Mutant: one record of a workflow.
OnePerWorkflow(record, current) ==
    {record} \cup {r \in current : r.workflow # record.workflow}

\* appendJsonlRecord: one record of an id.
WithRecord(record, current) ==
    {record} \cup {r \in current : RecordId(r) # RecordId(record)}

\* createOwnerOpsLocalWriteApprovalReceipt, by whoever holds the secret.
IssueReceipt(user, workflow, ttl) ==
    /\ Len(receipts) < MaxReceipts
    /\ receipts' = Append(receipts, [user |-> user, workflow |-> workflow,
                                     expiresAt |-> second + ttl])
    /\ UNCHANGED <<second, userOf, spent, life, writer, recordFile, written,
                   stops>>

NextSecond ==
    /\ second < MaxSecond
    /\ second' = second + 1
    /\ UNCHANGED <<receipts, userOf, spent, life, writer, recordFile, written,
                   stops>>

\* verifyOwnerOpsLocalWriteApprovalReceipt
Verified(server, workflow, r) ==
    /\ receipts[r].user = userOf[server]
    /\ receipts[r].workflow = workflow
    /\ receipts[r].expiresAt > second

Calls == Len(written) + Cardinality({w \in Writers : writer[w] # AtRest})

\* `seen`, the writes so far, is kept to state properties with.
Read(w, workflow, r) ==
    /\ writer[w] = AtRest
    /\ Calls < MaxWrites
    /\ LET record == [workflow |-> workflow, createdAt |-> second, by |-> w,
                      life |-> life[w], receipt |-> r]
       IN  writer' = [writer EXCEPT ![w] =
                        [at |-> "write", record |-> record,
                         before |-> recordFile, seen |-> Len(written)]]

\* Mutant: the receipt is not spent.
CallToolSpendingNothing(s, workflow, r) ==
    /\ Verified(s, workflow, r)
    /\ r \notin spent[s]
    /\ Read(s, workflow, r)
    /\ UNCHANGED <<second, receipts, userOf, spent, life, recordFile, written,
                   stops>>

\* callOwnerOpsMcpTool, owner_ops.local_record_write: spend, then write.
CallTool(s, workflow, r) ==
    /\ Verified(s, workflow, r)
    /\ r \notin spent[s]
    /\ spent' = [spent EXCEPT ![s] = @ \cup {r}]
    /\ Read(s, workflow, r)
    /\ UNCHANGED <<second, receipts, userOf, life, recordFile, written, stops>>

\* The record-write command and the route of the gateway.
CallDirect(w, workflow) ==
    /\ Read(w, workflow, NoReceipt)
    /\ UNCHANGED <<second, receipts, userOf, spent, life, recordFile, written,
                   stops>>

WriteRecord(w) ==
    /\ writer[w] # AtRest
    /\ recordFile' = WithRecord(writer[w].record, writer[w].before)
    /\ written' = Append(written, [record |-> writer[w].record,
                                   seen |-> writer[w].seen])
    /\ writer' = [writer EXCEPT ![w] = AtRest]
    /\ UNCHANGED <<second, receipts, userOf, spent, life, stops>>

\* The file cannot be written: the caller gets an error, the server goes on.
WriteFails(w) ==
    /\ writer[w] # AtRest /\ stops < MaxStops
    /\ stops' = stops + 1
    /\ writer' = [writer EXCEPT ![w] = AtRest]
    /\ UNCHANGED <<second, receipts, userOf, spent, life, recordFile, written>>

\* A process stops, in a call or not, before its write; a new one takes over.
Restart(s) ==
    /\ stops < MaxStops
    /\ stops' = stops + 1
    /\ writer' = [writer EXCEPT ![s] = AtRest]
    /\ spent' = [spent EXCEPT ![s] = {}]
    /\ life' = [life EXCEPT ![s] = @ + 1]
    /\ UNCHANGED <<second, receipts, userOf, recordFile, written>>

RecordsInit ==
    /\ second = 0 /\ receipts = <<>> /\ recordFile = {} /\ written = <<>>
    /\ stops = 0
    /\ userOf \in [Servers -> Users]
    /\ spent = [s \in Servers |-> {}]
    /\ life = [w \in Writers |-> 1]
    /\ writer = [w \in Writers |-> AtRest]

RecordsNext ==
    \/ NextSecond
    \/ \E user \in Users, workflow \in Workflows, ttl \in 1..MaxSecond :
          IssueReceipt(user, workflow, ttl)
    \/ \E s \in Servers, workflow \in Workflows, r \in DOMAIN receipts :
          CallTool(s, workflow, r)
    \/ \E w \in Others, workflow \in Workflows : CallDirect(w, workflow)
    \/ \E w \in Writers : WriteRecord(w) \/ WriteFails(w)
    \/ \E s \in Servers : Restart(s)

RecordsSpec == RecordsInit /\ [][RecordsNext]_recordVars

-----------------------------------------------------------------------------
(* Properties *)

\* A record that was reported as written stays in the file, unless another of
\* the same workflow was written in the same second, or a slower process had read
\* the file before it was there and then wrote it back.
RecordsKept ==
    \A i \in DOMAIN written :
        \/ written[i].record \in recordFile
        \/ \E j \in DOMAIN written :
              /\ j > i
              /\ \/ RecordId(written[j].record) = RecordId(written[i].record)
                 \/ written[j].seen < i

\* A server writes for a receipt issued to its user for that workflow before it
\* expired, and no process writes twice for one: a second record of a receipt
\* is from another process, one started again or one of the same user.
ReceiptSpentOnce ==
    \A i \in DOMAIN written :
        LET record == written[i].record IN
        record.by \in Servers =>
            /\ record.receipt \in DOMAIN receipts
            /\ receipts[record.receipt].user = userOf[record.by]
            /\ receipts[record.receipt].workflow = record.workflow
            /\ record.createdAt < receipts[record.receipt].expiresAt
            /\ \A j \in DOMAIN written \ {i} :
                  LET other == written[j].record IN
                  other.receipt = record.receipt =>
                      other.by # record.by \/ other.life # record.life
=============================================================================
