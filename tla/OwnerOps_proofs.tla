----------------------------- MODULE OwnerOps_proofs -----------------------------
(***************************************************************************)
(* What allowed a dry run on record, what an index, a package and its evidence  *)
(* say, and what the owner's decisions rest on: for any root, any processes,     *)
(* lanes, lifetimes and reports, and any number of calls, crashes and ticks.     *)
(***************************************************************************)
EXTENDS OwnerOpsTesting, OwnerOpsLocalRecords, TLAPS

(***************************************************************************)
(* The invariant.                                                            *)
(***************************************************************************)

\* What InvocationCovered says of one run.
Covered(run) ==
    /\ run.approval \in ToSet(ledger["approval"])
    /\ run.approval.lane = run.lane
    /\ run.approval.bundle = run.onDisk
    /\ run.bundle = run.onDisk
    /\ run.approval.createdAt <= run.createdAt
    /\ run.createdAt < run.approval.expiresAt
    /\ run.bundle \in past.whole

Given(approval) == approval.createdAt \in Nat /\ approval.createdAt <= now

\* A call that writes a record, or a package, has the fields it goes on with; an
\* approval that is about to be written is of now or before, a run is covered.
RecordCall(c) == c = [kind |-> c.kind, step |-> c.step, rec |-> c.rec, count |-> c.count]
PackageCall(c) ==
    c = [kind |-> c.kind, step |-> c.step, write |-> c.write] /\ c.step \in 1..3
GoodCall(c) ==
    /\ c.kind \in Ledgers => RecordCall(c)
    /\ c.kind = "package" => PackageCall(c)
    /\ c.kind = "approval" => Given(c.rec)
    /\ c.kind = "invocation" => Covered(c.rec)

PastShape ==
    past = [cut |-> past.cut, overlapped |-> past.overlapped, writes |-> past.writes,
            whole |-> past.whole]

Shaped ==
    /\ now \in Nat
    /\ call = [a \in Actors |-> call[a]]
    /\ package = [part \in PartNames |-> package[part]]
    /\ ledger = [L \in Ledgers |-> ledger[L]]
    /\ \E S : \A L \in Ledgers : ledger[L] \in Seq(S)
    /\ PastShape

CallsGood == \A a \in Actors : call[a] # Idle => GoodCall(call[a])
PackageOnce == Whole(package) => package["bundle"].id \in past.whole
LegacyOnce == legacy # NoWrite => legacy.id \in past.whole
ApprovalsGiven == \A approval \in ToSet(ledger["approval"]) : Given(approval)
RunsCovered == \A run \in ToSet(ledger["invocation"]) : Covered(run)

RunInv ==
    /\ Shaped /\ CallsGood
    /\ PackageOnce /\ LegacyOnce
    /\ ApprovalsGiven /\ RunsCovered

(***************************************************************************)
(* Lemmas on the operators.                                                  *)
(***************************************************************************)

\* A package has three parts.
LEMMA PartNamesAre == PartNames = {"bundle", "manifest", "sha256"} /\ Len(Parts) = 3
  <1>1. DOMAIN Parts = {1, 2, 3} /\ Len(Parts) = 3
    BY DEF Parts
  <1>2. Parts[1] = "bundle" /\ Parts[2] = "manifest" /\ Parts[3] = "sha256"
    BY DEF Parts
  <1> QED BY <1>1, <1>2 DEF PartNames, ToSet

\* What a sequence holds once something is appended.
LEMMA Appended ==
    ASSUME NEW S, NEW s \in Seq(S), NEW x
    PROVE  Append(s, x) \in Seq(S \cup {x}) /\ ToSet(Append(s, x)) = ToSet(s) \cup {x}
  <1>1. s \in Seq(S \cup {x})
    OBVIOUS
  <1>2. Append(s, x) \in Seq(S \cup {x})
    BY <1>1
  <1>3. /\ DOMAIN Append(s, x) = DOMAIN s \cup {Len(s) + 1}
        /\ Append(s, x)[Len(s) + 1] = x
        /\ \A i \in DOMAIN s : Append(s, x)[i] = s[i]
    BY <1>1
  <1> QED BY <1>2, <1>3 DEF ToSet

\* The package a reader finds whole was complete on disk once.
LEMMA ReadbackOnce ==
    ASSUME RunInv, PackageReadback
    PROVE  BundleSha256 \in past.whole
  <1>1. Whole(TargetSet) /\ ArtifactSetExists(TargetSet)
    BY DEF PackageReadback, Whole
  <1>2. BundleSha256 = TargetSet["bundle"].id
    BY <1>1 DEF BundleSha256
  <1>3. CASE TargetSet = package
    BY <1>1, <1>2, <1>3 DEF RunInv, PackageOnce
  <1>4. CASE TargetSet = LegacySet
    <2>1. LegacySet["bundle"] = legacy
      BY PartNamesAre DEF LegacySet
    <2>2. legacy # NoWrite
      BY <1>1, <1>4, <2>1, PartNamesAre DEF ArtifactSetExists
    <2> QED BY <1>2, <1>4, <2>1, <2>2 DEF RunInv, LegacyOnce
  <1> QED BY <1>3, <1>4 DEF TargetSet

\* A root starts with no call, no approval and no run.
LEMMA RunInvInit ==
    ASSUME NEW root, NEW events, TestingInit(root, events)
    PROVE  RunInv
  <1> USE DEF TestingInit, ReleaseInit
  <1>1. Shaped
    <2>1. \A L \in Ledgers : ledger[L] \in Seq({})
      OBVIOUS
    <2>2. PastShape
      BY DEF PastShape, NothingPast
    <2> QED BY <2>1, <2>2 DEF Shaped
  <1>2. CallsGood
    BY DEF CallsGood
  <1>3. PackageOnce /\ LegacyOnce
    BY PartNamesAre DEF PackageOnce, LegacyOnce, Whole, ArtifactSetExists, NoWrite, NothingPast
  <1>4. ApprovalsGiven /\ RunsCovered
    BY DEF ApprovalsGiven, RunsCovered, Ledgers, ToSet
  <1> QED BY <1>1, <1>2, <1>3, <1>4 DEF RunInv

\* The invariant is about the runs on record.
LEMMA RunsAreCovered == RunInv => InvocationCovered
  BY DEF RunInv, RunsCovered, Covered, InvocationCovered, ToSet

(***************************************************************************)
(* What goes on holds on: time passes, approvals and whole packages only grow.*)
(***************************************************************************)

\* A covered run stays covered.
LEMMA CoveredKept ==
    ASSUME past.whole \subseteq past'.whole,
           ToSet(ledger["approval"]) \subseteq ToSet(ledger'["approval"]),
           NEW run, Covered(run)
    PROVE  Covered(run)'
  BY DEF Covered

\* An approval stays given.
LEMMA GivenKept ==
    ASSUME now \in Nat, now' \in Nat, now <= now', NEW approval, Given(approval)
    PROVE  Given(approval)'
  BY DEF Given

\* A call stays good.
LEMMA GoodKept ==
    ASSUME past.whole \subseteq past'.whole,
           ToSet(ledger["approval"]) \subseteq ToSet(ledger'["approval"]),
           now \in Nat, now' \in Nat, now <= now',
           NEW c, GoodCall(c)
    PROVE  GoodCall(c)'
  BY CoveredKept, GivenKept DEF GoodCall, RecordCall, PackageCall

\* The frame of a step that leaves the files alone.
LEMMA FilesKeep ==
    ASSUME RunInv, UNCHANGED <<package, legacy, ledger>>, now' \in Nat, now <= now',
           PastShape', past.whole \subseteq past'.whole
    PROVE  /\ PackageOnce' /\ LegacyOnce' /\ ApprovalsGiven' /\ RunsCovered'
           /\ (call' = [a \in Actors |-> call'[a]] => Shaped')
           /\ \A c : GoodCall(c) => GoodCall(c)'
  <1>0. now \in Nat
    BY DEF RunInv, Shaped
  <1>1. PackageOnce' /\ LegacyOnce'
    BY DEF RunInv, PackageOnce, LegacyOnce, Whole, ArtifactSetExists
  <1>2. ApprovalsGiven'
    BY <1>0 DEF RunInv, ApprovalsGiven, Given
  <1>3. RunsCovered'
    BY DEF RunInv, RunsCovered, Covered
  <1>4. call' = [a \in Actors |-> call'[a]] => Shaped'
    BY DEF RunInv, Shaped
  <1>5. ASSUME NEW c, GoodCall(c) PROVE GoodCall(c)'
    BY <1>0, <1>5, GoodKept
  <1> QED BY <1>1, <1>2, <1>3, <1>4, <1>5

\* A step of one call that leaves the files alone.
LEMMA CallKeeps ==
    ASSUME RunInv, NEW a \in Actors, NEW c, call' = [call EXCEPT ![a] = c],
           c = Idle \/ GoodCall(c),
           UNCHANGED <<package, legacy, ledger, now>>,
           PastShape', past.whole \subseteq past'.whole
    PROVE  RunInv'
  <1>1. /\ call' = [b \in Actors |-> call'[b]]
        /\ call'[a] = c
        /\ \A b \in Actors \ {a} : call'[b] = call[b]
    BY DEF RunInv, Shaped
  <1>2. now' \in Nat /\ now <= now'
    BY DEF RunInv, Shaped
  <1>3. /\ PackageOnce' /\ LegacyOnce' /\ ApprovalsGiven' /\ RunsCovered' /\ Shaped'
        /\ \A d : GoodCall(d) => GoodCall(d)'
    BY <1>1, <1>2, FilesKeep
  <1>4. \A b \in Actors : call'[b] # Idle => GoodCall(call'[b])
    BY <1>1 DEF RunInv, CallsGood
  <1>5. CallsGood'
    <2> SUFFICES ASSUME NEW b \in Actors, call'[b] # Idle PROVE GoodCall(call[b])'
      BY DEF CallsGood
    <2>1. PICK d : d = call'[b]
      OBVIOUS
    <2>2. GoodCall(d)'
      BY <1>3, <1>4, <2>1
    <2> QED BY <2>1, <2>2 DEF GoodCall, RecordCall, PackageCall, Given, Covered
  <1> QED BY <1>3, <1>5 DEF RunInv

(***************************************************************************)
(* Time, packages and evidence.                                              *)
(***************************************************************************)

\* Time and updates of the program touch no call.
LEMMA OutsideKeeps ==
    ASSUME RunInv, UpdateRoot \/ Tick
    PROVE  RunInv'
  <1>1. /\ UNCHANGED <<package, legacy, ledger, call, past>>
        /\ now' \in Nat /\ now <= now'
    BY DEF UpdateRoot, Tick, RunInv, Shaped
  <1>2. PastShape' /\ past.whole \subseteq past'.whole
    BY <1>1 DEF RunInv, Shaped, PastShape
  <1>3. /\ PackageOnce' /\ LegacyOnce' /\ ApprovalsGiven' /\ RunsCovered'
        /\ (call' = [a \in Actors |-> call'[a]] => Shaped')
        /\ \A c : GoodCall(c) => GoodCall(c)'
    BY <1>1, <1>2, FilesKeep
  <1>4. Shaped'
    BY <1>1, <1>3 DEF RunInv, Shaped
  <1>5. CallsGood'
    <2> SUFFICES ASSUME NEW b \in Actors, call'[b] # Idle PROVE GoodCall(call[b])'
      BY DEF CallsGood
    <2>1. PICK d : d = call[b]
      OBVIOUS
    <2>2. GoodCall(d)'
      BY <1>1, <1>3, <2>1 DEF RunInv, CallsGood
    <2> QED BY <1>1, <2>1, <2>2 DEF GoodCall, RecordCall, PackageCall, Given, Covered
  <1> QED BY <1>3, <1>4, <1>5 DEF RunInv

\* A call is noted as overlapping another, and nothing of a package is forgotten.
LEMMA NotePastKeeps ==
    ASSUME RunInv, NEW a \in Actors, NEW kind, NotePast(a, kind)
    PROVE  PastShape' /\ past.whole \subseteq past'.whole
  BY DEF NotePast, RunInv, Shaped, PastShape

\* A call that is cut short leaves its files as they are.
LEMMA CrashKeeps ==
    ASSUME RunInv, NEW a \in Actors, Crash(a)
    PROVE  RunInv'
  <1>1. PastShape' /\ past.whole \subseteq past'.whole
    BY DEF Crash, RunInv, Shaped, PastShape
  <1> QED BY <1>1, CallKeeps DEF Crash, Leave

\* A write of a package starts.
LEMMA BeginPackageKeeps ==
    ASSUME RunInv, NEW a \in Actors, BeginPackage(a)
    PROVE  RunInv'
  <1>1. PastShape' /\ past.whole \subseteq past'.whole
    BY DEF BeginPackage, RunInv, Shaped, PastShape
  <1>2. PICK c : /\ call' = [call EXCEPT ![a] = c]
                 /\ \E write : c = [kind |-> "package", step |-> 1, write |-> write]
    BY DEF BeginPackage, Enter
  <1>3. GoodCall(c)
    BY <1>2 DEF GoodCall, PackageCall, Ledgers
  <1> QED BY <1>1, <1>2, <1>3, CallKeeps DEF BeginPackage

\* The last of the three files of a write makes its package whole.
LEMMA WritePartKeeps ==
    ASSUME RunInv, NEW a \in Actors, WritePart(a)
    PROVE  RunInv'
  <1> DEFINE c == call[a]
             set == [package EXCEPT ![Parts[c.step]] = c.write]
  <1>1. /\ call[a] # Idle /\ call[a].kind = "package"
        /\ package' = set
        /\ call' = [call EXCEPT ![a] = IF c.step < Len(Parts)
                                       THEN [c EXCEPT !.step = c.step + 1] ELSE Idle]
        /\ past' = IF \A part \in PartNames : set[part] = c.write
                   THEN [past EXCEPT !.whole = past.whole \cup {c.write.id}] ELSE past
        /\ UNCHANGED <<legacy, ledger, now>>
    BY DEF WritePart, Enter, Leave
  <1>2. PackageCall(c)
    BY <1>1 DEF RunInv, CallsGood, GoodCall
  <1>3. Parts[c.step] \in PartNames
    BY <1>2 DEF PackageCall, PartNames, Parts, ToSet
  <1>4. PastShape' /\ past.whole \subseteq past'.whole
    BY <1>1 DEF RunInv, Shaped, PastShape
  <1>5. package' = [part \in PartNames |-> package'[part]] /\ package'[Parts[c.step]] = c.write
    BY <1>1, <1>3 DEF RunInv, Shaped
  <1>6. PackageOnce'
    <2> SUFFICES ASSUME Whole(package)'
                 PROVE  (package["bundle"].id \in past.whole)'
      BY DEF PackageOnce
    <2>1. \A part \in PartNames : package'[part] = c.write
      BY <1>3, <1>5, PartNamesAre DEF Whole
    <2>2. past' = [past EXCEPT !.whole = past.whole \cup {c.write.id}]
      BY <1>1, <2>1
    <2>3. past'.whole = past.whole \cup {c.write.id}
      BY <2>2 DEF RunInv, Shaped, PastShape
    <2> QED BY <2>1, <2>3, PartNamesAre
  <1>7. now \in Nat /\ now' \in Nat /\ now <= now'
    BY <1>1 DEF RunInv, Shaped
  <1>8. PICK d : /\ call' = [call EXCEPT ![a] = d]
                 /\ d = IF c.step < Len(Parts) THEN [c EXCEPT !.step = c.step + 1] ELSE Idle
    BY <1>1
  <1>9. d = Idle \/ GoodCall(d)
    <2>1. CASE c.step < 3
      <3>1. d = [kind |-> c.kind, step |-> c.step + 1, write |-> c.write]
        BY <1>2, <1>8, <2>1, PartNamesAre DEF PackageCall
      <3>2. c.step + 1 \in 1..3
        BY <1>2, <2>1 DEF PackageCall
      <3> QED BY <1>1, <3>1, <3>2 DEF GoodCall, PackageCall, Ledgers
    <2>2. CASE ~(c.step < 3)
      BY <1>8, <2>2, PartNamesAre
    <2> QED BY <2>1, <2>2
  <1> HIDE DEF c, set
  <1>10. /\ call' = [b \in Actors |-> call'[b]]
         /\ call'[a] = d
         /\ \A b \in Actors \ {a} : call'[b] = call[b]
    BY <1>8 DEF RunInv, Shaped
  <1>11. Shaped'
    BY <1>1, <1>4, <1>5, <1>10 DEF RunInv, Shaped
  <1>12. LegacyOnce'
    BY <1>1, <1>4 DEF RunInv, LegacyOnce
  <1>13. ApprovalsGiven' /\ RunsCovered'
    BY <1>1, <1>4 DEF RunInv, ApprovalsGiven, Given, RunsCovered, Covered
  <1>14. CallsGood'
    <2> SUFFICES ASSUME NEW b \in Actors, call'[b] # Idle PROVE GoodCall(call[b])'
      BY DEF CallsGood
    <2>1. PICK e : e = call'[b]
      OBVIOUS
    <2>2. GoodCall(e)
      BY <1>9, <1>10, <2>1 DEF RunInv, CallsGood
    <2>3. GoodCall(e)'
      BY <1>1, <1>4, <1>7, <2>2, GoodKept
    <2> QED BY <2>1, <2>3 DEF GoodCall, RecordCall, PackageCall, Given, Covered
  <1> QED BY <1>6, <1>11, <1>12, <1>13, <1>14 DEF RunInv

\* Evidence files are no part of the invariant.
LEMMA EvidenceKeeps ==
    ASSUME RunInv, NEW a \in Actors,
           WriteEvidence(a) \/ \E e \in EvidenceFiles : BeginEvidence(a, e)
    PROVE  RunInv'
  <1>1. CASE WriteEvidence(a)
    <2>1. PastShape' /\ past.whole \subseteq past'.whole
      BY <1>1 DEF WriteEvidence, RunInv, Shaped, PastShape
    <2> QED BY <1>1, <2>1, CallKeeps DEF WriteEvidence, Leave
  <1>2. ASSUME NEW e \in EvidenceFiles, BeginEvidence(a, e) PROVE RunInv'
    <2>1. PastShape' /\ past.whole \subseteq past'.whole
      BY <1>2, NotePastKeeps DEF BeginEvidence
    <2>2. PICK c : /\ call' = [call EXCEPT ![a] = c]
                   /\ \E data : c = [kind |-> "evidence", step |-> "write", file |-> e,
                                     data |-> data]
      BY <1>2 DEF BeginEvidence, Enter
    <2>3. GoodCall(c)
      BY <2>2 DEF GoodCall, Ledgers
    <2> QED BY <1>2, <2>1, <2>2, <2>3, CallKeeps DEF BeginEvidence
  <1> QED BY <1>1, <1>2

(***************************************************************************)
(* Records.                                                                  *)
(***************************************************************************)

\* A call that starts holds a record that is fit to be written.
LEMMA BeginRecordKeeps ==
    ASSUME RunInv, NEW a \in Actors, NEW L \in Ledgers, NEW rec, BeginRecord(a, L, rec),
           L = "approval" => Given(rec), L = "invocation" => Covered(rec)
    PROVE  RunInv'
  <1>1. PastShape' /\ past.whole \subseteq past'.whole
    BY NotePastKeeps DEF BeginRecord
  <1>2. PICK c : /\ call' = [call EXCEPT ![a] = c]
                 /\ c = [kind |-> L, step |-> "append", rec |-> rec, count |-> 0]
    BY DEF BeginRecord, Enter
  <1>3. GoodCall(c)
    BY <1>2 DEF GoodCall, RecordCall, Ledgers
  <1> QED BY <1>1, <1>2, <1>3, CallKeeps DEF BeginRecord

\* An approval is given now.
LEMMA ApprovalGiven ==
    ASSUME RunInv, NEW a \in Actors, NEW lane \in Lanes, NEW ttl \in Ttls,
           BeginApproval(a, lane, ttl)
    PROVE  RunInv'
  <1>1. PICK rec : /\ BeginRecord(a, "approval", rec)
                   /\ rec = [lane |-> lane, bundle |-> BundleSha256,
                             createdAt |-> now, expiresAt |-> now + ttl]
    BY DEF BeginApproval
  <1>2. Given(rec)
    BY <1>1 DEF Given, RunInv, Shaped
  <1> QED BY <1>1, <1>2, BeginRecordKeeps DEF Ledgers

\* The gate: an approval on record, of this lane and this package, not expired; and
\* a package that is whole.
LEMMA InvocationAllowed ==
    ASSUME RunInv, NEW a \in Actors, NEW lane \in Lanes, BeginInvocation(a, lane)
    PROVE  RunInv'
  <1>1. PICK k \in DOMAIN ledger["approval"] :
          /\ InvocationGate(lane, k)
          /\ BeginRecord(a, "invocation",
               [lane |-> lane, bundle |-> ledger["approval"][k].bundle,
                createdAt |-> now, onDisk |-> BundleSha256,
                approval |-> ledger["approval"][k]])
    BY DEF BeginInvocation
  <1>2. PICK approval : approval = ledger["approval"][k]
    OBVIOUS
  <1>3. approval \in ToSet(ledger["approval"])
    BY <1>2 DEF ToSet
  <1>4. Approves(approval, lane)
    BY <1>1, <1>2 DEF InvocationGate
  <1>5. PackageReadback
    BY <1>1 DEF InvocationGate, DryRunExecutorProof, DeploymentDryRunPlan
  <1>6. BundleSha256 \in past.whole
    BY <1>5, ReadbackOnce
  <1>7. Given(approval)
    BY <1>3 DEF RunInv, ApprovalsGiven
  <1>8. PICK rec : /\ BeginRecord(a, "invocation", rec)
                   /\ rec = [lane |-> lane, bundle |-> approval.bundle, createdAt |-> now,
                             onDisk |-> BundleSha256, approval |-> approval]
    BY <1>1, <1>2
  <1>9. Covered(rec)
    BY <1>3, <1>4, <1>6, <1>7, <1>8 DEF Covered, Approves, Given
  <1> QED BY <1>8, <1>9, BeginRecordKeeps DEF Ledgers

\* A line that is appended was fit to be written.
LEMMA AppendLineKeeps ==
    ASSUME RunInv, NEW a \in Actors, AppendLine(a)
    PROVE  RunInv'
  <1> DEFINE c == call[a]
             L == c.kind
  <1>1. /\ call[a] # Idle /\ L \in Ledgers
        /\ ledger' = [ledger EXCEPT ![L] = Append(ledger[L], c.rec)]
        /\ call' = [call EXCEPT ![a] = [c EXCEPT !.step = "read"]]
        /\ UNCHANGED <<package, legacy, now, past>>
    BY DEF AppendLine, InRecord, Enter
  <1>2. GoodCall(c)
    BY <1>1 DEF RunInv, CallsGood
  <1>3. PICK S : \A M \in Ledgers : ledger[M] \in Seq(S)
    BY DEF RunInv, Shaped
  <1>4. /\ ledger'[L] \in Seq(S \cup {c.rec})
        /\ ToSet(ledger'[L]) = ToSet(ledger[L]) \cup {c.rec}
        /\ ledger' = [M \in Ledgers |-> ledger'[M]]
        /\ \A M \in Ledgers \ {L} : ledger'[M] = ledger[M]
    <2>1. /\ ledger'[L] = Append(ledger[L], c.rec)
          /\ ledger' = [M \in Ledgers |-> ledger'[M]]
          /\ \A M \in Ledgers \ {L} : ledger'[M] = ledger[M]
      BY <1>1 DEF RunInv, Shaped
    <2>2. ledger[L] \in Seq(S)
      BY <1>1, <1>3
    <2>3. PICK s, x : s = ledger[L] /\ x = c.rec
      OBVIOUS
    <2>4. Append(s, x) \in Seq(S \cup {x}) /\ ToSet(Append(s, x)) = ToSet(s) \cup {x}
      BY <2>2, <2>3, Appended
    <2> QED BY <2>1, <2>3, <2>4
  <1>5. PICK d : /\ call' = [call EXCEPT ![a] = d]
                 /\ d = [c EXCEPT !.step = "read"]
    BY <1>1
  <1>6. GoodCall(d)
    <2>1. c = [kind |-> c.kind, step |-> c.step, rec |-> c.rec, count |-> c.count]
      BY <1>1, <1>2 DEF GoodCall, RecordCall
    <2>2. d = [kind |-> c.kind, step |-> "read", rec |-> c.rec, count |-> c.count]
      BY <1>5, <2>1
    <2> QED BY <1>1, <1>2, <2>2 DEF GoodCall, RecordCall, PackageCall, Ledgers
  <1>7. PICK M, rec : M = L /\ rec = c.rec
    OBVIOUS
  <1>8. (M = "approval" => Given(rec)) /\ (M = "invocation" => Covered(rec))
    BY <1>2, <1>7 DEF GoodCall
  <1> HIDE DEF c, L
  <1>9. /\ M \in Ledgers
        /\ ToSet(ledger'[M]) = ToSet(ledger[M]) \cup {rec}
        /\ \A N \in Ledgers \ {M} : ledger'[N] = ledger[N]
    BY <1>1, <1>4, <1>7
  <1>10. ToSet(ledger["approval"]) \subseteq ToSet(ledger'["approval"])
    BY <1>9 DEF Ledgers
  <1>11. /\ past.whole \subseteq past'.whole
         /\ now \in Nat /\ now' \in Nat /\ now <= now'
    BY <1>1 DEF RunInv, Shaped
  <1>12. /\ call' = [b \in Actors |-> call'[b]]
         /\ call'[a] = d
         /\ \A b \in Actors \ {a} : call'[b] = call[b]
    BY <1>5 DEF RunInv, Shaped
  <1>13. Shaped'
    <2>1. \A N \in Ledgers : ledger'[N] \in Seq(S \cup {rec})
      <3>1. \A N \in Ledgers : ledger[N] \in Seq(S \cup {rec})
        BY <1>3
      <3> QED BY <1>4, <1>7, <3>1
    <2> QED BY <1>1, <1>4, <1>12, <2>1 DEF RunInv, Shaped, PastShape
  <1>14. PackageOnce' /\ LegacyOnce'
    BY <1>1 DEF RunInv, PackageOnce, LegacyOnce, Whole, ArtifactSetExists
  <1>15. ApprovalsGiven'
    <2>1. \A approval \in ToSet(ledger'["approval"]) : Given(approval)
      BY <1>8, <1>9 DEF RunInv, ApprovalsGiven, Ledgers
    <2> QED BY <1>1, <2>1 DEF ApprovalsGiven, Given
  <1>16. RunsCovered'
    <2>1. \A run \in ToSet(ledger'["invocation"]) : Covered(run)
      BY <1>8, <1>9 DEF RunInv, RunsCovered, Ledgers
    <2>2. \A run \in ToSet(ledger'["invocation"]) : Covered(run)'
      BY <1>10, <1>11, <2>1, CoveredKept
    <2> QED BY <2>2 DEF RunsCovered, Covered
  <1>17. CallsGood'
    <2> SUFFICES ASSUME NEW b \in Actors, call'[b] # Idle PROVE GoodCall(call[b])'
      BY DEF CallsGood
    <2>1. PICK e : e = call'[b]
      OBVIOUS
    <2>2. GoodCall(e)
      BY <1>6, <1>12, <2>1 DEF RunInv, CallsGood
    <2>3. GoodCall(e)'
      BY <1>10, <1>11, <2>2, GoodKept
    <2> QED BY <2>1, <2>3 DEF GoodCall, RecordCall, PackageCall, Given, Covered
  <1> QED BY <1>13, <1>14, <1>15, <1>16, <1>17 DEF RunInv

\* An index is no part of the invariant.
LEMMA IndexKeeps ==
    ASSUME RunInv, NEW a \in Actors, ReadBack(a) \/ WriteIndex(a)
    PROVE  RunInv'
  <1>1. PastShape' /\ past.whole \subseteq past'.whole
    BY DEF ReadBack, WriteIndex, InRecord, RunInv, Shaped, PastShape
  <1>2. CASE WriteIndex(a)
    BY <1>1, <1>2, CallKeeps DEF WriteIndex, InRecord, Leave
  <1>3. CASE ReadBack(a)
    <2>1. /\ call[a] # Idle /\ call[a].kind \in Ledgers
          /\ UNCHANGED <<package, legacy, ledger, now>>
      BY <1>3 DEF ReadBack, InRecord
    <2>2. PICK c, count : /\ c = call[a]
                          /\ call' = [call EXCEPT ![a] =
                                       [c EXCEPT !.step = "index", !.count = count]]
      BY <1>3 DEF ReadBack, Enter
    <2>3. GoodCall(c) /\ c.kind \in Ledgers
      BY <2>1, <2>2 DEF RunInv, CallsGood
    <2>4. PICK d : d = [c EXCEPT !.step = "index", !.count = count]
      OBVIOUS
    <2>5. GoodCall(d)
      <3>1. c = [kind |-> c.kind, step |-> c.step, rec |-> c.rec, count |-> c.count]
        BY <2>3 DEF GoodCall, RecordCall
      <3>2. d = [kind |-> c.kind, step |-> "index", rec |-> c.rec, count |-> count]
        BY <2>4, <3>1
      <3> QED BY <2>3, <3>2 DEF GoodCall, RecordCall, PackageCall, Ledgers
    <2> QED BY <1>1, <2>1, <2>2, <2>4, <2>5, CallKeeps
  <1> QED BY <1>2, <1>3

\* Every step of the release lane.
LEMMA ReleaseKeeps ==
    ASSUME RunInv, ReleaseNext
    PROVE  RunInv'
  <1>1. CASE UpdateRoot \/ Tick
    BY <1>1, OutsideKeeps
  <1>2. ASSUME NEW a \in Actors,
               \/ Crash(a) \/ BeginPackage(a) \/ WritePart(a)
               \/ \E e \in EvidenceFiles : BeginEvidence(a, e)
               \/ WriteEvidence(a)
        PROVE  RunInv'
    BY <1>2, CrashKeeps, BeginPackageKeeps, WritePartKeeps, EvidenceKeeps
  <1>3. ASSUME NEW a \in Actors, NEW d \in Decisions,
               BeginHumanDecision(a, d) \/ BeginMarketplaceDecision(a, d)
        PROVE  RunInv'
    <2>1. \E L \in {"human", "market"} : BeginRecord(a, L, Decision(d))
      BY <1>3 DEF BeginHumanDecision, BeginMarketplaceDecision
    <2> QED BY <2>1, BeginRecordKeeps DEF Ledgers
  <1>4. ASSUME NEW a \in Actors, RecordNext(a) PROVE RunInv'
    BY <1>4, AppendLineKeeps, IndexKeeps DEF RecordNext
  <1> QED BY <1>1, <1>2, <1>3, <1>4, ApprovalGiven, InvocationAllowed DEF ReleaseNext

(***************************************************************************)
(* The testing lane.                                                         *)
(***************************************************************************)

\* A call of the testing lane starts.
LEMMA TestCallKeeps ==
    ASSUME RunInv, NEW a \in Actors, NEW c, NEW kind,
           Enter(a, c), c.kind = kind, kind \notin Ledgers \cup {"package"},
           NotePast(a, kind), UNCHANGED <<package, legacy, ledger, now>>
    PROVE  RunInv'
  <1>1. GoodCall(c)
    BY DEF GoodCall, Ledgers
  <1> QED BY <1>1, NotePastKeeps, CallKeeps DEF Enter

\* The testing lane writes files of its own.
LEMMA TestsKeep ==
    ASSUME RunInv, NEW a \in Actors,
           \/ \E kind \in TestKinds, report \in Reports : BeginTest(a, kind, report)
           \/ AppendTest(a)
           \/ \E file \in RepairFiles : BeginRepair(a, file)
           \/ WriteRepair(a)
    PROVE  RunInv'
  <1>1. ASSUME NEW kind \in TestKinds, NEW report \in Reports, BeginTest(a, kind, report)
        PROVE  RunInv'
    <2>1. PICK c : Enter(a, c) /\ c = [kind |-> kind, step |-> "append", report |-> report]
      BY <1>1 DEF BeginTest
    <2>2. kind \notin Ledgers \cup {"package"}
      BY DEF TestKinds, Ledgers
    <2>3. NotePast(a, kind) /\ UNCHANGED <<package, legacy, ledger, now>>
      BY <1>1 DEF BeginTest
    <2> QED BY <2>1, <2>2, <2>3, TestCallKeeps
  <1>2. ASSUME NEW file \in RepairFiles, BeginRepair(a, file) PROVE RunInv'
    <2>1. PICK c, data : /\ Enter(a, c)
                         /\ c = [kind |-> "repair", step |-> "write", file |-> file,
                                 data |-> data]
      BY <1>2 DEF BeginRepair
    <2>2. NotePast(a, "repair") /\ UNCHANGED <<package, legacy, ledger, now>>
      BY <1>2 DEF BeginRepair
    <2>3. "repair" \notin Ledgers \cup {"package"} /\ c.kind = "repair"
      BY <2>1 DEF Ledgers
    <2> QED BY <2>1, <2>2, <2>3, TestCallKeeps
  <1>3. CASE AppendTest(a) \/ WriteRepair(a)
    <2>1. /\ call' = [call EXCEPT ![a] = Idle]
          /\ UNCHANGED <<package, legacy, ledger, now, past>>
      BY <1>3 DEF AppendTest, WriteRepair, Leave
    <2>2. PastShape' /\ past.whole \subseteq past'.whole
      BY <2>1 DEF RunInv, Shaped, PastShape
    <2> QED BY <2>1, <2>2, CallKeeps
  <1> QED BY <1>1, <1>2, <1>3

\* Every step keeps what is known of packages, approvals and runs.
LEMMA RunInvNext == RunInv /\ [TestingNext]_vars => RunInv'
  <1> SUFFICES ASSUME RunInv, [TestingNext]_vars PROVE RunInv'
    OBVIOUS
  <1>1. CASE UNCHANGED vars
    <2>1. UNCHANGED <<package, legacy, ledger, call, past, now>>
      BY <1>1 DEF vars, releaseVars
    <2> QED BY <2>1 DEF RunInv, Shaped, PastShape, CallsGood, GoodCall, RecordCall,
                       PackageCall, Covered, Given, PackageOnce, Whole, ArtifactSetExists,
                       LegacyOnce, ApprovalsGiven, RunsCovered
  <1>2. CASE ReleaseNext
    BY <1>2, ReleaseKeeps
  <1>3. ASSUME NEW a \in Actors, BeginOwnerDecision(a) PROVE RunInv'
    <2>1. PICK rec : BeginRecord(a, "owner", rec)
      BY <1>3 DEF BeginOwnerDecision
    <2> QED BY <2>1, BeginRecordKeeps DEF Ledgers
  <1> QED BY <1>1, <1>2, <1>3, TestsKeep DEF TestingNext

\* Every dry run on record was allowed by an approval on record of the same lane and
\* package, given before and not yet expired, and that package was complete on disk
\* once (writeOwnerOpsDeploymentDryRunInvocationRecord and its gate), whatever other
\* processes write or leave half written meanwhile.
THEOREM InvocationsCovered ==
    ASSUME NEW CONSTANT root, NEW CONSTANT events
    PROVE  TestingSpec(root, events) => []InvocationCovered
  <1>1. TestingInit(root, events) => RunInv
    BY RunInvInit
  <1> QED BY <1>1, RunInvNext, RunsAreCovered, PTL DEF TestingSpec

(***************************************************************************)
(* The calls of one kind, through every step.                                *)
(***************************************************************************)

In(a, kind) == call[a] # Idle /\ call[a].kind = kind

Starts(a, kind, c) ==
    /\ call[a] = Idle /\ c # Idle /\ c.kind = kind
    /\ call' = [call EXCEPT ![a] = c]
    /\ InProgress(a, kind) => kind \in past'.overlapped
Proceeds(a, kind, c) ==
    In(a, kind) /\ c # Idle /\ c.kind = kind /\ call' = [call EXCEPT ![a] = c]
Ends(a, kind) == In(a, kind) /\ call' = [call EXCEPT ![a] = Idle]

\* No call of the kind starts, goes on or ends.
Stay(kind) ==
    \A a \in Actors : /\ In(a, kind) <=> In(a, kind)'
                      /\ In(a, kind) => call'[a] = call[a]

Marked ==
    /\ past.overlapped \subseteq past'.overlapped
    /\ past.cut \subseteq past'.cut

SameFiles == UNCHANGED <<package, legacy, ledger, index, evidence>>


\* A step of one process leaves the calls of the others alone.
LEMMA OneCall ==
    ASSUME RunInv, NEW a \in Actors, NEW c, call' = [call EXCEPT ![a] = c]
    PROVE  call'[a] = c /\ \A b \in Actors \ {a} : call'[b] = call[b]
  BY DEF RunInv, Shaped

\* A step in a call of one kind is none in a call of another.
LEMMA OthersStay ==
    ASSUME RunInv, NEW a \in Actors, NEW kind, NEW other, other # kind, NEW c,
           Starts(a, other, c) \/ Proceeds(a, other, c) \/ Ends(a, other)
    PROVE  Stay(kind)
  <1>1. CASE Starts(a, other, c)
    BY <1>1, OneCall DEF Starts, Stay, In
  <1>2. CASE Proceeds(a, other, c)
    BY <1>2, OneCall DEF Proceeds, Stay, In
  <1>3. CASE Ends(a, other)
    BY <1>3, OneCall DEF Ends, Stay, In
  <1> QED BY <1>1, <1>2, <1>3

\* A call that is noted starts.
LEMMA NotedStart ==
    ASSUME RunInv, NEW a \in Actors, NEW kind, NEW c,
           Begin(a, kind), Enter(a, c), c # Idle, c.kind = kind, NotePast(a, kind)
    PROVE  Starts(a, kind, c) /\ Marked /\ past'.writes = past.writes /\ past'.whole = past.whole
  <1>1. Marked /\ past'.writes = past.writes /\ past'.whole = past.whole
    BY DEF NotePast, Marked, RunInv, Shaped, PastShape
  <1>2. InProgress(a, kind) => kind \in past'.overlapped
    BY DEF NotePast, RunInv, Shaped, PastShape
  <1> QED BY <1>1, <1>2 DEF Starts, Begin, Enter

\* A write of a package takes the next number.
LEMMA PackageStarts ==
    ASSUME RunInv, NEW a \in Actors, BeginPackage(a)
    PROVE  /\ Marked /\ SameFiles
           /\ past'.writes = past.writes + 1 /\ past'.whole = past.whole
           /\ \E c : /\ Starts(a, "package", c)
                     /\ c = [kind |-> "package", step |-> 1,
                             write |-> [id |-> past.writes + 1, files |-> tree.files]]
  <1> DEFINE c == [kind |-> "package", step |-> 1,
                   write |-> [id |-> past.writes + 1, files |-> tree.files]]
  <1>1. /\ Marked /\ past'.writes = past.writes + 1 /\ past'.whole = past.whole
        /\ InProgress(a, "package") => "package" \in past'.overlapped
    BY DEF BeginPackage, Marked, RunInv, Shaped, PastShape
  <1>2. c # Idle /\ c.kind = "package"
    BY DEF Idle
  <1>3. call[a] = Idle /\ call' = [call EXCEPT ![a] = c]
    BY DEF BeginPackage, Begin, Enter
  <1> HIDE DEF c
  <1>4. Starts(a, "package", c)
    BY <1>1, <1>2, <1>3 DEF Starts
  <1>5. SameFiles
    BY DEF SameFiles, BeginPackage
  <1> QED BY <1>1, <1>4, <1>5 DEF c

\* The write of one file of a package goes on or ends.
LEMMA PartMoves ==
    ASSUME RunInv, NEW a \in Actors, WritePart(a)
    PROVE  /\ In(a, "package") /\ PackageCall(call[a])
           /\ IF call[a].step < 3
              THEN Proceeds(a, "package", [call[a] EXCEPT !.step = call[a].step + 1])
              ELSE Ends(a, "package")
  <1>1. In(a, "package") /\ PackageCall(call[a])
    BY DEF WritePart, In, RunInv, CallsGood, GoodCall
  <1>2. PICK c : c = call[a]
    OBVIOUS
  <1>3. [c EXCEPT !.step = c.step + 1] = [kind |-> "package", step |-> c.step + 1, write |-> c.write]
    BY <1>1, <1>2 DEF PackageCall, In
  <1>4. [c EXCEPT !.step = c.step + 1] # Idle /\ [c EXCEPT !.step = c.step + 1].kind = "package"
    BY <1>3 DEF Idle
  <1>5. call' = [call EXCEPT ![a] = IF c.step < 3 THEN [c EXCEPT !.step = c.step + 1] ELSE Idle]
    BY <1>2, PartNamesAre DEF WritePart, Enter, Leave
  <1> QED BY <1>1, <1>2, <1>4, <1>5 DEF Proceeds, Ends

SamePast == past'.writes = past.writes /\ past'.whole = past.whole

\* What a call that starts holds; only its evidence and its record matter later.
Asked(kind, c) ==
    /\ kind \in Ledgers => c.step = "append"
    /\ kind = "evidence" => \E e \in EvidenceFiles :
          c = [kind |-> "evidence", step |-> "write", file |-> e,
               data |-> [status |-> IF Build(e) THEN "ready" ELSE "blocked",
                         bundle |-> BundleSha256]]
    /\ kind # "package"

Outside  == UNCHANGED call /\ SameFiles /\ Marked /\ SamePast
Starting ==
    \E a \in Actors : \E kind, c :
        Starts(a, kind, c) /\ Asked(kind, c) /\ SameFiles /\ Marked /\ SamePast
Cutting ==
    \E a \in Actors : /\ Ends(a, call[a].kind) /\ call[a].kind \in past'.cut
                      /\ SameFiles /\ Marked /\ SamePast
Testing ==
    \E a \in Actors : /\ Ends(a, call[a].kind) /\ call[a].kind \in TestKinds \cup {"repair"}
                      /\ SameFiles /\ Marked /\ SamePast

\* Steps outside every call.
LEMMA OutsideStep ==
    ASSUME RunInv, UpdateRoot \/ Tick \/ UNCHANGED vars
    PROVE  Outside
  <1>1. UNCHANGED <<call, past>> /\ SameFiles
    BY DEF UpdateRoot, Tick, vars, releaseVars, SameFiles
  <1> QED BY <1>1 DEF Outside, Marked, SamePast

\* A call that is cut short is noted.
LEMMA CrashStep ==
    ASSUME RunInv, NEW a \in Actors, Crash(a)
    PROVE  Cutting
  <1>1. /\ Ends(a, call[a].kind) /\ SameFiles
        /\ past' = [past EXCEPT !.cut = past.cut \cup {call[a].kind}]
    BY DEF Crash, Ends, In, Leave, SameFiles
  <1>2. call[a].kind \in past'.cut /\ Marked /\ SamePast
    BY <1>1 DEF Marked, SamePast, RunInv, Shaped, PastShape
  <1> QED BY <1>1, <1>2 DEF Cutting

\* A record starts, and overlaps are noted.
LEMMA RecordStarts ==
    ASSUME RunInv, NEW a \in Actors, NEW L \in Ledgers, NEW rec, BeginRecord(a, L, rec)
    PROVE  /\ SameFiles /\ Marked /\ SamePast
           /\ \E c : /\ Starts(a, L, c) /\ Asked(L, c)
                     /\ c = [kind |-> L, step |-> "append", rec |-> rec, count |-> 0]
  <1> DEFINE c == [kind |-> L, step |-> "append", rec |-> rec, count |-> 0]
  <1>1. Begin(a, L) /\ Enter(a, c) /\ NotePast(a, L) /\ SameFiles
    BY DEF BeginRecord, SameFiles
  <1>2. c # Idle /\ c.kind = L /\ c.step = "append" /\ L # "package" /\ L # "evidence"
    BY DEF Idle, Ledgers
  <1>3. Asked(L, c)
    BY <1>2 DEF Asked
  <1> HIDE DEF c
  <1>4. Starts(a, L, c) /\ Marked /\ SamePast
    BY <1>1, <1>2, NotedStart DEF SamePast
  <1> QED BY <1>1, <1>3, <1>4 DEF c

\* Decisions, approvals and invocations start as records.
LEMMA RecordStep ==
    ASSUME RunInv, NEW a \in Actors,
           \/ \E d \in Decisions : BeginHumanDecision(a, d) \/ BeginMarketplaceDecision(a, d)
           \/ \E lane \in Lanes, ttl \in Ttls : BeginApproval(a, lane, ttl)
           \/ \E lane \in Lanes : BeginInvocation(a, lane)
           \/ BeginOwnerDecision(a)
    PROVE  Starting
  <1>1. \E L \in Ledgers : \E rec : BeginRecord(a, L, rec)
    BY DEF BeginHumanDecision, BeginMarketplaceDecision, BeginApproval, BeginInvocation,
           BeginOwnerDecision, Ledgers
  <1> QED BY <1>1, RecordStarts DEF Starting

\* Evidence is built of the package as it reads now.
LEMMA EvidenceStep ==
    ASSUME RunInv, NEW a \in Actors, NEW e \in EvidenceFiles, BeginEvidence(a, e)
    PROVE  Starting
  <1> DEFINE c == [kind |-> "evidence", step |-> "write", file |-> e,
                   data |-> [status |-> IF Build(e) THEN "ready" ELSE "blocked",
                             bundle |-> BundleSha256]]
  <1>1. Begin(a, "evidence") /\ Enter(a, c) /\ NotePast(a, "evidence") /\ SameFiles
    BY DEF BeginEvidence, SameFiles
  <1>2. c # Idle /\ c.kind = "evidence" /\ Asked("evidence", c)
    BY DEF Idle, Ledgers, Asked
  <1> HIDE DEF c
  <1>3. Starts(a, "evidence", c) /\ Marked /\ SamePast
    BY <1>1, <1>2, NotedStart DEF SamePast
  <1> QED BY <1>1, <1>2, <1>3 DEF Starting

\* Tests and repairs start.
LEMMA TestStep ==
    ASSUME RunInv, NEW a \in Actors,
           \/ \E kind \in TestKinds, report \in Reports : BeginTest(a, kind, report)
           \/ \E file \in RepairFiles : BeginRepair(a, file)
    PROVE  Starting
  <1>1. ASSUME NEW kind \in TestKinds \cup {"repair"}, NEW c,
               Begin(a, kind), Enter(a, c), c # Idle, c.kind = kind, NotePast(a, kind), SameFiles
        PROVE  Starting
    <2>1. Starts(a, kind, c) /\ Marked /\ SamePast
      BY <1>1, NotedStart DEF SamePast
    <2>2. Asked(kind, c)
      BY <1>1 DEF Asked, TestKinds, Ledgers
    <2> QED BY <1>1, <2>1, <2>2 DEF Starting
  <1>2. ASSUME NEW kind \in TestKinds, NEW report, BeginTest(a, kind, report) PROVE Starting
    <2>1. PICK c : c = [kind |-> kind, step |-> "append", report |-> report]
      OBVIOUS
    <2>2. c # Idle /\ c.kind = kind
      BY <2>1 DEF Idle
    <2>3. Begin(a, kind) /\ Enter(a, c) /\ NotePast(a, kind) /\ SameFiles
      BY <1>2, <2>1 DEF BeginTest, SameFiles
    <2> QED BY <1>1, <2>2, <2>3
  <1>3. ASSUME NEW file, BeginRepair(a, file) PROVE Starting
    <2>1. PICK c, data : /\ c = [kind |-> "repair", step |-> "write", file |-> file,
                                 data |-> data]
                         /\ Enter(a, c)
      BY <1>3 DEF BeginRepair
    <2>2. c # Idle /\ c.kind = "repair"
      BY <2>1 DEF Idle
    <2>3. Begin(a, "repair") /\ NotePast(a, "repair") /\ SameFiles
      BY <1>3 DEF BeginRepair, SameFiles
    <2> QED BY <1>1, <2>1, <2>2, <2>3
  <1> QED BY <1>2, <1>3

\* Tests and repairs end.
LEMMA TestEnds ==
    ASSUME RunInv, NEW a \in Actors, AppendTest(a) \/ WriteRepair(a)
    PROVE  Testing
  <1>1. /\ Ends(a, call[a].kind) /\ SameFiles /\ past' = past
        /\ call[a].kind \in TestKinds \cup {"repair"}
    BY DEF AppendTest, WriteRepair, Ends, In, Leave, SameFiles
  <1> QED BY <1>1 DEF Testing, Marked, SamePast

\* Every step is of one of these kinds.
LEMMA EveryStep ==
    ASSUME RunInv, [TestingNext]_vars
    PROVE  \/ Outside \/ Starting \/ Cutting \/ Testing
           \/ \E a \in Actors : \/ BeginPackage(a) \/ WritePart(a) \/ WriteEvidence(a)
                                \/ AppendLine(a) \/ ReadBack(a) \/ WriteIndex(a)
  BY OutsideStep, CrashStep, RecordStep, EvidenceStep, TestStep, TestEnds
  DEF TestingNext, ReleaseNext, RecordNext

(***************************************************************************)
(* The index of a ledger.                                                    *)
(***************************************************************************)

\* What a call has read of a ledger, and what it has while it is alone with it.
ReadOf(c, log) ==
    /\ c.step \in {"append", "read", "index"}
    /\ c.step # "append" => c.rec \in ToSet(log)
    /\ c.step = "index" => c.count \in 0 .. Len(log)
LastOfOne(c, log) ==
    /\ c.step # "append" => log # <<>> /\ log[Len(log)] = c.rec
    /\ c.step = "index" => c.count = Len(log)

Exact(entry, log) ==
    entry = IF log # <<>> THEN [count |-> Len(log), latest |-> log[Len(log)]] ELSE NoIndex

Follows(entry, log) ==
    /\ entry.count \in 0 .. Len(log)
    /\ entry # NoIndex => entry.latest \in ToSet(log)

ReadersGood(L) == \A a \in Actors : In(a, L) => ReadOf(call[a], ledger[L])
OneAtATime(kind) == \A a, b \in Actors : In(a, kind) /\ In(b, kind) => a = b
ExactUnlessRunning(L) ==
    /\ \A a \in Actors : In(a, L) => LastOfOne(call[a], ledger[L])
    /\ (\A a \in Actors : In(a, L) => call[a].step = "append") => Exact(index[L], ledger[L])

IndexGood(L) ==
    /\ Follows(index[L], ledger[L])
    /\ ReadersGood(L)
    /\ ~Disturbed(L) => OneAtATime(L) /\ ExactUnlessRunning(L)

IndexShape == index = [L \in Ledgers |-> index[L]]
IndexInv == RunInv /\ IndexShape /\ \A L \in Ledgers : IndexGood(L)

\* What was disturbed stays so.
LEMMA MarkedDisturbs ==
    ASSUME Marked, NEW kind, Disturbed(kind)
    PROVE  Disturbed(kind)'
  BY DEF Marked, Disturbed

\* A step that touches neither the ledger nor its calls.
LEMMA IndexStays ==
    ASSUME NEW L \in Ledgers, IndexGood(L), Stay(L), Marked,
           ledger'[L] = ledger[L], index'[L] = index[L]
    PROVE  IndexGood(L)'
  <1>1. ReadersGood(L)' /\ Follows(index[L], ledger[L])'
    BY DEF IndexGood, ReadersGood, Stay, Follows
  <1>2. ASSUME ~Disturbed(L)' PROVE OneAtATime(L)' /\ ExactUnlessRunning(L)'
    <2>1. ~Disturbed(L)
      BY <1>2, MarkedDisturbs
    <2>2. OneAtATime(L)'
      BY <2>1 DEF IndexGood, OneAtATime, Stay
    <2>3. \A a \in Actors : In(a, L)' => LastOfOne(call'[a], ledger[L])
      BY <2>1 DEF IndexGood, ExactUnlessRunning, Stay
    <2>4. (\A a \in Actors : In(a, L)' => call'[a].step = "append") => Exact(index[L], ledger[L])
      BY <2>1 DEF IndexGood, ExactUnlessRunning, Stay
    <2> QED BY <2>2, <2>3, <2>4 DEF ExactUnlessRunning
  <1> QED BY <1>1, <1>2 DEF IndexGood

\* A record starts alone, or the ledger is disturbed.
LEMMA IndexStarts ==
    ASSUME RunInv, NEW L \in Ledgers, IndexGood(L), Marked, NEW a \in Actors, NEW c,
           Starts(a, L, c), Asked(L, c), ledger'[L] = ledger[L], index'[L] = index[L]
    PROVE  IndexGood(L)'
  <1>1. call'[a] = c /\ \A b \in Actors \ {a} : call'[b] = call[b]
    BY OneCall DEF Starts
  <1>2. c.step = "append" /\ ~In(a, L)
    BY DEF Asked, In, Starts
  <1>3. ReadersGood(L)' /\ Follows(index[L], ledger[L])'
    BY <1>1, <1>2 DEF IndexGood, ReadersGood, In, ReadOf, Follows
  <1>4. ASSUME ~Disturbed(L)' PROVE OneAtATime(L)' /\ ExactUnlessRunning(L)'
    <2>1. ~Disturbed(L)
      BY <1>4, MarkedDisturbs
    <2>2. \A b \in Actors \ {a} : ~In(b, L)
      BY <1>4 DEF Starts, InProgress, In, Disturbed
    <2>3. OneAtATime(L)' /\ \A b \in Actors : In(b, L)' => b = a
      BY <1>1, <2>2 DEF OneAtATime, In
    <2>4. Exact(index[L], ledger[L])
      BY <1>2, <2>1, <2>2 DEF IndexGood, ExactUnlessRunning
    <2>5. \A b \in Actors : In(b, L)' => LastOfOne(call'[b], ledger[L])
      BY <1>1, <1>2, <2>3 DEF LastOfOne
    <2> QED BY <2>3, <2>4, <2>5 DEF ExactUnlessRunning, Exact
  <1> QED BY <1>3, <1>4 DEF IndexGood

\* A record that is cut short disturbs its ledger.
LEMMA IndexCut ==
    ASSUME RunInv, NEW L \in Ledgers, IndexGood(L), NEW a \in Actors,
           Ends(a, L), L \in past'.cut, ledger'[L] = ledger[L], index'[L] = index[L]
    PROVE  IndexGood(L)'
  <1>1. call'[a] = Idle /\ \A b \in Actors \ {a} : call'[b] = call[b]
    BY OneCall DEF Ends
  <1>2. Disturbed(L)'
    BY DEF Disturbed
  <1>3. ReadersGood(L)' /\ Follows(index[L], ledger[L])'
    BY <1>1 DEF IndexGood, ReadersGood, In, Follows
  <1> QED BY <1>2, <1>3 DEF IndexGood

\* A call in the middle of a record.
LEMMA RecordCallIs ==
    ASSUME RunInv, NEW a \in Actors, NEW L \in Ledgers, In(a, L)
    PROVE  call[a] = [kind |-> L, step |-> call[a].step, rec |-> call[a].rec,
                      count |-> call[a].count]
  BY DEF RunInv, CallsGood, GoodCall, RecordCall, In

\* A line that is appended is the last of its ledger.
LEMMA IndexAppend ==
    ASSUME IndexInv, NEW a \in Actors, AppendLine(a), NEW L \in Ledgers, In(a, L)
    PROVE  IndexGood(L)' /\ \E c : Proceeds(a, L, c)
  <1>0. RunInv
    BY DEF IndexInv
  <1>1. PICK x, r, n : /\ x = [kind |-> L, step |-> "append", rec |-> r, count |-> n]
                       /\ call[a] = x
    BY <1>0, RecordCallIs DEF AppendLine, InRecord
  <1>2. PICK y : y = [kind |-> L, step |-> "read", rec |-> r, count |-> n]
    OBVIOUS
  <1>3. /\ call' = [call EXCEPT ![a] = y]
        /\ ledger' = [ledger EXCEPT ![L] = Append(ledger[L], r)]
        /\ index' = index /\ past' = past
    <2>1. x.kind = L /\ x.rec = r /\ [x EXCEPT !.step = "read"] = y
      BY <1>1, <1>2
    <2>2. /\ call' = [call EXCEPT ![a] = [call[a] EXCEPT !.step = "read"]]
          /\ ledger' = [ledger EXCEPT ![call[a].kind] = Append(ledger[call[a].kind], call[a].rec)]
          /\ index' = index /\ past' = past
      BY DEF AppendLine, InRecord, Enter
    <2> QED BY <1>1, <2>1, <2>2
  <1>4. y # Idle /\ Proceeds(a, L, y)
    BY <1>2, <1>3 DEF Proceeds, Idle
  <1>5. call'[a] = y /\ \A b \in Actors \ {a} : call'[b] = call[b]
    BY <1>0, <1>3, OneCall
  <1>6. PICK log, more, S : /\ log = ledger[L] /\ log \in Seq(S)
                            /\ more = Append(log, r) /\ ledger'[L] = more
    BY <1>0, <1>3 DEF RunInv, Shaped
  <1>7. /\ log \in Seq(S \cup {r}) /\ more \in Seq(S \cup {r})
        /\ Len(more) = Len(log) + 1 /\ Len(log) \in Nat
        /\ more[Len(more)] = r /\ more # <<>>
        /\ ToSet(more) = ToSet(log) \cup {r}
    <2>1. log \in Seq(S \cup {r})
      BY <1>6
    <2>2. more \in Seq(S \cup {r}) /\ ToSet(more) = ToSet(log) \cup {r}
      BY <1>6, Appended
    <2> QED BY <1>6, <2>1, <2>2
  <1>8. Follows(index[L], more)
    <2>1. index[L].count \in 0 .. Len(log) /\ (index[L] # NoIndex => index[L].latest \in ToSet(log))
      BY <1>6 DEF IndexInv, IndexGood, Follows
    <2>2. index[L].count \in 0 .. Len(more)
      BY <1>7, <2>1
    <2> QED BY <1>7, <2>1, <2>2 DEF Follows
  <1>9. ASSUME NEW d, ReadOf(d, log) PROVE ReadOf(d, more)
    <2>1. d.step = "index" => d.count \in 0 .. Len(more)
      BY <1>7, <1>9 DEF ReadOf
    <2> QED BY <1>7, <1>9, <2>1 DEF ReadOf
  <1>10. ReadersGood(L)'
    <2>1. ReadOf(y, more)
      BY <1>2, <1>7 DEF ReadOf
    <2>2. \A b \in Actors : In(b, L)' => ReadOf(call'[b], more)
      BY <1>5, <1>6, <1>9, <2>1 DEF IndexInv, IndexGood, ReadersGood, In
    <2> QED BY <1>6, <2>2 DEF ReadersGood
  <1>11. ASSUME ~Disturbed(L)' PROVE OneAtATime(L)' /\ ExactUnlessRunning(L)'
    <2>1. OneAtATime(L)
      BY <1>3, <1>11 DEF Disturbed, IndexInv, IndexGood
    <2>2. \A b \in Actors : In(b, L)' => b = a
      BY <1>5, <2>1 DEF OneAtATime, In
    <2>3. LastOfOne(y, more) /\ y.step # "append" /\ In(a, L)'
      BY <1>2, <1>4, <1>5, <1>7 DEF LastOfOne, In
    <2> QED BY <1>5, <1>6, <2>2, <2>3 DEF OneAtATime, ExactUnlessRunning
  <1>12. Follows(index[L], ledger[L])'
    BY <1>3, <1>6, <1>8 DEF Follows
  <1> QED BY <1>4, <1>10, <1>11, <1>12 DEF IndexGood

\* A ledger that is read back is counted whole.
LEMMA IndexRead ==
    ASSUME IndexInv, NEW a \in Actors, ReadBack(a), NEW L \in Ledgers, In(a, L)
    PROVE  IndexGood(L)' /\ \E c : Proceeds(a, L, c)
  <1>0. RunInv
    BY DEF IndexInv
  <1>1. PICK x, r, n : /\ x = [kind |-> L, step |-> "read", rec |-> r, count |-> n]
                       /\ call[a] = x
    BY <1>0, RecordCallIs DEF ReadBack, InRecord
  <1>2. PICK y, log : /\ y = [kind |-> L, step |-> "index", rec |-> r, count |-> Len(log)]
                      /\ log = ledger[L]
    OBVIOUS
  <1>3. call' = [call EXCEPT ![a] = y] /\ UNCHANGED <<ledger, index, past>>
    <2>0. PICK m : m = Len(log)
      OBVIOUS
    <2>1. x.kind = L /\ [x EXCEPT !.step = "index", !.count = m] = y
      <3>1. y = [kind |-> L, step |-> "index", rec |-> r, count |-> m]
        BY <1>2, <2>0
      <3>2. PICK z : z = [x EXCEPT !.step = "index"]
        OBVIOUS
      <3>3. z = [kind |-> L, step |-> "index", rec |-> r, count |-> n]
        BY <1>1, <3>2
      <3>4. [z EXCEPT !.count = m] = [kind |-> L, step |-> "index", rec |-> r, count |-> m]
        BY <3>3
      <3> QED BY <1>1, <3>1, <3>2, <3>4
    <2>2. /\ call' = [call EXCEPT ![a] = [call[a] EXCEPT !.step = "index",
                                          !.count = Len(ledger[call[a].kind])]]
          /\ UNCHANGED <<ledger, index, past>>
      BY DEF ReadBack, InRecord, Enter
    <2> QED BY <1>1, <1>2, <2>0, <2>1, <2>2
  <1>4. y # Idle /\ Proceeds(a, L, y)
    BY <1>2, <1>3 DEF Proceeds, Idle
  <1>5. call'[a] = y /\ \A b \in Actors \ {a} : call'[b] = call[b]
    BY <1>0, <1>3, OneCall
  <1>6. Len(log) \in Nat
    BY <1>0, <1>2 DEF RunInv, Shaped
  <1>7. ReadOf(x, log) /\ Follows(index[L], log)
    BY <1>1, <1>2 DEF IndexInv, IndexGood, ReadersGood
  <1>8. ReadersGood(L)'
    <2>1. ReadOf(y, log)
      BY <1>1, <1>2, <1>6, <1>7 DEF ReadOf
    <2>2. \A b \in Actors : In(b, L)' => ReadOf(call'[b], log)
      BY <1>2, <1>5, <2>1 DEF IndexInv, IndexGood, ReadersGood, In
    <2> QED BY <1>2, <1>3, <2>2 DEF ReadersGood
  <1>9. ASSUME ~Disturbed(L)' PROVE OneAtATime(L)' /\ ExactUnlessRunning(L)'
    <2>1. OneAtATime(L) /\ LastOfOne(x, log)
      BY <1>1, <1>2, <1>3, <1>9 DEF Disturbed, IndexInv, IndexGood, ExactUnlessRunning
    <2>2. \A b \in Actors : In(b, L)' => b = a
      BY <1>5, <2>1 DEF OneAtATime, In
    <2>3. LastOfOne(y, log) /\ y.step # "append" /\ In(a, L)'
      BY <1>1, <1>2, <1>4, <1>5, <2>1 DEF LastOfOne, In
    <2> QED BY <1>2, <1>3, <1>5, <2>2, <2>3 DEF OneAtATime, ExactUnlessRunning
  <1>10. Follows(index[L], ledger[L])'
    BY <1>2, <1>3, <1>7 DEF Follows
  <1> QED BY <1>4, <1>8, <1>9, <1>10 DEF IndexGood

\* An index that is written is of what was read back.
LEMMA IndexWrite ==
    ASSUME IndexInv, NEW a \in Actors, WriteIndex(a), NEW L \in Ledgers, In(a, L)
    PROVE  IndexGood(L)' /\ Ends(a, L)
  <1>0. RunInv
    BY DEF IndexInv
  <1>1. PICK x, r, n : /\ x = [kind |-> L, step |-> "index", rec |-> r, count |-> n]
                       /\ call[a] = x
    BY <1>0, RecordCallIs DEF WriteIndex, InRecord
  <1>2. PICK entry, log : entry = [count |-> n, latest |-> r] /\ log = ledger[L]
    OBVIOUS
  <1>3. /\ call' = [call EXCEPT ![a] = Idle] /\ UNCHANGED <<ledger, past>>
        /\ index'[L] = entry
    BY <1>1, <1>2 DEF WriteIndex, InRecord, Leave, In, IndexInv, IndexShape
  <1>4. Ends(a, L)
    BY <1>3 DEF Ends
  <1>5. call'[a] = Idle /\ \A b \in Actors \ {a} : call'[b] = call[b]
    BY <1>0, <1>3, OneCall
  <1>6. ReadOf(x, log)
    BY <1>1, <1>2 DEF IndexInv, IndexGood, ReadersGood
  <1>7. Follows(entry, log)
    BY <1>1, <1>2, <1>6 DEF ReadOf, Follows
  <1>8. ReadersGood(L)'
    BY <1>3, <1>5 DEF IndexInv, IndexGood, ReadersGood, In
  <1>9. ASSUME ~Disturbed(L)' PROVE OneAtATime(L)' /\ ExactUnlessRunning(L)'
    <2>1. OneAtATime(L) /\ LastOfOne(x, log)
      BY <1>1, <1>2, <1>3, <1>9 DEF Disturbed, IndexInv, IndexGood, ExactUnlessRunning
    <2>2. \A b \in Actors : ~In(b, L)'
      BY <1>5, <2>1 DEF OneAtATime, In
    <2>3. Exact(entry, log)
      BY <1>1, <1>2, <2>1 DEF LastOfOne, Exact
    <2> QED BY <1>2, <1>3, <2>2, <2>3 DEF OneAtATime, ExactUnlessRunning, Exact
  <1>10. Follows(index[L], ledger[L])'
    BY <1>2, <1>3, <1>7 DEF Follows
  <1> QED BY <1>4, <1>8, <1>9, <1>10 DEF IndexGood

\* A step of a record goes on or ends.
LEMMA RecordMoves ==
    ASSUME RunInv, NEW a \in Actors, NEW L \in Ledgers, In(a, L),
           AppendLine(a) \/ ReadBack(a) \/ WriteIndex(a)
    PROVE  \E c : (Proceeds(a, L, c) /\ c.rec = call[a].rec) \/ Ends(a, L)
  <1>1. PICK x, s, r, n : /\ x = [kind |-> L, step |-> s, rec |-> r, count |-> n]
                          /\ call[a] = x
    BY RecordCallIs
  <1>2. CASE AppendLine(a)
    <2>1. PICK y : /\ call' = [call EXCEPT ![a] = y]
                   /\ y = [x EXCEPT !.step = "read"]
      BY <1>1, <1>2 DEF AppendLine, InRecord, Enter
    <2>2. y = [kind |-> L, step |-> "read", rec |-> r, count |-> n]
      BY <1>1, <2>1
    <2>3. y # Idle /\ y.kind = L /\ y.rec = x.rec
      BY <1>1, <2>2 DEF Idle
    <2>4. Proceeds(a, L, y)
      BY <2>1, <2>3 DEF Proceeds
    <2> QED BY <1>1, <2>3, <2>4
  <1>3. CASE ReadBack(a)
    <2>1. PICK y, z, m : /\ call' = [call EXCEPT ![a] = y]
                         /\ y = [z EXCEPT !.count = m] /\ z = [x EXCEPT !.step = "index"]
      BY <1>1, <1>3 DEF ReadBack, InRecord, Enter
    <2>2. z = [kind |-> L, step |-> "index", rec |-> r, count |-> n]
      BY <1>1, <2>1
    <2>a. [z EXCEPT !.count = m] = [kind |-> L, step |-> "index", rec |-> r, count |-> m]
      BY <2>2
    <2>3. y = [kind |-> L, step |-> "index", rec |-> r, count |-> m]
      BY <2>1, <2>a
    <2>4. y # Idle /\ y.kind = L /\ y.rec = x.rec
      BY <1>1, <2>3 DEF Idle
    <2>5. Proceeds(a, L, y)
      BY <2>1, <2>4 DEF Proceeds
    <2> QED BY <1>1, <2>4, <2>5
  <1>4. CASE WriteIndex(a)
    BY <1>4 DEF WriteIndex, InRecord, Leave, Ends
  <1> QED BY <1>2, <1>3, <1>4

\* The steps of records touch one ledger and its calls.
LEMMA IndexRecord ==
    ASSUME IndexInv, NEW a \in Actors, AppendLine(a) \/ ReadBack(a) \/ WriteIndex(a)
    PROVE  IndexShape' /\ \A L \in Ledgers : IndexGood(L)'
  <1>0. RunInv /\ Marked
    BY DEF IndexInv, AppendLine, ReadBack, WriteIndex, InRecord, Marked
  <1>1. PICK K \in Ledgers : K = call[a].kind /\ In(a, K)
    BY DEF AppendLine, ReadBack, WriteIndex, InRecord, In
  <1>2. IndexGood(K)' /\ (Ends(a, K) \/ \E c : Proceeds(a, K, c))
    BY <1>1, IndexAppend, IndexRead, IndexWrite
  <1>3. /\ IndexShape'
        /\ \A L \in Ledgers \ {K} : ledger'[L] = ledger[L] /\ index'[L] = index[L]
    BY <1>0, <1>1 DEF AppendLine, ReadBack, WriteIndex, IndexInv, IndexShape, RunInv, Shaped
  <1>4. ASSUME NEW L \in Ledgers \ {K} PROVE IndexGood(L)'
    <2>1. Stay(L)
      BY <1>0, <1>2, OthersStay
    <2> QED BY <1>0, <1>3, <2>1, IndexStays DEF IndexInv
  <1> QED BY <1>2, <1>3, <1>4

\* Every step keeps every index within its ledger.
LEMMA IndexInvNext == IndexInv /\ [TestingNext]_vars => IndexInv'
  <1> SUFFICES ASSUME IndexInv, [TestingNext]_vars PROVE IndexInv'
    OBVIOUS
  <1>0. RunInv /\ RunInv'
    BY RunInvNext DEF IndexInv
  <1> SUFFICES IndexShape' /\ \A L \in Ledgers : IndexGood(L)'
    BY <1>0 DEF IndexInv
  <1>1. ASSUME SameFiles PROVE IndexShape' /\ \A L \in Ledgers : ledger'[L] = ledger[L] /\ index'[L] = index[L]
    BY <1>1 DEF SameFiles, IndexInv, IndexShape
  <1>2. CASE Outside
    <2>1. \A L \in Ledgers : Stay(L)
      BY <1>2 DEF Outside, Stay, In
    <2> QED BY <1>1, <1>2, <2>1, IndexStays DEF Outside, IndexInv
  <1>3. CASE Starting
    <2>0. PICK a \in Actors : \E kind, c : Starts(a, kind, c) /\ Asked(kind, c) /\ SameFiles /\ Marked
      BY <1>3 DEF Starting
    <2>1. PICK kind, c : Starts(a, kind, c) /\ Asked(kind, c) /\ SameFiles /\ Marked
      BY <2>0
    <2>2. ASSUME NEW L \in Ledgers PROVE IndexGood(L)'
      <3>1. CASE kind = L
        BY <1>0, <1>1, <2>1, <3>1, IndexStarts DEF IndexInv
      <3>2. CASE kind # L
        <4>1. Stay(L)
          BY <1>0, <2>1, <3>2, OthersStay
        <4> QED BY <1>1, <2>1, <4>1, IndexStays DEF IndexInv
      <3> QED BY <3>1, <3>2
    <2> QED BY <1>1, <2>1, <2>2
  <1>4. CASE Cutting
    <2>0. PICK a \in Actors : /\ Ends(a, call[a].kind) /\ call[a].kind \in past'.cut
                              /\ SameFiles /\ Marked
      BY <1>4 DEF Cutting
    <2>1. PICK kind : Ends(a, kind) /\ kind \in past'.cut /\ SameFiles /\ Marked
      BY <2>0
    <2>2. ASSUME NEW L \in Ledgers PROVE IndexGood(L)'
      <3>1. CASE kind = L
        BY <1>0, <1>1, <2>1, <3>1, IndexCut DEF IndexInv
      <3>2. CASE kind # L
        <4>1. Stay(L)
          BY <1>0, <2>1, <3>2, OthersStay
        <4> QED BY <1>1, <2>1, <4>1, IndexStays DEF IndexInv
      <3> QED BY <3>1, <3>2
    <2> QED BY <1>1, <2>1, <2>2
  <1>5. ASSUME NEW a \in Actors, NEW kind, kind \notin Ledgers, NEW c,
               Starts(a, kind, c) \/ Proceeds(a, kind, c) \/ Ends(a, kind),
               Marked, UNCHANGED <<ledger, index>>
        PROVE  IndexShape' /\ \A L \in Ledgers : IndexGood(L)'
    <2>1. \A L \in Ledgers : Stay(L)
      BY <1>0, <1>5, OthersStay
    <2> QED BY <1>5, <2>1, IndexStays DEF IndexInv, IndexShape
  <1>6. CASE Testing
    <2>0. PICK a \in Actors : /\ Ends(a, call[a].kind) /\ call[a].kind \in TestKinds \cup {"repair"}
                              /\ SameFiles /\ Marked
      BY <1>6 DEF Testing
    <2>1. PICK kind : Ends(a, kind) /\ kind \in TestKinds \cup {"repair"} /\ SameFiles /\ Marked
      BY <2>0
    <2>2. kind \notin Ledgers
      BY <2>1 DEF TestKinds, Ledgers
    <2> QED BY <1>5, <2>1, <2>2 DEF SameFiles
  <1>7. ASSUME NEW a \in Actors, BeginPackage(a) PROVE IndexShape' /\ \A L \in Ledgers : IndexGood(L)'
    BY <1>0, <1>5, <1>7, PackageStarts DEF SameFiles, Ledgers
  <1>8. ASSUME NEW a \in Actors, WritePart(a) PROVE IndexShape' /\ \A L \in Ledgers : IndexGood(L)'
    <2>1. \E c : Proceeds(a, "package", c) \/ Ends(a, "package")
      BY <1>0, <1>8, PartMoves
    <2>2. Marked /\ UNCHANGED <<ledger, index>>
      BY <1>0, <1>8 DEF WritePart, Marked, RunInv, Shaped, PastShape
    <2> QED BY <1>5, <2>1, <2>2 DEF Ledgers
  <1>9. ASSUME NEW a \in Actors, WriteEvidence(a) PROVE IndexShape' /\ \A L \in Ledgers : IndexGood(L)'
    <2>1. Ends(a, "evidence") /\ Marked /\ UNCHANGED <<ledger, index>>
      BY <1>9 DEF WriteEvidence, Ends, In, Leave, Marked
    <2> QED BY <1>5, <2>1 DEF Ledgers
  <1>10. ASSUME NEW a \in Actors, AppendLine(a) \/ ReadBack(a) \/ WriteIndex(a)
         PROVE  IndexShape' /\ \A L \in Ledgers : IndexGood(L)'
    BY <1>10, IndexRecord
  <1> QED BY <1>0, <1>2, <1>3, <1>4, <1>6, <1>7, <1>8, <1>9, <1>10, EveryStep

\* At the start nothing is recorded and nothing indexed.
LEMMA IndexInvInit ==
    ASSUME NEW root, NEW events, TestingInit(root, events)
    PROVE  IndexInv
  <1>1. /\ index = [L \in Ledgers |-> NoIndex] /\ ledger = [L \in Ledgers |-> <<>>]
        /\ \A a \in Actors : ~In(a, "any") /\ \A L : ~In(a, L)
    BY DEF TestingInit, ReleaseInit, In
  <1>2. ASSUME NEW L \in Ledgers PROVE IndexGood(L)
    BY <1>1 DEF IndexGood, Follows, NoIndex, ReadersGood, OneAtATime, ExactUnlessRunning, Exact
  <1> QED BY <1>1, <1>2, RunInvInit DEF IndexInv, IndexShape

\* An index never counts more than its ledger holds and names a record of it, and it
\* is exact when no call on the ledger runs and none was cut short or overlapped
\* another (the index is rewritten after the record is appended): for any
\* processes, calls, crashes and ledgers.
THEOREM IndexFollowsLedgerHolds ==
    ASSUME NEW CONSTANT root, NEW CONSTANT events
    PROVE  TestingSpec(root, events) => []IndexFollowsLedger
  <1>1. IndexInv => IndexFollowsLedger
    <2> SUFFICES ASSUME IndexInv, NEW L \in Ledgers
                 PROVE  /\ index[L].count <= Len(ledger[L])
                        /\ index[L] # NoIndex => index[L].latest \in ToSet(ledger[L])
                        /\ Quiet(L) /\ ~Disturbed(L) => Exact(index[L], ledger[L])
      BY DEF IndexFollowsLedger, Exact, Recorded, Latest
    <2>1. IndexGood(L) /\ Len(ledger[L]) \in Nat
      BY DEF IndexInv, RunInv, Shaped
    <2>2. Quiet(L) => \A a \in Actors : ~In(a, L)
      BY DEF Quiet, In
    <2> QED BY <2>1, <2>2 DEF IndexGood, Follows, ExactUnlessRunning
  <1>2. TestingInit(root, events) => IndexInv
    BY IndexInvInit
  <1> QED BY <1>1, <1>2, IndexInvNext, PTL DEF TestingSpec

(***************************************************************************)
(* Packages, and the evidence made of them.                                  *)
(***************************************************************************)

Numbered ==
    /\ past.writes \in Nat
    /\ \A id \in past.whole : id \in 1 .. past.writes
    /\ package["sha256"].id \in Nat /\ legacy.id \in Nat
    /\ \A a \in Actors : In(a, "package") => call[a].write.id \in 1 .. past.writes

\* The write under way is the latest, and has written the parts before its step.
WrittenSoFar(c) ==
    /\ c.write.id = past.writes
    /\ c.step # 1 => package["bundle"] = c.write
    /\ c.step = 3 => package["manifest"] = c.write

\* The checksum comes last: it is there when all is, and of the newest whole write.
ChecksumLast ==
    package["sha256"] # NoWrite => package["bundle"] # NoWrite /\ package["manifest"] # NoWrite
NewestWhole ==
    \A id \in past.whole :
        id <= IF package["sha256"] # NoWrite THEN package["sha256"].id ELSE legacy.id

InOrder ==
    /\ OneAtATime("package")
    /\ \A a \in Actors : In(a, "package") => WrittenSoFar(call[a])
    /\ ChecksumLast /\ NewestWhole

Backed(data) == data.status = "ready" => data.bundle \in past.whole
EvidenceGood ==
    /\ evidence = [e \in EvidenceFiles |-> evidence[e]]
    /\ \A e \in EvidenceFiles : Backed(evidence[e])
    /\ \A a \in Actors : In(a, "evidence") => Backed(call[a].data)

PackageInv ==
    /\ RunInv /\ Numbered /\ EvidenceGood
    /\ "package" \notin past.overlapped => InOrder

\* No call of the kind starts or goes on.
Fewer(kind) == \A a \in Actors : In(a, kind)' => In(a, kind) /\ call'[a] = call[a]

\* A step elsewhere, or the end of a call, leaves no call the more.
LEMMA OthersFewer ==
    ASSUME RunInv, NEW a \in Actors, NEW kind, NEW other, NEW c,
           \/ other # kind /\ (Starts(a, other, c) \/ Proceeds(a, other, c))
           \/ Ends(a, other)
    PROVE  Fewer(kind)
  <1>1. CASE Starts(a, other, c) /\ other # kind
    BY <1>1, OneCall DEF Starts, Fewer, In
  <1>2. CASE Proceeds(a, other, c) /\ other # kind
    BY <1>2, OneCall DEF Proceeds, Fewer, In
  <1>3. CASE Ends(a, other)
    BY <1>3, OneCall DEF Ends, Fewer, In
  <1> QED BY <1>1, <1>2, <1>3

\* Every kind of evidence asks for a package that reads back.
LEMMA ReadyIsReadback ==
    ASSUME NEW e \in EvidenceFiles, Build(e)
    PROVE  PackageReadback
  BY DEF Build, EvidenceFiles, ReleaseReadiness, HumanReviewPacket, SignedPackageEvidence,
         InstallUpdateRollbackProof, DeploymentDryRunPlan

\* A step that writes no part of a package.
LEMMA PackagesStay ==
    ASSUME PackageInv, UNCHANGED <<package, legacy>>, Marked, SamePast, Fewer("package")
    PROVE  Numbered' /\ ("package" \notin past'.overlapped => InOrder')
  <1>1. Numbered'
    BY DEF PackageInv, Numbered, SamePast, Fewer
  <1>2. ASSUME "package" \notin past'.overlapped PROVE InOrder'
    <2>1. InOrder
      BY <1>2 DEF PackageInv, Marked
    <2>2. OneAtATime("package")'
      BY <2>1 DEF InOrder, OneAtATime, Fewer
    <2>3. ASSUME NEW a \in Actors, In(a, "package")' PROVE WrittenSoFar(call[a])'
      BY <2>1, <2>3 DEF InOrder, Fewer, WrittenSoFar, SamePast
    <2>4. ChecksumLast' /\ NewestWhole'
      BY <2>1 DEF InOrder, ChecksumLast, NewestWhole, SamePast
    <2> QED BY <2>2, <2>3, <2>4 DEF InOrder
  <1> QED BY <1>1, <1>2

\* A step that writes no evidence.
LEMMA EvidenceStays ==
    ASSUME PackageInv, UNCHANGED evidence, Fewer("evidence"), past.whole \subseteq past'.whole
    PROVE  EvidenceGood'
  BY DEF PackageInv, EvidenceGood, Backed, Fewer

\* Evidence is written as it was built.
LEMMA WriteEvidenceGood ==
    ASSUME PackageInv, NEW a \in Actors, WriteEvidence(a)
    PROVE  /\ EvidenceGood' /\ Ends(a, "evidence") /\ Marked /\ SamePast
           /\ UNCHANGED <<package, legacy>>
  <1>1. Ends(a, "evidence") /\ UNCHANGED <<package, legacy, past>>
    BY DEF WriteEvidence, Ends, In, Leave
  <1>2. PICK f, d : /\ d = call[a].data /\ evidence' = [evidence EXCEPT ![f] = d]
    BY DEF WriteEvidence
  <1>3. Backed(d)
    BY <1>1, <1>2 DEF PackageInv, EvidenceGood, Ends
  <1>4. /\ evidence' = [e \in EvidenceFiles |-> evidence'[e]]
        /\ \A e \in EvidenceFiles : evidence'[e] = d \/ evidence'[e] = evidence[e]
    BY <1>2 DEF PackageInv, EvidenceGood
  <1>5. \A e \in EvidenceFiles : Backed(evidence'[e])
    BY <1>3, <1>4 DEF PackageInv, EvidenceGood
  <1>6. Fewer("evidence")
    BY <1>1, OthersFewer DEF PackageInv
  <1>7. \A b \in Actors : In(b, "evidence")' => Backed(call'[b].data)
    BY <1>6 DEF PackageInv, EvidenceGood, Fewer
  <1>8. EvidenceGood'
    BY <1>1, <1>4, <1>5, <1>7 DEF EvidenceGood, Backed
  <1> QED BY <1>1, <1>8 DEF Marked, SamePast

\* A write that starts alone is the latest.
LEMMA BeginPackageOrdered ==
    ASSUME PackageInv, NEW a \in Actors, BeginPackage(a)
    PROVE  Numbered' /\ ("package" \notin past'.overlapped => InOrder') /\ EvidenceGood'
  <1>0. RunInv
    BY DEF PackageInv
  <1>1. PICK c, w : /\ Starts(a, "package", c)
                    /\ c = [kind |-> "package", step |-> 1, write |-> w]
                    /\ w.id = past.writes + 1
    BY <1>0, PackageStarts
  <1>2. /\ Marked /\ UNCHANGED <<package, legacy, evidence>>
        /\ past'.writes = past.writes + 1 /\ past'.whole = past.whole
    BY <1>0, PackageStarts DEF SameFiles
  <1>3. call'[a] = c /\ \A b \in Actors \ {a} : call'[b] = call[b]
    BY <1>0, <1>1, OneCall DEF Starts
  <1>4. past.writes \in Nat
    BY DEF PackageInv, Numbered
  <1>5. Numbered'
    <2>1. \A n : n \in 1 .. past.writes => n \in 1 .. past.writes + 1
      BY <1>4
    <2>2. c.write.id \in 1 .. past.writes + 1
      BY <1>1, <1>4
    <2>3. \A b \in Actors : In(b, "package")' => call'[b].write.id \in 1 .. past.writes + 1
      BY <1>3, <2>1, <2>2 DEF PackageInv, Numbered, In
    <2>4. \A id \in past.whole : id \in 1 .. past.writes + 1
      BY <2>1 DEF PackageInv, Numbered
    <2>5. past.writes + 1 \in Nat
      BY <1>4
    <2> QED BY <1>2, <2>3, <2>4, <2>5 DEF Numbered, PackageInv
  <1>6. ASSUME "package" \notin past'.overlapped PROVE InOrder'
    <2>1. InOrder
      BY <1>2, <1>6 DEF PackageInv, Marked
    <2>2. \A b \in Actors : In(b, "package")' => b = a
      BY <1>1, <1>3, <1>6 DEF Starts, InProgress, In
    <2>3. WrittenSoFar(call[a])'
      BY <1>1, <1>2, <1>3 DEF WrittenSoFar
    <2>4. ChecksumLast' /\ NewestWhole'
      BY <1>2, <2>1 DEF InOrder, ChecksumLast, NewestWhole
    <2>5. \A b \in Actors : In(b, "package")' => WrittenSoFar(call[b])'
      BY <2>2, <2>3
    <2> QED BY <2>2, <2>4, <2>5 DEF InOrder, OneAtATime
  <1>7. EvidenceGood'
    <2>1. Fewer("evidence")
      BY <1>0, <1>1, OthersFewer
    <2> QED BY <1>2, <2>1, EvidenceStays
  <1> QED BY <1>5, <1>6, <1>7

\* The checksum is written last.
LEMMA WritePartOrdered ==
    ASSUME PackageInv, NEW a \in Actors, WritePart(a)
    PROVE  Numbered' /\ ("package" \notin past'.overlapped => InOrder') /\ EvidenceGood'
  <1>0. RunInv /\ RunInv'
    BY WritePartKeeps DEF PackageInv
  <1>a. In(a, "package") /\ PackageCall(call[a])
    BY <1>0, PartMoves
  <1>1. PICK c, w, k : /\ c = call[a] /\ w = c.write /\ k = c.step /\ k \in 1 .. 3
                       /\ c = [kind |-> "package", step |-> k, write |-> w]
                       /\ In(a, "package") /\ c.kind = "package"
    <2>1. PICK c, w, k : c = call[a] /\ w = c.write /\ k = c.step
      OBVIOUS
    <2>2. c = [kind |-> c.kind, step |-> k, write |-> w] /\ k \in 1 .. 3 /\ c.kind = "package"
      BY <1>a, <2>1 DEF PackageCall, In
    <2> QED BY <1>a, <2>1, <2>2
  <1>2. PICK part \in PartNames : /\ part = Parts[k] /\ package' = [package EXCEPT ![part] = w]
    <2>1. Parts[k] \in PartNames
      BY <1>1 DEF PartNames, ToSet, Parts
    <2> QED BY <1>1, <2>1 DEF WritePart
  <1>3. /\ k = 1 => part = "bundle"
        /\ k = 2 => part = "manifest"
        /\ k = 3 => part = "sha256"
    BY <1>1, <1>2 DEF Parts
  <1>4. package'[part] = w /\ \A other \in PartNames \ {part} : package'[other] = package[other]
    BY <1>0, <1>2 DEF RunInv, Shaped
  <1>5. /\ UNCHANGED <<legacy, evidence>>
        /\ past' = IF \A p \in PartNames : package'[p] = w
                   THEN [past EXCEPT !.whole = past.whole \cup {w.id}] ELSE past
    BY <1>1 DEF WritePart
  <1>6. /\ past'.writes = past.writes /\ past'.overlapped = past.overlapped
        /\ past'.whole = IF \A p \in PartNames : package'[p] = w
                         THEN past.whole \cup {w.id} ELSE past.whole
    BY <1>0, <1>5 DEF RunInv, Shaped, PastShape
  <1>7. past.writes \in Nat /\ w.id \in 1 .. past.writes
    BY <1>1 DEF PackageInv, Numbered
  <1>b. PICK d : /\ call' = [call EXCEPT ![a] = d]
                 /\ d = IF k < 3 THEN [c EXCEPT !.step = k + 1] ELSE Idle
    BY <1>1, PartNamesAre DEF WritePart, Enter, Leave
  <1>8. \/ k # 3 /\ d = [kind |-> "package", step |-> k + 1, write |-> w]
        \/ k = 3 /\ d = Idle
    <2>1. [c EXCEPT !.step = k + 1] = [kind |-> "package", step |-> k + 1, write |-> w]
      BY <1>1
    <2>2. k < 3 \/ k = 3
      BY <1>1
    <2> QED BY <1>b, <2>1, <2>2
  <1>9. call'[a] = d /\ \A b \in Actors \ {a} : call'[b] = call[b]
    BY <1>0, <1>b, OneCall
  <1>10. Numbered'
    <2>1. \A id \in past'.whole : id \in 1 .. past.writes
      BY <1>6, <1>7 DEF PackageInv, Numbered
    <2>2. package'["sha256"].id \in Nat
      BY <1>4, <1>7, PartNamesAre DEF PackageInv, Numbered
    <2>3. \A b \in Actors : In(b, "package")' => call'[b].write.id \in 1 .. past.writes
      <3>1. ASSUME In(a, "package")' PROVE call'[a].write.id \in 1 .. past.writes
        BY <1>7, <1>8, <1>9, <3>1 DEF In
      <3> QED BY <1>9, <3>1 DEF PackageInv, Numbered, In
    <2> QED BY <1>5, <1>6, <2>1, <2>2, <2>3 DEF Numbered, PackageInv
  <1>11. ASSUME "package" \notin past'.overlapped PROVE InOrder'
    <2>1. InOrder /\ WrittenSoFar(c)
      BY <1>1, <1>6, <1>11 DEF PackageInv, InOrder
    <2>2. w # NoWrite /\ w.id = past.writes
      BY <1>1, <1>7, <2>1 DEF NoWrite, WrittenSoFar
    <2>3. OneAtATime("package")' /\ \A b \in Actors : In(b, "package")' => b = a
      BY <1>1, <1>9, <2>1 DEF InOrder, OneAtATime, In
    <2>4. WrittenSoFar(call[a])' \/ ~In(a, "package")'
      <3>1. CASE k = 3
        BY <1>8, <1>9, <3>1 DEF In
      <3>2. CASE k = 1
        BY <1>3, <1>4, <1>6, <1>8, <1>9, <2>2, <3>2, PartNamesAre DEF WrittenSoFar
      <3>3. CASE k = 2
        BY <1>1, <1>3, <1>4, <1>6, <1>8, <1>9, <2>1, <2>2, <3>3, PartNamesAre DEF WrittenSoFar
      <3> QED BY <1>1, <3>1, <3>2, <3>3
    <2>5. ChecksumLast'
      <3>1. CASE k = 3
        BY <1>1, <1>3, <1>4, <2>1, <2>2, <3>1, PartNamesAre DEF WrittenSoFar, ChecksumLast
      <3>2. CASE k # 3
        <4>1. part # "sha256" /\ package'["sha256"] = package["sha256"]
          BY <1>1, <1>3, <1>4, <3>2, PartNamesAre
        <4> QED BY <1>4, <2>1, <2>2, <4>1, PartNamesAre DEF InOrder, ChecksumLast
      <3> QED BY <3>1, <3>2
    <2>6. NewestWhole'
      <3>1. \A id \in past.whole : id \in 1 .. past.writes
        BY DEF PackageInv, Numbered
      <3>2. CASE package'["sha256"] = w
        <4>1. \A id \in past'.whole : id <= w.id
          BY <1>6, <1>7, <2>2, <3>1
        <4> QED BY <2>2, <3>2, <4>1 DEF NewestWhole
      <3>3. CASE package'["sha256"] # w
        <4>1. package'["sha256"] = package["sha256"] /\ past'.whole = past.whole
          BY <1>4, <1>6, <3>3, PartNamesAre
        <4> QED BY <1>5, <2>1, <4>1 DEF InOrder, NewestWhole
      <3> QED BY <3>2, <3>3
    <2>7. \A b \in Actors : In(b, "package")' => WrittenSoFar(call[b])'
      BY <2>3, <2>4
    <2> QED BY <2>3, <2>5, <2>6, <2>7 DEF InOrder
  <1>12. EvidenceGood'
    <2>1. Ends(a, "package") \/ \E e : Proceeds(a, "package", e)
      BY <1>0, PartMoves
    <2>2. Fewer("evidence")
      BY <1>0, <2>1, OthersFewer
    <2>3. past.whole \subseteq past'.whole
      BY <1>6
    <2> QED BY <1>5, <2>2, <2>3, EvidenceStays
  <1> QED BY <1>10, <1>11, <1>12

\* Every step keeps packages and evidence in order.
LEMMA PackageInvNext == PackageInv /\ [TestingNext]_vars => PackageInv'
  <1> SUFFICES ASSUME PackageInv, [TestingNext]_vars PROVE PackageInv'
    OBVIOUS
  <1>0. RunInv /\ RunInv'
    BY RunInvNext DEF PackageInv
  <1> DEFINE Goal == Numbered' /\ ("package" \notin past'.overlapped => InOrder') /\ EvidenceGood'
  <1> SUFFICES Goal
    BY <1>0 DEF PackageInv
  <1>1. ASSUME UNCHANGED <<package, legacy, evidence>>, Marked, SamePast,
               Fewer("package"), Fewer("evidence")
        PROVE  Goal
    <2>1. past.whole \subseteq past'.whole
      BY <1>1 DEF SamePast
    <2> QED BY <1>1, <2>1, PackagesStay, EvidenceStays
  <1>2. CASE Outside
    <2>1. Fewer("package") /\ Fewer("evidence")
      BY <1>2 DEF Outside, Fewer, In
    <2> QED BY <1>1, <1>2, <2>1 DEF Outside, SameFiles
  <1>3. CASE Starting
    <2>0. PICK a \in Actors : \E kind, c : /\ Starts(a, kind, c) /\ Asked(kind, c)
                                            /\ SameFiles /\ Marked /\ SamePast
      BY <1>3 DEF Starting
    <2>1. PICK kind, c : Starts(a, kind, c) /\ Asked(kind, c) /\ SameFiles /\ Marked /\ SamePast
      BY <2>0
    <2>2. kind # "package" /\ Fewer("package")
      BY <1>0, <2>1, OthersFewer DEF Asked
    <2>3. CASE kind # "evidence"
      <3>1. Fewer("evidence")
        BY <1>0, <2>1, <2>3, OthersFewer
      <3> QED BY <1>1, <2>1, <2>2, <3>1 DEF SameFiles
    <2>4. CASE kind = "evidence"
      <3>1. PICK e \in EvidenceFiles :
              c = [kind |-> "evidence", step |-> "write", file |-> e,
                   data |-> [status |-> IF Build(e) THEN "ready" ELSE "blocked",
                             bundle |-> BundleSha256]]
        BY <2>1, <2>4 DEF Asked
      <3>2. Backed(c.data)
        <4>1. /\ c.data.status = IF Build(e) THEN "ready" ELSE "blocked"
              /\ c.data.bundle = BundleSha256
          BY <3>1
        <4>2. CASE Build(e)
          BY <1>0, <4>1, <4>2, ReadyIsReadback, ReadbackOnce DEF Backed
        <4>3. CASE ~Build(e)
          BY <4>1, <4>3 DEF Backed
        <4> QED BY <4>2, <4>3
      <3>3. call'[a] = c /\ \A b \in Actors \ {a} : call'[b] = call[b]
        BY <1>0, <2>1, OneCall DEF Starts
      <3>4. \A b \in Actors : In(b, "evidence")' => Backed(call'[b].data)
        BY <3>2, <3>3 DEF PackageInv, EvidenceGood, In
      <3>5. EvidenceGood'
        BY <2>1, <3>4 DEF PackageInv, EvidenceGood, Backed, SameFiles, SamePast
      <3> QED BY <2>1, <2>2, <3>5, PackagesStay DEF SameFiles
    <2> QED BY <2>3, <2>4
  <1>4. CASE Cutting \/ Testing
    <2>0. PICK a \in Actors : Ends(a, call[a].kind) /\ SameFiles /\ Marked /\ SamePast
      BY <1>4 DEF Cutting, Testing
    <2>1. PICK kind : Ends(a, kind) /\ SameFiles /\ Marked /\ SamePast
      BY <2>0
    <2>2. Fewer("package") /\ Fewer("evidence")
      BY <1>0, <2>1, OthersFewer
    <2> QED BY <1>1, <2>1, <2>2 DEF SameFiles
  <1>5. ASSUME NEW a \in Actors, BeginPackage(a) \/ WritePart(a) PROVE Goal
    BY <1>5, BeginPackageOrdered, WritePartOrdered
  <1>6. ASSUME NEW a \in Actors, WriteEvidence(a) PROVE Goal
    <2>1. /\ EvidenceGood' /\ Ends(a, "evidence") /\ Marked /\ SamePast
          /\ UNCHANGED <<package, legacy>>
      BY <1>6, WriteEvidenceGood
    <2>2. Fewer("package")
      BY <1>0, <2>1, OthersFewer
    <2> QED BY <2>1, <2>2, PackagesStay
  <1>7. ASSUME NEW a \in Actors, AppendLine(a) \/ ReadBack(a) \/ WriteIndex(a) PROVE Goal
    <2>1. PICK K \in Ledgers : K = call[a].kind /\ In(a, K)
      BY <1>7 DEF AppendLine, ReadBack, WriteIndex, InRecord, In
    <2>2. UNCHANGED <<package, legacy, evidence, past>>
      BY <1>7 DEF AppendLine, ReadBack, WriteIndex, InRecord
    <2>3. Marked /\ SamePast
      BY <2>2 DEF Marked, SamePast
    <2>4. \E c : Proceeds(a, K, c) \/ Ends(a, K)
      BY <1>0, <1>7, <2>1, RecordMoves
    <2>5. K # "package" /\ K # "evidence"
      BY DEF Ledgers
    <2>6. Fewer("package") /\ Fewer("evidence")
      BY <1>0, <2>4, <2>5, OthersFewer
    <2> QED BY <1>1, <2>2, <2>3, <2>6
  <1> HIDE DEF Goal
  <1> QED BY <1>0, <1>2, <1>3, <1>4, <1>5, <1>6, <1>7, EveryStep

Roots == {"new", "older", "released"}

\* What a root may start with.
LEMMA PackageInvInit ==
    ASSUME NEW root \in Roots, NEW events, TestingInit(root, events)
    PROVE  PackageInv
  <1> USE DEF TestingInit, ReleaseInit
  <1>1. \A a \in Actors : \A kind : ~In(a, kind)
    BY DEF In
  <1>2. PICK write : write = [id |-> 1, files |-> 1]
    OBVIOUS
  <1>3. /\ package["sha256"] = IF root = "released" THEN write ELSE NoWrite
        /\ package["bundle"] = package["sha256"] /\ package["manifest"] = package["sha256"]
        /\ legacy = IF root = "older" THEN write ELSE NoWrite
    BY <1>2, PartNamesAre
  <1>4. /\ past.writes = IF root = "new" THEN 0 ELSE 1
        /\ past.whole = IF root = "new" THEN {} ELSE {1}
    BY DEF NothingPast
  <1>5. write.id = 1 /\ NoWrite.id = 0 /\ write # NoWrite
    BY <1>2 DEF NoWrite
  <1>6. Numbered
    BY <1>1, <1>3, <1>4, <1>5 DEF Numbered
  <1>7. InOrder
    BY <1>1, <1>3, <1>4, <1>5 DEF InOrder, OneAtATime, ChecksumLast, NewestWhole, Roots
  <1>8. EvidenceGood
    <2>1. /\ evidence = [e \in EvidenceFiles |-> evidence[e]]
          /\ \A e \in EvidenceFiles :
                evidence[e] = IF root = "released" THEN [status |-> "ready", bundle |-> 1]
                                                   ELSE NoEvidence
      OBVIOUS
    <2>2. \A e \in EvidenceFiles : Backed(evidence[e])
      BY <1>4, <2>1 DEF Backed, NoEvidence
    <2> QED BY <1>1, <2>1, <2>2 DEF EvidenceGood
  <1>9. RunInv
    BY RunInvInit
  <1> QED BY <1>6, <1>7, <1>8, <1>9 DEF PackageInv

\* The package that reads back is the newest that was ever whole.
LEMMA ReadsNewest ==
    ASSUME PackageInv, PackageReadback, "package" \notin past.overlapped
    PROVE  \A id \in past.whole : id <= BundleSha256
  <1>1. InOrder
    BY DEF PackageInv
  <1>2. Whole(TargetSet) /\ ArtifactSetExists(TargetSet)
    BY DEF PackageReadback, Whole
  <1>3. BundleSha256 = TargetSet["bundle"].id
    BY <1>2 DEF BundleSha256
  <1>4. CASE ArtifactSetExists(package) \/ ~ArtifactSetExists(LegacySet)
    <2>1. TargetSet = package
      BY <1>4 DEF TargetSet
    <2>2. package["sha256"] # NoWrite /\ package["sha256"] = package["bundle"]
      BY <1>2, <2>1, PartNamesAre DEF Whole, ArtifactSetExists
    <2> QED BY <1>1, <1>3, <2>1, <2>2 DEF InOrder, NewestWhole
  <1>5. CASE ~ArtifactSetExists(package) /\ ArtifactSetExists(LegacySet)
    <2>1. TargetSet = LegacySet /\ LegacySet["bundle"] = legacy
      BY <1>5, PartNamesAre DEF TargetSet, LegacySet
    <2>2. package["sha256"] = NoWrite
      BY <1>1, <1>5, PartNamesAre DEF InOrder, ChecksumLast, ArtifactSetExists
    <2> QED BY <1>1, <1>3, <2>1, <2>2 DEF InOrder, NewestWhole
  <1> QED BY <1>4, <1>5

\* What readers take for the package was complete on disk once, and no newer one
\* ever was, unless two processes wrote packages at the same time
\* (writeOwnerOpsInternalProductionPackage, readOwnerOpsInternalProductionPackage):
\* for any processes, any number of writes and crashes between their three files.
THEOREM NewestWholePackageHolds ==
    ASSUME NEW CONSTANT root \in Roots, NEW CONSTANT events
    PROVE  TestingSpec(root, events) => []NewestWholePackage
  <1>1. PackageInv => NewestWholePackage
    BY ReadsNewest, ReadbackOnce DEF PackageInv, NewestWholePackage
  <1>2. TestingInit(root, events) => PackageInv
    BY PackageInvInit
  <1> QED BY <1>1, <1>2, PackageInvNext, PTL DEF TestingSpec

\* Evidence that says "ready" was built on a package that was complete on disk, and
\* a ready snapshot holds none of a package newer than the one it reads back, unless
\* package writes overlapped (the writers of the five evidence files,
\* buildOwnerOpsPublicReleaseReadbackSnapshot).
THEOREM EvidenceBackedHolds ==
    ASSUME NEW CONSTANT root \in Roots, NEW CONSTANT events
    PROVE  TestingSpec(root, events) => []EvidenceBacked
  <1>1. PackageInv => EvidenceBacked
    <2> SUFFICES ASSUME PackageInv PROVE EvidenceBacked
      OBVIOUS
    <2>1. \A e \in EvidenceFiles : EvidenceReady(e) => evidence[e].bundle \in past.whole
      BY DEF PackageInv, EvidenceGood, Backed, EvidenceReady
    <2>2. ASSUME ReleaseReadbackSnapshot, "package" \notin past.overlapped, NEW e \in EvidenceFiles
          PROVE  evidence[e].bundle \in 1 .. BundleSha256
      <3>1. PackageReadback /\ evidence[e].bundle \in past.whole
        BY <2>1, <2>2 DEF ReleaseReadbackSnapshot
      <3>2. evidence[e].bundle <= BundleSha256 /\ BundleSha256 \in past.whole
        BY <2>2, <3>1, ReadsNewest, ReadbackOnce DEF PackageInv
      <3>3. evidence[e].bundle \in 1 .. past.writes /\ BundleSha256 \in 1 .. past.writes
            /\ past.writes \in Nat
        BY <3>1, <3>2 DEF PackageInv, Numbered
      <3> QED BY <3>2, <3>3
    <2> QED BY <2>1, <2>2 DEF EvidenceBacked
  <1>2. TestingInit(root, events) => PackageInv
    BY PackageInvInit
  <1> QED BY <1>1, <1>2, PackageInvNext, PTL DEF TestingSpec

(***************************************************************************)
(* Critical reports, and the decisions made after them.                      *)
(***************************************************************************)

\* The critical reports among the first n have a window of reports after them.
Behind(log, n) == \A i \in 1 .. n : log[i].tag = "critical" => i + Window <= n
Seen(log, rec) == rec.seen \in 0 .. Len(log) /\ Behind(log, rec.seen)

TestsShaped ==
    /\ tests = [kind \in TestKinds |-> tests[kind]]
    /\ \E S : tests["broader"] \in Seq(S)
DecisionInv ==
    /\ RunInv /\ TestsShaped
    /\ \A rec \in ToSet(ledger["owner"]) : Seen(tests["broader"], rec)
    /\ \A a \in Actors : In(a, "owner") => Seen(tests["broader"], call[a].rec)

\* Without a critical report in the window every one is behind it.
LEMMA NoneInWindow ==
    ASSUME TestsShaped, ~CriticalInWindow("broader")
    PROVE  Behind(tests["broader"], Len(tests["broader"]))
  <1>1. PICK log, n : log = tests["broader"] /\ n = Len(log)
    OBVIOUS
  <1>2. n \in Nat /\ DOMAIN log = 1 .. n
    BY <1>1 DEF TestsShaped
  <1>3. ASSUME NEW i \in 1 .. n, log[i].tag = "critical" PROVE i + Window <= n
    <2>1. ~(i + Window > n)
      BY <1>1, <1>2, <1>3 DEF CriticalInWindow, InWindow
    <2>2. Window \in Nat
      BY TestingAssumption
    <2> QED BY <1>2, <2>1, <2>2
  <1> QED BY <1>1, <1>3 DEF Behind

\* An owner decision and a ready product ask for an empty window.
LEMMA ReadyIsBehind ==
    /\ InternalProductionOwnerDecision => ~CriticalInWindow("broader")
    /\ InternalProductionReadiness => ~CriticalInWindow("broader")
  BY DEF InternalProductionOwnerDecision, ProductionReadyDecisionPacket,
         VerifyNextOwnerTestingLoop, NextOwnerTestingLoop,
         VerifyBroaderOwnerTestingRepairCompletion, BroaderOwnerTestingRepairCompletion,
         BroaderOwnerTestingRepairQueue, BroaderOwnerTestingResultLedger,
         InternalProductionReadiness

\* More reports change nothing of what was seen.
LEMMA SeenStays ==
    ASSUME NEW S, NEW log \in Seq(S), NEW x, NEW rec, Seen(log, rec)
    PROVE  Seen(Append(log, x), rec)
  <1>1. log \in Seq(S \cup {x})
    OBVIOUS
  <1>2. PICK more : more = Append(log, x)
    OBVIOUS
  <1>3. Len(more) = Len(log) + 1 /\ \A i \in 1 .. Len(log) : more[i] = log[i]
    BY <1>1, <1>2
  <1>4. PICK n : n = rec.seen
    OBVIOUS
  <1>5. n \in 0 .. Len(log) /\ Behind(log, n) /\ Len(log) \in Nat
    BY <1>1, <1>4 DEF Seen
  <1>6. n \in 0 .. Len(more)
    BY <1>3, <1>5
  <1>7. \A i \in 1 .. n : more[i] = log[i]
    BY <1>3, <1>5
  <1>8. Behind(more, n)
    BY <1>5, <1>7 DEF Behind
  <1> QED BY <1>2, <1>4, <1>6, <1>8 DEF Seen

\* A step that hands in no report, and starts, goes on with and ends no decision.
LEMMA DecisionsStay ==
    ASSUME DecisionInv, RunInv', UNCHANGED <<tests, ledger>>, Fewer("owner")
    PROVE  DecisionInv'
  BY DEF DecisionInv, TestsShaped, Fewer

\* A decision starts with what it has seen.
LEMMA OwnerStarts ==
    ASSUME DecisionInv, RunInv', NEW a \in Actors, BeginOwnerDecision(a)
    PROVE  DecisionInv'
  <1>0. RunInv
    BY DEF DecisionInv
  <1>1. PICK rec : /\ rec = [bundle |-> BundleSha256, seen |-> Len(tests["broader"])]
                   /\ BeginRecord(a, "owner", rec)
    BY DEF BeginOwnerDecision
  <1>2. /\ UNCHANGED <<tests, ledger>> /\ InternalProductionOwnerDecision
    BY DEF BeginOwnerDecision, BeginRecord, testingVars
  <1>3. PICK c : /\ Starts(a, "owner", c)
                 /\ c = [kind |-> "owner", step |-> "append", rec |-> rec, count |-> 0]
    BY <1>0, <1>1, RecordStarts DEF Ledgers
  <1>4. call'[a] = c /\ \A b \in Actors \ {a} : call'[b] = call[b]
    BY <1>0, <1>3, OneCall DEF Starts
  <1>5. Seen(tests["broader"], rec)
    <2>1. Behind(tests["broader"], Len(tests["broader"]))
      BY <1>2, NoneInWindow, ReadyIsBehind DEF DecisionInv
    <2>2. Len(tests["broader"]) \in Nat /\ rec.seen = Len(tests["broader"])
      BY <1>1 DEF DecisionInv, TestsShaped
    <2> QED BY <2>1, <2>2 DEF Seen
  <1>6. \A b \in Actors : In(b, "owner")' => Seen(tests["broader"], call'[b].rec)
    BY <1>3, <1>4, <1>5 DEF DecisionInv, In
  <1> QED BY <1>2, <1>6 DEF DecisionInv, TestsShaped

\* A report that is handed in changes nothing that was seen.
LEMMA ReportDecided ==
    ASSUME DecisionInv, RunInv', NEW a \in Actors, AppendTest(a)
    PROVE  DecisionInv'
  <1>0. RunInv
    BY DEF DecisionInv
  <1>1. PICK kind, x : /\ kind = call[a].kind /\ kind \in TestKinds /\ x = call[a].report
                       /\ tests' = [tests EXCEPT ![kind] = Append(tests[kind], x)]
    BY DEF AppendTest
  <1>2. Ends(a, kind) /\ UNCHANGED ledger
    BY <1>1 DEF AppendTest, Ends, In, Leave
  <1>3. Fewer("owner")
    BY <1>0, <1>2, OthersFewer
  <1>4. PICK log, S : log = tests["broader"] /\ log \in Seq(S)
    BY DEF DecisionInv, TestsShaped
  <1>5. tests'["broader"] = log \/ tests'["broader"] = Append(log, x)
    BY <1>1, <1>4 DEF DecisionInv, TestsShaped, TestKinds
  <1>6. TestsShaped'
    <2>1. log \in Seq(S \cup {x})
      BY <1>4
    <2>2. tests'["broader"] \in Seq(S \cup {x})
      BY <1>5, <2>1
    <2>3. tests' = [k \in TestKinds |-> tests'[k]]
      BY <1>1 DEF DecisionInv, TestsShaped
    <2> QED BY <2>2, <2>3 DEF TestsShaped
  <1>7. ASSUME NEW rec, Seen(log, rec) PROVE Seen(tests'["broader"], rec)
    BY <1>4, <1>5, <1>7, SeenStays
  <1>8. \A rec \in ToSet(ledger["owner"]) : Seen(tests'["broader"], rec)
    BY <1>4, <1>7 DEF DecisionInv
  <1>9. \A b \in Actors : In(b, "owner")' => Seen(tests'["broader"], call'[b].rec)
    BY <1>3, <1>4, <1>7 DEF DecisionInv, Fewer
  <1> QED BY <1>2, <1>6, <1>8, <1>9 DEF DecisionInv

\* A decision is recorded as it was made.
LEMMA RecordDecided ==
    ASSUME DecisionInv, RunInv', NEW a \in Actors, AppendLine(a) \/ ReadBack(a) \/ WriteIndex(a),
           UNCHANGED tests
    PROVE  DecisionInv'
  <1>0. RunInv
    BY DEF DecisionInv
  <1>1. PICK K \in Ledgers : K = call[a].kind /\ In(a, K)
    BY DEF AppendLine, ReadBack, WriteIndex, InRecord, In
  <1>2. PICK x, s, r, n : /\ x = [kind |-> K, step |-> s, rec |-> r, count |-> n]
                          /\ call[a] = x
    BY <1>0, <1>1, RecordCallIs
  <1>c. call[a].rec = r
    BY <1>2
  <1>3. \E c : (Proceeds(a, K, c) /\ c.rec = r) \/ Ends(a, K)
    BY <1>0, <1>1, <1>c, RecordMoves
  <1>4. \A b \in Actors : In(b, "owner")' =>
           In(b, "owner") /\ call'[b].rec = call[b].rec
    <2>1. CASE Ends(a, K)
      BY <1>0, <2>1, OneCall DEF Ends, In
    <2>2. ASSUME NEW c, Proceeds(a, K, c), c.rec = r
          PROVE  \A b \in Actors : In(b, "owner")' =>
                    In(b, "owner") /\ call'[b].rec = call[b].rec
      <3>1. call'[a] = c /\ \A b \in Actors \ {a} : call'[b] = call[b]
        BY <1>0, <2>2, OneCall DEF Proceeds
      <3>2. call[a].rec = r
        BY <1>2
      <3> QED BY <1>1, <2>2, <3>1, <3>2 DEF Proceeds, In
    <2> QED BY <1>3, <2>1, <2>2
  <1>5. ToSet(ledger'["owner"]) \subseteq ToSet(ledger["owner"]) \cup {r} /\
        (ToSet(ledger'["owner"]) \subseteq ToSet(ledger["owner"]) \/ K = "owner")
    <2>1. CASE AppendLine(a)
      <3>1. ledger' = [ledger EXCEPT ![K] = Append(ledger[K], r)]
        BY <1>1, <1>2, <2>1 DEF AppendLine
      <3>2. CASE K = "owner"
        <4>1. PICK log, S : log = ledger["owner"] /\ log \in Seq(S)
          BY <1>0, <1>1, <3>2 DEF RunInv, Shaped
        <4>2. ledger'["owner"] = Append(log, r)
          BY <1>0, <1>1, <3>1, <3>2, <4>1 DEF RunInv, Shaped
        <4> QED BY <3>2, <4>1, <4>2, Appended
      <3>3. CASE K # "owner"
        <4>1. ledger'["owner"] = ledger["owner"]
          BY <1>0, <3>1, <3>3 DEF RunInv, Shaped, Ledgers
        <4> QED BY <4>1
      <3> QED BY <3>2, <3>3
    <2>2. CASE ReadBack(a) \/ WriteIndex(a)
      <3>1. ledger' = ledger
        BY <2>2 DEF ReadBack, WriteIndex
      <3> QED BY <3>1
    <2> QED BY <2>1, <2>2
  <1>6. K = "owner" => Seen(tests["broader"], r)
    BY <1>1, <1>c DEF DecisionInv
  <1>7. \A rec \in ToSet(ledger'["owner"]) : Seen(tests["broader"], rec)
    BY <1>5, <1>6 DEF DecisionInv
  <1>8. \A b \in Actors : In(b, "owner")' => Seen(tests["broader"], call'[b].rec)
    BY <1>4 DEF DecisionInv
  <1> QED BY <1>7, <1>8 DEF DecisionInv, TestsShaped

\* Every step keeps what decisions rest on.
LEMMA DecisionInvNext == DecisionInv /\ [TestingNext]_vars => DecisionInv'
  <1> SUFFICES ASSUME DecisionInv, [TestingNext]_vars PROVE DecisionInv'
    OBVIOUS
  <1>0. RunInv /\ RunInv'
    BY RunInvNext DEF DecisionInv
  <1>1. ASSUME NEW a \in Actors, NEW kind, NEW c, kind # "owner",
               Starts(a, kind, c) \/ Proceeds(a, kind, c) \/ Ends(a, kind), UNCHANGED <<tests, ledger>>
        PROVE  DecisionInv'
    BY <1>0, <1>1, OthersFewer, DecisionsStay
  <1>2. CASE UNCHANGED <<call, tests, ledger>>
    BY <1>0, <1>2, DecisionsStay DEF Fewer, In
  <1>3. CASE UNCHANGED vars \/ ((UpdateRoot \/ Tick) /\ UNCHANGED testingVars)
    BY <1>2, <1>3 DEF vars, releaseVars, testingVars, UpdateRoot, Tick
  <1>4. ASSUME NEW a \in Actors, Crash(a), UNCHANGED testingVars PROVE DecisionInv'
    <2>1. Ends(a, call[a].kind) /\ UNCHANGED <<tests, ledger>>
      BY <1>4 DEF Crash, Ends, In, Leave, testingVars
    <2> QED BY <1>0, <2>1, OthersFewer, DecisionsStay
  <1>5. ASSUME NEW a \in Actors, BeginPackage(a) \/ WritePart(a), UNCHANGED testingVars
        PROVE  DecisionInv'
    <2>1. UNCHANGED <<tests, ledger>>
      BY <1>5 DEF BeginPackage, WritePart, testingVars
    <2>2. \E c : \/ Starts(a, "package", c) \/ Proceeds(a, "package", c)
                 \/ Ends(a, "package")
      BY <1>0, <1>5, PackageStarts, PartMoves
    <2> QED BY <1>1, <2>1, <2>2
  <1>6. ASSUME NEW a \in Actors, NEW L \in Ledgers \ {"owner"}, NEW rec, BeginRecord(a, L, rec),
               UNCHANGED testingVars
        PROVE  DecisionInv'
    <2>1. UNCHANGED <<tests, ledger>>
      BY <1>6 DEF BeginRecord, testingVars
    <2> QED BY <1>0, <1>1, <1>6, <2>1, RecordStarts
  <1>7. ASSUME NEW a \in Actors, NEW c, NEW kind, kind # "owner",
               Begin(a, kind), Enter(a, c), c # Idle, c.kind = kind, NotePast(a, kind),
               UNCHANGED <<tests, ledger>>
        PROVE  DecisionInv'
    BY <1>0, <1>1, <1>7, NotedStart
  <1>8. ASSUME NEW a \in Actors, NEW e \in EvidenceFiles, BeginEvidence(a, e), UNCHANGED testingVars
        PROVE  DecisionInv'
    <2>1. PICK c, data : /\ Enter(a, c)
                         /\ c = [kind |-> "evidence", step |-> "write", file |-> e, data |-> data]
      BY <1>8 DEF BeginEvidence
    <2>2. c # Idle /\ c.kind = "evidence"
      BY <2>1 DEF Idle
    <2>3. Begin(a, "evidence") /\ NotePast(a, "evidence") /\ UNCHANGED <<tests, ledger>>
      BY <1>8 DEF BeginEvidence, testingVars
    <2> QED BY <1>7, <2>1, <2>2, <2>3
  <1>9. ASSUME NEW a \in Actors, NEW kind \in TestKinds, NEW report, BeginTest(a, kind, report)
        PROVE  DecisionInv'
    <2>1. PICK c : c = [kind |-> kind, step |-> "append", report |-> report]
      OBVIOUS
    <2>2. c # Idle /\ c.kind = kind
      BY <2>1 DEF Idle
    <2>3. Begin(a, kind) /\ Enter(a, c) /\ NotePast(a, kind) /\ UNCHANGED <<tests, ledger>>
      BY <1>9, <2>1 DEF BeginTest, testingVars
    <2> QED BY <1>7, <2>2, <2>3 DEF TestKinds
  <1>10. ASSUME NEW a \in Actors, NEW file, BeginRepair(a, file) PROVE DecisionInv'
    <2>1. PICK c, data : /\ Enter(a, c)
                         /\ c = [kind |-> "repair", step |-> "write", file |-> file,
                                 data |-> data]
      BY <1>10 DEF BeginRepair
    <2>2. c # Idle /\ c.kind = "repair"
      BY <2>1 DEF Idle
    <2>3. Begin(a, "repair") /\ NotePast(a, "repair") /\ UNCHANGED <<tests, ledger>>
      BY <1>10 DEF BeginRepair, testingVars
    <2> QED BY <1>7, <2>1, <2>2, <2>3
  <1>11. ASSUME NEW a \in Actors, WriteRepair(a) \/ (WriteEvidence(a) /\ UNCHANGED testingVars)
         PROVE  DecisionInv'
    <2>1. \E kind \in {"repair", "evidence"} : Ends(a, kind)
      BY <1>11 DEF WriteRepair, WriteEvidence, Ends, In, Leave
    <2>2. UNCHANGED <<tests, ledger>>
      BY <1>11 DEF WriteRepair, WriteEvidence, testingVars
    <2> QED BY <1>1, <2>1, <2>2
  <1>12. ASSUME NEW a \in Actors, RecordNext(a), UNCHANGED testingVars PROVE DecisionInv'
    BY <1>0, <1>12, RecordDecided DEF RecordNext, testingVars
  <1>13. ASSUME NEW a \in Actors, UNCHANGED testingVars,
                \/ \E d \in Decisions : BeginHumanDecision(a, d) \/ BeginMarketplaceDecision(a, d)
                \/ \E lane \in Lanes, ttl \in Ttls : BeginApproval(a, lane, ttl)
                \/ \E lane \in Lanes : BeginInvocation(a, lane)
         PROVE  DecisionInv'
    <2>1. \E L \in Ledgers \ {"owner"} : \E rec : BeginRecord(a, L, rec)
      BY <1>13 DEF BeginHumanDecision, BeginMarketplaceDecision, BeginApproval, BeginInvocation,
                  Ledgers
    <2> QED BY <1>6, <1>13, <2>1
  <1>14. CASE ReleaseNext /\ UNCHANGED testingVars
    BY <1>3, <1>4, <1>5, <1>8, <1>11, <1>12, <1>13, <1>14 DEF ReleaseNext
  <1> QED BY <1>0, <1>3, <1>9, <1>10, <1>11, <1>14, OwnerStarts, ReportDecided DEF TestingNext

\* A critical report keeps owner decisions and production readiness closed until a
\* window of reports has come after it (CriticalInWindow reads the last 200 reports;
\* completing its repair clears nothing): for any window, reports and processes,
\* however many decisions wait between their check and their record.
THEOREM CriticalForgottenHolds ==
    ASSUME NEW CONSTANT root, NEW CONSTANT events
    PROVE  TestingSpec(root, events) => []CriticalForgottenOnlyByWindow
  <1>1. DecisionInv => CriticalForgottenOnlyByWindow
    <2> SUFFICES ASSUME DecisionInv
                 PROVE  /\ \A k \in DOMAIN ledger["owner"] :
                              Behind(tests["broader"], ledger["owner"][k].seen)
                        /\ InternalProductionReadiness =>
                              Behind(tests["broader"], Len(tests["broader"]))
      BY DEF CriticalForgottenOnlyByWindow, Behind
    <2>1. \A k \in DOMAIN ledger["owner"] : ledger["owner"][k] \in ToSet(ledger["owner"])
      BY DEF ToSet
    <2> QED BY <2>1, NoneInWindow, ReadyIsBehind DEF DecisionInv, Seen
  <1>2. TestingInit(root, events) => DecisionInv
    <2> SUFFICES ASSUME TestingInit(root, events) PROVE DecisionInv
      OBVIOUS
    <2>1. TestsShaped
      <3>1. tests["broader"] \in Seq({}) /\ tests = [kind \in TestKinds |-> tests[kind]]
        BY DEF TestingInit, TestKinds
      <3> QED BY <3>1 DEF TestsShaped
    <2>2. ToSet(ledger["owner"]) = {} /\ \A a \in Actors : ~In(a, "owner")
      BY DEF TestingInit, ReleaseInit, Ledgers, ToSet, In
    <2> QED BY <2>1, <2>2, RunInvInit DEF DecisionInv
  <1> QED BY <1>1, <1>2, DecisionInvNext, PTL DEF TestingSpec

\* A sequence is a prefix of itself with one more.
LEMMA PrefixOfMore ==
    ASSUME NEW S, NEW s \in Seq(S), NEW x
    PROVE  IsPrefix(s, s) /\ IsPrefix(s, Append(s, x))
  <1>1. s \in Seq(S \cup {x}) /\ Append(s, x) \in Seq(S \cup {x})
    BY Appended
  <1>2. Len(Append(s, x)) = Len(s) + 1 /\ Len(s) \in Nat
    BY <1>1
  <1>3. SubSeq(s, 1, Len(s)) = SubSeq(Append(s, x), 1, Len(s))
    <2>1. \A i \in 1 .. Len(s) : Append(s, x)[i] = s[i]
      BY <1>1
    <2> QED BY <1>1, <1>2, <2>1
  <1> QED BY <1>2, <1>3 DEF IsPrefix

\* The owner's decisions only ever grow, but for the one call that starts the current
\* file over the file of an older version (appendOwnerOpsInternalProductionOwnerDecisionRecord
\* appends, whatever else is written, read back or cut short meanwhile).
THEOREM OwnerDecisionsKeptHolds ==
    ASSUME NEW CONSTANT root, NEW CONSTANT events
    PROVE  TestingSpec(root, events) => OwnerDecisionsKept
  <1>1. ASSUME RunInv, [TestingNext]_vars
        PROVE  [IsPrefix(OwnerDecisions, OwnerDecisions') \/ ~Recorded("owner")]_vars
    <2> SUFFICES ASSUME Recorded("owner") PROVE IsPrefix(OwnerDecisions, OwnerDecisions')
      OBVIOUS
    <2>1. PICK log, S : log = ledger["owner"] /\ log \in Seq(S) /\ log # <<>>
      BY <1>1 DEF RunInv, Shaped, Recorded, Ledgers
    <2>2. \E x : ledger'["owner"] = log \/ ledger'["owner"] = Append(log, x)
      <3>1. CASE \E a \in Actors : AppendLine(a)
        <4>1. PICK L, x : ledger' = [ledger EXCEPT ![L] = Append(ledger[L], x)]
          BY <3>1 DEF AppendLine
        <4>2. ledger'["owner"] = ledger["owner"] \/ ledger'["owner"] = Append(ledger["owner"], x)
          BY <1>1, <4>1 DEF RunInv, Shaped, Ledgers
        <4> QED BY <2>1, <4>2
      <3>2. CASE UNCHANGED ledger
        BY <2>1, <3>2
      <3>3. UNCHANGED ledger \/ \E a \in Actors : AppendLine(a)
        BY <1>1, EveryStep DEF Outside, Starting, Cutting, Testing, SameFiles, BeginPackage,
                               WritePart, WriteEvidence, ReadBack, WriteIndex
      <3> QED BY <3>1, <3>2, <3>3
    <2>3. PICK x : ledger'["owner"] = log \/ ledger'["owner"] = Append(log, x)
      BY <2>2
    <2>4. Append(log, x) # <<>> /\ IsPrefix(log, log) /\ IsPrefix(log, Append(log, x))
      <3>1. Append(log, x) # <<>>
        <4>1. log \in Seq(S \cup {x})
          BY <2>1
        <4> QED BY <4>1
      <3> QED BY <2>1, <3>1, PrefixOfMore
    <2>5. OwnerDecisions = log /\ OwnerDecisions' = ledger'["owner"]
      BY <2>1, <2>3, <2>4 DEF OwnerDecisions, Recorded
    <2> QED BY <2>3, <2>4, <2>5
  <1>2. TestingInit(root, events) => RunInv
    BY RunInvInit
  <1> QED BY <1>1, <1>2, RunInvNext, PTL DEF TestingSpec, OwnerDecisionsKept

(***************************************************************************)
(* Receipts and records of the local records module: the invariant.             *)
(***************************************************************************)

Receipt == [user : Users, workflow : Workflows, expiresAt : Nat]
Record == [workflow : Workflows, createdAt : Nat, by : Writers, life : Nat, receipt : Nat]
Writing == [record : Record, seen : Nat]

Pending(w) == writer[w] # AtRest

RecordsShaped ==
    /\ second \in Nat
    /\ receipts \in Seq(Receipt)
    /\ spent = [s \in Servers |-> spent[s]]
    /\ life \in [Writers -> Nat]
    /\ writer = [w \in Writers |-> writer[w]]
    /\ written \in Seq(Writing)
    /\ \A w \in Writers : Pending(w) => writer[w].record \in Record /\ writer[w].seen \in Nat

\* The receipt a server writes a record for was issued for it, and the process
\* that does so remembers it as spent.
Issued(record) ==
    /\ record.receipt \in DOMAIN receipts
    /\ receipts[record.receipt].user = userOf[record.by]
    /\ receipts[record.receipt].workflow = record.workflow
    /\ record.createdAt < receipts[record.receipt].expiresAt
Remembered(record) ==
    /\ record.life <= life[record.by]
    /\ record.life = life[record.by] => record.receipt \in spent[record.by]
CoveredByReceipt(record) == record.by \in Servers => Issued(record) /\ Remembered(record)

WrittenCovered == \A i \in DOMAIN written : CoveredByReceipt(written[i].record)
PendingCovered ==
    \A w \in Writers : Pending(w) =>
        /\ writer[w].record.by = w
        /\ writer[w].record.life = life[w]
        /\ CoveredByReceipt(writer[w].record)

\* Of two records of a process, written or about to be, no receipt is the same.
Apart(one, other) ==
    one.by \in Servers /\ other.receipt = one.receipt =>
        other.by # one.by \/ other.life # one.life
WrittenApart ==
    \A i \in DOMAIN written : \A j \in DOMAIN written \ {i} :
        Apart(written[i].record, written[j].record)
PendingApart ==
    \A w \in Writers : Pending(w) =>
        \A i \in DOMAIN written : Apart(written[i].record, writer[w].record)

ReceiptInv ==
    RecordsShaped /\ WrittenCovered /\ PendingCovered /\ WrittenApart /\ PendingApart

LEMMA ReceiptInvInit == RecordsInit => ReceiptInv
  <1> SUFFICES ASSUME RecordsInit PROVE ReceiptInv
    OBVIOUS
  <1>1. RecordsShaped
    BY DEF RecordsInit, RecordsShaped, Pending, AtRest
  <1>2. WrittenCovered /\ WrittenApart
    BY DEF RecordsInit, WrittenCovered, WrittenApart
  <1>3. PendingCovered /\ PendingApart
    BY DEF RecordsInit, PendingCovered, PendingApart, Pending
  <1> QED BY <1>1, <1>2, <1>3 DEF ReceiptInv

LEMMA SpentOnce == ReceiptInv => ReceiptSpentOnce
  BY DEF ReceiptInv, WrittenCovered, WrittenApart, Apart, CoveredByReceipt, Issued, ReceiptSpentOnce

(***************************************************************************)
(* Steps that neither write nor call.                                        *)
(***************************************************************************)

LEMMA UnchangedKeeps ==
    ASSUME ReceiptInv, second' \in Nat,
           UNCHANGED <<receipts, userOf, spent, life, writer, written>>
    PROVE  ReceiptInv'
  <1>1. RecordsShaped'
    BY DEF ReceiptInv, RecordsShaped, Pending
  <1>2. WrittenCovered' /\ WrittenApart'
    BY DEF ReceiptInv, WrittenCovered, WrittenApart, Apart, CoveredByReceipt, Issued, Remembered
  <1>3. PendingCovered' /\ PendingApart'
    BY DEF ReceiptInv, PendingCovered, PendingApart, Pending, Apart, CoveredByReceipt, Issued,
           Remembered
  <1> QED BY <1>1, <1>2, <1>3 DEF ReceiptInv

LEMMA IssueKeeps ==
    ASSUME ReceiptInv, NEW user \in Users, NEW workflow \in Workflows,
           NEW ttl \in 1..MaxSecond, IssueReceipt(user, workflow, ttl)
    PROVE  ReceiptInv'
  <1> DEFINE new == [user |-> user, workflow |-> workflow, expiresAt |-> second + ttl]
  <1>1. /\ receipts' = Append(receipts, new)
        /\ UNCHANGED <<second, userOf, spent, life, writer, written>>
    BY DEF IssueReceipt
  <1>2. new \in Receipt /\ receipts \in Seq(Receipt)
    BY RecordsAssumption DEF ReceiptInv, RecordsShaped, Receipt
  <1> HIDE DEF new
  <1>3. receipts' \in Seq(Receipt)
    BY <1>1, <1>2
  <1>4. \A r \in DOMAIN receipts : r \in DOMAIN receipts' /\ receipts'[r] = receipts[r]
    BY <1>1, <1>2
  <1>5. ASSUME NEW record, CoveredByReceipt(record) PROVE CoveredByReceipt(record)'
    BY <1>1, <1>4, <1>5 DEF CoveredByReceipt, Issued, Remembered
  <1>6. RecordsShaped'
    BY <1>1, <1>3 DEF ReceiptInv, RecordsShaped, Pending
  <1>7. WrittenCovered' /\ PendingCovered'
    BY <1>1, <1>5 DEF ReceiptInv, WrittenCovered, PendingCovered, Pending, CoveredByReceipt, Issued, Remembered
  <1>8. WrittenApart' /\ PendingApart'
    BY <1>1 DEF ReceiptInv, WrittenApart, PendingApart, Pending, Apart
  <1> QED BY <1>6, <1>7, <1>8 DEF ReceiptInv

(***************************************************************************)
(* Calls.                                                                    *)
(***************************************************************************)

\* A call of w for r, after which w remembers r.
LEMMA ReceiptCallKeeps ==
    ASSUME ReceiptInv, NEW w \in Writers, NEW workflow \in Workflows, NEW r \in Nat,
           Read(w, workflow, r),
           UNCHANGED <<second, receipts, userOf, life, written>>,
           spent' = [s \in Servers |-> spent'[s]],
           \A s \in Servers : spent[s] \subseteq spent'[s],
           w \in Servers =>
              /\ r \in DOMAIN receipts /\ Verified(w, workflow, r)
              /\ r \notin spent[w] /\ r \in spent'[w]
    PROVE  ReceiptInv'
  <1>0. PICK record :
           record = [workflow |-> workflow, createdAt |-> second, by |-> w,
                     life |-> life[w], receipt |-> r]
    OBVIOUS
  <1> DEFINE pending == [at |-> "write", record |-> record, before |-> recordFile,
                         seen |-> Len(written)]
  <1>1. writer' = [writer EXCEPT ![w] = pending]
    BY <1>0 DEF Read
  <1>2. record \in Record /\ pending # AtRest /\ pending.record = record
    BY <1>0 DEF ReceiptInv, RecordsShaped, Record, AtRest
  <1>3. pending.seen \in Nat
    BY DEF ReceiptInv, RecordsShaped
  <1>4. /\ record.workflow = workflow /\ record.createdAt = second /\ record.by = w
        /\ record.life = life[w] /\ record.receipt = r
    BY <1>0
  <1> HIDE DEF pending
  <1>5. /\ writer' = [v \in Writers |-> writer'[v]]
        /\ writer'[w] = pending
        /\ \A v \in Writers \ {w} : writer'[v] = writer[v]
    BY <1>1 DEF ReceiptInv, RecordsShaped
  <1>6. RecordsShaped'
    BY <1>2, <1>3, <1>5 DEF ReceiptInv, RecordsShaped, Pending
  <1>7. ASSUME NEW other, CoveredByReceipt(other) PROVE CoveredByReceipt(other)'
    BY <1>7 DEF CoveredByReceipt, Issued, Remembered
  <1>8. CoveredByReceipt(record)'
    <2>1. life[w] \in Nat
      BY DEF ReceiptInv, RecordsShaped
    <2> QED BY <1>4, <2>1 DEF CoveredByReceipt, Issued, Remembered, Verified
  <1>9. WrittenCovered'
    BY <1>7 DEF ReceiptInv, WrittenCovered, CoveredByReceipt, Issued, Remembered
  <1>10. PendingCovered'
    BY <1>2, <1>4, <1>5, <1>7, <1>8
       DEF ReceiptInv, PendingCovered, Pending, CoveredByReceipt, Issued, Remembered
  <1>11. WrittenApart'
    BY DEF ReceiptInv, WrittenApart, Apart
  <1>12. \A i \in DOMAIN written : Apart(written[i].record, record)
    BY <1>4 DEF ReceiptInv, WrittenCovered, CoveredByReceipt, Remembered, Apart
  <1>13. PendingApart'
    BY <1>2, <1>5, <1>12 DEF ReceiptInv, PendingApart, Pending, Apart
  <1> QED BY <1>6, <1>9, <1>10, <1>11, <1>13 DEF ReceiptInv

LEMMA CallToolKeeps ==
    ASSUME ReceiptInv, NEW s \in Servers, NEW workflow \in Workflows,
           NEW r \in DOMAIN receipts, CallTool(s, workflow, r)
    PROVE  ReceiptInv'
  <1>1. r \in Nat /\ s \in Writers
    BY DEF ReceiptInv, RecordsShaped, Writers
  <1>2. /\ spent' = [t \in Servers |-> spent'[t]]
        /\ \A t \in Servers : spent[t] \subseteq spent'[t]
        /\ r \in spent'[s]
    BY DEF CallTool, ReceiptInv, RecordsShaped
  <1>3. /\ Verified(s, workflow, r) /\ r \notin spent[s] /\ Read(s, workflow, r)
        /\ UNCHANGED <<second, receipts, userOf, life, written>>
    BY DEF CallTool
  <1> QED BY <1>1, <1>2, <1>3, ReceiptCallKeeps

LEMMA CallDirectKeeps ==
    ASSUME ReceiptInv, NEW w \in Others, NEW workflow \in Workflows, CallDirect(w, workflow)
    PROVE  ReceiptInv'
  <1>1. w \in Writers /\ w \notin Servers /\ NoReceipt \in Nat
    BY RecordsAssumption DEF Writers, NoReceipt
  <1>2. /\ Read(w, workflow, NoReceipt)
        /\ UNCHANGED <<second, receipts, userOf, spent, life, written>>
    BY DEF CallDirect
  <1>3. spent' = [t \in Servers |-> spent'[t]]
    BY <1>2 DEF ReceiptInv, RecordsShaped
  <1> QED BY <1>1, <1>2, <1>3, ReceiptCallKeeps

(***************************************************************************)
(* Writes and stops.                                                         *)
(***************************************************************************)

LEMMA WriteKeeps ==
    ASSUME ReceiptInv, NEW w \in Writers, WriteRecord(w)
    PROVE  ReceiptInv'
  <1> DEFINE record == writer[w].record
             writing == [record |-> record, seen |-> writer[w].seen]
  <1>1. /\ Pending(w)
        /\ written' = Append(written, writing)
        /\ writer' = [writer EXCEPT ![w] = AtRest]
        /\ UNCHANGED <<second, receipts, userOf, spent, life>>
    BY DEF WriteRecord, Pending
  <1>2. writing \in Writing /\ writing.record = record /\ written \in Seq(Writing)
    BY <1>1 DEF ReceiptInv, RecordsShaped, Writing
  <1>3. CoveredByReceipt(record) /\ \A i \in DOMAIN written : Apart(written[i].record, record)
    BY <1>1 DEF ReceiptInv, PendingCovered, PendingApart
  <1> HIDE DEF writing
  <1>4. /\ written' \in Seq(Writing)
        /\ DOMAIN written' = DOMAIN written \cup {Len(written) + 1}
        /\ Len(written) + 1 \notin DOMAIN written
        /\ written'[Len(written) + 1] = writing
        /\ \A i \in DOMAIN written : written'[i] = written[i]
    BY <1>1, <1>2
  <1>5. /\ writer' = [v \in Writers |-> writer'[v]]
        /\ writer'[w] = AtRest
        /\ \A v \in Writers \ {w} : writer'[v] = writer[v]
    BY <1>1 DEF ReceiptInv, RecordsShaped
  <1>6. RecordsShaped'
    BY <1>1, <1>4, <1>5 DEF ReceiptInv, RecordsShaped, Pending
  <1>7. ASSUME NEW other, CoveredByReceipt(other) PROVE CoveredByReceipt(other)'
    BY <1>1, <1>7 DEF CoveredByReceipt, Issued, Remembered
  <1>8. WrittenCovered'
    <2>1. \A i \in DOMAIN written' : CoveredByReceipt(written'[i].record)
      BY <1>2, <1>3, <1>4 DEF ReceiptInv, WrittenCovered
    <2> QED BY <1>1, <2>1 DEF WrittenCovered, CoveredByReceipt, Issued, Remembered
  <1>9. PendingCovered'
    BY <1>1, <1>5 DEF ReceiptInv, PendingCovered, Pending, CoveredByReceipt, Issued, Remembered
  <1>10. WrittenApart'
    BY <1>2, <1>3, <1>4 DEF ReceiptInv, WrittenApart, Apart
  <1>11. PendingApart'
    \* Two processes have two names.
    <2>1. \A v \in Writers \ {w} : Pending(v) => writer[v].record.by = v
      BY DEF ReceiptInv, PendingCovered
    <2>2. record.by = w
      BY <1>1 DEF ReceiptInv, PendingCovered
    <2> QED BY <1>2, <1>4, <1>5, <2>1, <2>2 DEF ReceiptInv, PendingApart, Pending, Apart
  <1> QED BY <1>6, <1>8, <1>9, <1>10, <1>11 DEF ReceiptInv

\* A call that ends without a write, and a process that may have stopped.
LEMMA StopKeeps ==
    ASSUME ReceiptInv, NEW w \in Writers, writer' = [writer EXCEPT ![w] = AtRest],
           UNCHANGED <<second, receipts, userOf, written>>,
           \/ UNCHANGED <<spent, life>>
           \/ /\ w \in Servers
              /\ spent' = [spent EXCEPT ![w] = {}]
              /\ life' = [life EXCEPT ![w] = life[w] + 1]
    PROVE  ReceiptInv'
  <1>writer. /\ writer' = [v \in Writers |-> writer'[v]]
        /\ writer'[w] = AtRest
        /\ \A v \in Writers \ {w} : writer'[v] = writer[v]
    BY DEF ReceiptInv, RecordsShaped
  <1>spent. spent' = [s \in Servers |-> spent'[s]]
    BY DEF ReceiptInv, RecordsShaped
  <1>life. life' \in [Writers -> Nat] /\ \A v \in Writers \ {w} : life'[v] = life[v]
    BY DEF ReceiptInv, RecordsShaped
  <1>1. /\ writer' = [v \in Writers |-> writer'[v]]
        /\ writer'[w] = AtRest
        /\ \A v \in Writers \ {w} : writer'[v] = writer[v] /\ life'[v] = life[v]
        /\ spent' = [s \in Servers |-> spent'[s]]
        /\ life' \in [Writers -> Nat]
    BY <1>writer, <1>spent, <1>life
  <1>2. RecordsShaped'
    BY <1>1 DEF ReceiptInv, RecordsShaped, Pending
  <1>3. ASSUME NEW record \in Record, CoveredByReceipt(record) PROVE CoveredByReceipt(record)'
    <2>1. record.life \in Nat /\ record.by \in Writers /\ life[w] \in Nat
      BY DEF Record, ReceiptInv, RecordsShaped
    <2>2. CASE UNCHANGED <<spent, life>>
      BY <1>3, <2>2 DEF CoveredByReceipt, Issued, Remembered
    <2>3. CASE /\ w \in Servers
               /\ spent' = [spent EXCEPT ![w] = {}]
               /\ life' = [life EXCEPT ![w] = life[w] + 1]
      <3>1. Issued(record) => Issued(record)'
        BY DEF Issued
      <3>2. record.by \in Servers /\ Remembered(record) => Remembered(record)'
        BY <2>1, <2>3 DEF Remembered, ReceiptInv, RecordsShaped
      <3> QED BY <1>3, <3>1, <3>2 DEF CoveredByReceipt
    <2> QED BY <2>2, <2>3
  <1>4. WrittenCovered'
    <2>1. \A i \in DOMAIN written : written[i].record \in Record
      <3>1. \A i \in DOMAIN written : written[i] \in Writing
        BY DEF ReceiptInv, RecordsShaped
      <3> QED BY <3>1 DEF Writing
    <2> QED BY <1>3, <2>1 DEF ReceiptInv, WrittenCovered, CoveredByReceipt, Issued, Remembered
  <1>5. PendingCovered'
    <2> SUFFICES ASSUME NEW v \in Writers, Pending(v)'
                 PROVE  /\ writer'[v].record.by = v
                        /\ writer'[v].record.life = life'[v]
                        /\ CoveredByReceipt(writer[v].record)' /\ writer'[v] = writer[v]
      BY DEF PendingCovered, CoveredByReceipt, Issued, Remembered
    <2>1. v # w /\ writer'[v] = writer[v] /\ Pending(v) /\ life'[v] = life[v]
      BY <1>1 DEF Pending
    <2>2. writer[v].record \in Record
      BY <2>1 DEF ReceiptInv, RecordsShaped
    <2>3. CoveredByReceipt(writer[v].record)
      BY <2>1 DEF ReceiptInv, PendingCovered
    <2>4. \A s \in Servers \ {w} : spent'[s] = spent[s]
      BY DEF ReceiptInv, RecordsShaped
    <2>5. writer[v].record.by = v /\ writer[v].record.life = life[v]
      BY <2>1 DEF ReceiptInv, PendingCovered
    <2> QED BY <2>1, <2>3, <2>4, <2>5 DEF CoveredByReceipt, Issued, Remembered
  <1>6. WrittenApart' /\ PendingApart'
    BY <1>1 DEF ReceiptInv, WrittenApart, PendingApart, Pending, Apart
  <1> QED BY <1>2, <1>4, <1>5, <1>6 DEF ReceiptInv

\* Every step keeps what is known of receipts.
LEMMA ReceiptInvNext == ReceiptInv /\ [RecordsNext]_recordVars => ReceiptInv'
  <1> SUFFICES ASSUME ReceiptInv, [RecordsNext]_recordVars PROVE ReceiptInv'
    OBVIOUS
  <1>1. CASE UNCHANGED recordVars
    BY <1>1, UnchangedKeeps DEF recordVars, ReceiptInv, RecordsShaped
  <1>2. CASE NextSecond
    BY <1>2, UnchangedKeeps DEF NextSecond, ReceiptInv, RecordsShaped
  <1>3. CASE \E user \in Users, workflow \in Workflows, ttl \in 1..MaxSecond :
                IssueReceipt(user, workflow, ttl)
    BY <1>3, IssueKeeps
  <1>4. CASE \E s \in Servers, workflow \in Workflows, r \in DOMAIN receipts :
                CallTool(s, workflow, r)
    BY <1>4, CallToolKeeps
  <1>5. CASE \E w \in Others, workflow \in Workflows : CallDirect(w, workflow)
    BY <1>5, CallDirectKeeps
  <1>6. CASE \E w \in Writers : WriteRecord(w)
    BY <1>6, WriteKeeps
  <1>7. CASE \E w \in Writers : WriteFails(w)
    BY <1>7, StopKeeps DEF WriteFails
  <1>8. CASE \E s \in Servers : Restart(s)
    BY <1>8, StopKeeps DEF Restart, Writers
  <1> QED BY <1>1, <1>2, <1>3, <1>4, <1>5, <1>6, <1>7, <1>8 DEF RecordsNext

\* A server writes a record only for a receipt issued to its user for that workflow
\* and not yet expired, and no server process uses one twice
\* (callOwnerOpsMcpTool, verifyOwnerOpsLocalWriteApprovalReceipt), however calls,
\* failed writes and restarts of all of them interleave.
THEOREM ReceiptSpentOnceHolds == RecordsSpec => []ReceiptSpentOnce
  <1> QED BY ReceiptInvNext, ReceiptInvInit, SpentOnce, PTL DEF RecordsSpec

(***************************************************************************)
(* A record stays in the file.                                               *)
(***************************************************************************)

\* What a file holds of the i-th record of a log, after so many of its writes.
Overtakes(log, j, i) ==
    j > i /\ (RecordId(log[j].record) = RecordId(log[i].record) \/ log[j].seen < i)
Kept(log, i, records, count) ==
    log[i].record \in records \/ \E j \in 1 .. count : Overtakes(log, j, i)

\* A process in a call holds the file as it was after the writes it has seen.
KeptInv ==
    /\ ReceiptInv
    /\ \A i \in DOMAIN written : Kept(written, i, recordFile, Len(written))
    /\ \A w \in Writers : Pending(w) =>
          /\ writer[w].seen \in 0 .. Len(written)
          /\ \A i \in 1 .. writer[w].seen : Kept(written, i, writer[w].before, writer[w].seen)

\* A call that reads the file holds what it keeps.
LEMMA ReadKeeps ==
    ASSUME KeptInv, NEW w \in Writers, NEW workflow, NEW r, Read(w, workflow, r),
           UNCHANGED <<recordFile, written>>, ReceiptInv'
    PROVE  KeptInv'
  <1>1. written \in Seq(Writing)
    BY DEF KeptInv, ReceiptInv, RecordsShaped
  <1> DEFINE x == [at |-> "write", before |-> recordFile, seen |-> Len(written),
                   record |-> [workflow |-> workflow, createdAt |-> second, by |-> w,
                               life |-> life[w], receipt |-> r]]
  <1>2. /\ writer' = [writer EXCEPT ![w] = x]
        /\ x.before = recordFile /\ x.seen = Len(written)
    BY DEF Read
  <1> HIDE DEF x
  <1>3. writer'[w] = x /\ \A v \in Writers \ {w} : writer'[v] = writer[v]
    BY <1>2 DEF KeptInv, ReceiptInv, RecordsShaped
  <1>4. ASSUME NEW v \in Writers, Pending(v)'
        PROVE  /\ writer'[v].seen \in 0 .. Len(written)
               /\ \A i \in 1 .. writer'[v].seen : Kept(written, i, writer'[v].before, writer'[v].seen)
    <2>1. CASE v = w
      BY <1>1, <1>2, <1>3, <2>1 DEF KeptInv
    <2>2. CASE v # w
      BY <1>3, <1>4, <2>2 DEF KeptInv, Pending
    <2> QED BY <2>1, <2>2
  <1> QED BY <1>4 DEF KeptInv, Kept

\* What a write drops it overtakes, and it drops nothing it had seen otherwise.
LEMMA WriteKeepsRecords ==
    ASSUME KeptInv, NEW w \in Writers, WriteRecord(w), ReceiptInv'
    PROVE  KeptInv'
  <1>1. PICK x, y, n :
           /\ x = writer[w].record /\ n = writer[w].seen
           /\ y = [record |-> x, seen |-> n]
    OBVIOUS
  <1>2. /\ Pending(w) /\ written' = Append(written, y)
        /\ recordFile' = WithRecord(x, writer[w].before)
        /\ writer' = [writer EXCEPT ![w] = AtRest]
    BY <1>1 DEF WriteRecord, Pending
  <1>3. written \in Seq(Writing) /\ y \in Writing /\ y.record = x /\ y.seen = n
    BY <1>1, <1>2 DEF KeptInv, ReceiptInv, RecordsShaped, Writing
  <1>4. PICK len : len = Len(written) /\ len \in Nat
    BY <1>3
  <1>5. /\ Len(written') = len + 1 /\ DOMAIN written = 1 .. len
        /\ DOMAIN written' = 1 .. len + 1
        /\ written'[len + 1] = y
        /\ \A i \in 1 .. len : written'[i] = written[i]
    BY <1>2, <1>3, <1>4
  <1>6. /\ n \in 0 .. len
        /\ \A i \in 1 .. n : Kept(written, i, writer[w].before, n)
    BY <1>1, <1>2, <1>4 DEF KeptInv
  <1>7. ASSUME NEW i \in 1 .. len, NEW records, NEW count \in 0 .. len, Kept(written, i, records, count)
        PROVE  Kept(written', i, records, count) /\ Kept(written', i, records, len + 1)
    <2>2. ASSUME NEW j \in 1 .. count, Overtakes(written, j, i)
          PROVE  Kept(written', i, records, count) /\ Kept(written', i, records, len + 1)
      <3>1. j \in 1 .. len /\ j \in 1 .. len + 1
        BY <1>4
      <3>2. written'[j] = written[j] /\ written'[i] = written[i]
        BY <1>5, <3>1
      <3> QED BY <2>2, <3>1, <3>2 DEF Kept, Overtakes
    <2>3. CASE written[i].record \in records
      BY <1>5, <2>3 DEF Kept
    <2> QED BY <1>7, <2>2, <2>3 DEF Kept
  <1>8. ASSUME NEW i \in 1 .. len + 1 PROVE Kept(written', i, recordFile', len + 1)
    <2>1. CASE i = len + 1
      BY <1>2, <1>3, <1>5, <2>1 DEF Kept, WithRecord
    <2>2. CASE i \in n + 1 .. len
      <3>1. len + 1 \in 1 .. len + 1 /\ len + 1 > i /\ n < i
        BY <1>4, <1>6, <2>2
      <3>2. Overtakes(written', len + 1, i)
        BY <1>3, <1>5, <3>1 DEF Overtakes
      <3> QED BY <3>1, <3>2 DEF Kept
    <2>3. CASE i \in 1 .. n
      <3>1. Kept(written, i, writer[w].before, n) /\ i \in 1 .. len /\ n \in 0 .. len
        BY <1>4, <1>6, <2>3
      <3>2. CASE written[i].record \in writer[w].before
        <4>1. CASE RecordId(written[i].record) = RecordId(x)
          <5>1. len + 1 \in 1 .. len + 1 /\ len + 1 > i
            BY <1>4, <3>1
          <5>2. Overtakes(written', len + 1, i)
            BY <1>3, <1>5, <3>1, <4>1, <5>1 DEF Overtakes
          <5> QED BY <5>1, <5>2 DEF Kept
        <4>2. CASE RecordId(written[i].record) # RecordId(x)
          BY <1>2, <1>5, <3>1, <3>2, <4>2 DEF Kept, WithRecord
        <4> QED BY <4>1, <4>2
      <3>3. CASE written[i].record \notin writer[w].before
        <4>1. Kept(written, i, recordFile', n)
          BY <3>1, <3>3 DEF Kept
        <4> QED BY <1>7, <3>1, <4>1
      <3> QED BY <3>2, <3>3
    <2>4. i = len + 1 \/ i \in n + 1 .. len \/ i \in 1 .. n
      BY <1>4, <1>6
    <2> QED BY <2>1, <2>2, <2>3, <2>4
  <1>9. writer'[w] = AtRest /\ \A v \in Writers \ {w} : writer'[v] = writer[v]
    BY <1>2 DEF KeptInv, ReceiptInv, RecordsShaped
  <1>10. ASSUME NEW v \in Writers, Pending(v)'
         PROVE  /\ writer'[v].seen \in 0 .. len + 1
                /\ \A i \in 1 .. writer'[v].seen : Kept(written', i, writer'[v].before, writer'[v].seen)
    <2>1. v # w /\ writer'[v] = writer[v] /\ Pending(v)
      BY <1>9, <1>10 DEF Pending
    <2>2. PICK m, b : m = writer[v].seen /\ b = writer[v].before
      OBVIOUS
    <2>3. m \in 0 .. len /\ \A i \in 1 .. m : Kept(written, i, b, m)
      BY <1>4, <2>1, <2>2 DEF KeptInv
    <2>4. ASSUME NEW i \in 1 .. m PROVE Kept(written', i, b, m)
      <3>1. i \in 1 .. len
        BY <1>4, <2>3, <2>4
      <3> QED BY <1>7, <2>3, <2>4, <3>1
    <2>5. m \in 0 .. len + 1
      BY <1>4, <2>3
    <2>6. \A i \in 1 .. m : Kept(written', i, b, m)
      BY <2>4
    <2> QED BY <2>1, <2>2, <2>5, <2>6 DEF Kept
  <1> QED BY <1>5, <1>8, <1>10 DEF KeptInv, Kept

\* A call that ends without a write changes nothing in the file.
LEMMA StopKeepsRecords ==
    ASSUME KeptInv, NEW w \in Writers, writer' = [writer EXCEPT ![w] = AtRest],
           UNCHANGED <<recordFile, written>>, ReceiptInv'
    PROVE  KeptInv'
  <1>1. writer'[w] = AtRest /\ \A v \in Writers \ {w} : writer'[v] = writer[v]
    BY DEF KeptInv, ReceiptInv, RecordsShaped
  <1> QED BY <1>1 DEF KeptInv, Kept, Pending

\* A record reported as written is in the file, or another of its workflow and
\* second was written since, or a process that had read the file before it
\* (appendJsonlRecord without a lock): for any processes, calls, failed writes and
\* restarts.
THEOREM RecordsKeptHolds == RecordsSpec => []RecordsKept
  <1>1. KeptInv /\ [RecordsNext]_recordVars => KeptInv'
    <2> SUFFICES ASSUME KeptInv, [RecordsNext]_recordVars PROVE KeptInv'
      OBVIOUS
    <2>0. ReceiptInv'
      BY ReceiptInvNext DEF KeptInv
    <2>1. CASE UNCHANGED <<recordFile, written, writer>>
      BY <2>0, <2>1 DEF KeptInv, Kept, Pending
    <2>2. CASE UNCHANGED recordVars
      BY <2>1, <2>2 DEF recordVars
    <2>3. CASE NextSecond
      BY <2>1, <2>3 DEF NextSecond
    <2>4. CASE \E user \in Users, workflow \in Workflows, ttl \in 1..MaxSecond :
                  IssueReceipt(user, workflow, ttl)
      BY <2>1, <2>4 DEF IssueReceipt
    <2>5. CASE \E s \in Servers, workflow \in Workflows, r \in DOMAIN receipts :
                  CallTool(s, workflow, r)
      BY <2>0, <2>5, ReadKeeps DEF CallTool, Writers
    <2>6. CASE \E w \in Others, workflow \in Workflows : CallDirect(w, workflow)
      BY <2>0, <2>6, ReadKeeps DEF CallDirect, Writers
    <2>7. CASE \E w \in Writers : WriteRecord(w)
      BY <2>0, <2>7, WriteKeepsRecords
    <2>8. CASE \E w \in Writers : WriteFails(w)
      BY <2>0, <2>8, StopKeepsRecords DEF WriteFails
    <2>9. CASE \E s \in Servers : Restart(s)
      BY <2>0, <2>9, StopKeepsRecords DEF Restart, Writers
    <2> QED BY <2>2, <2>3, <2>4, <2>5, <2>6, <2>7, <2>8, <2>9 DEF RecordsNext
  <1>2. RecordsInit => KeptInv
    <2>1. RecordsInit => written = <<>> /\ \A w \in Writers : ~Pending(w)
      BY DEF RecordsInit, Pending
    <2> QED BY <2>1, ReceiptInvInit DEF KeptInv
  <1>3. KeptInv => RecordsKept
    <2> SUFFICES ASSUME KeptInv, NEW i \in DOMAIN written, written[i].record \notin recordFile
                 PROVE  \E j \in DOMAIN written : Overtakes(written, j, i)
      BY DEF RecordsKept, Overtakes
    <2>1. DOMAIN written = 1 .. Len(written)
      BY DEF KeptInv, ReceiptInv, RecordsShaped
    <2> QED BY <2>1 DEF KeptInv, Kept
  <1> QED BY <1>1, <1>2, <1>3, PTL DEF RecordsSpec
=============================================================================
