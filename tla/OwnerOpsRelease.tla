--------------------------- MODULE OwnerOpsRelease ---------------------------
(***************************************************************************)
(* The release lane of Owner Ops: src/src/core/owner-ops-distribution.js     *)
(* with the reviews of owner-ops-market-readiness.js and                     *)
(* owner-ops-public-package.js it rests on.                                  *)
(*                                                                          *)
(* A package is three files written one after the other.  Five evidence      *)
(* files, each the answer of a build function at one moment, are read back    *)
(* together by the release snapshot.  Decisions, dry-run approvals and        *)
(* dry-run invocations are JSON lines, each with an index file that is        *)
(* rewritten from a fresh read after every append.  The CLI and the MCP       *)
(* server run the calls on one root without a lock, so a call is split        *)
(* between its checks and each of its file accesses.                         *)
(*                                                                          *)
(* Abstractions.  The sha256 of a bundle is the number of the write that      *)
(* made it: a bundle embeds the time of its write.  Of the files of the root  *)
(* the model keeps their number and whether every one the checks ask for is   *)
(* there.  A call without its token, and a call a check blocks before it      *)
(* writes, is no step.  The fixed booleans of an authority boundary, and the  *)
(* markdown copy of each evidence file, are left out.                        *)
(***************************************************************************)
EXTENDS Integers, SequencesExt

CONSTANTS
    Actors,         \* processes that run calls on the root
    Lanes,          \* the dry-run lanes: install, update, rollback
    Ttls            \* the lifetimes a caller asks of an approval

Ledgers == {"human", "market", "owner", "approval", "invocation"}
EvidenceFiles == {"readiness", "human", "signed", "install", "plan"}
Parts == <<"bundle", "manifest", "sha256">>
Events == {"tree", "tick", "crash", "package", "evidence"} \cup Ledgers

ASSUME ReleaseAssumption == Ttls \subseteq Nat \ {0}

VARIABLES
    tree,       \* the files of the root: how many, and whether all are there
    package,    \* the write each part of the current package set comes from
    legacy,     \* the write of the local-candidate set of an older version
    evidence,   \* the five evidence files of .gpao-t/packages
    ledger,     \* the records of each JSON-lines file
    index,      \* the index file of each ledger
    now,        \* the clock
    call,       \* where each process is in its call
    left,       \* events still to come, by kind (bounds the model)
    past        \* what happened: calls cut short, overlaps, packages once whole

releaseVars == <<tree, package, legacy, evidence, ledger, index, now, call,
                 left, past>>

-----------------------------------------------------------------------------
(* The package set on disk, as readers see it. *)

NoWrite == [id |-> 0, files |-> 0]
PartNames == ToSet(Parts)

ArtifactSetExists(set) == \A part \in PartNames : set[part] # NoWrite

LegacySet == [part \in PartNames |-> legacy]

\* The current set if all its files exist, else the older set if that does.
TargetSet ==
    IF ~ArtifactSetExists(package) /\ ArtifactSetExists(LegacySet)
    THEN LegacySet ELSE package

\* Mutant: the checksum file is read but not compared.
WholeUnlessManifestDiffers(set) ==
    /\ ArtifactSetExists(set)
    /\ set["manifest"] = set["bundle"]

\* readOwnerOpsInternalProductionPackage: checksum and manifest agree.
Whole(set) ==
    /\ ArtifactSetExists(set)
    /\ set["sha256"] = set["bundle"]
    /\ set["manifest"] = set["bundle"]

PackageReadback == Whole(TargetSet)
BundleSha256 ==
    IF ArtifactSetExists(TargetSet) THEN TargetSet["bundle"].id ELSE 0
FileCount ==
    IF ArtifactSetExists(TargetSet) THEN TargetSet["bundle"].files ELSE 0

VerifyPackageReadback == PackageReadback

-----------------------------------------------------------------------------
(* Reviews before the evidence.  The calls of this lane pass no feedback of  *)
(* their own: the built-in samples meet every threshold, and the copy packs,  *)
(* templates and host guides are literals of the installed code.             *)

BetaFeedbackSynthesis      == TRUE
IndustryTemplateCatalog    == BetaFeedbackSynthesis
TemplateReplayFixtures     == IndustryTemplateCatalog
PrivacyCopyPack            == TRUE
BetaFeedbackQueueSummary   == BetaFeedbackSynthesis /\ IndustryTemplateCatalog
HostIntegrationMatrix      == TRUE
InstallHardeningReport     == tree.complete

\* The first scenario runs in a temporary root of its own.
PluginPackage               == TRUE
InternalAcceptanceReadiness == PluginPackage
InternalAcceptanceHandoff   == InternalAcceptanceReadiness /\ HostIntegrationMatrix
OwnerAcceptanceReadiness    == InternalAcceptanceHandoff

\* The handoffs of the acceptance tests ask for the package.
InternalAcceptanceBundle  == VerifyPackageReadback /\ HostIntegrationMatrix
OwnerAcceptanceBundle     == InternalAcceptanceBundle /\ HostIntegrationMatrix
VerifyOwnerAcceptanceBundle == OwnerAcceptanceBundle /\ BundleSha256 # 0
OperationalPackage        == VerifyOwnerAcceptanceBundle
VerifyOperationalPackage  == OperationalPackage
BetaResultReview == VerifyOwnerAcceptanceBundle /\ VerifyOperationalPackage
VerifyBetaResultReview == BetaResultReview

MarketReadinessGate ==
    /\ PluginPackage /\ OwnerAcceptanceReadiness
    /\ BetaFeedbackSynthesis /\ IndustryTemplateCatalog
VerifyMarketReadiness == MarketReadinessGate

\* The gate's own status is not asked for.
MarketEvidenceBundle ==
    BetaResultReview /\ BetaFeedbackSynthesis /\ IndustryTemplateCatalog
VerifyMarketEvidenceBundle == MarketEvidenceBundle

BetaFeedbackActionQueue ==
    /\ MarketEvidenceBundle /\ BetaResultReview
    /\ BetaFeedbackSynthesis /\ IndustryTemplateCatalog
VerifyBetaFeedbackActionQueue == BetaFeedbackActionQueue

PrePublicPackageReview ==
    /\ MarketReadinessGate /\ TemplateReplayFixtures
    /\ PrivacyCopyPack /\ BetaFeedbackQueueSummary
VerifyPrePublicPackage == PrePublicPackageReview

PrePublicEvidenceBridge ==
    MarketEvidenceBundle /\ PrePublicPackageReview /\ BetaFeedbackQueueSummary
VerifyPrePublicEvidenceBridge == PrePublicEvidenceBridge

PrePublicRepairBacklog == PrePublicPackageReview /\ BetaFeedbackQueueSummary
VerifyPrePublicRepairBacklog == PrePublicRepairBacklog

\* Every item of the backlog is marked verified where it stands.
PrePublicRepairCompletion == PrePublicRepairBacklog
VerifyPrePublicRepairCompletion == PrePublicRepairCompletion

DistributionEvidence ==
    /\ PrePublicPackageReview /\ PrePublicRepairBacklog
    /\ PrePublicRepairCompletion /\ InstallHardeningReport
    /\ tree.complete
VerifyDistributionEvidence ==
    /\ DistributionEvidence /\ VerifyPrePublicPackage
    /\ VerifyPrePublicRepairBacklog /\ VerifyPrePublicRepairCompletion

ArchiveChecksumDryRun == DistributionEvidence /\ tree.complete
VerifyArchiveChecksumDryRun == ArchiveChecksumDryRun
VerifyPackageWriter == VerifyArchiveChecksumDryRun

-----------------------------------------------------------------------------
(* The chain of release evidence.  Each link asks the build functions again; *)
(* none of them reads the evidence files.                                    *)

ReleaseReadiness ==
    /\ PrePublicEvidenceBridge /\ PrePublicRepairBacklog
    /\ PrePublicRepairCompletion /\ DistributionEvidence
    /\ ArchiveChecksumDryRun /\ PackageReadback
    /\ FileCount >= tree.files
VerifyReleaseReadiness ==
    /\ ReleaseReadiness /\ VerifyPrePublicEvidenceBridge
    /\ VerifyPrePublicRepairBacklog /\ VerifyPrePublicRepairCompletion
    /\ VerifyPackageReadback

HumanReviewPacket == ReleaseReadiness
VerifyHumanReviewPacket == HumanReviewPacket /\ PrePublicRepairCompletion
HumanReviewDecisionLane == HumanReviewPacket /\ PrePublicRepairCompletion
VerifyHumanReviewDecisionLane == HumanReviewDecisionLane

ApprovedSigningLane == ReleaseReadiness /\ HumanReviewPacket /\ PackageReadback
VerifyApprovedSigningLane == ApprovedSigningLane

SignedPackageEvidence ==
    /\ ReleaseReadiness /\ HumanReviewPacket /\ ApprovedSigningLane
    /\ PackageReadback
VerifySignedPackageEvidence == SignedPackageEvidence

InstallUpdateRollbackProof ==
    SignedPackageEvidence /\ PackageReadback /\ InstallHardeningReport
VerifyInstallUpdateRollbackProof == InstallUpdateRollbackProof

DeploymentDryRunPlan == InstallUpdateRollbackProof /\ PackageReadback
VerifyDeploymentDryRunPlan ==
    /\ DeploymentDryRunPlan /\ VerifyPackageReadback
    /\ VerifyInstallUpdateRollbackProof

DryRunExecutorProof(lane) == DeploymentDryRunPlan /\ lane \in Lanes
VerifyDryRunExecutorProof(lane) ==
    DryRunExecutorProof(lane) /\ VerifyDeploymentDryRunPlan
ApprovalRecordDesign(lane) == DryRunExecutorProof(lane)
VerifyApprovalRecordDesign(lane) ==
    ApprovalRecordDesign(lane) /\ VerifyDryRunExecutorProof(lane)
ApprovalRecordWriteLane(lane) == ApprovalRecordDesign(lane)
VerifyApprovalRecordWriteLane(lane) == ApprovalRecordWriteLane(lane)

MarketplaceUploadGate ==
    /\ ReleaseReadiness /\ HumanReviewPacket /\ ApprovedSigningLane
    /\ SignedPackageEvidence /\ InstallUpdateRollbackProof
    /\ DeploymentDryRunPlan
VerifyMarketplaceUploadGate == MarketplaceUploadGate
MarketplaceUploadDecisionLane == MarketplaceUploadGate
VerifyMarketplaceUploadDecisionLane == MarketplaceUploadDecisionLane

Build(e) ==
    CASE e = "readiness" -> ReleaseReadiness
      [] e = "human"     -> HumanReviewPacket
      [] e = "signed"    -> SignedPackageEvidence
      [] e = "install"   -> InstallUpdateRollbackProof
      [] e = "plan"      -> DeploymentDryRunPlan

-----------------------------------------------------------------------------
(* One call at a time per process.  `left` bounds the events of a behaviour. *)

Idle == [step |-> "idle"]

Take(kind) ==
    /\ left[kind] > 0
    /\ left' = [left EXCEPT ![kind] = @ - 1]

Begin(a, kind) == call[a] = Idle /\ Take(kind)

\* Another process is in a call of this kind.
InProgress(a, kind) ==
    \E b \in Actors \ {a} : call[b] # Idle /\ call[b].kind = kind

NotePast(a, kind) ==
    past' = IF InProgress(a, kind)
            THEN [past EXCEPT !.overlapped = @ \cup {kind}] ELSE past

Enter(a, rec) == call' = [call EXCEPT ![a] = rec]
Leave(a) == call' = [call EXCEPT ![a] = Idle]

\* The program is updated: its file list grows, or files go missing or return.
UpdateRoot ==
    /\ Take("tree")
    /\ \/ tree' = [tree EXCEPT !.files = @ + 1]
       \/ tree' = [tree EXCEPT !.complete = ~@]
    /\ UNCHANGED <<package, legacy, evidence, ledger, index, now, call, past>>

Tick ==
    /\ Take("tick")
    /\ now' = now + 1
    /\ UNCHANGED <<tree, package, legacy, evidence, ledger, index, call, past>>

Crash(a) ==
    /\ call[a] # Idle
    /\ Take("crash")
    /\ past' = [past EXCEPT !.cut = @ \cup {call[a].kind}]
    /\ Leave(a)
    /\ UNCHANGED <<tree, package, legacy, evidence, ledger, index, now>>

-----------------------------------------------------------------------------
(* writeOwnerOpsInternalProductionPackage: bundle, manifest, checksum. *)

BeginPackage(a) ==
    /\ Begin(a, "package")
    /\ ArchiveChecksumDryRun
    /\ LET write == [id |-> past.writes + 1, files |-> tree.files]
       IN  Enter(a, [kind |-> "package", step |-> 1, write |-> write])
    /\ past' = [past EXCEPT !.writes = @ + 1,
                            !.overlapped = IF InProgress(a, "package")
                                           THEN @ \cup {"package"} ELSE @]
    /\ UNCHANGED <<tree, package, legacy, evidence, ledger, index, now>>

WritePart(a) ==
    /\ call[a] # Idle /\ call[a].kind = "package"
    /\ LET c == call[a]
           set == [package EXCEPT ![Parts[c.step]] = c.write]
       IN  /\ package' = set
           /\ IF c.step < Len(Parts)
              THEN Enter(a, [c EXCEPT !.step = @ + 1])
              ELSE Leave(a)
           /\ past' = IF \A part \in PartNames : set[part] = c.write
                      THEN [past EXCEPT !.whole = @ \cup {c.write.id}]
                      ELSE past
    /\ UNCHANGED <<tree, legacy, evidence, ledger, index, now, left>>

-----------------------------------------------------------------------------
(* The five evidence files: built from what is there, written when ready or  *)
(* not.                                                                     *)

NoEvidence == [status |-> "missing", bundle |-> 0]

BeginEvidence(a, e) ==
    /\ Begin(a, "evidence")
    /\ Enter(a, [kind |-> "evidence", step |-> "write", file |-> e,
                 data |-> [status |-> IF Build(e) THEN "ready" ELSE "blocked",
                           bundle |-> BundleSha256]])
    /\ NotePast(a, "evidence")
    /\ UNCHANGED <<tree, package, legacy, evidence, ledger, index, now>>

WriteEvidence(a) ==
    /\ call[a] # Idle /\ call[a].kind = "evidence"
    /\ evidence' = [evidence EXCEPT ![call[a].file] = call[a].data]
    /\ Leave(a)
    /\ UNCHANGED <<tree, package, legacy, ledger, index, now, left, past>>

\* readOwnerOpsPackageEvidenceJson
EvidencePresent(e) == evidence[e].status # "missing"
EvidenceReady(e) == EvidencePresent(e) /\ evidence[e].status = "ready"

\* buildOwnerOpsPublicReleaseReadbackSnapshot reads files and asks nothing again.
ReleaseReadbackSnapshot ==
    PackageReadback /\ \A e \in EvidenceFiles : EvidenceReady(e)
VerifyReleaseReadbackSnapshot == ReleaseReadbackSnapshot

-----------------------------------------------------------------------------
(* JSON-lines records: append, read the file again, rewrite the index.       *)

NoIndex == [count |-> 0, latest |-> [none |-> TRUE]]

BeginRecord(a, L, rec) ==
    /\ Begin(a, L)
    /\ Enter(a, [kind |-> L, step |-> "append", rec |-> rec, count |-> 0])
    /\ NotePast(a, L)
    /\ UNCHANGED <<tree, package, legacy, evidence, ledger, index, now>>

InRecord(a, step) ==
    /\ call[a] # Idle /\ call[a].kind \in Ledgers /\ call[a].step = step
    /\ UNCHANGED <<tree, package, legacy, evidence, now, left, past>>

\* Mutant: the file is written over.
OverwriteLine(a) ==
    /\ InRecord(a, "append")
    /\ ledger' = [ledger EXCEPT ![call[a].kind] = <<call[a].rec>>]
    /\ Enter(a, [call[a] EXCEPT !.step = "read"])
    /\ UNCHANGED index

AppendLine(a) ==
    /\ InRecord(a, "append")
    /\ ledger' = [ledger EXCEPT ![call[a].kind] = Append(@, call[a].rec)]
    /\ Enter(a, [call[a] EXCEPT !.step = "read"])
    /\ UNCHANGED index

\* Mutant: the index counts one record too few.
ReadBackBeforeAppend(a) ==
    /\ InRecord(a, "read")
    /\ Enter(a, [call[a] EXCEPT !.step = "index",
                                !.count = Len(ledger[call[a].kind]) - 1])
    /\ UNCHANGED <<ledger, index>>

ReadBack(a) ==
    /\ InRecord(a, "read")
    /\ Enter(a, [call[a] EXCEPT !.step = "index",
                                !.count = Len(ledger[call[a].kind])])
    /\ UNCHANGED <<ledger, index>>

WriteIndex(a) ==
    /\ InRecord(a, "index")
    /\ index' = [index EXCEPT ![call[a].kind] =
                    [count |-> call[a].count, latest |-> call[a].rec]]
    /\ Leave(a)
    /\ UNCHANGED ledger

Decisions == {"hold", "approve_later"}

\* Neither decision record names the bundle it was made for; `bundle` is kept
\* here to state properties with.
Decision(d) == [decision |-> d, bundle |-> BundleSha256]

\* (`= TRUE`: TLC takes the long chain of a lane as one condition.)
BeginHumanDecision(a, d) ==
    /\ HumanReviewDecisionLane = TRUE
    /\ BeginRecord(a, "human", Decision(d))

BeginMarketplaceDecision(a, d) ==
    /\ MarketplaceUploadDecisionLane = TRUE
    /\ BeginRecord(a, "market", Decision(d))

-----------------------------------------------------------------------------
(* Dry-run approvals and the invocations they allow. *)

BeginApproval(a, lane, ttl) ==
    /\ ApprovalRecordWriteLane(lane) = TRUE
    /\ BeginRecord(a, "approval",
         [lane |-> lane, bundle |-> BundleSha256,
          createdAt |-> now, expiresAt |-> now + ttl])

\* Mutant: an approval of another package will do.
ApprovesAnyBundle(record, lane) ==
    record.lane = lane /\ record.expiresAt > now

\* Every stored approval still says "not_invoked": nothing rewrites a record.
Approves(record, lane) ==
    /\ record.lane = lane
    /\ record.bundle = BundleSha256
    /\ record.expiresAt > now

\* The latest approval that fits, by its place in the file.
InvocationGate(lane, k) ==
    /\ DryRunExecutorProof(lane)
    /\ k \in DOMAIN ledger["approval"]
    /\ Approves(ledger["approval"][k], lane)
    /\ \A j \in DOMAIN ledger["approval"] :
          Approves(ledger["approval"][j], lane) => j <= k
VerifyInvocationGate(lane) ==
    \E k \in DOMAIN ledger["approval"] : InvocationGate(lane, k)

\* The record takes its bundle from the approval; `onDisk`, the package there
\* was, is kept to state properties with.
BeginInvocation(a, lane) ==
    \E k \in DOMAIN ledger["approval"] :
        /\ InvocationGate(lane, k) = TRUE
        /\ BeginRecord(a, "invocation",
             [lane |-> lane, bundle |-> ledger["approval"][k].bundle,
              createdAt |-> now, onDisk |-> BundleSha256,
              approval |-> ledger["approval"][k]])

\* The result handed to a reviewer: the last invocation of the lane, of
\* whatever package it was.
ResultReviewHandoff(lane) ==
    \E k \in DOMAIN ledger["invocation"] : ledger["invocation"][k].lane = lane
VerifyResultReviewHandoff(lane) == ResultReviewHandoff(lane)

-----------------------------------------------------------------------------
(* The authority gate: always "blocked", with the reasons that are left. *)

Latest(L) == ledger[L][Len(ledger[L])]
Recorded(L) == ledger[L] # <<>>

NoBlockingReason ==
    /\ ReleaseReadiness /\ HumanReviewPacket
    /\ Recorded("human") /\ Latest("human").decision = "approve_later"
    /\ ApprovedSigningLane /\ MarketplaceUploadGate
    /\ Recorded("market") /\ Latest("market").decision = "approve_later"
    /\ SignedPackageEvidence /\ InstallUpdateRollbackProof
    /\ DeploymentDryRunPlan

-----------------------------------------------------------------------------
(* Behaviours *)

NothingPast == [cut |-> {}, overlapped |-> {}, writes |-> 0, whole |-> {}]

\* A root without a package; one with the package set of an older version; one
\* whose first package has all its evidence.
ReleaseInit(root, events) ==
    LET write == [id |-> 1, files |-> 1] IN
    /\ tree = [files |-> 1, complete |-> TRUE]
    /\ package = [part \in PartNames |-> IF root = "released" THEN write ELSE NoWrite]
    /\ legacy = IF root = "older" THEN write ELSE NoWrite
    /\ evidence = [e \in EvidenceFiles |->
                     IF root = "released" THEN [status |-> "ready", bundle |-> 1]
                                          ELSE NoEvidence]
    /\ ledger = [L \in Ledgers |-> <<>>]
    /\ index = [L \in Ledgers |-> NoIndex]
    /\ now = 0
    /\ call = [a \in Actors |-> Idle]
    /\ left = events
    /\ past = IF root = "new" THEN NothingPast
              ELSE [NothingPast EXCEPT !.writes = 1, !.whole = {1}]

RecordNext(a) ==
    \/ AppendLine(a) \/ ReadBack(a) \/ WriteIndex(a)

ReleaseNext ==
    \/ UpdateRoot
    \/ Tick
    \/ \E a \in Actors :
        \/ Crash(a)
        \/ BeginPackage(a) \/ WritePart(a)
        \/ \E e \in EvidenceFiles : BeginEvidence(a, e)
        \/ WriteEvidence(a)
        \/ \E d \in Decisions :
              BeginHumanDecision(a, d) \/ BeginMarketplaceDecision(a, d)
        \/ \E lane \in Lanes, ttl \in Ttls : BeginApproval(a, lane, ttl)
        \/ \E lane \in Lanes : BeginInvocation(a, lane)
        \/ RecordNext(a)

-----------------------------------------------------------------------------
(* Properties *)

Quiet(kind) == \A a \in Actors : call[a] = Idle \/ call[a].kind # kind

\* A call of this kind was cut short, or two of them overlapped.
Disturbed(kind) == kind \in past.cut \cup past.overlapped

\* Readers get the newest package that was ever complete on disk, unless two
\* processes wrote packages at the same time: a slow writer of an older bundle
\* then replaces a newer one file by file.  Falling back to the set of an older
\* version never hides a complete current set.
NewestWholePackage ==
    PackageReadback /\ "package" \notin past.overlapped =>
        /\ BundleSha256 \in past.whole
        /\ \A id \in past.whole : id <= BundleSha256

\* An evidence file that says "ready" was built on a package that was complete
\* on disk, and a ready snapshot holds no evidence of a package newer than the
\* one it reads back, unless package writes overlapped.
EvidenceBacked ==
    /\ \A e \in EvidenceFiles :
          EvidenceReady(e) => evidence[e].bundle \in past.whole
    /\ ReleaseReadbackSnapshot /\ "package" \notin past.overlapped =>
          \A e \in EvidenceFiles : evidence[e].bundle \in 1..BundleSha256

\* An index never counts records its ledger does not hold, names a record of the
\* ledger, and is exact whenever no call on the ledger is running and none was
\* cut short or overlapped another.
IndexFollowsLedger ==
    \A L \in Ledgers :
        /\ index[L].count <= Len(ledger[L])
        /\ index[L] # NoIndex => index[L].latest \in ToSet(ledger[L])
        /\ Quiet(L) /\ ~Disturbed(L) =>
              index[L] = IF Recorded(L)
                         THEN [count |-> Len(ledger[L]), latest |-> Latest(L)]
                         ELSE NoIndex

\* Every dry run on record was allowed by an approval on record for the same
\* lane and for the package that was on disk when it was asked for, given before
\* and not yet expired then, whatever was written between check and record; and
\* that package had once been complete.
InvocationCovered ==
    \A i \in DOMAIN ledger["invocation"] :
        LET run == ledger["invocation"][i]
            approval == run.approval
        IN  /\ approval \in ToSet(ledger["approval"])
            /\ approval.lane = run.lane
            /\ approval.bundle = run.onDisk
            /\ run.bundle = run.onDisk
            /\ approval.createdAt <= run.createdAt
            /\ run.createdAt < approval.expiresAt
            /\ run.bundle \in past.whole
=============================================================================
