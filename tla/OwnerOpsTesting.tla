--------------------------- MODULE OwnerOpsTesting ---------------------------
(***************************************************************************)
(* The testing lane of Owner Ops, on top of the release lane: the field      *)
(* tests (owner-ops-market-readiness.js), the broader owner tests, their      *)
(* repair queue and completion, the owner decision                            *)
(* (owner-ops-distribution.js) and the readiness summaries                    *)
(* (owner-ops-product-readiness.js).                                          *)
(*                                                                          *)
(* Every check builds its queue again from the last Window reports of a       *)
(* ledger; the queue and completion files are written and never read back.    *)
(* Repair ids are positions in the queue.                                     *)
(*                                                                          *)
(* Abstractions.  Of a report the model keeps its blocker tag, whether it      *)
(* asks for a template, and whether its setup friction is 4 or more; the id    *)
(* of a report is its place in the ledger; a report that fails validation,     *)
(* and a decision of an unknown kind, is no step.                              *)
(***************************************************************************)
EXTENDS OwnerOpsRelease

CONSTANTS
    Window,     \* how many of the latest reports the checks read: 200
    Reports     \* the reports testers may hand in

ASSUME TestingAssumption ==
    /\ Window \in Nat \ {0}
    /\ Reports \subseteq [tag : {"none", "minor", "critical"},
                          template : BOOLEAN, friction : BOOLEAN]

TestKinds == {"field", "broader"}
RepairFiles == {"queue", "completion"}
TestingEvents == Events \cup TestKinds \cup {"repair"}

VARIABLES
    tests,          \* the reports of each test ledger
    repair,         \* the repair queue and completion files
    legacyOwner     \* owner decisions in the file of an older version

testingVars == <<tests, repair, legacyOwner>>
vars == <<releaseVars, testingVars>>

-----------------------------------------------------------------------------
(* What the checks read. *)

\* Mutant: one report too few is read.
OneTooFew(kind) == {i \in DOMAIN tests[kind] : i + Window > Len(tests[kind]) + 1}

InWindow(kind) == {i \in DOMAIN tests[kind] : i + Window > Len(tests[kind])}

CriticalInWindow(kind) ==
    \E i \in InWindow(kind) : tests[kind][i].tag = "critical"

-----------------------------------------------------------------------------
(* Field tests.  The friction, trust and package lanes of the queue are there *)
(* whatever the reports say; the template lane needs a report that asks.      *)

FieldTestLedger == ~CriticalInWindow("field")
VerifyFieldTestLedger == FieldTestLedger

FieldTestActionQueue == FieldTestLedger /\ tests["field"] # <<>>
TemplateLane == \E i \in InWindow("field") : tests["field"][i].template
VerifyFieldTestActionQueue == FieldTestActionQueue /\ TemplateLane

\* Every item of the queue is marked verified where it stands.
FieldTestRepairCompletion == FieldTestActionQueue /\ TemplateLane
VerifyFieldTestRepairCompletion == FieldTestRepairCompletion

-----------------------------------------------------------------------------
(* Broader owner tests. *)

BroaderOwnerTestingHandoff ==
    /\ VerifyPackageReadback
    /\ VerifyReleaseReadbackSnapshot
    /\ VerifyFieldTestRepairCompletion
VerifyBroaderOwnerTestingHandoff == BroaderOwnerTestingHandoff

BroaderOwnerTestingResultLedger ==
    VerifyBroaderOwnerTestingHandoff /\ ~CriticalInWindow("broader")
VerifyBroaderOwnerTestingResultLedger == BroaderOwnerTestingResultLedger

\* The signals of one report: a template, a blocker, friction.
SignalsOf(i) ==
    LET report == tests["broader"][i]
        Signal(kind, there) ==
            IF there THEN <<[kind |-> kind, source |-> i]>> ELSE <<>>
    IN  Signal("template", report.template)
        \o Signal("blocker", report.tag # "none")
        \o Signal("friction", report.friction)

\* buildBroaderOwnerTestingRepairSignals; a repair id is a place in this list.
RepairSignals ==
    LET window == SetToSortSeq(InWindow("broader"), <)
    IN  FlattenSeq([k \in DOMAIN window |-> SignalsOf(window[k])])

\* A ledger whose reports ask for nothing is an error.
BroaderOwnerTestingRepairQueue ==
    /\ BroaderOwnerTestingResultLedger
    /\ tests["broader"] # <<>> => RepairSignals # <<>>
VerifyBroaderOwnerTestingRepairQueue == BroaderOwnerTestingRepairQueue

BroaderOwnerTestingRepairCompletion == BroaderOwnerTestingRepairQueue
VerifyBroaderOwnerTestingRepairCompletion == BroaderOwnerTestingRepairCompletion

NextOwnerTestingLoop ==
    /\ VerifyPackageReadback
    /\ VerifyReleaseReadbackSnapshot
    /\ VerifyBroaderOwnerTestingRepairCompletion
VerifyNextOwnerTestingLoop == NextOwnerTestingLoop

-----------------------------------------------------------------------------
(* The owner decision, and what is ready when. *)

ProductionReadyDecisionPacket ==
    /\ VerifyPackageReadback
    /\ VerifyReleaseReadbackSnapshot
    /\ VerifyNextOwnerTestingLoop
VerifyProductionReadyDecisionPacket == ProductionReadyDecisionPacket

\* The file of an older version is read until the current one exists.
OwnerDecisions == IF Recorded("owner") THEN ledger["owner"] ELSE legacyOwner

InternalProductionOwnerDecision == ProductionReadyDecisionPacket
VerifyInternalProductionOwnerDecision == InternalProductionOwnerDecision
InternalProductionNextAction == InternalProductionOwnerDecision
VerifyInternalProductionNextAction == InternalProductionNextAction

ProductAxisReadinessMatrix ==
    /\ PluginPackage /\ InternalAcceptanceBundle
    /\ VerifyOwnerAcceptanceBundle /\ VerifyOperationalPackage
    /\ VerifyBetaResultReview /\ VerifyBetaFeedbackActionQueue
    /\ VerifyFieldTestLedger /\ VerifyFieldTestActionQueue
    /\ VerifyFieldTestRepairCompletion
    /\ VerifyBroaderOwnerTestingHandoff
    /\ VerifyBroaderOwnerTestingResultLedger
    /\ VerifyBroaderOwnerTestingRepairQueue
    /\ VerifyBroaderOwnerTestingRepairCompletion
    /\ VerifyNextOwnerTestingLoop
    /\ VerifyMarketReadiness /\ VerifyMarketEvidenceBundle
    /\ VerifyPrePublicPackage /\ VerifyPrePublicEvidenceBridge
    /\ VerifyPrePublicRepairBacklog /\ VerifyPrePublicRepairCompletion
    /\ VerifyReleaseReadbackSnapshot
    /\ VerifyProductionReadyDecisionPacket
    /\ VerifyInternalProductionOwnerDecision
    /\ VerifyInternalProductionNextAction
VerifyProductAxisReadiness == ProductAxisReadinessMatrix

\* A missing owner decision is "pending" and blocks nothing.
ProductionCompletionAudit == ProductAxisReadinessMatrix
VerifyProductionCompletionAudit == ProductionCompletionAudit

InternalProductionReadiness ==
    /\ ProductionCompletionAudit
    /\ VerifyProductionReadyDecisionPacket
    /\ VerifyNextOwnerTestingLoop
    /\ VerifyInternalProductionNextAction
VerifyInternalProductionReadiness == InternalProductionReadiness

-----------------------------------------------------------------------------
(* Calls *)

\* A field test needs no handoff.
BeginTest(a, kind, report) ==
    /\ kind = "broader" => VerifyBroaderOwnerTestingHandoff
    /\ Begin(a, kind)
    /\ Enter(a, [kind |-> kind, step |-> "append", report |-> report])
    /\ NotePast(a, kind)
    /\ UNCHANGED <<tree, package, legacy, evidence, ledger, index, now>>
    /\ UNCHANGED testingVars

AppendTest(a) ==
    /\ call[a] # Idle /\ call[a].kind \in TestKinds
    /\ tests' = [tests EXCEPT ![call[a].kind] = Append(@, call[a].report)]
    /\ Leave(a)
    /\ UNCHANGED <<tree, package, legacy, evidence, ledger, index, now, left,
                   past, repair, legacyOwner>>

\* The queue, or its completion, as it is now, ready or not.
BeginRepair(a, file) ==
    /\ Begin(a, "repair")
    /\ Enter(a, [kind |-> "repair", step |-> "write", file |-> file,
                 data |-> RepairSignals])
    /\ NotePast(a, "repair")
    /\ UNCHANGED <<tree, package, legacy, evidence, ledger, index, now>>
    /\ UNCHANGED testingVars

WriteRepair(a) ==
    /\ call[a] # Idle /\ call[a].kind = "repair"
    /\ repair' = [repair EXCEPT ![call[a].file] = call[a].data]
    /\ Leave(a)
    /\ UNCHANGED <<tree, package, legacy, evidence, ledger, index, now, left,
                   past, tests, legacyOwner>>

\* `seen`, the reports there were, is kept to state properties with.
BeginOwnerDecision(a) ==
    /\ InternalProductionOwnerDecision = TRUE
    /\ BeginRecord(a, "owner",
         [bundle |-> BundleSha256, seen |-> Len(tests["broader"])])
    /\ UNCHANGED testingVars

TestingNext ==
    \/ ReleaseNext /\ UNCHANGED testingVars
    \/ \E a \in Actors :
        \/ \E kind \in TestKinds, report \in Reports : BeginTest(a, kind, report)
        \/ AppendTest(a)
        \/ \E file \in RepairFiles : BeginRepair(a, file)
        \/ WriteRepair(a)
        \/ BeginOwnerDecision(a)

TestingInit(root, events) ==
    /\ ReleaseInit(root, events)
    /\ tests = [kind \in TestKinds |-> <<>>]
    /\ repair = [file \in RepairFiles |-> <<>>]
    /\ legacyOwner = IF root = "new" THEN <<>> ELSE <<[bundle |-> 0, seen |-> 0]>>

TestingSpec(root, events) == TestingInit(root, events) /\ [][TestingNext]_vars

-----------------------------------------------------------------------------
(* Properties *)

\* A critical blocker in a report keeps every later stage closed: an owner
\* decision, and a ready internal production readiness, mean that each critical
\* report there was has Window reports after it.  Completing its repair does
\* not clear it, and nothing else can.
CriticalForgottenOnlyByWindow ==
    LET Forgotten(n) ==
            \A i \in 1..n : tests["broader"][i].tag = "critical" =>
                               i + Window <= n
    IN  /\ \A k \in DOMAIN ledger["owner"] : Forgotten(ledger["owner"][k].seen)
        /\ InternalProductionReadiness => Forgotten(Len(tests["broader"]))

\* What readers take for the owner's decisions only ever grows, but for the one
\* call that starts the current file over the file of an older version.
OwnerDecisionsKept ==
    [][IsPrefix(OwnerDecisions, OwnerDecisions') \/ ~Recorded("owner")]_vars

=============================================================================
