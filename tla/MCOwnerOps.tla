------------------------------ MODULE MCOwnerOps ------------------------------
EXTENDS OwnerOpsTesting, OwnerOpsLocalRecords

\* The local records and the two lanes share no file: a behaviour is of one or
\* the other.
VARIABLE part

Bounds(bounds) ==
    [k \in TestingEvents |-> IF k \in DOMAIN bounds THEN bounds[k] ELSE 0]

PackageEvents ==
    Bounds([tree |-> 1, crash |-> 1, package |-> 3])
EvidenceEvents ==
    Bounds([tree |-> 1, crash |-> 1, package |-> 2, evidence |-> 2])
DecisionEvents ==
    Bounds([crash |-> 1, package |-> 1, human |-> 2, market |-> 1])
DryRunEvents ==
    Bounds([tick |-> 1, crash |-> 1, package |-> 1, approval |-> 2,
            invocation |-> 1])
TestEvents ==
    Bounds([field |-> 1, broader |-> 3, repair |-> 2])
OwnerEvents ==
    Bounds([crash |-> 1, field |-> 1, broader |-> 2, owner |-> 2])

MCReports ==
    {[tag |-> "critical", template |-> TRUE,  friction |-> FALSE],
     [tag |-> "none",     template |-> FALSE, friction |-> FALSE],
     [tag |-> "minor",    template |-> TRUE,  friction |-> TRUE]}

MCInit ==
    /\ RecordsInit
    /\ \/ /\ part = "lanes"
          /\ \/ \E root \in {"new", "older"} : TestingInit(root, PackageEvents)
             \/ \E events \in {EvidenceEvents, DecisionEvents, DryRunEvents, TestEvents, OwnerEvents} :
                   TestingInit("released", events)
          /\ userOf = [s \in Servers |-> CHOOSE u \in Users : TRUE]
       \/ part = "records" /\ TestingInit("new", Bounds(<<>>))

MCNext ==
    \/ part = "lanes" /\ TestingNext /\ UNCHANGED <<recordVars, part>>
    \/ part = "records" /\ RecordsNext /\ UNCHANGED <<vars, part>>

MCSpec == MCInit /\ [][MCNext]_<<vars, recordVars, part>>
Symmetry == Permutations(Actors)
=============================================================================
