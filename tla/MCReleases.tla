------------------------------ MODULE MCReleases ------------------------------
(***************************************************************************)
(* Small instances of the releases: r1 is installed, and r2 and r3 can be       *)
(* built, published and installed.  An instance is a state a publisher and his    *)
(* users can be in, and the number of jobs, feeds, verifications, uploads and      *)
(* updates to come, of installer operations and of faults.                          *)
(***************************************************************************)
EXTENDS ReleaseUpdate, TLC

MCPrecedes == {<<"r1", "r2">>, <<"r1", "r3">>, <<"r2", "r3">>}
MCInstalls == {[version |-> "r2", migrate |-> FALSE]}

Left(some) == [e \in Events |-> IF e \in DOMAIN some THEN some[e] ELSE 0]

\* The first operation installed r1.
InstalledDisk == [EmptyDisk EXCEPT !["node"] = {1}, !["r1"] = {1}, !["current"] = {"r1"},
                                   !["config"] = {1}, !["plist"] = {1}]

First == MaxOps + MaxWrites
Whole == [e \in Entries |-> {1}]
NoPackages == [k \in Installers \X Versions |-> NoTree]
NoArchives == [k \in Kinds \X Versions |-> 0]
FeedOf(v, dist, macos) ==
    [version |-> v, unsure |-> {},
     sha256 |-> [k \in {Distribution, Macos} |-> IF k = Macos THEN macos ELSE dist],
     was |-> [k \in {Distribution, Macos} |-> IF k = Macos THEN macos ELSE dist]]

\* What the publisher has: nothing, or the archives of a release and its feed.
Nothing == contract = "r2" /\ BuildInit

ArchivesOf(v) == (<<Distribution, v>> :> First + 1) @@ (<<Macos, v>> :> First + 2)

\* r2 is built, with the packages, and nothing of it is published.
Packaged ==
    /\ contract = "r2"
    /\ stage = Whole
    /\ output = [v \in Versions |->
          IF v = "r2" THEN [tree |-> Whole, patched |-> TRUE, manifest |-> Whole] ELSE NoOutput]
    /\ packages = [NoPackages EXCEPT ![Macos, "r2"] = Whole]
    /\ archives = ArchivesOf("r2") @@ NoArchives /\ sidecars = archives
    /\ made = [n \in {First + 1, First + 2} |-> Whole]
    /\ feed = FeedOf("r2", First + 1, First + 2) /\ latest = NoFeed /\ offered = {}
    /\ assets = [v \in Versions |-> 0]

\* r2 is published, r3 is built; of r2 there may be a newer archive than the feed's.
Published(next, anew) ==
    /\ contract = "r3"
    /\ stage = Whole
    /\ output = [v \in Versions |-> NoOutput]
    /\ packages = NoPackages
    /\ archives = (<<Distribution, "r2">> :> First + anew) @@
                  (<<Macos, "r2">> :> First + 2) @@
                  (<<Distribution, "r3">> :> First + 3) @@
                  (<<Macos, "r3">> :> First + 4) @@ NoArchives
    /\ sidecars = archives
    /\ made = [n \in First + 1 .. First + 5 |-> Whole]
    /\ feed = FeedOf("r3", First + 3, First + 4)
    /\ latest = FeedOf("r2", First + 1, First + 2) /\ offered = {latest}
    /\ assets = [v \in Versions |-> IF v = "r2" THEN First + 1
                                    ELSE IF v = "r3" /\ next THEN First + 3 ELSE 0]

Instance(publisher, some, operations, bad) ==
    /\ publisher
    /\ left = Left(some)
    /\ ops = MaxOps - operations
    /\ faults = MaxFaults - bad
    /\ disk = InstalledDisk
    /\ snapshots = {} /\ loaded = FALSE /\ lock = "free" /\ writes = 0 /\ userData = {}
    /\ pc = [a \in Actors |-> "idle"]
    /\ op = [a \in Actors |-> NoOp]
    /\ todo = [a \in Actors |-> {}]
    /\ verified = {} /\ interrupted = {} /\ builder = NoJob
    /\ updateLock = "free"
    /\ upd = [u \in Updaters |-> NoUpdate]

MCInit ==
    \* From nothing to a feed.
    \/ Instance(Nothing, "job" :> 2 @@ "feed" :> 1 @@ "verify" :> 1, 0, 1)
    \* A build while an installer moves the release it is made of.
    \/ Instance(Nothing, "job" :> 1 @@ "verify" :> 1, 1, 0)
    \* A build anew, maybe stopped, of a release whose archives are there.
    \/ Instance(Packaged, "job" :> 2 @@ "feed" :> 2 @@ "verify" :> 1, 0, 2)
    \* Two updates while the next release is published.
    \/ Instance(Published(TRUE, 1), "upload" :> 1 @@ "update" :> 2, 0, 2)
    \* The archive of a release is uploaded anew.
    \/ Instance(Published(FALSE, 5), "upload" :> 3 @@ "update" :> 2, 0, 0)
    \* An update and an installer operation at once.
    \/ Instance(Published(TRUE, 1), "update" :> 2, 1, 1)
    \* A build while an update moves the release it is made of.
    \/ Instance(Published(TRUE, 1), "job" :> 1 @@ "update" :> 1, 0, 1)

MCSpec == MCInit /\ [][ReleaseNext]_releaseVars

\* Updaters differ in nothing but their name.
Symmetry == Permutations(Updaters)
=============================================================================
