----------------------------- MODULE ReleaseBuild -----------------------------
(***************************************************************************)
(* How a release is built and offered: build-gpao-t-production-distribution,  *)
(* the installer packages made of its output, the update feed, and the         *)
(* verification of an archive (src/tools/*.mjs).                                *)
(*                                                                          *)
(* The default source of a build is the runtime of the installed release, by    *)
(* its current pointer, so installers and updaters move the source under a       *)
(* build.  One person runs the tools, one after the other; each awaits files,     *)
(* so a job is split at every tree it copies or file it writes, and may stop       *)
(* between any two of them.                                                         *)
(*                                                                          *)
(* Abstractions.  A tree is what each of its parts was copied from, the compared  *)
(* parts of the runtime being two.  A sha256 is the number of the archive it is of. *)
(* A publisher uploads archives and the feed to the release pages by hand.           *)
(***************************************************************************)
EXTENDS Installer, FiniteSets

CONSTANTS
    Newest,         \* the release of the contract a behaviour ends with
    Precedes,       \* pairs of releases, the older first
    Installers      \* installer packages that are built

Distribution == "production_distribution"
Macos == "macos_installer"
Windows == "windows_installer"
Kinds == {Distribution} \cup Installers

\* RUNTIME_SOURCE_TOP_LEVEL, and the dependencies that no seal compares.
SealedEntries == {"dist", "src"}
Entries == SealedEntries \cup {"node_modules"}

ASSUME BuildAssumption ==
    /\ Newest \in Versions
    /\ Precedes \subseteq Versions \X Versions
    /\ \A v \in Versions : <<v, v>> \notin Precedes   \* compareDateVersions(v, v) is 0
    /\ Macos \in Installers
    /\ Installers \subseteq {Macos, Windows}

VARIABLES
    contract,   \* the release the checkout is of
    stage,      \* the runtime stage: what each entry was copied from
    output,     \* the distribution directory of each release
    packages,   \* the directory of each installer package
    archives,   \* the zip of each package: the number of the write, 0 if none
    sidecars,   \* the .sha256 beside each zip, 0 if none
    made,       \* the tree each archive was made of, by number
    feed,       \* gpao-t-update.json as built
    verified,   \* archives that passed their verification (history)
    interrupted, \* archives written and not yet given their checksum (history)
    builder,    \* the job under way, and where it is
    latest,     \* the feed the release page serves
    assets,     \* the distribution it serves for each release
    offered,    \* feeds that were ever served (history)
    left        \* jobs and uploads still to come (bounds the model)

buildVars == <<contract, stage, output, packages, archives, sidecars, made, feed, verified,
               interrupted, builder, latest, assets, offered, left>>

NoTree == [e \in Entries |-> {}]
NoOutput == [tree |-> NoTree, patched |-> FALSE, manifest |-> NoTree]
NoFeed == [version |-> "none"]
NoJob == [at |-> "idle", kind |-> "none", rest |-> {}]

Newer(v, w) == <<w, v>> \in Precedes

\* The release a pointer names; none if the pointer is missing.
Named(pointer) == {v \in Versions : pointer = {v}}

\* DEFAULT_SOURCE_BUILD: the release the current pointer names, as it is now.
Source == UNION {disk[v] : v \in Named(disk["current"])}

Spend(event) == left[event] > 0 /\ left' = [left EXCEPT ![event] = @ - 1]

-----------------------------------------------------------------------------
(* Jobs *)

JobAt(step) == builder.at = step
GoOn(step) == builder' = [builder EXCEPT !.at = step]
JobEnds == builder' = NoJob
Untouched == UNCHANGED vars
SameOffer == UNCHANGED <<latest, assets, offered>>

StartJob(kind, step, rest) ==
    /\ JobAt("idle")
    /\ Spend("job")
    /\ builder' = [at |-> step, kind |-> kind, rest |-> rest]
    /\ UNCHANGED <<contract, output, packages, archives, sidecars, made, feed, verified,
                   interrupted>>
    /\ SameOffer /\ Untouched

\* prepareFreshRuntimeStage, unless the caller brings a stage of his own: the
\* one an earlier build left.
StartDistribution ==
    \/ StartJob(Distribution, "stage", Entries) /\ stage' = NoTree
    \/ StartJob(Distribution, "seal", {}) /\ UNCHANGED stage

\* copyStageEntry: one entry after the other, each through the pointer, the
\* dependencies last.
CopyStageEntry(e) ==
    /\ JobAt("stage")
    /\ Source # {}
    /\ e \in builder.rest
    /\ e = "node_modules" => builder.rest = {e}
    /\ stage' = [stage EXCEPT ![e] = Source]
    /\ builder' = [builder EXCEPT !.rest = @ \ {e},
                       !.at = IF builder.rest = {e} THEN "seal" ELSE "stage"]
    /\ UNCHANGED <<contract, output, packages, archives, sidecars, made, feed, verified,
                   interrupted, left>>
    /\ SameOffer /\ Untouched

\* Mutant: the stage is compared with itself.
NonEmptyTree(tree) == \A e \in SealedEntries : tree[e] # {}

\* assertMatchingTrees of the source records and the stage records.
MatchesSource(tree) == \A e \in SealedEntries : tree[e] = Source /\ Source # {}

\* verifyFreshRuntimeStage: before anything of an earlier build is removed.  It
\* resolves the pointer once, and reads the release that it names.
VerifyFreshRuntimeStage ==
    /\ JobAt("seal")
    /\ MatchesSource(stage)
    /\ GoOn("output")
    /\ UNCHANGED <<contract, stage, output, packages, archives, sidecars, made, feed,
                   verified, interrupted, left>>
    /\ SameOffer /\ Untouched

SetOutput(step, value) ==
    /\ output' = [output EXCEPT ![contract] = value]
    /\ GoOn(step)
    /\ UNCHANGED <<contract, stage, packages, archives, sidecars, made, feed,
                   verified, interrupted, left>>
    /\ SameOffer /\ Untouched

RemoveOutput == JobAt("output") /\ SetOutput("fill", NoOutput)

CopyStage == JobAt("fill") /\ SetOutput("patch", [NoOutput EXCEPT !.tree = stage])

\* patchDistributionUserSurface: a patch whose place is not found ends the job.
PatchDistributionUserSurface ==
    /\ JobAt("patch")
    /\ SetOutput("manifest", [output[contract] EXCEPT !.patched = TRUE])

WriteManifest ==
    /\ JobAt("manifest")
    /\ SetOutput("archive", [output[contract] EXCEPT !.manifest = output[contract].tree])

\* verifyDistributionManifest: the manifest is there and lists the tree.
ManifestHolds(out) == out.patched /\ out.manifest = out.tree

\* An installer package is made of the distribution; what there was of it is
\* removed first, the directory and then the zip.
StartInstaller(kind) ==
    /\ ManifestHolds(output[contract])
    /\ StartJob(kind, "unpack", {})
    /\ UNCHANGED stage

BuildMacosInstaller == StartInstaller(Macos)
BuildWindowsInstaller == Windows \in Installers /\ StartInstaller(Windows)

SetPackage(tree) ==
    /\ packages' = [packages EXCEPT ![<<builder.kind, contract>>] = tree]
    /\ UNCHANGED <<contract, stage, output, archives, sidecars, made, feed, verified,
                   interrupted, left>>
    /\ SameOffer /\ Untouched

RemovePackage == JobAt("unpack") /\ GoOn("remove") /\ SetPackage(NoTree)

RemoveArchive ==
    /\ JobAt("remove")
    /\ archives' = [archives EXCEPT ![<<builder.kind, contract>>] = 0]
    /\ GoOn("pack")
    /\ UNCHANGED <<contract, stage, output, packages, sidecars, made, feed,
                   verified, interrupted, left>>
    /\ SameOffer /\ Untouched

\* The copies and, last, the manifest without which the package does not count.
PackDistribution ==
    JobAt("pack") /\ GoOn("archive") /\ SetPackage(output[contract].tree)

Packed(kind) == IF kind = Distribution THEN output[contract].tree
                ELSE packages[kind, contract]

NextArchive == MaxOps + MaxWrites + 1 + Cardinality(DOMAIN made)
ArchiveOf(kind) == <<kind, contract>>

\* createZipArchive removes the old zip and makes the new one; killed in
\* between, it leaves none.
CreateZipArchive ==
    /\ JobAt("archive")
    /\ builder.kind = Distribution => ManifestHolds(output[contract])
    /\ LET name == ArchiveOf(builder.kind) IN
        /\ archives' = [archives EXCEPT ![name] = NextArchive]
        /\ made' = [n \in DOMAIN made \cup {NextArchive} |->
                       IF n = NextArchive THEN Packed(builder.kind) ELSE made[n]]
        /\ interrupted' = interrupted \cup {name}
        /\ verified' = verified \ {name}
    /\ GoOn("checksum")
    /\ UNCHANGED <<contract, stage, output, packages, sidecars, feed, left>>
    /\ SameOffer /\ Untouched

\* Mutant: the checksum is of the zip that was there before.
ChecksumKept(name) == sidecars[name]

Checksum(name) == archives[name]

WriteChecksum ==
    /\ JobAt("checksum")
    /\ LET name == ArchiveOf(builder.kind) IN
        /\ sidecars' = [sidecars EXCEPT ![name] = Checksum(name)]
        /\ interrupted' = interrupted \ {name}
    /\ JobEnds
    /\ UNCHANGED <<contract, stage, output, packages, archives, made, feed, verified, left>>
    /\ SameOffer /\ Untouched

\* The job throws or is killed: what it has written stays.
JobStops ==
    /\ ~JobAt("idle")
    /\ Fault
    /\ JobEnds
    /\ archives' \in
          IF JobAt("archive")
          THEN {archives, [archives EXCEPT ![ArchiveOf(builder.kind)] = 0]}
          ELSE {archives}
    /\ UNCHANGED <<contract, stage, output, packages, sidecars, made, feed, verified,
                   interrupted, left>>
    /\ SameOffer
    /\ UNCHANGED <<disk, snapshots, loaded, lock, pc, op, todo, userData, writes, ops>>

\* A stage that is not the source any more, or a source that is gone.
JobRefused ==
    /\ \/ JobAt("stage") /\ Source = {}
       \/ JobAt("seal") /\ ~MatchesSource(stage)
    /\ JobEnds
    /\ UNCHANGED <<contract, stage, output, packages, archives, sidecars, made, feed,
                   verified, interrupted, left>>
    /\ SameOffer /\ Untouched

-----------------------------------------------------------------------------
(* The feed and the verification *)

\* sha256FromSidecar: the sidecar is believed; without one the zip is hashed.
Sha256FromSidecar(name) == IF sidecars[name] # 0 THEN sidecars[name] ELSE archives[name]

Offered == {k \in Kinds : archives[k, contract] # 0}

\* verifyGpaoTUpdateFeed, of the feed that is built.
FeedValid(kinds) == {Distribution, Macos} \subseteq kinds

\* `was` is what the hashes are of, and `unsure` what no checksum was written or
\* verified of (history).
BuildGpaoTUpdateFeed ==
    [version |-> contract,
     sha256 |-> [k \in Offered |-> Sha256FromSidecar(ArchiveOf(k))],
     was |-> [k \in Offered |-> archives[k, contract]],
     unsure |-> {k \in Offered : /\ ArchiveOf(k) \in interrupted
                                 /\ ArchiveOf(k) \notin verified}]

BuildGithubUpdateFeed ==
    /\ JobAt("idle")
    /\ FeedValid(Offered)
    /\ Spend("feed")
    /\ feed' = BuildGpaoTUpdateFeed
    /\ UNCHANGED <<contract, stage, output, packages, archives, sidecars, made, verified,
                   interrupted, builder>>
    /\ SameOffer /\ Untouched

\* verifyArchiveChecksum
ChecksumHolds(name) == archives[name] # 0 /\ sidecars[name] = archives[name]

Verify(kind) ==
    /\ JobAt("idle")
    /\ Spend("verify")
    /\ ChecksumHolds(ArchiveOf(kind))
    /\ verified' = verified \cup {ArchiveOf(kind)}
    /\ UNCHANGED <<contract, stage, output, packages, archives, sidecars, made, feed,
                   interrupted, builder>>
    /\ SameOffer /\ Untouched

\* The source may have moved on: then only --skip-source-build-check verifies.
VerifyDistribution(skipSourceBuildCheck) ==
    /\ Verify(Distribution)
    /\ skipSourceBuildCheck \/ MatchesSource(made[archives[Distribution, contract]])

\* The package is looked at in its directory; of the archive, when it is given,
\* only the checksum.
VerifyMacosInstaller == Verify(Macos) /\ packages[Macos, contract] # NoTree

VerifyWindowsInstaller ==
    /\ Windows \in Installers
    /\ Verify(Windows)
    /\ packages[Windows, contract] # NoTree

-----------------------------------------------------------------------------
(* The publisher *)

\* A commit moves the contract to the newest release.
RaiseContract ==
    /\ JobAt("idle")
    /\ contract # Newest
    /\ contract' = Newest
    /\ UNCHANGED <<stage, output, packages, archives, sidecars, made, feed, verified,
                   interrupted, builder, left>>
    /\ SameOffer /\ Untouched

UploadArchive(v) ==
    /\ archives[Distribution, v] \notin {0, assets[v]}
    /\ Spend("upload")
    /\ assets' = [assets EXCEPT ![v] = archives[Distribution, v]]
    /\ UNCHANGED <<contract, stage, output, packages, archives, sidecars, made, feed,
                   verified, interrupted, builder, latest, offered>>
    /\ Untouched

UploadFeed ==
    /\ feed \notin {NoFeed, latest}
    /\ Spend("upload")
    /\ latest' = feed
    /\ offered' = offered \cup {feed}
    /\ UNCHANGED <<contract, stage, output, packages, archives, sidecars, made, feed,
                   verified, interrupted, builder, assets>>
    /\ Untouched

\* A checkout that nothing was built in and nothing published of.
BuildInit ==
    /\ contract \in Versions
    /\ stage = NoTree
    /\ output = [v \in Versions |-> NoOutput]
    /\ packages = [name \in Installers \X Versions |-> NoTree]
    /\ archives = [name \in Kinds \X Versions |-> 0]
    /\ sidecars = archives
    /\ made = [n \in {} |-> NoTree]
    /\ feed = NoFeed
    /\ verified = {} /\ interrupted = {}
    /\ builder = NoJob
    /\ latest = NoFeed /\ offered = {}
    /\ assets = [v \in Versions |-> 0]

BuildStep ==
    \/ StartDistribution \/ \E e \in Entries : CopyStageEntry(e)
    \/ VerifyFreshRuntimeStage
    \/ RemoveOutput \/ CopyStage \/ PatchDistributionUserSurface \/ WriteManifest
    \/ BuildMacosInstaller \/ BuildWindowsInstaller
    \/ RemovePackage \/ RemoveArchive \/ PackDistribution
    \/ CreateZipArchive \/ WriteChecksum \/ JobStops \/ JobRefused
    \/ BuildGithubUpdateFeed
    \/ \E skip \in BOOLEAN : VerifyDistribution(skip)
    \/ VerifyMacosInstaller \/ VerifyWindowsInstaller
    \/ RaiseContract \/ \E v \in Versions : UploadArchive(v)
    \/ UploadFeed

-----------------------------------------------------------------------------
(* Properties *)

\* The code of every archive is that of one release, whole, however installers
\* and updaters moved the current pointer while it was staged, and whatever
\* an earlier build had left in the stage.  The dependencies are not: nothing
\* compares them (verifyFreshRuntimeStage ignores node_modules).
SealedTrees ==
    \A n \in DOMAIN made : \A d, e \in SealedEntries :
        made[n][d] = made[n][e] /\ made[n][e] # {}

\* The feed names each archive by the hash it had when the feed was built, unless
\* the build of that archive had stopped before its checksum and nobody verified
\* it since: the feed believes the sidecar an earlier build has left.
FeedTrue ==
    feed # NoFeed =>
        \A k \in DOMAIN feed.sha256 \ feed.unsure : feed.sha256[k] = feed.was[k]
=============================================================================
