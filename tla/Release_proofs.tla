---------------------------- MODULE Release_proofs ----------------------------
(***************************************************************************)
(* Every archive is made of one whole release, and what an update puts in      *)
(* place of a release was vouched for by a feed served for it: for any          *)
(* releases, installers, updaters and processes, and any number of jobs,        *)
(* faults, operations and updates.                                              *)
(***************************************************************************)
EXTENDS ReleaseUpdate, FiniteSetTheorems, TLAPS

(***************************************************************************)
(* The invariant: what the job under way has checked of the tree it goes on    *)
(* to copy.                                                                    *)
(***************************************************************************)

Sealed(tree) == \A d, e \in SealedEntries : tree[d] = tree[e] /\ tree[e] # {}

\* The shape of what a job changes one part of.
Record(out) ==
    /\ out = [tree |-> out.tree, patched |-> out.patched, manifest |-> out.manifest]
    /\ out.patched \in BOOLEAN
Shaped ==
    /\ contract \in Versions
    /\ output = [v \in Versions |-> output[v]]
    /\ \A v \in Versions : Record(output[v])
    /\ packages = [name \in Installers \X Versions |-> packages[name]]
    /\ builder = [at |-> builder.at, kind |-> builder.kind, rest |-> builder.rest]
    /\ builder.kind \in Kinds \cup {"none"}

\* The seal is compared before the output is removed; the patch and the manifest
\* come after the copy; an installer is made of a distribution that was patched.
PatchedSealed == \A v \in Versions : output[v].patched => Sealed(output[v].tree)
OfDistribution ==
    builder.at \in {"stage", "seal", "output", "fill", "patch", "manifest"} =>
        builder.kind = Distribution
StageSealed == builder.at \in {"output", "fill"} => Sealed(stage)
OutputSealed == builder.at = "patch" => Sealed(output[contract].tree)
OutputPatched ==
    builder.at \in {"unpack", "remove", "pack"} =>
        builder.kind \in Installers /\ output[contract].patched
PackageSealed ==
    builder.at = "archive" /\ builder.kind # Distribution =>
        /\ builder.kind \in Installers
        /\ Sealed(packages[builder.kind, contract])

SealInv ==
    /\ Shaped
    /\ OfDistribution
    /\ PatchedSealed /\ StageSealed /\ OutputSealed /\ OutputPatched /\ PackageSealed
    /\ SealedTrees

\* All that the invariant speaks of.
sealVars == <<contract, stage, output, packages, made, builder>>

\* The invariant reads only the tree, the outputs, the packages and the job.
LEMMA SealInvKept ==
    ASSUME SealInv, UNCHANGED sealVars
    PROVE  SealInv'
  <1>1. Shaped' /\ OfDistribution'
    BY DEF SealInv, Shaped, Record, OfDistribution, sealVars
  <1>2. PatchedSealed' /\ StageSealed' /\ OutputSealed'
    BY DEF SealInv, PatchedSealed, StageSealed, OutputSealed, Sealed, sealVars
  <1>3. OutputPatched' /\ PackageSealed'
    BY DEF SealInv, OutputPatched, PackageSealed, Sealed, sealVars
  <1>4. SealedTrees'
    BY DEF SealInv, SealedTrees, sealVars
  <1> QED BY <1>1, <1>2, <1>3, <1>4 DEF SealInv

\* There are three kinds of jobs.
LEMMA Kinds3 == Distribution \notin Installers /\ Kinds = {Distribution} \cup Installers
  BY BuildAssumption DEF Distribution, Macos, Windows, Kinds

\* Before the first job nothing is made of anything.
LEMMA SealInvInit == ReleaseInit => SealInv
  <1> SUFFICES ASSUME ReleaseInit PROVE SealInv
    OBVIOUS
  <1> USE DEF ReleaseInit, BuildInit
  <1>1. Shaped
    BY DEF Shaped, Record, NoOutput, NoJob
  <1>2. PatchedSealed
    BY DEF PatchedSealed, NoOutput
  <1>3. OfDistribution /\ StageSealed /\ OutputSealed /\ OutputPatched /\ PackageSealed
    BY DEF NoJob, OfDistribution, StageSealed, OutputSealed, OutputPatched, PackageSealed
  <1>4. SealedTrees
    BY DEF SealedTrees
  <1> QED BY <1>1, <1>2, <1>3, <1>4 DEF SealInv

(***************************************************************************)
(* The steps of a job.                                                         *)
(***************************************************************************)

\* A job starts with nothing checked.
LEMMA StartKeeps ==
    ASSUME SealInv,
           NEW kind \in Kinds, NEW step, NEW rest, StartJob(kind, step, rest),
           \/ step \in {"stage", "seal"} /\ kind = Distribution
           \/ (step = "unpack" /\ kind \in Installers /\ ManifestHolds(output[contract]))
    PROVE  SealInv'
  <1>1. builder' = [at |-> step, kind |-> kind, rest |-> rest]
        /\ UNCHANGED <<contract, output, packages, made>>
    BY DEF StartJob
  <1>2. Shaped'
    BY <1>1 DEF SealInv, Shaped, Record
  <1>3. OfDistribution' /\ StageSealed' /\ OutputSealed' /\ PackageSealed'
    BY <1>1 DEF OfDistribution, StageSealed, OutputSealed, PackageSealed
  <1>4. OutputPatched'
    <2>1. CASE step \in {"stage", "seal"} /\ kind = Distribution
      BY <1>1, <2>1 DEF OutputPatched
    <2>2. CASE step = "unpack" /\ kind \in Installers /\ ManifestHolds(output[contract])
      BY <1>1, <2>2 DEF OutputPatched, ManifestHolds
    <2> QED BY <2>1, <2>2
  <1> QED
    BY <1>1, <1>2, <1>3, <1>4 DEF SealInv, PatchedSealed, SealedTrees, Sealed

\* A step of a job that writes the distribution of the contract.
LEMMA OutputKeeps ==
    ASSUME SealInv, NEW step, NEW value, SetOutput(step, value), Record(value),
           value.patched => Sealed(value.tree), builder.kind = Distribution,
           \/ step = "fill" /\ Sealed(stage)
           \/ step = "patch" /\ Sealed(value.tree)
           \/ step = "manifest"
           \/ step = "archive"
    PROVE  SealInv'
  <1>1. /\ builder' = [builder EXCEPT !.at = step]
        /\ output' = [output EXCEPT ![contract] = value]
        /\ UNCHANGED <<contract, stage, packages, made>>
    BY DEF SetOutput, GoOn
  <1>2. /\ Shaped'
        /\ builder'.at = step /\ builder'.kind = builder.kind
        /\ output'[contract] = value
        /\ \A v \in Versions \ {contract} : output'[v] = output[v]
    BY <1>1 DEF SealInv, Shaped
  <1>3. PatchedSealed'
    BY <1>1, <1>2 DEF SealInv, PatchedSealed
  <1>4. OfDistribution' /\ StageSealed' /\ OutputSealed'
    BY <1>1, <1>2 DEF OfDistribution, StageSealed, OutputSealed, Sealed
  <1>5. OutputPatched' /\ PackageSealed'
    BY <1>1, <1>2 DEF OutputPatched, PackageSealed
  <1>6. SealedTrees'
    BY <1>1 DEF SealInv, SealedTrees
  <1> QED BY <1>2, <1>3, <1>4, <1>5, <1>6 DEF SealInv

\* A step of a job that writes the package of the contract.
LEMMA PackageKeeps ==
    ASSUME SealInv, NEW step, NEW tree, GoOn(step), SetPackage(tree),
           builder.at \in {"unpack", "pack"},
           step = "remove" \/ (step = "archive" /\ tree = output[contract].tree)
    PROVE  SealInv'
  <1>1. /\ builder' = [builder EXCEPT !.at = step]
        /\ packages' = [packages EXCEPT ![<<builder.kind, contract>>] = tree]
        /\ UNCHANGED <<contract, stage, output, made>>
    BY DEF SetPackage, GoOn
  <1>2. builder.kind \in Installers /\ output[contract].patched
    BY DEF SealInv, OutputPatched
  <1>3. Sealed(output[contract].tree)
    BY <1>2 DEF SealInv, PatchedSealed, Shaped
  <1>4. /\ Shaped'
        /\ builder'.at = step /\ builder'.kind = builder.kind
        /\ packages'[builder.kind, contract] = tree
    BY <1>1, <1>2 DEF SealInv, Shaped
  <1>5. PatchedSealed' /\ OfDistribution' /\ StageSealed' /\ OutputSealed'
    BY <1>1, <1>4 DEF SealInv, PatchedSealed, OfDistribution, StageSealed, OutputSealed
  <1>6. OutputPatched' /\ PackageSealed'
    BY <1>1, <1>2, <1>3, <1>4 DEF OutputPatched, PackageSealed
  <1>7. SealedTrees'
    BY <1>1 DEF SealInv, SealedTrees
  <1> QED BY <1>4, <1>5, <1>6, <1>7 DEF SealInv

\* A job that ends, or that has not yet checked a tree.
LEMMA UncheckedKeeps ==
    ASSUME SealInv, UNCHANGED <<contract, output, packages, made>>,
           NEW step \in {"idle", "stage", "seal"}, NEW kind \in Kinds \cup {"none"}, NEW rest,
           step # "idle" => kind = Distribution,
           builder' = [at |-> step, kind |-> kind, rest |-> rest]
    PROVE  SealInv'
  <1>1. Shaped'
    BY DEF SealInv, Shaped, Record
  <1>2. PatchedSealed' /\ SealedTrees'
    BY DEF SealInv, PatchedSealed, SealedTrees, Sealed
  <1>3. OfDistribution' /\ StageSealed' /\ OutputSealed' /\ OutputPatched' /\ PackageSealed'
    BY DEF OfDistribution, StageSealed, OutputSealed, OutputPatched, PackageSealed
  <1> QED BY <1>1, <1>2, <1>3 DEF SealInv

\* The stage that was compared is sealed.
LEMMA MatchSealed == ASSUME NEW tree, MatchesSource(tree) PROVE Sealed(tree)
  BY DEF MatchesSource, Sealed

\* A verification goes on only with a sealed tree.
LEMMA VerifyKeeps ==
    ASSUME SealInv, VerifyFreshRuntimeStage
    PROVE  SealInv'
  <1>1. /\ builder' = [builder EXCEPT !.at = "output"]
        /\ builder.at = "seal"
        /\ UNCHANGED <<contract, stage, output, packages, made>>
    BY DEF VerifyFreshRuntimeStage, GoOn, JobAt
  <1>2. Shaped' /\ builder'.at = "output" /\ builder'.kind = builder.kind
    BY <1>1 DEF SealInv, Shaped, Record
  <1>3. Sealed(stage)
    BY MatchSealed DEF VerifyFreshRuntimeStage
  <1>4. PatchedSealed' /\ SealedTrees'
    BY <1>1 DEF SealInv, PatchedSealed, SealedTrees, Sealed
  <1>5. OfDistribution' /\ StageSealed' /\ OutputSealed' /\ OutputPatched' /\ PackageSealed'
    BY <1>1, <1>2, <1>3 DEF SealInv, OfDistribution, StageSealed, OutputSealed, OutputPatched, PackageSealed, Sealed
  <1> QED BY <1>2, <1>4, <1>5 DEF SealInv

\* Removing an archive changes no tree.
LEMMA RemoveArchiveKeeps ==
    ASSUME SealInv, RemoveArchive
    PROVE  SealInv'
  <1>1. /\ builder' = [builder EXCEPT !.at = "pack"]
        /\ builder.at = "remove"
        /\ UNCHANGED <<contract, stage, output, packages, made>>
    BY DEF RemoveArchive, GoOn, JobAt
  <1>2. Shaped' /\ builder'.at = "pack" /\ builder'.kind = builder.kind
    BY <1>1 DEF SealInv, Shaped, Record
  <1>3. PatchedSealed' /\ SealedTrees'
    BY <1>1 DEF SealInv, PatchedSealed, SealedTrees, Sealed
  <1>4. OfDistribution' /\ StageSealed' /\ OutputSealed' /\ OutputPatched' /\ PackageSealed'
    BY <1>1, <1>2 DEF SealInv, OfDistribution, StageSealed, OutputSealed, OutputPatched, PackageSealed
  <1> QED BY <1>2, <1>3, <1>4 DEF SealInv

\* The archive is of the distribution, whose manifest holds, or of the package.
LEMMA ArchiveKeeps ==
    ASSUME SealInv, CreateZipArchive
    PROVE  SealInv'
  <1>1. /\ builder' = [builder EXCEPT !.at = "checksum"]
        /\ UNCHANGED <<contract, stage, output, packages>>
        /\ \E n : made' = [m \in DOMAIN made \cup {n} |->
                              IF m = n THEN Packed(builder.kind) ELSE made[m]]
    BY DEF CreateZipArchive, GoOn
  <1>2. Sealed(Packed(builder.kind))
    <2>1. CASE builder.kind = Distribution
      BY <2>1 DEF CreateZipArchive, ManifestHolds, Packed, SealInv, PatchedSealed, Shaped
    <2>2. CASE builder.kind # Distribution
      BY <2>2 DEF CreateZipArchive, JobAt, Packed, SealInv, PackageSealed
    <2> QED BY <2>1, <2>2
  <1>3. Shaped' /\ builder'.at = "checksum"
    BY <1>1 DEF SealInv, Shaped, Record
  <1>4. PatchedSealed'
    BY <1>1 DEF SealInv, PatchedSealed, Sealed
  <1>5. OfDistribution' /\ StageSealed' /\ OutputSealed' /\ OutputPatched' /\ PackageSealed'
    BY <1>3 DEF OfDistribution, StageSealed, OutputSealed, OutputPatched, PackageSealed
  <1>6. SealedTrees'
    <2>1. PICK n : made' = [m \in DOMAIN made \cup {n} |->
                              IF m = n THEN Packed(builder.kind) ELSE made[m]]
      BY <1>1
    <2>2. \A m \in DOMAIN made' : Sealed(made'[m])
      BY <2>1, <1>2 DEF SealInv, SealedTrees, Sealed
    <2> QED BY <2>2 DEF SealedTrees, Sealed
  <1> QED BY <1>3, <1>4, <1>5, <1>6 DEF SealInv

\* What is left of a directory that is changed in one part.
LEMMA RecordKept ==
    ASSUME NEW out, Record(out), NEW tree, NEW patched \in BOOLEAN
    PROVE  /\ Record([out EXCEPT !.tree = tree])
           /\ [out EXCEPT !.tree = tree].tree = tree
           /\ [out EXCEPT !.tree = tree].patched = out.patched
           /\ Record([out EXCEPT !.patched = patched])
           /\ [out EXCEPT !.patched = patched].tree = out.tree
  BY DEF Record

(***************************************************************************)
(* The steps of the build.                                                     *)
(***************************************************************************)

\* Every step of a build keeps what was checked true.
LEMMA BuildKeeps ==
    ASSUME SealInv, BuildStep
    PROVE  SealInv'
  <1> USE Kinds3
  <1>0. /\ builder = [at |-> builder.at, kind |-> builder.kind, rest |-> builder.rest]
        /\ builder.kind \in Kinds \cup {"none"}
        /\ contract \in Versions /\ Record(output[contract])
    BY DEF SealInv, Shaped
  <1>1. CASE StartDistribution
    <2>1. PICK step \in {"stage", "seal"}, rest \in {Entries, {}} :
             StartJob(Distribution, step, rest)
      BY <1>1 DEF StartDistribution
    <2> QED BY <2>1, StartKeeps
  <1>2. CASE \E e \in Entries : CopyStageEntry(e)
    <2>1. PICK e \in Entries : CopyStageEntry(e)
      BY <1>2
    <2>2. PICK step \in {"stage", "seal"} :
             builder' = [builder EXCEPT !.rest = builder.rest \ {e}, !.at = step]
      BY <2>1 DEF CopyStageEntry
    <2>3. builder' = [at |-> step, kind |-> builder.kind, rest |-> builder.rest \ {e}]
      BY <1>0, <2>2
    <2>4. builder.kind = Distribution /\ UNCHANGED <<contract, output, packages, made>>
      BY <2>1 DEF CopyStageEntry, JobAt, SealInv, OfDistribution
    <2> QED BY <1>0, <2>3, <2>4, UncheckedKeeps
  <1>3. CASE VerifyFreshRuntimeStage
    BY <1>3, VerifyKeeps
  <1>4. CASE RemoveOutput
    <2>1. Record(NoOutput) /\ ~NoOutput.patched
      BY DEF Record, NoOutput
    <2>2. Sealed(stage)
      BY <1>4 DEF RemoveOutput, JobAt, SealInv, StageSealed
    <2>3. builder.kind = Distribution
      BY <1>4 DEF RemoveOutput, JobAt, SealInv, OfDistribution
    <2>4. SetOutput("fill", NoOutput)
      BY <1>4 DEF RemoveOutput
    <2> QED BY <2>1, <2>2, <2>3, <2>4, OutputKeeps
  <1>5. CASE CopyStage
    <2> DEFINE copy == [NoOutput EXCEPT !.tree = stage]
    <2>1. Record(NoOutput) /\ ~NoOutput.patched
      BY DEF Record, NoOutput
    <2>4. Record(copy) /\ copy.tree = stage /\ copy.patched = NoOutput.patched
      BY <2>1, RecordKept
    <2>2. Sealed(stage)
      BY <1>5 DEF CopyStage, JobAt, SealInv, StageSealed
    <2>3. SetOutput("patch", copy) /\ builder.kind = Distribution
      BY <1>5 DEF CopyStage, JobAt, SealInv, OfDistribution
    <2>5. ~copy.patched
      BY <2>1, <2>4
    <2> HIDE DEF copy
    <2> QED BY <2>2, <2>3, <2>4, <2>5, OutputKeeps
  <1>6. CASE PatchDistributionUserSurface
    <2> DEFINE new == [output[contract] EXCEPT !.patched = TRUE]
    <2>1. Record(new) /\ new.tree = output[contract].tree
      BY <1>0, RecordKept
    <2>2. Sealed(output[contract].tree)
      BY <1>6 DEF PatchDistributionUserSurface, JobAt, SealInv, OutputSealed
    <2>3. SetOutput("manifest", new) /\ builder.kind = Distribution
      BY <1>6 DEF PatchDistributionUserSurface, JobAt, SealInv, OfDistribution
    <2>4. Sealed(new.tree)
      BY <2>1, <2>2
    <2> HIDE DEF new
    <2> QED BY <2>1, <2>3, <2>4, OutputKeeps
  <1>7. CASE WriteManifest
    <2> DEFINE new == [output[contract] EXCEPT !.manifest = output[contract].tree]
    <2>1. /\ Record(new) /\ new.tree = output[contract].tree
          /\ new.patched = output[contract].patched
      BY <1>0 DEF Record
    <2>2. SetOutput("archive", new) /\ builder.kind = Distribution
      BY <1>7 DEF WriteManifest, JobAt, SealInv, OfDistribution
    <2>3. new.patched => Sealed(new.tree)
      BY <1>0, <2>1 DEF SealInv, PatchedSealed
    <2> HIDE DEF new
    <2> QED BY <2>1, <2>2, <2>3, OutputKeeps
  <1>8. CASE BuildMacosInstaller \/ BuildWindowsInstaller
    <2>1. PICK kind \in Installers : StartInstaller(kind)
      BY <1>8, BuildAssumption DEF BuildMacosInstaller, BuildWindowsInstaller
    <2> QED BY <2>1, StartKeeps DEF StartInstaller
  <1>9. CASE RemovePackage
    BY <1>9, PackageKeeps DEF RemovePackage, JobAt
  <1>10. CASE RemoveArchive
    BY <1>10, RemoveArchiveKeeps
  <1>11. CASE PackDistribution
    BY <1>11, PackageKeeps DEF PackDistribution, JobAt
  <1>12. CASE CreateZipArchive
    BY <1>12, ArchiveKeeps
  <1>13. CASE WriteChecksum \/ JobStops \/ JobRefused
    <2>1. /\ builder' = [at |-> "idle", kind |-> "none", rest |-> {}]
          /\ UNCHANGED <<contract, output, packages, made>>
      BY <1>13 DEF WriteChecksum, JobStops, JobRefused, JobEnds, NoJob
    <2> QED BY <2>1, UncheckedKeeps
  <1>14. CASE BuildGithubUpdateFeed \/ UploadFeed \/ \E v \in Versions : UploadArchive(v)
    BY <1>14, SealInvKept DEF BuildGithubUpdateFeed, UploadFeed, UploadArchive, sealVars
  <1>15. CASE \/ \E skip \in BOOLEAN : VerifyDistribution(skip)
              \/ VerifyMacosInstaller \/ VerifyWindowsInstaller
    <2>1. \E kind : Verify(kind)
      BY <1>15 DEF VerifyDistribution, VerifyMacosInstaller, VerifyWindowsInstaller
    <2> QED BY <2>1, SealInvKept DEF Verify, sealVars
  <1>16. CASE RaiseContract
    <2>1. /\ contract' = Newest /\ Newest \in Versions /\ builder.at = "idle"
          /\ UNCHANGED <<stage, output, packages, made, builder>>
      BY <1>16, BuildAssumption DEF RaiseContract, JobAt
    <2>2. Shaped' /\ PatchedSealed' /\ SealedTrees'
      BY <2>1 DEF SealInv, Shaped, Record, PatchedSealed, SealedTrees, Sealed
    <2>3. /\ OfDistribution' /\ StageSealed' /\ OutputSealed' /\ OutputPatched'
          /\ PackageSealed'
      BY <2>1 DEF OfDistribution, StageSealed, OutputSealed, OutputPatched, PackageSealed
    <2> QED BY <2>2, <2>3 DEF SealInv
  <1> QED
    BY <1>1, <1>2, <1>3, <1>4, <1>5, <1>6, <1>7, <1>8, <1>9, <1>10, <1>11, <1>12, <1>13,
       <1>14, <1>15, <1>16 DEF BuildStep

(***************************************************************************)
(* The installers and the updaters: they move the source, and no tree that     *)
(* was checked.                                                                *)
(***************************************************************************)

\* Installers and updaters leave the builds alone.
LEMMA OthersKeep ==
    ASSUME SealInv,
           \/ InstallerStep
           \/ \E u \in Updaters : LaunchUpdater(u) \/ UpdateProceeds(u) \/ CrashUpdate(u)
    PROVE  SealInv'
  <1>1. CASE InstallerStep
    BY <1>1, SealInvKept DEF InstallerStep, SameBuild, buildVars, sealVars
  <1>2. ASSUME NEW u \in Updaters, LaunchUpdater(u) PROVE SealInv'
    BY <1>2, SealInvKept DEF LaunchUpdater, sealVars
  <1>3. ASSUME NEW u \in Updaters, UpdateProceeds(u) \/ CrashUpdate(u) PROVE SealInv'
    <2>1. SameBuild
      BY <1>3 DEF UpdateProceeds, CrashUpdate, UpdateStatus, SkipUpdate, AcquireUpdateLock,
                  RefuseUpdate, AcquireUpdateLockFails, DownloadFile, DownloadRefused,
                  RemoveRelease, PlaceRelease, PlaceRefused, PointCurrent,
                  WriteUpdateReceipt, UpdateFails, FinishUpdate, FinishFails, SetDisk
    <2> QED BY <2>1, SealInvKept DEF SameBuild, buildVars, sealVars
  <1> QED BY <1>1, <1>2, <1>3

\* Every archive is the code of one release (prepareFreshRuntimeStage,
\* verifyFreshRuntimeStage, buildDistribution and the installer builds), wherever
\* installers and updaters move the current pointer meanwhile, and whatever an
\* earlier job that stopped has left behind.
THEOREM SealedTreesHold == ReleaseSpec => []SealedTrees
  <1>1. SealInv /\ [ReleaseNext]_releaseVars => SealInv'
    <2> SUFFICES ASSUME SealInv, [ReleaseNext]_releaseVars PROVE SealInv'
      OBVIOUS
    <2>1. CASE UNCHANGED releaseVars
      BY <2>1, SealInvKept DEF releaseVars, buildVars, sealVars
    <2> QED BY <2>1, BuildKeeps, OthersKeep DEF ReleaseNext
  <1>2. SealInv => SealedTrees
    BY DEF SealInv
  <1> QED BY <1>1, <1>2, SealInvInit, PTL DEF ReleaseSpec

(***************************************************************************)
(* The feed: what is known of the checksum beside an archive.                  *)
(***************************************************************************)

\* Archives whose job came to the checksum, or that were verified since.
Trusted(name) == name \notin interrupted \/ name \in verified

ChecksumsTrue ==
    \A name \in Kinds \X Versions :
        archives[name] # 0 /\ sidecars[name] # 0 /\ Trusted(name) =>
            sidecars[name] = archives[name]

FilesShaped ==
    /\ archives = [name \in Kinds \X Versions |-> archives[name]]
    /\ sidecars = [name \in Kinds \X Versions |-> sidecars[name]]

OfKind == builder.at = "checksum" => builder.kind \in Kinds

FeedInv == FilesShaped /\ OfKind /\ ChecksumsTrue /\ FeedTrue

feedVars == <<archives, sidecars, feed, verified, interrupted>>

\* The invariant of feeds reads only archives, checksums and feeds.
LEMMA FeedInvKept ==
    ASSUME FeedInv, UNCHANGED feedVars, builder' = builder \/ builder'.at # "checksum"
    PROVE  FeedInv'
  <1>1. FilesShaped' /\ OfKind'
    BY DEF FeedInv, FilesShaped, OfKind, feedVars
  <1>2. ChecksumsTrue'
    BY DEF FeedInv, ChecksumsTrue, Trusted, feedVars
  <1>3. FeedTrue'
    BY DEF FeedInv, FeedTrue, feedVars
  <1> QED BY <1>1, <1>2, <1>3 DEF FeedInv

\* At the start there is neither an archive nor a feed.
LEMMA FeedInvInit == ReleaseInit => FeedInv
  <1> SUFFICES ASSUME ReleaseInit PROVE FeedInv
    OBVIOUS
  <1>1. FilesShaped /\ OfKind
    BY DEF ReleaseInit, BuildInit, FilesShaped, OfKind, NoJob
  <1>2. ChecksumsTrue
    BY DEF ReleaseInit, BuildInit, ChecksumsTrue
  <1>3. FeedTrue
    BY DEF ReleaseInit, BuildInit, FeedTrue
  <1> QED BY <1>1, <1>2, <1>3 DEF FeedInv

\* A zip that is removed, by its job or by the fault that ends it.
LEMMA ZipRemoved ==
    ASSUME FeedInv, NEW gone \in Kinds \X Versions,
           archives' = [archives EXCEPT ![gone] = 0],
           UNCHANGED <<sidecars, feed, verified, interrupted>>,
           builder'.at # "checksum"
    PROVE  FeedInv'
  <1>1. FilesShaped' /\ OfKind'
    BY DEF FeedInv, FilesShaped, OfKind
  <1>2. ASSUME NEW name \in Kinds \X Versions, archives'[name] # 0
        PROVE  archives'[name] = archives[name]
    BY <1>2 DEF FeedInv, FilesShaped
  <1>3. ChecksumsTrue'
    BY <1>2 DEF FeedInv, ChecksumsTrue, Trusted
  <1>4. FeedTrue'
    BY DEF FeedInv, FeedTrue
  <1> QED BY <1>1, <1>3, <1>4 DEF FeedInv

\* The zip of the job under way.
LEMMA JobArchive ==
    ASSUME SealInv, FeedInv, builder.at \in {"remove", "archive", "checksum"}
    PROVE  ArchiveOf(builder.kind) \in Kinds \X Versions
  <1>1. contract \in Versions
    BY DEF SealInv, Shaped
  <1>2. builder.kind \in Kinds
    BY Kinds3 DEF SealInv, OutputPatched, PackageSealed, FeedInv, OfKind
  <1> QED BY <1>1, <1>2 DEF ArchiveOf

\* The new zip has no checksum yet: it is trusted no more.
LEMMA ZipCreated ==
    ASSUME SealInv, FeedInv, CreateZipArchive
    PROVE  FeedInv'
  <1> DEFINE new == ArchiveOf(builder.kind)
  <1>0. new \in Kinds \X Versions
    BY JobArchive DEF CreateZipArchive, JobAt
  <1>1. /\ archives' = [archives EXCEPT ![new] = NextArchive]
        /\ interrupted' = interrupted \cup {new}
        /\ verified' = verified \ {new}
        /\ UNCHANGED <<sidecars, feed>>
        /\ builder'.kind = builder.kind
    BY DEF CreateZipArchive, GoOn, SealInv, Shaped
  <1> HIDE DEF new
  <1>2. FilesShaped'
    BY <1>1 DEF FeedInv, FilesShaped
  <1>3. OfKind'
    BY <1>0, <1>1 DEF OfKind, new, ArchiveOf
  <1>4. ASSUME NEW name \in Kinds \X Versions, Trusted(name)'
        PROVE  archives'[name] = archives[name] /\ Trusted(name)
    BY <1>1, <1>4 DEF FeedInv, FilesShaped, Trusted
  <1>5. ChecksumsTrue'
    BY <1>1, <1>4 DEF FeedInv, ChecksumsTrue
  <1>6. FeedTrue'
    BY <1>1 DEF FeedInv, FeedTrue
  <1> QED BY <1>2, <1>3, <1>5, <1>6 DEF FeedInv

\* The checksum is of the zip as it is.
LEMMA ChecksumWritten ==
    ASSUME SealInv, FeedInv, WriteChecksum
    PROVE  FeedInv'
  <1> DEFINE new == ArchiveOf(builder.kind)
  <1>0. new \in Kinds \X Versions
    BY JobArchive DEF WriteChecksum, JobAt
  <1>1. /\ sidecars' = [sidecars EXCEPT ![new] = archives[new]]
        /\ interrupted' = interrupted \ {new}
        /\ UNCHANGED <<archives, feed, verified>>
        /\ builder'.at = "idle"
    BY DEF WriteChecksum, Checksum, JobEnds, NoJob
  <1> HIDE DEF new
  <1>2. FilesShaped' /\ OfKind'
    BY <1>1 DEF FeedInv, FilesShaped, OfKind
  <1>3. sidecars'[new] = archives'[new]
    BY <1>0, <1>1 DEF FeedInv, FilesShaped
  <1>4. ASSUME NEW name \in Kinds \X Versions, name # new, Trusted(name)'
        PROVE  sidecars'[name] = sidecars[name] /\ Trusted(name)
    BY <1>1, <1>4 DEF FeedInv, FilesShaped, Trusted
  <1>5. ChecksumsTrue'
    BY <1>1, <1>3, <1>4 DEF FeedInv, ChecksumsTrue
  <1>6. FeedTrue'
    BY <1>1 DEF FeedInv, FeedTrue
  <1> QED BY <1>2, <1>5, <1>6 DEF FeedInv

\* Only a zip whose checksum holds becomes a verified one.
LEMMA ZipVerified ==
    ASSUME FeedInv, NEW kind, Verify(kind)
    PROVE  FeedInv'
  <1>1. /\ verified' = verified \cup {ArchiveOf(kind)}
        /\ sidecars[ArchiveOf(kind)] = archives[ArchiveOf(kind)]
        /\ UNCHANGED <<archives, sidecars, feed, interrupted, builder>>
    BY DEF Verify, ChecksumHolds
  <1>2. FilesShaped' /\ OfKind' /\ FeedTrue'
    BY <1>1 DEF FeedInv, FilesShaped, OfKind, FeedTrue
  <1>3. ChecksumsTrue'
    BY <1>1 DEF FeedInv, ChecksumsTrue, Trusted
  <1> QED BY <1>2, <1>3 DEF FeedInv

\* The feed is built of trusted zips and of those it says it is unsure of.
LEMMA FeedBuilt ==
    ASSUME SealInv, FeedInv, BuildGithubUpdateFeed
    PROVE  FeedInv'
  <1>1. feed' = BuildGpaoTUpdateFeed
        /\ UNCHANGED <<archives, sidecars, verified, interrupted, builder>>
    BY DEF BuildGithubUpdateFeed
  <1>2. FilesShaped' /\ OfKind' /\ ChecksumsTrue'
    BY <1>1 DEF FeedInv, FilesShaped, OfKind, ChecksumsTrue, Trusted
  <1>3. ASSUME NEW k \in Offered, Trusted(ArchiveOf(k))
        PROVE  Sha256FromSidecar(ArchiveOf(k)) = archives[k, contract]
    <2>1. ArchiveOf(k) \in Kinds \X Versions /\ archives[ArchiveOf(k)] # 0
      BY DEF ArchiveOf, Offered, SealInv, Shaped
    <2>2. CASE sidecars[ArchiveOf(k)] = 0
      BY <2>2 DEF Sha256FromSidecar, ArchiveOf
    <2>3. CASE sidecars[ArchiveOf(k)] # 0
      <3>1. sidecars[ArchiveOf(k)] = archives[ArchiveOf(k)]
        BY <1>3, <2>1, <2>3 DEF FeedInv, ChecksumsTrue
      <3> QED BY <2>3, <3>1 DEF Sha256FromSidecar, ArchiveOf
    <2> QED BY <2>2, <2>3
  <1>4. ASSUME NEW k \in DOMAIN feed'.sha256 \ feed'.unsure
        PROVE  feed'.sha256[k] = feed'.was[k]
    <2>1. k \in Offered /\ Trusted(ArchiveOf(k))
      BY <1>1, <1>4 DEF BuildGpaoTUpdateFeed, Trusted
    <2>2. feed'.sha256[k] = Sha256FromSidecar(ArchiveOf(k))
          /\ feed'.was[k] = archives[k, contract]
      BY <1>1, <2>1 DEF BuildGpaoTUpdateFeed
    <2> QED BY <1>3, <2>1, <2>2
  <1>5. FeedTrue'
    BY <1>4 DEF FeedTrue
  <1> QED BY <1>2, <1>5 DEF FeedInv

\* A job that stops leaves every file it had written.
LEMMA JobStopKeeps ==
    ASSUME SealInv, FeedInv, JobStops
    PROVE  FeedInv'
  <1>1. builder'.at = "idle" /\ UNCHANGED <<sidecars, feed, verified, interrupted>>
    BY DEF JobStops, JobEnds, NoJob
  <1>2. CASE archives' = archives
    BY <1>1, <1>2, FeedInvKept DEF feedVars
  <1>3. CASE archives' # archives
    <2>1. builder.at = "archive"
          /\ archives' = [archives EXCEPT ![ArchiveOf(builder.kind)] = 0]
      BY <1>3 DEF JobStops, JobAt
    <2> QED BY <1>1, <2>1, JobArchive, ZipRemoved
  <1> QED BY <1>2, <1>3

\* Every step of a build keeps what feeds say true.
LEMMA BuildKeepsFeed ==
    ASSUME SealInv, FeedInv, BuildStep
    PROVE  FeedInv'
  <1>0. builder = [at |-> builder.at, kind |-> builder.kind, rest |-> builder.rest]
    BY DEF SealInv, Shaped
  <1>1. CASE StartDistribution \/ BuildMacosInstaller \/ BuildWindowsInstaller
    <2>1. \/ \E step \in {"stage", "seal"}, rest \in {Entries, {}} :
                StartJob(Distribution, step, rest)
          \/ \E kind \in {Macos, Windows} : StartJob(kind, "unpack", {})
      BY <1>1 DEF StartDistribution, BuildMacosInstaller, BuildWindowsInstaller, StartInstaller
    <2>2. UNCHANGED feedVars /\ builder'.at # "checksum"
      BY <2>1 DEF StartJob, feedVars
    <2> QED BY <2>2, FeedInvKept
  <1>2. CASE \E e \in Entries : CopyStageEntry(e)
    BY <1>0, <1>2, FeedInvKept DEF CopyStageEntry, feedVars
  <1>3. CASE VerifyFreshRuntimeStage
    BY <1>0, <1>3, FeedInvKept DEF VerifyFreshRuntimeStage, GoOn, feedVars
  <1>4. CASE RemoveOutput \/ CopyStage \/ PatchDistributionUserSurface \/ WriteManifest
    <2>1. PICK step \in {"fill", "patch", "manifest", "archive"} : \E value : SetOutput(step, value)
      BY <1>4 DEF RemoveOutput, CopyStage, PatchDistributionUserSurface, WriteManifest
    <2> QED BY <1>0, <2>1, FeedInvKept DEF SetOutput, GoOn, feedVars
  <1>5. CASE RemovePackage \/ PackDistribution
    <2>1. PICK step \in {"remove", "archive"} : GoOn(step) /\ \E tree : SetPackage(tree)
      BY <1>5 DEF RemovePackage, PackDistribution
    <2> QED BY <1>0, <2>1, FeedInvKept DEF GoOn, SetPackage, feedVars
  <1>6. CASE RemoveArchive
    <2>1. /\ builder.at = "remove" /\ builder'.at = "pack"
          /\ archives' = [archives EXCEPT ![ArchiveOf(builder.kind)] = 0]
          /\ UNCHANGED <<sidecars, feed, verified, interrupted>>
      BY <1>0, <1>6 DEF RemoveArchive, JobAt, GoOn, ArchiveOf
    <2> QED BY <2>1, JobArchive, ZipRemoved
  <1>7. CASE CreateZipArchive
    BY <1>7, ZipCreated
  <1>8. CASE WriteChecksum
    BY <1>8, ChecksumWritten
  <1>9. CASE JobStops
    BY <1>9, JobStopKeeps
  <1>10. CASE JobRefused
    BY <1>10, FeedInvKept DEF JobRefused, JobEnds, NoJob, feedVars
  <1>11. CASE BuildGithubUpdateFeed
    BY <1>11, FeedBuilt
  <1>12. CASE \/ \E skip \in BOOLEAN : VerifyDistribution(skip)
              \/ VerifyMacosInstaller \/ VerifyWindowsInstaller
    <2>1. \E kind : Verify(kind)
      BY <1>12 DEF VerifyDistribution, VerifyMacosInstaller, VerifyWindowsInstaller
    <2> QED BY <2>1, ZipVerified
  <1>13. CASE RaiseContract \/ UploadFeed \/ \E v \in Versions : UploadArchive(v)
    BY <1>13, FeedInvKept DEF RaiseContract, UploadFeed, UploadArchive, feedVars
  <1> QED
    BY <1>1, <1>2, <1>3, <1>4, <1>5, <1>6, <1>7, <1>8, <1>9, <1>10, <1>11, <1>12, <1>13
    DEF BuildStep

\* Installers and updaters serve no feed.
LEMMA OthersKeepFeed ==
    ASSUME FeedInv,
           \/ InstallerStep
           \/ \E u \in Updaters : LaunchUpdater(u) \/ UpdateProceeds(u) \/ CrashUpdate(u)
    PROVE  FeedInv'
  <1>1. CASE InstallerStep
    BY <1>1, FeedInvKept DEF InstallerStep, SameBuild, buildVars, feedVars
  <1>2. ASSUME NEW u \in Updaters, LaunchUpdater(u) PROVE FeedInv'
    BY <1>2, FeedInvKept DEF LaunchUpdater, feedVars
  <1>3. ASSUME NEW u \in Updaters, UpdateProceeds(u) \/ CrashUpdate(u) PROVE FeedInv'
    <2>1. SameBuild
      BY <1>3 DEF UpdateProceeds, CrashUpdate, UpdateStatus, SkipUpdate, AcquireUpdateLock,
                  RefuseUpdate, AcquireUpdateLockFails, DownloadFile, DownloadRefused,
                  RemoveRelease, PlaceRelease, PlaceRefused, PointCurrent,
                  WriteUpdateReceipt, UpdateFails, FinishUpdate, FinishFails, SetDisk
    <2> QED BY <2>1, FeedInvKept DEF SameBuild, buildVars, feedVars
  <1> QED BY <1>1, <1>2, <1>3

\* The feed that is built promises each archive by the hash it has
\* (buildGpaoTUpdateFeed, sha256FromSidecar), however jobs that stopped have left
\* archives without a checksum and checksums without an archive, unless it is of one
\* that was never given its checksum nor verified.
THEOREM FeedTrueHolds == ReleaseSpec => []FeedTrue
  <1> DEFINE Both == SealInv /\ FeedInv
  <1>1. Both /\ [ReleaseNext]_releaseVars => Both'
    <2> SUFFICES ASSUME SealInv, FeedInv, [ReleaseNext]_releaseVars
                 PROVE  SealInv' /\ FeedInv'
      OBVIOUS
    <2>1. CASE UNCHANGED releaseVars
      <3>1. UNCHANGED sealVars /\ UNCHANGED feedVars /\ builder' = builder
        BY <2>1 DEF releaseVars, buildVars, sealVars, feedVars
      <3> QED BY <3>1, SealInvKept, FeedInvKept
    <2>2. CASE BuildStep
      BY <2>2, BuildKeeps, BuildKeepsFeed
    <2>3. CASE \/ InstallerStep
               \/ \E u \in Updaters : LaunchUpdater(u) \/ UpdateProceeds(u) \/ CrashUpdate(u)
      BY <2>3, OthersKeep, OthersKeepFeed
    <2> QED BY <2>1, <2>2, <2>3 DEF ReleaseNext
  <1>2. ReleaseInit => Both
    BY SealInvInit, FeedInvInit
  <1>3. Both => FeedTrue
    BY DEF FeedInv
  <1> HIDE DEF Both
  <1> QED BY <1>1, <1>2, <1>3, PTL DEF ReleaseSpec

(***************************************************************************)
(* Where the content of a release comes from: an operation of the installer,    *)
(* or an archive that a feed named for that release when it was served.          *)
(***************************************************************************)

Sound(v, n, feeds) ==
    \/ n \in 0 .. MaxOps
    \/ \E f \in feeds : f.version = v /\ f.sha256[Distribution] = n

FilesSound(files, feeds) ==
    \A v \in Versions \cap DOMAIN files : \A n \in files[v] : Sound(v, n, feeds)

OperationFields == {"kind", "id", "version", "migrate", "before", "plan", "own", "wasLoaded",
                    "started", "restarted", "result"}

\* What an operation holds, and what it goes on to write back.
OperationSound(step, o, rest, feeds) ==
    /\ DOMAIN o = OperationFields
    /\ o.id \in 0 .. MaxOps
    /\ step # "idle" => o.kind \in {"install", "rollback"}
    /\ FilesSound(o.plan.files, feeds) /\ FilesSound(o.own.files, feeds)
    /\ step = "restore" => rest \subseteq DOMAIN Restored(o).files
    /\ step = "unwind" => o.result = "failed"
    /\ step \notin {"idle", "unwind", "restore", "restart", "release"} => o.result # "failed"

\* An update downloads what the feed named that it has read.
UpdateFields == {"at", "running", "feed", "edition", "before", "mixed", "result"}
UpdateSound(o, feeds) ==
    /\ DOMAIN o = UpdateFields
    /\ o.at \notin {"idle", "feed"} => o.feed \in feeds
    /\ o.at \in {"remove", "place", "point"} => o.edition = o.feed.sha256[Distribution]

ArchivesNumbered ==
    IsFiniteSet(DOMAIN made) /\ \A n \in DOMAIN made : n \in Nat /\ n > MaxOps

DiskSound ==
    /\ DOMAIN disk = Paths /\ FilesSound(disk, offered)
    /\ \A s \in snapshots : FilesSound(s.files, offered)

OperationsSound ==
    /\ ops \in Nat /\ ops <= MaxOps
    /\ DOMAIN pc = Actors /\ DOMAIN op = Actors /\ DOMAIN todo = Actors
    /\ \A a \in Actors : OperationSound(pc[a], op[a], todo[a], offered)

UpdatesSound ==
    /\ latest \in offered \cup {NoFeed}
    /\ DOMAIN upd = Updaters
    /\ \A u \in Updaters : UpdateSound(upd[u], offered)

VouchInv == ArchivesNumbered /\ DiskSound /\ OperationsSound /\ UpdatesSound

\* Feeds that were served stay served.
LEMMA MoreFeeds ==
    ASSUME NEW feeds, NEW more, feeds \subseteq more
    PROVE  /\ \A files : FilesSound(files, feeds) => FilesSound(files, more)
           /\ \A step, o, rest :
                OperationSound(step, o, rest, feeds) => OperationSound(step, o, rest, more)
           /\ \A o : UpdateSound(o, feeds) => UpdateSound(o, more)
  <1>1. \A files : FilesSound(files, feeds) => FilesSound(files, more)
    BY DEF FilesSound, Sound
  <1>2. \A step, o, rest :
            OperationSound(step, o, rest, feeds) => OperationSound(step, o, rest, more)
    BY <1>1 DEF OperationSound
  <1>3. \A o : UpdateSound(o, feeds) => UpdateSound(o, more)
    BY DEF UpdateSound
  <1> QED BY <1>1, <1>2, <1>3

\* A target that is written.
LEMMA WrittenSound ==
    ASSUME DiskSound, NEW t, NEW content, NEW files,
           files = [disk EXCEPT ![t] = content],
           t \in Versions => \A n \in content : Sound(t, n, offered)
    PROVE  DOMAIN files = Paths /\ FilesSound(files, offered)
  BY DEF DiskSound, FilesSound

\* A release that is removed holds nothing.
LEMMA RemovedSound ==
    ASSUME DiskSound, NEW t
    PROVE  DOMAIN Removed(t) = Paths /\ FilesSound(Removed(t), offered)
  BY DEF DiskSound, FilesSound, Removed

\* So does one that was cut short.
LEMMA CutShortSound ==
    ASSUME DiskSound, NEW a, NEW t, CutShort(a, t)
    PROVE  DOMAIN disk' = Paths /\ FilesSound(disk', offered)
  <1>1. disk' = disk \/ disk' = Removed(t)
    BY DEF CutShort
  <1> QED BY <1>1, RemovedSound DEF DiskSound

(***************************************************************************)
(* The installer.                                                              *)
(***************************************************************************)

\* What a step of the installer does to the invariant.
MovesSoundly(a) ==
    /\ DOMAIN disk' = Paths /\ FilesSound(disk', offered)
    /\ \A s \in snapshots' : FilesSound(s.files, offered)
    /\ ops' \in Nat /\ ops' <= MaxOps
    /\ \E step, o, rest : Go(a, step, o, rest) /\ OperationSound(step, o, rest, offered)

\* The bounds are numbers.
LEMMA NumbersAreNumbers == MaxOps \in Nat /\ MaxWrites \in Nat
  BY InstallerAssumption

\* A process at rest holds nothing.
LEMMA IdleSound == OperationSound("idle", NoOp, {}, offered)
  BY NumbersAreNumbers
  DEF OperationSound, OperationFields, NoOp, NoSnapshot, FilesSound

\* An operation begins with what the disk or a snapshot held.
LEMMA BeginSound ==
    ASSUME DiskSound, OperationsSound, NEW a \in Actors, Begin(a)
    PROVE  MovesSoundly(a)
  <1>0. ops \in Nat /\ MaxOps \in Nat
    BY NumbersAreNumbers DEF OperationsSound
  <1>1. ASSUME NEW o, StartOp(a, o), DOMAIN o = OperationFields, o.id = ops + 1,
               o.kind \in {"install", "rollback"},
               FilesSound(o.plan.files, offered), FilesSound(o.own.files, offered),
               o.result # "failed"
        PROVE  MovesSoundly(a)
    <2>1. /\ disk' = disk /\ snapshots' = snapshots /\ ops' = ops + 1 /\ ops < MaxOps
          /\ Go(a, "planned", o, {})
      BY <1>1 DEF StartOp
    <2>2. OperationSound("planned", o, {}, offered)
      BY <1>0, <1>1, <2>1 DEF OperationSound
    <2>3. ops' \in Nat /\ ops' <= MaxOps
      BY <1>0, <2>1
    <2> QED BY <2>1, <2>2, <2>3 DEF MovesSoundly, DiskSound
  <1>2. FilesSound(NoSnapshot.files, offered)
    BY DEF NoSnapshot, FilesSound
  <1>3. ASSUME NEW install \in Installs, CheckInstall(a, install) PROVE MovesSoundly(a)
    <2> DEFINE o == [NoOp EXCEPT !.kind = "install", !.id = ops + 1,
                       !.version = install.version, !.migrate = install.migrate]
    <2>1. /\ DOMAIN o = OperationFields /\ o.id = ops + 1 /\ o.plan = NoSnapshot
          /\ o.own = NoSnapshot /\ o.result = "open" /\ o.kind \in {"install", "rollback"}
      BY DEF NoOp, OperationFields
    <2>2. StartOp(a, o)
      BY <1>3 DEF CheckInstall
    <2> HIDE DEF o
    <2> QED BY <1>1, <1>2, <2>1, <2>2
  <1>4. ASSUME NEW s \in snapshots, PlanRollback(a, s) PROVE MovesSoundly(a)
    <2> DEFINE o == [NoOp EXCEPT !.kind = "rollback", !.id = ops + 1, !.plan = s]
    <2>1. /\ DOMAIN o = OperationFields /\ o.id = ops + 1 /\ o.plan = s
          /\ o.own = NoSnapshot /\ o.result = "open" /\ o.kind \in {"install", "rollback"}
      BY DEF NoOp, OperationFields
    <2>2. StartOp(a, o)
      BY <1>4 DEF PlanRollback
    <2>3. FilesSound(s.files, offered)
      BY DEF DiskSound
    <2> HIDE DEF o
    <2> QED BY <1>1, <1>2, <2>1, <2>2, <2>3
  <1> QED BY <1>3, <1>4 DEF Begin

\* A step that writes no target and takes no snapshot.
LEMMA OnwardSound ==
    ASSUME DiskSound, OperationsSound, NEW a \in Actors,
           UNCHANGED <<disk, snapshots, ops>>,
           NEW step, NEW o, NEW rest, Go(a, step, o, rest),
           OperationSound(step, o, rest, offered)
    PROVE  MovesSoundly(a)
  BY DEF MovesSoundly, DiskSound, OperationsSound

\* The same operation at another step.
LEMMA SameSound ==
    ASSUME OperationsSound, NEW a \in Actors, NEW o, NEW step,
           pc[a] # "idle", o.kind = op[a].kind,
           DOMAIN o = OperationFields, o.id = op[a].id, o.plan = op[a].plan, o.own = op[a].own,
           step # "restore", step = "unwind" => o.result = "failed",
           step \in {"idle", "unwind", "restart", "release"} \/ o.result # "failed"
    PROVE  \A rest : OperationSound(step, o, rest, offered)
  <1>1. OperationSound(pc[a], op[a], todo[a], offered)
    BY DEF OperationsSound
  <1> QED BY <1>1 DEF OperationSound

\* A failed operation holds what it had taken.
LEMMA UnwindSound ==
    ASSUME OperationsSound, NEW a \in Actors, pc[a] # "idle"
    PROVE  OperationSound("unwind", [op[a] EXCEPT !.result = "failed"], {}, offered)
  <1> DEFINE o == [op[a] EXCEPT !.result = "failed"]
  <1>1. DOMAIN op[a] = OperationFields
    BY DEF OperationsSound, OperationSound
  <1>2. /\ DOMAIN o = OperationFields /\ o.id = op[a].id /\ o.plan = op[a].plan
        /\ o.own = op[a].own /\ o.result = "failed" /\ o.kind = op[a].kind
    BY <1>1 DEF OperationFields
  <1> HIDE DEF o
  <1>3. OperationSound("unwind", o, {}, offered)
    BY <1>2, SameSound
  <1> QED BY <1>3 DEF o

\* The record of a working operation with some of its fields changed.
LEMMA OperationFacts ==
    ASSUME OperationsSound, NEW a \in Actors
    PROVE  /\ DOMAIN op[a] = OperationFields /\ op[a].id \in 0 .. MaxOps
           /\ FilesSound(op[a].plan.files, offered) /\ FilesSound(op[a].own.files, offered)
           /\ OperationSound(pc[a], op[a], todo[a], offered)
  BY DEF OperationsSound, OperationSound

\* Where a step that is not an end and not a failure goes to.
ForwardSteps == {"planned", "snapshot", "replace", "bootout", "bootstrap", "health", "receipt"}

\* A step that goes on holds what it had taken.
LEMMA StillSound ==
    ASSUME OperationsSound, NEW a \in Actors, pc[a] \in ForwardSteps,
           NEW o, NEW step \in ForwardSteps \cup {"release"}, NEW rest,
           DOMAIN o = OperationFields, o.id = op[a].id, o.kind = op[a].kind,
           o.plan = op[a].plan, o.own = op[a].own,
           o.result \in {op[a].result, "done"}
    PROVE  OperationSound(step, o, rest, offered)
  <1>1. op[a].result # "failed"
    BY OperationFacts DEF OperationSound, ForwardSteps
  <1>2. o.result # "failed" /\ step # "restore" /\ step # "unwind" /\ pc[a] # "idle"
    BY <1>1 DEF ForwardSteps
  <1> QED BY <1>2, SameSound

\* A snapshot is of what the disk holds.
LEMMA SnapshotSound ==
    ASSUME DiskSound, OperationsSound, NEW a \in Actors, SnapshotTargets(a)
    PROVE  MovesSoundly(a)
  <1> DEFINE s == SnapshotOf(op[a])
             o == [op[a] EXCEPT !.own = s]
  <1>0. /\ DOMAIN op[a] = OperationFields /\ op[a].result # "failed"
        /\ op[a].id \in 0 .. MaxOps /\ FilesSound(op[a].plan.files, offered)
        /\ op[a].kind \in {"install", "rollback"}
    BY OperationFacts DEF SnapshotTargets, At, OperationSound
  <1>1. s.files = [t \in ManagedTargets(op[a]) |-> disk[t]]
    BY DEF SnapshotOf
  <1>2. FilesSound(s.files, offered)
    <2>1. \A v \in Versions : v \in DOMAIN disk
      BY DEF DiskSound, Paths
    <2> QED BY <1>1, <2>1 DEF FilesSound, DiskSound
  <1> HIDE DEF s
  <1>3. /\ DOMAIN o = OperationFields /\ o.id = op[a].id /\ o.kind = op[a].kind /\ o.plan = op[a].plan
        /\ o.own = s /\ o.result = op[a].result
    BY <1>0 DEF OperationFields
  <1>4. /\ snapshots' = snapshots \cup {s} /\ UNCHANGED <<disk, ops>>
        /\ \/ Go(a, "replace", o, ManagedTargets(o))
           \/ Go(a, "restore", o, DOMAIN o.plan.files)
    BY DEF SnapshotTargets, SameRun, s
  <1> HIDE DEF o
  <1>5. /\ OperationSound("replace", o, ManagedTargets(o), offered)
        /\ OperationSound("restore", o, DOMAIN o.plan.files, offered)
    BY <1>0, <1>2, <1>3 DEF OperationSound, Restored
  <1>6. \A x \in snapshots' : FilesSound(x.files, offered)
    BY <1>2, <1>4 DEF DiskSound
  <1> QED BY <1>4, <1>5, <1>6 DEF MovesSoundly, DiskSound, OperationsSound

\* What an installer puts in place is of its own operation.
LEMMA ReplaceSound ==
    ASSUME DiskSound, OperationsSound, NEW a \in Actors, NEW t \in todo[a],
           ReplaceWithStaged(a, t)
    PROVE  MovesSoundly(a)
  <1>1. /\ disk' = [disk EXCEPT ![t] = Staged(op[a], t)]
        /\ UNCHANGED <<snapshots, ops>> /\ pc[a] = "replace"
        /\ \E step \in {"bootout", "replace"} : Go(a, step, op[a], todo[a] \ {t})
    BY DEF ReplaceWithStaged, SameRun, At
  <1>2. t \in Versions => t # "current"
    BY InstallerAssumption DEF Fixed
  <1>3. t \in Versions => \A n \in Staged(op[a], t) : Sound(t, n, offered)
    BY <1>2, OperationFacts DEF Staged, Sound
  <1>4. DOMAIN disk' = Paths /\ FilesSound(disk', offered)
    BY <1>1, <1>3 DEF DiskSound, FilesSound
  <1>5. \A step \in {"bootout", "replace"} :
            OperationSound(step, op[a], todo[a] \ {t}, offered)
    BY <1>1, OperationFacts, StillSound DEF ForwardSteps
  <1> QED BY <1>1, <1>4, <1>5 DEF MovesSoundly, DiskSound, OperationsSound

\* So every step of an operation on its way forward is sound.
LEMMA ForwardSound ==
    ASSUME DiskSound, OperationsSound, NEW a \in Actors, Forward(a)
    PROVE  MovesSoundly(a)
  <1> DEFINE failing == [op[a] EXCEPT !.result = "failed"]
  <1>0. /\ DOMAIN op[a] = OperationFields
        /\ pc[a] # "idle" => OperationSound("unwind", failing, {}, offered)
        /\ OperationSound("idle", NoOp, {}, offered)
        /\ OperationSound(pc[a], op[a], todo[a], offered)
    BY OperationFacts, UnwindSound, IdleSound
  <1>1. ASSUME UNCHANGED <<disk, snapshots, ops>>, Unwind(a), pc[a] # "idle" PROVE MovesSoundly(a)
    BY <1>0, <1>1, OnwardSound DEF Unwind
  <1>2. CASE AcquireLock(a)
    <2> DEFINE o == [op[a] EXCEPT !.before = disk, !.wasLoaded = loaded]
    <2>1. /\ DOMAIN o = OperationFields /\ o.id = op[a].id /\ o.kind = op[a].kind /\ o.plan = op[a].plan
          /\ o.own = op[a].own /\ o.result = op[a].result
      BY <1>0 DEF OperationFields
    <2>2. /\ UNCHANGED <<disk, snapshots, ops>> /\ pc[a] = "planned"
          /\ \E step \in {"snapshot", "bootout"} : Go(a, step, o, {})
      BY <1>2 DEF AcquireLock, FirstStep, At
    <2> HIDE DEF o
    <2>3. \A step \in {"snapshot", "bootout"} : OperationSound(step, o, {}, offered)
      BY <2>1, <2>2, StillSound DEF ForwardSteps
    <2> QED BY <2>2, <2>3, OnwardSound
  <1>3. CASE Refused(a) \/ AcquireFails(a)
    <2>1. UNCHANGED <<disk, snapshots, ops>> /\ Go(a, "idle", NoOp, {})
      BY <1>3 DEF Refused, AcquireFails, counts
    <2> QED BY <1>0, <2>1, OnwardSound
  <1>4. CASE SnapshotTargets(a)
    BY <1>4, SnapshotSound
  <1>5. ASSUME NEW t \in todo[a], ReplaceWithStaged(a, t) PROVE MovesSoundly(a)
    BY <1>5, ReplaceSound
  <1>6. ASSUME NEW t \in todo[a], ReplaceFails(a, t) PROVE MovesSoundly(a)
    <2>1. DOMAIN disk' = Paths /\ FilesSound(disk', offered)
      BY <1>6, CutShortSound DEF ReplaceFails
    <2>2. UNCHANGED <<snapshots, ops>> /\ Go(a, "unwind", failing, {}) /\ pc[a] # "idle"
      BY <1>6 DEF ReplaceFails, SameRun, Unwind, At
    <2> QED BY <1>0, <2>1, <2>2 DEF MovesSoundly, DiskSound, OperationsSound
  <1>7. CASE BootoutService(a)
    <2> DEFINE o == [op[a] EXCEPT !.started = FALSE]
    <2>1. /\ DOMAIN o = OperationFields /\ o.id = op[a].id /\ o.kind = op[a].kind /\ o.plan = op[a].plan
          /\ o.own = op[a].own /\ o.result = op[a].result
      BY <1>0 DEF OperationFields
    <2>2. /\ UNCHANGED <<disk, snapshots, ops>> /\ pc[a] = "bootout"
          /\ \E step \in {"bootstrap", "snapshot"} : Go(a, step, o, {})
      BY <1>7 DEF BootoutService, SameFiles, SameRun, At
    <2> HIDE DEF o
    <2>3. \A step \in {"bootstrap", "snapshot"} : OperationSound(step, o, {}, offered)
      BY <2>1, <2>2, StillSound DEF ForwardSteps
    <2> QED BY <2>2, <2>3, OnwardSound
  <1>8. CASE BootoutFails(a) \/ BootstrapFails(a) \/ HealthCheckFails(a) \/ StepFails(a)
    BY <1>1, <1>8 DEF BootoutFails, BootstrapFails, HealthCheckFails, StepFails,
                      SameFiles, SameRun, At
  <1>9. CASE BootstrapService(a)
    <2> DEFINE o == [op[a] EXCEPT !.started = TRUE]
    <2>1. /\ DOMAIN o = OperationFields /\ o.id = op[a].id /\ o.kind = op[a].kind /\ o.plan = op[a].plan
          /\ o.own = op[a].own /\ o.result = op[a].result
      BY <1>0 DEF OperationFields
    <2>2. /\ UNCHANGED <<disk, snapshots, ops>> /\ pc[a] = "bootstrap"
          /\ \E step \in {"health", "receipt"} : Go(a, step, o, {})
      BY <1>9 DEF BootstrapService, AfterBootstrap, SameFiles, SameRun, At
    <2> HIDE DEF o
    <2>3. \A step \in {"health", "receipt"} : OperationSound(step, o, {}, offered)
      BY <2>1, <2>2, StillSound DEF ForwardSteps
    <2> QED BY <2>2, <2>3, OnwardSound
  <1>10. CASE RestartForPeerLinks(a)
    <2> DEFINE o == [op[a] EXCEPT !.restarted = TRUE]
    <2>1. /\ DOMAIN o = OperationFields /\ o.id = op[a].id /\ o.kind = op[a].kind /\ o.plan = op[a].plan
          /\ o.own = op[a].own /\ o.result = op[a].result
      BY <1>0 DEF OperationFields
    <2>2. /\ UNCHANGED <<disk, snapshots, ops>> /\ pc[a] = "health"
          /\ Go(a, "bootout", o, {})
      BY <1>10 DEF RestartForPeerLinks, SameFiles, SameRun, At
    <2> HIDE DEF o
    <2>3. OperationSound("bootout", o, {}, offered)
      BY <2>1, <2>2, StillSound DEF ForwardSteps
    <2> QED BY <2>2, <2>3, OnwardSound
  <1>11. CASE HealthCheck(a)
    <2>1. /\ UNCHANGED <<disk, snapshots, ops>> /\ pc[a] = "health"
          /\ Go(a, "receipt", op[a], {})
      BY <1>11 DEF HealthCheck, SameFiles, SameRun, At
    <2>2. OperationSound("receipt", op[a], {}, offered)
      BY <1>0, <2>1, StillSound DEF ForwardSteps
    <2> QED BY <2>1, <2>2, OnwardSound
  <1>12. CASE WriteReceipt(a)
    <2> DEFINE o == [op[a] EXCEPT !.result = "done"]
    <2>1. /\ DOMAIN o = OperationFields /\ o.id = op[a].id /\ o.kind = op[a].kind /\ o.plan = op[a].plan
          /\ o.own = op[a].own /\ o.result = "done"
      BY <1>0 DEF OperationFields
    <2>2. /\ UNCHANGED <<disk, snapshots, ops>> /\ pc[a] = "receipt"
          /\ Go(a, "release", o, {})
      BY <1>12 DEF WriteReceipt, SameFiles, SameRun, At
    <2> HIDE DEF o
    <2>3. OperationSound("release", o, {}, offered)
      BY <2>1, <2>2, StillSound DEF ForwardSteps
    <2> QED BY <2>2, <2>3, OnwardSound
  <1> QED
    BY <1>2, <1>3, <1>4, <1>5, <1>6, <1>7, <1>8, <1>9, <1>10, <1>11, <1>12 DEF Forward

\* What is restored is what was taken.
LEMMA RestoreSound ==
    ASSUME DiskSound, OperationsSound, NEW a \in Actors, NEW t \in todo[a],
           RestoreSnapshot(a, t)
    PROVE  MovesSoundly(a)
  <1> DEFINE o == op[a]
             left_ == todo[a] \ {t}
  <1>1. /\ disk' = [disk EXCEPT ![t] = Restored(o).files[t]]
        /\ UNCHANGED <<snapshots, ops>> /\ pc[a] = "restore"
        /\ \E step \in {AfterRestore(o), "restore"} : Go(a, step, o, left_)
    BY DEF RestoreSnapshot, RestoredContent, SameRun, At
  <1>2. t \in DOMAIN Restored(o).files /\ FilesSound(Restored(o).files, offered)
    BY <1>1, OperationFacts DEF OperationSound, Restored
  <1>3. t \in Versions => \A n \in Restored(o).files[t] : Sound(t, n, offered)
    BY <1>2 DEF FilesSound
  <1>4. DOMAIN disk' = Paths /\ FilesSound(disk', offered)
    BY <1>1, <1>3 DEF DiskSound, FilesSound
  <1>5. OperationSound("restore", o, left_, offered)
    BY <1>1, OperationFacts DEF OperationSound
  <1>6. OperationSound(AfterRestore(o), o, left_, offered)
    BY <1>1, OperationFacts DEF OperationSound, AfterRestore
  <1> QED BY <1>1, <1>4, <1>5, <1>6 DEF MovesSoundly, DiskSound, OperationsSound

\* And every step of an operation on its way back.
LEMMA BackwardSound ==
    ASSUME DiskSound, OperationsSound, NEW a \in Actors, Backward(a)
    PROVE  MovesSoundly(a)
  <1>0. /\ DOMAIN op[a] = OperationFields
        /\ OperationSound("idle", NoOp, {}, offered)
        /\ OperationSound(pc[a], op[a], todo[a], offered)
    BY OperationFacts, IdleSound
  <1>1. CASE CatchError(a)
    <2>1. /\ UNCHANGED <<disk, snapshots, ops>> /\ pc[a] = "unwind"
          /\ Go(a, "release", op[a], {}) \/ Go(a, "restore", op[a], DOMAIN op[a].own.files)
      BY <1>1 DEF CatchError, SameFiles, SameRun, At
    <2>2. op[a].result = "failed"
      BY <1>0, <2>1 DEF OperationSound
    <2>3. /\ OperationSound("release", op[a], {}, offered)
          /\ OperationSound("restore", op[a], DOMAIN op[a].own.files, offered)
      BY <1>0, <2>1, <2>2 DEF OperationSound, Restored
    <2> QED BY <2>1, <2>3, OnwardSound
  <1>2. ASSUME NEW t \in todo[a], RestoreSnapshot(a, t) PROVE MovesSoundly(a)
    BY <1>2, RestoreSound
  <1>3. ASSUME NEW t \in todo[a], RestoreFails(a, t) PROVE MovesSoundly(a)
    <2> DEFINE broken == [op[a] EXCEPT !.result = "broken"]
    <2>1. DOMAIN disk' = Paths /\ FilesSound(disk', offered)
      BY <1>3, CutShortSound DEF RestoreFails
    <2>2. /\ UNCHANGED <<snapshots, ops>> /\ pc[a] = "restore"
          /\ \/ op[a].result = "failed" /\ Go(a, AfterRestore(op[a]), broken, {})
             \/ Go(a, "unwind", [op[a] EXCEPT !.result = "failed"], {})
      BY <1>3 DEF RestoreFails, SameRun, Unwind, At
    <2>3. /\ DOMAIN broken = OperationFields /\ broken.id = op[a].id /\ broken.kind = op[a].kind
          /\ broken.plan = op[a].plan /\ broken.own = op[a].own /\ broken.result = "broken"
      BY <1>0 DEF OperationFields
    <2> HIDE DEF broken
    <2>4. op[a].result = "failed" => OperationSound(AfterRestore(op[a]), broken, {}, offered)
      BY <1>0, <2>2, <2>3 DEF OperationSound, AfterRestore
    <2> QED BY <2>1, <2>2, <2>4, UnwindSound DEF MovesSoundly, DiskSound, OperationsSound
  <1>4. CASE RestartFromGuard(a)
    <2>1. /\ UNCHANGED <<disk, snapshots, ops>> /\ Go(a, "release", op[a], {})
          /\ pc[a] = "restart"
      BY <1>4 DEF RestartFromGuard, SameFiles, SameRun, At
    <2>2. OperationSound("release", op[a], {}, offered)
      BY <1>0, <2>1 DEF OperationSound
    <2> QED BY <2>1, <2>2, OnwardSound
  <1>5. CASE ReleaseLock(a) \/ ReleaseFails(a)
    <2>1. UNCHANGED <<disk, snapshots, ops>> /\ Go(a, "idle", NoOp, {})
      BY <1>5 DEF ReleaseLock, ReleaseFails, counts
    <2> QED BY <1>0, <2>1, OnwardSound
  <1> QED BY <1>1, <1>2, <1>3, <1>4, <1>5 DEF Backward

\* A stopped operation leaves the file it was writing whole or cut short.
LEMMA CrashSound ==
    ASSUME DiskSound, OperationsSound, NEW a \in Actors, Crash(a)
    PROVE  MovesSoundly(a)
  <1>1. UNCHANGED <<snapshots, ops>> /\ Go(a, "idle", NoOp, {})
    BY DEF Crash
  <1>2. disk' = disk \/ \E t \in todo[a] : CutShort(a, t)
    BY DEF Crash
  <1>3. DOMAIN disk' = Paths /\ FilesSound(disk', offered)
    BY <1>2, CutShortSound DEF DiskSound
  <1> QED BY <1>1, <1>3, IdleSound DEF MovesSoundly, DiskSound, OperationsSound

\* No step of the installer puts anything else in a release.
LEMMA InstallerKeepsSound ==
    ASSUME DiskSound, OperationsSound, Next, offered' = offered
    PROVE  DiskSound' /\ OperationsSound'
  <1>1. ASSUME NEW a \in Actors, MovesSoundly(a) PROVE DiskSound' /\ OperationsSound'
    <2>1. DiskSound'
      BY <1>1 DEF MovesSoundly, DiskSound
    <2>2. PICK step, o, rest : Go(a, step, o, rest) /\ OperationSound(step, o, rest, offered)
      BY <1>1 DEF MovesSoundly
    <2>3. /\ DOMAIN pc' = Actors /\ DOMAIN op' = Actors /\ DOMAIN todo' = Actors
          /\ pc'[a] = step /\ op'[a] = o /\ todo'[a] = rest
          /\ \A b \in Actors \ {a} : pc'[b] = pc[b] /\ op'[b] = op[b] /\ todo'[b] = todo[b]
      BY <2>2 DEF Go, OperationsSound
    <2>4. \A b \in Actors : OperationSound(pc'[b], op'[b], todo'[b], offered)
      BY <2>2, <2>3 DEF OperationsSound
    <2> QED BY <1>1, <2>1, <2>3, <2>4 DEF MovesSoundly, OperationsSound
  <1>2. CASE \E a \in Actors : Begin(a) \/ Proceed(a) \/ Crash(a)
    BY <1>1, <1>2, BeginSound, ForwardSound, BackwardSound, CrashSound DEF Proceed
  <1>3. CASE ServiceWrites
    <2>1. "workspace" \notin Versions
      BY InstallerAssumption DEF Fixed
    <2>2. DOMAIN disk' = Paths /\ FilesSound(disk', offered)
      BY <1>3, <2>1 DEF ServiceWrites, DiskSound, FilesSound
    <2> QED BY <1>3, <2>2 DEF ServiceWrites, DiskSound, OperationsSound
  <1>4. CASE UserStopsService
    BY <1>4 DEF UserStopsService, counts, DiskSound, OperationsSound
  <1> QED BY <1>2, <1>3, <1>4 DEF Next

(***************************************************************************)
(* The build and the publisher.                                                *)
(***************************************************************************)

\* An archive gets a number that no operation has.
LEMMA ArchiveNumber ==
    ASSUME ArchivesNumbered, CreateZipArchive
    PROVE  ArchivesNumbered'
  <1>1. DOMAIN made' = DOMAIN made \cup {NextArchive}
    BY DEF CreateZipArchive
  <1>2. NextArchive \in Nat /\ NextArchive > MaxOps
    BY NumbersAreNumbers, FS_CardinalityType DEF ArchivesNumbered, NextArchive
  <1>3. IsFiniteSet(DOMAIN made \cup {NextArchive})
    BY FS_AddElement DEF ArchivesNumbered
  <1>4. \A n \in DOMAIN made \cup {NextArchive} : n \in Nat /\ n > MaxOps
    BY <1>2 DEF ArchivesNumbered
  <1> QED BY <1>1, <1>3, <1>4 DEF ArchivesNumbered

\* The build touches no release, and the publisher only adds to what was served.
LEMMA BuildVouches ==
    ASSUME BuildStep
    PROVE  /\ UNCHANGED <<disk, snapshots, pc, op, todo, ops>>
           /\ made' = made \/ CreateZipArchive
           /\ offered \subseteq offered'
           /\ latest' \in offered' \/ latest' = latest
  <1> USE DEF Untouched, vars, counts, SameOffer
  <1>1. CASE StartDistribution \/ BuildMacosInstaller \/ BuildWindowsInstaller
    <2>1. \E kind, step, rest : StartJob(kind, step, rest)
      BY <1>1 DEF StartDistribution, BuildMacosInstaller, BuildWindowsInstaller, StartInstaller
    <2> QED BY <2>1 DEF StartJob
  <1>2. CASE (\E e \in Entries : CopyStageEntry(e)) \/ VerifyFreshRuntimeStage
    BY <1>2 DEF CopyStageEntry, VerifyFreshRuntimeStage
  <1>3. CASE RemoveOutput \/ CopyStage \/ PatchDistributionUserSurface \/ WriteManifest
    <2>1. \E step, value : SetOutput(step, value)
      BY <1>3 DEF RemoveOutput, CopyStage, PatchDistributionUserSurface, WriteManifest
    <2> QED BY <2>1 DEF SetOutput
  <1>4. CASE RemovePackage \/ PackDistribution
    <2>1. \E tree : SetPackage(tree)
      BY <1>4 DEF RemovePackage, PackDistribution
    <2> QED BY <2>1 DEF SetPackage
  <1>5. CASE RemoveArchive \/ CreateZipArchive \/ WriteChecksum
    BY <1>5 DEF RemoveArchive, CreateZipArchive, WriteChecksum
  <1>6. CASE JobStops \/ JobRefused
    BY <1>6 DEF JobStops, JobRefused
  <1>7. CASE BuildGithubUpdateFeed
    BY <1>7 DEF BuildGithubUpdateFeed
  <1>8. CASE \/ \E skip \in BOOLEAN : VerifyDistribution(skip)
             \/ VerifyMacosInstaller \/ VerifyWindowsInstaller
    <2>1. \E kind : Verify(kind)
      BY <1>8 DEF VerifyDistribution, VerifyMacosInstaller, VerifyWindowsInstaller
    <2> QED BY <2>1 DEF Verify
  <1>9. CASE RaiseContract \/ UploadFeed \/ \E v \in Versions : UploadArchive(v)
    BY <1>9 DEF RaiseContract, UploadFeed, UploadArchive
  <1> QED
    BY <1>1, <1>2, <1>3, <1>4, <1>5, <1>6, <1>7, <1>8, <1>9 DEF BuildStep

\* A build adds archives and feeds, and takes no feed back.
LEMMA BuildKeepsVouched ==
    ASSUME VouchInv, BuildStep, UNCHANGED updateVars
    PROVE  VouchInv'
  <1>1. ArchivesNumbered'
    BY BuildVouches, ArchiveNumber DEF VouchInv, ArchivesNumbered
  <1>2. /\ UNCHANGED <<disk, snapshots, pc, op, todo, ops, upd>>
        /\ latest' \in offered' \cup {NoFeed}
    BY BuildVouches DEF VouchInv, UpdatesSound, updateVars
  <1>3. /\ \A files : FilesSound(files, offered) => FilesSound(files, offered')
        /\ \A step, o, rest :
             OperationSound(step, o, rest, offered) => OperationSound(step, o, rest, offered')
        /\ \A o : UpdateSound(o, offered) => UpdateSound(o, offered')
    BY BuildVouches, MoreFeeds
  <1>4. DiskSound' /\ OperationsSound' /\ UpdatesSound'
    BY <1>2, <1>3 DEF VouchInv, DiskSound, OperationsSound, UpdatesSound
  <1> QED BY <1>1, <1>4 DEF VouchInv

(***************************************************************************)
(* The updaters.                                                               *)
(***************************************************************************)

\* A step of one update that writes what it was offered.
LEMMA UpdateMoves ==
    ASSUME VouchInv, NEW u \in Updaters, NEW o, upd' = [upd EXCEPT ![u] = o],
           UpdateSound(o, offered),
           DOMAIN disk' = Paths, FilesSound(disk', offered),
           UNCHANGED <<snapshots, pc, op, todo, ops, made, offered, latest>>
    PROVE  VouchInv'
  <1>1. DiskSound' /\ OperationsSound' /\ ArchivesNumbered'
    BY DEF VouchInv, DiskSound, OperationsSound, ArchivesNumbered
  <1>2. UpdatesSound'
    BY DEF VouchInv, UpdatesSound
  <1> QED BY <1>1, <1>2 DEF VouchInv

\* Every step of an update writes what it was offered.
LEMMA UpdaterVouches ==
    ASSUME VouchInv, NEW u \in Updaters,
           LaunchUpdater(u) \/ UpdateProceeds(u) \/ CrashUpdate(u)
    PROVE  VouchInv'
  <1> DEFINE o == upd[u]
             t == Target(u)
  <1>0. /\ DOMAIN o = UpdateFields /\ UpdateSound(o, offered)
        /\ DOMAIN disk = Paths /\ FilesSound(disk, offered) /\ DiskSound
        /\ latest \in offered \cup {NoFeed}
    BY DEF VouchInv, UpdatesSound, UpdateSound, DiskSound
  <1>1. UpdateSound(NoUpdate, offered)
    BY DEF UpdateSound, UpdateFields, NoUpdate
  <1>2. ASSUME NEW at, at \in {"idle", "feed", "finish", "receipt"} \/ o.at \in {"remove", "place", "point"},
               o.at \notin {"idle", "feed"}
        PROVE  UpdateSound([o EXCEPT !.at = at], offered)
    BY <1>0, <1>2 DEF UpdateSound, UpdateFields
  <1>3. ASSUME NEW result, o.at \notin {"idle", "feed"}
        PROVE  UpdateSound([o EXCEPT !.at = "finish", !.result = result], offered)
    BY <1>0, <1>3 DEF UpdateSound, UpdateFields
  <1>4. DOMAIN Removed(t) = Paths /\ FilesSound(Removed(t), offered)
    BY <1>0, RemovedSound
  <1>5. SameBuild => UNCHANGED <<made, offered, latest>>
    BY DEF SameBuild, buildVars
  <1>6. Untouched => UNCHANGED <<disk, snapshots, pc, op, todo, ops>>
    BY DEF Untouched, vars, counts
  <1>7. SameInstaller => UNCHANGED <<snapshots, pc, op, todo, ops>>
    BY DEF SameInstaller
  <1>8. CASE LaunchUpdater(u)
    <2>1. PICK v : upd' = [upd EXCEPT ![u] = [o EXCEPT !.at = "feed", !.running = v]]
      BY <1>8 DEF LaunchUpdater
    <2>2. UpdateSound([o EXCEPT !.at = "feed", !.running = v], offered)
      BY <1>0 DEF UpdateSound, UpdateFields
    <2>3. UNCHANGED <<disk, snapshots, pc, op, todo, ops, made, offered, latest>>
      BY <1>6, <1>8 DEF LaunchUpdater, SameOffer
    <2> QED BY <1>0, <2>1, <2>2, <2>3, UpdateMoves
  <1>9. CASE UpdateStatus(u)
    <2>1. /\ upd' = [upd EXCEPT ![u] = [o EXCEPT !.at = "lock", !.feed = latest]]
          /\ latest # NoFeed
      BY <1>9 DEF UpdateStatus, SelectUpdateCandidate
    <2>2. UpdateSound([o EXCEPT !.at = "lock", !.feed = latest], offered)
      BY <1>0, <2>1 DEF UpdateSound, UpdateFields
    <2>3. UNCHANGED <<disk, snapshots, pc, op, todo, ops, made, offered, latest>>
      BY <1>5, <1>6, <1>9 DEF UpdateStatus
    <2> QED BY <1>0, <2>1, <2>2, <2>3, UpdateMoves
  <1>10. CASE SkipUpdate(u) \/ RefuseUpdate(u) \/ FinishUpdate(u)
    <2>1. upd' = [upd EXCEPT ![u] = NoUpdate]
      BY <1>10 DEF SkipUpdate, RefuseUpdate, FinishUpdate, End
    <2>2. UNCHANGED <<disk, snapshots, pc, op, todo, ops, made, offered, latest>>
      BY <1>5, <1>6, <1>10 DEF SkipUpdate, RefuseUpdate, FinishUpdate
    <2> QED BY <1>0, <1>1, <2>1, <2>2, UpdateMoves
  <1>11. CASE AcquireUpdateLock(u)
    <2>1. /\ upd' = [upd EXCEPT ![u] = [o EXCEPT !.at = "download", !.before = disk]]
          /\ o.at = "lock"
      BY <1>11 DEF AcquireUpdateLock, UpdaterAt
    <2>2. UpdateSound([o EXCEPT !.at = "download", !.before = disk], offered)
      BY <1>0, <2>1 DEF UpdateSound, UpdateFields
    <2>3. UNCHANGED <<disk, snapshots, pc, op, todo, ops, made, offered, latest>>
      BY <1>5, <1>6, <1>11 DEF AcquireUpdateLock
    <2> QED BY <1>0, <2>1, <2>2, <2>3, UpdateMoves
  <1>12. CASE AcquireUpdateLockFails(u) \/ FinishFails(u)
    <2>1. upd' = [upd EXCEPT ![u] = NoUpdate] /\ disk' = disk
      BY <1>12 DEF AcquireUpdateLockFails, FinishFails, End
    <2>2. UNCHANGED <<snapshots, pc, op, todo, ops, made, offered, latest>>
      BY <1>5, <1>7, <1>12 DEF AcquireUpdateLockFails, FinishFails
    <2> QED BY <1>0, <1>1, <2>1, <2>2, UpdateMoves
  <1>13. CASE DownloadFile(u)
    <2>1. PICK edition : /\ edition = o.feed.sha256[Distribution]
                         /\ upd' = [upd EXCEPT ![u] = [o EXCEPT !.at = "remove", !.edition = edition]]
      BY <1>13 DEF DownloadFile, HashMatches
    <2>2. o.at = "download"
      BY <1>13 DEF DownloadFile, UpdaterAt
    <2>3. UpdateSound([o EXCEPT !.at = "remove", !.edition = edition], offered)
      BY <1>0, <2>1, <2>2 DEF UpdateSound, UpdateFields
    <2>4. UNCHANGED <<disk, snapshots, pc, op, todo, ops, made, offered, latest>>
      BY <1>5, <1>6, <1>13 DEF DownloadFile
    <2> QED BY <1>0, <2>1, <2>3, <2>4, UpdateMoves
  <1>14. CASE DownloadRefused(u) \/ PlaceRefused(u) \/ WriteUpdateReceipt(u)
    <2>1. PICK result : upd' = [upd EXCEPT ![u] = [o EXCEPT !.at = "finish", !.result = result]]
      BY <1>14 DEF DownloadRefused, PlaceRefused, WriteUpdateReceipt, FinishAs
    <2>2. o.at \in {"download", "place", "receipt"}
      BY <1>14 DEF DownloadRefused, PlaceRefused, WriteUpdateReceipt, UpdaterAt
    <2>3. UNCHANGED <<disk, snapshots, pc, op, todo, ops, made, offered, latest>>
      BY <1>5, <1>6, <1>14 DEF DownloadRefused, PlaceRefused, WriteUpdateReceipt
    <2> QED BY <1>0, <1>3, <2>1, <2>2, <2>3, UpdateMoves
  <1>15. CASE RemoveRelease(u) \/ PlaceRelease(u) \/ PointCurrent(u)
    <2>1. PICK at : upd' = [upd EXCEPT ![u] = [o EXCEPT !.at = at]]
      BY <1>15 DEF RemoveRelease, PlaceRelease, PointCurrent, Step
    <2>2. o.at \in {"remove", "place", "point"}
      BY <1>15 DEF RemoveRelease, PlaceRelease, PointCurrent, Step, UpdaterAt
    <2>3. UNCHANGED <<snapshots, pc, op, todo, ops, made, offered, latest>>
      BY <1>5, <1>7, <1>15 DEF RemoveRelease, PlaceRelease, PointCurrent, SetDisk
    <2>4. DOMAIN disk' = Paths /\ FilesSound(disk', offered)
      <3>1. CASE RemoveRelease(u)
        BY <1>4, <3>1 DEF RemoveRelease, SetDisk, Removed
      <3>2. CASE PlaceRelease(u)
        <4>1. disk' = [disk EXCEPT ![t] = {o.edition}]
          BY <3>2 DEF PlaceRelease, SetDisk
        <4>2. Sound(t, o.edition, offered)
          BY <1>0, <2>2 DEF UpdateSound, Sound, Target
        <4> QED BY <1>0, <4>1, <4>2 DEF FilesSound
      <3>3. CASE PointCurrent(u)
        <4>1. disk' = [disk EXCEPT !["current"] = {t}]
          BY <3>3 DEF PointCurrent, SetDisk
        <4>2. "current" \notin Versions
          BY InstallerAssumption DEF Fixed
        <4> QED BY <1>0, <4>1, <4>2 DEF FilesSound
      <3> QED BY <1>15, <3>1, <3>2, <3>3
    <2> QED BY <1>2, <2>1, <2>2, <2>3, <2>4, UpdateMoves
  <1>16. CASE UpdateFails(u)
    <2>1. /\ upd' = [upd EXCEPT ![u] = [o EXCEPT !.at = "finish", !.result = "failed"]]
          /\ o.at \notin {"idle", "feed"} /\ disk' \in {disk, Removed(t)}
      BY <1>16 DEF UpdateFails, FinishAs
    <2>2. UNCHANGED <<snapshots, pc, op, todo, ops, made, offered, latest>>
      BY <1>5, <1>7, <1>16 DEF UpdateFails
    <2> QED BY <1>0, <1>3, <1>4, <2>1, <2>2, UpdateMoves
  <1>17. CASE CrashUpdate(u)
    <2>1. upd' = [upd EXCEPT ![u] = NoUpdate] /\ disk' \in {disk, Removed(t)}
      BY <1>17 DEF CrashUpdate, End
    <2>2. UNCHANGED <<snapshots, pc, op, todo, ops, made, offered, latest>>
      BY <1>5, <1>7, <1>17 DEF CrashUpdate
    <2> QED BY <1>0, <1>1, <1>4, <2>1, <2>2, UpdateMoves
  <1> QED
    BY <1>8, <1>9, <1>10, <1>11, <1>12, <1>13, <1>14, <1>15, <1>16, <1>17 DEF UpdateProceeds

\* Every step of an installer keeps what feeds vouch for.
LEMMA InstallerVouches ==
    ASSUME VouchInv, InstallerStep
    PROVE  VouchInv'
  <1>1. UNCHANGED <<made, offered, latest>> /\ Next
    BY DEF InstallerStep, SameBuild, buildVars
  <1>2. DiskSound' /\ OperationsSound' /\ ArchivesNumbered'
    BY <1>1, InstallerKeepsSound DEF VouchInv, ArchivesNumbered
  <1>3. /\ DOMAIN upd' = Updaters
        /\ \A u \in Updaters : \/ upd'[u] = upd[u]
                               \/ \E m : upd'[u] = [upd[u] EXCEPT !.mixed = m]
    BY DEF InstallerStep
  <1>4. ASSUME NEW u \in Updaters, NEW m PROVE UpdateSound([upd[u] EXCEPT !.mixed = m], offered)
    BY DEF VouchInv, UpdatesSound, UpdateSound, UpdateFields
  <1>5. \A u \in Updaters : UpdateSound(upd'[u], offered)
    BY <1>3, <1>4 DEF VouchInv, UpdatesSound
  <1> QED BY <1>1, <1>2, <1>3, <1>5 DEF VouchInv, UpdatesSound

\* At the start there is nothing to vouch for.
LEMMA VouchInit == ReleaseInit => VouchInv
  <1> SUFFICES ASSUME ReleaseInit PROVE VouchInv
    OBVIOUS
  <1> USE DEF ReleaseInit, Init, BuildInit
  <1>1. IsFiniteSet(DOMAIN made) /\ DOMAIN made = {}
    BY FS_EmptySet
  <1>2. ArchivesNumbered
    BY <1>1 DEF ArchivesNumbered
  <1>3. DiskSound
    BY DEF DiskSound, EmptyDisk, FilesSound
  <1>4. OperationsSound
    BY NumbersAreNumbers, IdleSound DEF OperationsSound
  <1>5. UpdateSound(NoUpdate, offered)
    BY DEF UpdateSound, UpdateFields, NoUpdate
  <1>6. UpdatesSound
    BY <1>5 DEF UpdatesSound
  <1> QED BY <1>2, <1>3, <1>4, <1>6 DEF VouchInv

\* A step that changes nothing.
LEMMA VouchKept ==
    ASSUME VouchInv, UNCHANGED releaseVars
    PROVE  VouchInv'
  BY DEF releaseVars, vars, counts, buildVars, updateVars, VouchInv,
         ArchivesNumbered, DiskSound, OperationsSound, UpdatesSound

\* What an update has put in place of a release is an archive that some feed named
\* for that release when it was served (selectUpdateCandidate, downloadFile, the
\* comparison with the feed's sha256), however often feeds and archives are
\* uploaded anew between the steps of an update, and whatever installers roll
\* back, restore and replace in the same releases.
THEOREM VouchedHolds == ReleaseSpec => []Vouched
  <1>1. VouchInv /\ [ReleaseNext]_releaseVars => VouchInv'
    <2> SUFFICES ASSUME VouchInv, [ReleaseNext]_releaseVars PROVE VouchInv'
      OBVIOUS
    <2>1. CASE UNCHANGED releaseVars
      BY <2>1, VouchKept
    <2> QED BY <2>1, InstallerVouches, BuildKeepsVouched, UpdaterVouches DEF ReleaseNext
  <1>2. VouchInv => Vouched
    <2> SUFFICES ASSUME VouchInv, NEW v \in Versions, NEW n \in disk[v] \cap Editions
                 PROVE  \E f \in offered : f.version = v /\ f.sha256[Distribution] = n
      BY DEF Vouched
    <2>1. n \in Nat /\ n > MaxOps /\ MaxOps \in Nat
      BY NumbersAreNumbers DEF VouchInv, ArchivesNumbered, Editions
    <2>2. v \in DOMAIN disk
      BY DEF VouchInv, DiskSound, Paths
    <2>3. Sound(v, n, offered)
      BY <2>2 DEF VouchInv, DiskSound, FilesSound
    <2> QED BY <2>1, <2>3 DEF Sound
  <1> QED BY <1>1, <1>2, VouchInit, PTL DEF ReleaseSpec

(***************************************************************************)
(* Where an update is, by what it has left to do.                              *)
(***************************************************************************)

\* An updater in one of these steps has made the lock.
Locked == {"download", "remove", "place", "point", "receipt", "finish"}

\* What the disk holds for an update that no installer met.
Whereabouts(o, files) ==
    LET t == o.feed.version
        kept == files["current"] = o.before["current"]
        done == files["current"] = {t} /\ files[t] = {o.edition} IN
    /\ \A v \in Versions \ {t} : files[v] = o.before[v]
    /\ o.at \in {"download", "remove"} => kept /\ files[t] = o.before[t]
    /\ o.at = "place" => kept /\ files[t] = {}
    /\ o.at = "point" => kept /\ files[t] = {o.edition}
    /\ o.at = "receipt" => done
    /\ o.at = "finish" =>
        \/ done
        \/ o.result = "failed" /\ kept /\ files[t] \in {o.before[t], {}, {o.edition}}

UpdateOnWay(o, files) ==
    /\ o.at \notin {"idle", "feed"} => Newer(o.feed.version, o.running)
    /\ o.at \in Locked /\ ~o.mixed => Whereabouts(o, files)

OneUpdater == \A u \in Updaters : upd[u].at \in Locked => updateLock = u
OnWay == \A u \in Updaters : UpdateOnWay(upd[u], disk)

UpdaterInv == OneUpdater /\ OnWay

LEMMA UpdaterInvInit == ReleaseInit => UpdaterInv
  BY DEF ReleaseInit, NoUpdate, UpdaterInv, OneUpdater, OnWay, UpdateOnWay, Locked

\* A step of one updater. Who writes the disk or takes the lock away from itself has
\* the lock, and then no other updater is under way.
LEMMA UpdaterGoes ==
    ASSUME VouchInv, UpdaterInv, NEW u \in Updaters, NEW o,
           upd' = [upd EXCEPT ![u] = o],
           UpdateOnWay(o, disk'), o.at \in Locked => updateLock' = u,
           updateLock \in {"free", u} \/ (disk' = disk /\ updateLock' = updateLock)
    PROVE  UpdaterInv'
  <1>1. /\ upd'[u] = o
        /\ \A w \in Updaters \ {u} : upd'[w] = upd[w]
    BY DEF VouchInv, UpdatesSound
  <1>2. ASSUME NEW w \in Updaters \ {u}
        PROVE  (upd[w].at \in Locked => updateLock' = w) /\ UpdateOnWay(upd[w], disk')
    <2>1. CASE disk' = disk /\ updateLock' = updateLock
      BY <2>1 DEF UpdaterInv, OneUpdater, OnWay
    <2>2. CASE updateLock \in {"free", u}
      <3>1. upd[w].at \notin Locked
        BY <2>2, UpdateAssumption DEF UpdaterInv, OneUpdater
      <3> QED BY <3>1 DEF UpdaterInv, OnWay, UpdateOnWay
    <2> QED BY <2>1, <2>2
  <1> QED BY <1>1, <1>2 DEF UpdaterInv, OneUpdater, OnWay

\* What the update names is a release, and not the one it runs from.
LEMMA TargetNewer ==
    ASSUME NEW v, NEW w, Newer(v, w)
    PROVE  v \in Versions /\ w \in Versions /\ v # w /\ v # "current"
  BY BuildAssumption, InstallerAssumption DEF Newer, Fixed

\* Every step of an update goes on from where it is.
LEMMA UpdaterKeepsWay ==
    ASSUME VouchInv, UpdaterInv, NEW u \in Updaters,
           LaunchUpdater(u) \/ UpdateProceeds(u) \/ CrashUpdate(u)
    PROVE  UpdaterInv'
  <1> DEFINE o == upd[u]
             t == o.feed.version
  <1>0. /\ DOMAIN o = UpdateFields /\ DOMAIN disk = Paths
        /\ UpdateOnWay(o, disk)
        /\ o.at \in Locked => updateLock = u
    BY DEF VouchInv, UpdatesSound, UpdateSound, DiskSound, UpdaterInv, OneUpdater, OnWay
  <1>1. o.at \notin {"idle", "feed"} =>
            t \in Versions /\ t # "current" /\ {t, "current"} \subseteq DOMAIN disk
    BY <1>0, TargetNewer DEF UpdateOnWay, Paths, Fixed
  <1>2. Untouched => disk' = disk
    BY DEF Untouched, vars
  <1>3. \A files : UpdateOnWay(NoUpdate, files) /\ NoUpdate.at \notin Locked
    BY DEF UpdateOnWay, NoUpdate, Locked
  <1>4. CASE LaunchUpdater(u)
    <2>1. PICK v : upd' = [upd EXCEPT ![u] = [o EXCEPT !.at = "feed", !.running = v]]
      BY <1>4 DEF LaunchUpdater
    <2>2. UpdateOnWay([o EXCEPT !.at = "feed", !.running = v], disk')
      BY <1>0 DEF UpdateOnWay, UpdateFields, Locked
    <2>3. [o EXCEPT !.at = "feed", !.running = v].at \notin Locked
      BY <1>0 DEF UpdateFields, Locked
    <2>4. disk' = disk /\ updateLock' = updateLock
      BY <1>2, <1>4 DEF LaunchUpdater, Keep
    <2> QED BY <2>1, <2>2, <2>3, <2>4, UpdaterGoes
  <1>5. CASE UpdateStatus(u)
    <2>1. /\ upd' = [upd EXCEPT ![u] = [o EXCEPT !.at = "lock", !.feed = latest]]
          /\ Newer(latest.version, o.running)
      BY <1>5 DEF UpdateStatus, SelectUpdateCandidate
    <2>2. UpdateOnWay([o EXCEPT !.at = "lock", !.feed = latest], disk')
      BY <1>0, <2>1 DEF UpdateOnWay, UpdateFields, Locked
    <2>3. [o EXCEPT !.at = "lock", !.feed = latest].at \notin Locked
      BY <1>0 DEF UpdateFields, Locked
    <2>4. disk' = disk /\ updateLock' = updateLock
      BY <1>2, <1>5 DEF UpdateStatus, Keep
    <2> QED BY <2>1, <2>2, <2>3, <2>4, UpdaterGoes
  <1>6. CASE SkipUpdate(u) \/ RefuseUpdate(u)
    <2>1. upd' = [upd EXCEPT ![u] = NoUpdate] /\ disk' = disk /\ updateLock' = updateLock
      BY <1>2, <1>6 DEF SkipUpdate, RefuseUpdate, End, Keep
    <2> QED BY <1>3, <2>1, UpdaterGoes
  <1>7. CASE AcquireUpdateLock(u)
    <2>1. /\ upd' = [upd EXCEPT ![u] = [o EXCEPT !.at = "download", !.before = disk]]
          /\ o.at = "lock" /\ updateLock = "free" /\ updateLock' = u /\ disk' = disk
      BY <1>2, <1>7 DEF AcquireUpdateLock, UpdaterAt
    <2>2. PICK next : next = [o EXCEPT !.at = "download", !.before = disk]
      OBVIOUS
    <2>3. /\ next.at = "download" /\ next.before = disk
          /\ next.feed = o.feed /\ next.running = o.running
      BY <1>0, <2>2 DEF UpdateFields
    <2>4. UpdateOnWay(next, disk')
      BY <1>0, <2>1, <2>3 DEF UpdateOnWay, Whereabouts
    <2> QED BY <2>1, <2>2, <2>4, UpdaterGoes
  <1>8. CASE AcquireUpdateLockFails(u) \/ FinishUpdate(u) \/ FinishFails(u)
    <2>1. /\ upd' = [upd EXCEPT ![u] = NoUpdate]
          /\ updateLock = "free" \/ o.at \in Locked
      BY <1>8 DEF AcquireUpdateLockFails, FinishUpdate, FinishFails, End, UpdaterAt, Locked
    <2> QED BY <1>0, <1>3, <2>1, UpdaterGoes
  <1>9. CASE DownloadFile(u)
    <2>1. PICK edition : upd' = [upd EXCEPT ![u] = [o EXCEPT !.at = "remove", !.edition = edition]]
      BY <1>9 DEF DownloadFile
    <2>2. o.at = "download" /\ disk' = disk /\ updateLock' = updateLock
      BY <1>2, <1>9 DEF DownloadFile, UpdaterAt, Keep
    <2>3. PICK next : next = [o EXCEPT !.at = "remove", !.edition = edition]
      OBVIOUS
    <2>4. /\ next.at = "remove" /\ next.before = o.before /\ next.mixed = o.mixed
          /\ next.feed = o.feed /\ next.running = o.running
      BY <1>0, <2>3 DEF UpdateFields
    <2>5. UpdateOnWay(next, disk')
      BY <1>0, <2>2, <2>4 DEF UpdateOnWay, Whereabouts, Locked
    <2> QED BY <1>0, <2>1, <2>2, <2>3, <2>5, UpdaterGoes DEF Locked
  <1>10. ASSUME NEW result, upd' = [upd EXCEPT ![u] = [o EXCEPT !.at = "finish", !.result = result]],
                o.at \in Locked \ {"finish"}, updateLock' = updateLock,
                \/ disk' = disk /\ result = "failed" /\ (o.at = "place" => disk[t] # {})
                \/ disk' = disk /\ o.at = "receipt"
                \/ disk' = Removed(t) /\ result = "failed" /\ o.at = "remove"
                \/ disk' = disk /\ result = "failed" /\ o.at = "place"
         PROVE  UpdaterInv'
    <2>1. PICK next : next = [o EXCEPT !.at = "finish", !.result = result]
      OBVIOUS
    <2>2. /\ next.at = "finish" /\ next.before = o.before /\ next.mixed = o.mixed
          /\ next.feed = o.feed /\ next.running = o.running /\ next.edition = o.edition
          /\ next.result = result
      BY <1>0, <2>1 DEF UpdateFields
    <2>3. o.at \notin {"idle", "feed"}
      BY <1>10 DEF Locked
    <2>4. ASSUME ~o.mixed PROVE Whereabouts(next, disk')
      <3>1. Whereabouts(o, disk)
        BY <1>0, <1>10, <2>4 DEF UpdateOnWay
      <3>2. CASE disk' = Removed(t) /\ result = "failed" /\ o.at = "remove"
        <4>1. /\ disk'[t] = {} /\ disk'["current"] = disk["current"]
              /\ \A v \in Versions \ {t} : disk'[v] = disk[v]
          BY <1>0, <1>1, <2>3, <3>2 DEF Removed, Paths
        <4> QED BY <2>2, <3>1, <3>2, <4>1 DEF Whereabouts
      <3>3. CASE disk' = disk /\ o.at = "receipt"
        BY <2>2, <3>1, <3>3 DEF Whereabouts
      <3>4. CASE disk' = disk /\ result = "failed"
        BY <1>10, <2>2, <3>1, <3>4 DEF Whereabouts, Locked
      <3> QED BY <1>10, <3>2, <3>3, <3>4
    <2>5. UpdateOnWay(next, disk')
      BY <1>0, <2>2, <2>3, <2>4 DEF UpdateOnWay
    <2> QED BY <1>0, <1>10, <2>1, <2>5, UpdaterGoes
  <1>11. CASE DownloadRefused(u)
    BY <1>2, <1>10, <1>11 DEF DownloadRefused, FinishAs, UpdaterAt, Keep, Locked
  <1>12. CASE PlaceRefused(u)
    BY <1>2, <1>10, <1>12 DEF PlaceRefused, FinishAs, UpdaterAt, Keep, Locked
  <1>13. CASE WriteUpdateReceipt(u)
    BY <1>2, <1>10, <1>13 DEF WriteUpdateReceipt, FinishAs, UpdaterAt, Keep, Locked
  <1>14. CASE UpdateFails(u)
    BY <1>10, <1>14 DEF UpdateFails, FinishAs, UpdaterAt, Keep, Locked, Target
  <1>15. ASSUME NEW step, upd' = [upd EXCEPT ![u] = [o EXCEPT !.at = step]],
                updateLock' = updateLock,
                \/ o.at = "remove" /\ step = "place" /\ disk' = [disk EXCEPT ![t] = {}]
                \/ o.at = "place" /\ step = "point" /\ disk' = [disk EXCEPT ![t] = {o.edition}]
                \/ o.at = "point" /\ step = "receipt" /\ disk' = [disk EXCEPT !["current"] = {t}]
         PROVE  UpdaterInv'
    <2>1. PICK next : next = [o EXCEPT !.at = step]
      OBVIOUS
    <2>2. /\ next.at = step /\ next.before = o.before /\ next.mixed = o.mixed
          /\ next.feed = o.feed /\ next.running = o.running /\ next.edition = o.edition
      BY <1>0, <2>1 DEF UpdateFields
    <2>3. o.at \in Locked /\ o.at \notin {"idle", "feed"}
      BY <1>15 DEF Locked
    <2>4. ASSUME ~o.mixed PROVE Whereabouts(next, disk')
      <3>1. Whereabouts(o, disk)
        BY <1>0, <2>3, <2>4 DEF UpdateOnWay
      <3>2. CASE o.at = "point"
        <4>1. /\ disk'["current"] = {t} /\ disk'[t] = disk[t]
              /\ \A v \in Versions \ {t} : disk'[v] = disk[v]
          BY <1>0, <1>1, <1>15, <2>3, <3>2, InstallerAssumption DEF Paths, Fixed
        <4> QED BY <1>15, <2>2, <3>1, <3>2, <4>1 DEF Whereabouts
      <3>3. CASE o.at \in {"remove", "place"}
        <4>1. /\ disk'["current"] = disk["current"]
              /\ disk'[t] = IF o.at = "remove" THEN {} ELSE {o.edition}
              /\ \A v \in Versions \ {t} : disk'[v] = disk[v]
          BY <1>0, <1>1, <1>15, <2>3, <3>3 DEF Paths
        <4> QED BY <1>15, <2>2, <3>1, <3>3, <4>1 DEF Whereabouts
      <3> QED BY <1>15, <3>2, <3>3
    <2>5. UpdateOnWay(next, disk')
      BY <1>0, <2>2, <2>3, <2>4 DEF UpdateOnWay
    <2> QED BY <1>0, <1>15, <2>1, <2>3, <2>5, UpdaterGoes
  <1>16. CASE RemoveRelease(u) \/ PlaceRelease(u) \/ PointCurrent(u)
    BY <1>15, <1>16 DEF RemoveRelease, PlaceRelease, PointCurrent, Step, UpdaterAt, SetDisk,
                        Keep, Target
  <1>17. CASE CrashUpdate(u)
    <2>1. /\ upd' = [upd EXCEPT ![u] = NoUpdate]
          /\ updateLock = u \/ updateLock' = updateLock
          /\ o.at = "remove" \/ disk' = disk
      BY <1>17 DEF CrashUpdate, End, UpdaterAt
    <2> QED BY <1>0, <1>3, <2>1, UpdaterGoes DEF Locked
  <1> QED
    BY <1>4, <1>5, <1>6, <1>7, <1>8, <1>9, <1>11, <1>12, <1>13, <1>14, <1>16, <1>17
    DEF UpdateProceeds

\* A step of an installer under an update mixes it, unless it moves nothing.
LEMMA InstallerKeepsWay ==
    ASSUME VouchInv, UpdaterInv, InstallerStep
    PROVE  UpdaterInv'
  <1> SUFFICES ASSUME NEW u \in Updaters
               PROVE  /\ upd'[u].at \in Locked => updateLock' = u
                      /\ UpdateOnWay(upd'[u], disk')
    BY DEF UpdaterInv, OneUpdater, OnWay
  <1>1. /\ updateLock' = updateLock
        /\ upd'[u] = IF upd[u].at = "idle" THEN upd[u]
                     ELSE [upd[u] EXCEPT !.mixed = @ \/ Moved]
    BY DEF InstallerStep, Keep, UpdaterAt
  <1>2. /\ DOMAIN upd[u] = UpdateFields
        /\ UpdateOnWay(upd[u], disk)
        /\ upd[u].at \in Locked => updateLock = u
    BY DEF VouchInv, UpdatesSound, UpdateSound, UpdaterInv, OneUpdater, OnWay
  <1>3. CASE upd[u].at = "idle"
    BY <1>1, <1>2, <1>3 DEF UpdateOnWay, Locked
  <1>4. CASE upd[u].at # "idle"
    <2>1. PICK next : next = [upd[u] EXCEPT !.mixed = @ \/ Moved]
      OBVIOUS
    <2>2. /\ next.at = upd[u].at /\ next.before = upd[u].before
          /\ next.feed = upd[u].feed /\ next.running = upd[u].running
          /\ next.edition = upd[u].edition /\ next.result = upd[u].result
          /\ ~next.mixed => ~upd[u].mixed /\ ~Moved
      BY <1>2, <2>1 DEF UpdateFields
    <2>3. ASSUME next.at \in Locked, ~next.mixed PROVE Whereabouts(next, disk')
      <3>1. /\ Whereabouts(upd[u], disk)
            /\ \A path \in Versions \cup {"current"} : disk'[path] = disk[path]
            /\ next.feed.version \in Versions
        BY <1>2, <2>2, <2>3, TargetNewer DEF UpdateOnWay, Moved, Locked
      <3> QED BY <2>2, <3>1 DEF Whereabouts
    <2>4. UpdateOnWay(next, disk')
      BY <1>2, <2>2, <2>3 DEF UpdateOnWay
    <2> QED BY <1>1, <1>2, <1>4, <2>1, <2>2, <2>4
  <1> QED BY <1>3, <1>4

\* At the end of an update that no installer met.
LEMMA WhereaboutsEnd ==
    ASSUME UpdaterInv
    PROVE  UpdateEnds
  <1> SUFFICES ASSUME NEW u \in Updaters, UpdaterAt(u, "finish"), ~upd[u].mixed
               PROVE  LET o == upd[u]
                          overtaken == o.before["current"] # {o.running} IN
                      /\ \A v \in Versions \ {Target(u)} : disk[v] = o.before[v]
                      /\ o.result = "updated" => Applied(u)
                      /\ o.result = "failed" => Applied(u) \/ Unapplied(u)
                      /\ ~overtaken =>
                          /\ ReleaseNamed(o.before) => ReleaseNamed(disk)
                          /\ o.result = "updated" =>
                              \E v \in Named(o.before["current"]) : Newer(Target(u), v)
    BY DEF UpdateEnds
  <1> DEFINE o == upd[u]
             t == Target(u)
  <1>1. /\ Newer(t, o.running) /\ Whereabouts(o, disk)
        /\ t \in Versions /\ o.running \in Versions /\ t # o.running
    BY TargetNewer DEF UpdaterInv, OnWay, UpdateOnWay, UpdaterAt, Target, Locked
  <1>2. /\ \A v \in Versions \ {t} : disk[v] = o.before[v]
        /\ Applied(u) \/ (o.result = "failed" /\ Unapplied(u))
    BY <1>1 DEF Whereabouts, Applied, Unapplied, UpdaterAt, Target
  <1>3. ASSUME o.before["current"] = {o.running}, ReleaseNamed(o.before) PROVE ReleaseNamed(disk)
    <2>1. o.before[o.running] # {}
      BY <1>3 DEF ReleaseNamed
    <2>2. disk[o.running] # {}
      BY <1>1, <1>2, <2>1
    <2> QED BY <1>1, <1>2, <1>3, <2>2 DEF Applied, Unapplied, ReleaseNamed
  <1>4. ASSUME o.before["current"] = {o.running}
        PROVE  \E v \in Named(o.before["current"]) : Newer(t, v)
    BY <1>1, <1>4 DEF Named
  <1> QED BY <1>2, <1>3, <1>4

\* An update that ends, and that no installer met, has put the release in place and
\* pointed current at it, or has failed with both where they were but maybe the
\* release itself; every other release is as it was, current names a release that is
\* there if it did, and only a newer one unless another update came between reading
\* the feed and taking the lock (applyUpdate), however updates race, fail and die.
THEOREM UpdateEndsHolds == ReleaseSpec => []UpdateEnds
  <1> DEFINE Both == VouchInv /\ UpdaterInv
  <1>1. Both /\ [ReleaseNext]_releaseVars => Both'
    <2> SUFFICES ASSUME VouchInv, UpdaterInv, [ReleaseNext]_releaseVars
                 PROVE  VouchInv' /\ UpdaterInv'
      OBVIOUS
    <2>1. CASE UNCHANGED releaseVars
      BY <2>1, VouchKept DEF releaseVars, vars, updateVars, UpdaterInv, OneUpdater, OnWay
    <2>2. CASE InstallerStep
      BY <2>2, InstallerVouches, InstallerKeepsWay
    <2>3. CASE BuildStep /\ UNCHANGED updateVars
      <3>1. UNCHANGED <<disk, upd, updateLock>>
        BY <2>3, BuildVouches DEF updateVars
      <3> QED BY <2>3, <3>1, BuildKeepsVouched DEF UpdaterInv, OneUpdater, OnWay
    <2>4. CASE \E u \in Updaters : LaunchUpdater(u) \/ UpdateProceeds(u) \/ CrashUpdate(u)
      BY <2>4, UpdaterVouches, UpdaterKeepsWay
    <2> QED BY <2>1, <2>2, <2>3, <2>4 DEF ReleaseNext
  <1>2. ReleaseInit => Both
    BY VouchInit, UpdaterInvInit
  <1>3. Both => UpdateEnds
    BY WhereaboutsEnd
  <1> HIDE DEF Both
  <1> QED BY <1>1, <1>2, <1>3, PTL DEF ReleaseSpec
=============================================================================
