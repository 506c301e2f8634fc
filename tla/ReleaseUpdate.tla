----------------------------- MODULE ReleaseUpdate -----------------------------
(***************************************************************************)
(* `gpao-t update apply` of an installed release: the client that the build    *)
(* writes into gpao-t.mjs (build-gpao-t-production-distribution.mjs, the        *)
(* wrapper).  It reads the feed, takes a lock of its own, downloads the          *)
(* distribution, puts the release in place and points current at it.              *)
(*                                                                          *)
(* It is composed with the build that makes what it downloads and with the       *)
(* installer, which works on the same releases and pointer under another lock.    *)
(* Each updater is a process of its own; every await is a step.                    *)
(***************************************************************************)
EXTENDS ReleaseBuild

CONSTANT Updaters       \* processes that run an update

ASSUME UpdateAssumption == {"free", "stale"} \cap Updaters = {}

VARIABLES
    updateLock, \* .update-lock: free, the updater that made it, or stale
    upd         \* what each updater is doing

updateVars == <<updateLock, upd>>
releaseVars == <<vars, buildVars, updateVars>>

NoUpdate ==
    [at |-> "idle", running |-> "none", feed |-> NoFeed, edition |-> 0, before |-> EmptyDisk,
     mixed |-> FALSE, result |-> "open"]

Target(u) == upd[u].feed.version

-----------------------------------------------------------------------------
UpdaterAt(u, step) == upd[u].at = step
Keep == UNCHANGED updateLock
SameBuild == UNCHANGED buildVars
SameInstaller == UNCHANGED <<snapshots, loaded, lock, pc, op, todo, userData, writes, ops>>

Step(u, from, to) ==
    /\ UpdaterAt(u, from)
    /\ upd' = [upd EXCEPT ![u].at = to]

End(u) == upd' = [upd EXCEPT ![u] = NoUpdate]
FinishAs(u, result) == upd' = [upd EXCEPT ![u].at = "finish", ![u].result = result]

\* gpao-t is started through the pointer: VERSION is that of its release.
LaunchUpdater(u) ==
    /\ UpdaterAt(u, "idle")
    /\ Source # {}
    /\ Spend("update")
    /\ \E v \in Named(disk["current"]) :
        upd' = [upd EXCEPT ![u].at = "feed", ![u].running = v]
    /\ UNCHANGED <<contract, stage, output, packages, archives, sidecars, made, feed,
                   verified, interrupted, builder>>
    /\ SameOffer /\ Keep /\ Untouched

\* selectUpdateCandidate
SelectUpdateCandidate(running) == latest # NoFeed /\ Newer(latest.version, running)

\* updateStatus reads the feed before the lock is asked for.
UpdateStatus(u) ==
    /\ UpdaterAt(u, "feed")
    /\ SelectUpdateCandidate(upd[u].running)
    /\ upd' = [upd EXCEPT ![u].at = "lock", ![u].feed = latest]
    /\ SameBuild /\ Keep /\ Untouched

\* The feed offers nothing newer; the fetch that fails ends the same way.
SkipUpdate(u) ==
    /\ UpdaterAt(u, "feed")
    /\ End(u)
    /\ SameBuild /\ Keep /\ Untouched

\* Mutant: a lock that is there is taken over.
TakeOverLock(u) ==
    /\ UpdaterAt(u, "lock")
    /\ updateLock' = u
    /\ upd' = [upd EXCEPT ![u].at = "download", ![u].before = disk]
    /\ SameBuild /\ Untouched

\* mkdir succeeds for one updater.
AcquireUpdateLock(u) ==
    /\ UpdaterAt(u, "lock")
    /\ updateLock = "free"
    /\ updateLock' = u
    /\ upd' = [upd EXCEPT ![u].at = "download", ![u].before = disk]
    /\ SameBuild /\ Untouched

RefuseUpdate(u) ==
    /\ UpdaterAt(u, "lock")
    /\ updateLock # "free"
    /\ End(u)
    /\ SameBuild /\ Keep /\ Untouched

\* The directory is made and owner.json is not: nobody removes the lock.
AcquireUpdateLockFails(u) ==
    /\ UpdaterAt(u, "lock")
    /\ updateLock = "free"
    /\ Fault
    /\ updateLock' = "stale"
    /\ End(u)
    /\ SameBuild /\ SameInstaller
    /\ UNCHANGED disk

-----------------------------------------------------------------------------
(* Under the lock *)

\* Mutant: whatever the page serves is taken.
AnyServed(u, edition) == edition # 0

\* The hash of what was downloaded is the one the feed promised.
HashMatches(u, edition) == edition # 0 /\ edition = upd[u].feed.sha256[Distribution]

\* downloadFile, sha256File, unzip and verifyDistributionRoot: all in the staging
\* directory of this update.
DownloadFile(u) ==
    /\ UpdaterAt(u, "download")
    /\ LET edition == assets[Target(u)] IN
        /\ HashMatches(u, edition)
        /\ upd' = [upd EXCEPT ![u].at = "remove", ![u].edition = edition]
    /\ SameBuild /\ Keep /\ Untouched

\* Nothing is served there, or the archive was uploaded anew since.
DownloadRefused(u) ==
    /\ UpdaterAt(u, "download")
    /\ ~HashMatches(u, assets[Target(u)])
    /\ FinishAs(u, "failed")
    /\ SameBuild /\ Keep /\ Untouched

SetDisk(path, content) ==
    /\ disk' = [disk EXCEPT ![path] = content]
    /\ SameInstaller /\ SameBuild /\ Keep
    /\ NoFault

\* An older copy of the release is removed, then the new one renamed in place.
RemoveRelease(u) == Step(u, "remove", "place") /\ SetDisk(Target(u), {})

PlaceRelease(u) ==
    /\ Step(u, "place", "point")
    /\ disk[Target(u)] = {}
    /\ SetDisk(Target(u), {upd[u].edition})

\* An installer has filled the place in between: the rename fails.
PlaceRefused(u) ==
    /\ UpdaterAt(u, "place")
    /\ disk[Target(u)] # {}
    /\ FinishAs(u, "failed")
    /\ SameBuild /\ Keep /\ Untouched

PointCurrent(u) == Step(u, "point", "receipt") /\ SetDisk("current", {Target(u)})

\* The receipt, and the restart of the service if it was asked for, whose
\* failure only the receipt tells.
WriteUpdateReceipt(u) ==
    /\ UpdaterAt(u, "receipt")
    /\ FinishAs(u, "updated")
    /\ SameBuild /\ Keep /\ Untouched

\* Any await of it throws.
UpdateFails(u) ==
    /\ upd[u].at \in {"download", "remove", "place", "point", "receipt"}
    /\ disk' \in IF UpdaterAt(u, "remove") THEN {disk, Removed(Target(u))} ELSE {disk}
    /\ FinishAs(u, "failed")
    /\ Fault
    /\ SameInstaller /\ SameBuild /\ Keep

\* The finally block.
FinishUpdate(u) ==
    /\ UpdaterAt(u, "finish")
    /\ updateLock' = "free"
    /\ End(u)
    /\ SameBuild /\ Untouched

\* Its errors are swallowed.
FinishFails(u) ==
    /\ UpdaterAt(u, "finish")
    /\ Fault
    /\ updateLock' = "stale"
    /\ End(u)
    /\ SameBuild /\ SameInstaller
    /\ UNCHANGED disk

CrashUpdate(u) ==
    /\ ~UpdaterAt(u, "idle")
    /\ Fault
    /\ updateLock' = IF updateLock = u THEN "stale" ELSE updateLock
    /\ disk' \in IF UpdaterAt(u, "remove") THEN {disk, Removed(Target(u))} ELSE {disk}
    /\ End(u)
    /\ SameBuild /\ SameInstaller

UpdateProceeds(u) ==
    \/ UpdateStatus(u) \/ SkipUpdate(u)
    \/ AcquireUpdateLock(u) \/ RefuseUpdate(u) \/ AcquireUpdateLockFails(u)
    \/ DownloadFile(u) \/ DownloadRefused(u)
    \/ RemoveRelease(u) \/ PlaceRelease(u) \/ PlaceRefused(u)
    \/ PointCurrent(u) \/ WriteUpdateReceipt(u) \/ UpdateFails(u)
    \/ FinishUpdate(u) \/ FinishFails(u)

-----------------------------------------------------------------------------
(* The composition *)

Moved == \E path \in Versions \cup {"current"} : disk'[path] # disk[path]

\* The installer knows nothing of .update-lock, nor the updater of .install-lock.
\* `mixed` (history) tells that an installer moved a release or the pointer since
\* an updater was launched.
InstallerStep ==
    /\ Next
    /\ upd' = [u \in Updaters |->
                  IF UpdaterAt(u, "idle") THEN upd[u]
                  ELSE [upd[u] EXCEPT !.mixed = @ \/ Moved]]
    /\ SameBuild /\ Keep

ReleaseNext ==
    \/ InstallerStep
    \/ BuildStep /\ UNCHANGED updateVars
    \/ \E u \in Updaters : LaunchUpdater(u) \/ UpdateProceeds(u) \/ CrashUpdate(u)

\* What a behaviour has so many of.
Events == {"job", "feed", "verify", "upload", "update"}

ReleaseInit ==
    /\ Init
    /\ BuildInit
    /\ left \in [Events -> Nat]
    /\ updateLock = "free"
    /\ upd = [u \in Updaters |-> NoUpdate]

ReleaseSpec == ReleaseInit /\ [][ReleaseNext]_releaseVars

-----------------------------------------------------------------------------
(* Properties *)

ReleaseNamed(files) == \E v \in Versions : files["current"] = {v} /\ files[v] # {}

\* What an update leaves: current names the new release and it is there; or, after a
\* failure, current is where it was or the update is in place.
Applied(u) == disk["current"] = {Target(u)} /\ disk[Target(u)] = {upd[u].edition}

Unapplied(u) ==
    /\ disk["current"] = upd[u].before["current"]
    /\ disk[Target(u)] \in {upd[u].before[Target(u)], {}, {upd[u].edition}}

\* An update that ends, and that no installer met, has moved the pointer to a newer
\* release that is whole, or has failed and left a release that can be run.  The
\* exception is an update overtaken by another one between reading the feed and
\* taking the lock: it moves the pointer to what it had read, maybe backwards, and
\* it removes the release the pointer names when it is the same (applyUpdate).
UpdateEnds ==
    \A u \in Updaters : UpdaterAt(u, "finish") /\ ~upd[u].mixed =>
        LET o == upd[u]
            overtaken == o.before["current"] # {o.running} IN
        /\ \A v \in Versions \ {Target(u)} : disk[v] = o.before[v]
        /\ o.result = "updated" => Applied(u)
        /\ o.result = "failed" => Applied(u) \/ Unapplied(u)
        /\ ~overtaken =>
            /\ ReleaseNamed(o.before) => ReleaseNamed(disk)
            /\ o.result = "updated" => \E v \in Named(o.before["current"]) : Newer(Target(u), v)

Editions == DOMAIN made

\* An archive that is installed by an update is one some feed that was served
\* named for that release, however often the release page was uploaded anew
\* between the feed, the download and the next update.
Vouched ==
    \A v \in Versions : \A n \in disk[v] \cap Editions :
        \E f \in offered : f.version = v /\ f.sha256[Distribution] = n
=============================================================================
