------------------------------ MODULE LivePatches ------------------------------
(***************************************************************************)
(* The tools that change an installed release in place (src/tools: the       *)
(* apply-, repair-, fix-, migrate- and rebuild- scripts), the rollback of a    *)
(* runtime repair and the reseal of the distribution manifest.                *)
(*                                                                          *)
(* A run of a tool is a list of file accesses, one step each; nothing locks the *)
(* release, so two runs may interleave, the user's gateway writes its own files  *)
(* meanwhile, a step may fail and a run may be killed.                          *)
(*                                                                          *)
(* Abstractions.  A file is the set of changes in it: the tools that patched it, *)
(* the user's writes, "lab" for a file copied from the lab build   *)
(* and "torn" for one whose writeFile was cut short.  A text replacement adds its  *)
(* tool and finds its anchors in every text but a torn one.  Bundles that one tool  *)
(* patches together are one file.  Dry runs and refusals write no release file.    *)
(***************************************************************************)
EXTENDS Integers, SequencesExt

CONSTANT Actors     \* shells that run a tool

\* "yes" is what a verified manifest is marked with.
ASSUME ActorsAssumption == "yes" \notin Actors

\* The release, in the order in which the reseal reads it, and the user's files.
Release == <<"handler", "kernel", "server", "startup", "handlers", "provider",
             "push", "prompt", "chat", "main", "index", "worker", "launcher",
             "entry", "alias", "package">>
UserFiles == {"config", "sessions", "state", "workspace", "note"}
UserMarks == <<"first write", "second write">>
Files == ToSet(Release) \cup UserFiles \cup {"plist", "logo"}
Interface == <<"chat", "main", "index", "worker">>

VARIABLES
    disk,       \* what is in each file
    seal,       \* the release as the distribution manifest records it
    sealed,     \* "yes", or who wrote the manifest and has not verified it
    moved,      \* files written since the manifest, or since they were verified
    runs,       \* the run each shell is in
    evidence,   \* backups and outcomes of the runs that are over, in order
    users,      \* the user's writes, and whether a tool was about to write
    left        \* runs, writes, failures still to come (bounds the model)

patchVars == <<disk, seal, sealed, moved, runs, evidence, users, left>>

-----------------------------------------------------------------------------
(* The steps of a run *)

Step(do, f) == <<do, f>>
Each(do, fs) == [i \in DOMAIN fs |-> Step(do, fs[i])]
InTurn(dos, fs) ==
    [k \in 1 .. Len(dos) * Len(fs) |->
        Step(dos[((k - 1) % Len(dos)) + 1], fs[((k - 1) \div Len(dos)) + 1])]

\* Read, back up if the text changes, write.
PatchEach(fs) == InTurn(<<"read", "backupIf", "write">>, fs)

MemorySearchHotfix == InTurn(<<"read", "backup", "write">>, <<"handler">>)
ConversationUx == InTurn(<<"read", "backup", "rewrite">>, <<"handler", "chat">>)
ReplayEvaluator == PatchEach(<<"handler">>)
RuntimeIdentityPrompt == PatchEach(<<"prompt">>)
UserScreenUx == PatchEach(Interface)
PluginRegistryRuntime == PatchEach(<<"plist">>)

SelfGrowthAuthority ==
    <<Step("guard", "handler"), Step("read", "handler"), Step("backup", "handler"),
      Step("copy", "kernel"), Step("write", "handler"), Step("assert", "handler")>>

\* runChatLayoutRecoveryHotfix, runDashboardCacheBustHotfix
ChatLayoutRecovery ==
    InTurn(<<"read", "backupIf", "write", "readback">>, <<"index">>)
DashboardCacheBust ==
    InTurn(<<"read", "backupIf", "write", "readback">>, <<"index">>)

SurfaceSeal ==
    Each("read", Interface) \o InTurn(<<"backupIf", "write">>, Interface)

\* The one tool that keeps no copy of what it changes.
ModelConnectionRoute ==
    LET fs == <<"main", "index">>
    IN  Each("read", fs) \o Each("rewrite", fs)

RuntimeNamespace ==
    LET fs == <<"index", "worker">>
    IN  Each("read", fs) \o Each("backupIf", fs) \o Each("write", fs)

StandaloneNamespace == InTurn(<<"read", "backup", "rewrite">>, Interface)

UpdateBoundary ==
    LET fs == <<"startup", "handlers", "launcher">>
    IN  Each("read", fs) \o InTurn(<<"backupIf", "write">>, fs)

\* The report comes after the catch. (It is no file of the release; the reports of
\* the other tools are left out: those that undo write theirs inside the catch.)
OutboundWrites ==
    LET fs == <<"provider", "push">>
    IN  Each("read", fs) \o Each("backupIf", fs) \o Each("replace", fs)
        \o <<Step("protected", "package"), Step("report", "package")>>

\* planGpaoTOutboundBoundary wants the update boundary in place.
OutboundBoundary ==
    Each("require", <<"startup", "handlers">>) \o OutboundWrites

BridgePatch ==
    Each("guard", <<"server", "index">>)
    \o <<Step("backup", "server")>> \o Each("backup", Interface)
    \o <<Step("swap", "handler")>> \o InTurn(<<"read", "rewrite">>, <<"server">>)
    \o Each("copy", Interface) \o <<Step("stale", "handler")>>

\* Mutant: the backup is of the packages the repair has restored already.
RepairBackingUpLate ==
    Each("guard", <<"entry", "alias">>) \o Each("backup", <<"entry", "alias", "state">>)
    \o <<Step("copy", "package"), Step("backup", "package")>>
    \o InTurn(<<"read", "write">>, <<"entry", "alias">>)
    \o <<Step("device", "state")>>

\* repair-live-gpao-t-runtime.mjs
RuntimeRepair ==
    Each("guard", <<"entry", "alias">>)
    \o Each("backup", <<"entry", "alias", "state", "package">>)
    \o <<Step("copy", "package")>>
    \o InTurn(<<"read", "write">>, <<"entry", "alias">>)
    \o <<Step("device", "state")>>

RollbackRepair == Each("restore", <<"entry", "alias", "state", "package">>)

\* runLiveConfigRepair, for the basic tools and for the doctor warnings.
ReplaceConfig ==
    <<Step("keep", "config"), Step("anchor", "config"),
      Step("replace", "config"), Step("readback", "config")>>
LiveConfigRepair == <<Step("read", "config")>> \o ReplaceConfig
DoctorWarnings == <<Step("read", "config"), Step("route", "config")>> \o ReplaceConfig

\* Copies of the workspace, its files from the pack, a line in the note of the
\* day, which no copy is made of, and the logo, when there is one.
WorkspacePack ==
    <<Step("backup", "workspace"), Step("copy", "workspace"),
      Step("read", "note"), Step("append", "note")>>
    \o <<Step("source", "logo"), Step("backup", "logo"), Step("copy", "logo")>>

PluginAllowlist == InTurn(<<"backup", "read", "rewrite">>, <<"config">>)

CleanupTestSessions == InTurn(<<"read", "keep", "rename">>, <<"sessions">>)

\* Mutant: the manifest is not verified after it was written.
ResealUnverified == Each("read", Release) \o <<Step("writeSeal", "index")>>

\* reseal-live-gpao-t-distribution.mjs
Reseal ==
    Each("read", Release) \o <<Step("writeSeal", "index")>> \o Each("verify", Release)

StepsOf ==
    [hotfix       |-> MemorySearchHotfix,    conversation |-> ConversationUx,
     replay       |-> ReplayEvaluator,       identity     |-> RuntimeIdentityPrompt,
     ux           |-> UserScreenUx,          registry     |-> PluginRegistryRuntime,
     growth       |-> SelfGrowthAuthority,   layout       |-> ChatLayoutRecovery,
     dashboard    |-> DashboardCacheBust,    surface      |-> SurfaceSeal,
     route        |-> ModelConnectionRoute,  mirror       |-> RuntimeNamespace,
     namespace    |-> StandaloneNamespace,   update       |-> UpdateBoundary,
     outbound     |-> OutboundBoundary,      bridge       |-> BridgePatch,
     repair       |-> RuntimeRepair,         rollback     |-> RollbackRepair,
     tools        |-> LiveConfigRepair,      doctor       |-> DoctorWarnings,
     allowlist    |-> PluginAllowlist,       cleanup      |-> CleanupTestSessions,
     pack         |-> WorkspacePack,         reseal       |-> Reseal]
Tools == DOMAIN StepsOf
Events == Tools \cup {"user", "fail", "crash"}

FilesOf(tool, dos) == {s[2] : s \in {x \in ToSet(StepsOf[tool]) : x[1] \in dos}}
\* Written if the text changes, or always; in place, or by a rename.
Always == {"rewrite", "rename"}
PatchedBy(tool) == FilesOf(tool, {"write", "replace", "append"} \cup Always)

-----------------------------------------------------------------------------
(* Beginning, failing and ending a run *)

Rest == [tool |-> "rest"]

At(a, dos) ==
    /\ runs[a] # Rest /\ runs[a].todo # <<>> /\ Head(runs[a].todo)[1] \in dos
File(a) == Head(runs[a].todo)[2]
Going(a, c) == runs' = [runs EXCEPT ![a] = [c EXCEPT !.todo = Tail(@)]]

Begin(a, tool, copies) ==
    /\ runs[a] = Rest /\ left[tool] > 0
    /\ left' = [left EXCEPT ![tool] = @ - 1]
    /\ LET alone == \A b \in Actors : runs[b] = Rest
           run == [tool |-> tool, todo |-> StepsOf[tool], held |-> <<>>,
                   saved |-> copies, start |-> disk, wrote |-> <<>>,
                   failed |-> FALSE, alone |-> alone]
           met == [b \in Actors |-> IF runs[b] = Rest THEN Rest
                                    ELSE [runs[b] EXCEPT !.alone = FALSE]]
       IN  runs' = [met EXCEPT ![a] = run]
    /\ UNCHANGED <<disk, seal, sealed, moved, evidence, users>>

BeginTool(a) ==
    \E tool \in Tools \ {"rollback"} : Begin(a, tool, <<>>)

\* The manifest handed in says "applied", and holds the copies of that repair.
BeginRollback(a) ==
    \E i \in DOMAIN evidence :
        /\ evidence[i].tool = "repair" /\ evidence[i].outcome = "applied"
        /\ Begin(a, "rollback", evidence[i].saved)

\* What the user has not written.
Plain(text) == text \ ToSet(UserMarks)

EndAs(a, outcome) ==
    /\ LET c == runs[a]
       IN  /\ evidence' = Append(evidence,
                  [tool |-> c.tool, outcome |-> outcome, saved |-> c.saved,
                   start |-> c.start, wrote |-> ToSet(c.wrote), alone |-> c.alone,
                   changed |-> {f \in PatchedBy(c.tool) :
                                   Plain(disk[f]) # Plain(c.start[f])},
                   over |-> {}])
           /\ sealed' = IF sealed = a /\ c.tool = "reseal" /\ outcome = "applied"
                         THEN "yes" ELSE sealed
    /\ runs' = [runs EXCEPT ![a] = Rest]

EndRun(a) ==
    /\ runs[a] # Rest /\ runs[a].todo = <<>>
    /\ EndAs(a, IF runs[a].failed THEN "failed" ELSE "applied")
    /\ UNCHANGED <<disk, seal, moved, users, left>>

\* Mutant: the undo forgets the file it wrote last.
UndoneButLast(c) ==
    IF c.tool = "outbound" /\ c.wrote # <<>>
    THEN Each("undo", Reverse(Front(c.wrote))) ELSE <<>>

\* What the catch of a tool does.  The hotfixes of index.html restore the copy
\* once they have one, the outbound boundary and the configuration repair put
\* back the text they had read, and every other tool leaves what it wrote.
Undo(c) ==
    IF c.tool \in {"layout", "dashboard"} /\ "index" \in DOMAIN c.saved
    THEN Each("restore", <<"index">>)
    ELSE IF c.tool = "outbound" THEN Each("undo", Reverse(c.wrote))
    ELSE IF c.tool \in {"tools", "doctor"} /\ c.wrote # <<>>
    THEN InTurn(<<"undoAnchor", "undo">>, <<"config">>)
    ELSE <<>>

PastCatch(c) == c.todo # <<>> /\ Head(c.todo)[1] = "report"

\* An exception: of a step, or of a check the run makes.  One of the catch itself,
\* or past it, ends the run as it is.
Throw(a) ==
    IF runs[a].failed THEN EndAs(a, "cut")
    ELSE IF PastCatch(runs[a]) THEN EndAs(a, "unreported")
    ELSE /\ runs' = [runs EXCEPT ![a].todo = Undo(runs[a]), ![a].failed = TRUE]
         /\ UNCHANGED <<evidence, sealed>>

StepFails(a) ==
    /\ runs[a] # Rest /\ runs[a].todo # <<>> /\ left["fail"] > 0
    /\ left' = [left EXCEPT !["fail"] = @ - 1]
    /\ Throw(a)
    /\ UNCHANGED <<disk, seal, moved, users>>

-----------------------------------------------------------------------------
(* Looking at files and keeping copies of them *)

With(copies, f, text) ==
    [g \in DOMAIN copies \cup {f} |-> IF g = f THEN text ELSE copies[g]]

Read(a) ==
    /\ At(a, {"read"})
    /\ Going(a, [runs[a] EXCEPT !.held = With(@, File(a), disk[File(a)])])
    /\ UNCHANGED <<disk, seal, sealed, moved, evidence, users, left>>

\* A hash the user took from the dry run, the marker of an earlier tool, the text
\* written, a marker in it, a file against its seal.
Compared(c, do, f) ==
    CASE do = "guard"     -> disk[f] = c.start[f]
      [] do = "require"   -> "update" \in disk[f]
      [] do = "assert"    -> c.tool \in disk[f]
      [] do = "protected" -> TRUE
      [] do = "verify"    -> disk[f] = seal[f]
      [] do \in {"readback", "undoAnchor"} -> disk[f] = c.held[f] \cup {c.tool}

\* Mutant: the configuration is replaced whatever is in it by now.
PassesUnanchored(c, do, f) == do = "anchor" \/ Compared(c, do, f)

Passes(c, do, f) ==
    IF do = "anchor" THEN disk[f] = c.held[f] ELSE Compared(c, do, f)

Check(a) ==
    /\ At(a, {"guard", "require", "anchor", "undoAnchor", "readback", "assert",
              "protected", "verify"})
    /\ LET do == Head(runs[a].todo)[1]
       IN  IF Passes(runs[a], do, File(a))
           THEN /\ Going(a, runs[a])
                /\ moved' = IF do = "verify" THEN moved \ {File(a)} ELSE moved
                /\ UNCHANGED <<evidence, sealed>>
           ELSE Throw(a) /\ UNCHANGED moved
    /\ UNCHANGED <<disk, seal, users, left>>

Torn == {"torn"}
Changes(c, f) == c.tool \notin c.held[f]

\* A copy of the file, of the text the run has read, or of a chunk that a chunk of
\* another name replaced and that goes now.  A configuration that needs no change
\* is the end of its repair.
Backup(a) ==
    /\ At(a, {"backup", "backupIf", "keep", "stale"})
    /\ LET c == runs[a]
           f == File(a)
           do == Head(c.todo)[1]
           copy == IF do \in {"keep", "stale"} THEN c.held[f] ELSE disk[f]
       IN  IF \/ do = "backupIf" /\ ~Changes(c, f)
              \/ do = "stale" /\ f \notin DOMAIN c.held
           THEN Going(a, c)
           ELSE IF c.tool \in {"tools", "doctor"} /\ ~Changes(c, f)
           THEN runs' = [runs EXCEPT ![a].todo = <<>>]
           ELSE Going(a, [c EXCEPT !.saved = With(@, f, copy)])
    /\ UNCHANGED <<disk, seal, sealed, moved, evidence, users, left>>

\* patchConfig of the doctor: a configuration without the codex route is fine as
\* it is; one with it is refused when the plugin is not installed.
CodexRoute(a) ==
    /\ At(a, {"route"})
    /\ \/ Going(a, runs[a]) /\ UNCHANGED <<evidence, sealed>>
       \/ EndAs(a, "compliant")
       \/ Throw(a)
    /\ UNCHANGED <<disk, seal, moved, users, left>>

\* copyOptionalLogo
LogoSource(a) ==
    /\ At(a, {"source"})
    /\ Going(a, runs[a]) \/ runs' = [runs EXCEPT ![a].todo = <<>>]
    /\ UNCHANGED <<disk, seal, sealed, moved, evidence, users, left>>

-----------------------------------------------------------------------------
(* Writing files *)

Put(a, f, content) ==
    /\ disk' = [disk EXCEPT ![f] = content]
    /\ moved' = moved \cup {f}
    /\ Going(a, [runs[a] EXCEPT !.wrote = Append(@, f)])

\* Mutant: the text is made from the build and not from what was read.
PatchedFromBuild(before, tool) == {tool}
Patched(before, tool) == before \cup {tool}

\* The patched text of what was read.  There is no anchor in a torn text, and no
\* need of one to append to it.
Write(a) ==
    /\ At(a, {"write", "replace", "append"} \cup Always)
    /\ LET c == runs[a]
           f == File(a)
       IN  IF Torn \subseteq c.held[f] /\ ~At(a, {"append"})
           THEN Throw(a) /\ UNCHANGED <<disk, moved>>
           ELSE /\ IF Changes(c, f) \/ Head(c.todo)[1] \in Always
                   THEN Put(a, f, Patched(c.held[f], c.tool))
                   ELSE Going(a, c) /\ UNCHANGED <<disk, moved>>
                /\ UNCHANGED <<evidence, sealed>>
    /\ UNCHANGED <<seal, users, left>>

\* Text that another tool had applied is replaced on purpose.
Overwritten(f) ==
    evidence' = [i \in DOMAIN evidence |-> [evidence[i] EXCEPT !.over = @ \cup {f}]]

\* A file of the lab build or of the repository takes its place.
CopyIn(a) ==
    /\ At(a, {"copy"})
    /\ Put(a, File(a), {"lab", runs[a].tool})
    /\ Overwritten(File(a))
    /\ UNCHANGED <<seal, sealed, users, left>>

\* The bridge chunk of the lab build: over the live one when it has the same
\* name, else beside it.  From then on it is the chunk the other tools find.
SwapChunk(a) ==
    /\ At(a, {"swap"})
    /\ \E sameName \in BOOLEAN :
          LET c == runs[a]
              f == File(a)
              stale == IF sameName THEN c.held ELSE With(c.held, f, disk[f])
          IN  Going(a, [c EXCEPT !.held = stale])
    /\ disk' = [disk EXCEPT ![File(a)] = {"lab"}]
    /\ moved' = moved \cup {File(a)}
    /\ Overwritten(File(a))
    /\ UNCHANGED <<seal, sealed, users, left>>

\* repairDeviceMetadataLoop: a transaction on what is there now.
RepairDevice(a) ==
    /\ At(a, {"device"})
    /\ Put(a, File(a), disk[File(a)] \cup {runs[a].tool})
    /\ UNCHANGED <<seal, sealed, evidence, users, left>>

\* A copy put back: by a catch, or by the rollback of a repair.
Restore(a) ==
    /\ At(a, {"restore"})
    /\ Put(a, File(a), runs[a].saved[File(a)])
    /\ IF runs[a].tool = "rollback" THEN Overwritten(File(a)) ELSE UNCHANGED evidence
    /\ UNCHANGED <<seal, sealed, users, left>>

PutBack(a) ==
    /\ At(a, {"undo"})
    /\ Put(a, File(a), runs[a].held[File(a)])
    /\ UNCHANGED <<seal, sealed, evidence, users, left>>

WriteReport(a) ==
    /\ At(a, {"report"})
    /\ Going(a, runs[a])
    /\ UNCHANGED <<disk, seal, sealed, moved, evidence, users, left>>

\* The manifest records the tree as it was when it was read.
WriteSeal(a) ==
    /\ At(a, {"writeSeal"})
    /\ seal' = [f \in ToSet(Release) |-> runs[a].held[f]]
    /\ moved' = {} /\ sealed' = a
    /\ Going(a, runs[a])
    /\ UNCHANGED <<disk, evidence, users, left>>

\* Killed.  writeFile truncates first; copies, renames and restores are whole.
Crash(a) ==
    /\ runs[a] # Rest /\ left["crash"] > 0
    /\ left' = [left EXCEPT !["crash"] = @ - 1]
    /\ \/ /\ UNCHANGED <<disk, moved>>
          /\ EndAs(a, "cut")
       \/ /\ At(a, {"write", "rewrite", "append"})
          /\ ~(Torn \subseteq runs[a].held[File(a)])
          /\ Changes(runs[a], File(a)) \/ At(a, {"rewrite"})
          /\ disk' = [disk EXCEPT ![File(a)] = Torn]
          /\ moved' = moved \cup {File(a)}
          /\ LET c == runs[a]
             IN  evidence' = Append(evidence,
                    [tool |-> c.tool, outcome |-> "cut", saved |-> c.saved,
                     start |-> c.start, wrote |-> ToSet(c.wrote) \cup {File(a)},
                     alone |-> c.alone, changed |-> {File(a)}, over |-> {}])
          /\ runs' = [runs EXCEPT ![a] = Rest] /\ UNCHANGED sealed
    /\ UNCHANGED <<seal, users>>

\* A run is about to write a file from an earlier look at it.
About(c, f) ==
    /\ c # Rest
    /\ \E i \in DOMAIN c.todo :
          /\ c.todo[i][2] = f
          /\ c.todo[i][1] \in Always \cup {"replace", "append", "copy", "undo"}
          /\ \A j \in 1..(i - 1) :
                ~(c.todo[j][2] = f
                  /\ c.todo[j][1] \in {"read", "backup", "anchor", "undoAnchor"})

\* The gateway, or the user, changes a file of the state home.
UserWrites ==
    /\ left["user"] > 0
    /\ left' = [left EXCEPT !["user"] = @ - 1]
    /\ \E f \in UserFiles :
          LET n == Len(users) + 1
          IN  /\ n \in DOMAIN UserMarks /\ ~(Torn \subseteq disk[f])
              /\ disk' = [disk EXCEPT ![f] = @ \cup {UserMarks[n]}]
              /\ users' = Append(users,
                    [file |-> f, exposed |-> \E a \in Actors : About(runs[a], f),
                     copied |-> \E a \in Actors :
                        runs[a] # Rest /\ f \in DOMAIN runs[a].saved])
    /\ UNCHANGED <<seal, sealed, moved, runs, evidence>>

PatchesInit(events) ==
    /\ disk = [f \in Files |-> {}]
    /\ seal = [f \in ToSet(Release) |-> {}]
    /\ sealed = "yes" /\ moved = {}
    /\ runs = [a \in Actors |-> Rest]
    /\ evidence = <<>> /\ users = <<>>
    /\ left = events

PatchesNext ==
    \/ UserWrites
    \/ \E a \in Actors :
          \/ BeginTool(a) \/ BeginRollback(a) \/ EndRun(a)
          \/ StepFails(a) \/ Crash(a)
          \/ Read(a) \/ Check(a) \/ Backup(a) \/ CodexRoute(a) \/ LogoSource(a)
          \/ Write(a)
          \/ CopyIn(a) \/ SwapChunk(a) \/ RepairDevice(a)
          \/ Restore(a) \/ PutBack(a) \/ WriteReport(a) \/ WriteSeal(a)

-----------------------------------------------------------------------------
(* Properties *)

\* Whatever happens to a run that no other run overlapped - it ends, it fails, it
\* is killed - each file it wrote has a copy of the text from before the run.
\* The route patch keeps no copies, the hardening none of the kernel, and of the
\* user's files SettingsKept speaks.
RestorePoint ==
    \A r \in ToSet(evidence) :
        r.alone /\ r.tool \notin {"route", "rollback"} =>
            \A f \in r.wrote \ (UserFiles \cup {"kernel"}) :
                f \in DOMAIN r.saved /\ r.saved[f] = r.start[f]

\* What a run reported as applied, no run overlapping it, stays in its files
\* through every later run, overlapping or not, failing and undoing itself or
\* not, until a lab copy, a rollback or a torn write takes the file's place.
AppliedStays ==
    \A r \in ToSet(evidence) :
        r.alone /\ r.outcome = "applied" =>
            \A f \in PatchedBy(r.tool) \ r.over :
                r.tool \in disk[f] \/ Torn \subseteq disk[f]

\* A tool that undoes itself leaves, when it fails, the files it patches as they
\* were before the run, but for what the user wrote meanwhile, if no other run
\* overlapped it; and when it fails past its catch, which the outbound boundary
\* does when its report cannot be written, every file patched.  No failure that the
\* tool lives through leaves some of its files patched and some not.
UndoneWhole ==
    \A r \in ToSet(evidence) :
        r.alone /\ r.tool \in {"layout", "dashboard", "outbound", "tools", "doctor"} =>
            /\ r.outcome = "failed" => r.changed = {}
            /\ r.outcome = "unreported" =>
                  \A f \in PatchedBy(r.tool) : f \in r.changed \/ r.tool \in r.start[f]

\* A manifest that a reseal reported as verified records the release as it is,
\* but for what was written since its verification looked at it: a patch that
\* falls between reading the tree and renaming the manifest does not go unseen.
SealHonest ==
    sealed = "yes" => \A f \in ToSet(Release) \ moved : seal[f] = disk[f]

\* What the user or the gateway wrote into the state home is in its file or in a
\* copy of a run, unless it was written between a run's last look at the file and
\* its write, or before a kill that tore the file and after the copy of it was
\* made, or before one that tore the note of the day, or a repair was rolled back,
\* which restores the whole device store.
SettingsKept ==
    \A n \in DOMAIN users :
        LET f == users[n].file
            mark == UserMarks[n]
            copies == {r.saved : r \in ToSet(evidence)}
                      \cup {runs[a].saved : a \in {b \in Actors : runs[b] # Rest}}
        IN  \/ users[n].exposed \/ mark \in disk[f]
            \/ \E s \in copies : f \in DOMAIN s /\ mark \in s[f]
            \/ (users[n].copied \/ f = "note") /\ Torn \subseteq disk[f]
            \/ f = "state" /\ \E r \in ToSet(evidence) : f \in r.over
=============================================================================
