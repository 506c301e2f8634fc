--------------------------- MODULE InstalledRelease ---------------------------
(***************************************************************************)
(* What the installer promises about the programs it manages, whatever       *)
(* files and steps it takes:                                                *)
(*                                                                          *)
(* An install or a rollback takes effect at once and as a whole. No change   *)
(* takes effect, in whole or in part, before what it replaces is kept, what  *)
(* is kept stays, and a rollback brings back only what is kept. A program    *)
(* is lost or left half replaced only through a fault: a crash, or an undo   *)
(* that fails; even then each target is the old one, the new one, or         *)
(* missing, and no target outside of the change is touched.                  *)
(***************************************************************************)
EXTENDS Naturals

CONSTANTS
    Versions,   \* releases that can be installed
    Ids         \* identities an install can have

VARIABLES
    installed,  \* target -> content; a missing target is {}
    kept,       \* what changes have replaced, as functions target -> content
    faults      \* crashes and failed steps so far

releaseVars == <<installed, kept, faults>>

Targets == {"node", "current", "config", "plist"} \cup Versions

\* A change gives some targets a new content.
InstallOf(id, version) ==
    [t \in {"node", version, "current", "config", "plist"} |->
        IF t = "current" THEN {version} ELSE {id}]

Changes == {InstallOf(id, v) : id \in Ids, v \in Versions} \cup kept

\* The first operation finds some disk, and the snapshots there are.
Init ==
    /\ DOMAIN installed = Targets
    /\ faults = 0

ReplacedBy(c) == [t \in DOMAIN c |-> installed[t]]

Keep(c) ==
    /\ kept' = kept \cup {ReplacedBy(c)}
    /\ UNCHANGED <<installed, faults>>

Commit(c) ==
    /\ ReplacedBy(c) \in kept
    /\ installed' = [t \in Targets |-> IF t \in DOMAIN c THEN c[t] ELSE installed[t]]
    /\ UNCHANGED <<kept, faults>>

Install(id, version) == Commit(InstallOf(id, version))

RollBack(c) == c \in kept /\ Commit(c)

\* Some of the change is left behind.
Torn(c) ==
    /\ ReplacedBy(c) \in kept
    /\ DOMAIN installed' = Targets
    /\ \A t \in Targets :
        installed'[t] \in {installed[t]} \cup (IF t \in DOMAIN c THEN {{}, c[t]} ELSE {})

Fault ==
    /\ faults' = faults + 1
    /\ UNCHANGED installed \/ \E c \in Changes : Torn(c)
    /\ UNCHANGED kept

Next ==
    \/ \E c \in Changes : Keep(c)
    \/ \E id \in Ids, v \in Versions : Install(id, v)
    \/ \E c \in kept : RollBack(c)
    \/ Fault

Spec == Init /\ [][Next]_releaseVars
=============================================================================
