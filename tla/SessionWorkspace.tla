--------------------------- MODULE SessionWorkspace ---------------------------
(***************************************************************************)
(* The local session workspace (src/src/core/session-workspace.js): one     *)
(* JSON file that applySessionWorkspaceAction reads, changes and rewrites,   *)
(* and an audit event appended after the write. The HTTP server and the CLI  *)
(* run it on the same directory without a lock.                             *)
(*                                                                          *)
(* A session is its id and its state; titles, pins and timestamps are data   *)
(* no property is about, so rename and toggle_pin are one action that only    *)
(* rewrites the file. Ids are numbers: 1.. for the sessions of the default   *)
(* workspace, and one of its own for each call, which is the millisecond a   *)
(* new session's id embeds. Of the audit log the events of new_session are    *)
(* kept. A call that is blocked or answers "review" writes nothing and is no  *)
(* step.                                                                     *)
(***************************************************************************)
EXTENDS Naturals, SequencesExt

CONSTANTS
    Actors,         \* processes that run calls on the shared directory
    MaxCalls,       \* calls a behaviour makes
    MaxCrashes      \* calls a crash cuts short

ASSUME WorkspaceAssumption ==
    MaxCalls \in Nat /\ MaxCrashes \in Nat

VARIABLES
    file,       \* session-workspace.json
    audited,    \* ids in the new_session events of events/audit.jsonl
    calls,      \* calls made so far (bounds the model)
    pc,         \* where each process is in its call
    held,       \* the workspace a process is about to write, and new ids in it
    crashes     \* calls cut short so far (bounds the model)

vars == <<file, audited, calls, pc, held, crashes>>

Selectable == {"active", "draft", "waiting_approval", "blocked"}
Shelved    == {"archived", "delete_pending"}
Nobody     == 0

Session(id, state) == [id |-> id, state |-> state]

\* defaultSessionWorkspaceState, served as long as there is no file.
DefaultSessions ==
    <<Session(1, "active"), Session(2, "draft"), Session(3, "waiting_approval"),
      Session(4, "blocked"), Session(5, "archived"), Session(6, "delete_pending")>>

Workspace(sessions, activeId) == [sessions |-> sessions, activeId |-> activeId]
NewId == Len(DefaultSessions) + calls + 1

IdsIn(sessions) == {s.id : s \in ToSet(sessions)}

\* Array.find: the id of the first session that passes the test, or Nobody.
FirstIn(sessions, states, excluded) ==
    LET found == {i \in DOMAIN sessions :
                    sessions[i].state \in states /\ sessions[i].id # excluded}
    IN  IF found = {} THEN Nobody ELSE sessions[Min(found)].id

-----------------------------------------------------------------------------
(* Normalization, on every read and on every write. *)

\* Mutant: the preferred session becomes active even from a shelf.
EnsureOneActiveAnywhere(sessions, preferred) ==
    [i \in DOMAIN sessions |->
        CASE sessions[i].id = preferred -> [sessions[i] EXCEPT !.state = "active"]
          [] sessions[i].id # preferred /\ sessions[i].state = "active"
                -> [sessions[i] EXCEPT !.state = "draft"]
          [] OTHER -> sessions[i]]

EnsureOneActive(sessions, preferred) ==
    [i \in DOMAIN sessions |->
        CASE sessions[i].id = preferred /\ sessions[i].state \in Selectable
                -> [sessions[i] EXCEPT !.state = "active"]
          [] sessions[i].id # preferred /\ sessions[i].state = "active"
                -> [sessions[i] EXCEPT !.state = "draft"]
          [] OTHER -> sessions[i]]

Normalize(w) ==
    LET known    == w.activeId \in IdsIn(w.sessions)
        active   == FirstIn(w.sessions, {"active"}, Nobody)
        activeId == CASE known                       -> w.activeId
                      [] ~known /\ active # Nobody  -> active
                      [] OTHER                       -> w.sessions[1].id
        sessions == EnsureOneActive(w.sessions, activeId)
        settled  == FirstIn(sessions, {"active"}, Nobody)
    IN  Workspace(sessions, IF settled # Nobody THEN settled ELSE activeId)

DefaultWorkspace == Normalize(Workspace(DefaultSessions, 1))

-----------------------------------------------------------------------------
(* The eight mutating actions, as what they make of a workspace. *)

StateOf(w, id) == (CHOOSE s \in ToSet(w.sessions) : s.id = id).state

\* sessions.map on the one session whose state is in `from`.
Moved(sessions, id, from, to) ==
    [i \in DOMAIN sessions |->
        IF sessions[i].id = id /\ sessions[i].state \in from
        THEN [sessions[i] EXCEPT !.state = to] ELSE sessions[i]]

\* The session that was active becomes a draft when another one takes over.
Demoted(sessions) ==
    [i \in DOMAIN sessions |->
        IF sessions[i].state = "active"
        THEN [sessions[i] EXCEPT !.state = "draft"] ELSE sessions[i]]

NewSession(w, id) ==
    Workspace(<<Session(id, "active")>> \o Demoted(w.sessions), id)

SelectSession(w, id) ==
    Workspace(Moved(Demoted(w.sessions), id, Selectable, "active"), id)

\* Mutant: what is marked for deletion is deleted.
PutAwayOrDelete(w, id, to) ==
    LET moved == Moved(w.sessions, id, Selectable \cup Shelved, to)
        next  == IF w.activeId = id THEN FirstIn(moved, Selectable, id) ELSE w.activeId
        kept  == SelectSeq(moved, LAMBDA s : s.state # "delete_pending" \/ s.id # id)
    IN  Workspace(EnsureOneActive(kept, next), next)

\* archive and mark_delete_pending; null leaves an active session preferred.
PutAway(w, id, to) ==
    LET moved == Moved(w.sessions, id, Selectable \cup Shelved, to)
        next  == IF w.activeId = id THEN FirstIn(moved, Selectable, id) ELSE w.activeId
        preferred == IF next # Nobody THEN next ELSE FirstIn(moved, {"active"}, Nobody)
    IN  Workspace(EnsureOneActive(moved, preferred), next)

Restore(w, id) == [w EXCEPT !.sessions = Moved(@, id, Shelved, "draft")]

CancelDeletePending(w, id) ==
    [w EXCEPT !.sessions = Moved(@, id, {"delete_pending"}, "draft")]

-----------------------------------------------------------------------------
(* Calls: read and compute, rewrite the file, append the audit event. *)

Readable == file.status # "torn"

\* A file cut short by a crash makes JSON.parse throw: no call reads it.
ReadSessionWorkspaceState ==
    IF file.status = "absent" THEN DefaultWorkspace ELSE Normalize(file.workspace)

Begin(a, w, created) ==
    /\ pc[a] = "idle"
    /\ Readable
    /\ calls < MaxCalls
    /\ calls' = calls + 1
    /\ pc' = [pc EXCEPT ![a] = "write"]
    /\ held' = [held EXCEPT ![a] = [workspace |-> Normalize(w), created |-> created]]
    /\ UNCHANGED <<file, audited, crashes>>

ApplyNewSession(a) ==
    Begin(a, NewSession(ReadSessionWorkspaceState, NewId), {NewId})

\* Every other action needs a target in the workspace it read.
ApplyTo(a, id, Allowed(_), Change(_)) ==
    LET w == ReadSessionWorkspaceState IN
    /\ pc[a] = "idle"
    /\ id \in IdsIn(w.sessions)
    /\ Allowed(StateOf(w, id))
    /\ Begin(a, Change(w), {})

AnyState(state) == TRUE

ApplySelect(a, id) ==
    ApplyTo(a, id, LAMBDA state : state \notin Shelved, LAMBDA w : SelectSession(w, id))

ApplyRenameOrTogglePin(a, id) == ApplyTo(a, id, AnyState, LAMBDA w : w)

ApplyArchive(a, id) ==
    ApplyTo(a, id, AnyState, LAMBDA w : PutAway(w, id, "archived"))

ApplyMarkDeletePending(a, id) ==
    ApplyTo(a, id, AnyState, LAMBDA w : PutAway(w, id, "delete_pending"))

ApplyRestore(a, id) == ApplyTo(a, id, AnyState, LAMBDA w : Restore(w, id))

ApplyCancelDeletePending(a, id) ==
    ApplyTo(a, id, AnyState, LAMBDA w : CancelDeletePending(w, id))

WriteSessionWorkspaceState(a) ==
    /\ pc[a] = "write"
    /\ file' = [status |-> "whole", workspace |-> held[a].workspace]
    /\ pc' = [pc EXCEPT ![a] = "audit"]
    /\ UNCHANGED <<audited, calls, held, crashes>>

Idle == [workspace |-> DefaultWorkspace, created |-> {}]

\* Mutant: the audit event is left out.
AppendNoAuditEvent(a) ==
    /\ pc[a] = "audit"
    /\ pc' = [pc EXCEPT ![a] = "idle"]
    /\ held' = [held EXCEPT ![a] = Idle]
    /\ UNCHANGED <<file, audited, calls, crashes>>

AppendAuditEvent(a) ==
    /\ pc[a] = "audit"
    /\ audited' = audited \cup held[a].created
    /\ pc' = [pc EXCEPT ![a] = "idle"]
    /\ held' = [held EXCEPT ![a] = Idle]
    /\ UNCHANGED <<file, calls, crashes>>

\* The process dies between two file accesses, or in the rewrite after the
\* file was truncated.
Crash(a) ==
    /\ pc[a] # "idle"
    /\ crashes < MaxCrashes
    /\ crashes' = crashes + 1
    /\ \/ UNCHANGED file
       \/ pc[a] = "write" /\ file' = [file EXCEPT !.status = "torn"]
    /\ pc' = [pc EXCEPT ![a] = "idle"]
    /\ held' = [held EXCEPT ![a] = Idle]
    /\ UNCHANGED <<audited, calls>>

Init ==
    /\ file = [status |-> "absent", workspace |-> DefaultWorkspace]
    /\ audited = {}
    /\ calls = 0
    /\ pc = [a \in Actors |-> "idle"]
    /\ held = [a \in Actors |-> Idle]
    /\ crashes = 0

AllIds == 1 .. Len(DefaultSessions) + MaxCalls

Next ==
    \E a \in Actors :
        \/ ApplyNewSession(a)
        \/ \E id \in AllIds :
            \/ ApplySelect(a, id)
            \/ ApplyRenameOrTogglePin(a, id)
            \/ ApplyArchive(a, id)
            \/ ApplyMarkDeletePending(a, id)
            \/ ApplyRestore(a, id)
            \/ ApplyCancelDeletePending(a, id)
        \/ WriteSessionWorkspaceState(a)
        \/ AppendAuditEvent(a)
        \/ Crash(a)

Spec == Init /\ [][Next]_vars

-----------------------------------------------------------------------------
(* Properties *)

\* No permanent delete: a session whose creation is in the audit log is in the
\* workspace, which only a crash makes unreadable.  True of one process at a time.
NoSessionLost ==
    (Readable \/ crashes > 0) /\ audited \subseteq IdsIn(file.workspace.sessions)

\* The file is written before the audit event: a session of the file without
\* its event is one whose call is between the two or was cut short there,
\* however other processes rewrite the file from older reads.
UnauditedBounded ==
    LET created == IdsIn(file.workspace.sessions) \ IdsIn(DefaultSessions) IN
    Cardinality(created \ audited)
        <= Cardinality({a \in Actors : pc[a] = "audit"}) + crashes

\* verifySessionWorkspaceBehavior finds no "missing_active_session" as long as
\* a session can be worked in.
ActiveWhenSelectable ==
    \A w \in {file.workspace} :
        (\E s \in ToSet(w.sessions) : s.state \in Selectable)
            => \E s \in ToSet(w.sessions) : s.state = "active"

-----------------------------------------------------------------------------
(* The abstract pool: shelves instead of states, and the active session. *)

ShelfOf(id) ==
    IF id \notin IdsIn(file.workspace.sessions) THEN "absent"
    ELSE LET state == StateOf(file.workspace, id)
         IN  IF state \in Shelved THEN state ELSE "open"

Pool == INSTANCE SessionPool WITH
    Ids <- AllIds,
    Nobody <- Nobody,
    shelf <- [id \in AllIds |-> ShelfOf(id)],
    current <- FirstIn(file.workspace.sessions, {"active"}, Nobody)

\* One process keeps every promise of the pool: nothing is deleted, one session
\* at most is active, and it changes only as the user asks.
ImplementsPool == Pool!Spec
=============================================================================
