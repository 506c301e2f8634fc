------------------------ MODULE SessionWorkspace_proofs -----------------------
(***************************************************************************)
(* Theorems about SessionWorkspace, for any number of processes, calls and   *)
(* crashes where nothing else is said, and for one process at a time where   *)
(* several would break the promise (they do: see the runs).                  *)
(***************************************************************************)
EXTENDS SessionWorkspace, SequenceTheorems, FiniteSetTheorems, WellFoundedInduction, TLAPS

(***************************************************************************)
(* Workspaces in order.                                                     *)
(***************************************************************************)

States  == Selectable \cup Shelved
Entries == [id : Nat \ {0}, state : States]

\* Sessions of a file: one per id.
Listed(sessions) ==
    /\ sessions \in Seq(Entries)
    /\ \A i, j \in DOMAIN sessions : sessions[i].id = sessions[j].id => i = j

\* The session at place k is the active one, or the one that was and is shelved.
CentredOn(w, k) ==
    /\ k \in DOMAIN w.sessions
    /\ w.activeId = w.sessions[k].id
    /\ w.sessions[k].state \in Shelved \cup {"active"}
    /\ \A i \in DOMAIN w.sessions : i # k => w.sessions[i].state # "active"

Settled(w) ==
    /\ w = Workspace(w.sessions, w.activeId)
    /\ Listed(w.sessions)
    /\ \E k \in DOMAIN w.sessions : CentredOn(w, k)

\* The same sessions at the same places, in whatever state.
SameIds(s, t) ==
    /\ DOMAIN t = DOMAIN s
    /\ \A i \in DOMAIN s : t[i].id = s[i].id

\* A set of numbers has its least element.
LEMMA MinIn ==
    ASSUME NEW S \in SUBSET Nat, S # {}
    PROVE  Min(S) \in S
  <1> DEFINE Less == {ss \in Nat \X Nat : ss[1] < ss[2]}
  <1>1. IsWellFoundedOn(Less, Nat)
    BY NatLessThanWellFounded DEF OpToRel
  <1> HIDE DEF Less
  <1>2. PICK x \in S : \A y \in S : ~ (<<y, x>> \in Less)
    BY <1>1, WFMin
  <1>3. ASSUME NEW y \in S PROVE x =< y
    <2>1. x \in Nat /\ y \in Nat /\ <<y, x>> \notin Less
      BY <1>2
    <2>2. y < x => <<y, x>> \in Less
      BY <2>1 DEF Less
    <2> QED BY <2>1, <2>2
  <1> QED BY <1>3 DEF Min

\* What is at the places of a list of sessions.
LEMMA ListedPlaces ==
    ASSUME NEW s, Listed(s)
    PROVE  /\ DOMAIN s = 1 .. Len(s) /\ Len(s) \in Nat
           /\ \A i \in DOMAIN s : i \in Nat /\ s[i] \in Entries /\ s[i].id \in Nat \ {0}
                /\ s[i].state \in States /\ s[i] = Session(s[i].id, s[i].state)
  <1>1. s \in [1 .. Len(s) -> Entries] /\ Len(s) \in Nat /\ DOMAIN s = 1 .. Len(s)
    BY LenProperties DEF Listed
  <1> QED BY <1>1 DEF Entries, Session

\* An id is in the list when some place has it.
LEMMA PlaceOfId ==
    ASSUME NEW s, NEW id
    PROVE  id \in IdsIn(s) <=> \E i \in DOMAIN s : s[i].id = id
  BY DEF IdsIn, ToSet

\* Array.find finds a session that passes the test, when there is one.
LEMMA FirstFound ==
    ASSUME NEW s, Listed(s), NEW T, NEW out
    PROVE  \/ /\ FirstIn(s, T, out) = Nobody
              /\ \A i \in DOMAIN s : ~ (s[i].state \in T /\ s[i].id # out)
           \/ \E i \in DOMAIN s : /\ s[i].state \in T /\ s[i].id # out
                                  /\ FirstIn(s, T, out) = s[i].id
  <1> DEFINE found == {i \in DOMAIN s : s[i].state \in T /\ s[i].id # out}
  <1>1. found \in SUBSET Nat
    BY ListedPlaces
  <1>2. CASE found = {}
    BY <1>2 DEF FirstIn
  <1>3. CASE found # {}
    <2>1. Min(found) \in found
      BY <1>1, <1>3, MinIn
    <2>2. FirstIn(s, T, out) = s[Min(found)].id
      BY <1>3 DEF FirstIn
    <2> QED BY <2>1, <2>2
  <1> QED BY <1>2, <1>3

\* Maps that change states only.
LEMMA RestatedListed ==
    ASSUME NEW s, Listed(s), NEW t, DOMAIN t = DOMAIN s, t = [i \in DOMAIN s |-> t[i]],
           \A i \in DOMAIN s : t[i] \in Entries /\ t[i].id = s[i].id
    PROVE  Listed(t) /\ SameIds(s, t) /\ Len(t) = Len(s) /\ IdsIn(t) = IdsIn(s)
  <1>1. t \in [1 .. Len(s) -> Entries] /\ Len(s) \in Nat
    BY ListedPlaces
  <1>2. t \in Seq(Entries)
    BY <1>1
  <1>3. Listed(t)
    BY <1>2 DEF Listed
  <1>4. Len(t) = Len(s)
    BY <1>1, <1>2
  <1>5. IdsIn(t) = IdsIn(s)
    BY DEF IdsIn, ToSet
  <1> QED BY <1>3, <1>4, <1>5 DEF SameIds

\* Moved changes the state of one session, and nothing else.
LEMMA MovedFacts ==
    ASSUME NEW s, Listed(s), NEW id, NEW from, NEW to \in States
    PROVE  LET t == Moved(s, id, from, to) IN
           /\ Listed(t) /\ SameIds(s, t) /\ IdsIn(t) = IdsIn(s)
           /\ \A i \in DOMAIN s : t[i].state =
                IF s[i].id = id /\ s[i].state \in from THEN to ELSE s[i].state
  <1> DEFINE t == Moved(s, id, from, to)
  <1>0. \A i \in DOMAIN s : s[i] \in Entries
    BY ListedPlaces
  <1>1. DOMAIN t = DOMAIN s /\ t = [i \in DOMAIN s |-> t[i]]
    BY DEF Moved
  <1>2. \A i \in DOMAIN s : /\ t[i] \in Entries /\ t[i].id = s[i].id
                            /\ t[i].state = IF s[i].id = id /\ s[i].state \in from
                                            THEN to ELSE s[i].state
    BY <1>0 DEF Moved, Entries
  <1> HIDE DEF t
  <1>3. Listed(t) /\ SameIds(s, t) /\ IdsIn(t) = IdsIn(s)
    BY <1>1, <1>2, RestatedListed
  <1> QED BY <1>2, <1>3 DEF t

\* Demoted makes drafts of the active sessions.
LEMMA DemotedFacts ==
    ASSUME NEW s, Listed(s)
    PROVE  LET t == Demoted(s) IN
           /\ Listed(t) /\ SameIds(s, t) /\ IdsIn(t) = IdsIn(s)
           /\ \A i \in DOMAIN s : t[i].state =
                IF s[i].state = "active" THEN "draft" ELSE s[i].state
  <1> DEFINE t == Demoted(s)
  <1>0. \A i \in DOMAIN s : s[i] \in Entries
    BY ListedPlaces
  <1>1. DOMAIN t = DOMAIN s /\ t = [i \in DOMAIN s |-> t[i]]
    BY DEF Demoted
  <1>2. \A i \in DOMAIN s : /\ t[i] \in Entries /\ t[i].id = s[i].id
                            /\ t[i].state = IF s[i].state = "active" THEN "draft"
                                            ELSE s[i].state
    BY <1>0 DEF Demoted, Entries, States, Selectable
  <1> HIDE DEF t
  <1>3. Listed(t) /\ SameIds(s, t) /\ IdsIn(t) = IdsIn(s)
    BY <1>1, <1>2, RestatedListed
  <1> QED BY <1>2, <1>3 DEF t

\* EnsureOneActive makes the preferred session active, if it may be, and no other.
LEMMA OneActiveFacts ==
    ASSUME NEW s, Listed(s), NEW id
    PROVE  LET t == EnsureOneActive(s, id) IN
           /\ Listed(t) /\ SameIds(s, t) /\ IdsIn(t) = IdsIn(s)
           /\ \A i \in DOMAIN s : t[i].state =
                CASE s[i].id = id /\ s[i].state \in Selectable -> "active"
                  [] s[i].id # id /\ s[i].state = "active" -> "draft"
                  [] OTHER -> s[i].state
  <1> DEFINE t == EnsureOneActive(s, id)
  <1>0. \A i \in DOMAIN s : s[i] \in Entries
    BY ListedPlaces
  <1>1. DOMAIN t = DOMAIN s /\ t = [i \in DOMAIN s |-> t[i]]
    BY DEF EnsureOneActive
  <1>2. \A i \in DOMAIN s :
            /\ t[i] \in Entries /\ t[i].id = s[i].id
            /\ t[i].state = CASE s[i].id = id /\ s[i].state \in Selectable -> "active"
                              [] s[i].id # id /\ s[i].state = "active" -> "draft"
                              [] OTHER -> s[i].state
    BY <1>0 DEF EnsureOneActive, Entries, States, Selectable
  <1> HIDE DEF t
  <1>3. Listed(t) /\ SameIds(s, t) /\ IdsIn(t) = IdsIn(s)
    BY <1>1, <1>2, RestatedListed
  <1> QED BY <1>2, <1>3 DEF t

\* Normalizing a workspace whose activeId names a session settles it there.
LEMMA NormalizeKnown ==
    ASSUME NEW w, Listed(w.sessions), NEW k \in DOMAIN w.sessions,
           w.activeId = w.sessions[k].id
    PROVE  LET n == Normalize(w) IN
           /\ n = Workspace(EnsureOneActive(w.sessions, w.activeId), w.activeId)
           /\ Settled(n) /\ CentredOn(n, k) /\ IdsIn(n.sessions) = IdsIn(w.sessions)
  <1> DEFINE s == w.sessions
             t == EnsureOneActive(s, w.activeId)
             n == Workspace(t, w.activeId)
  <1>1. w.activeId \in IdsIn(s)
    BY PlaceOfId
  <1>2. /\ Listed(t) /\ SameIds(s, t) /\ IdsIn(t) = IdsIn(s)
        /\ \A i \in DOMAIN s : t[i].state =
                CASE s[i].id = w.activeId /\ s[i].state \in Selectable -> "active"
                  [] s[i].id # w.activeId /\ s[i].state = "active" -> "draft"
                  [] OTHER -> s[i].state
    BY OneActiveFacts
  <1>3. \A i \in DOMAIN s : s[i].id = w.activeId <=> i = k
    BY DEF Listed
  <1>4. /\ t[k].state \in Shelved \cup {"active"}
        /\ \A i \in DOMAIN t : i # k => t[i].state # "active"
        /\ DOMAIN t = DOMAIN s /\ t[k].id = w.activeId
    <2>1. s[k].state \in States
      BY ListedPlaces
    <2> QED BY <1>2, <1>3, <2>1 DEF SameIds, States, Selectable, Shelved
  <1> HIDE DEF t
  <1>5. FirstIn(t, {"active"}, Nobody) \in {Nobody, w.activeId}
    BY <1>2, <1>4, FirstFound
  <1>6. Normalize(w) = n
    BY <1>1, <1>5 DEF Normalize, t
  <1>7. n.sessions = t /\ n.activeId = w.activeId
    BY DEF Workspace
  <1>8. CentredOn(n, k)
    BY <1>4, <1>7 DEF CentredOn
  <1>9. Settled(n)
    BY <1>2, <1>4, <1>7, <1>8 DEF Settled
  <1> QED BY <1>2, <1>6, <1>7, <1>8, <1>9 DEF t

(***************************************************************************)
(* What a call makes of a workspace, as the pool sees it.                   *)
(***************************************************************************)

Shelf(state) == IF state \in Shelved THEN state ELSE "open"

ShelfIn(w, id) ==
    IF id \notin IdsIn(w.sessions) THEN "absent" ELSE Shelf(StateOf(w, id))

CurrentIn(w) == FirstIn(w.sessions, {"active"}, Nobody)

OpenIn(w) == {id \in AllIds : ShelfIn(w, id) = "open"}

Unmoved(v, w) ==
    /\ \A x \in AllIds : ShelfIn(w, x) = ShelfIn(v, x)
    /\ CurrentIn(w) = CurrentIn(v)

MovesTo(v, w, id, place) ==
    \A x \in AllIds : ShelfIn(w, x) = IF x = id THEN place ELSE ShelfIn(v, x)

Creates(v, w, id) ==
    /\ ShelfIn(v, id) = "absent"
    /\ MovesTo(v, w, id, "open")
    /\ CurrentIn(w) = id

Selects(v, w, id) ==
    /\ ShelfIn(v, id) = "open"
    /\ CurrentIn(w) = id
    /\ \A x \in AllIds : ShelfIn(w, x) = ShelfIn(v, x)

PutsAway(v, w, id, place) ==
    /\ ShelfIn(v, id) # "absent"
    /\ place \in Shelved
    /\ MovesTo(v, w, id, place)
    /\ LET heirs == OpenIn(v) \ {id} IN
       \/ CurrentIn(v) = id /\ heirs = {} /\ CurrentIn(w) = Nobody
       \/ CurrentIn(v) = id /\ heirs # {} /\ CurrentIn(w) \in heirs
       \/ CurrentIn(v) = Nobody /\ CurrentIn(w) \in heirs \cup {Nobody}
       \/ CurrentIn(v) \notin {id, Nobody} /\ CurrentIn(w) = CurrentIn(v)

TakesBack(v, w, id) ==
    /\ ShelfIn(v, id) \in Shelved
    /\ MovesTo(v, w, id, "open")
    /\ \/ CurrentIn(v) = Nobody /\ CurrentIn(w) \in {Nobody, id}
       \/ CurrentIn(v) # Nobody /\ CurrentIn(w) = CurrentIn(v)

PoolMove(v, w) ==
    \/ Unmoved(v, w)
    \/ \E id \in AllIds :
        \/ Creates(v, w, id)
        \/ Selects(v, w, id)
        \/ \E place \in Shelved : PutsAway(v, w, id, place)
        \/ TakesBack(v, w, id)

\* The shelf of a session follows from its state, wherever it stands.
LEMMA ShelfAt ==
    ASSUME NEW w, Listed(w.sessions), NEW k \in DOMAIN w.sessions
    PROVE  ShelfIn(w, w.sessions[k].id) = Shelf(w.sessions[k].state)
  <1> DEFINE s == w.sessions
  <1>1. s[k] \in ToSet(s) /\ s[k].id \in IdsIn(s)
    BY DEF IdsIn, ToSet
  <1>2. \A e \in ToSet(s) : e.id = s[k].id => e = s[k]
    BY DEF ToSet, Listed
  <1>3. StateOf(w, s[k].id) = s[k].state
    BY <1>1, <1>2 DEF StateOf
  <1> QED BY <1>1, <1>3 DEF ShelfIn

\* At most one session is active: the one the workspace is centred on.
LEMMA CurrentAt ==
    ASSUME NEW w, Listed(w.sessions), NEW k, CentredOn(w, k)
    PROVE  /\ w.sessions[k].state = "active" => CurrentIn(w) = w.sessions[k].id
           /\ w.sessions[k].state # "active" => CurrentIn(w) = Nobody
           /\ w.sessions[k].id # Nobody
  <1> DEFINE s == w.sessions
  <1>1. \/ /\ CurrentIn(w) = Nobody
           /\ \A i \in DOMAIN s : ~ (s[i].state \in {"active"} /\ s[i].id # Nobody)
        \/ \E i \in DOMAIN s : /\ s[i].state \in {"active"} /\ s[i].id # Nobody
                               /\ CurrentIn(w) = s[i].id
    BY FirstFound DEF CurrentIn
  <1>2. \A i \in DOMAIN s : s[i].id # Nobody
    BY ListedPlaces DEF Nobody
  <1> QED BY <1>1, <1>2 DEF CentredOn

\* A change of state at one place moves one session.
LEMMA ShelvesAlike ==
    ASSUME NEW v, NEW w, Listed(v.sessions), Listed(w.sessions),
           SameIds(v.sessions, w.sessions), NEW j \in DOMAIN v.sessions,
           \A i \in DOMAIN v.sessions :
                i # j => Shelf(w.sessions[i].state) = Shelf(v.sessions[i].state)
    PROVE  \A x : ShelfIn(w, x) = IF x = v.sessions[j].id THEN Shelf(w.sessions[j].state)
                                  ELSE ShelfIn(v, x)
  <1> TAKE x
  <1>1. CASE \E i \in DOMAIN v.sessions : v.sessions[i].id = x
    <2>1. PICK i \in DOMAIN v.sessions : v.sessions[i].id = x
      BY <1>1
    <2>2. i \in DOMAIN w.sessions /\ w.sessions[i].id = x
      BY <2>1 DEF SameIds
    <2>3. ShelfIn(v, x) = Shelf(v.sessions[i].state) /\ ShelfIn(w, x) = Shelf(w.sessions[i].state)
      BY <2>1, <2>2, ShelfAt
    <2>4. i = j <=> x = v.sessions[j].id
      BY <2>1 DEF Listed
    <2> QED BY <2>3, <2>4
  <1>2. CASE ~ \E i \in DOMAIN v.sessions : v.sessions[i].id = x
    <2>1. ~ \E i \in DOMAIN w.sessions : w.sessions[i].id = x
      BY <1>2 DEF SameIds
    <2>2. x \notin IdsIn(v.sessions) /\ x \notin IdsIn(w.sessions) /\ x # v.sessions[j].id
      BY <1>2, <2>1, PlaceOfId
    <2> QED BY <2>2 DEF ShelfIn
  <1> QED BY <1>1, <1>2

\* Shelving aside, normalizing keeps every state.
LEMMA NormalizedStates ==
    ASSUME NEW w, Listed(w.sessions), NEW k \in DOMAIN w.sessions,
           w.activeId = w.sessions[k].id
    PROVE  LET n == Normalize(w) IN
           /\ Settled(n) /\ CentredOn(n, k) /\ IdsIn(n.sessions) = IdsIn(w.sessions)
           /\ SameIds(w.sessions, n.sessions)
           /\ \A i \in DOMAIN w.sessions :
                Shelf(n.sessions[i].state) = Shelf(w.sessions[i].state)
           /\ n.sessions[k].state = IF w.sessions[k].state \in Selectable THEN "active"
                                    ELSE w.sessions[k].state
  <1> DEFINE s == w.sessions
             n == Normalize(w)
             t == n.sessions
  <1>1. /\ n = Workspace(EnsureOneActive(s, w.activeId), w.activeId)
        /\ Settled(n) /\ CentredOn(n, k) /\ IdsIn(n.sessions) = IdsIn(s)
    BY NormalizeKnown
  <1>2. t = EnsureOneActive(s, w.activeId)
    BY <1>1 DEF Workspace
  <1>3. /\ SameIds(s, t)
        /\ \A i \in DOMAIN s : t[i].state =
                CASE s[i].id = w.activeId /\ s[i].state \in Selectable -> "active"
                  [] s[i].id # w.activeId /\ s[i].state = "active" -> "draft"
                  [] OTHER -> s[i].state
    BY <1>2, OneActiveFacts
  <1> HIDE DEF n
  <1>4. \A i \in DOMAIN s : Shelf(t[i].state) = Shelf(s[i].state)
    BY <1>3 DEF Shelf, Shelved, Selectable
  <1>5. t[k].state = IF s[k].state \in Selectable THEN "active" ELSE s[k].state
    BY <1>3 DEF Selectable
  <1> QED BY <1>1, <1>3, <1>4, <1>5 DEF n

\* With nothing to work in, the first session is the preferred one, on its shelf.
LEMMA NormalizeUnknown ==
    ASSUME NEW w, Listed(w.sessions), NEW c \in DOMAIN w.sessions,
           w.activeId = Nobody, \A i \in DOMAIN w.sessions : w.sessions[i].state \in Shelved
    PROVE  LET n == Normalize(w) IN
           /\ Settled(n) /\ CentredOn(n, 1) /\ IdsIn(n.sessions) = IdsIn(w.sessions)
           /\ SameIds(w.sessions, n.sessions)
           /\ \A i \in DOMAIN w.sessions : n.sessions[i].state = w.sessions[i].state
  <1> DEFINE s == w.sessions
             known == Workspace(s, s[1].id)
             n == Normalize(known)
  <1>1. 1 \in DOMAIN s /\ \A i \in DOMAIN s : s[i].id # Nobody /\ s[i].state # "active"
    BY ListedPlaces DEF Nobody, Shelved
  <1>2. w.activeId \notin IdsIn(s)
    BY <1>1, PlaceOfId
  <1>3. FirstIn(s, {"active"}, Nobody) = Nobody
    BY <1>1, FirstFound
  <1>4. known.sessions = s /\ known.activeId = s[1].id /\ s[1].id \in IdsIn(s)
    BY <1>1, PlaceOfId DEF Workspace
  <1>5. Normalize(w) = n
    BY <1>2, <1>3, <1>4 DEF Normalize
  <1>6. /\ n = Workspace(EnsureOneActive(s, s[1].id), s[1].id)
        /\ Settled(n) /\ CentredOn(n, 1) /\ IdsIn(n.sessions) = IdsIn(s)
    BY <1>1, <1>4, NormalizeKnown
  <1>7. n.sessions = EnsureOneActive(s, s[1].id)
    BY <1>6 DEF Workspace
  <1>8. /\ SameIds(s, n.sessions)
        /\ \A i \in DOMAIN s : n.sessions[i].state =
                CASE s[i].id = s[1].id /\ s[i].state \in Selectable -> "active"
                  [] s[i].id # s[1].id /\ s[i].state = "active" -> "draft"
                  [] OTHER -> s[i].state
    BY <1>7, OneActiveFacts
  <1>9. \A i \in DOMAIN s : n.sessions[i].state = s[i].state
    BY <1>8 DEF Selectable, Shelved
  <1> HIDE DEF n
  <1> QED BY <1>5, <1>6, <1>8, <1>9

(***************************************************************************)
(* The calls.                                                               *)
(***************************************************************************)

\* A call that neither makes nor deletes a session.
Outcome(v, n) ==
    /\ Settled(n)
    /\ IdsIn(n.sessions) = IdsIn(v.sessions)
    /\ PoolMove(v, n)

\* Reading a settled workspace, or writing it back, changes nothing in it.
LEMMA RewriteOutcome ==
    ASSUME NEW w, Settled(w)
    PROVE  Normalize(w) = w /\ Outcome(w, Normalize(w))
  <1> DEFINE s == w.sessions
  <1>1. PICK k \in DOMAIN s : CentredOn(w, k)
    BY DEF Settled
  <1>2. Listed(s) /\ w = Workspace(s, w.activeId) /\ w.activeId = s[k].id
    BY <1>1 DEF Settled, CentredOn
  <1>3. /\ Normalize(w) = Workspace(EnsureOneActive(s, w.activeId), w.activeId)
        /\ Settled(Normalize(w))
    BY <1>2, NormalizeKnown
  <1>4. /\ SameIds(s, EnsureOneActive(s, w.activeId))
        /\ Listed(EnsureOneActive(s, w.activeId))
        /\ \A i \in DOMAIN s : EnsureOneActive(s, w.activeId)[i].state =
                CASE s[i].id = w.activeId /\ s[i].state \in Selectable -> "active"
                  [] s[i].id # w.activeId /\ s[i].state = "active" -> "draft"
                  [] OTHER -> s[i].state
    BY <1>2, OneActiveFacts
  <1>5. \A i \in DOMAIN s : s[i].id = w.activeId <=> i = k
    BY <1>2 DEF Listed
  <1>6. \A i \in DOMAIN s : EnsureOneActive(s, w.activeId)[i].state = s[i].state
    BY <1>1, <1>4, <1>5 DEF CentredOn, Selectable, Shelved
  <1> DEFINE t == EnsureOneActive(s, w.activeId)
  <1> HIDE DEF t
  <1>7. \A i \in DOMAIN s : t[i] = s[i]
    <2>1. \A i \in DOMAIN s : t[i].id = s[i].id /\ t[i].state = s[i].state /\ i \in DOMAIN t
      BY <1>4, <1>6 DEF SameIds, t
    <2>2. \A i \in DOMAIN s : s[i] = Session(s[i].id, s[i].state)
      BY <1>2, ListedPlaces
    <2>3. \A i \in DOMAIN t : t[i] = Session(t[i].id, t[i].state)
      BY <1>4, ListedPlaces DEF t
    <2> QED BY <2>1, <2>2, <2>3
  <1>8. t = s
    <2>1. t \in Seq(Entries) /\ s \in Seq(Entries) /\ DOMAIN t = DOMAIN s
      BY <1>2, <1>4 DEF Listed, SameIds, t
    <2>2. Len(t) = Len(s) /\ DOMAIN s = 1 .. Len(s)
      BY <2>1, LenProperties
    <2> QED BY <1>7, <2>1, <2>2, SeqEqual
  <1>9. Normalize(w) = w
    BY <1>2, <1>3, <1>8 DEF t
  <1> QED BY <1>9 DEF Outcome, PoolMove, Unmoved

\* select: the session taken is the only active one.
LEMMA SelectOutcome ==
    ASSUME NEW w, Settled(w), NEW id \in AllIds, id \in IdsIn(w.sessions),
           StateOf(w, id) \notin Shelved
    PROVE  Outcome(w, Normalize(SelectSession(w, id)))
  <1> DEFINE s == w.sessions
             d == Demoted(s)
             m == Moved(d, id, Selectable, "active")
             u == SelectSession(w, id)
             n == Normalize(u)
  <1>1. PICK j \in DOMAIN s : s[j].id = id
    BY PlaceOfId
  <1>2. Listed(s)
    BY DEF Settled
  <1>3. ShelfIn(w, id) = Shelf(s[j].state) /\ ShelfIn(w, id) = Shelf(StateOf(w, id))
    BY <1>1, <1>2, ShelfAt DEF ShelfIn
  <1>4. s[j].state \in Selectable /\ ShelfIn(w, id) = "open"
    BY <1>2, <1>3, ListedPlaces DEF Shelf, States, Selectable, Shelved
  <1>5. /\ Listed(d) /\ SameIds(s, d) /\ IdsIn(d) = IdsIn(s)
        /\ \A i \in DOMAIN s : d[i].state =
                IF s[i].state = "active" THEN "draft" ELSE s[i].state
    BY <1>2, DemotedFacts
  <1>6. /\ Listed(m) /\ SameIds(d, m) /\ IdsIn(m) = IdsIn(d)
        /\ \A i \in DOMAIN d : m[i].state =
                IF d[i].id = id /\ d[i].state \in Selectable THEN "active" ELSE d[i].state
    BY <1>5, MovedFacts DEF States, Selectable
  <1> HIDE DEF d, m
  <1>7. u.sessions = m /\ u.activeId = id
    BY DEF SelectSession, Workspace, d, m
  <1> HIDE DEF u
  <1>8. /\ SameIds(s, m) /\ j \in DOMAIN m /\ m[j].id = id /\ m[j].state = "active"
        /\ \A i \in DOMAIN s : Shelf(m[i].state) = Shelf(s[i].state)
    <2>1. SameIds(s, m) /\ j \in DOMAIN m /\ m[j].id = id
      BY <1>1, <1>5, <1>6 DEF SameIds
    <2>2. m[j].state = "active"
      BY <1>1, <1>4, <1>5, <1>6 DEF SameIds, Selectable
    <2>3. \A i \in DOMAIN s : Shelf(m[i].state) = Shelf(s[i].state)
      BY <1>5, <1>6 DEF SameIds, Shelf, Shelved, Selectable
    <2> QED BY <2>1, <2>2, <2>3
  <1>9. /\ Settled(n) /\ CentredOn(n, j) /\ IdsIn(n.sessions) = IdsIn(s)
        /\ SameIds(m, n.sessions) /\ n.sessions[j].state = "active"
        /\ \A i \in DOMAIN m : Shelf(n.sessions[i].state) = Shelf(m[i].state)
    BY <1>5, <1>6, <1>7, <1>8, NormalizedStates DEF Selectable
  <1> HIDE DEF n
  <1>10. /\ SameIds(s, n.sessions) /\ Listed(n.sessions) /\ n.sessions[j].id = id
         /\ \A i \in DOMAIN s : Shelf(n.sessions[i].state) = Shelf(s[i].state)
    BY <1>1, <1>8, <1>9 DEF SameIds, Settled
  <1>11. CurrentIn(n) = id
    BY <1>9, <1>10, CurrentAt
  <1>12. \A x : ShelfIn(n, x) = IF x = s[j].id THEN Shelf(n.sessions[j].state) ELSE ShelfIn(w, x)
    BY <1>2, <1>10, ShelvesAlike
  <1>13. \A x : ShelfIn(n, x) = ShelfIn(w, x)
    BY <1>1, <1>3, <1>10, <1>12
  <1>14. Selects(w, n, id)
    BY <1>4, <1>11, <1>13 DEF Selects
  <1> QED BY <1>9, <1>14 DEF Outcome, PoolMove, n, u

\* restore and cancel_delete_pending: the active session stays the active one.
LEMMA TakeBackOutcome ==
    ASSUME NEW w, Settled(w), NEW id \in AllIds, id \in IdsIn(w.sessions),
           NEW from \in SUBSET Shelved, NEW u,
           u.sessions = Moved(w.sessions, id, from, "draft"), u.activeId = w.activeId
    PROVE  Outcome(w, Normalize(u))
  <1> DEFINE s == w.sessions
             m == u.sessions
             n == Normalize(u)
  <1>1. PICK j \in DOMAIN s : s[j].id = id
    BY PlaceOfId
  <1>2. PICK k \in DOMAIN s : CentredOn(w, k)
    BY DEF Settled
  <1>3. Listed(s)
    BY DEF Settled
  <1>4. /\ Listed(m) /\ SameIds(s, m) /\ IdsIn(m) = IdsIn(s)
        /\ \A i \in DOMAIN s : m[i].state =
                IF s[i].id = id /\ s[i].state \in from THEN "draft" ELSE s[i].state
    BY <1>3, MovedFacts DEF States, Selectable
  <1>5. \A i \in DOMAIN s : s[i].id = id <=> i = j
    BY <1>1, <1>3 DEF Listed
  <1>6. k \in DOMAIN m /\ u.activeId = m[k].id
    BY <1>2, <1>4 DEF SameIds, CentredOn
  <1>7. /\ Settled(n) /\ CentredOn(n, k) /\ IdsIn(n.sessions) = IdsIn(m)
        /\ SameIds(m, n.sessions)
        /\ \A i \in DOMAIN m : Shelf(n.sessions[i].state) = Shelf(m[i].state)
        /\ n.sessions[k].state = IF m[k].state \in Selectable THEN "active" ELSE m[k].state
    BY <1>4, <1>6, NormalizedStates
  <1> HIDE DEF m, n
  <1>8. /\ SameIds(s, n.sessions) /\ Listed(n.sessions)
        /\ \A i \in DOMAIN s : i # j => Shelf(n.sessions[i].state) = Shelf(s[i].state)
        /\ Shelf(n.sessions[j].state) = IF s[j].state \in from THEN "open" ELSE Shelf(s[j].state)
    <2>1. SameIds(s, n.sessions) /\ Listed(n.sessions)
      BY <1>4, <1>7 DEF SameIds, Settled
    <2>2. \A i \in DOMAIN s : Shelf(n.sessions[i].state) = Shelf(m[i].state)
      BY <1>4, <1>7 DEF SameIds
    <2> QED BY <1>4, <1>5, <2>1, <2>2 DEF Shelf, Shelved
  <1>9. \A x : ShelfIn(n, x) = IF x = id THEN Shelf(n.sessions[j].state) ELSE ShelfIn(w, x)
    BY <1>1, <1>3, <1>8, ShelvesAlike
  <1>10. ShelfIn(w, id) = Shelf(s[j].state)
    BY <1>1, <1>3, ShelfAt
  <1>11. /\ s[k].state = "active" => CurrentIn(w) = s[k].id
         /\ s[k].state # "active" => CurrentIn(w) = Nobody
         /\ n.sessions[k].state = "active" => CurrentIn(n) = s[k].id
         /\ n.sessions[k].state # "active" => CurrentIn(n) = Nobody
         /\ s[k].id # Nobody
    <2>1. n.sessions[k].id = s[k].id
      BY <1>8 DEF SameIds
    <2> QED BY <1>2, <1>3, <1>7, <1>8, <2>1, CurrentAt
  <1>12. s[k].state \in Shelved \cup {"active"}
    BY <1>2 DEF CentredOn
  <1>13. CASE s[j].state \in from
    <2>1. ShelfIn(w, id) \in Shelved
      BY <1>10, <1>13 DEF Shelf
    <2>2. MovesTo(w, n, id, "open")
      BY <1>8, <1>9, <1>13 DEF MovesTo
    <2>3. s[k].state = "active" => k # j /\ n.sessions[k].state = "active"
      BY <1>4, <1>5, <1>7, <1>13 DEF Shelved, Selectable
    <2>4. s[k].state # "active" /\ n.sessions[k].state = "active" => k = j
      BY <1>4, <1>5, <1>7, <1>12 DEF Shelved, Selectable
    <2>5. \/ CurrentIn(w) = Nobody /\ CurrentIn(n) \in {Nobody, id}
          \/ CurrentIn(w) # Nobody /\ CurrentIn(n) = CurrentIn(w)
      BY <1>1, <1>11, <2>3, <2>4
    <2>6. TakesBack(w, n, id)
      BY <2>1, <2>2, <2>5 DEF TakesBack
    <2> QED BY <1>4, <1>7, <2>6 DEF Outcome, PoolMove, n
  <1>14. CASE s[j].state \notin from
    <2>1. m[k].state = s[k].state
      BY <1>4, <1>5, <1>14
    <2>2. n.sessions[k].state = "active" <=> s[k].state = "active"
      BY <1>7, <1>12, <2>1 DEF Selectable, Shelved
    <2>3. Unmoved(w, n)
      BY <1>8, <1>9, <1>10, <1>11, <1>14, <2>2 DEF Unmoved
    <2> QED BY <1>4, <1>7, <2>3 DEF Outcome, PoolMove, n
  <1> QED BY <1>13, <1>14

\* archive and mark_delete_pending: another open session takes over, if any.
LEMMA PutAwayOutcome ==
    ASSUME NEW w, Settled(w), NEW id \in AllIds, id \in IdsIn(w.sessions),
           IdsIn(w.sessions) \subseteq AllIds, NEW to \in Shelved
    PROVE  Outcome(w, Normalize(PutAway(w, id, to)))
  <1> DEFINE s == w.sessions
             m == Moved(s, id, Selectable \cup Shelved, to)
             next == IF w.activeId = id THEN FirstIn(m, Selectable, id) ELSE w.activeId
             preferred == IF next # Nobody THEN next ELSE FirstIn(m, {"active"}, Nobody)
             e == EnsureOneActive(m, preferred)
             u == PutAway(w, id, to)
             n == Normalize(u)
  <1>1. PICK j \in DOMAIN s : s[j].id = id
    BY PlaceOfId
  <1>2. PICK k \in DOMAIN s : CentredOn(w, k)
    BY DEF Settled
  <1>3. Listed(s)
    BY DEF Settled
  <1>4. /\ Listed(m) /\ SameIds(s, m) /\ IdsIn(m) = IdsIn(s)
        /\ \A i \in DOMAIN s : m[i].state =
                IF s[i].id = id /\ s[i].state \in Selectable \cup Shelved
                THEN to ELSE s[i].state
    BY <1>3, MovedFacts DEF States
  <1>5. \A i \in DOMAIN s : s[i].id = id <=> i = j
    BY <1>1, <1>3 DEF Listed
  <1> HIDE DEF m
  <1>6. /\ m[j].state = to
        /\ \A i \in DOMAIN s : i # j => m[i].state = s[i].state
        /\ \A i \in DOMAIN s : s[i].id # Nobody /\ m[i].id = s[i].id
    <2>1. s[j].state \in Selectable \cup Shelved
      BY <1>3, ListedPlaces DEF States
    <2> QED BY <1>3, <1>4, <1>5, <2>1, ListedPlaces DEF SameIds, Nobody
  <1>7. w.activeId = s[k].id /\ (w.activeId = id <=> k = j)
    BY <1>2, <1>5 DEF CentredOn
  \* The active session that remains.
  <1>8. \/ next = Nobody /\ k = j /\ \A i \in DOMAIN s : m[i].state \in Shelved
        \/ \E h \in DOMAIN s : /\ next = s[h].id /\ h # j
                               /\ k = j => m[h].state \in Selectable
                               /\ k # j => h = k
    <2>1. CASE k = j
      <3>1. next = FirstIn(m, Selectable, id)
        BY <1>7, <2>1
      <3>2. \/ next = Nobody /\ \A i \in DOMAIN m : ~ (m[i].state \in Selectable /\ m[i].id # id)
            \/ \E i \in DOMAIN m : /\ m[i].state \in Selectable /\ m[i].id # id
                                   /\ next = m[i].id
        BY <1>4, <3>1, FirstFound
      <3>3. \A i \in DOMAIN s : m[i].state \in Selectable \cup Shelved
        BY <1>4, ListedPlaces DEF States, SameIds
      <3> QED BY <1>4, <1>5, <1>6, <2>1, <3>2, <3>3 DEF SameIds
    <2>2. CASE k # j
      BY <1>7, <2>2
    <2> QED BY <2>1, <2>2
  <1> HIDE DEF next
  <1>9. u.sessions = e /\ u.activeId = next
    BY DEF PutAway, Workspace, m, next
  <1>10. /\ Listed(e) /\ SameIds(m, e) /\ IdsIn(e) = IdsIn(m)
         /\ \A i \in DOMAIN m : e[i].state =
                CASE m[i].id = preferred /\ m[i].state \in Selectable -> "active"
                  [] m[i].id # preferred /\ m[i].state = "active" -> "draft"
                  [] OTHER -> m[i].state
    BY <1>4, OneActiveFacts
  <1> HIDE DEF e, u, preferred
  <1>11. /\ SameIds(s, e) /\ IdsIn(e) = IdsIn(s)
         /\ \A i \in DOMAIN s : /\ Shelf(e[i].state) = Shelf(m[i].state)
                                /\ m[i].state \in Selectable <=> e[i].state \in Selectable
    BY <1>4, <1>10 DEF SameIds, Shelf, Shelved, Selectable
  \* What becomes of the shelves and of the active session.
  <1>12. /\ Settled(n) /\ IdsIn(n.sessions) = IdsIn(s) /\ SameIds(s, n.sessions)
         /\ \A i \in DOMAIN s : Shelf(n.sessions[i].state) = Shelf(m[i].state)
         /\ \/ /\ k = j /\ CurrentIn(n) = Nobody
               /\ \A i \in DOMAIN s : m[i].state \in Shelved
            \/ \E h \in DOMAIN s : /\ h # j /\ k = j /\ m[h].state \in Selectable
                                   /\ CurrentIn(n) = s[h].id
            \/ /\ k # j /\ s[k].state = "active" => CurrentIn(n) = s[k].id
               /\ k # j /\ s[k].state # "active" => CurrentIn(n) = Nobody
               /\ k # j
    <2>1. CASE next = Nobody
      <3>1. k = j /\ \A i \in DOMAIN s : m[i].state \in Shelved
        BY <1>6, <1>8, <2>1
      <3>2. \A i \in DOMAIN e : e[i].state \in Shelved
        BY <1>4, <1>10, <3>1 DEF SameIds, Shelved, Selectable
      <3>3. j \in DOMAIN e
        BY <1>11 DEF SameIds
      <3>4. /\ Settled(n) /\ CentredOn(n, 1) /\ IdsIn(n.sessions) = IdsIn(e)
            /\ SameIds(e, n.sessions)
            /\ \A i \in DOMAIN e : n.sessions[i].state = e[i].state
        BY <1>9, <1>10, <2>1, <3>2, <3>3, NormalizeUnknown
      <3> HIDE DEF n
      <3>5. Listed(n.sessions) /\ n.sessions[1].state # "active"
        BY <3>2, <3>4 DEF Settled, CentredOn, SameIds, Shelved
      <3>6. CurrentIn(n) = Nobody
        BY <3>4, <3>5, CurrentAt
      <3>7. \A i \in DOMAIN s : Shelf(n.sessions[i].state) = Shelf(m[i].state)
        BY <1>11, <3>4 DEF SameIds
      <3>8. SameIds(s, n.sessions)
        BY <1>11, <3>4 DEF SameIds
      <3> QED BY <1>11, <3>1, <3>4, <3>6, <3>7, <3>8
    <2>2. CASE next # Nobody
      <3>1. PICK h \in DOMAIN s : /\ next = s[h].id /\ h # j
                                  /\ k = j => m[h].state \in Selectable
                                  /\ k # j => h = k
        BY <1>8, <2>2
      <3>2. h \in DOMAIN e /\ u.activeId = e[h].id
        BY <1>9, <1>11, <3>1 DEF SameIds
      <3>3. /\ Settled(n) /\ CentredOn(n, h) /\ IdsIn(n.sessions) = IdsIn(e)
            /\ SameIds(e, n.sessions)
            /\ \A i \in DOMAIN e : Shelf(n.sessions[i].state) = Shelf(e[i].state)
            /\ n.sessions[h].state = IF e[h].state \in Selectable THEN "active" ELSE e[h].state
        BY <1>9, <1>10, <3>2, NormalizedStates
      <3> HIDE DEF n
      <3>4. /\ SameIds(s, n.sessions) /\ Listed(n.sessions)
            /\ n.sessions[h].id = s[h].id
            /\ \A i \in DOMAIN s : Shelf(n.sessions[i].state) = Shelf(m[i].state)
        BY <1>11, <3>3 DEF SameIds, Settled
      <3>5. /\ n.sessions[h].state = "active" => CurrentIn(n) = s[h].id
            /\ n.sessions[h].state # "active" => CurrentIn(n) = Nobody
        BY <3>3, <3>4, CurrentAt
      <3>6. CASE k = j
        BY <1>11, <3>1, <3>3, <3>4, <3>5, <3>6
      <3>7. CASE k # j
        <4>1. s[k].state \in Shelved \cup {"active"} /\ m[k].state = s[k].state /\ h = k
          BY <1>2, <1>6, <3>1, <3>7 DEF CentredOn
        <4>2. n.sessions[k].state = "active" <=> s[k].state = "active"
          BY <1>11, <3>3, <4>1 DEF Selectable, Shelved
        <4> QED BY <1>11, <3>3, <3>4, <3>5, <3>7, <4>1, <4>2
      <3> QED BY <3>6, <3>7
    <2> QED BY <2>1, <2>2
  <1> HIDE DEF n
  <1>13. Listed(n.sessions)
    BY <1>12 DEF Settled
  <1>14. /\ Shelf(n.sessions[j].state) = to
         /\ \A i \in DOMAIN s : i # j => Shelf(n.sessions[i].state) = Shelf(s[i].state)
    BY <1>6, <1>12 DEF Shelf
  <1>15. \A x : ShelfIn(n, x) = IF x = id THEN to ELSE ShelfIn(w, x)
    BY <1>1, <1>3, <1>12, <1>13, <1>14, ShelvesAlike
  <1>16. ShelfIn(w, id) # "absent" /\ MovesTo(w, n, id, to)
    BY <1>1, <1>3, <1>15, ShelfAt DEF Shelf, Shelved, MovesTo
  <1>17. /\ s[k].state = "active" => CurrentIn(w) = s[k].id
         /\ s[k].state # "active" => CurrentIn(w) = Nobody
         /\ s[k].id # Nobody
    BY <1>2, <1>3, CurrentAt
  <1> DEFINE heirs == OpenIn(w) \ {id}
  <1>18. /\ \A h \in DOMAIN s : h # j /\ m[h].state \in Selectable /\ s[h].id \in AllIds
                                => s[h].id \in heirs
         /\ (\A i \in DOMAIN s : m[i].state \in Shelved) => heirs = {}
    <2>1. \A h \in DOMAIN s : ShelfIn(w, s[h].id) = Shelf(s[h].state)
      BY <1>3, ShelfAt
    <2>2. \A h \in DOMAIN s : h # j /\ m[h].state \in Selectable => Shelf(s[h].state) = "open"
      BY <1>6 DEF Shelf, Selectable, Shelved
    <2>3. \A x \in heirs : \E i \in DOMAIN s : x = s[i].id
      BY PlaceOfId DEF ShelfIn, OpenIn
    <2>4. ASSUME \A i \in DOMAIN s : m[i].state \in Shelved, NEW x \in heirs PROVE FALSE
      <3>1. PICK i \in DOMAIN s : x = s[i].id
        BY <2>3
      <3>2. i # j /\ Shelf(s[i].state) = "open"
        BY <1>1, <2>1, <3>1 DEF OpenIn
      <3> QED BY <1>6, <2>4, <3>2 DEF Shelf, Shelved
    <2> QED BY <1>5, <2>1, <2>2, <2>4 DEF OpenIn
  <1>19. \/ CurrentIn(w) = id /\ heirs = {} /\ CurrentIn(n) = Nobody
         \/ CurrentIn(w) = id /\ heirs # {} /\ CurrentIn(n) \in heirs
         \/ CurrentIn(w) = Nobody /\ CurrentIn(n) \in heirs \cup {Nobody}
         \/ CurrentIn(w) \notin {id, Nobody} /\ CurrentIn(n) = CurrentIn(w)
    <2>1. \A h \in DOMAIN s : s[h].id \in AllIds
      BY PlaceOfId
    <2>2. s[k].id = id <=> k = j
      BY <1>2, <1>5 DEF CentredOn
    <2> HIDE DEF heirs
    <2>3. CASE k = j /\ CurrentIn(n) = Nobody /\ \A i \in DOMAIN s : m[i].state \in Shelved
      BY <1>17, <1>18, <2>2, <2>3
    <2>4. CASE \E h \in DOMAIN s : /\ h # j /\ k = j /\ m[h].state \in Selectable
                                   /\ CurrentIn(n) = s[h].id
      BY <1>17, <1>18, <2>1, <2>2, <2>4
    <2>5. CASE /\ k # j /\ s[k].state = "active" => CurrentIn(n) = s[k].id
               /\ k # j /\ s[k].state # "active" => CurrentIn(n) = Nobody
               /\ k # j
      BY <1>17, <2>2, <2>5
    <2> QED BY <1>12, <2>3, <2>4, <2>5
  <1>20. PutsAway(w, n, id, to)
    BY <1>16, <1>19 DEF PutsAway
  <1> QED BY <1>12, <1>20 DEF Outcome, PoolMove, n, u

\* new_session: one more session, the active one.
LEMMA NewSessionOutcome ==
    ASSUME NEW w, Settled(w), NEW id \in AllIds, id \notin IdsIn(w.sessions)
    PROVE  LET n == Normalize(NewSession(w, id)) IN
           /\ Settled(n)
           /\ IdsIn(n.sessions) = IdsIn(w.sessions) \cup {id}
           /\ PoolMove(w, n)
  <1> DEFINE s == w.sessions
             d == Demoted(s)
             new == <<Session(id, "active")>>
             m == new \o d
             u == NewSession(w, id)
             n == Normalize(u)
  <1>1. Listed(s)
    BY DEF Settled
  <1>2. /\ Listed(d) /\ SameIds(s, d) /\ IdsIn(d) = IdsIn(s)
        /\ \A i \in DOMAIN s : d[i].state =
                IF s[i].state = "active" THEN "draft" ELSE s[i].state
    BY <1>1, DemotedFacts
  <1>3. new \in Seq(Entries) /\ Len(new) = 1 /\ new[1] = Session(id, "active")
    <2>1. id \in Nat \ {0}
      BY WorkspaceAssumption DEF AllIds, DefaultSessions
    <2>2. Session(id, "active") \in Entries
      BY <2>1 DEF Session, Entries, States, Selectable
    <2> QED BY <2>2
  <1> HIDE DEF d, new
  <1>4. /\ m \in Seq(Entries) /\ Len(m) = Len(d) + 1 /\ Len(d) \in Nat
        /\ DOMAIN m = 1 .. Len(d) + 1 /\ DOMAIN d = 1 .. Len(d)
        /\ m[1] = Session(id, "active")
        /\ \A i \in DOMAIN d : m[i + 1] = d[i]
    <2>1. d \in Seq(Entries) /\ Len(d) \in Nat /\ DOMAIN d = 1 .. Len(d)
      BY <1>2, LenProperties DEF Listed
    <2>2. /\ m \in Seq(Entries) /\ Len(m) = 1 + Len(d)
          /\ \A i \in 1 .. 1 + Len(d) : m[i] = IF i <= 1 THEN new[i] ELSE d[i - 1]
      <3>1. /\ m \in Seq(Entries) /\ Len(m) = Len(new) + Len(d)
            /\ \A i \in 1 .. Len(new) + Len(d) :
                    m[i] = IF i <= Len(new) THEN new[i] ELSE d[i - Len(new)]
        BY <1>3, <2>1, ConcatProperties
      <3> HIDE DEF m
      <3> QED BY <1>3, <3>1
    <2>3. DOMAIN m = 1 .. Len(m)
      BY <2>2, LenProperties
    <2> HIDE DEF m
    <2>4. ASSUME NEW i \in DOMAIN d PROVE m[i + 1] = d[i]
      <3>1. i \in Nat /\ i + 1 \in 1 .. 1 + Len(d) /\ ~ (i + 1 <= 1) /\ (i + 1) - 1 = i
        BY <2>1
      <3> QED BY <2>2, <3>1
    <2> QED BY <1>3, <2>1, <2>2, <2>3, <2>4
  <1> HIDE DEF m
  <1>5. \A i \in DOMAIN m : i = 1 \/ \E h \in DOMAIN d : i = h + 1
    <2> SUFFICES ASSUME NEW i \in DOMAIN m, i # 1
                 PROVE  \E h \in DOMAIN d : i = h + 1
      OBVIOUS
    <2>1. i - 1 \in DOMAIN d /\ i = (i - 1) + 1
      BY <1>4
    <2> QED BY <2>1
  <1>6. IdsIn(m) = IdsIn(s) \cup {id}
    <2>1. \A x : x \in IdsIn(m) <=> x = id \/ \E h \in DOMAIN d : d[h].id = x
      <3>1. 1 \in DOMAIN m /\ m[1].id = id /\ \A h \in DOMAIN d : h + 1 \in DOMAIN m
        BY <1>4 DEF Session
      <3>2. ASSUME NEW x \in IdsIn(m) PROVE x = id \/ \E h \in DOMAIN d : d[h].id = x
        <4>1. PICK i \in DOMAIN m : m[i].id = x
          BY <3>2, PlaceOfId
        <4> QED BY <1>4, <1>5, <3>1, <4>1
      <3>3. id \in IdsIn(m)
        BY <3>1, PlaceOfId
      <3>4. ASSUME NEW h \in DOMAIN d PROVE d[h].id \in IdsIn(m)
        BY <1>4, <3>1, PlaceOfId
      <3> QED BY <3>2, <3>3, <3>4
    <2>2. \A x : x \in IdsIn(s) <=> \E h \in DOMAIN d : d[h].id = x
      BY <1>2, PlaceOfId
    <2> QED BY <2>1, <2>2
  <1>7. \A h \in DOMAIN d : d[h].id # id
    BY <1>2, PlaceOfId
  <1>8. Listed(m)
    <2> SUFFICES ASSUME NEW x \in DOMAIN m, NEW y \in DOMAIN m, m[x].id = m[y].id
                 PROVE  x = y
      BY <1>4 DEF Listed
    <2>1. \A h \in DOMAIN d : m[h + 1].id # m[1].id
      BY <1>4, <1>7 DEF Session
    <2>2. \A g, h \in DOMAIN d : m[g + 1].id = m[h + 1].id => g = h
      BY <1>2, <1>4 DEF Listed
    <2> QED BY <1>5, <2>1, <2>2
  <1>9. u.sessions = m /\ u.activeId = id /\ 1 \in DOMAIN m /\ m[1].id = id /\ m[1].state = "active"
    BY <1>4 DEF NewSession, Workspace, Session, m, new, d
  <1> HIDE DEF u
  <1>10. /\ Settled(n) /\ CentredOn(n, 1) /\ IdsIn(n.sessions) = IdsIn(m)
         /\ SameIds(m, n.sessions)
         /\ \A i \in DOMAIN m : Shelf(n.sessions[i].state) = Shelf(m[i].state)
         /\ n.sessions[1].state = "active"
    BY <1>8, <1>9, NormalizedStates DEF Selectable
  <1> HIDE DEF n
  <1>11. Listed(n.sessions) /\ n.sessions[1].id = id
    BY <1>9, <1>10 DEF Settled, SameIds
  <1>12. CurrentIn(n) = id
    BY <1>10, <1>11, CurrentAt
  <1>13. ASSUME NEW x PROVE ShelfIn(n, x) = IF x = id THEN "open" ELSE ShelfIn(w, x)
    <2>1. CASE x = id
      <3>1. ShelfIn(n, id) = Shelf(n.sessions[1].state)
        BY <1>9, <1>10, <1>11, ShelfAt DEF SameIds
      <3> QED BY <1>10, <2>1, <3>1 DEF Shelf, Shelved
    <2>2. CASE x # id /\ x \in IdsIn(s)
      <3>1. PICK i \in DOMAIN s : s[i].id = x
        BY <2>2, PlaceOfId
      <3>2. i \in DOMAIN d /\ d[i].id = x
        BY <1>2, <3>1 DEF SameIds
      <3>3. i + 1 \in DOMAIN m /\ m[i + 1] = d[i]
        BY <1>4, <3>2
      <3>4. i + 1 \in DOMAIN n.sessions /\ n.sessions[i + 1].id = x
            /\ Shelf(n.sessions[i + 1].state) = Shelf(d[i].state)
        BY <1>10, <3>2, <3>3 DEF SameIds
      <3>5. ShelfIn(n, x) = Shelf(d[i].state)
        BY <1>11, <3>4, ShelfAt
      <3>6. Shelf(d[i].state) = Shelf(s[i].state)
        BY <1>2, <3>1 DEF Shelf, Shelved
      <3>7. ShelfIn(w, x) = Shelf(s[i].state)
        BY <1>1, <3>1, ShelfAt
      <3> QED BY <2>2, <3>5, <3>6, <3>7
    <2>3. CASE x # id /\ x \notin IdsIn(s)
      BY <1>6, <1>10, <2>3 DEF ShelfIn
    <2> QED BY <2>1, <2>2, <2>3
  <1>14. Creates(w, n, id)
    BY <1>12, <1>13 DEF Creates, MovesTo, ShelfIn
  <1> QED BY <1>6, <1>10, <1>14 DEF PoolMove, n, u

(***************************************************************************)
(* The steps of a call.                                                     *)
(***************************************************************************)

DefaultIds == IdsIn(DefaultSessions)
Numbers(n) == 1 .. Len(DefaultSessions) + n

\* Every workspace there is, in the file or in hand, is settled, and its ids
\* have been given out.
SeatInv ==
    /\ calls \in Nat /\ calls <= MaxCalls /\ crashes \in Nat
    /\ pc \in [Actors -> {"idle", "write", "audit"}]
    /\ DOMAIN held = Actors
    /\ file = [status |-> file.status, workspace |-> file.workspace]
    /\ Settled(file.workspace)
    /\ IdsIn(file.workspace.sessions) \subseteq Numbers(calls)
    /\ file.status = "absent" => file.workspace = DefaultWorkspace
    /\ audited \subseteq Numbers(calls)
    /\ \A a \in Actors :
        /\ Settled(held[a].workspace)
        /\ IdsIn(held[a].workspace.sessions) \subseteq Numbers(calls)
        /\ held[a].created = {} \/ \E x : held[a].created = {x}
        /\ held[a].created \subseteq IdsIn(held[a].workspace.sessions)
        /\ held[a].created \cap DefaultIds = {}
        /\ pc[a] = "idle" => held[a] = Idle

\* What a call makes of the workspace in the file, and the id it gives out.
Made(a, n, created) ==
    /\ pc[a] = "idle" /\ calls < MaxCalls
    /\ calls' = calls + 1
    /\ pc' = [pc EXCEPT ![a] = "write"]
    /\ held' = [held EXCEPT ![a] = [workspace |-> n, created |-> created]]
    /\ UNCHANGED <<file, audited, crashes>>
    /\ Settled(n)
    /\ created = {} \/ created = {NewId}
    /\ IdsIn(n.sessions) = IdsIn(file.workspace.sessions) \cup created
    /\ PoolMove(file.workspace, n)

\* The workspace served without a file is settled, with six sessions.
LEMMA DefaultSettled ==
    /\ Settled(DefaultWorkspace)
    /\ IdsIn(DefaultWorkspace.sessions) = DefaultIds
    /\ DefaultIds = 1 .. 6 /\ Len(DefaultSessions) = 6
  <1> DEFINE w == Workspace(DefaultSessions, 1)
  <1>1. /\ DefaultSessions \in Seq(Entries) /\ Len(DefaultSessions) = 6
        /\ DOMAIN DefaultSessions = 1 .. 6
        /\ \A i \in 1 .. 6 : DefaultSessions[i].id = i
    BY DEF DefaultSessions, Session, Entries, States, Selectable, Shelved
  <1>2. Listed(DefaultSessions)
    BY <1>1 DEF Listed
  <1>3. w.sessions = DefaultSessions /\ w.activeId = 1
    BY DEF Workspace
  <1>4. Settled(Normalize(w)) /\ IdsIn(Normalize(w).sessions) = DefaultIds
    BY <1>1, <1>2, <1>3, NormalizeKnown DEF DefaultIds
  <1>5. DefaultIds = 1 .. 6
    BY <1>1, PlaceOfId DEF DefaultIds
  <1> QED BY <1>1, <1>4, <1>5 DEF DefaultWorkspace

\* A file that can be read is served as it was written.
LEMMA ReadsTheFile ==
    ASSUME SeatInv, Readable
    PROVE  ReadSessionWorkspaceState = file.workspace
  BY RewriteOutcome DEF SeatInv, ReadSessionWorkspaceState

\* The ids given out so far are ids of the model.
LEMMA NumberedIds ==
    ASSUME NEW n \in Nat, n <= MaxCalls
    PROVE  Numbers(n) \subseteq AllIds
  BY WorkspaceAssumption, DefaultSettled DEF Numbers, AllIds

\* new_session adds one session under an id of its own.
LEMMA CreatingCall ==
    ASSUME SeatInv, NEW a \in Actors, ApplyNewSession(a)
    PROVE  \E n, created : Made(a, n, created)
  <1> DEFINE w == file.workspace
             n == Normalize(NewSession(w, NewId))
  <1>1. ReadSessionWorkspaceState = w
    BY ReadsTheFile DEF ApplyNewSession, Begin
  <1>2. NewId \in AllIds /\ NewId \notin IdsIn(w.sessions)
    BY WorkspaceAssumption, DefaultSettled
    DEF SeatInv, NewId, AllIds, Numbers, ApplyNewSession, Begin
  <1>3. /\ Settled(n) /\ PoolMove(w, n)
        /\ IdsIn(n.sessions) = IdsIn(w.sessions) \cup {NewId}
    BY <1>2, NewSessionOutcome DEF SeatInv
  <1>4. Made(a, n, {NewId})
    BY <1>1, <1>3 DEF ApplyNewSession, Begin, Made
  <1> QED BY <1>4

\* Any other call makes what its change makes of the file.
LEMMA ChangingCall ==
    ASSUME SeatInv, NEW a \in Actors, NEW u, Begin(a, u, {}),
           Outcome(file.workspace, Normalize(u))
    PROVE  \E n, created : Made(a, n, created)
  <1>1. Made(a, Normalize(u), {})
    BY DEF Begin, Made, Outcome
  <1> QED BY <1>1

\* Each of the other calls makes a settled workspace of the one it read.
LEMMA SeatCalls ==
    ASSUME SeatInv, NEW a \in Actors, NEW id \in AllIds,
           \/ ApplySelect(a, id) \/ ApplyRenameOrTogglePin(a, id) \/ ApplyArchive(a, id)
           \/ ApplyMarkDeletePending(a, id) \/ ApplyRestore(a, id)
           \/ ApplyCancelDeletePending(a, id)
    PROVE  \E n, created : Made(a, n, created)
  <1> DEFINE w == file.workspace
  <1>1. Readable
    BY DEF ApplySelect, ApplyRenameOrTogglePin, ApplyArchive, ApplyMarkDeletePending,
           ApplyRestore, ApplyCancelDeletePending, ApplyTo, Begin
  <1>2. ReadSessionWorkspaceState = w /\ Settled(w) /\ IdsIn(w.sessions) \subseteq AllIds
    BY <1>1, ReadsTheFile, NumberedIds DEF SeatInv
  <1>3. id \in IdsIn(w.sessions)
    BY <1>2 DEF ApplySelect, ApplyRenameOrTogglePin, ApplyArchive, ApplyMarkDeletePending,
           ApplyRestore, ApplyCancelDeletePending, ApplyTo
  <1>4. CASE ApplySelect(a, id)
    <2>1. StateOf(w, id) \notin Shelved /\ Begin(a, SelectSession(w, id), {})
      BY <1>2, <1>4 DEF ApplySelect, ApplyTo
    <2> QED BY <1>2, <1>3, <2>1, SelectOutcome, ChangingCall
  <1>5. CASE ApplyRenameOrTogglePin(a, id)
    <2>1. Begin(a, w, {})
      BY <1>2, <1>5 DEF ApplyRenameOrTogglePin, ApplyTo
    <2> QED BY <1>2, <2>1, RewriteOutcome, ChangingCall
  <1>6. CASE ApplyArchive(a, id)
    <2>1. Begin(a, PutAway(w, id, "archived"), {}) /\ "archived" \in Shelved
      BY <1>2, <1>6 DEF ApplyArchive, ApplyTo, Shelved
    <2> QED BY <1>2, <1>3, <2>1, PutAwayOutcome, ChangingCall
  <1>7. CASE ApplyMarkDeletePending(a, id)
    <2>1. Begin(a, PutAway(w, id, "delete_pending"), {}) /\ "delete_pending" \in Shelved
      BY <1>2, <1>7 DEF ApplyMarkDeletePending, ApplyTo, Shelved
    <2> QED BY <1>2, <1>3, <2>1, PutAwayOutcome, ChangingCall
  <1>8. w = Workspace(w.sessions, w.activeId)
    BY <1>2 DEF Settled
  <1>9. CASE ApplyRestore(a, id)
    <2>1. Begin(a, Restore(w, id), {})
      BY <1>2, <1>9 DEF ApplyRestore, ApplyTo
    <2>2. /\ Restore(w, id).sessions = Moved(w.sessions, id, Shelved, "draft")
          /\ Restore(w, id).activeId = w.activeId
      BY <1>8 DEF Restore, Workspace
    <2>3. Outcome(w, Normalize(Restore(w, id)))
      BY <1>2, <1>3, <2>2, TakeBackOutcome
    <2> QED BY <2>1, <2>3, ChangingCall
  <1>10. CASE ApplyCancelDeletePending(a, id)
    <2>1. Begin(a, CancelDeletePending(w, id), {})
      BY <1>2, <1>10 DEF ApplyCancelDeletePending, ApplyTo
    <2>2. /\ CancelDeletePending(w, id).sessions
                = Moved(w.sessions, id, {"delete_pending"}, "draft")
          /\ CancelDeletePending(w, id).activeId = w.activeId
          /\ {"delete_pending"} \in SUBSET Shelved
      BY <1>8 DEF CancelDeletePending, Workspace, Shelved
    <2>3. Outcome(w, Normalize(CancelDeletePending(w, id)))
      BY <1>2, <1>3, <2>2, TakeBackOutcome
    <2> QED BY <2>1, <2>3, ChangingCall
  <1> QED BY <1>4, <1>5, <1>6, <1>7, <1>9, <1>10

\* Any step, as what it does to the file, the log and the processes.
LEMMA SeatSteps ==
    ASSUME SeatInv, Next
    PROVE  \E a \in Actors :
            \/ \E n, created : Made(a, n, created)
            \/ WriteSessionWorkspaceState(a)
            \/ AppendAuditEvent(a)
            \/ Crash(a)
  <1>1. PICK a \in Actors :
            \/ ApplyNewSession(a)
            \/ \E id \in AllIds :
                \/ ApplySelect(a, id) \/ ApplyRenameOrTogglePin(a, id) \/ ApplyArchive(a, id)
                \/ ApplyMarkDeletePending(a, id) \/ ApplyRestore(a, id)
                \/ ApplyCancelDeletePending(a, id)
            \/ WriteSessionWorkspaceState(a) \/ AppendAuditEvent(a) \/ Crash(a)
    BY DEF Next
  <1> QED BY <1>1, CreatingCall, SeatCalls

\* At the start every workspace is the default one.
LEMMA SeatInit == Init => SeatInv
  <1> SUFFICES ASSUME Init PROVE SeatInv
    OBVIOUS
  <1>1. file.workspace = DefaultWorkspace /\ \A a \in Actors : held[a] = Idle
    BY DEF Init
  <1>2. Idle.workspace = DefaultWorkspace /\ Idle.created = {}
    BY DEF Idle
  <1>3. IdsIn(DefaultWorkspace.sessions) \subseteq Numbers(0) /\ Settled(DefaultWorkspace)
    BY DefaultSettled DEF Numbers
  <1> QED BY <1>1, <1>2, <1>3, WorkspaceAssumption DEF Init, SeatInv

\* Every step leaves every workspace settled.
LEMMA SeatNext == SeatInv /\ [Next]_vars => SeatInv'
  <1> SUFFICES ASSUME SeatInv, [Next]_vars PROVE SeatInv'
    OBVIOUS
  <1>0. MaxCalls \in Nat /\ calls \in Nat /\ crashes \in Nat /\ Len(DefaultSessions) = 6
    BY WorkspaceAssumption, DefaultSettled DEF SeatInv
  <1>1. ASSUME NEW a \in Actors, NEW n, NEW created, Made(a, n, created)
        PROVE  SeatInv'
    <2>1. Numbers(calls) \subseteq Numbers(calls + 1) /\ NewId \in Numbers(calls + 1)
      BY <1>0 DEF Numbers, NewId
    <2>2. IdsIn(n.sessions) \subseteq Numbers(calls')
      BY <1>1, <2>1 DEF Made, SeatInv
    <2>3. held'[a].workspace = n /\ held'[a].created = created /\ pc'[a] = "write"
      BY <1>1 DEF Made, SeatInv
    <2>4. \A b \in Actors : b # a => held'[b] = held[b] /\ pc'[b] = pc[b]
      BY <1>1 DEF Made, SeatInv
    <2>0. created \cap DefaultIds = {}
      <3>1. NewId \notin DefaultIds
        BY <1>0, DefaultSettled DEF NewId
      <3> QED BY <1>1, <3>1 DEF Made
    <2>5. \A b \in Actors :
            /\ Settled(held'[b].workspace)
            /\ IdsIn(held'[b].workspace.sessions) \subseteq Numbers(calls')
            /\ held'[b].created = {} \/ \E x : held'[b].created = {x}
            /\ held'[b].created \subseteq IdsIn(held'[b].workspace.sessions)
            /\ held'[b].created \cap DefaultIds = {}
            /\ pc'[b] = "idle" => held'[b] = Idle
      BY <1>1, <2>0, <2>1, <2>2, <2>3, <2>4 DEF Made, SeatInv
    <2>6. calls' \in Nat /\ calls' <= MaxCalls /\ crashes' \in Nat
      BY <1>0, <1>1 DEF Made
    <2>7. /\ pc' \in [Actors -> {"idle", "write", "audit"}] /\ DOMAIN held' = Actors
      BY <1>1 DEF Made, SeatInv
    <2>8. /\ IdsIn(file'.workspace.sessions) \subseteq Numbers(calls')
          /\ audited' \subseteq Numbers(calls')
          /\ file' = file
      BY <1>1, <2>1 DEF Made, SeatInv
    <2> QED BY <2>5, <2>6, <2>7, <2>8 DEF SeatInv
  <1>2. ASSUME NEW a \in Actors, WriteSessionWorkspaceState(a)
        PROVE  SeatInv'
    <2>1. /\ file' = [status |-> file'.status, workspace |-> file'.workspace]
          /\ file'.workspace = held[a].workspace /\ file'.status = "whole"
      BY <1>2 DEF WriteSessionWorkspaceState
    <2>2. pc' \in [Actors -> {"idle", "write", "audit"}] /\ \A b \in Actors : pc'[b] = "idle" => pc[b] = "idle"
      BY <1>2 DEF WriteSessionWorkspaceState, SeatInv
    <2>3. calls' = calls /\ held' = held /\ audited' = audited /\ crashes' = crashes
      BY <1>2 DEF WriteSessionWorkspaceState
    <2> QED BY <2>1, <2>2, <2>3 DEF SeatInv
  <1>3. ASSUME NEW a \in Actors, held' = [held EXCEPT ![a] = Idle],
               pc' = [pc EXCEPT ![a] = "idle"], calls' = calls, crashes' \in Nat,
               file' = [status |-> file'.status, workspace |-> file'.workspace],
               file'.workspace = file.workspace,
               file'.status = "absent" => file.status = "absent",
               audited' \subseteq Numbers(calls)
        PROVE  SeatInv'
    <2>1. held'[a] = Idle /\ \A b \in Actors : b # a => held'[b] = held[b] /\ pc'[b] = pc[b]
      BY <1>3 DEF SeatInv
    <2>2. Idle.workspace = DefaultWorkspace /\ Idle.created = {}
      BY DEF Idle
    <2>3. IdsIn(DefaultWorkspace.sessions) \subseteq Numbers(calls) /\ Settled(DefaultWorkspace)
      BY <1>0, DefaultSettled DEF Numbers
    <2>4. \A b \in Actors :
            /\ Settled(held'[b].workspace)
            /\ IdsIn(held'[b].workspace.sessions) \subseteq Numbers(calls')
            /\ held'[b].created = {} \/ \E x : held'[b].created = {x}
            /\ held'[b].created \subseteq IdsIn(held'[b].workspace.sessions)
            /\ held'[b].created \cap DefaultIds = {}
            /\ pc'[b] = "idle" => held'[b] = Idle
      BY <1>3, <2>1, <2>2, <2>3 DEF SeatInv
    <2>5. pc' \in [Actors -> {"idle", "write", "audit"}] /\ DOMAIN held' = Actors
      BY <1>3 DEF SeatInv
    <2> QED BY <1>3, <2>4, <2>5 DEF SeatInv
  <1>4. ASSUME NEW a \in Actors, AppendAuditEvent(a)
        PROVE  SeatInv'
    <2>1. held[a].created \subseteq Numbers(calls)
      BY DEF SeatInv
    <2> QED BY <1>0, <1>3, <1>4, <2>1 DEF AppendAuditEvent, SeatInv
  <1>5. ASSUME NEW a \in Actors, Crash(a)
        PROVE  SeatInv'
    <2>1. /\ file' = [status |-> file'.status, workspace |-> file'.workspace]
          /\ file'.workspace = file.workspace
          /\ file'.status = "absent" => file.status = "absent"
      BY <1>5 DEF Crash, SeatInv
    <2>2. crashes' \in Nat
      BY <1>0, <1>5 DEF Crash
    <2> QED BY <1>3, <1>5, <2>1, <2>2 DEF Crash, SeatInv
  <1>6. CASE UNCHANGED vars
    BY <1>6 DEF vars, SeatInv, Numbers
  <1> QED BY <1>1, <1>2, <1>4, <1>5, <1>6, SeatSteps

\* Every workspace is settled, whichever processes interleave.
LEMMA SeatAlways == Spec => []SeatInv
  BY SeatInit, SeatNext, PTL DEF Spec

(***************************************************************************)
(* Sessions without an audit event, for any number of processes.            *)
(***************************************************************************)

Kept(w) == IdsIn(w.sessions) \ DefaultIds
Reached == Kept(file.workspace) \cup UNION {Kept(held[a].workspace) : a \in Actors}
InHand  == UNION {held[a].created : a \in Actors}

\* Ids whose call is cut short, or was, before the audit event.
Lost == Reached \ (audited \cup InHand)

Auditing == {a \in Actors : pc[a] = "audit"}

\* Until the file is written only its process has the new session.
Private ==
    \A a \in Actors : pc[a] = "write" =>
        \A x \in held[a].created :
            /\ x \notin IdsIn(file.workspace.sessions)
            /\ \A b \in Actors : b # a => x \notin IdsIn(held[b].workspace.sessions)

FewLost(lost, n) == IsFiniteSet(lost) /\ Cardinality(lost) <= n

SeatAudit ==
    /\ SeatInv
    /\ Private
    /\ IsFiniteSet(Auditing)
    /\ FewLost(Lost, crashes)

\* Fewer lost sessions are within the same bound.
LEMMA FewerLost ==
    ASSUME NEW n \in Nat, NEW lost, FewLost(lost, n), NEW less \in SUBSET lost, NEW m \in Nat, n <= m
    PROVE  FewLost(less, m)
  <1>1. /\ IsFiniteSet(less) /\ Cardinality(less) <= Cardinality(lost)
        /\ Cardinality(less) \in Nat /\ Cardinality(lost) \in Nat
    BY FS_Subset, FS_CardinalityType DEF FewLost
  <1> QED BY <1>1 DEF FewLost

\* One crash more allows one lost session more.
LEMMA OneMoreLost ==
    ASSUME NEW n \in Nat, NEW lost, FewLost(lost, n), NEW x, NEW more \in SUBSET (lost \cup {x})
    PROVE  FewLost(more, n + 1)
  <1>1. /\ IsFiniteSet(lost \cup {x}) /\ Cardinality(lost) \in Nat
        /\ \/ Cardinality(lost \cup {x}) = Cardinality(lost)
           \/ Cardinality(lost \cup {x}) = Cardinality(lost) + 1
    BY FS_AddElement, FS_CardinalityType DEF FewLost
  <1>2. FewLost(lost \cup {x}, n + 1)
    BY <1>1 DEF FewLost
  <1> QED BY <1>2, FewerLost

\* Nothing is lost or unaudited at the start.
LEMMA AuditInit == Init => SeatAudit
  <1> SUFFICES ASSUME Init PROVE SeatAudit
    OBVIOUS
  <1>1. SeatInv /\ crashes = 0
    BY SeatInit DEF Init
  <1>2. Auditing = {} /\ Private
    BY DEF Init, Auditing, Private
  <1>3. Kept(file.workspace) = {} /\ \A a \in Actors : Kept(held[a].workspace) = {}
    BY DefaultSettled DEF Init, Idle, Kept
  <1>4. Lost = {}
    BY <1>3 DEF Lost, Reached
  <1>5. IsFiniteSet({}) /\ Cardinality({}) = 0
    BY FS_EmptySet
  <1> QED BY <1>1, <1>2, <1>4, <1>5 DEF SeatAudit, FewLost

\* Only a crash loses the audit event of a session.
LEMMA AuditNext == SeatAudit /\ [Next]_vars => SeatAudit'
  <1> SUFFICES ASSUME SeatAudit, [Next]_vars PROVE SeatAudit'
    OBVIOUS
  <1>0. SeatInv /\ SeatInv' /\ crashes \in Nat /\ DOMAIN held = Actors /\ DOMAIN pc = Actors
    BY SeatNext DEF SeatAudit, SeatInv
  <1>1. ASSUME NEW a \in Actors, NEW n, NEW created, Made(a, n, created)
        PROVE  SeatAudit'
    <2>1. /\ held'[a].workspace = n /\ held'[a].created = created /\ pc'[a] = "write"
          /\ \A b \in Actors : b # a => held'[b] = held[b] /\ pc'[b] = pc[b]
          /\ file' = file /\ audited' = audited /\ crashes' = crashes
      BY <1>0, <1>1 DEF Made
    <2>2. held[a].created = {} /\ pc[a] = "idle"
      BY <1>0, <1>1 DEF Made, SeatInv, Idle
    <2>3. /\ NewId \notin IdsIn(file.workspace.sessions)
          /\ \A b \in Actors : NewId \notin IdsIn(held[b].workspace.sessions)
      <3>1. NewId \notin Numbers(calls)
        BY DefaultSettled, <1>0 DEF NewId, Numbers, SeatInv
      <3> QED BY <1>0, <3>1 DEF SeatInv
    <2>4. Private'
      <3> SUFFICES ASSUME NEW c \in Actors, pc'[c] = "write", NEW x \in held'[c].created
                   PROVE  /\ x \notin IdsIn(file.workspace.sessions)
                          /\ \A b \in Actors : b # c => x \notin IdsIn(held'[b].workspace.sessions)
        BY <2>1 DEF Private
      <3>1. CASE c = a
        BY <1>1, <2>1, <2>3, <3>1 DEF Made
      <3>2. CASE c # a
        <4>1. /\ x \notin IdsIn(file.workspace.sessions)
              /\ \A b \in Actors : b # c => x \notin IdsIn(held[b].workspace.sessions)
              /\ x \in IdsIn(held[c].workspace.sessions)
          BY <1>0, <2>1, <3>2 DEF SeatAudit, Private, SeatInv
        <4>2. x \notin created
          BY <1>1, <2>3, <4>1 DEF Made
        <4>3. x \notin IdsIn(n.sessions)
          BY <1>1, <4>1, <4>2 DEF Made
        <4> QED BY <2>1, <4>1, <4>3
      <3> QED BY <3>1, <3>2
    <2>5. Auditing' \subseteq Auditing
      BY <2>1 DEF Auditing
    <2>6. Lost' \subseteq Lost
      <3> SUFFICES ASSUME NEW x \in Lost' PROVE x \in Lost
        OBVIOUS
      <3>1. x \in Reached' /\ x \notin audited /\ \A b \in Actors : x \notin held'[b].created
        BY <2>1 DEF Lost, InHand
      <3>2. x \notin held[a].created /\ x \notin created /\ \A b \in Actors : x \notin held[b].created
        BY <2>1, <2>2, <3>1
      <3>3. x \in Kept(n) => x \in Kept(file.workspace)
        BY <1>1, <3>2 DEF Made, Kept
      <3>4. x \in Reached
        BY <2>1, <3>1, <3>3 DEF Reached
      <3> QED BY <3>1, <3>2, <3>4 DEF Lost, InHand
    <2> QED BY <1>0, <2>1, <2>4, <2>5, <2>6, FewerLost, FS_Subset DEF SeatAudit
  <1>2. ASSUME NEW a \in Actors, WriteSessionWorkspaceState(a)
        PROVE  SeatAudit'
    <2>1. /\ file'.workspace = held[a].workspace /\ held' = held /\ audited' = audited
          /\ crashes' = crashes /\ pc[a] = "write" /\ pc'[a] = "audit"
          /\ \A b \in Actors : b # a => pc'[b] = pc[b]
      BY <1>0, <1>2 DEF WriteSessionWorkspaceState
    <2>2. Private'
      BY <2>1 DEF SeatAudit, Private
    <2>3. IsFiniteSet(Auditing')
      <3>1. Auditing' = Auditing \cup {a}
        BY <2>1 DEF Auditing
      <3> QED BY <3>1, FS_AddElement DEF SeatAudit
    <2>4. Lost' \subseteq Lost
      BY <2>1 DEF Lost, Reached, InHand
    <2> QED BY <1>0, <2>1, <2>2, <2>3, <2>4, FewerLost DEF SeatAudit
  <1>3. ASSUME NEW a \in Actors, held' = [held EXCEPT ![a] = Idle],
               pc' = [pc EXCEPT ![a] = "idle"], file'.workspace = file.workspace,
               audited \subseteq audited'
        PROVE  /\ Private'
               /\ IsFiniteSet(Auditing')
               /\ Lost' \subseteq Lost \cup (held[a].created \ audited')
    <2>1. /\ held'[a] = Idle /\ pc'[a] = "idle"
          /\ \A b \in Actors : b # a => held'[b] = held[b] /\ pc'[b] = pc[b]
      BY <1>0, <1>3
    <2>2. Idle.created = {} /\ Kept(Idle.workspace) = {}
      BY DefaultSettled DEF Idle, Kept
    <2>3. Private'
      <3> SUFFICES ASSUME NEW c \in Actors, pc'[c] = "write", NEW x \in held'[c].created
                   PROVE  /\ x \notin IdsIn(file.workspace.sessions)
                          /\ \A b \in Actors : b # c => x \notin IdsIn(held'[b].workspace.sessions)
        BY <1>3 DEF Private
      <3>1. c # a
        BY <2>1
      <3>2. /\ x \notin IdsIn(file.workspace.sessions)
            /\ \A b \in Actors : b # c => x \notin IdsIn(held[b].workspace.sessions)
        BY <2>1, <3>1 DEF SeatAudit, Private
      <3>3. x \notin DefaultIds
        BY <2>1, <3>1 DEF SeatAudit, SeatInv
      <3>4. x \notin IdsIn(held'[a].workspace.sessions)
        BY <2>1, <3>3, DefaultSettled DEF Idle
      <3> QED BY <2>1, <3>1, <3>2, <3>4
    <2>4. Auditing' \subseteq Auditing
      BY <2>1 DEF Auditing
    <2>5. Lost' \subseteq Lost \cup (held[a].created \ audited')
      BY <1>3, <2>1, <2>2 DEF Lost, Reached, InHand
    <2> QED BY <2>3, <2>4, <2>5, FS_Subset DEF SeatAudit
  <1>4. ASSUME NEW a \in Actors, AppendAuditEvent(a)
        PROVE  SeatAudit'
    <2>1. /\ Private' /\ IsFiniteSet(Auditing')
          /\ Lost' \subseteq Lost \cup (held[a].created \ audited')
          /\ held[a].created \subseteq audited' /\ crashes' = crashes
      BY <1>3, <1>4 DEF AppendAuditEvent
    <2>2. Lost' \subseteq Lost
      BY <2>1
    <2> QED BY <1>0, <2>1, <2>2, FewerLost DEF SeatAudit
  <1>5. ASSUME NEW a \in Actors, Crash(a)
        PROVE  SeatAudit'
    <2>1. file'.workspace = file.workspace
      BY <1>0, <1>5 DEF Crash, SeatInv
    <2>2. /\ Private' /\ IsFiniteSet(Auditing')
          /\ Lost' \subseteq Lost \cup held[a].created /\ crashes' = crashes + 1
      BY <1>3, <1>5, <2>1 DEF Crash
    <2>3. \E x : Lost' \subseteq Lost \cup {x}
      BY <1>0, <2>2 DEF SeatInv
    <2> QED BY <1>0, <2>2, <2>3, OneMoreLost DEF SeatAudit
  <1>6. CASE UNCHANGED vars
    BY <1>0, <1>6 DEF vars, SeatAudit, Private, Auditing, Lost, Reached, InHand
  <1> QED BY <1>0, <1>1, <1>2, <1>4, <1>5, <1>6, SeatSteps

\* A session of the file that the audit log does not have yet is the session of
\* a call between its two writes or one of those that crashes cut short there:
\* with any number of processes rewriting the file from reads of any age, no
\* more sessions go unaudited.
THEOREM Unaudited_Bounded == Spec => []UnauditedBounded
  <1>1. SeatAudit => UnauditedBounded
    <2> SUFFICES ASSUME SeatAudit PROVE UnauditedBounded
      OBVIOUS
    <2> DEFINE waiting == {a \in Auditing : held[a].created # {}}
               theirs == UNION {held[a].created : a \in waiting}
               f == [a \in waiting |-> CHOOSE x \in held[a].created : TRUE]
               unaudited == Kept(file.workspace) \ audited
    <2>1. unaudited \subseteq Lost \cup theirs
      <3> SUFFICES ASSUME NEW x \in unaudited, x \notin Lost PROVE x \in theirs
        OBVIOUS
      <3>1. PICK a \in Actors : x \in held[a].created
        BY DEF Lost, Reached, InHand
      <3>2. pc[a] \in {"idle", "write", "audit"} /\ pc[a] # "idle"
        BY <3>1 DEF SeatAudit, SeatInv, Idle
      <3>3. pc[a] # "write"
        BY <3>1 DEF SeatAudit, Private, Kept
      <3> QED BY <3>1, <3>2, <3>3 DEF Auditing
    <2>2. IsFiniteSet(waiting) /\ Cardinality(waiting) <= Cardinality(Auditing)
      BY FS_Subset DEF SeatAudit
    <2>3. f \in Surjection(waiting, theirs)
      <3>1. \A a \in waiting : held[a].created = {f[a]}
        BY DEF SeatAudit, SeatInv, Auditing
      <3>2. f \in [waiting -> theirs]
        BY <3>1
      <3>3. \A x \in theirs : \E a \in waiting : f[a] = x
        BY <3>1
      <3> QED BY <3>2, <3>3 DEF Surjection
    <2>4. IsFiniteSet(theirs) /\ Cardinality(theirs) <= Cardinality(waiting)
      BY <2>2, <2>3, FS_Surjection
    <2>5. IsFiniteSet(Lost) /\ Cardinality(Lost) <= crashes /\ crashes \in Nat
      BY DEF SeatAudit, FewLost, SeatInv
    <2> HIDE DEF theirs, waiting, unaudited
    <2>6. /\ IsFiniteSet(Lost \cup theirs)
          /\ Cardinality(Lost \cup theirs)
                = Cardinality(Lost) + Cardinality(theirs) - Cardinality(Lost \cap theirs)
      BY <2>4, <2>5, FS_Union
    <2>7. /\ Cardinality(unaudited) <= Cardinality(Lost \cup theirs)
          /\ Cardinality(unaudited) \in Nat
      BY <2>1, <2>6, FS_Subset, FS_CardinalityType
    <2>8. /\ Cardinality(Lost \cap theirs) \in Nat /\ Cardinality(Lost) \in Nat
          /\ Cardinality(theirs) \in Nat /\ Cardinality(waiting) \in Nat
          /\ Cardinality(Auditing) \in Nat
      BY <2>2, <2>4, <2>5, FS_Subset, FS_CardinalityType DEF SeatAudit
    <2>9. Cardinality(unaudited) <= Cardinality(Auditing) + crashes
      BY <2>2, <2>4, <2>5, <2>6, <2>7, <2>8
    <2> QED BY <2>9 DEF UnauditedBounded, unaudited, Kept, DefaultIds, Auditing
  <1> QED BY <1>1, AuditInit, AuditNext, PTL DEF Spec

(***************************************************************************)
(* One process at a time.                                                   *)
(***************************************************************************)

OneProcess == \A a, b \in Actors : a = b

\* What a call holds is the file's next content, made from the one it replaces.
Sole ==
    /\ file.status = "torn" => crashes > 0
    /\ audited \subseteq IdsIn(file.workspace.sessions)
    /\ \A a \in Actors :
        /\ pc[a] = "write" =>
            /\ IdsIn(file.workspace.sessions) \subseteq IdsIn(held[a].workspace.sessions)
            /\ PoolMove(file.workspace, held[a].workspace)
        /\ pc[a] = "audit" => held[a].created \subseteq IdsIn(file.workspace.sessions)

\* Before the first call no process holds anything.
LEMMA SoleInit == Init => Sole
  BY DEF Init, Sole

\* One process holds what it made of the file as it still is.
LEMMA SoleNext ==
    ASSUME OneProcess
    PROVE  SeatInv /\ Sole /\ [Next]_vars => Sole'
  <1> SUFFICES ASSUME SeatInv, Sole, [Next]_vars PROVE Sole'
    OBVIOUS
  <1>0. crashes \in Nat /\ DOMAIN held = Actors /\ DOMAIN pc = Actors
    BY DEF SeatInv
  <1>1. ASSUME NEW a \in Actors, NEW n, NEW created, Made(a, n, created)
        PROVE  Sole'
    <2>1. /\ held'[a].workspace = n /\ pc'[a] = "write" /\ \A b \in Actors : b = a
          /\ file' = file /\ audited' = audited /\ crashes' = crashes
      BY <1>0, <1>1 DEF OneProcess, Made
    <2>2. /\ IdsIn(file.workspace.sessions) \subseteq IdsIn(n.sessions)
          /\ PoolMove(file.workspace, n)
      BY <1>1 DEF Made
    <2> QED BY <2>1, <2>2 DEF Sole
  <1>2. ASSUME NEW a \in Actors, WriteSessionWorkspaceState(a)
        PROVE  Sole'
    <2>1. /\ file'.workspace = held[a].workspace /\ file'.status = "whole"
          /\ held' = held /\ audited' = audited /\ pc[a] = "write" /\ pc'[a] = "audit"
          /\ \A b \in Actors : b = a
      BY <1>0, <1>2 DEF OneProcess, WriteSessionWorkspaceState
    <2>2. /\ audited \subseteq IdsIn(held[a].workspace.sessions)
          /\ held[a].created \subseteq IdsIn(held[a].workspace.sessions)
      BY <2>1 DEF Sole, SeatInv
    <2> QED BY <2>1, <2>2 DEF Sole
  <1>3. ASSUME NEW a \in Actors, AppendAuditEvent(a)
        PROVE  Sole'
    <2>1. /\ pc'[a] = "idle" /\ file' = file /\ crashes' = crashes
          /\ audited' = audited \cup held[a].created /\ pc[a] = "audit"
          /\ \A b \in Actors : b = a
      BY <1>0, <1>3 DEF OneProcess, AppendAuditEvent
    <2> QED BY <2>1 DEF Sole
  <1>4. ASSUME NEW a \in Actors, Crash(a)
        PROVE  Sole'
    <2>1. /\ pc'[a] = "idle" /\ audited' = audited /\ crashes' > 0
          /\ file'.workspace = file.workspace /\ \A b \in Actors : b = a
      BY <1>0, <1>4 DEF OneProcess, Crash, SeatInv
    <2> QED BY <2>1 DEF Sole
  <1>5. CASE UNCHANGED vars
    BY <1>5 DEF vars, Sole
  <1> QED BY <1>1, <1>2, <1>3, <1>4, <1>5, SeatSteps

\* What is known of every state of one process.
LEMMA SoleAlways ==
    ASSUME OneProcess
    PROVE  Spec => [](SeatInv /\ Sole)
  BY SeatInit, SeatNext, SoleInit, SoleNext, PTL DEF Spec

\* There is no permanent delete: one process at a time never drops a session
\* whose creation is in the audit log, through any sequence of calls, and only a
\* crash in a rewrite makes the workspace unreadable.
THEOREM No_Session_Lost ==
    ASSUME OneProcess
    PROVE  Spec => []NoSessionLost
  <1>1. Sole => NoSessionLost
    BY DEF Sole, NoSessionLost, Readable
  <1> QED BY <1>1, SoleAlways, PTL

(***************************************************************************)
(* The pool.                                                                *)
(***************************************************************************)

\* The shelves of the pool are those of the file.
LEMMA PoolShelves ==
    /\ \A id : ShelfOf(id) = ShelfIn(file.workspace, id)
    /\ Pool!Open = OpenIn(file.workspace)
  BY DEF ShelfOf, ShelfIn, Shelf, Pool!Open, OpenIn

\* Every id is on one of the four shelves.
LEMMA ShelvesTyped ==
    ASSUME NEW w, Settled(w), NEW id
    PROVE  ShelfIn(w, id) \in {"absent", "open", "archived", "delete_pending"}
  <1>1. CASE id \in IdsIn(w.sessions)
    <2>1. PICK i \in DOMAIN w.sessions : w.sessions[i].id = id
      BY <1>1, PlaceOfId
    <2>2. ShelfIn(w, id) = Shelf(w.sessions[i].state)
      BY <2>1, ShelfAt DEF Settled
    <2> QED BY <2>2 DEF Shelf, Shelved
  <1>2. CASE id \notin IdsIn(w.sessions)
    BY <1>2 DEF ShelfIn
  <1> QED BY <1>1, <1>2

\* The current session is an open one.
LEMMA CurrentIsOpen ==
    ASSUME NEW w, Settled(w), IdsIn(w.sessions) \subseteq AllIds
    PROVE  CurrentIn(w) \in OpenIn(w) \cup {Nobody}
  <1>1. PICK k \in DOMAIN w.sessions : CentredOn(w, k)
    BY DEF Settled
  <1>2. Listed(w.sessions)
    BY DEF Settled
  <1>3. CASE w.sessions[k].state = "active"
    <2>1. CurrentIn(w) = w.sessions[k].id
      BY <1>1, <1>2, <1>3, CurrentAt
    <2>2. ShelfIn(w, w.sessions[k].id) = "open"
      BY <1>2, <1>3, ShelfAt DEF Shelf, Shelved
    <2>3. w.sessions[k].id \in AllIds
      BY PlaceOfId
    <2> QED BY <2>1, <2>2, <2>3 DEF OpenIn
  <1>4. CASE w.sessions[k].state # "active"
    BY <1>1, <1>2, <1>4, CurrentAt
  <1> QED BY <1>3, <1>4

\* The workspace starts as a pool.
LEMMA PoolInit == Init => Pool!Init
  <1> SUFFICES ASSUME Init PROVE Pool!Init
    OBVIOUS
  <1>1. Settled(file.workspace) /\ IdsIn(file.workspace.sessions) \subseteq AllIds
    BY DefaultSettled, WorkspaceAssumption DEF Init, AllIds
  <1>2. [id \in AllIds |-> ShelfOf(id)]
            \in [AllIds -> {"absent", "open", "archived", "delete_pending"}]
    BY <1>1, PoolShelves, ShelvesTyped
  <1>3. CurrentIn(file.workspace) \in Pool!Open \cup {Nobody}
    BY <1>1, CurrentIsOpen, PoolShelves
  <1> QED BY <1>2, <1>3 DEF Pool!Init, CurrentIn

\* The move a write makes, as a step of the pool.
LEMMA PoolWrite ==
    ASSUME PoolMove(file.workspace, file'.workspace)
    PROVE  [Pool!Next]_(Pool!poolVars)
  <1> DEFINE v == file.workspace
             w == file'.workspace
             shelf == [id \in AllIds |-> ShelfOf(id)]
  <1>1. /\ \A id \in AllIds : shelf[id] = ShelfIn(v, id)
        /\ \A id \in AllIds : shelf'[id] = ShelfIn(w, id)
    <2>1. \A id : ShelfOf(id) = ShelfIn(v, id)
      BY PoolShelves
    <2>2. \A id : ShelfOf(id)' = ShelfIn(w, id)
      BY DEF ShelfOf, ShelfIn, Shelf
    <2> QED BY <2>1, <2>2
  <1>2. /\ FirstIn(file.workspace.sessions, {"active"}, Nobody) = CurrentIn(v)
        /\ FirstIn(file.workspace.sessions, {"active"}, Nobody)' = CurrentIn(w)
    BY DEF CurrentIn, FirstIn, Nobody
  <1>3. ASSUME NEW id \in AllIds, NEW place, MovesTo(v, w, id, place)
        PROVE  Pool!MoveTo(id, place)
    <2>1. [x \in AllIds |-> ShelfOf(x)]' = [[x \in AllIds |-> ShelfOf(x)] EXCEPT ![id] = place]
      BY <1>1, <1>3 DEF MovesTo
    <2> QED BY <2>1 DEF Pool!MoveTo
  <1>4. (\A x \in AllIds : ShelfIn(w, x) = ShelfIn(v, x)) => shelf' = shelf
    BY <1>1
  <1>5. CASE Unmoved(v, w)
    BY <1>2, <1>4, <1>5 DEF Unmoved, Pool!poolVars
  <1>6. ASSUME NEW id \in AllIds, Creates(v, w, id) PROVE Pool!Create(id)
    BY <1>1, <1>2, <1>3, <1>6 DEF Creates, Pool!Create
  <1>7. ASSUME NEW id \in AllIds, Selects(v, w, id) PROVE Pool!Select(id)
    BY <1>1, <1>2, <1>4, <1>7 DEF Selects, Pool!Select
  <1>8. ASSUME NEW id \in AllIds, NEW place \in Shelved, PutsAway(v, w, id, place)
        PROVE  Pool!PutAway(id, place)
    <2>1. /\ Pool!MoveTo(id, place) /\ shelf[id] # "absent"
          /\ place \in {"archived", "delete_pending"}
      BY <1>1, <1>3, <1>8 DEF PutsAway, Shelved
    <2>2. Pool!Open = OpenIn(v)
      BY PoolShelves
    <2>3. LET heirs == OpenIn(v) \ {id} IN
          CurrentIn(w) \in
            CASE CurrentIn(v) = id /\ heirs = {} -> {Nobody}
              [] CurrentIn(v) = id /\ heirs # {} -> heirs
              [] CurrentIn(v) = Nobody           -> heirs \cup {Nobody}
              [] OTHER                           -> {CurrentIn(v)}
      <3>1. id # Nobody
        BY DEF AllIds, Nobody
      <3> QED BY <1>8, <3>1 DEF PutsAway
    <2> QED BY <1>2, <2>1, <2>2, <2>3 DEF Pool!PutAway
  <1>9. ASSUME NEW id \in AllIds, TakesBack(v, w, id) PROVE Pool!TakeBack(id)
    BY <1>1, <1>2, <1>3, <1>9 DEF TakesBack, Pool!TakeBack, Shelved
  <1> QED BY <1>5, <1>6, <1>7, <1>8, <1>9 DEF PoolMove, Pool!Next, Shelved

\* Only the write of the file is a step of the pool.
LEMMA PoolNext ==
    ASSUME SeatInv, Sole, [Next]_vars
    PROVE  [Pool!Next]_(Pool!poolVars)
  <1>1. CASE file'.workspace = file.workspace
    <2>1. Unmoved(file.workspace, file'.workspace)
      BY <1>1 DEF Unmoved
    <2> QED BY <2>1, PoolWrite DEF PoolMove
  <1>2. ASSUME NEW a \in Actors, WriteSessionWorkspaceState(a)
        PROVE  [Pool!Next]_(Pool!poolVars)
    <2>1. PoolMove(file.workspace, file'.workspace)
      BY <1>2 DEF WriteSessionWorkspaceState, Sole
    <2> QED BY <2>1, PoolWrite
  <1>3. ASSUME NEW a \in Actors,
               (\E n, created : Made(a, n, created)) \/ AppendAuditEvent(a) \/ Crash(a)
        PROVE  file'.workspace = file.workspace
    BY <1>3 DEF Made, AppendAuditEvent, Crash, SeatInv
  <1>4. UNCHANGED vars => file'.workspace = file.workspace
    BY DEF vars
  <1> QED BY <1>1, <1>2, <1>3, <1>4, SeatSteps

\* One process at a time keeps what the pool promises: a session is created
\* once and never deleted, at most one is active, it is not a shelved one, and it
\* changes only when the user selects another, makes one or puts it away.
THEOREM Implements_Pool ==
    ASSUME OneProcess
    PROVE  Spec => ImplementsPool
  <1>1. Init => Pool!Init
    BY PoolInit
  <1>2. SeatInv /\ Sole /\ [Next]_vars => [Pool!Next]_(Pool!poolVars)
    BY PoolNext
  <1> QED BY <1>1, <1>2, SoleAlways, PTL DEF Spec, ImplementsPool, Pool!Spec
===============================================================================
