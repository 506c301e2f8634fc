--------------------------- MODULE LivePatches_proofs --------------------------
(***************************************************************************)
(* Theorems about LivePatches, for any shells and any numbers of runs,       *)
(* failures, kills and writes of the user.                                   *)
(*                                                                          *)
(* The argument has three parts.  Each tool's list of steps is sound: a file   *)
(* is read, and copied, before it is written, and not copied after (Sound).    *)
(* Every action has one of ten effects on a run (Effect), and each of them      *)
(* leaves what is left of the list sane (Sane).  On top of that are the          *)
(* inductive invariants of the properties.                                   *)
(***************************************************************************)
EXTENDS LivePatches, TLAPS

RunFields == {"tool", "todo", "held", "saved", "start", "wrote", "failed", "alone"}
EndFields == {"tool", "outcome", "saved", "start", "wrote", "alone", "changed", "over"}
Dos == {"read", "backup", "backupIf", "keep", "stale", "guard", "require", "anchor",
        "undoAnchor", "readback", "assert", "protected", "verify", "write", "replace",
        "append", "rewrite", "rename", "copy", "swap", "device", "restore", "undo",
        "writeSeal", "route", "source", "report"}
Steps == Dos \X Files

Running(c) ==
    /\ DOMAIN c = RunFields
    /\ c.tool \in Tools
    /\ c.todo \in Seq(Steps)
    /\ c.wrote \in Seq(Files)
    /\ c.failed \in BOOLEAN /\ c.alone \in BOOLEAN

Shape ==
    /\ DOMAIN disk = Files /\ DOMAIN runs = Actors
    /\ \A a \in Actors : runs[a] = Rest \/ Running(runs[a])
    /\ evidence \in Seq(ToSet(evidence))
    /\ \A i \in DOMAIN evidence : DOMAIN evidence[i] = EndFields

(* Sequences of steps. *)
LEMMA EachWithin ==
    ASSUME NEW do, NEW F, NEW fs \in Seq(F)
    PROVE  Each(do, fs) \in Seq({do} \X F)
  BY DEF Each, Step

\* The k-th step of InTurn is of some file and some action.
LEMMA InTurnStep ==
    ASSUME NEW dos, NEW fs, Len(dos) \in {2, 3, 4}, Len(fs) \in Nat,
           NEW k \in DOMAIN InTurn(dos, fs)
    PROVE  \E x \in 1 .. Len(dos), y \in 1 .. Len(fs) :
              /\ InTurn(dos, fs)[k] = <<dos[x], fs[y]>>
              /\ k = Len(dos) * (y - 1) + x
  <1> DEFINE x == ((k - 1) % Len(dos)) + 1
             y == ((k - 1) \div Len(dos)) + 1
  <1>1. k \in 1 .. Len(dos) * Len(fs) /\ InTurn(dos, fs)[k] = <<dos[x], fs[y]>>
    BY DEF InTurn, Step
  <1>2. PICK n : n = Len(fs)
    OBVIOUS
  <1>3. PICK d : d = Len(dos)
    OBVIOUS
  <1>4. ((k - 1) % d) + 1 \in 1 .. d /\ ((k - 1) \div d) + 1 \in 1 .. n
        /\ k = d * ((((k - 1) \div d) + 1) - 1) + (((k - 1) % d) + 1)
    <2>0. n \in Nat /\ k \in 1 .. d * n /\ d \in {2, 3, 4}
      BY <1>1, <1>2, <1>3
    <2>1. CASE d = 2
      BY <2>0, <2>1
    <2>2. CASE d = 3
      BY <2>0, <2>2
    <2>3. CASE d = 4
      BY <2>0, <2>3
    <2> QED BY <2>0, <2>1, <2>2, <2>3
  <1>5. k = d * (y - 1) + x
    BY <1>4, <1>3
  <1>6. x \in 1 .. Len(dos) /\ y \in 1 .. Len(fs)
    BY <1>2, <1>3, <1>4
  <1> HIDE DEF x, y
  <1> QED BY <1>1, <1>3, <1>5, <1>6

\* InTurn takes its steps from its actions and files.
LEMMA InTurnWithin ==
    ASSUME NEW D, NEW F, NEW dos \in Seq(D), NEW fs \in Seq(F), Len(dos) \in {2, 3, 4}
    PROVE  InTurn(dos, fs) \in Seq(D \X F)
  <1>1. Len(fs) \in Nat /\ \A x \in 1 .. Len(dos) : dos[x] \in D
        /\ \A y \in 1 .. Len(fs) : fs[y] \in F
    OBVIOUS
  <1>2. \A k \in DOMAIN InTurn(dos, fs) : InTurn(dos, fs)[k] \in D \X F
    BY <1>1, InTurnStep
  <1>3. Len(dos) * Len(fs) \in Nat
    BY <1>1
  <1>4. InTurn(dos, fs) = [k \in 1 .. Len(dos) * Len(fs) |-> InTurn(dos, fs)[k]]
        /\ DOMAIN InTurn(dos, fs) = 1 .. Len(dos) * Len(fs)
    BY DEF InTurn
  <1> HIDE DEF InTurn
  <1> QED BY <1>2, <1>3, <1>4

\* What a concatenation is made of.
LEMMA ConcatWithin ==
    ASSUME NEW P, NEW Q, NEW s \in Seq(P), NEW t \in Seq(Q)
    PROVE  /\ s \o t \in Seq(P \cup Q)
           /\ Len(s \o t) = Len(s) + Len(t)
           /\ \A i \in 1 .. Len(s) : (s \o t)[i] = s[i]
           /\ \A i \in 1 .. Len(t) : (s \o t)[Len(s) + i] = t[i]
  <1>1. s \in Seq(P \cup Q) /\ t \in Seq(P \cup Q)
    OBVIOUS
  <1> QED BY <1>1

(* Every step of a sequence with an action in D and a file outside of K comes after
   a step of the same file with an action in E. *)
Before(s, E, D, K) ==
    \A i \in DOMAIN s : s[i][1] \in D /\ s[i][2] \notin K =>
        \E j \in 1 .. (i - 1) : s[j][2] = s[i][2] /\ s[j][1] \in E

\* Each has steps of one action.
LEMMA BeforeEach ==
    ASSUME NEW do, NEW F, NEW fs \in Seq(F), NEW E, NEW D, NEW K,
           do \notin D \/ F \subseteq K
    PROVE  Before(Each(do, fs), E, D, K)
  BY DEF Before, Each, Step

\* A sequence without steps in D.
LEMMA BeforeNone ==
    ASSUME NEW C, NEW F, NEW s \in Seq(C \X F), NEW E, NEW D, NEW K,
           C \cap D = {} \/ F \subseteq K
    PROVE  Before(s, E, D, K)
  <1>1. \A i \in DOMAIN s : s[i] \in C \X F
    OBVIOUS
  <1>2. \A i \in DOMAIN s : s[i][1] \in C /\ s[i][2] \in F
    BY <1>1
  <1> QED BY <1>2 DEF Before

\* In InTurn the earlier actions come first for every file.
LEMMA BeforeInTurn ==
    ASSUME NEW F, NEW fs \in Seq(F), NEW dos, Len(dos) \in {2, 3, 4},
           NEW E, NEW D, NEW K,
           \A x \in 1 .. Len(dos) : dos[x] \in D =>
              \E z \in 1 .. (x - 1) : dos[z] \in E
    PROVE  Before(InTurn(dos, fs), E, D, K)
  <1>1. SUFFICES ASSUME NEW k \in DOMAIN InTurn(dos, fs), InTurn(dos, fs)[k][1] \in D
                 PROVE  \E j \in 1 .. (k - 1) :
                           /\ InTurn(dos, fs)[j][2] = InTurn(dos, fs)[k][2]
                           /\ InTurn(dos, fs)[j][1] \in E
    BY DEF Before
  <1>2. Len(fs) \in Nat
    OBVIOUS
  <1>3. PICK x \in 1 .. Len(dos), y \in 1 .. Len(fs) :
           InTurn(dos, fs)[k] = <<dos[x], fs[y]>> /\ k = Len(dos) * (y - 1) + x
    BY <1>2, InTurnStep
  <1>4. PICK z \in 1 .. (x - 1) : dos[z] \in E
    BY <1>1, <1>3
  <1>5. PICK j : j = Len(dos) * (y - 1) + z
    OBVIOUS
  <1>6. PICK n : n = Len(fs)
    OBVIOUS
  <1>7. j \in 1 .. (k - 1) /\ j \in 1 .. Len(dos) * Len(fs)
        /\ ((j - 1) % Len(dos)) + 1 = z /\ ((j - 1) \div Len(dos)) + 1 = y
    <2>1. CASE Len(dos) = 2
      BY <1>2, <1>3, <1>4, <1>5, <1>6, <2>1, SMTT(40)
    <2>2. CASE Len(dos) = 3
      BY <1>2, <1>3, <1>4, <1>5, <1>6, <2>2
    <2>3. CASE Len(dos) = 4
      BY <1>2, <1>3, <1>4, <1>5, <1>6, <2>3
    <2> QED BY <2>1, <2>2, <2>3
  <1>8. InTurn(dos, fs)[j] = <<dos[z], fs[y]>>
    BY <1>7 DEF InTurn, Step
  <1> QED BY <1>3, <1>4, <1>7, <1>8, SMTT(40)

\* What s has done need not be done in t.
LEMMA BeforeConcat ==
    ASSUME NEW P, NEW Q, NEW s \in Seq(P), NEW t \in Seq(Q),
           NEW E, NEW D, NEW K, NEW M,
           Before(s, E, D, K), Before(t, E, D, K \cup M),
           \A f \in M : \E i \in DOMAIN s : s[i][2] = f /\ s[i][1] \in E
    PROVE  Before(s \o t, E, D, K)
  <1> DEFINE w == s \o t
  <1>1. /\ w \in Seq(P \cup Q) /\ Len(w) = Len(s) + Len(t)
        /\ \A i \in 1 .. Len(s) : w[i] = s[i]
        /\ \A i \in 1 .. Len(t) : w[Len(s) + i] = t[i]
        /\ Len(s) \in Nat /\ Len(t) \in Nat
    BY ConcatWithin
  <1> HIDE DEF w
  <1>2. SUFFICES ASSUME NEW i \in DOMAIN w, w[i][1] \in D, w[i][2] \notin K
                 PROVE  \E j \in 1 .. (i - 1) : w[j][2] = w[i][2] /\ w[j][1] \in E
    BY DEF Before, w
  <1>3. CASE i \in 1 .. Len(s)
    <2>1. w[i] = s[i] /\ i \in DOMAIN s
      BY <1>1, <1>3
    <2>2. PICK j \in 1 .. (i - 1) : s[j][2] = s[i][2] /\ s[j][1] \in E
      BY <1>2, <2>1 DEF Before
    <2>3. w[j] = s[j]
      BY <1>1, <1>3
    <2> QED BY <2>1, <2>2, <2>3
  <1>4. CASE i \notin 1 .. Len(s)
    <2>1. PICK m \in 1 .. Len(t) : i = Len(s) + m /\ w[i] = t[m]
      <3>1. i - Len(s) \in 1 .. Len(t) /\ i = Len(s) + (i - Len(s))
        BY <1>1, <1>4
      <3> QED BY <3>1, <1>1
    <2>2. CASE w[i][2] \in M
      <3>1. PICK j \in DOMAIN s : s[j][2] = w[i][2] /\ s[j][1] \in E
        BY <2>2
      <3>2. j \in 1 .. Len(s) /\ j \in 1 .. (i - 1)
        BY <2>1, <1>1
      <3> QED BY <3>1, <3>2, <1>1
    <2>3. CASE w[i][2] \notin M
      <3>1. PICK j \in 1 .. (m - 1) : t[j][2] = t[m][2] /\ t[j][1] \in E
        BY <1>2, <2>1, <2>3 DEF Before
      <3>2. Len(s) + j \in 1 .. (i - 1) /\ w[Len(s) + j] = t[j]
        BY <1>1, <2>1
      <3> QED BY <2>1, <3>1, <3>2
    <2> QED BY <2>2, <2>3
  <1> QED BY <1>3, <1>4

NotAfter(s, E, D, K) ==
    \A i, j \in DOMAIN s :
        j < i /\ s[j][1] \in E /\ s[i][1] \in D /\ s[i][2] = s[j][2] => s[i][2] \in K

\* A sequence without steps in D, or in E.
LEMMA NotAfterNone ==
    ASSUME NEW C, NEW F, NEW s \in Seq(C \X F), NEW E, NEW D, NEW K,
           C \cap D = {} \/ C \cap E = {} \/ F \subseteq K
    PROVE  NotAfter(s, E, D, K)
  <1>1. \A i \in DOMAIN s : s[i] \in C \X F
    OBVIOUS
  <1>2. \A i \in DOMAIN s : s[i][1] \in C /\ s[i][2] \in F
    BY <1>1
  <1> QED BY <1>2 DEF NotAfter

Distinct(fs) == \A y, z \in DOMAIN fs : fs[y] = fs[z] => y = z

\* In InTurn no file comes twice.
LEMMA NotAfterInTurn ==
    ASSUME NEW F, NEW fs \in Seq(F), Distinct(fs), NEW dos, Len(dos) \in {2, 3, 4},
           NEW E, NEW D, NEW K,
           \A x \in 1 .. Len(dos) : \A z \in 1 .. (x - 1) : dos[z] \in E => dos[x] \notin D
    PROVE  NotAfter(InTurn(dos, fs), E, D, K)
  <1>1. SUFFICES ASSUME NEW i \in DOMAIN InTurn(dos, fs), NEW j \in DOMAIN InTurn(dos, fs),
                        j < i, InTurn(dos, fs)[j][1] \in E, InTurn(dos, fs)[i][1] \in D,
                        InTurn(dos, fs)[i][2] = InTurn(dos, fs)[j][2]
                 PROVE  FALSE
    BY DEF NotAfter
  <1>2. Len(fs) \in Nat
    OBVIOUS
  <1>3. PICK x \in 1 .. Len(dos), y \in 1 .. Len(fs) :
           InTurn(dos, fs)[i] = <<dos[x], fs[y]>> /\ i = Len(dos) * (y - 1) + x
    BY <1>2, InTurnStep
  <1>4. PICK z \in 1 .. Len(dos), w \in 1 .. Len(fs) :
           InTurn(dos, fs)[j] = <<dos[z], fs[w]>> /\ j = Len(dos) * (w - 1) + z
    BY <1>2, InTurnStep
  <1>5. fs[y] = fs[w] /\ dos[x] \in D /\ dos[z] \in E
    BY <1>1, <1>3, <1>4
  <1>6. y = w
    BY <1>5 DEF Distinct
  <1>7. z \in 1 .. (x - 1)
    BY <1>1, <1>3, <1>4, <1>6
  <1> QED BY <1>5, <1>7

\* Sequences of other actions or other files, one after the other.
LEMMA NotAfterConcat ==
    ASSUME NEW P, NEW Q, NEW s \in Seq(P), NEW t \in Seq(Q), NEW E, NEW D, NEW K,
           NotAfter(s, E, D, K), NotAfter(t, E, D, K),
           \A p \in P, q \in Q : p[1] \in E /\ q[1] \in D /\ p[2] = q[2] => q[2] \in K
    PROVE  NotAfter(s \o t, E, D, K)
  <1> DEFINE w == s \o t
  <1>1. /\ w \in Seq(P \cup Q) /\ Len(w) = Len(s) + Len(t)
        /\ \A i \in 1 .. Len(s) : w[i] = s[i]
        /\ \A i \in 1 .. Len(t) : w[Len(s) + i] = t[i]
        /\ Len(s) \in Nat /\ Len(t) \in Nat
    BY ConcatWithin
  <1> HIDE DEF w
  <1>2. SUFFICES ASSUME NEW i \in DOMAIN w, NEW j \in DOMAIN w, j < i,
                        w[j][1] \in E, w[i][1] \in D, w[i][2] = w[j][2]
                 PROVE  w[i][2] \in K
    BY DEF NotAfter, w
  <1>3. ASSUME NEW k \in DOMAIN w
        PROVE  \/ k \in DOMAIN s /\ w[k] = s[k]
               \/ \E m \in DOMAIN t : k = Len(s) + m /\ w[k] = t[m]
    <2>1. k \in 1 .. Len(w) /\ DOMAIN s = 1 .. Len(s) /\ DOMAIN t = 1 .. Len(t)
      BY <1>1
    <2>2. CASE k \in 1 .. Len(s)
      BY <1>1, <2>1, <2>2
    <2>3. CASE k \notin 1 .. Len(s)
      <3>1. PICK m : m = k - Len(s)
        OBVIOUS
      <3>2. m \in 1 .. Len(t) /\ k = Len(s) + m
        BY <1>1, <2>1, <2>3, <3>1
      <3>3. w[k] = t[m]
        BY <1>1, <3>2
      <3> QED BY <2>1, <3>2, <3>3
    <2> QED BY <2>2, <2>3
  <1>4. CASE i \in DOMAIN s
    <2>1. j \in DOMAIN s /\ w[j] = s[j] /\ w[i] = s[i]
      BY <1>1, <1>2, <1>4
    <2>2. s[j][1] \in E /\ s[i][1] \in D /\ s[i][2] = s[j][2] /\ j < i
      BY <1>2, <2>1
    <2>3. s[i][2] \in K
      BY <1>4, <2>1, <2>2 DEF NotAfter
    <2> QED BY <2>1, <2>3
  <1>5. CASE i \notin DOMAIN s
    <2>1. PICK m \in DOMAIN t : i = Len(s) + m /\ w[i] = t[m]
      BY <1>3, <1>5
    <2>2. CASE j \in DOMAIN s
      <3>1. w[j] = s[j] /\ s[j] \in P /\ t[m] \in Q
        BY <2>2, <1>1
      <3>2. s[j][1] \in E /\ t[m][1] \in D /\ s[j][2] = t[m][2]
        BY <3>1, <2>1, <1>2
      <3>3. t[m][2] \in K
        BY <3>1, <3>2
      <3> QED BY <3>3, <2>1
    <2>3. CASE j \notin DOMAIN s
      <3>1. PICK n \in DOMAIN t : j = Len(s) + n /\ w[j] = t[n]
        BY <1>3, <2>3
      <3>2. n < m
        BY <3>1, <2>1, <1>1, <1>2
      <3> QED BY <3>1, <3>2, <2>1, <1>2 DEF NotAfter
    <2> QED BY <2>2, <2>3
  <1> QED BY <1>4, <1>5

(* What every tool keeps to. *)
Writes == {"write", "replace", "append"} \cup Always
Puts == Writes \cup {"copy", "device", "restore", "undo"}
Keeps == {"backup", "backupIf", "keep"}
Uncopied == UserFiles \cup {"kernel"}

ReadFirst(s, K) == Before(s, {"read"}, Writes \cup {"keep", "backupIf"}, K)
BackedFirst(s, K) == Before(s, Keeps, Puts, Uncopied \cup K)
Once(s) ==
    /\ NotAfter(s, Puts, Keeps, UserFiles)
    /\ NotAfter(s, Puts, {"read"}, {})
    /\ NotAfter(s, {"backupIf"}, {"read"} \cup (Puts \ {"write", "replace"}), {})
Orderly(s) == ReadFirst(s, {}) /\ BackedFirst(s, {}) /\ Once(s)

Patching == {<<"read", "backup", "write">>, <<"read", "backup", "rewrite">>,
             <<"read", "backupIf", "write">>, <<"read", "backupIf", "write", "readback">>}
PatchDos == {"read", "backup", "backupIf", "write", "rewrite", "readback"}

\* Tools that patch file by file are orderly.
LEMMA PatchingOrderly ==
    ASSUME NEW F, NEW fs \in Seq(F), Distinct(fs), NEW dos \in Patching
    PROVE  InTurn(dos, fs) \in Seq(PatchDos \X F) /\ Orderly(InTurn(dos, fs))
  <1>1. Len(dos) \in {2, 3, 4} /\ dos \in Seq(PatchDos)
    <2>1. CASE dos = <<"read", "backup", "write">>
      BY <2>1 DEF PatchDos
    <2>2. CASE dos = <<"read", "backup", "rewrite">>
      BY <2>2 DEF PatchDos
    <2>3. CASE dos = <<"read", "backupIf", "write">>
      BY <2>3 DEF PatchDos
    <2>4. CASE dos = <<"read", "backupIf", "write", "readback">>
      BY <2>4 DEF PatchDos
    <2> QED BY <2>1, <2>2, <2>3, <2>4 DEF Patching
  <1>2. InTurn(dos, fs) \in Seq(PatchDos \X F)
    BY <1>1, InTurnWithin
  <1>3. \A x \in 1 .. Len(dos) : dos[x] \in Writes \cup {"keep", "backupIf"} =>
           \E z \in 1 .. (x - 1) : dos[z] \in {"read"}
    BY DEF Patching, Writes, Always
  <1>4. \A x \in 1 .. Len(dos) : dos[x] \in Puts => \E z \in 1 .. (x - 1) : dos[z] \in Keeps
    BY DEF Patching, Puts, Writes, Always, Keeps
  <1>5. \A x \in 1 .. Len(dos) : \A z \in 1 .. (x - 1) : dos[z] \in Puts => dos[x] \notin Keeps
    BY DEF Patching, Puts, Writes, Always, Keeps
  <1>10. \A x \in 1 .. Len(dos) : \A z \in 1 .. (x - 1) : dos[z] \in Puts => dos[x] \notin {"read"}
    BY DEF Patching, Puts, Writes, Always
  <1>6. \A x \in 1 .. Len(dos) : \A z \in 1 .. (x - 1) : dos[z] \in {"backupIf"} =>
           dos[x] \notin {"read"} \cup (Puts \ {"write", "replace"})
    BY DEF Patching, Puts, Writes, Always
  <1>7. ReadFirst(InTurn(dos, fs), {})
    BY <1>1, <1>3, BeforeInTurn DEF ReadFirst
  <1>8. BackedFirst(InTurn(dos, fs), {})
    BY <1>1, <1>4, BeforeInTurn DEF BackedFirst
  <1>9. Once(InTurn(dos, fs))
    BY <1>1, <1>5, <1>6, <1>10, NotAfterInTurn DEF Once
  <1> QED BY <1>2, <1>7, <1>8, <1>9 DEF Orderly

\* The files by name.
LEMMA FilesKnown ==
    Files = {"handler", "kernel", "server", "startup", "handlers", "provider", "push",
             "prompt", "chat", "main", "index", "worker", "launcher", "entry", "alias",
             "package", "config", "sessions", "state", "workspace", "note", "plist", "logo"}
  <1>1. ToSet(Release)
        = {"handler", "kernel", "server", "startup", "handlers", "provider", "push",
           "prompt", "chat", "main", "index", "worker", "launcher", "entry", "alias",
           "package"}
    BY DEF ToSet, Release
  <1> QED BY <1>1 DEF Files, UserFiles

\* A concatenation is known by its length and its members.
LEMMA ConcatIs ==
    ASSUME NEW s \in Seq(Steps), NEW t \in Seq(Steps),
           NEW w \in Seq(Steps), Len(w) = Len(s) + Len(t),
           \A i \in 1 .. Len(s) : w[i] = s[i],
           \A i \in 1 .. Len(t) : w[Len(s) + i] = t[i]
    PROVE  s \o t = w
  <1>1. /\ s \o t \in Seq(Steps) /\ Len(s \o t) = Len(s) + Len(t)
        /\ \A i \in 1 .. Len(s) : (s \o t)[i] = s[i]
        /\ \A i \in 1 .. Len(t) : (s \o t)[Len(s) + i] = t[i]
    OBVIOUS
  <1> DEFINE v == s \o t
  <1>2. /\ v \in Seq(Steps) /\ Len(v) = Len(w)
        /\ Len(s) \in Nat /\ Len(t) \in Nat
    BY <1>1
  <1>3. ASSUME NEW i \in 1 .. Len(w) PROVE v[i] = w[i]
    <2>1. CASE i \in 1 .. Len(s)
      BY <1>1, <2>1
    <2>2. CASE i \notin 1 .. Len(s)
      <3>1. PICK m : m = i - Len(s)
        OBVIOUS
      <3>2. m \in 1 .. Len(t) /\ i = Len(s) + m
        BY <1>2, <2>2, <3>1
      <3> QED BY <1>1, <3>2
    <2> QED BY <2>1, <2>2
  <1> HIDE DEF v
  <1>4. v = w
    BY <1>2, <1>3
  <1> QED BY <1>4 DEF v

Joins(s, t, w) ==
    /\ Len(w) = Len(s) + Len(t)
    /\ \A i \in 1 .. Len(s) : w[i] = s[i]
    /\ \A i \in 1 .. Len(t) : w[Len(s) + i] = t[i]

\* The same, for literal sequences.
LEMMA Joined ==
    ASSUME NEW s, NEW t, NEW w, s \in Seq(Steps), t \in Seq(Steps), w \in Seq(Steps),
           Joins(s, t, w)
    PROVE  s \o t = w
  BY ConcatIs DEF Joins

(* No file is copied twice. *)
KeptApart(s) == NotAfter(s, Keeps \cup {"stale"}, Keeps \cup {"stale"}, {})

(* Files of the state home are copied before they are overwritten whole, and looked
   at after they are copied. *)
CopiedFirst(s, K) == Before(s, {"backup"}, {"copy", "rewrite"}, (Files \ UserFiles) \cup K)
LookedLast(s) ==
    \A i, k \in DOMAIN s :
        i < k /\ s[i][1] = "backup" /\ s[k][1] \in Writes /\ s[i][2] = s[k][2]
        /\ s[k][2] \in UserFiles =>
           \E j \in (i + 1) .. (k - 1) : s[j][1] = "read" /\ s[j][2] = s[k][2]
Careful(s) == CopiedFirst(s, {}) /\ LookedLast(s)

(* What only some tools do. *)
Suits(tool, s) ==
    \A i \in DOMAIN s :
        /\ s[i][1] \in {"swap", "stale"} => tool = "bridge" /\ s[i][2] = "handler"
        /\ s[i][1] \in Puts /\ tool = "bridge" => s[i][2] # "handler"
        /\ s[i][1] \notin {"undo", "undoAnchor"}
        /\ s[i][1] = "restore" => tool = "rollback"
        /\ tool = "rollback" => s[i][1] = "restore"
        /\ s[i][1] = "writeSeal" => tool = "reseal"
        /\ tool = "reseal" => s[i][1] \in {"read", "writeSeal", "verify"}
        /\ s[i][1] = "source" =>
              tool # "outbound" /\ \A j \in DOMAIN s : j > i => s[j][1] \notin Writes
        /\ s[i][1] = "report" =>
              tool = "outbound" /\ \A j \in DOMAIN s : j > i => s[j][1] \notin Writes
        /\ tool \in {"tools", "doctor"} => s[i][2] = "config" /\ s[i][1] # "backup"
        /\ tool \in {"layout", "dashboard"} => s[i][2] = "index"
        /\ s[i][1] \in Puts /\ tool \in {"outbound", "tools", "doctor"} => s[i][1] = "replace"
        /\ s[i][2] \in UserFiles =>
              /\ s[i][1] # "write"
              /\ s[i][1] = "rewrite" => tool = "allowlist"
              /\ s[i][1] = "copy" => s[i][2] = "workspace"
              /\ s[i][1] = "restore" => s[i][2] = "state"
              /\ s[i][1] = "append" => s[i][2] = "note"
              /\ s[i][1] = "device" => s[i][2] = "state"
        /\ s[i][1] = "keep" => s[i][2] \in UserFiles /\ tool \in {"tools", "doctor", "cleanup"}
        /\ s[i][2] = "workspace" => s[i][1] \in {"backup", "copy"}
        /\ tool = "outbound" => s[i][2] \notin Uncopied

Sound(tool, s) ==
    /\ s \in Seq(Steps)
    /\ ReadFirst(s, {})
    /\ tool \notin {"route", "rollback"} => BackedFirst(s, {})
    /\ Once(s) /\ KeptApart(s) /\ Careful(s) /\ Suits(tool, s)

\* A tool that keeps away from the state home is careful with it.
LEMMA CarefulAway ==
    ASSUME NEW F, NEW s \in Seq(Dos \X F), F \subseteq Files \ UserFiles
    PROVE  Careful(s)
  <1>1. \A i \in DOMAIN s : s[i] \in Dos \X F
    OBVIOUS
  <1>2. \A i \in DOMAIN s : s[i][2] \notin UserFiles
    BY <1>1
  <1>3. \A i \in DOMAIN s : s[i][2] \in F
    BY <1>1
  <1> QED BY <1>2, <1>3 DEF Careful, CopiedFirst, LookedLast, Before, Steps

\* Tools that patch file by file are sound.
LEMMA PatchingSound ==
    ASSUME NEW F, NEW fs \in Seq(F), Distinct(fs), NEW dos \in Patching,
           F \subseteq Files \ UserFiles, NEW tool \in {"hotfix", "conversation",
              "replay", "identity", "ux", "registry", "layout", "dashboard", "namespace"},
           tool \in {"layout", "dashboard"} => F = {"index"}
    PROVE  Sound(tool, InTurn(dos, fs))
  <1> DEFINE s == InTurn(dos, fs)
  <1>1. s \in Seq(PatchDos \X F) /\ Orderly(s)
    BY PatchingOrderly
  <1>2. s \in Seq(Steps) /\ s \in Seq(Dos \X F)
    BY <1>1 DEF Steps, Dos, PatchDos
  <1>3. Careful(s)
    BY <1>2, CarefulAway
  <1>4. KeptApart(s)
    <2>1. Len(dos) \in {2, 3, 4}
      BY DEF Patching
    <2>2. \A x \in 1 .. Len(dos) : \A z \in 1 .. (x - 1) :
             dos[z] \in Keeps \cup {"stale"} => dos[x] \notin Keeps \cup {"stale"}
      BY DEF Patching, Keeps
    <2> QED BY <2>1, <2>2, NotAfterInTurn DEF KeptApart
  <1>5. \A i \in DOMAIN s : s[i] \in PatchDos \X F
    BY <1>1
  <1> HIDE DEF s
  <1>6. \A i \in DOMAIN s : s[i][1] \in PatchDos /\ s[i][2] \in F
    BY <1>5
  <1>7. Suits(tool, s)
    <2>1. "workspace" \notin F
      BY DEF UserFiles
    <2> QED BY <1>6, <2>1 DEF Suits, PatchDos, Puts, Writes, Always
  <1> QED BY <1>1, <1>2, <1>3, <1>4, <1>7 DEF Sound, Orderly, s

\* And it is sound.
LEMMA MemorySearchHotfixSound == Sound("hotfix", MemorySearchHotfix)
  <1> DEFINE fs == <<"handler">>
             dos == <<"read", "backup", "write">>
  <1>1. dos \in Patching
    BY DEF Patching
  <1>2. fs \in Seq({"handler"}) /\ Distinct(fs)
    BY DEF Distinct, Interface
  <1>3. {"handler"} \subseteq Files \ UserFiles
    BY FilesKnown DEF UserFiles
  <1>4. InTurn(dos, fs) = MemorySearchHotfix
    BY DEF MemorySearchHotfix
  <1> HIDE DEF fs, dos
  <1>5. Sound("hotfix", InTurn(dos, fs))
    BY <1>1, <1>2, <1>3, PatchingSound
  <1> QED BY <1>4, <1>5

\* And it is sound.
LEMMA ConversationUxSound == Sound("conversation", ConversationUx)
  <1> DEFINE fs == <<"handler", "chat">>
             dos == <<"read", "backup", "rewrite">>
  <1>1. dos \in Patching
    BY DEF Patching
  <1>2. fs \in Seq({"chat", "handler"}) /\ Distinct(fs)
    BY DEF Distinct, Interface
  <1>3. {"chat", "handler"} \subseteq Files \ UserFiles
    BY FilesKnown DEF UserFiles
  <1>4. InTurn(dos, fs) = ConversationUx
    BY DEF ConversationUx
  <1> HIDE DEF fs, dos
  <1>5. Sound("conversation", InTurn(dos, fs))
    BY <1>1, <1>2, <1>3, PatchingSound
  <1> QED BY <1>4, <1>5

\* And it is sound.
LEMMA ReplayEvaluatorSound == Sound("replay", ReplayEvaluator)
  <1> DEFINE fs == <<"handler">>
             dos == <<"read", "backupIf", "write">>
  <1>1. dos \in Patching
    BY DEF Patching
  <1>2. fs \in Seq({"handler"}) /\ Distinct(fs)
    BY DEF Distinct, Interface
  <1>3. {"handler"} \subseteq Files \ UserFiles
    BY FilesKnown DEF UserFiles
  <1>4. InTurn(dos, fs) = ReplayEvaluator
    BY DEF ReplayEvaluator, PatchEach
  <1> HIDE DEF fs, dos
  <1>5. Sound("replay", InTurn(dos, fs))
    BY <1>1, <1>2, <1>3, PatchingSound
  <1> QED BY <1>4, <1>5

\* And it is sound.
LEMMA RuntimeIdentityPromptSound == Sound("identity", RuntimeIdentityPrompt)
  <1> DEFINE fs == <<"prompt">>
             dos == <<"read", "backupIf", "write">>
  <1>1. dos \in Patching
    BY DEF Patching
  <1>2. fs \in Seq({"prompt"}) /\ Distinct(fs)
    BY DEF Distinct, Interface
  <1>3. {"prompt"} \subseteq Files \ UserFiles
    BY FilesKnown DEF UserFiles
  <1>4. InTurn(dos, fs) = RuntimeIdentityPrompt
    BY DEF RuntimeIdentityPrompt, PatchEach
  <1> HIDE DEF fs, dos
  <1>5. Sound("identity", InTurn(dos, fs))
    BY <1>1, <1>2, <1>3, PatchingSound
  <1> QED BY <1>4, <1>5

\* And it is sound.
LEMMA UserScreenUxSound == Sound("ux", UserScreenUx)
  <1> DEFINE fs == Interface
             dos == <<"read", "backupIf", "write">>
  <1>1. dos \in Patching
    BY DEF Patching
  <1>2. fs \in Seq({"chat", "index", "main", "worker"}) /\ Distinct(fs)
    BY DEF Distinct, Interface
  <1>3. {"chat", "index", "main", "worker"} \subseteq Files \ UserFiles
    BY FilesKnown DEF UserFiles
  <1>4. InTurn(dos, fs) = UserScreenUx
    BY DEF UserScreenUx, PatchEach
  <1> HIDE DEF fs, dos
  <1>5. Sound("ux", InTurn(dos, fs))
    BY <1>1, <1>2, <1>3, PatchingSound
  <1> QED BY <1>4, <1>5

\* And it is sound.
LEMMA PluginRegistryRuntimeSound == Sound("registry", PluginRegistryRuntime)
  <1> DEFINE fs == <<"plist">>
             dos == <<"read", "backupIf", "write">>
  <1>1. dos \in Patching
    BY DEF Patching
  <1>2. fs \in Seq({"plist"}) /\ Distinct(fs)
    BY DEF Distinct, Interface
  <1>3. {"plist"} \subseteq Files \ UserFiles
    BY FilesKnown DEF UserFiles
  <1>4. InTurn(dos, fs) = PluginRegistryRuntime
    BY DEF PluginRegistryRuntime, PatchEach
  <1> HIDE DEF fs, dos
  <1>5. Sound("registry", InTurn(dos, fs))
    BY <1>1, <1>2, <1>3, PatchingSound
  <1> QED BY <1>4, <1>5

\* The list of this tool, step by step.
LEMMA SelfGrowthAuthoritySteps ==
    SelfGrowthAuthority
    = <<<<"guard", "handler">>, <<"read", "handler">>,
        <<"backup", "handler">>, <<"copy", "kernel">>,
        <<"write", "handler">>, <<"assert", "handler">>>>
  BY DEF SelfGrowthAuthority, Step

\* And it is sound.
LEMMA SelfGrowthAuthoritySound == Sound("growth", SelfGrowthAuthority)
  <1> DEFINE s == <<<<"guard", "handler">>, <<"read", "handler">>,
                      <<"backup", "handler">>, <<"copy", "kernel">>,
                      <<"write", "handler">>, <<"assert", "handler">>>>
  <1>1. s \in Seq(Steps)
    BY FilesKnown DEF Steps, Dos
  <1>2. ReadFirst(s, {})
    BY DEF ReadFirst, Before, Writes, Always
  <1>3. BackedFirst(s, {})
    BY DEF BackedFirst, Before, Keeps, Puts, Writes, Always, Uncopied, UserFiles
  <1>4. Once(s)
    BY DEF Once, NotAfter, Keeps, Puts, Writes, Always, UserFiles
  <1>5. KeptApart(s)
    BY DEF KeptApart, NotAfter, Keeps
  <1>6. Careful(s)
    <2>1. s \in Seq(Dos \X {"handler", "kernel"})
      BY DEF Dos
    <2>2. {"handler", "kernel"} \subseteq Files \ UserFiles
      BY FilesKnown DEF UserFiles
    <2> HIDE DEF s
    <2> QED BY <2>1, <2>2, CarefulAway
  <1>7. Suits("growth", s)
    BY DEF Suits, Puts, Writes, Always, UserFiles, Uncopied
  <1> QED BY <1>1, <1>2, <1>3, <1>4, <1>5, <1>6, <1>7, SelfGrowthAuthoritySteps DEF Sound

\* And it is sound.
LEMMA ChatLayoutRecoverySound == Sound("layout", ChatLayoutRecovery)
  <1> DEFINE fs == <<"index">>
             dos == <<"read", "backupIf", "write", "readback">>
  <1>1. dos \in Patching
    BY DEF Patching
  <1>2. fs \in Seq({"index"}) /\ Distinct(fs)
    BY DEF Distinct, Interface
  <1>3. {"index"} \subseteq Files \ UserFiles
    BY FilesKnown DEF UserFiles
  <1>4. InTurn(dos, fs) = ChatLayoutRecovery
    BY DEF ChatLayoutRecovery
  <1> HIDE DEF fs, dos
  <1>5. Sound("layout", InTurn(dos, fs))
    BY <1>1, <1>2, <1>3, PatchingSound
  <1> QED BY <1>4, <1>5

\* And it is sound.
LEMMA DashboardCacheBustSound == Sound("dashboard", DashboardCacheBust)
  <1> DEFINE fs == <<"index">>
             dos == <<"read", "backupIf", "write", "readback">>
  <1>1. dos \in Patching
    BY DEF Patching
  <1>2. fs \in Seq({"index"}) /\ Distinct(fs)
    BY DEF Distinct, Interface
  <1>3. {"index"} \subseteq Files \ UserFiles
    BY FilesKnown DEF UserFiles
  <1>4. InTurn(dos, fs) = DashboardCacheBust
    BY DEF DashboardCacheBust
  <1> HIDE DEF fs, dos
  <1>5. Sound("dashboard", InTurn(dos, fs))
    BY <1>1, <1>2, <1>3, PatchingSound
  <1> QED BY <1>4, <1>5

\* The list of this tool, step by step.
LEMMA SurfaceSealSteps ==
    SurfaceSeal
    = <<<<"read", "chat">>, <<"read", "main">>, <<"read", "index">>,
        <<"read", "worker">>, <<"backupIf", "chat">>,
        <<"write", "chat">>, <<"backupIf", "main">>,
        <<"write", "main">>, <<"backupIf", "index">>,
        <<"write", "index">>, <<"backupIf", "worker">>,
        <<"write", "worker">>>>
  <1>1. Each("read", <<"chat", "main", "index", "worker">>)
        = <<<<"read", "chat">>, <<"read", "main">>,
            <<"read", "index">>, <<"read", "worker">>>>
    BY DEF Each, Step
  <1>2. InTurn(<<"backupIf", "write">>, <<"chat", "main", "index", "worker">>)
        = <<<<"backupIf", "chat">>, <<"write", "chat">>,
            <<"backupIf", "main">>, <<"write", "main">>,
            <<"backupIf", "index">>, <<"write", "index">>,
            <<"backupIf", "worker">>, <<"write", "worker">>>>
    BY DEF InTurn, Step
  <1>3. ASSUME NEW s, NEW t, NEW w, s = <<<<"read", "chat">>, <<"read", "main">>,
                     <<"read", "index">>, <<"read", "worker">>>>,
               t = <<<<"backupIf", "chat">>, <<"write", "chat">>,
                     <<"backupIf", "main">>, <<"write", "main">>,
                     <<"backupIf", "index">>, <<"write", "index">>,
                     <<"backupIf", "worker">>, <<"write", "worker">>>>,
               w = <<<<"read", "chat">>, <<"read", "main">>,
                     <<"read", "index">>, <<"read", "worker">>,
                     <<"backupIf", "chat">>, <<"write", "chat">>,
                     <<"backupIf", "main">>, <<"write", "main">>,
                     <<"backupIf", "index">>, <<"write", "index">>,
                     <<"backupIf", "worker">>, <<"write", "worker">>>>
        PROVE  s \o t = w
    <2>1. s \in Seq(Steps) /\ t \in Seq(Steps) /\ w \in Seq(Steps)
      BY <1>3, FilesKnown DEF Steps, Dos
    <2>2. Joins(s, t, w)
      BY <1>3, SMTT(60) DEF Joins
    <2> QED BY <2>1, <2>2, Joined DEF Joins
  <1> QED BY <1>1, <1>2, <1>3 DEF SurfaceSeal, Interface

\* And it is sound.
LEMMA SurfaceSealSound == Sound("surface", SurfaceSeal)
  <1> DEFINE s == <<<<"read", "chat">>, <<"read", "main">>,
                      <<"read", "index">>, <<"read", "worker">>,
                      <<"backupIf", "chat">>, <<"write", "chat">>,
                      <<"backupIf", "main">>, <<"write", "main">>,
                      <<"backupIf", "index">>, <<"write", "index">>,
                      <<"backupIf", "worker">>, <<"write", "worker">>>>
  <1>1. s \in Seq(Steps)
    BY FilesKnown DEF Steps, Dos
  <1>2. ReadFirst(s, {})
    BY DEF ReadFirst, Before, Writes, Always
  <1>3. BackedFirst(s, {})
    BY DEF BackedFirst, Before, Keeps, Puts, Writes, Always, Uncopied, UserFiles
  <1>4. Once(s)
    BY DEF Once, NotAfter, Keeps, Puts, Writes, Always, UserFiles
  <1>5. KeptApart(s)
    BY DEF KeptApart, NotAfter, Keeps
  <1>6. Careful(s)
    <2>1. s \in Seq(Dos \X {"chat", "index", "main", "worker"})
      BY DEF Dos
    <2>2. {"chat", "index", "main", "worker"} \subseteq Files \ UserFiles
      BY FilesKnown DEF UserFiles
    <2> HIDE DEF s
    <2> QED BY <2>1, <2>2, CarefulAway
  <1>7. Suits("surface", s)
    BY DEF Suits, Puts, Writes, Always, UserFiles, Uncopied
  <1> QED BY <1>1, <1>2, <1>3, <1>4, <1>5, <1>6, <1>7, SurfaceSealSteps DEF Sound

\* The list of this tool, step by step.
LEMMA ModelConnectionRouteSteps ==
    ModelConnectionRoute
    = <<<<"read", "main">>, <<"read", "index">>, <<"rewrite", "main">>,
        <<"rewrite", "index">>>>
  <1>1. Each("read", <<"main", "index">>)
        = <<<<"read", "main">>, <<"read", "index">>>>
    BY DEF Each, Step
  <1>2. Each("rewrite", <<"main", "index">>)
        = <<<<"rewrite", "main">>, <<"rewrite", "index">>>>
    BY DEF Each, Step
  <1>3. ASSUME NEW s, NEW t, NEW w, s = <<<<"read", "main">>, <<"read", "index">>>>,
               t = <<<<"rewrite", "main">>, <<"rewrite", "index">>>>,
               w = <<<<"read", "main">>, <<"read", "index">>,
                     <<"rewrite", "main">>, <<"rewrite", "index">>>>
        PROVE  s \o t = w
    <2>1. s \in Seq(Steps) /\ t \in Seq(Steps) /\ w \in Seq(Steps)
      BY <1>3, FilesKnown DEF Steps, Dos
    <2>2. Joins(s, t, w)
      BY <1>3, SMTT(60) DEF Joins
    <2> QED BY <2>1, <2>2, Joined DEF Joins
  <1> QED BY <1>1, <1>2, <1>3 DEF ModelConnectionRoute

\* And it is sound.
LEMMA ModelConnectionRouteSound == Sound("route", ModelConnectionRoute)
  <1> DEFINE s == <<<<"read", "main">>, <<"read", "index">>,
                      <<"rewrite", "main">>, <<"rewrite", "index">>>>
  <1>1. s \in Seq(Steps)
    BY FilesKnown DEF Steps, Dos
  <1>2. ReadFirst(s, {})
    BY DEF ReadFirst, Before, Writes, Always
  <1>3. Once(s)
    BY DEF Once, NotAfter, Keeps, Puts, Writes, Always, UserFiles
  <1>4. KeptApart(s)
    BY DEF KeptApart, NotAfter, Keeps
  <1>5. Careful(s)
    <2>1. s \in Seq(Dos \X {"index", "main"})
      BY DEF Dos
    <2>2. {"index", "main"} \subseteq Files \ UserFiles
      BY FilesKnown DEF UserFiles
    <2> HIDE DEF s
    <2> QED BY <2>1, <2>2, CarefulAway
  <1>6. Suits("route", s)
    BY DEF Suits, Puts, Writes, Always, UserFiles, Uncopied
  <1> QED BY <1>1, <1>2, <1>3, <1>4, <1>5, <1>6, ModelConnectionRouteSteps DEF Sound

\* The list of this tool, step by step.
LEMMA RuntimeNamespaceSteps ==
    RuntimeNamespace
    = <<<<"read", "index">>, <<"read", "worker">>,
        <<"backupIf", "index">>, <<"backupIf", "worker">>,
        <<"write", "index">>, <<"write", "worker">>>>
  <1>1. Each("read", <<"index", "worker">>)
        = <<<<"read", "index">>, <<"read", "worker">>>>
    BY DEF Each, Step
  <1>2. Each("backupIf", <<"index", "worker">>)
        = <<<<"backupIf", "index">>, <<"backupIf", "worker">>>>
    BY DEF Each, Step
  <1>3. ASSUME NEW s, NEW t, NEW w, s = <<<<"read", "index">>, <<"read", "worker">>>>,
               t = <<<<"backupIf", "index">>, <<"backupIf", "worker">>>>,
               w = <<<<"read", "index">>, <<"read", "worker">>,
                     <<"backupIf", "index">>, <<"backupIf", "worker">>>>
        PROVE  s \o t = w
    <2>1. s \in Seq(Steps) /\ t \in Seq(Steps) /\ w \in Seq(Steps)
      BY <1>3, FilesKnown DEF Steps, Dos
    <2>2. Joins(s, t, w)
      BY <1>3, SMTT(60) DEF Joins
    <2> QED BY <2>1, <2>2, Joined DEF Joins
  <1>4. Each("write", <<"index", "worker">>)
        = <<<<"write", "index">>, <<"write", "worker">>>>
    BY DEF Each, Step
  <1>5. ASSUME NEW s, NEW t, NEW w, s = <<<<"read", "index">>, <<"read", "worker">>,
                     <<"backupIf", "index">>, <<"backupIf", "worker">>>>,
               t = <<<<"write", "index">>, <<"write", "worker">>>>,
               w = <<<<"read", "index">>, <<"read", "worker">>,
                     <<"backupIf", "index">>, <<"backupIf", "worker">>,
                     <<"write", "index">>, <<"write", "worker">>>>
        PROVE  s \o t = w
    <2>1. s \in Seq(Steps) /\ t \in Seq(Steps) /\ w \in Seq(Steps)
      BY <1>5, FilesKnown DEF Steps, Dos
    <2>2. Joins(s, t, w)
      BY <1>5, SMTT(60) DEF Joins
    <2> QED BY <2>1, <2>2, Joined DEF Joins
  <1> QED BY <1>1, <1>2, <1>3, <1>4, <1>5 DEF RuntimeNamespace

\* And it is sound.
LEMMA RuntimeNamespaceSound == Sound("mirror", RuntimeNamespace)
  <1> DEFINE s == <<<<"read", "index">>, <<"read", "worker">>,
                      <<"backupIf", "index">>,
                      <<"backupIf", "worker">>, <<"write", "index">>,
                      <<"write", "worker">>>>
  <1>1. s \in Seq(Steps)
    BY FilesKnown DEF Steps, Dos
  <1>2. ReadFirst(s, {})
    BY DEF ReadFirst, Before, Writes, Always
  <1>3. BackedFirst(s, {})
    BY DEF BackedFirst, Before, Keeps, Puts, Writes, Always, Uncopied, UserFiles
  <1>4. Once(s)
    BY DEF Once, NotAfter, Keeps, Puts, Writes, Always, UserFiles
  <1>5. KeptApart(s)
    BY DEF KeptApart, NotAfter, Keeps
  <1>6. Careful(s)
    <2>1. s \in Seq(Dos \X {"index", "worker"})
      BY DEF Dos
    <2>2. {"index", "worker"} \subseteq Files \ UserFiles
      BY FilesKnown DEF UserFiles
    <2> HIDE DEF s
    <2> QED BY <2>1, <2>2, CarefulAway
  <1>7. Suits("mirror", s)
    BY DEF Suits, Puts, Writes, Always, UserFiles, Uncopied
  <1> QED BY <1>1, <1>2, <1>3, <1>4, <1>5, <1>6, <1>7, RuntimeNamespaceSteps DEF Sound

\* And it is sound.
LEMMA StandaloneNamespaceSound == Sound("namespace", StandaloneNamespace)
  <1> DEFINE fs == Interface
             dos == <<"read", "backup", "rewrite">>
  <1>1. dos \in Patching
    BY DEF Patching
  <1>2. fs \in Seq({"chat", "index", "main", "worker"}) /\ Distinct(fs)
    BY DEF Distinct, Interface
  <1>3. {"chat", "index", "main", "worker"} \subseteq Files \ UserFiles
    BY FilesKnown DEF UserFiles
  <1>4. InTurn(dos, fs) = StandaloneNamespace
    BY DEF StandaloneNamespace
  <1> HIDE DEF fs, dos
  <1>5. Sound("namespace", InTurn(dos, fs))
    BY <1>1, <1>2, <1>3, PatchingSound
  <1> QED BY <1>4, <1>5

\* The list of this tool, step by step.
LEMMA UpdateBoundarySteps ==
    UpdateBoundary
    = <<<<"read", "startup">>, <<"read", "handlers">>,
        <<"read", "launcher">>, <<"backupIf", "startup">>,
        <<"write", "startup">>, <<"backupIf", "handlers">>,
        <<"write", "handlers">>, <<"backupIf", "launcher">>,
        <<"write", "launcher">>>>
  <1>1. Each("read", <<"startup", "handlers", "launcher">>)
        = <<<<"read", "startup">>, <<"read", "handlers">>,
            <<"read", "launcher">>>>
    BY DEF Each, Step
  <1>2. InTurn(<<"backupIf", "write">>, <<"startup", "handlers", "launcher">>)
        = <<<<"backupIf", "startup">>, <<"write", "startup">>,
            <<"backupIf", "handlers">>, <<"write", "handlers">>,
            <<"backupIf", "launcher">>, <<"write", "launcher">>>>
    BY DEF InTurn, Step
  <1>3. ASSUME NEW s, NEW t, NEW w, s = <<<<"read", "startup">>, <<"read", "handlers">>,
                     <<"read", "launcher">>>>,
               t = <<<<"backupIf", "startup">>, <<"write", "startup">>,
                     <<"backupIf", "handlers">>,
                     <<"write", "handlers">>,
                     <<"backupIf", "launcher">>, <<"write", "launcher">>>>,
               w = <<<<"read", "startup">>, <<"read", "handlers">>,
                     <<"read", "launcher">>, <<"backupIf", "startup">>,
                     <<"write", "startup">>,
                     <<"backupIf", "handlers">>,
                     <<"write", "handlers">>,
                     <<"backupIf", "launcher">>, <<"write", "launcher">>>>
        PROVE  s \o t = w
    <2>1. s \in Seq(Steps) /\ t \in Seq(Steps) /\ w \in Seq(Steps)
      BY <1>3, FilesKnown DEF Steps, Dos
    <2>2. Joins(s, t, w)
      BY <1>3, SMTT(60) DEF Joins
    <2> QED BY <2>1, <2>2, Joined DEF Joins
  <1> QED BY <1>1, <1>2, <1>3 DEF UpdateBoundary

\* And it is sound.
LEMMA UpdateBoundarySound == Sound("update", UpdateBoundary)
  <1> DEFINE s == <<<<"read", "startup">>, <<"read", "handlers">>,
                      <<"read", "launcher">>,
                      <<"backupIf", "startup">>,
                      <<"write", "startup">>,
                      <<"backupIf", "handlers">>,
                      <<"write", "handlers">>,
                      <<"backupIf", "launcher">>,
                      <<"write", "launcher">>>>
  <1>1. s \in Seq(Steps)
    BY FilesKnown DEF Steps, Dos
  <1>2. ReadFirst(s, {})
    BY DEF ReadFirst, Before, Writes, Always
  <1>3. BackedFirst(s, {})
    BY DEF BackedFirst, Before, Keeps, Puts, Writes, Always, Uncopied, UserFiles
  <1>4. Once(s)
    BY DEF Once, NotAfter, Keeps, Puts, Writes, Always, UserFiles
  <1>5. KeptApart(s)
    BY DEF KeptApart, NotAfter, Keeps
  <1>6. Careful(s)
    <2>1. s \in Seq(Dos \X {"handlers", "launcher", "startup"})
      BY DEF Dos
    <2>2. {"handlers", "launcher", "startup"} \subseteq Files \ UserFiles
      BY FilesKnown DEF UserFiles
    <2> HIDE DEF s
    <2> QED BY <2>1, <2>2, CarefulAway
  <1>7. Suits("update", s)
    BY DEF Suits, Puts, Writes, Always, UserFiles, Uncopied
  <1> QED BY <1>1, <1>2, <1>3, <1>4, <1>5, <1>6, <1>7, UpdateBoundarySteps DEF Sound

\* The list of this tool, step by step.
LEMMA OutboundBoundarySteps ==
    OutboundBoundary
    = <<<<"require", "startup">>, <<"require", "handlers">>,
        <<"read", "provider">>, <<"read", "push">>,
        <<"backupIf", "provider">>, <<"backupIf", "push">>,
        <<"replace", "provider">>, <<"replace", "push">>,
        <<"protected", "package">>, <<"report", "package">>>>
  <1>1. Each("require", <<"startup", "handlers">>)
        = <<<<"require", "startup">>, <<"require", "handlers">>>>
    BY DEF Each, Step
  <1>2. Each("read", <<"provider", "push">>)
        = <<<<"read", "provider">>, <<"read", "push">>>>
    BY DEF Each, Step
  <1>3. Each("backupIf", <<"provider", "push">>)
        = <<<<"backupIf", "provider">>, <<"backupIf", "push">>>>
    BY DEF Each, Step
  <1>4. <<<<"read", "provider">>, <<"read", "push">>>>
        \o <<<<"backupIf", "provider">>, <<"backupIf", "push">>>>
        = <<<<"read", "provider">>, <<"read", "push">>,
            <<"backupIf", "provider">>, <<"backupIf", "push">>>>
    <2>1. ASSUME NEW s, NEW t, NEW w, s = <<<<"read", "provider">>, <<"read", "push">>>>,
                 t = <<<<"backupIf", "provider">>,
                       <<"backupIf", "push">>>>,
                 w = <<<<"read", "provider">>, <<"read", "push">>,
                       <<"backupIf", "provider">>,
                       <<"backupIf", "push">>>>
          PROVE  s \o t = w
      <3>1. s \in Seq(Steps) /\ t \in Seq(Steps) /\ w \in Seq(Steps)
        BY <2>1, FilesKnown DEF Steps, Dos
      <3>2. Joins(s, t, w)
        BY <2>1, SMTT(60) DEF Joins
      <3> QED BY <3>1, <3>2, Joined DEF Joins
    <2> QED BY <2>1
  <1>5. Each("replace", <<"provider", "push">>)
        = <<<<"replace", "provider">>, <<"replace", "push">>>>
    BY DEF Each, Step
  <1>6. <<<<"read", "provider">>, <<"read", "push">>,
          <<"backupIf", "provider">>, <<"backupIf", "push">>>>
        \o <<<<"replace", "provider">>, <<"replace", "push">>>>
        = <<<<"read", "provider">>, <<"read", "push">>,
            <<"backupIf", "provider">>, <<"backupIf", "push">>,
            <<"replace", "provider">>, <<"replace", "push">>>>
    <2>1. ASSUME NEW s, NEW t, NEW w, s = <<<<"read", "provider">>, <<"read", "push">>,
                       <<"backupIf", "provider">>,
                       <<"backupIf", "push">>>>,
                 t = <<<<"replace", "provider">>, <<"replace", "push">>>>,
                 w = <<<<"read", "provider">>, <<"read", "push">>,
                       <<"backupIf", "provider">>,
                       <<"backupIf", "push">>,
                       <<"replace", "provider">>, <<"replace", "push">>>>
          PROVE  s \o t = w
      <3>1. s \in Seq(Steps) /\ t \in Seq(Steps) /\ w \in Seq(Steps)
        BY <2>1, FilesKnown DEF Steps, Dos
      <3>2. Joins(s, t, w)
        BY <2>1, SMTT(60) DEF Joins
      <3> QED BY <3>1, <3>2, Joined DEF Joins
    <2> QED BY <2>1
  <1>7. <<<<"read", "provider">>, <<"read", "push">>,
          <<"backupIf", "provider">>, <<"backupIf", "push">>,
          <<"replace", "provider">>, <<"replace", "push">>>>
        \o <<<<"protected", "package">>, <<"report", "package">>>>
        = <<<<"read", "provider">>, <<"read", "push">>,
            <<"backupIf", "provider">>, <<"backupIf", "push">>,
            <<"replace", "provider">>, <<"replace", "push">>,
            <<"protected", "package">>, <<"report", "package">>>>
    <2>1. ASSUME NEW s, NEW t, NEW w, s = <<<<"read", "provider">>, <<"read", "push">>,
                       <<"backupIf", "provider">>,
                       <<"backupIf", "push">>,
                       <<"replace", "provider">>, <<"replace", "push">>>>,
                 t = <<<<"protected", "package">>, <<"report", "package">>>>,
                 w = <<<<"read", "provider">>, <<"read", "push">>,
                       <<"backupIf", "provider">>,
                       <<"backupIf", "push">>,
                       <<"replace", "provider">>,
                       <<"replace", "push">>, <<"protected", "package">>, <<"report", "package">>>>
          PROVE  s \o t = w
      <3>1. s \in Seq(Steps) /\ t \in Seq(Steps) /\ w \in Seq(Steps)
        BY <2>1, FilesKnown DEF Steps, Dos
      <3>2. Joins(s, t, w)
        BY <2>1, SMTT(60) DEF Joins
      <3> QED BY <3>1, <3>2, Joined DEF Joins
    <2> QED BY <2>1
  <1>8. <<<<"require", "startup">>, <<"require", "handlers">>>>
        \o <<<<"read", "provider">>, <<"read", "push">>,
             <<"backupIf", "provider">>, <<"backupIf", "push">>,
             <<"replace", "provider">>, <<"replace", "push">>,
             <<"protected", "package">>, <<"report", "package">>>>
        = <<<<"require", "startup">>, <<"require", "handlers">>,
            <<"read", "provider">>, <<"read", "push">>,
            <<"backupIf", "provider">>, <<"backupIf", "push">>,
            <<"replace", "provider">>, <<"replace", "push">>,
            <<"protected", "package">>, <<"report", "package">>>>
    <2>1. ASSUME NEW s, NEW t, NEW w, s = <<<<"require", "startup">>,
                       <<"require", "handlers">>>>,
                 t = <<<<"read", "provider">>, <<"read", "push">>,
                       <<"backupIf", "provider">>,
                       <<"backupIf", "push">>,
                       <<"replace", "provider">>,
                       <<"replace", "push">>, <<"protected", "package">>, <<"report", "package">>>>,
                 w = <<<<"require", "startup">>,
                       <<"require", "handlers">>,
                       <<"read", "provider">>, <<"read", "push">>,
                       <<"backupIf", "provider">>,
                       <<"backupIf", "push">>,
                       <<"replace", "provider">>,
                       <<"replace", "push">>, <<"protected", "package">>, <<"report", "package">>>>
          PROVE  s \o t = w
      <3>1. s \in Seq(Steps) /\ t \in Seq(Steps) /\ w \in Seq(Steps)
        BY <2>1, FilesKnown DEF Steps, Dos
      <3>2. Joins(s, t, w)
        BY <2>1, SMTT(60) DEF Joins
      <3> QED BY <3>1, <3>2, Joined DEF Joins
    <2> QED BY <2>1
  <1> QED BY <1>1, <1>2, <1>3, <1>4, <1>5, <1>6, <1>7, <1>8 DEF OutboundBoundary, OutboundWrites, Step

\* And it is sound.
LEMMA OutboundBoundarySound == Sound("outbound", OutboundBoundary)
  <1> DEFINE s == <<<<"require", "startup">>,
                      <<"require", "handlers">>,
                      <<"read", "provider">>, <<"read", "push">>,
                      <<"backupIf", "provider">>,
                      <<"backupIf", "push">>,
                      <<"replace", "provider">>, <<"replace", "push">>,
                      <<"protected", "package">>, <<"report", "package">>>>
  <1>1. s \in Seq(Steps)
    BY FilesKnown DEF Steps, Dos
  <1>2. ReadFirst(s, {})
    BY DEF ReadFirst, Before, Writes, Always
  <1>3. BackedFirst(s, {})
    BY DEF BackedFirst, Before, Keeps, Puts, Writes, Always, Uncopied, UserFiles
  <1>4. Once(s)
    BY DEF Once, NotAfter, Keeps, Puts, Writes, Always, UserFiles
  <1>5. KeptApart(s)
    BY DEF KeptApart, NotAfter, Keeps
  <1>6. Careful(s)
    <2>1. s \in Seq(Dos \X {"handlers", "package", "provider", "push", "startup"})
      BY DEF Dos
    <2>2. {"handlers", "package", "provider", "push", "startup"} \subseteq Files \ UserFiles
      BY FilesKnown DEF UserFiles
    <2> HIDE DEF s
    <2> QED BY <2>1, <2>2, CarefulAway
  <1>7. Suits("outbound", s)
    BY DEF Suits, Puts, Writes, Always, UserFiles, Uncopied
  <1> QED BY <1>1, <1>2, <1>3, <1>4, <1>5, <1>6, <1>7, OutboundBoundarySteps DEF Sound

\* The list of this tool, step by step.
LEMMA BridgePatchSteps ==
    BridgePatch
    = <<<<"guard", "server">>, <<"guard", "index">>,
        <<"backup", "server">>, <<"backup", "chat">>,
        <<"backup", "main">>, <<"backup", "index">>,
        <<"backup", "worker">>, <<"swap", "handler">>,
        <<"read", "server">>, <<"rewrite", "server">>,
        <<"copy", "chat">>, <<"copy", "main">>, <<"copy", "index">>,
        <<"copy", "worker">>, <<"stale", "handler">>>>
  <1>1. Each("guard", <<"server", "index">>)
        = <<<<"guard", "server">>, <<"guard", "index">>>>
    BY DEF Each, Step
  <1>2. <<<<"guard", "server">>, <<"guard", "index">>>>
        \o <<<<"backup", "server">>>>
        = <<<<"guard", "server">>, <<"guard", "index">>,
            <<"backup", "server">>>>
    <2>1. ASSUME NEW s, NEW t, NEW w, s = <<<<"guard", "server">>, <<"guard", "index">>>>,
                 t = <<<<"backup", "server">>>>,
                 w = <<<<"guard", "server">>, <<"guard", "index">>,
                       <<"backup", "server">>>>
          PROVE  s \o t = w
      <3>1. s \in Seq(Steps) /\ t \in Seq(Steps) /\ w \in Seq(Steps)
        BY <2>1, FilesKnown DEF Steps, Dos
      <3>2. Joins(s, t, w)
        BY <2>1, SMTT(60) DEF Joins
      <3> QED BY <3>1, <3>2, Joined DEF Joins
    <2> QED BY <2>1
  <1>3. Each("backup", <<"chat", "main", "index", "worker">>)
        = <<<<"backup", "chat">>, <<"backup", "main">>,
            <<"backup", "index">>, <<"backup", "worker">>>>
    BY DEF Each, Step
  <1>4. <<<<"guard", "server">>, <<"guard", "index">>,
          <<"backup", "server">>>>
        \o <<<<"backup", "chat">>, <<"backup", "main">>,
             <<"backup", "index">>, <<"backup", "worker">>>>
        = <<<<"guard", "server">>, <<"guard", "index">>,
            <<"backup", "server">>, <<"backup", "chat">>,
            <<"backup", "main">>, <<"backup", "index">>,
            <<"backup", "worker">>>>
    <2>1. ASSUME NEW s, NEW t, NEW w, s = <<<<"guard", "server">>, <<"guard", "index">>,
                       <<"backup", "server">>>>,
                 t = <<<<"backup", "chat">>, <<"backup", "main">>,
                       <<"backup", "index">>, <<"backup", "worker">>>>,
                 w = <<<<"guard", "server">>, <<"guard", "index">>,
                       <<"backup", "server">>, <<"backup", "chat">>,
                       <<"backup", "main">>, <<"backup", "index">>,
                       <<"backup", "worker">>>>
          PROVE  s \o t = w
      <3>1. s \in Seq(Steps) /\ t \in Seq(Steps) /\ w \in Seq(Steps)
        BY <2>1, FilesKnown DEF Steps, Dos
      <3>2. Joins(s, t, w)
        BY <2>1, SMTT(60) DEF Joins
      <3> QED BY <3>1, <3>2, Joined DEF Joins
    <2> QED BY <2>1
  <1>5. <<<<"guard", "server">>, <<"guard", "index">>,
          <<"backup", "server">>, <<"backup", "chat">>,
          <<"backup", "main">>, <<"backup", "index">>,
          <<"backup", "worker">>>>
        \o <<<<"swap", "handler">>>>
        = <<<<"guard", "server">>, <<"guard", "index">>,
            <<"backup", "server">>, <<"backup", "chat">>,
            <<"backup", "main">>, <<"backup", "index">>,
            <<"backup", "worker">>, <<"swap", "handler">>>>
    <2>1. ASSUME NEW s, NEW t, NEW w, s = <<<<"guard", "server">>, <<"guard", "index">>,
                       <<"backup", "server">>, <<"backup", "chat">>,
                       <<"backup", "main">>, <<"backup", "index">>,
                       <<"backup", "worker">>>>,
                 t = <<<<"swap", "handler">>>>,
                 w = <<<<"guard", "server">>, <<"guard", "index">>,
                       <<"backup", "server">>, <<"backup", "chat">>,
                       <<"backup", "main">>, <<"backup", "index">>,
                       <<"backup", "worker">>, <<"swap", "handler">>>>
          PROVE  s \o t = w
      <3>1. s \in Seq(Steps) /\ t \in Seq(Steps) /\ w \in Seq(Steps)
        BY <2>1, FilesKnown DEF Steps, Dos
      <3>2. Joins(s, t, w)
        BY <2>1, SMTT(60) DEF Joins
      <3> QED BY <3>1, <3>2, Joined DEF Joins
    <2> QED BY <2>1
  <1>6. InTurn(<<"read", "rewrite">>, <<"server">>)
        = <<<<"read", "server">>, <<"rewrite", "server">>>>
    BY DEF InTurn, Step
  <1>7. <<<<"guard", "server">>, <<"guard", "index">>,
          <<"backup", "server">>, <<"backup", "chat">>,
          <<"backup", "main">>, <<"backup", "index">>,
          <<"backup", "worker">>, <<"swap", "handler">>>>
        \o <<<<"read", "server">>, <<"rewrite", "server">>>>
        = <<<<"guard", "server">>, <<"guard", "index">>,
            <<"backup", "server">>, <<"backup", "chat">>,
            <<"backup", "main">>, <<"backup", "index">>,
            <<"backup", "worker">>, <<"swap", "handler">>,
            <<"read", "server">>, <<"rewrite", "server">>>>
    <2>1. ASSUME NEW s, NEW t, NEW w, s = <<<<"guard", "server">>, <<"guard", "index">>,
                       <<"backup", "server">>, <<"backup", "chat">>,
                       <<"backup", "main">>, <<"backup", "index">>,
                       <<"backup", "worker">>, <<"swap", "handler">>>>,
                 t = <<<<"read", "server">>, <<"rewrite", "server">>>>,
                 w = <<<<"guard", "server">>, <<"guard", "index">>,
                       <<"backup", "server">>, <<"backup", "chat">>,
                       <<"backup", "main">>, <<"backup", "index">>,
                       <<"backup", "worker">>, <<"swap", "handler">>,
                       <<"read", "server">>, <<"rewrite", "server">>>>
          PROVE  s \o t = w
      <3>1. s \in Seq(Steps) /\ t \in Seq(Steps) /\ w \in Seq(Steps)
        BY <2>1, FilesKnown DEF Steps, Dos
      <3>2. Joins(s, t, w)
        BY <2>1, SMTT(60) DEF Joins
      <3> QED BY <3>1, <3>2, Joined DEF Joins
    <2> QED BY <2>1
  <1>8. Each("copy", <<"chat", "main", "index", "worker">>)
        = <<<<"copy", "chat">>, <<"copy", "main">>,
            <<"copy", "index">>, <<"copy", "worker">>>>
    BY DEF Each, Step
  <1>9. <<<<"guard", "server">>, <<"guard", "index">>,
          <<"backup", "server">>, <<"backup", "chat">>,
          <<"backup", "main">>, <<"backup", "index">>,
          <<"backup", "worker">>, <<"swap", "handler">>,
          <<"read", "server">>, <<"rewrite", "server">>>>
        \o <<<<"copy", "chat">>, <<"copy", "main">>,
             <<"copy", "index">>, <<"copy", "worker">>>>
        = <<<<"guard", "server">>, <<"guard", "index">>,
            <<"backup", "server">>, <<"backup", "chat">>,
            <<"backup", "main">>, <<"backup", "index">>,
            <<"backup", "worker">>, <<"swap", "handler">>,
            <<"read", "server">>, <<"rewrite", "server">>,
            <<"copy", "chat">>, <<"copy", "main">>,
            <<"copy", "index">>, <<"copy", "worker">>>>
    <2>1. ASSUME NEW s, NEW t, NEW w, s = <<<<"guard", "server">>, <<"guard", "index">>,
                       <<"backup", "server">>, <<"backup", "chat">>,
                       <<"backup", "main">>, <<"backup", "index">>,
                       <<"backup", "worker">>, <<"swap", "handler">>,
                       <<"read", "server">>, <<"rewrite", "server">>>>,
                 t = <<<<"copy", "chat">>, <<"copy", "main">>,
                       <<"copy", "index">>, <<"copy", "worker">>>>,
                 w = <<<<"guard", "server">>, <<"guard", "index">>,
                       <<"backup", "server">>, <<"backup", "chat">>,
                       <<"backup", "main">>, <<"backup", "index">>,
                       <<"backup", "worker">>, <<"swap", "handler">>,
                       <<"read", "server">>, <<"rewrite", "server">>,
                       <<"copy", "chat">>, <<"copy", "main">>,
                       <<"copy", "index">>, <<"copy", "worker">>>>
          PROVE  s \o t = w
      <3>1. s \in Seq(Steps) /\ t \in Seq(Steps) /\ w \in Seq(Steps)
        BY <2>1, FilesKnown DEF Steps, Dos
      <3>2. Joins(s, t, w)
        <4>1. Len(w) = Len(s) + Len(t)
          BY <2>1, SMTT(40)
        <4>2. \A i \in 1 .. Len(s) : w[i] = s[i]
          <5>1. Len(s) = 10
            BY <2>1, SMTT(40)
          <5>2. w[1] = s[1] /\ w[2] = s[2] /\ w[3] = s[3] /\ w[4] = s[4] /\ w[5] = s[5]
            BY <2>1, SMTT(40)
          <5>3. w[6] = s[6] /\ w[7] = s[7] /\ w[8] = s[8] /\ w[9] = s[9] /\ w[10] = s[10]
            BY <2>1, SMTT(40)
          <5>6. \A i \in 1 .. 10 : i \in {1, 2, 3, 4, 5, 6, 7, 8, 9, 10}
            OBVIOUS
          <5> QED BY <5>1, <5>2, <5>3, <5>6, SMTT(40)
        <4>3. \A i \in 1 .. Len(t) : w[Len(s) + i] = t[i]
          BY <2>1, SMTT(60)
        <4> QED BY <4>1, <4>2, <4>3 DEF Joins
      <3> QED BY <3>1, <3>2, Joined DEF Joins
    <2> QED BY <2>1
  <1>10. <<<<"guard", "server">>, <<"guard", "index">>,
          <<"backup", "server">>, <<"backup", "chat">>,
          <<"backup", "main">>, <<"backup", "index">>,
          <<"backup", "worker">>, <<"swap", "handler">>,
          <<"read", "server">>, <<"rewrite", "server">>,
          <<"copy", "chat">>, <<"copy", "main">>, <<"copy", "index">>,
          <<"copy", "worker">>>>
        \o <<<<"stale", "handler">>>>
        = <<<<"guard", "server">>, <<"guard", "index">>,
            <<"backup", "server">>, <<"backup", "chat">>,
            <<"backup", "main">>, <<"backup", "index">>,
            <<"backup", "worker">>, <<"swap", "handler">>,
            <<"read", "server">>, <<"rewrite", "server">>,
            <<"copy", "chat">>, <<"copy", "main">>,
            <<"copy", "index">>, <<"copy", "worker">>,
            <<"stale", "handler">>>>
    <2>1. ASSUME NEW s, NEW t, NEW w, s = <<<<"guard", "server">>, <<"guard", "index">>,
                       <<"backup", "server">>, <<"backup", "chat">>,
                       <<"backup", "main">>, <<"backup", "index">>,
                       <<"backup", "worker">>, <<"swap", "handler">>,
                       <<"read", "server">>, <<"rewrite", "server">>,
                       <<"copy", "chat">>, <<"copy", "main">>,
                       <<"copy", "index">>, <<"copy", "worker">>>>,
                 t = <<<<"stale", "handler">>>>,
                 w = <<<<"guard", "server">>, <<"guard", "index">>,
                       <<"backup", "server">>, <<"backup", "chat">>,
                       <<"backup", "main">>, <<"backup", "index">>,
                       <<"backup", "worker">>, <<"swap", "handler">>,
                       <<"read", "server">>, <<"rewrite", "server">>,
                       <<"copy", "chat">>, <<"copy", "main">>,
                       <<"copy", "index">>, <<"copy", "worker">>,
                       <<"stale", "handler">>>>
          PROVE  s \o t = w
      <3>1. s \in Seq(Steps) /\ t \in Seq(Steps) /\ w \in Seq(Steps)
        BY <2>1, FilesKnown DEF Steps, Dos
      <3>2. Joins(s, t, w)
        <4>1. Len(w) = Len(s) + Len(t)
          BY <2>1, SMTT(40)
        <4>2. \A i \in 1 .. Len(s) : w[i] = s[i]
          <5>1. Len(s) = 14
            BY <2>1, SMTT(40)
          <5>2. w[1] = s[1] /\ w[2] = s[2] /\ w[3] = s[3] /\ w[4] = s[4] /\ w[5] = s[5]
            BY <2>1, SMTT(40)
          <5>3. w[6] = s[6] /\ w[7] = s[7] /\ w[8] = s[8] /\ w[9] = s[9] /\ w[10] = s[10]
            BY <2>1, SMTT(40)
          <5>4. w[11] = s[11] /\ w[12] = s[12] /\ w[13] = s[13] /\ w[14] = s[14]
            BY <2>1, SMTT(40)
          <5>6. \A i \in 1 .. 14 : i \in {1, 2, 3, 4, 5, 6, 7, 8, 9, 10, 11, 12, 13, 14}
            OBVIOUS
          <5> QED BY <5>1, <5>2, <5>3, <5>4, <5>6, SMTT(40)
        <4>3. \A i \in 1 .. Len(t) : w[Len(s) + i] = t[i]
          BY <2>1, SMTT(60)
        <4> QED BY <4>1, <4>2, <4>3 DEF Joins
      <3> QED BY <3>1, <3>2, Joined DEF Joins
    <2> QED BY <2>1
  <1> QED BY <1>1, <1>2, <1>3, <1>4, <1>5, <1>6, <1>7, <1>8, <1>9, <1>10 DEF BridgePatch, Interface, Step

\* And it is sound.
LEMMA BridgePatchSound == Sound("bridge", BridgePatch)
  <1> DEFINE s == <<<<"guard", "server">>, <<"guard", "index">>,
                      <<"backup", "server">>, <<"backup", "chat">>,
                      <<"backup", "main">>, <<"backup", "index">>,
                      <<"backup", "worker">>, <<"swap", "handler">>,
                      <<"read", "server">>, <<"rewrite", "server">>,
                      <<"copy", "chat">>, <<"copy", "main">>,
                      <<"copy", "index">>, <<"copy", "worker">>,
                      <<"stale", "handler">>>>
  <1>1. s \in Seq(Steps)
    BY FilesKnown DEF Steps, Dos
  <1>2. ReadFirst(s, {})
    BY DEF ReadFirst, Before, Writes, Always
  <1>3. BackedFirst(s, {})
    BY DEF BackedFirst, Before, Keeps, Puts, Writes, Always, Uncopied, UserFiles
  <1>4. Once(s)
    BY DEF Once, NotAfter, Keeps, Puts, Writes, Always, UserFiles
  <1>5. KeptApart(s)
    BY DEF KeptApart, NotAfter, Keeps
  <1>6. Careful(s)
    <2>1. s \in Seq(Dos \X {"chat", "handler", "index", "main", "server", "worker"})
      BY DEF Dos
    <2>2. {"chat", "handler", "index", "main", "server", "worker"} \subseteq Files \ UserFiles
      BY FilesKnown DEF UserFiles
    <2> HIDE DEF s
    <2> QED BY <2>1, <2>2, CarefulAway
  <1>7. Suits("bridge", s)
    BY DEF Suits, Puts, Writes, Always, UserFiles, Uncopied
  <1> QED BY <1>1, <1>2, <1>3, <1>4, <1>5, <1>6, <1>7, BridgePatchSteps DEF Sound

\* The list of this tool, step by step.
LEMMA RuntimeRepairSteps ==
    RuntimeRepair
    = <<<<"guard", "entry">>, <<"guard", "alias">>,
        <<"backup", "entry">>, <<"backup", "alias">>,
        <<"backup", "state">>, <<"backup", "package">>,
        <<"copy", "package">>, <<"read", "entry">>,
        <<"write", "entry">>, <<"read", "alias">>,
        <<"write", "alias">>, <<"device", "state">>>>
  <1>1. Each("guard", <<"entry", "alias">>)
        = <<<<"guard", "entry">>, <<"guard", "alias">>>>
    BY DEF Each, Step
  <1>2. Each("backup", <<"entry", "alias", "state", "package">>)
        = <<<<"backup", "entry">>, <<"backup", "alias">>,
            <<"backup", "state">>, <<"backup", "package">>>>
    BY DEF Each, Step
  <1>3. <<<<"guard", "entry">>, <<"guard", "alias">>>>
        \o <<<<"backup", "entry">>, <<"backup", "alias">>,
             <<"backup", "state">>, <<"backup", "package">>>>
        = <<<<"guard", "entry">>, <<"guard", "alias">>,
            <<"backup", "entry">>, <<"backup", "alias">>,
            <<"backup", "state">>, <<"backup", "package">>>>
    <2>1. ASSUME NEW s, NEW t, NEW w, s = <<<<"guard", "entry">>, <<"guard", "alias">>>>,
                 t = <<<<"backup", "entry">>, <<"backup", "alias">>,
                       <<"backup", "state">>, <<"backup", "package">>>>,
                 w = <<<<"guard", "entry">>, <<"guard", "alias">>,
                       <<"backup", "entry">>, <<"backup", "alias">>,
                       <<"backup", "state">>, <<"backup", "package">>>>
          PROVE  s \o t = w
      <3>1. s \in Seq(Steps) /\ t \in Seq(Steps) /\ w \in Seq(Steps)
        BY <2>1, FilesKnown DEF Steps, Dos
      <3>2. Joins(s, t, w)
        BY <2>1, SMTT(60) DEF Joins
      <3> QED BY <3>1, <3>2, Joined DEF Joins
    <2> QED BY <2>1
  <1>4. <<<<"guard", "entry">>, <<"guard", "alias">>,
          <<"backup", "entry">>, <<"backup", "alias">>,
          <<"backup", "state">>, <<"backup", "package">>>>
        \o <<<<"copy", "package">>>>
        = <<<<"guard", "entry">>, <<"guard", "alias">>,
            <<"backup", "entry">>, <<"backup", "alias">>,
            <<"backup", "state">>, <<"backup", "package">>,
            <<"copy", "package">>>>
    <2>1. ASSUME NEW s, NEW t, NEW w, s = <<<<"guard", "entry">>, <<"guard", "alias">>,
                       <<"backup", "entry">>, <<"backup", "alias">>,
                       <<"backup", "state">>, <<"backup", "package">>>>,
                 t = <<<<"copy", "package">>>>,
                 w = <<<<"guard", "entry">>, <<"guard", "alias">>,
                       <<"backup", "entry">>, <<"backup", "alias">>,
                       <<"backup", "state">>, <<"backup", "package">>,
                       <<"copy", "package">>>>
          PROVE  s \o t = w
      <3>1. s \in Seq(Steps) /\ t \in Seq(Steps) /\ w \in Seq(Steps)
        BY <2>1, FilesKnown DEF Steps, Dos
      <3>2. Joins(s, t, w)
        BY <2>1, SMTT(60) DEF Joins
      <3> QED BY <3>1, <3>2, Joined DEF Joins
    <2> QED BY <2>1
  <1>5. InTurn(<<"read", "write">>, <<"entry", "alias">>)
        = <<<<"read", "entry">>, <<"write", "entry">>,
            <<"read", "alias">>, <<"write", "alias">>>>
    BY DEF InTurn, Step
  <1>6. <<<<"guard", "entry">>, <<"guard", "alias">>,
          <<"backup", "entry">>, <<"backup", "alias">>,
          <<"backup", "state">>, <<"backup", "package">>,
          <<"copy", "package">>>>
        \o <<<<"read", "entry">>, <<"write", "entry">>,
             <<"read", "alias">>, <<"write", "alias">>>>
        = <<<<"guard", "entry">>, <<"guard", "alias">>,
            <<"backup", "entry">>, <<"backup", "alias">>,
            <<"backup", "state">>, <<"backup", "package">>,
            <<"copy", "package">>, <<"read", "entry">>,
            <<"write", "entry">>, <<"read", "alias">>,
            <<"write", "alias">>>>
    <2>1. ASSUME NEW s, NEW t, NEW w, s = <<<<"guard", "entry">>, <<"guard", "alias">>,
                       <<"backup", "entry">>, <<"backup", "alias">>,
                       <<"backup", "state">>, <<"backup", "package">>,
                       <<"copy", "package">>>>,
                 t = <<<<"read", "entry">>, <<"write", "entry">>,
                       <<"read", "alias">>, <<"write", "alias">>>>,
                 w = <<<<"guard", "entry">>, <<"guard", "alias">>,
                       <<"backup", "entry">>, <<"backup", "alias">>,
                       <<"backup", "state">>, <<"backup", "package">>,
                       <<"copy", "package">>, <<"read", "entry">>,
                       <<"write", "entry">>, <<"read", "alias">>,
                       <<"write", "alias">>>>
          PROVE  s \o t = w
      <3>1. s \in Seq(Steps) /\ t \in Seq(Steps) /\ w \in Seq(Steps)
        BY <2>1, FilesKnown DEF Steps, Dos
      <3>2. Joins(s, t, w)
        BY <2>1, SMTT(60) DEF Joins
      <3> QED BY <3>1, <3>2, Joined DEF Joins
    <2> QED BY <2>1
  <1>7. <<<<"guard", "entry">>, <<"guard", "alias">>,
          <<"backup", "entry">>, <<"backup", "alias">>,
          <<"backup", "state">>, <<"backup", "package">>,
          <<"copy", "package">>, <<"read", "entry">>,
          <<"write", "entry">>, <<"read", "alias">>,
          <<"write", "alias">>>>
        \o <<<<"device", "state">>>>
        = <<<<"guard", "entry">>, <<"guard", "alias">>,
            <<"backup", "entry">>, <<"backup", "alias">>,
            <<"backup", "state">>, <<"backup", "package">>,
            <<"copy", "package">>, <<"read", "entry">>,
            <<"write", "entry">>, <<"read", "alias">>,
            <<"write", "alias">>, <<"device", "state">>>>
    <2>1. ASSUME NEW s, NEW t, NEW w, s = <<<<"guard", "entry">>, <<"guard", "alias">>,
                       <<"backup", "entry">>, <<"backup", "alias">>,
                       <<"backup", "state">>, <<"backup", "package">>,
                       <<"copy", "package">>, <<"read", "entry">>,
                       <<"write", "entry">>, <<"read", "alias">>,
                       <<"write", "alias">>>>,
                 t = <<<<"device", "state">>>>,
                 w = <<<<"guard", "entry">>, <<"guard", "alias">>,
                       <<"backup", "entry">>, <<"backup", "alias">>,
                       <<"backup", "state">>, <<"backup", "package">>,
                       <<"copy", "package">>, <<"read", "entry">>,
                       <<"write", "entry">>, <<"read", "alias">>,
                       <<"write", "alias">>, <<"device", "state">>>>
          PROVE  s \o t = w
      <3>1. s \in Seq(Steps) /\ t \in Seq(Steps) /\ w \in Seq(Steps)
        BY <2>1, FilesKnown DEF Steps, Dos
      <3>2. Joins(s, t, w)
        BY <2>1, SMTT(60) DEF Joins
      <3> QED BY <3>1, <3>2, Joined DEF Joins
    <2> QED BY <2>1
  <1> QED BY <1>1, <1>2, <1>3, <1>4, <1>5, <1>6, <1>7 DEF RuntimeRepair, Step

\* And it is sound.
LEMMA RuntimeRepairSound == Sound("repair", RuntimeRepair)
  <1> DEFINE s == <<<<"guard", "entry">>, <<"guard", "alias">>,
                      <<"backup", "entry">>, <<"backup", "alias">>,
                      <<"backup", "state">>, <<"backup", "package">>,
                      <<"copy", "package">>, <<"read", "entry">>,
                      <<"write", "entry">>, <<"read", "alias">>,
                      <<"write", "alias">>, <<"device", "state">>>>
  <1>1. s \in Seq(Steps)
    BY FilesKnown DEF Steps, Dos
  <1>2. ReadFirst(s, {})
    BY DEF ReadFirst, Before, Writes, Always
  <1>3. BackedFirst(s, {})
    BY DEF BackedFirst, Before, Keeps, Puts, Writes, Always, Uncopied, UserFiles
  <1>4. Once(s)
    BY DEF Once, NotAfter, Keeps, Puts, Writes, Always, UserFiles
  <1>5. KeptApart(s)
    BY DEF KeptApart, NotAfter, Keeps
  <1>6. Careful(s)
    BY SMTT(30) DEF Careful, CopiedFirst, LookedLast, Before, Writes, Always, UserFiles
  <1>7. Suits("repair", s)
    BY DEF Suits, Puts, Writes, Always, UserFiles, Uncopied
  <1> QED BY <1>1, <1>2, <1>3, <1>4, <1>5, <1>6, <1>7, RuntimeRepairSteps DEF Sound

\* The list of this tool, step by step.
LEMMA RollbackRepairSteps ==
    RollbackRepair
    = <<<<"restore", "entry">>, <<"restore", "alias">>,
        <<"restore", "state">>, <<"restore", "package">>>>
  <1>1. Each("restore", <<"entry", "alias", "state", "package">>)
        = <<<<"restore", "entry">>, <<"restore", "alias">>,
            <<"restore", "state">>, <<"restore", "package">>>>
    BY DEF Each, Step
  <1> QED BY <1>1 DEF RollbackRepair

\* And it is sound.
LEMMA RollbackRepairSound == Sound("rollback", RollbackRepair)
  <1> DEFINE s == <<<<"restore", "entry">>, <<"restore", "alias">>,
                      <<"restore", "state">>, <<"restore", "package">>>>
  <1>1. s \in Seq(Steps)
    BY FilesKnown DEF Steps, Dos
  <1>2. ReadFirst(s, {})
    BY DEF ReadFirst, Before, Writes, Always
  <1>3. Once(s)
    BY DEF Once, NotAfter, Keeps, Puts, Writes, Always, UserFiles
  <1>4. KeptApart(s)
    BY DEF KeptApart, NotAfter, Keeps
  <1>5. Careful(s)
    BY SMTT(30) DEF Careful, CopiedFirst, LookedLast, Before, Writes, Always, UserFiles
  <1>6. Suits("rollback", s)
    BY DEF Suits, Puts, Writes, Always, UserFiles, Uncopied
  <1> QED BY <1>1, <1>2, <1>3, <1>4, <1>5, <1>6, RollbackRepairSteps DEF Sound

\* The list of this tool, step by step.
LEMMA LiveConfigRepairSteps ==
    LiveConfigRepair
    = <<<<"read", "config">>, <<"keep", "config">>,
        <<"anchor", "config">>, <<"replace", "config">>,
        <<"readback", "config">>>>
  <1>1. ASSUME NEW s, NEW t, NEW w, s = <<<<"read", "config">>>>,
               t = <<<<"keep", "config">>, <<"anchor", "config">>,
                     <<"replace", "config">>, <<"readback", "config">>>>,
               w = <<<<"read", "config">>, <<"keep", "config">>,
                     <<"anchor", "config">>, <<"replace", "config">>,
                     <<"readback", "config">>>>
        PROVE  s \o t = w
    <2>1. s \in Seq(Steps) /\ t \in Seq(Steps) /\ w \in Seq(Steps)
      BY <1>1, FilesKnown DEF Steps, Dos
    <2>2. Joins(s, t, w)
      BY <1>1, SMTT(60) DEF Joins
    <2> QED BY <2>1, <2>2, Joined DEF Joins
  <1> QED BY <1>1 DEF LiveConfigRepair, ReplaceConfig, Step

\* And it is sound.
LEMMA LiveConfigRepairSound == Sound("tools", LiveConfigRepair)
  <1> DEFINE s == <<<<"read", "config">>, <<"keep", "config">>,
                      <<"anchor", "config">>, <<"replace", "config">>,
                      <<"readback", "config">>>>
  <1>1. s \in Seq(Steps)
    BY FilesKnown DEF Steps, Dos
  <1>2. ReadFirst(s, {})
    BY DEF ReadFirst, Before, Writes, Always
  <1>3. BackedFirst(s, {})
    BY DEF BackedFirst, Before, Keeps, Puts, Writes, Always, Uncopied, UserFiles
  <1>4. Once(s)
    BY DEF Once, NotAfter, Keeps, Puts, Writes, Always, UserFiles
  <1>5. KeptApart(s)
    BY DEF KeptApart, NotAfter, Keeps
  <1>6. Careful(s)
    BY SMTT(30) DEF Careful, CopiedFirst, LookedLast, Before, Writes, Always, UserFiles
  <1>7. Suits("tools", s)
    BY DEF Suits, Puts, Writes, Always, UserFiles, Uncopied
  <1> QED BY <1>1, <1>2, <1>3, <1>4, <1>5, <1>6, <1>7, LiveConfigRepairSteps DEF Sound

\* The list of this tool, step by step.
LEMMA DoctorWarningsSteps ==
    DoctorWarnings
    = <<<<"read", "config">>, <<"route", "config">>,
        <<"keep", "config">>, <<"anchor", "config">>,
        <<"replace", "config">>, <<"readback", "config">>>>
  <1>1. ASSUME NEW s, NEW t, NEW w, s = <<<<"read", "config">>, <<"route", "config">>>>,
               t = <<<<"keep", "config">>, <<"anchor", "config">>,
                     <<"replace", "config">>, <<"readback", "config">>>>,
               w = <<<<"read", "config">>, <<"route", "config">>,
                     <<"keep", "config">>, <<"anchor", "config">>,
                     <<"replace", "config">>, <<"readback", "config">>>>
        PROVE  s \o t = w
    <2>1. s \in Seq(Steps) /\ t \in Seq(Steps) /\ w \in Seq(Steps)
      BY <1>1, FilesKnown DEF Steps, Dos
    <2>2. Joins(s, t, w)
      BY <1>1, SMTT(60) DEF Joins
    <2> QED BY <2>1, <2>2, Joined DEF Joins
  <1> QED BY <1>1 DEF DoctorWarnings, ReplaceConfig, Step

\* And it is sound.
LEMMA DoctorWarningsSound == Sound("doctor", DoctorWarnings)
  <1> DEFINE s == <<<<"read", "config">>, <<"route", "config">>,
                      <<"keep", "config">>, <<"anchor", "config">>,
                      <<"replace", "config">>, <<"readback", "config">>>>
  <1>1. s \in Seq(Steps)
    BY FilesKnown DEF Steps, Dos
  <1>2. ReadFirst(s, {})
    BY DEF ReadFirst, Before, Writes, Always
  <1>3. BackedFirst(s, {})
    BY DEF BackedFirst, Before, Keeps, Puts, Writes, Always, Uncopied, UserFiles
  <1>4. Once(s)
    BY DEF Once, NotAfter, Keeps, Puts, Writes, Always, UserFiles
  <1>5. KeptApart(s)
    BY DEF KeptApart, NotAfter, Keeps
  <1>6. Careful(s)
    BY SMTT(30) DEF Careful, CopiedFirst, LookedLast, Before, Writes, Always, UserFiles
  <1>7. Suits("doctor", s)
    BY DEF Suits, Puts, Writes, Always, UserFiles, Uncopied
  <1> QED BY <1>1, <1>2, <1>3, <1>4, <1>5, <1>6, <1>7, DoctorWarningsSteps DEF Sound

\* The list of this tool, step by step.
LEMMA PluginAllowlistSteps ==
    PluginAllowlist
    = <<<<"backup", "config">>, <<"read", "config">>,
        <<"rewrite", "config">>>>
  <1>1. InTurn(<<"backup", "read", "rewrite">>, <<"config">>)
        = <<<<"backup", "config">>, <<"read", "config">>,
            <<"rewrite", "config">>>>
    BY DEF InTurn, Step
  <1> QED BY <1>1 DEF PluginAllowlist

\* And it is sound.
LEMMA PluginAllowlistSound == Sound("allowlist", PluginAllowlist)
  <1> DEFINE s == <<<<"backup", "config">>, <<"read", "config">>,
                      <<"rewrite", "config">>>>
  <1>1. s \in Seq(Steps)
    BY FilesKnown DEF Steps, Dos
  <1>2. ReadFirst(s, {})
    BY DEF ReadFirst, Before, Writes, Always
  <1>3. BackedFirst(s, {})
    BY DEF BackedFirst, Before, Keeps, Puts, Writes, Always, Uncopied, UserFiles
  <1>4. Once(s)
    BY DEF Once, NotAfter, Keeps, Puts, Writes, Always, UserFiles
  <1>5. KeptApart(s)
    BY DEF KeptApart, NotAfter, Keeps
  <1>6. Careful(s)
    BY SMTT(30) DEF Careful, CopiedFirst, LookedLast, Before, Writes, Always, UserFiles
  <1>7. Suits("allowlist", s)
    BY DEF Suits, Puts, Writes, Always, UserFiles, Uncopied
  <1> QED BY <1>1, <1>2, <1>3, <1>4, <1>5, <1>6, <1>7, PluginAllowlistSteps DEF Sound

\* The list of this tool, step by step.
LEMMA CleanupTestSessionsSteps ==
    CleanupTestSessions
    = <<<<"read", "sessions">>, <<"keep", "sessions">>,
        <<"rename", "sessions">>>>
  <1>1. InTurn(<<"read", "keep", "rename">>, <<"sessions">>)
        = <<<<"read", "sessions">>, <<"keep", "sessions">>,
            <<"rename", "sessions">>>>
    BY DEF InTurn, Step
  <1> QED BY <1>1 DEF CleanupTestSessions

\* And it is sound.
LEMMA CleanupTestSessionsSound == Sound("cleanup", CleanupTestSessions)
  <1> DEFINE s == <<<<"read", "sessions">>, <<"keep", "sessions">>,
                      <<"rename", "sessions">>>>
  <1>1. s \in Seq(Steps)
    BY FilesKnown DEF Steps, Dos
  <1>2. ReadFirst(s, {})
    BY DEF ReadFirst, Before, Writes, Always
  <1>3. BackedFirst(s, {})
    BY DEF BackedFirst, Before, Keeps, Puts, Writes, Always, Uncopied, UserFiles
  <1>4. Once(s)
    BY DEF Once, NotAfter, Keeps, Puts, Writes, Always, UserFiles
  <1>5. KeptApart(s)
    BY DEF KeptApart, NotAfter, Keeps
  <1>6. Careful(s)
    BY SMTT(30) DEF Careful, CopiedFirst, LookedLast, Before, Writes, Always, UserFiles
  <1>7. Suits("cleanup", s)
    BY DEF Suits, Puts, Writes, Always, UserFiles, Uncopied
  <1> QED BY <1>1, <1>2, <1>3, <1>4, <1>5, <1>6, <1>7, CleanupTestSessionsSteps DEF Sound

\* The list of this tool, step by step.
LEMMA WorkspacePackSteps ==
    WorkspacePack
    = <<<<"backup", "workspace">>, <<"copy", "workspace">>,
        <<"read", "note">>, <<"append", "note">>, <<"source", "logo">>,
        <<"backup", "logo">>, <<"copy", "logo">>>>
  <1>1. ASSUME NEW s, NEW t, NEW w, s = <<<<"backup", "workspace">>,
                     <<"copy", "workspace">>, <<"read", "note">>,
                     <<"append", "note">>>>,
               t = <<<<"source", "logo">>, <<"backup", "logo">>,
                     <<"copy", "logo">>>>,
               w = <<<<"backup", "workspace">>,
                     <<"copy", "workspace">>, <<"read", "note">>,
                     <<"append", "note">>, <<"source", "logo">>,
                     <<"backup", "logo">>, <<"copy", "logo">>>>
        PROVE  s \o t = w
    <2>1. s \in Seq(Steps) /\ t \in Seq(Steps) /\ w \in Seq(Steps)
      BY <1>1, FilesKnown DEF Steps, Dos
    <2>2. Joins(s, t, w)
      BY <1>1, SMTT(60) DEF Joins
    <2> QED BY <2>1, <2>2, Joined DEF Joins
  <1> QED BY <1>1 DEF WorkspacePack, Step

\* And it is sound.
LEMMA WorkspacePackSound == Sound("pack", WorkspacePack)
  <1> DEFINE s == <<<<"backup", "workspace">>,
                      <<"copy", "workspace">>, <<"read", "note">>,
                      <<"append", "note">>, <<"source", "logo">>,
                      <<"backup", "logo">>, <<"copy", "logo">>>>
  <1>1. s \in Seq(Steps)
    BY FilesKnown DEF Steps, Dos
  <1>2. ReadFirst(s, {})
    BY DEF ReadFirst, Before, Writes, Always
  <1>3. BackedFirst(s, {})
    BY DEF BackedFirst, Before, Keeps, Puts, Writes, Always, Uncopied, UserFiles
  <1>4. Once(s)
    BY DEF Once, NotAfter, Keeps, Puts, Writes, Always, UserFiles
  <1>5. KeptApart(s)
    BY DEF KeptApart, NotAfter, Keeps
  <1>6. Careful(s)
    BY SMTT(30) DEF Careful, CopiedFirst, LookedLast, Before, Writes, Always, UserFiles
  <1>7. Suits("pack", s)
    BY DEF Suits, Puts, Writes, Always, UserFiles, Uncopied
  <1> QED BY <1>1, <1>2, <1>3, <1>4, <1>5, <1>6, <1>7, WorkspacePackSteps DEF Sound

\* The release as a sequence and as a set.
LEMMA ReleaseSeq ==
    /\ Release \in Seq(ToSet(Release)) /\ Len(Release) = 16 /\ "index" \in ToSet(Release)
    /\ ToSet(Release) \subseteq Files \ UserFiles
  <1>1. ToSet(Release) = {"handler", "kernel", "server", "startup", "handlers", "provider",
             "push", "prompt", "chat", "main", "index", "worker", "launcher", "entry",
             "alias", "package"}
    BY DEF Release, ToSet
  <1>2. Release \in Seq(ToSet(Release)) /\ Len(Release) = 16
    BY <1>1 DEF Release
  <1> QED BY <1>1, <1>2 DEF Files, UserFiles

VerifiesAll(s) ==
    \A i \in DOMAIN s : s[i][1] = "writeSeal" =>
        \A f \in ToSet(Release) : \E j \in DOMAIN s : j > i /\ s[j] = <<"verify", f>>

\* The reseal reads, writes the manifest and then verifies all of it.
LEMMA ResealSteps ==
    /\ Reseal \in Seq({"read", "writeSeal", "verify"} \X ToSet(Release))
    /\ VerifiesAll(Reseal)
    /\ \E i \in DOMAIN Reseal : Reseal[i][1] = "writeSeal"
  <1> DEFINE p == Each("read", Release)
             q == <<Step("writeSeal", "index")>>
             r == Each("verify", Release)
             pq == p \o q
  <1>1. p \in Seq({"read"} \X ToSet(Release)) /\ r \in Seq({"verify"} \X ToSet(Release))
    BY ReleaseSeq, EachWithin
  <1>2. q \in Seq({"writeSeal"} \X ToSet(Release))
    BY ReleaseSeq DEF Step
  <1>3. /\ pq \in Seq(({"read"} \X ToSet(Release)) \cup ({"writeSeal"} \X ToSet(Release)))
        /\ Len(pq) = Len(p) + Len(q)
        /\ \A i \in 1 .. Len(q) : pq[Len(p) + i] = q[i]
    BY <1>1, <1>2, ConcatWithin
  <1> DEFINE A == ({"read"} \X ToSet(Release)) \cup ({"writeSeal"} \X ToSet(Release))
             B == {"verify"} \X ToSet(Release)
  <1>4. /\ pq \o r \in Seq(A \cup B)
        /\ Len(pq \o r) = Len(pq) + Len(r)
        /\ \A i \in 1 .. Len(pq) : (pq \o r)[i] = pq[i]
        /\ \A i \in 1 .. Len(r) : (pq \o r)[Len(pq) + i] = r[i]
    <2>1. pq \in Seq(A) /\ r \in Seq(B)
      BY <1>1, <1>3
    <2> HIDE DEF pq, r, A, B
    <2> QED BY <2>1, ConcatWithin
  <1>5. /\ DOMAIN r = DOMAIN Release
        /\ \A i \in DOMAIN r : r[i] = <<"verify", Release[i]>>
    BY ReleaseSeq DEF Each, Step
  <1>6. Reseal = pq \o r
    BY DEF Reseal
  <1>7. Len(pq) \in Nat /\ Len(r) \in Nat
    BY <1>1, <1>3
  <1>10. Len(p) \in Nat /\ Len(q) = 1 /\ q[1] = <<"writeSeal", "index">>
    BY <1>1 DEF Step
  <1> HIDE DEF p, q, r, pq
  <1>11. \E i \in DOMAIN Reseal : Reseal[i][1] = "writeSeal"
    <2>1. Len(p) + 1 \in 1 .. Len(pq) /\ pq[Len(p) + 1] = <<"writeSeal", "index">>
      BY <1>3, <1>10
    <2>2. Reseal[Len(p) + 1] = <<"writeSeal", "index">> /\ Len(p) + 1 \in 1 .. Len(Reseal)
      BY <1>4, <1>6, <1>7, <2>1
    <2>3. Len(p) + 1 \in DOMAIN Reseal
      BY <1>4, <1>6, <2>2
    <2> QED BY <2>2, <2>3
  <1>8. Reseal \in Seq({"read", "writeSeal", "verify"} \X ToSet(Release))
    <2>1. A \cup B \subseteq {"read", "writeSeal", "verify"} \X ToSet(Release)
      OBVIOUS
    <2> QED BY <1>4, <1>6, <2>1
  <1>9. ASSUME NEW i \in DOMAIN Reseal, Reseal[i][1] = "writeSeal", NEW f \in ToSet(Release)
        PROVE  \E j \in DOMAIN Reseal : j > i /\ Reseal[j] = <<"verify", f>>
    <2>1. i \in 1 .. Len(pq)
      <3>1. CASE i \in 1 .. Len(pq)
        BY <3>1
      <3>2. CASE i \notin 1 .. Len(pq)
        <4>1. PICK m : m = i - Len(pq)
          OBVIOUS
        <4>2. m \in 1 .. Len(r) /\ i = Len(pq) + m
          BY <1>4, <1>6, <1>7, <3>2, <4>1
        <4>3. Reseal[i] = r[m] /\ m \in DOMAIN r
          BY <1>1, <1>4, <1>6, <4>2
        <4> QED BY <1>5, <1>9, <4>3
      <3> QED BY <3>1, <3>2
    <2>2. PICK k \in DOMAIN Release : Release[k] = f
      BY DEF ToSet
    <2>3. k \in DOMAIN r /\ k \in 1 .. Len(r)
      <3>1. k \in DOMAIN r
        BY <1>5, <2>2
      <3> QED BY <1>1, <3>1
    <2>4. Reseal[Len(pq) + k] = <<"verify", f>>
      BY <1>4, <1>5, <1>6, <2>2, <2>3
    <2>5. Len(pq) + k \in DOMAIN Reseal /\ Len(pq) + k > i
      BY <1>4, <1>6, <1>7, <2>1, <2>3
    <2> QED BY <2>4, <2>5
  <1> QED BY <1>8, <1>9, <1>11 DEF VerifiesAll

\* The reseal writes no release file.
LEMMA ResealSound == Sound("reseal", Reseal)
  <1> DEFINE C == {"read", "writeSeal", "verify"}
  <1>1. Reseal \in Seq(C \X ToSet(Release))
    BY ResealSteps
  <1>2. /\ Reseal \in Seq(Steps)
        /\ \A i \in DOMAIN Reseal : Reseal[i] \in C \X ToSet(Release)
    BY <1>1, ReleaseSeq DEF Steps, Dos
  <1>3. \A i \in DOMAIN Reseal : Reseal[i][1] \in C /\ Reseal[i][2] \in Files \ UserFiles
    BY <1>2, ReleaseSeq
  <1>4. C \cap Writes = {} /\ C \cap Puts = {} /\ C \cap Keeps = {}
        /\ "backupIf" \notin C /\ "stale" \notin C
    BY DEF Writes, Puts, Keeps, Always
  <1>5. ReadFirst(Reseal, {})
    BY <1>3, <1>4 DEF ReadFirst, Before
  <1>6. BackedFirst(Reseal, {})
    BY <1>3, <1>4 DEF BackedFirst, Before
  <1>7. Once(Reseal) /\ KeptApart(Reseal)
    BY <1>3, <1>4 DEF Once, KeptApart, NotAfter
  <1>8. Careful(Reseal)
    BY <1>3, <1>4 DEF Careful, CopiedFirst, LookedLast, Before
  <1>9. Suits("reseal", Reseal)
    BY <1>3, <1>4 DEF Suits, UserFiles
  <1> QED BY <1>2, <1>5, <1>6, <1>7, <1>8, <1>9 DEF Sound

\* The tools by name.
LEMMA ToolsKnown ==
    Tools = {"hotfix", "conversation", "replay", "identity", "ux", "registry", "growth",
             "layout", "dashboard", "surface", "route", "mirror", "namespace", "update",
             "outbound", "bridge", "repair", "rollback", "tools", "doctor", "allowlist",
             "cleanup", "pack", "reseal"}
  BY DEF Tools, StepsOf

\* Every tool is sound.
LEMMA ProgramsSound ==
    ASSUME NEW tool \in Tools
    PROVE  Sound(tool, StepsOf[tool]) /\ (tool = "reseal" => VerifiesAll(StepsOf[tool]))
  <1>1. CASE tool \in {"hotfix", "conversation", "replay", "identity", "ux", "registry"}
    BY <1>1, MemorySearchHotfixSound, ConversationUxSound, ReplayEvaluatorSound,
       RuntimeIdentityPromptSound, UserScreenUxSound, PluginRegistryRuntimeSound DEF StepsOf
  <1>2. CASE tool \in {"growth", "layout", "dashboard", "surface", "route", "mirror"}
    BY <1>2, SelfGrowthAuthoritySound, ChatLayoutRecoverySound, DashboardCacheBustSound,
       SurfaceSealSound, ModelConnectionRouteSound, RuntimeNamespaceSound DEF StepsOf
  <1>3. CASE tool \in {"namespace", "update", "outbound", "bridge", "repair", "rollback"}
    BY <1>3, StandaloneNamespaceSound, UpdateBoundarySound, OutboundBoundarySound,
       BridgePatchSound, RuntimeRepairSound, RollbackRepairSound DEF StepsOf
  <1>4. CASE tool \in {"tools", "doctor", "allowlist", "cleanup", "pack", "reseal"}
    BY <1>4, LiveConfigRepairSound, DoctorWarningsSound, PluginAllowlistSound,
       CleanupTestSessionsSound, WorkspacePackSound, ResealSound, ResealSteps DEF StepsOf
  <1> QED BY <1>1, <1>2, <1>3, <1>4, ToolsKnown

(***************************************************************************)
(* What a step does.                                                            *)
(***************************************************************************)

Do(a) == Head(runs[a].todo)[1]

\* The run of a goes on, with these fields; every other run stays as it is.
Turn(a, todo, held, saved, wrote, failed) ==
    /\ runs[a] # Rest /\ DOMAIN runs' = Actors
    /\ \A b \in Actors \ {a} : runs'[b] = runs[b]
    /\ DOMAIN runs'[a] = RunFields
    /\ runs'[a].tool = runs[a].tool /\ runs'[a].todo = todo
    /\ runs'[a].held = held /\ runs'[a].saved = saved /\ runs'[a].wrote = wrote
    /\ runs'[a].start = runs[a].start /\ runs'[a].alone = runs[a].alone
    /\ runs'[a].failed = failed

Ahead(a, held, saved, wrote) ==
    /\ runs[a].todo # <<>>
    /\ Turn(a, Tail(runs[a].todo), held, saved, wrote, runs[a].failed)

\* A step that leaves files, copies and what was read alone.
Passed(a) ==
    /\ Ahead(a, runs[a].held, runs[a].saved, runs[a].wrote)
    /\ UNCHANGED <<disk, evidence, users>>
    /\ Do(a) \notin {"read", "backup", "keep", "swap"}
    /\ Do(a) \in Puts \cup {"backupIf"} =>
          Do(a) \in {"write", "replace", "append", "backupIf"}
          /\ runs[a].tool \in runs[a].held[File(a)]
    /\ Do(a) = "anchor" => disk[File(a)] = runs[a].held[File(a)]
    /\ Do(a) = "undoAnchor" => disk[File(a)] = runs[a].held[File(a)] \cup {runs[a].tool}

Looked(a) ==
    /\ Do(a) = "read"
    /\ Ahead(a, With(runs[a].held, File(a), disk[File(a)]), runs[a].saved, runs[a].wrote)
    /\ UNCHANGED <<disk, evidence, users>>

Copied(a) ==
    /\ Do(a) \in Keeps \cup {"stale"}
    /\ Ahead(a, runs[a].held,
             With(runs[a].saved, File(a),
                  IF Do(a) \in {"keep", "stale"} THEN runs[a].held[File(a)] ELSE disk[File(a)]),
             runs[a].wrote)
    /\ UNCHANGED <<disk, evidence, users>>

\* What the step leaves in its file.
Content(a) ==
    CASE Do(a) \in Writes -> Patched(runs[a].held[File(a)], runs[a].tool)
      [] Do(a) = "copy" -> {"lab", runs[a].tool}
      [] Do(a) = "device" -> disk[File(a)] \cup {runs[a].tool}
      [] Do(a) = "restore" -> runs[a].saved[File(a)]
      [] Do(a) = "undo" -> runs[a].held[File(a)]

Put_(a) ==
    /\ Do(a) \in Puts
    /\ Do(a) \in Writes => ~(Torn \subseteq runs[a].held[File(a)]) \/ Do(a) = "append"
    /\ Do(a) \in Writes => runs[a].tool \notin runs[a].held[File(a)] \/ Do(a) \in Always
    /\ Ahead(a, runs[a].held, runs[a].saved, Append(runs[a].wrote, File(a)))
    /\ disk' = [disk EXCEPT ![File(a)] = Content(a)]
    /\ IF Do(a) = "copy" \/ (Do(a) = "restore" /\ runs[a].tool = "rollback")
       THEN Overwritten(File(a)) ELSE UNCHANGED evidence
    /\ UNCHANGED users

Swapped(a) ==
    /\ Do(a) = "swap"
    /\ \E held \in {runs[a].held, With(runs[a].held, File(a), disk[File(a)])} :
          Ahead(a, held, runs[a].saved, runs[a].wrote)
    /\ disk' = [disk EXCEPT ![File(a)] = {"lab"}]
    /\ Overwritten(File(a))
    /\ UNCHANGED users

Failed(a) ==
    /\ ~runs[a].failed
    /\ Turn(a, Undo(runs[a]), runs[a].held, runs[a].saved, runs[a].wrote, TRUE)
    /\ UNCHANGED <<disk, evidence, users>>

\* The rest of the run is not needed.
Spared(a) ==
    /\ runs[a].todo # <<>>
    /\ \/ Do(a) = "source"
       \/ /\ Do(a) \in Keeps \cup {"stale"} /\ runs[a].tool \in {"tools", "doctor"}
          /\ runs[a].tool \in runs[a].held[File(a)]
    /\ Turn(a, <<>>, runs[a].held, runs[a].saved, runs[a].wrote, runs[a].failed)
    /\ UNCHANGED <<disk, evidence, users>>

Gone(a) ==
    /\ runs[a] # Rest /\ DOMAIN runs' = Actors
    /\ runs'[a] = Rest /\ \A b \in Actors \ {a} : runs'[b] = runs[b]

Outcome(c, content, outcome, wrote, changed) ==
    [tool |-> c.tool, outcome |-> outcome, saved |-> c.saved, start |-> c.start,
     wrote |-> wrote, alone |-> c.alone, changed |-> changed, over |-> {}]

Changed(c) == {f \in PatchedBy(c.tool) : Plain(disk[f]) # Plain(c.start[f])}

Ended(a) ==
    /\ Gone(a)
    /\ \E outcome \in {"applied", "failed", "compliant", "cut", "unreported"} :
          /\ outcome = "applied" => ~runs[a].failed /\ runs[a].todo = <<>>
          /\ outcome = "failed" => runs[a].failed /\ runs[a].todo = <<>>
          /\ outcome = "unreported" => ~runs[a].failed /\ PastCatch(runs[a])
          /\ evidence' = Append(evidence,
                 Outcome(runs[a], disk, outcome, ToSet(runs[a].wrote), Changed(runs[a])))
    /\ UNCHANGED <<disk, users>>

TornEnd(a) ==
    /\ Gone(a) /\ runs[a].todo # <<>>
    /\ Do(a) \in {"write", "rewrite", "append"}
    /\ ~(Torn \subseteq runs[a].held[File(a)])
    /\ runs[a].tool \notin runs[a].held[File(a)] \/ Do(a) = "rewrite"
    /\ disk' = [disk EXCEPT ![File(a)] = Torn]
    /\ evidence' = Append(evidence,
           Outcome(runs[a], disk, "cut", ToSet(runs[a].wrote) \cup {File(a)}, {File(a)}))
    /\ UNCHANGED users

Begun(a) ==
    /\ runs[a] = Rest /\ DOMAIN runs' = Actors
    /\ \A b \in Actors \ {a} :
          IF runs[b] = Rest THEN runs'[b] = Rest
          ELSE runs'[b] = [runs[b] EXCEPT !.alone = FALSE]
    /\ DOMAIN runs'[a] = RunFields
    /\ runs'[a].tool \in Tools /\ runs'[a].todo = StepsOf[runs'[a].tool]
    /\ runs'[a].held = <<>> /\ runs'[a].wrote = <<>> /\ runs'[a].start = disk
    /\ runs'[a].failed = FALSE
    /\ runs'[a].alone \in BOOLEAN /\ (runs'[a].alone => \A b \in Actors : runs[b] = Rest)
    /\ IF runs'[a].tool = "rollback" THEN evidence # <<>> ELSE runs'[a].saved = <<>>
    /\ UNCHANGED <<disk, evidence, users>>

Effect(a) ==
    \/ Passed(a) \/ Looked(a) \/ Copied(a) \/ Put_(a) \/ Swapped(a) \/ Failed(a)
    \/ Spared(a) \/ Ended(a) \/ TornEnd(a) \/ Begun(a)

\* The next step is a step.
LEMMA HeadIn ==
    ASSUME NEW c, Running(c), c.todo # <<>>
    PROVE  Head(c.todo) \in Steps /\ Head(c.todo)[2] \in Files /\ Tail(c.todo) \in Seq(Steps)
  BY DEF Running, Steps

\* What Shape says of one run.
LEMMA RunFacts ==
    ASSUME Shape, NEW a \in Actors, runs[a] # Rest
    PROVE  Running(runs[a]) /\ DOMAIN runs[a] = RunFields /\ DOMAIN runs = Actors
  BY DEF Shape, Running

\* The records the actions make.
LEMMA GoingTurns ==
    ASSUME Shape, NEW a \in Actors, runs[a] # Rest, NEW c, Going(a, c), DOMAIN c = RunFields,
           c.tool = runs[a].tool, c.start = runs[a].start, c.alone = runs[a].alone,
           c.todo = runs[a].todo, c.failed = runs[a].failed
    PROVE  Turn(a, Tail(runs[a].todo), c.held, c.saved, c.wrote, runs[a].failed)
  BY RunFacts DEF Going, Turn, RunFields

\* An exception makes a run fail, or ends it.
LEMMA ThrowFails ==
    ASSUME Shape, NEW a \in Actors, runs[a] # Rest, Throw(a), UNCHANGED <<disk, users>>
    PROVE  Failed(a) \/ Ended(a)
  <1>1. Running(runs[a]) /\ DOMAIN runs[a] = RunFields /\ DOMAIN runs = Actors
    BY RunFacts
  <1>2. CASE runs[a].failed
    BY <1>1, <1>2 DEF Throw, EndAs, Ended, Gone, Outcome, Changed
  <1>3. CASE ~runs[a].failed /\ PastCatch(runs[a])
    BY <1>1, <1>3 DEF Throw, EndAs, Ended, Gone, Outcome, Changed
  <1>4. CASE ~runs[a].failed /\ ~PastCatch(runs[a])
    BY <1>1, <1>4 DEF Throw, Failed, Turn, RunFields
  <1> QED BY <1>2, <1>3, <1>4

\* A read looks at its file.
LEMMA ReadEffect ==
    ASSUME Shape, NEW a \in Actors, Read(a) PROVE Looked(a)
  <1>1. Running(runs[a]) /\ DOMAIN runs[a] = RunFields /\ runs[a] # Rest
    BY RunFacts DEF Read, At
  <1>2. PICK c : c = [runs[a] EXCEPT !.held = With(@, File(a), disk[File(a)])]
    OBVIOUS
  <1>3. /\ DOMAIN c = RunFields /\ c.tool = runs[a].tool /\ c.start = runs[a].start
        /\ c.alone = runs[a].alone /\ c.todo = runs[a].todo /\ c.failed = runs[a].failed
        /\ c.held = With(runs[a].held, File(a), disk[File(a)])
        /\ c.saved = runs[a].saved /\ c.wrote = runs[a].wrote
    BY <1>1, <1>2 DEF RunFields
  <1>4. Going(a, c)
    BY <1>2 DEF Read
  <1> QED BY <1>1, <1>3, <1>4, GoingTurns DEF Read, At, Looked, Ahead, Do

\* A run that goes on as it is.
LEMMA SamePass ==
    ASSUME Shape, NEW a \in Actors, runs[a] # Rest, runs[a].todo # <<>>, Going(a, runs[a])
    PROVE  Ahead(a, runs[a].held, runs[a].saved, runs[a].wrote)
  BY RunFacts, GoingTurns DEF Ahead

\* A check passes, or its run fails.
LEMMA CheckEffect ==
    ASSUME Shape, NEW a \in Actors, Check(a) PROVE Passed(a) \/ Failed(a) \/ Ended(a)
  <1>1. runs[a] # Rest /\ runs[a].todo # <<>> /\ UNCHANGED <<disk, users>>
        /\ Do(a) \in {"guard", "require", "anchor", "undoAnchor", "readback", "assert",
              "protected", "verify"}
    BY DEF Check, At, Do
  <1>2. CASE Passes(runs[a], Do(a), File(a))
    <2>1. Going(a, runs[a]) /\ UNCHANGED evidence
      BY <1>2 DEF Check, Do
    <2>2. Ahead(a, runs[a].held, runs[a].saved, runs[a].wrote)
      BY <1>1, <2>1, SamePass
    <2>3. Do(a) \notin Puts \cup {"read", "backup", "keep", "swap", "backupIf"}
      BY <1>1 DEF Puts, Writes, Always
    <2>4. /\ Do(a) = "anchor" => disk[File(a)] = runs[a].held[File(a)]
          /\ Do(a) = "undoAnchor" => disk[File(a)] = runs[a].held[File(a)] \cup {runs[a].tool}
      BY <1>2 DEF Passes, Compared
    <2> QED BY <1>1, <2>1, <2>2, <2>3, <2>4 DEF Passed
  <1>3. CASE ~Passes(runs[a], Do(a), File(a))
    BY <1>1, <1>3, ThrowFails DEF Check, Do
  <1> QED BY <1>2, <1>3

\* A copy is made, or is not needed.
LEMMA BackupEffect ==
    ASSUME Shape, NEW a \in Actors, Backup(a) PROVE Passed(a) \/ Copied(a) \/ Spared(a)
  <1> DEFINE c == runs[a]
             f == File(a)
             copy == IF Do(a) \in {"keep", "stale"} THEN c.held[f] ELSE disk[f]
             d == [c EXCEPT !.saved = With(@, f, copy)]
  <1>1. c # Rest /\ c.todo # <<>> /\ UNCHANGED <<disk, evidence, users>>
        /\ Do(a) \in {"backup", "backupIf", "keep", "stale"}
    BY DEF Backup, At, Do
  <1>2. DOMAIN c = RunFields /\ DOMAIN runs = Actors
    BY <1>1, RunFacts
  <1>3. CASE Going(a, c) /\ ((Do(a) = "backupIf" /\ ~Changes(c, f))
                           \/ (Do(a) = "stale" /\ f \notin DOMAIN c.held))
    <2>1. Ahead(a, c.held, c.saved, c.wrote)
      BY <1>1, <1>3, SamePass
    <2> QED BY <1>1, <1>3, <2>1 DEF Passed, Changes, Puts, Writes, Always
  <1>4. CASE c.tool \in {"tools", "doctor"} /\ ~Changes(c, f)
             /\ runs' = [runs EXCEPT ![a].todo = <<>>]
    <2>1. Turn(a, <<>>, c.held, c.saved, c.wrote, c.failed)
      BY <1>1, <1>2, <1>4 DEF Turn, RunFields
    <2> QED BY <1>1, <1>4, <2>1 DEF Spared, Changes, Keeps
  <1>5. CASE Going(a, d)
    <2>1. /\ DOMAIN d = RunFields /\ d.tool = c.tool /\ d.start = c.start
          /\ d.alone = c.alone /\ d.todo = c.todo /\ d.failed = c.failed
          /\ d.held = c.held /\ d.saved = With(c.saved, f, copy) /\ d.wrote = c.wrote
      BY <1>2 DEF RunFields
    <2> HIDE DEF d
    <2>2. Turn(a, Tail(c.todo), c.held, With(c.saved, f, copy), c.wrote, c.failed)
      BY <1>1, <1>5, <2>1, GoingTurns
    <2> QED BY <1>1, <2>2 DEF Copied, Ahead, Keeps
  <1>6. \/ Going(a, c) /\ ((Do(a) = "backupIf" /\ ~Changes(c, f))
                           \/ (Do(a) = "stale" /\ f \notin DOMAIN c.held))
        \/ (c.tool \in {"tools", "doctor"} /\ ~Changes(c, f)
             /\ runs' = [runs EXCEPT ![a].todo = <<>>])
        \/ Going(a, d)
    BY DEF Backup, Do
  <1> QED BY <1>3, <1>4, <1>5, <1>6

\* The codex route is fine, or ends the run.
LEMMA RouteEffect ==
    ASSUME Shape, NEW a \in Actors, CodexRoute(a) PROVE Passed(a) \/ Failed(a) \/ Ended(a)
  <1>1. runs[a] # Rest /\ runs[a].todo # <<>> /\ UNCHANGED <<disk, users>> /\ Do(a) = "route"
    BY DEF CodexRoute, At, Do
  <1>2. CASE Going(a, runs[a]) /\ UNCHANGED evidence
    <2>1. Ahead(a, runs[a].held, runs[a].saved, runs[a].wrote)
      BY <1>1, <1>2, SamePass
    <2> QED BY <1>1, <1>2, <2>1 DEF Passed, Puts, Writes, Always
  <1>3. CASE EndAs(a, "compliant")
    BY <1>1, <1>3, RunFacts DEF EndAs, Ended, Gone, Outcome, Changed
  <1>4. CASE Throw(a)
    BY <1>1, <1>4, ThrowFails
  <1> QED BY <1>2, <1>3, <1>4 DEF CodexRoute

\* Without a logo the rest of the run is spared.
LEMMA LogoEffect ==
    ASSUME Shape, NEW a \in Actors, LogoSource(a) PROVE Passed(a) \/ Spared(a)
  <1>1. /\ runs[a] # Rest /\ runs[a].todo # <<>> /\ UNCHANGED <<disk, users, evidence>>
        /\ Do(a) = "source" /\ DOMAIN runs[a] = RunFields /\ DOMAIN runs = Actors
    BY RunFacts DEF LogoSource, At, Do
  <1>2. CASE Going(a, runs[a])
    <2>1. Ahead(a, runs[a].held, runs[a].saved, runs[a].wrote)
      BY <1>1, <1>2, SamePass
    <2> QED BY <1>1, <1>2, <2>1 DEF Passed, Puts, Writes, Always
  <1>3. CASE runs' = [runs EXCEPT ![a].todo = <<>>]
    BY <1>1, <1>3 DEF Spared, Turn, RunFields
  <1> QED BY <1>2, <1>3 DEF LogoSource

\* A write goes on and is noted.
LEMMA PutTurns ==
    ASSUME Shape, NEW a \in Actors, runs[a] # Rest, runs[a].todo # <<>>,
           NEW content, Put(a, File(a), content)
    PROVE  /\ Ahead(a, runs[a].held, runs[a].saved, Append(runs[a].wrote, File(a)))
           /\ disk' = [disk EXCEPT ![File(a)] = content]
  <1> DEFINE c == [runs[a] EXCEPT !.wrote = Append(@, File(a))]
  <1>1. /\ DOMAIN c = RunFields /\ c.tool = runs[a].tool /\ c.start = runs[a].start
        /\ c.alone = runs[a].alone /\ c.todo = runs[a].todo /\ c.failed = runs[a].failed
        /\ c.held = runs[a].held /\ c.saved = runs[a].saved
        /\ c.wrote = Append(runs[a].wrote, File(a))
    BY RunFacts DEF RunFields
  <1>2. Going(a, c) /\ disk' = [disk EXCEPT ![File(a)] = content]
    BY DEF Put
  <1> HIDE DEF c
  <1> QED BY <1>1, <1>2, GoingTurns DEF Ahead

\* A write puts its text, or needs none, or fails.
LEMMA WriteEffect ==
    ASSUME Shape, NEW a \in Actors, Write(a)
    PROVE  Passed(a) \/ Put_(a) \/ Failed(a) \/ Ended(a)
  <1> DEFINE c == runs[a]
             f == File(a)
  <1>1. c # Rest /\ c.todo # <<>> /\ UNCHANGED users /\ Do(a) \in Writes
    BY DEF Write, At, Do, Writes
  <1>2. CASE Throw(a) /\ UNCHANGED disk
    BY <1>1, <1>2, ThrowFails
  <1>3. CASE /\ ~(Torn \subseteq c.held[f] /\ ~At(a, {"append"}))
             /\ Changes(c, f) \/ Head(c.todo)[1] \in Always
             /\ Put(a, f, Patched(c.held[f], c.tool)) /\ UNCHANGED evidence
    <2>1. /\ Ahead(a, c.held, c.saved, Append(c.wrote, f))
          /\ disk' = [disk EXCEPT ![f] = Patched(c.held[f], c.tool)]
      BY <1>1, <1>3, PutTurns
    <2>2. ~(Torn \subseteq c.held[f]) \/ Do(a) = "append"
      BY <1>1, <1>3 DEF At, Do
    <2>3. c.tool \notin c.held[f] \/ Do(a) \in Always
      BY <1>3 DEF Changes, Do
    <2>4. Do(a) \in Puts /\ Do(a) # "copy" /\ Do(a) # "restore"
          /\ Content(a) = Patched(c.held[f], c.tool)
      BY <1>1 DEF Puts, Writes, Always, Content
    <2> QED BY <1>1, <1>3, <2>1, <2>2, <2>3, <2>4 DEF Put_
  <1>4. CASE /\ ~Changes(c, f) /\ Head(c.todo)[1] \notin Always
             /\ Going(a, c) /\ UNCHANGED <<disk, evidence>>
    <2>1. Ahead(a, c.held, c.saved, c.wrote)
      BY <1>1, <1>4, SamePass
    <2> QED BY <1>1, <1>4, <2>1 DEF Passed, Changes, Do, Puts, Writes, Always
  <1> QED BY <1>2, <1>3, <1>4 DEF Write

\* The other writes put theirs.
LEMMA OtherPuts ==
    ASSUME Shape, NEW a \in Actors,
           CopyIn(a) \/ RepairDevice(a) \/ Restore(a) \/ PutBack(a)
    PROVE  Put_(a)
  <1>1. /\ runs[a] # Rest /\ runs[a].todo # <<>> /\ UNCHANGED users
        /\ Do(a) \in {"copy", "device", "restore", "undo"}
    BY DEF CopyIn, RepairDevice, Restore, PutBack, At, Do
  <1>2. Do(a) \in Puts /\ Do(a) \notin Writes
    BY <1>1 DEF Puts, Writes, Always
  <1>3. Put(a, File(a), Content(a))
    BY <1>2 DEF CopyIn, RepairDevice, Restore, PutBack, At, Do, Content
  <1>4. IF Do(a) = "copy" \/ (Do(a) = "restore" /\ runs[a].tool = "rollback")
        THEN Overwritten(File(a)) ELSE UNCHANGED evidence
    BY DEF CopyIn, RepairDevice, Restore, PutBack, At, Do
  <1> QED BY <1>1, <1>2, <1>3, <1>4, PutTurns DEF Put_

\* The bridge chunk is swapped.
LEMMA SwapEffect ==
    ASSUME Shape, NEW a \in Actors, SwapChunk(a) PROVE Swapped(a)
  <1>1. /\ runs[a] # Rest /\ runs[a].todo # <<>> /\ UNCHANGED users /\ Do(a) = "swap"
        /\ disk' = [disk EXCEPT ![File(a)] = {"lab"}] /\ Overwritten(File(a))
    BY DEF SwapChunk, At, Do
  <1>2. PICK held \in {runs[a].held, With(runs[a].held, File(a), disk[File(a)])} :
           Going(a, [runs[a] EXCEPT !.held = held])
    BY DEF SwapChunk
  <1> DEFINE c == [runs[a] EXCEPT !.held = held]
  <1>3. /\ DOMAIN c = RunFields /\ c.tool = runs[a].tool /\ c.start = runs[a].start
        /\ c.alone = runs[a].alone /\ c.todo = runs[a].todo /\ c.failed = runs[a].failed
        /\ c.held = held /\ c.saved = runs[a].saved /\ c.wrote = runs[a].wrote
    BY <1>1, RunFacts DEF RunFields
  <1>4. Going(a, c)
    BY <1>2
  <1> HIDE DEF c
  <1>5. Ahead(a, held, runs[a].saved, runs[a].wrote)
    BY <1>1, <1>3, <1>4, GoingTurns DEF Ahead
  <1> QED BY <1>1, <1>5 DEF Swapped

\* The manifest is no file of the release.
LEMMA SealEffect ==
    ASSUME Shape, NEW a \in Actors, WriteSeal(a) PROVE Passed(a)
  <1>1. /\ runs[a] # Rest /\ runs[a].todo # <<>> /\ UNCHANGED <<disk, users, evidence>>
        /\ Do(a) = "writeSeal" /\ Going(a, runs[a])
    BY DEF WriteSeal, At, Do
  <1> QED BY <1>1, SamePass DEF Passed, Puts, Writes, Always

\* Nor is a report.
LEMMA ReportEffect ==
    ASSUME Shape, NEW a \in Actors, WriteReport(a) PROVE Passed(a)
  <1>1. /\ runs[a] # Rest /\ runs[a].todo # <<>> /\ UNCHANGED <<disk, users, evidence>>
        /\ Do(a) = "report" /\ Going(a, runs[a])
    BY DEF WriteReport, At, Do
  <1> QED BY <1>1, SamePass DEF Passed, Puts, Writes, Always

\* A run that has nothing left ends.
LEMMA EndEffect ==
    ASSUME Shape, NEW a \in Actors, EndRun(a) PROVE Ended(a)
  <1>1. Running(runs[a]) /\ DOMAIN runs = Actors
    BY RunFacts DEF EndRun
  <1>2. PICK outcome : outcome = IF runs[a].failed THEN "failed" ELSE "applied"
    OBVIOUS
  <1>3. EndAs(a, outcome)
    BY <1>2 DEF EndRun
  <1> QED BY <1>1, <1>2, <1>3 DEF EndRun, EndAs, Ended, Gone, Outcome, Changed

\* A run that is killed ends, and may tear a file.
LEMMA CrashEffect ==
    ASSUME Shape, NEW a \in Actors, Crash(a) PROVE Ended(a) \/ TornEnd(a)
  <1>1. runs[a] # Rest /\ UNCHANGED users /\ DOMAIN runs = Actors
    BY RunFacts DEF Crash
  <1>2. CASE EndAs(a, "cut") /\ UNCHANGED disk
    BY <1>1, <1>2 DEF EndAs, Ended, Gone, Outcome, Changed
  <1>3. CASE ~(EndAs(a, "cut") /\ UNCHANGED disk)
    BY <1>1, <1>3 DEF Crash, TornEnd, Gone, Outcome, At, Do, Changes
  <1> QED BY <1>2, <1>3

\* A run begins with the whole list of its tool.
LEMMA BeginEffect ==
    ASSUME Shape, NEW a \in Actors, NEW tool \in Tools, NEW copies, Begin(a, tool, copies),
           tool # "rollback" => copies = <<>>, tool = "rollback" => evidence # <<>>
    PROVE  Begun(a)
  <1> DEFINE met == [b \in Actors |-> IF runs[b] = Rest THEN Rest
                                     ELSE [runs[b] EXCEPT !.alone = FALSE]]
             run == [tool |-> tool, todo |-> StepsOf[tool], held |-> <<>>,
                     saved |-> copies, start |-> disk, wrote |-> <<>>,
                     failed |-> FALSE, alone |-> \A b \in Actors : runs[b] = Rest]
  <1>1. runs[a] = Rest /\ runs' = [met EXCEPT ![a] = run] /\ UNCHANGED <<disk, evidence, users>>
    BY DEF Begin
  <1>2. DOMAIN met = Actors
    OBVIOUS
  <1>3. runs'[a] = run /\ DOMAIN runs' = Actors /\ \A b \in Actors \ {a} : runs'[b] = met[b]
    <2> HIDE DEF met, run
    <2> QED BY <1>1, <1>2
  <1>4. /\ DOMAIN run = RunFields /\ run.tool = tool /\ run.todo = StepsOf[tool]
        /\ run.held = <<>> /\ run.wrote = <<>> /\ run.start = disk /\ run.failed = FALSE
        /\ run.saved = copies
    BY DEF RunFields
  <1>5. run.alone \in BOOLEAN /\ (run.alone => \A b \in Actors : runs[b] = Rest)
    <2>1. PICK alone \in BOOLEAN : alone = \A b \in Actors : runs[b] = Rest
      OBVIOUS
    <2>2. run.alone = alone
      BY <2>1, Zenon
    <2> QED BY <2>1, <2>2, Zenon
  <1>6. \A b \in Actors \ {a} : runs'[b] = IF runs[b] = Rest THEN Rest
                                           ELSE [runs[b] EXCEPT !.alone = FALSE]
    BY <1>3
  <1> HIDE DEF run
  <1> QED BY <1>1, <1>3, <1>4, <1>5, <1>6 DEF Begun

\* Every step of a shell has one of the effects.
LEMMA StepEffects ==
    ASSUME Shape, PatchesNext
    PROVE  UserWrites \/ \E a \in Actors : Effect(a)
  <1>1. ASSUME NEW a \in Actors, BeginTool(a) \/ BeginRollback(a) PROVE Effect(a)
    <2>1. CASE BeginTool(a)
      BY <2>1, BeginEffect DEF BeginTool, Effect
    <2>2. CASE BeginRollback(a)
      <3>1. "rollback" \in Tools
        BY ToolsKnown
      <3>2. PICK i \in DOMAIN evidence : Begin(a, "rollback", evidence[i].saved)
        BY <2>2 DEF BeginRollback
      <3>3. evidence # <<>>
        BY <3>2 DEF Shape
      <3> QED BY <3>1, <3>2, <3>3, BeginEffect DEF Effect
    <2> QED BY <1>1, <2>1, <2>2
  <1>2. ASSUME NEW a \in Actors, EndRun(a) \/ Crash(a) PROVE Effect(a)
    BY <1>2, EndEffect, CrashEffect DEF Effect
  <1>3. ASSUME NEW a \in Actors, StepFails(a) PROVE Effect(a)
    BY <1>3, ThrowFails DEF StepFails, Effect
  <1>4. ASSUME NEW a \in Actors,
               Read(a) \/ Check(a) \/ Backup(a) \/ CodexRoute(a) \/ LogoSource(a)
        PROVE  Effect(a)
    BY <1>4, ReadEffect, CheckEffect, BackupEffect, RouteEffect, LogoEffect DEF Effect
  <1>5. ASSUME NEW a \in Actors,
               Write(a) \/ CopyIn(a) \/ SwapChunk(a) \/ RepairDevice(a) \/ Restore(a)
               \/ PutBack(a) \/ WriteReport(a) \/ WriteSeal(a)
        PROVE  Effect(a)
    BY <1>5, WriteEffect, OtherPuts, SwapEffect, ReportEffect, SealEffect DEF Effect
  <1> QED BY <1>1, <1>2, <1>3, <1>4, <1>5 DEF PatchesNext

(***************************************************************************)
(* The programs are kept to while they run.                                     *)
(***************************************************************************)

\* Files whose text needs no change: they are not read again, and left as they are.
Skipped(c) ==
    {f \in Files \cap DOMAIN c.held : c.tool \in c.held[f] /\ \A i \in DOMAIN c.todo :
        c.todo[i][2] = f => c.todo[i][1] \notin {"read"} \cup (Puts \ {"write", "replace"})}
Spare(c) == Skipped(c) \cup (IF c.tool = "bridge" THEN {"handler"} ELSE {})

Undoing(c) ==
    \A i \in DOMAIN c.todo :
        /\ c.todo[i][1] \in {"restore", "undo", "undoAnchor"}
        /\ c.todo[i][1] = "restore" =>
              /\ c.tool \in {"layout", "dashboard"} /\ c.todo[i][2] = "index"
              /\ "index" \in DOMAIN c.saved
        /\ c.todo[i][1] = "undo" =>
              c.tool \in {"outbound", "tools", "doctor"} /\ c.todo[i][2] \in ToSet(c.wrote)
        /\ c.todo[i][1] = "undoAnchor" => c.tool \in {"tools", "doctor"}
        /\ c.tool \in {"tools", "doctor"} => c.todo[i][2] = "config"

Backing(c) ==
    c.tool \notin {"route", "rollback"} =>
        /\ BackedFirst(c.todo, DOMAIN c.saved \cup Spare(c))
        /\ ToSet(c.wrote) \subseteq Uncopied \cup DOMAIN c.saved

Reading(c) ==
    /\ ReadFirst(c.todo, DOMAIN c.held)
    /\ c.tool \in {"outbound", "tools", "doctor"} => ToSet(c.wrote) \subseteq DOMAIN c.held
    /\ c.tool \in {"tools", "doctor"} => ToSet(c.wrote) \subseteq {"config"}

Sane(c) ==
    /\ Reading(c) /\ Backing(c)
    /\ Once(c.todo) /\ KeptApart(c.todo)
    /\ CopiedFirst(c.todo, DOMAIN c.saved) /\ LookedLast(c.todo)
    /\ IF c.failed THEN Undoing(c) ELSE Suits(c.tool, c.todo)

\* The rest of a list, and its places.
LEMMA TailSteps ==
    ASSUME NEW s \in Seq(Steps), s # <<>>
    PROVE  /\ Tail(s) \in Seq(Steps) /\ Len(Tail(s)) = Len(s) - 1 /\ Len(s) \in Nat
           /\ Head(s) = s[1] /\ 1 \in DOMAIN s
           /\ \A i \in DOMAIN Tail(s) : i + 1 \in DOMAIN s /\ Tail(s)[i] = s[i + 1]
           /\ \A i \in DOMAIN s \ {1} : i - 1 \in DOMAIN Tail(s) /\ Tail(s)[i - 1] = s[i]
  OBVIOUS

\* A step that is done counts among K.
LEMMA BeforeTail ==
    ASSUME NEW s \in Seq(Steps), s # <<>>, NEW E, NEW D, NEW K, NEW M, Before(s, E, D, K),
           K \subseteq M, Head(s)[1] \in E => Head(s)[2] \in M
    PROVE  Before(Tail(s), E, D, M)
  <1>1. SUFFICES ASSUME NEW i \in DOMAIN Tail(s), Tail(s)[i][1] \in D, Tail(s)[i][2] \notin M
                 PROVE  \E j \in 1 .. (i - 1) :
                           Tail(s)[j][2] = Tail(s)[i][2] /\ Tail(s)[j][1] \in E
    BY DEF Before
  <1>2. i + 1 \in DOMAIN s /\ Tail(s)[i] = s[i + 1] /\ i \in Nat
    BY TailSteps
  <1>3. PICK j \in 1 .. ((i + 1) - 1) : s[j][2] = s[i + 1][2] /\ s[j][1] \in E
    BY <1>1, <1>2 DEF Before
  <1>4. j # 1
    BY <1>1, <1>2, <1>3, TailSteps
  <1>5. j \in DOMAIN s \ {1} /\ j - 1 \in 1 .. (i - 1)
    BY <1>2, <1>3, <1>4
  <1>6. Tail(s)[j - 1] = s[j]
    BY <1>5, TailSteps
  <1> QED BY <1>2, <1>3, <1>5, <1>6

\* The next step has nothing before it.
LEMMA BeforeHead ==
    ASSUME NEW s \in Seq(Steps), s # <<>>, NEW E, NEW D, NEW K, Before(s, E, D, K),
           Head(s)[1] \in D
    PROVE  Head(s)[2] \in K
  BY TailSteps DEF Before

\* What may not follow the next step does not.
LEMMA NotAfterTail ==
    ASSUME NEW s \in Seq(Steps), s # <<>>, NEW E, NEW D, NEW K, NotAfter(s, E, D, K)
    PROVE  /\ NotAfter(Tail(s), E, D, K)
           /\ Head(s)[1] \in E => \A i \in DOMAIN Tail(s) :
                 Tail(s)[i][1] \in D /\ Tail(s)[i][2] = Head(s)[2] => Head(s)[2] \in K
  <1>1. ASSUME NEW i \in DOMAIN Tail(s), NEW j \in DOMAIN Tail(s), j < i,
               Tail(s)[j][1] \in E, Tail(s)[i][1] \in D, Tail(s)[i][2] = Tail(s)[j][2]
        PROVE  Tail(s)[i][2] \in K
    <2>1. i + 1 \in DOMAIN s /\ j + 1 \in DOMAIN s /\ j + 1 < i + 1
          /\ Tail(s)[i] = s[i + 1] /\ Tail(s)[j] = s[j + 1]
      BY <1>1, TailSteps
    <2> QED BY <1>1, <2>1 DEF NotAfter
  <1>2. ASSUME Head(s)[1] \in E, NEW i \in DOMAIN Tail(s),
               Tail(s)[i][1] \in D, Tail(s)[i][2] = Head(s)[2]
        PROVE  Head(s)[2] \in K
    <2>1. i + 1 \in DOMAIN s /\ 1 \in DOMAIN s /\ 1 < i + 1
          /\ Tail(s)[i] = s[i + 1] /\ Head(s) = s[1]
      BY TailSteps
    <2> QED BY <1>2, <2>1 DEF NotAfter
  <1> QED BY <1>1, <1>2 DEF NotAfter

\* The last look is still before the write.
LEMMA LookedTail ==
    ASSUME NEW s \in Seq(Steps), s # <<>>, LookedLast(s)
    PROVE  LookedLast(Tail(s))
  <1>1. SUFFICES ASSUME NEW i \in DOMAIN Tail(s), NEW k \in DOMAIN Tail(s), i < k,
                        Tail(s)[i][1] = "backup", Tail(s)[k][1] \in Writes,
                        Tail(s)[i][2] = Tail(s)[k][2], Tail(s)[k][2] \in UserFiles
                 PROVE  \E j \in (i + 1) .. (k - 1) :
                           Tail(s)[j][1] = "read" /\ Tail(s)[j][2] = Tail(s)[k][2]
    BY DEF LookedLast
  <1>2. i + 1 \in DOMAIN s /\ k + 1 \in DOMAIN s /\ Tail(s)[i] = s[i + 1]
        /\ Tail(s)[k] = s[k + 1] /\ i + 1 < k + 1 /\ i \in Nat /\ k \in Nat
    BY <1>1, TailSteps
  <1>3. PICK j \in ((i + 1) + 1) .. ((k + 1) - 1) : s[j][1] = "read" /\ s[j][2] = s[k + 1][2]
    BY <1>1, <1>2 DEF LookedLast
  <1>4. j \in DOMAIN s \ {1} /\ j - 1 \in (i + 1) .. (k - 1)
    BY <1>2, <1>3
  <1>5. Tail(s)[j - 1] = s[j]
    BY <1>4, TailSteps
  <1> QED BY <1>2, <1>3, <1>4, <1>5

\* What suits a tool suits it to the end.
LEMMA SuitsTail ==
    ASSUME NEW s \in Seq(Steps), s # <<>>, NEW tool, Suits(tool, s)
    PROVE  Suits(tool, Tail(s))
  <1>1. SUFFICES ASSUME NEW i \in DOMAIN Tail(s) PROVE Suits(tool, Tail(s))!(i)
    BY DEF Suits
  <1>2. i + 1 \in DOMAIN s /\ Tail(s)[i] = s[i + 1]
    BY TailSteps
  <1>3. \A j \in DOMAIN Tail(s) : j > i =>
           j + 1 \in DOMAIN s /\ j + 1 > i + 1 /\ Tail(s)[j] = s[j + 1]
    BY TailSteps
  <1> QED BY <1>2, <1>3 DEF Suits

\* The files written, and one more.
LEMMA WroteGrows ==
    ASSUME NEW F, NEW w \in Seq(F), NEW f \in F
    PROVE  ToSet(Append(w, f)) = ToSet(w) \cup {f}
  <1>1. /\ Append(w, f) \in Seq(F) /\ Len(Append(w, f)) = Len(w) + 1 /\ Len(w) \in Nat
        /\ \A i \in DOMAIN w : Append(w, f)[i] = w[i]
        /\ Append(w, f)[Len(w) + 1] = f
    OBVIOUS
  <1>2. DOMAIN Append(w, f) = DOMAIN w \cup {Len(w) + 1}
    BY <1>1
  <1> QED BY <1>1, <1>2 DEF ToSet

\* A step on: the head of what is left is done.
LEMMA SaneAhead ==
    ASSUME NEW c, Running(c), Sane(c), c.todo # <<>>,
           NEW d, DOMAIN d = RunFields, d.tool = c.tool, d.todo = Tail(c.todo),
           d.failed = c.failed, d.alone = c.alone,
           DOMAIN c.held \subseteq DOMAIN d.held, DOMAIN c.saved \subseteq DOMAIN d.saved,
           Head(c.todo)[1] = "read" => Head(c.todo)[2] \in DOMAIN d.held,
           Head(c.todo)[1] \in Keeps =>
              \/ Head(c.todo)[2] \in DOMAIN d.saved
              \/ Head(c.todo)[1] = "backupIf" /\ Head(c.todo)[2] \in Skipped(d),
           Spare(c) \subseteq Spare(d),
           \/ d.wrote = c.wrote
           \/ /\ d.wrote = Append(c.wrote, Head(c.todo)[2])
              /\ Head(c.todo)[1] \in Puts
              /\ Head(c.todo)[1] \in {"write", "replace"} => c.tool \notin c.held[Head(c.todo)[2]]
    PROVE  Running(d) /\ Sane(d)
  <1> DEFINE s == c.todo
             f == Head(c.todo)[2]
             do == Head(c.todo)[1]
  <1>1. s \in Seq(Steps) /\ s # <<>> /\ f \in Files /\ do \in Dos /\ d.todo = Tail(s)
        /\ Tail(s) \in Seq(Steps) /\ Head(s) = s[1] /\ 1 \in DOMAIN s
    BY HeadIn, TailSteps DEF Running, Steps
  <1>2. Running(d)
    <2>1. c.wrote \in Seq(Files) /\ c.tool \in Tools /\ c.failed \in BOOLEAN
          /\ c.alone \in BOOLEAN
      BY DEF Running
    <2>2. Append(c.wrote, f) \in Seq(Files)
      BY <1>1, <2>1
    <2>3. d.wrote \in Seq(Files)
      BY <2>1, <2>2
    <2> QED BY <1>1, <2>1, <2>3 DEF Running
  <1>12. \/ d.wrote = c.wrote
         \/ do \in Puts /\ ToSet(d.wrote) = ToSet(c.wrote) \cup {f}
    <2>1. c.wrote \in Seq(Files)
      BY DEF Running
    <2>2. ToSet(Append(c.wrote, f)) = ToSet(c.wrote) \cup {f}
      BY <1>1, <2>1, WroteGrows
    <2> QED BY <2>2
  <1>3. ToSet(d.wrote) \subseteq ToSet(c.wrote) \cup (IF do \in Puts THEN {f} ELSE {})
    BY <1>12
  <1>4. Once(d.todo) /\ KeptApart(d.todo)
    BY <1>1, NotAfterTail DEF Sane, Once, KeptApart
  <1>5. LookedLast(d.todo)
    BY <1>1, LookedTail DEF Sane
  <1>6. ReadFirst(d.todo, DOMAIN d.held)
    BY <1>1, BeforeTail DEF Sane, Reading, ReadFirst
  <1>7. CopiedFirst(d.todo, DOMAIN d.saved)
    <2>1. do = "backup" => f \in DOMAIN d.saved
      BY DEF Keeps
    <2> QED BY <1>1, <2>1, BeforeTail DEF Sane, CopiedFirst
  <1>8. ~c.failed => Suits(d.tool, d.todo)
    BY <1>1, SuitsTail DEF Sane
  <1>9. c.failed => Undoing(d)
    <2>1. SUFFICES ASSUME c.failed, NEW i \in DOMAIN d.todo PROVE Undoing(d)!(i)
      BY DEF Undoing
    <2>2. i + 1 \in DOMAIN s /\ d.todo[i] = s[i + 1]
      BY <1>1, TailSteps
    <2>3. ToSet(c.wrote) \subseteq ToSet(d.wrote)
      BY <1>12
    <2> QED BY <2>1, <2>2, <2>3 DEF Sane, Undoing
  <1>10. Backing(d)
    <2>1. SUFFICES ASSUME c.tool \notin {"route", "rollback"}
                   PROVE  /\ BackedFirst(d.todo, DOMAIN d.saved \cup Spare(d))
                          /\ ToSet(d.wrote) \subseteq Uncopied \cup DOMAIN d.saved
      BY DEF Backing
    <2>2. /\ BackedFirst(s, DOMAIN c.saved \cup Spare(c))
          /\ ToSet(c.wrote) \subseteq Uncopied \cup DOMAIN c.saved
      BY <2>1 DEF Sane, Backing
    <2>3. do \in Keeps => f \in DOMAIN d.saved \cup Spare(d)
      BY DEF Spare
    <2>4. BackedFirst(d.todo, DOMAIN d.saved \cup Spare(d))
      BY <1>1, <2>2, <2>3, BeforeTail DEF BackedFirst
    <2>5. ASSUME d.wrote # c.wrote PROVE f \in Uncopied \cup DOMAIN c.saved
      <3>1. do \in Puts /\ (do \in {"write", "replace"} => c.tool \notin c.held[f])
        BY <2>5
      <3>2. f \in Uncopied \cup (DOMAIN c.saved \cup Spare(c))
        BY <1>1, <2>2, <3>1, BeforeHead DEF BackedFirst
      <3>3. f \notin Skipped(c)
        BY <1>1, <3>1 DEF Skipped
      <3>4. c.tool = "bridge" => f # "handler"
        BY <1>1, <3>1 DEF Sane, Suits, Undoing, Puts, Writes, Always
      <3> QED BY <3>2, <3>3, <3>4 DEF Spare
    <2>6. ToSet(d.wrote) \subseteq ToSet(c.wrote) \cup (IF d.wrote = c.wrote THEN {} ELSE {f})
      BY <1>12
    <2> QED BY <2>2, <2>4, <2>5, <2>6
  <1>11. Reading(d)
    <2>1. ASSUME c.tool \in {"outbound", "tools", "doctor"}, do \in Puts
          PROVE  f \in DOMAIN c.held
      <3>1. CASE c.failed
        <4>1. f \in ToSet(c.wrote)
          BY <1>1, <2>1, <3>1 DEF Sane, Undoing, Puts, Writes, Always
        <4> QED BY <2>1, <4>1 DEF Sane, Reading
      <3>2. CASE ~c.failed
        <4>1. do \in Writes
          BY <1>1, <2>1, <3>2 DEF Sane, Suits, Writes
        <4> QED BY <1>1, <4>1, BeforeHead DEF Sane, Reading, ReadFirst
      <3> QED BY <3>1, <3>2 DEF Running
    <2>2. c.tool \in {"tools", "doctor"} => f = "config"
      BY <1>1 DEF Sane, Suits, Undoing
    <2> QED BY <1>3, <1>6, <2>1, <2>2 DEF Sane, Reading
  <1> QED BY <1>2, <1>4, <1>5, <1>7, <1>8, <1>9, <1>10, <1>11 DEF Sane

\* It is no matter to a list whether its run is alone.
LEMMA SaneAlone ==
    ASSUME NEW c, Running(c), Sane(c)
    PROVE  LET d == [c EXCEPT !.alone = FALSE] IN Running(d) /\ Sane(d)
  <1> DEFINE d == [c EXCEPT !.alone = FALSE]
  <1>1. /\ DOMAIN d = RunFields /\ d.tool = c.tool /\ d.todo = c.todo /\ d.held = c.held
        /\ d.saved = c.saved /\ d.wrote = c.wrote /\ d.failed = c.failed /\ d.alone = FALSE
    BY DEF Running, RunFields
  <1> HIDE DEF d
  <1>2. Running(d)
    BY <1>1 DEF Running
  <1>3. Skipped(d) = Skipped(c) /\ Spare(d) = Spare(c)
    BY <1>1 DEF Skipped, Spare
  <1>4. Sane(d)
    BY <1>1, <1>3 DEF Sane, Reading, Backing, Undoing
  <1> QED BY <1>2, <1>4 DEF d

\* A run begins with its whole program.
LEMMA SaneBegun ==
    ASSUME NEW c, DOMAIN c = RunFields, c.tool \in Tools, c.todo = StepsOf[c.tool],
           c.wrote = <<>>, c.failed = FALSE, c.alone \in BOOLEAN
    PROVE  Running(c) /\ Sane(c)
  <1>1. Sound(c.tool, c.todo)
    BY ProgramsSound
  <1>2. Running(c)
    <2>1. c.todo \in Seq(Steps) /\ c.wrote \in Seq(Files)
      BY <1>1 DEF Sound
    <2> QED BY <2>1, Zenon DEF Running
  <1>3. ToSet(c.wrote) = {}
    BY DEF ToSet
  <1>4. Reading(c)
    BY <1>1, <1>3 DEF Sound, Reading, ReadFirst, Before
  <1>5. Backing(c)
    BY <1>1, <1>3 DEF Sound, Backing, BackedFirst, Before
  <1>6. CopiedFirst(c.todo, DOMAIN c.saved) /\ LookedLast(c.todo)
    BY <1>1 DEF Sound, Careful, CopiedFirst, Before
  <1> QED BY <1>1, <1>2, <1>4, <1>5, <1>6 DEF Sound, Sane

\* What a catch does.
LEMMA UndoSteps ==
    ASSUME NEW c, Running(c), Sane(c), ~c.failed
    PROVE  /\ Undo(c) \in Seq(Steps)
           /\ \A i \in DOMAIN Undo(c) :
                 /\ Undo(c)[i][1] \in {"restore", "undo", "undoAnchor"}
                 /\ Undo(c)[i][1] = "restore" =>
                       /\ c.tool \in {"layout", "dashboard"} /\ Undo(c)[i][2] = "index"
                       /\ "index" \in DOMAIN c.saved
                 /\ Undo(c)[i][1] = "undo" =>
                       /\ c.tool \in {"outbound", "tools", "doctor"}
                       /\ Undo(c)[i][2] \in ToSet(c.wrote)
                 /\ Undo(c)[i][1] = "undoAnchor" => c.tool \in {"tools", "doctor"}
                 /\ c.tool \in {"tools", "doctor"} => Undo(c)[i][2] = "config"
  <1>1. c.wrote \in Seq(Files)
    BY DEF Running
  <1>2. CASE c.tool \in {"layout", "dashboard"} /\ "index" \in DOMAIN c.saved
    <2>1. Undo(c) = <<<<"restore", "index">>>>
      BY <1>2 DEF Undo, Each, Step
    <2> QED BY <1>2, <2>1, FilesKnown DEF Steps, Dos
  <1>3. CASE c.tool = "outbound"
    <2>1. Undo(c) = Each("undo", Reverse(c.wrote))
      BY <1>3 DEF Undo
    <2>2. /\ Len(c.wrote) \in Nat
          /\ Reverse(c.wrote) = [i \in 1 .. Len(c.wrote) |-> c.wrote[(Len(c.wrote) - i) + 1]]
      BY <1>1 DEF Reverse
    <2>3. \A i \in 1 .. Len(c.wrote) : c.wrote[(Len(c.wrote) - i) + 1] \in ToSet(c.wrote) \cap Files
      <3>1. \A i \in 1 .. Len(c.wrote) : (Len(c.wrote) - i) + 1 \in DOMAIN c.wrote
        BY <1>1, <2>2
      <3> QED BY <1>1, <3>1 DEF ToSet
    <2>4. Undo(c) = [i \in 1 .. Len(c.wrote) |-> <<"undo", c.wrote[(Len(c.wrote) - i) + 1]>>]
      BY <2>1, <2>2 DEF Each, Step
    <2> QED BY <1>3, <2>2, <2>3, <2>4 DEF Steps, Dos
  <1>4. CASE c.tool \in {"tools", "doctor"} /\ c.wrote # <<>>
    <2>1. Undo(c) = <<<<"undoAnchor", "config">>, <<"undo", "config">>>>
      BY <1>4 DEF Undo, InTurn, Step
    <2>2. ToSet(c.wrote) \subseteq {"config"}
      BY <1>4 DEF Sane, Reading
    <2>3. "config" \in ToSet(c.wrote)
      <3>1. c.wrote[1] \in ToSet(c.wrote)
        BY <1>1, <1>4 DEF ToSet
      <3> QED BY <2>2, <3>1
    <2> QED BY <1>4, <2>1, <2>3, FilesKnown DEF Steps, Dos
  <1>5. CASE ~(c.tool \in {"layout", "dashboard"} /\ "index" \in DOMAIN c.saved)
             /\ c.tool # "outbound" /\ ~(c.tool \in {"tools", "doctor"} /\ c.wrote # <<>>)
    BY <1>5 DEF Undo
  <1> QED BY <1>2, <1>3, <1>4, <1>5

\* The catch of a run.
LEMMA SaneFailed ==
    ASSUME NEW c, Running(c), Sane(c), ~c.failed,
           NEW d, DOMAIN d = RunFields, d.tool = c.tool, d.todo = Undo(c), d.held = c.held,
           d.saved = c.saved, d.wrote = c.wrote, d.failed = TRUE, d.alone = c.alone
    PROVE  Running(d) /\ Sane(d)
  <1> DEFINE s == Undo(c)
  <1>1. s \in Seq(Steps) /\ Undoing(d)
    BY UndoSteps DEF Undoing
  <1>2. Running(d)
    BY <1>1 DEF Running
  <1>3. \A i \in DOMAIN s : s[i][1] \in {"restore", "undo", "undoAnchor"}
    BY UndoSteps
  <1> HIDE DEF s
  <1>4. Reading(d)
    BY <1>3 DEF Sane, Reading, ReadFirst, Before, Writes, Always, s
  <1>5. Backing(d)
    <2>1. SUFFICES ASSUME d.tool \notin {"route", "rollback"}
                   PROVE  /\ BackedFirst(d.todo, DOMAIN d.saved \cup Spare(d))
                          /\ ToSet(d.wrote) \subseteq Uncopied \cup DOMAIN d.saved
      BY DEF Backing
    <2>2. ToSet(c.wrote) \subseteq Uncopied \cup DOMAIN c.saved
      BY <2>1 DEF Sane, Backing
    <2>3. \A i \in DOMAIN d.todo : d.todo[i][1] \in Puts =>
             d.todo[i][2] \in Uncopied \cup DOMAIN d.saved
      BY <1>1, <1>3, <2>2 DEF Undoing, Puts, Writes, Always, s
    <2> QED BY <2>2, <2>3 DEF BackedFirst, Before
  <1>6. Once(d.todo) /\ KeptApart(d.todo)
    BY <1>3 DEF Once, KeptApart, NotAfter, Keeps, s
  <1>7. CopiedFirst(d.todo, DOMAIN d.saved) /\ LookedLast(d.todo)
    BY <1>3 DEF CopiedFirst, LookedLast, Before, s
  <1> QED BY <1>1, <1>2, <1>4, <1>5, <1>6, <1>7 DEF Sane

\* Nothing left to do.
LEMMA SaneSpared ==
    ASSUME NEW c, Running(c), Sane(c),
           NEW d, DOMAIN d = RunFields, d.tool = c.tool, d.todo = <<>>, d.held = c.held,
           d.saved = c.saved, d.wrote = c.wrote, d.failed = c.failed, d.alone = c.alone
    PROVE  Running(d) /\ Sane(d)
  <1>1. Running(d)
    BY DEF Running
  <1>2. Reading(d)
    BY DEF Sane, Reading, ReadFirst, Before
  <1>3. Backing(d)
    BY DEF Sane, Backing, BackedFirst, Before
  <1>4. Once(d.todo) /\ KeptApart(d.todo) /\ CopiedFirst(d.todo, DOMAIN d.saved)
        /\ LookedLast(d.todo)
    BY DEF Once, KeptApart, NotAfter, CopiedFirst, LookedLast, Before
  <1>5. Undoing(d) \/ ~d.failed
    BY DEF Undoing
  <1>6. Suits(d.tool, d.todo)
    BY DEF Suits
  <1> QED BY <1>1, <1>2, <1>3, <1>4, <1>5, <1>6 DEF Sane

AllSane == \A a \in Actors : runs[a] # Rest => Sane(runs[a])

\* A file map with one more file.
LEMMA HeldWith ==
    ASSUME NEW copies, NEW f, NEW text
    PROVE  /\ DOMAIN With(copies, f, text) = DOMAIN copies \cup {f}
           /\ With(copies, f, text)[f] = text
           /\ \A g \in DOMAIN copies \ {f} : With(copies, f, text)[g] = copies[g]
  BY DEF With

\* The next step suits its tool.
LEMMA HeadSuits ==
    ASSUME NEW c, Running(c), Sane(c), c.todo # <<>>
    PROVE  /\ Head(c.todo) = c.todo[1] /\ 1 \in DOMAIN c.todo
           /\ Head(c.todo)[1] \in Dos /\ Head(c.todo)[2] \in Files
           /\ ~c.failed => Suits(c.tool, c.todo)!(1)
           /\ c.failed => Undoing(c)!(1)
  <1>1. c.todo \in Seq(Steps) /\ Head(c.todo) = c.todo[1] /\ 1 \in DOMAIN c.todo
    BY TailSteps DEF Running
  <1>2. c.todo[1] \in Steps
    BY <1>1
  <1>3. ~c.failed => Suits(c.tool, c.todo)!(1)
    BY <1>1 DEF Sane, Suits
  <1>4. c.failed => Undoing(c)!(1)
    BY <1>1 DEF Sane, Undoing
  <1> QED BY <1>1, <1>2, <1>3, <1>4 DEF Steps

\* The steps that take the head of a program leave the rest of it sane.
LEMMA SaneTurned ==
    ASSUME Shape, AllSane, NEW a \in Actors,
           Passed(a) \/ Looked(a) \/ Copied(a) \/ Put_(a) \/ Swapped(a)
    PROVE  Running(runs'[a]) /\ Sane(runs'[a])
  <1> DEFINE c == runs[a]
             d == runs'[a]
             f == File(a)
  <1>1. c # Rest /\ c.todo # <<>> /\ Running(c) /\ Sane(c)
    BY DEF Passed, Looked, Copied, Put_, Swapped, Ahead, Turn, Shape, AllSane
  <1>2. /\ DOMAIN d = RunFields /\ d.tool = c.tool /\ d.todo = Tail(c.todo)
        /\ d.failed = c.failed /\ d.alone = c.alone
    BY DEF Passed, Looked, Copied, Put_, Swapped, Ahead, Turn
  <1>3. /\ Head(c.todo)[1] = Do(a) /\ Head(c.todo)[2] = f
        /\ c.todo \in Seq(Steps) /\ f \in Files
    BY <1>1, HeadSuits DEF Do, File, Running
  <1>4. \A i \in DOMAIN d.todo : i + 1 \in DOMAIN c.todo /\ d.todo[i] = c.todo[i + 1]
    BY <1>1, <1>2, <1>3, TailSteps
  <1>5. ASSUME d.held = c.held PROVE Spare(c) \subseteq Spare(d)
    BY <1>2, <1>4, <1>5 DEF Spare, Skipped
  <1>6. CASE Passed(a)
    <2>1. d.held = c.held /\ d.saved = c.saved /\ d.wrote = c.wrote /\ Do(a) # "read"
      BY <1>6 DEF Passed, Ahead, Turn
    <2>2. Do(a) \in Keeps => Do(a) = "backupIf" /\ c.tool \in c.held[f]
      BY <1>6 DEF Passed, Keeps, Puts, Writes, Always
    <2>3. ASSUME Do(a) = "backupIf" PROVE f \in Skipped(d)
      <3>1. f \in DOMAIN c.held
        BY <1>1, <1>3, <2>3, BeforeHead DEF Sane, Reading, ReadFirst
      <3>2. \A i \in DOMAIN d.todo : d.todo[i][2] = f =>
               d.todo[i][1] \notin {"read"} \cup (Puts \ {"write", "replace"})
        <4>1. NotAfter(c.todo, {"backupIf"}, {"read"} \cup (Puts \ {"write", "replace"}), {})
          BY <1>1 DEF Sane, Once
        <4> QED BY <1>1, <1>2, <1>3, <2>3, <4>1, NotAfterTail, SMTT(40)
      <3>3. c.tool \in c.held[f]
        BY <2>2, <2>3 DEF Keeps
      <3> QED BY <1>2, <1>3, <2>1, <3>1, <3>2, <3>3 DEF Skipped
    <2> QED BY <1>1, <1>2, <1>3, <1>5, <2>1, <2>2, <2>3, SaneAhead
  <1>7. CASE Looked(a)
    <2>1. d.held = With(c.held, f, disk[f]) /\ d.saved = c.saved /\ d.wrote = c.wrote
          /\ Do(a) = "read"
      BY <1>7 DEF Looked, Ahead, Turn
    <2>6. /\ DOMAIN d.held = DOMAIN c.held \cup {f}
          /\ \A g \in DOMAIN c.held \ {f} : d.held[g] = c.held[g]
      BY <2>1 DEF With
    <2>2. f \notin Skipped(c)
      BY <1>1, <1>3, <2>1, HeadSuits DEF Skipped
    <2>3. \A g \in Skipped(c) : d.held[g] = c.held[g] /\ g \in DOMAIN d.held
      BY <2>2, <2>6 DEF Skipped
    <2>4. Spare(c) \subseteq Spare(d)
      BY <1>2, <1>4, <2>3 DEF Spare, Skipped
    <2>5. f \in DOMAIN d.held /\ DOMAIN c.held \subseteq DOMAIN d.held /\ Do(a) \notin Keeps
      BY <2>1, <2>6 DEF Keeps
    <2> QED BY <1>1, <1>2, <1>3, <2>1, <2>4, <2>5, SaneAhead
  <1>8. CASE Copied(a)
    <2> DEFINE text == IF Do(a) \in {"keep", "stale"} THEN c.held[f] ELSE disk[f]
    <2>3. d.saved = With(c.saved, f, text)
      BY <1>8 DEF Copied, Ahead, Turn
    <2> HIDE DEF text
    <2>4. DOMAIN d.saved = DOMAIN c.saved \cup {f}
      BY <2>3 DEF With
    <2>1. d.held = c.held /\ DOMAIN c.saved \subseteq DOMAIN d.saved /\ f \in DOMAIN d.saved
          /\ d.wrote = c.wrote /\ Do(a) \in Keeps \cup {"stale"}
      BY <1>8, <2>4 DEF Copied, Ahead, Turn
    <2>2. Do(a) # "read"
      BY <2>1 DEF Keeps
    <2> QED BY <1>1, <1>2, <1>3, <1>5, <2>1, <2>2, SaneAhead
  <1>9. CASE Put_(a)
    <2>1. /\ d.held = c.held /\ d.saved = c.saved /\ d.wrote = Append(c.wrote, f)
          /\ Do(a) \in Puts
          /\ Do(a) \in Writes => c.tool \notin c.held[f] \/ Do(a) \in Always
      BY <1>9 DEF Put_, Ahead, Turn
    <2>2. Do(a) \notin Keeps /\ Do(a) # "read"
          /\ (Do(a) \in {"write", "replace"} => c.tool \notin c.held[f])
      BY <2>1 DEF Puts, Writes, Always, Keeps
    <2> QED BY <1>1, <1>2, <1>3, <1>5, <2>1, <2>2, SaneAhead
  <1>10. CASE Swapped(a)
    <2>1. /\ d.held = c.held \/ d.held = With(c.held, f, disk[f])
          /\ d.saved = c.saved /\ d.wrote = c.wrote /\ Do(a) = "swap"
      BY <1>10 DEF Swapped, Ahead, Turn
    <2>2. c.tool = "bridge" /\ f = "handler"
      BY <1>1, <1>3, <2>1, HeadSuits DEF Running
    <2>6. /\ DOMAIN c.held \subseteq DOMAIN d.held
          /\ \A g \in DOMAIN c.held \ {f} : d.held[g] = c.held[g]
      <3>1. CASE d.held = c.held
        BY <3>1
      <3>2. CASE d.held = With(c.held, f, disk[f])
        <4>1. /\ DOMAIN d.held = DOMAIN c.held \cup {f}
              /\ \A g \in DOMAIN c.held \ {f} : d.held[g] = c.held[g]
          BY <3>2 DEF With
        <4> QED BY <4>1
      <3> QED BY <2>1, <3>1, <3>2
    <2>3. \A g \in Skipped(c) \ {f} : d.held[g] = c.held[g] /\ g \in DOMAIN d.held
      BY <2>6 DEF Skipped
    <2>4. Spare(c) \subseteq Spare(d)
      BY <1>2, <1>4, <2>2, <2>3 DEF Spare, Skipped
    <2>5. DOMAIN c.held \subseteq DOMAIN d.held /\ Do(a) \notin Keeps /\ Do(a) # "read"
      BY <2>1, <2>6 DEF Keeps
    <2> QED BY <1>1, <1>2, <1>3, <2>1, <2>4, <2>5, SaneAhead
  <1> QED BY <1>6, <1>7, <1>8, <1>9, <1>10

\* What a record of a run keeps for good; only the text taken over may grow.
Kept(r, s) ==
    /\ DOMAIN s = EndFields
    /\ s.tool = r.tool /\ s.outcome = r.outcome /\ s.saved = r.saved /\ s.start = r.start
    /\ s.wrote = r.wrote /\ s.alone = r.alone /\ s.changed = r.changed

Recorded ==
    /\ evidence \in Seq(ToSet(evidence))
    /\ \A i \in DOMAIN evidence : DOMAIN evidence[i] = EndFields

\* A file that is taken over is noted in every record.
LEMMA RecordsOver ==
    ASSUME Recorded, NEW f, Overwritten(f)
    PROVE  /\ Recorded' /\ DOMAIN evidence' = DOMAIN evidence
           /\ \A i \in DOMAIN evidence : Kept(evidence[i], evidence'[i])
                                         /\ evidence'[i].over = evidence[i].over \cup {f}
  <1>1. DOMAIN evidence = 1 .. Len(evidence) /\ Len(evidence) \in Nat
    BY DEF Recorded
  <1>2. /\ DOMAIN evidence' = DOMAIN evidence
        /\ \A i \in DOMAIN evidence :
              evidence'[i] = [evidence[i] EXCEPT !.over = evidence[i].over \cup {f}]
    BY DEF Overwritten
  <1>3. \A i \in DOMAIN evidence : Kept(evidence[i], evidence'[i])
                                   /\ evidence'[i].over = evidence[i].over \cup {f}
    BY <1>2 DEF Kept, Recorded, EndFields
  <1>4. evidence' \in Seq(ToSet(evidence'))
    <2>1. evidence' = [i \in 1 .. Len(evidence) |->
                          [evidence[i] EXCEPT !.over = evidence[i].over \cup {f}]]
      BY <1>1 DEF Overwritten
    <2>2. \A i \in 1 .. Len(evidence) : evidence'[i] \in ToSet(evidence')
      BY <1>1, <1>2 DEF ToSet
    <2> QED BY <1>1, <2>1, <2>2
  <1> QED BY <1>2, <1>3, <1>4 DEF Recorded, Kept

\* One more record leaves the others as they are.
LEMMA RecordsMore ==
    ASSUME Recorded, NEW r, DOMAIN r = EndFields, evidence' = Append(evidence, r)
    PROVE  /\ Recorded' /\ DOMAIN evidence' = DOMAIN evidence \cup {Len(evidence) + 1}
           /\ evidence'[Len(evidence) + 1] = r
           /\ \A i \in DOMAIN evidence : evidence'[i] = evidence[i] /\ Kept(evidence[i], evidence'[i])
  <1> DEFINE S == ToSet(evidence) \cup {r}
  <1>1. evidence \in Seq(S) /\ r \in S
    BY DEF Recorded
  <1> HIDE DEF S
  <1>2. /\ evidence' \in Seq(S) /\ Len(evidence') = Len(evidence) + 1 /\ Len(evidence) \in Nat
        /\ evidence'[Len(evidence) + 1] = r
        /\ \A i \in DOMAIN evidence : evidence'[i] = evidence[i]
        /\ DOMAIN evidence = 1 .. Len(evidence)
    BY <1>1
  <1>3. DOMAIN evidence' = DOMAIN evidence \cup {Len(evidence) + 1}
    BY <1>2
  <1>4. evidence' \in Seq(ToSet(evidence'))
    BY <1>2 DEF ToSet
  <1>5. \A i \in DOMAIN evidence' : DOMAIN evidence'[i] = EndFields
    BY <1>2, <1>3 DEF Recorded
  <1> QED BY <1>2, <1>3, <1>4, <1>5 DEF Recorded, Kept

\* The ways in which the records change.
LEMMA RecordsStep ==
    ASSUME Shape, NEW a \in Actors, UserWrites \/ Effect(a)
    PROVE  /\ Recorded' /\ DOMAIN evidence \subseteq DOMAIN evidence'
           /\ \A i \in DOMAIN evidence :
                 /\ Kept(evidence[i], evidence'[i])
                 /\ evidence[i].over \subseteq evidence'[i].over
  <1>1. Recorded
    BY DEF Shape, Recorded
  <1>2. CASE UNCHANGED evidence
    BY <1>1, <1>2 DEF Recorded, Kept
  <1>3. CASE Overwritten(File(a))
    BY <1>1, <1>3, RecordsOver
  <1>4. CASE \E r : DOMAIN r = EndFields /\ evidence' = Append(evidence, r)
    BY <1>1, <1>4, RecordsMore
  <1>5. ASSUME NEW content, NEW outcome, NEW wrote, NEW changed
        PROVE  DOMAIN Outcome(runs[a], content, outcome, wrote, changed) = EndFields
    BY DEF Outcome, EndFields
  <1>6. Ended(a) \/ TornEnd(a) => \E r : DOMAIN r = EndFields /\ evidence' = Append(evidence, r)
    BY <1>5 DEF Ended, TornEnd
  <1>7. Put_(a) \/ Swapped(a) => UNCHANGED evidence \/ Overwritten(File(a))
    BY DEF Put_, Swapped
  <1>8. UserWrites \/ Passed(a) \/ Looked(a) \/ Copied(a) \/ Failed(a) \/ Spared(a) \/ Begun(a)
        => UNCHANGED evidence
    BY DEF UserWrites, Passed, Looked, Copied, Failed, Spared, Begun
  <1> QED BY <1>2, <1>3, <1>4, <1>6, <1>7, <1>8 DEF Effect

\* The runs of the other shells: they may be no longer alone.
LEMMA OthersStep ==
    ASSUME Shape, NEW a \in Actors, Effect(a), NEW b \in Actors \ {a}
    PROVE  \/ runs'[b] = runs[b]
           \/ Begun(a) /\ runs[b] # Rest /\ runs'[b] = [runs[b] EXCEPT !.alone = FALSE]
  BY DEF Effect, Passed, Looked, Copied, Put_, Swapped, Failed, Spared, Ended, TornEnd, Begun,
         Ahead, Turn, Gone

\* The run that moves stays sane.
LEMMA OwnSane ==
    ASSUME Shape, AllSane, NEW a \in Actors, Effect(a)
    PROVE  runs'[a] = Rest \/ (Running(runs'[a]) /\ Sane(runs'[a]))
  <1>1. CASE Passed(a) \/ Looked(a) \/ Copied(a) \/ Put_(a) \/ Swapped(a)
    BY <1>1, SaneTurned
  <1>2. CASE Failed(a)
    <2>1. Running(runs[a]) /\ Sane(runs[a])
      BY <1>2 DEF Failed, Turn, Shape, AllSane
    <2> QED BY <1>2, <2>1, SaneFailed DEF Failed, Turn
  <1>3. CASE Spared(a)
    <2>1. Running(runs[a]) /\ Sane(runs[a])
      BY <1>3 DEF Spared, Turn, Shape, AllSane
    <2> QED BY <1>3, <2>1, SaneSpared DEF Spared, Turn
  <1>4. CASE Ended(a) \/ TornEnd(a)
    BY <1>4 DEF Ended, TornEnd, Gone
  <1>5. CASE Begun(a)
    BY <1>5, SaneBegun DEF Begun
  <1> QED BY <1>1, <1>2, <1>3, <1>4, <1>5 DEF Effect

\* No file comes or goes.
LEMMA DiskDomain ==
    ASSUME Shape, NEW a \in Actors, UserWrites \/ Effect(a)
    PROVE  DOMAIN disk' = Files
  BY DEF Shape, UserWrites, Effect, Passed, Looked, Copied, Put_, Swapped, Failed, Spared,
         Ended, TornEnd, Begun

\* Shape and sanity are inductive.
LEMMA ShapeStep ==
    ASSUME Shape, AllSane, PatchesNext
    PROVE  (Shape /\ AllSane)'
  <1>1. CASE UserWrites
    <2>1. CASE Actors = {}
      BY <1>1, <2>1 DEF Shape, AllSane, UserWrites
    <2>2. CASE Actors # {}
      BY <1>1, <2>2, RecordsStep, DiskDomain DEF Shape, AllSane, UserWrites, Recorded
    <2> QED BY <2>1, <2>2
  <1>2. ASSUME NEW a \in Actors, Effect(a) PROVE (Shape /\ AllSane)'
    <2>1. ASSUME NEW b \in Actors
          PROVE  runs'[b] = Rest \/ (Running(runs'[b]) /\ Sane(runs'[b]))
      <3>1. CASE b = a
        BY <1>2, <3>1, OwnSane
      <3>2. CASE b # a /\ runs'[b] = runs[b]
        BY <3>2 DEF Shape, AllSane
      <3>3. CASE runs[b] # Rest /\ runs'[b] = [runs[b] EXCEPT !.alone = FALSE]
        BY <3>3, SaneAlone DEF Shape, AllSane
      <3> QED BY <1>2, <3>1, <3>2, <3>3, OthersStep
    <2>2. DOMAIN runs' = Actors
      BY <1>2 DEF Effect, Passed, Looked, Copied, Put_, Swapped, Failed, Spared, Ended,
         TornEnd, Begun, Ahead, Turn, Gone
    <2> QED BY <1>2, <2>1, <2>2, RecordsStep, DiskDomain DEF Shape, AllSane, Recorded
  <1> QED BY <1>1, <1>2, StepEffects

\* At the start nothing runs.
LEMMA ShapeInit ==
    ASSUME NEW events, PatchesInit(events)
    PROVE  Shape /\ AllSane
  <1>1. evidence = <<>> /\ ToSet(evidence) = {}
    BY DEF PatchesInit, ToSet
  <1> QED BY <1>1 DEF PatchesInit, Shape, AllSane

(***************************************************************************)
(* Copies and undoing of a run that no other overlapped.                        *)
(***************************************************************************)

\* The files a tool patches are in its list.
LEMMA PatchedSteps ==
    ASSUME NEW tool \in Tools
    PROVE  /\ \A f \in PatchedBy(tool) : \E i \in DOMAIN StepsOf[tool] :
                 StepsOf[tool][i][1] \in Writes /\ StepsOf[tool][i][2] = f
           /\ PatchedBy(tool) \subseteq Files
           /\ Suits(tool, StepsOf[tool])
  <1>1. StepsOf[tool] \in Seq(Steps) /\ Suits(tool, StepsOf[tool])
    BY ProgramsSound DEF Sound
  <1>2. ASSUME NEW f \in PatchedBy(tool)
        PROVE  \E i \in DOMAIN StepsOf[tool] :
                 StepsOf[tool][i][1] \in Writes /\ StepsOf[tool][i][2] = f
    <2>1. PICK s \in ToSet(StepsOf[tool]) : s[1] \in Writes /\ s[2] = f
      BY DEF PatchedBy, FilesOf, Writes
    <2>2. PICK i \in DOMAIN StepsOf[tool] : StepsOf[tool][i] = s
      BY DEF ToSet
    <2> QED BY <2>1, <2>2
  <1>3. \A i \in DOMAIN StepsOf[tool] : StepsOf[tool][i][2] \in Files
    <2>1. \A i \in DOMAIN StepsOf[tool] : StepsOf[tool][i] \in Steps
      BY <1>1
    <2> QED BY <2>1 DEF Steps
  <1> QED BY <1>1, <1>2, <1>3

OnlyRun ==
    \A a \in Actors : runs[a] # Rest /\ runs[a].alone =>
        \A b \in Actors \ {a} : runs[b] = Rest

\* The chunk that the bridge swaps, and writes in no other way.
Chunk(c) == IF c.tool = "bridge" THEN {"handler"} ELSE {}

\* What a run wrote it does not read again, and does not copy but in the state home.
NoneAgain(c) ==
    /\ ToSet(c.wrote) \cap Chunk(c) = {}
    /\ \A i \in DOMAIN c.todo : c.todo[i][2] \in ToSet(c.wrote) =>
          /\ c.todo[i][1] # "read"
          /\ c.todo[i][1] \in Keeps => c.todo[i][2] \in UserFiles

\* A run without company finds what it did not write as it was, and copied it so.
Restorable(c, text) ==
    c.alone /\ c.tool \notin {"route", "rollback"} =>
        \A f \in Files \ (Uncopied \cup Chunk(c)) :
            /\ f \notin ToSet(c.wrote) => text[f] = c.start[f]
            /\ f \in DOMAIN c.saved => c.saved[f] = c.start[f]

Undoable(c, text) ==
    c.alone =>
        /\ c.tool = "outbound" =>
              \A f \in DOMAIN c.held \ Uncopied : c.held[f] = c.start[f]
        /\ c.failed /\ c.tool \in {"layout", "dashboard"} =>
              \/ text["index"] = c.start["index"]
              \/ \E i \in DOMAIN c.todo : c.todo[i] = <<"restore", "index">>
        /\ c.failed /\ c.tool = "outbound" =>
              \A f \in ToSet(c.wrote) \ Uncopied :
                  \/ text[f] = c.start[f]
                  \/ \E i \in DOMAIN c.todo : c.todo[i] = <<"undo", f>>

Same(text, before) == Plain(text) = Plain(before)

\* A run without company that repairs the configuration, or patches the outbound
\* boundary: its files are as they were, but for what the user wrote, or it has
\* still to put them back, or to patch them.
Tended(c, text) ==
    c.alone =>
        /\ c.tool \in {"tools", "doctor"} =>
              /\ "config" \in DOMAIN c.held => Same(c.held["config"], c.start["config"])
              /\ "config" \notin ToSet(c.wrote) => Same(text["config"], c.start["config"])
              /\ c.failed => \/ Same(text["config"], c.start["config"])
                             \/ \E i \in DOMAIN c.todo : c.todo[i] = <<"undo", "config">>
        /\ c.tool = "outbound" /\ ~c.failed => \A f \in PatchedBy("outbound") :
              \/ \E i \in DOMAIN c.todo : c.todo[i][1] \in Writes /\ c.todo[i][2] = f
              \/ "outbound" \in text[f] \/ "outbound" \in c.start[f]

Restoring ==
    /\ OnlyRun
    /\ \A a \in Actors : runs[a] # Rest =>
          /\ NoneAgain(runs[a]) /\ Restorable(runs[a], disk)
          /\ Undoable(runs[a], disk) /\ Tended(runs[a], disk)

\* A run is alone until another begins.
LEMMA OnlyRunStep ==
    ASSUME Shape, OnlyRun, NEW a \in Actors, Effect(a)
    PROVE  OnlyRun'
  <1>1. DOMAIN runs' = Actors
    BY DEF Effect, Passed, Looked, Copied, Put_, Swapped, Failed, Spared, Ended,
           TornEnd, Begun, Ahead, Turn, Gone
  <1>2. CASE Begun(a)
    <2>1. ASSUME NEW b \in Actors, runs'[b] # Rest, runs'[b].alone, NEW e \in Actors \ {b}
          PROVE  runs'[e] = Rest
      <3>1. b = a
        <4>1. SUFFICES ASSUME b # a PROVE FALSE
          OBVIOUS
        <4>2. runs[b] # Rest /\ runs'[b] = [runs[b] EXCEPT !.alone = FALSE]
          BY <1>2, <2>1, <4>1 DEF Begun
        <4>3. DOMAIN runs[b] = RunFields
          BY <4>2, RunFacts
        <4> QED BY <2>1, <4>2, <4>3 DEF RunFields
      <3> QED BY <1>2, <2>1, <3>1 DEF Begun
    <2> QED BY <2>1 DEF OnlyRun
  <1>3. CASE runs[a] # Rest /\ ~Begun(a)
    <2>1. \A b \in Actors \ {a} : runs'[b] = runs[b]
      BY <1>3, OthersStep
    <2>2. runs'[a] = Rest \/ runs'[a].alone = runs[a].alone
      BY <1>3 DEF Effect, Passed, Looked, Copied, Put_, Swapped, Failed, Spared, Ended,
             TornEnd, Ahead, Turn, Gone
    <2> QED BY <1>3, <2>1, <2>2 DEF OnlyRun
  <1>4. ~Begun(a) => runs[a] # Rest
    BY DEF Effect, Passed, Looked, Copied, Put_, Swapped, Failed, Spared, Ended,
           TornEnd, Ahead, Turn, Gone
  <1> QED BY <1>2, <1>3, <1>4 DEF Begun

\* What the head of a program changes in its own run.
LEMMA TurnFacts ==
    ASSUME Shape, AllSane, NEW a \in Actors,
           Passed(a) \/ Looked(a) \/ Copied(a) \/ Put_(a) \/ Swapped(a)
    PROVE  LET c == runs[a]
               d == runs'[a]
           IN  /\ c # Rest /\ c.todo # <<>> /\ Running(c) /\ Sane(c)
               /\ c.todo \in Seq(Steps) /\ c.todo[1] = Head(c.todo) /\ 1 \in DOMAIN c.todo
               /\ Head(c.todo) = <<Do(a), File(a)>>
               /\ Do(a) \in Dos /\ File(a) \in Files
               /\ DOMAIN d = RunFields /\ d.tool = c.tool /\ d.todo = Tail(c.todo)
               /\ d.failed = c.failed /\ d.alone = c.alone /\ d.start = c.start
               /\ \A i \in DOMAIN d.todo : i + 1 \in DOMAIN c.todo /\ d.todo[i] = c.todo[i + 1]
               /\ \A i \in DOMAIN c.todo : i # 1 =>
                     i - 1 \in DOMAIN d.todo /\ d.todo[i - 1] = c.todo[i]
               /\ ToSet(d.wrote) = ToSet(c.wrote) \cup (IF Put_(a) THEN {File(a)} ELSE {})
               /\ ~c.failed => Suits(c.tool, c.todo)!(1)
               /\ c.failed => Undoing(c)!(1)
  <1> DEFINE c == runs[a]
             d == runs'[a]
  <1>1. c # Rest /\ c.todo # <<>> /\ Running(c) /\ Sane(c)
    BY DEF Passed, Looked, Copied, Put_, Swapped, Ahead, Turn, Shape, AllSane
  <1>2. /\ DOMAIN d = RunFields /\ d.tool = c.tool /\ d.todo = Tail(c.todo)
        /\ d.failed = c.failed /\ d.alone = c.alone /\ d.start = c.start
    BY DEF Passed, Looked, Copied, Put_, Swapped, Ahead, Turn
  <1>3. /\ Head(c.todo)[1] = Do(a) /\ Head(c.todo)[2] = File(a)
        /\ c.todo \in Seq(Steps) /\ File(a) \in Files /\ Do(a) \in Dos
        /\ c.todo[1] = Head(c.todo) /\ 1 \in DOMAIN c.todo
    BY <1>1, HeadSuits DEF Do, File, Running
  <1>4. Head(c.todo) = <<Do(a), File(a)>>
    <2>1. Head(c.todo) \in Steps
      BY <1>1, <1>3
    <2> QED BY <1>3, <2>1 DEF Steps
  <1>5. /\ \A i \in DOMAIN d.todo : i + 1 \in DOMAIN c.todo /\ d.todo[i] = c.todo[i + 1]
        /\ \A i \in DOMAIN c.todo : i # 1 => i - 1 \in DOMAIN d.todo /\ d.todo[i - 1] = c.todo[i]
    BY <1>1, <1>2, <1>3, TailSteps
  <1>6. ToSet(d.wrote) = ToSet(c.wrote) \cup (IF Put_(a) THEN {File(a)} ELSE {})
    <2>1. CASE Put_(a)
      <3>1. d.wrote = Append(c.wrote, File(a)) /\ c.wrote \in Seq(Files)
        BY <1>1, <2>1 DEF Put_, Ahead, Turn, Running
      <3>2. ToSet(d.wrote) = ToSet(c.wrote) \cup {File(a)}
        BY <1>3, <3>1, WroteGrows
      <3> QED BY <2>1, <3>2
    <2>2. CASE ~Put_(a)
      BY <2>2 DEF Passed, Looked, Copied, Swapped, Ahead, Turn
    <2> QED BY <2>1, <2>2
  <1> QED BY <1>1, <1>2, <1>3, <1>4, <1>5, <1>6, HeadSuits

\* The copies a run has made stay the ones it has made.
LEMMA NoneAgainTurned ==
    ASSUME Shape, AllSane, NEW a \in Actors, NoneAgain(runs[a]),
           Passed(a) \/ Looked(a) \/ Copied(a) \/ Put_(a) \/ Swapped(a)
    PROVE  NoneAgain(runs'[a])
  <1> DEFINE c == runs[a]
             d == runs'[a]
             f == File(a)
  <1>1. /\ Running(c) /\ Sane(c) /\ c.todo # <<>> /\ c.todo \in Seq(Steps)
        /\ Head(c.todo) = <<Do(a), f>>
        /\ d.tool = c.tool /\ d.todo = Tail(c.todo)
        /\ \A i \in DOMAIN d.todo : i + 1 \in DOMAIN c.todo /\ d.todo[i] = c.todo[i + 1]
        /\ ToSet(d.wrote) = ToSet(c.wrote) \cup (IF Put_(a) THEN {f} ELSE {})
    BY TurnFacts
  <1>2. Put_(a) => Do(a) \in Puts
    BY DEF Put_
  <1>3. Put_(a) => f \notin Chunk(c)
    <2>1. ~c.failed => Suits(c.tool, c.todo)!(1)
      BY TurnFacts
    <2>2. c.failed => Undoing(c)!(1)
      BY TurnFacts
    <2>3. c.todo[1] = <<Do(a), f>> /\ c.failed \in BOOLEAN
      BY TurnFacts DEF Running
    <2> QED BY <1>2, <2>1, <2>2, <2>3 DEF Chunk
  <1>4. ASSUME NEW i \in DOMAIN d.todo, d.todo[i][2] \in ToSet(c.wrote)
        PROVE  d.todo[i][1] # "read" /\ (d.todo[i][1] \in Keeps => d.todo[i][2] \in UserFiles)
    BY <1>1, <1>4 DEF NoneAgain
  <1>5. ASSUME NEW i \in DOMAIN d.todo, d.todo[i][2] = f, Put_(a)
        PROVE  d.todo[i][1] # "read" /\ (d.todo[i][1] \in Keeps => d.todo[i][2] \in UserFiles)
    <2>1. Head(c.todo)[1] \in Puts /\ Head(c.todo)[2] = f
      BY <1>1, <1>2, <1>5
    <2>2. NotAfter(c.todo, Puts, Keeps, UserFiles) /\ NotAfter(c.todo, Puts, {"read"}, {})
      BY <1>1 DEF Sane, Once
    <2>3. d.todo[i][1] \in Keeps => f \in UserFiles
      BY <1>1, <1>5, <2>1, <2>2, NotAfterTail
    <2>4. d.todo[i][1] \in {"read"} => f \in {}
      BY <1>1, <1>5, <2>1, <2>2, NotAfterTail
    <2> QED BY <1>5, <2>3, <2>4
  <1>6. ToSet(d.wrote) \cap Chunk(d) = {}
    BY <1>1, <1>3 DEF NoneAgain, Chunk
  <1> QED BY <1>1, <1>4, <1>5, <1>6 DEF NoneAgain

\* What is on disk and not written yet is what the run began with.
LEMMA RestorableTurned ==
    ASSUME Shape, AllSane, NEW a \in Actors, NoneAgain(runs[a]), Restorable(runs[a], disk),
           Passed(a) \/ Looked(a) \/ Copied(a) \/ Put_(a) \/ Swapped(a)
    PROVE  Restorable(runs'[a], disk')
  <1> DEFINE c == runs[a]
             d == runs'[a]
             g == File(a)
  <1>1. /\ c.todo[1] = <<Do(a), g>> /\ 1 \in DOMAIN c.todo /\ c.failed \in BOOLEAN
        /\ d.tool = c.tool /\ d.start = c.start /\ d.alone = c.alone /\ g \in Files
        /\ ToSet(d.wrote) = ToSet(c.wrote) \cup (IF Put_(a) THEN {g} ELSE {})
        /\ ~c.failed => Suits(c.tool, c.todo)!(1)
        /\ c.failed => Undoing(c)!(1)
    BY TurnFacts DEF Running
  <1>2. SUFFICES ASSUME c.alone, c.tool \notin {"route", "rollback"},
                        NEW f \in Files \ (Uncopied \cup Chunk(c))
                 PROVE  /\ f \notin ToSet(d.wrote) => disk'[f] = c.start[f]
                        /\ f \in DOMAIN d.saved => d.saved[f] = c.start[f]
    BY <1>1 DEF Restorable, Chunk
  <1>3. /\ f \notin ToSet(c.wrote) => disk[f] = c.start[f]
        /\ f \in DOMAIN c.saved => c.saved[f] = c.start[f]
    BY <1>2 DEF Restorable
  <1>4. f \notin ToSet(d.wrote) => disk'[f] = disk[f]
    <2>1. CASE Put_(a)
      BY <1>1, <2>1 DEF Put_, Shape
    <2>2. CASE Swapped(a)
      <3>1. c.tool = "bridge" /\ g = "handler" /\ disk' = [disk EXCEPT ![g] = {"lab"}]
        BY <1>1, <2>2 DEF Swapped
      <3> QED BY <1>2, <3>1 DEF Chunk
    <2>3. CASE Passed(a) \/ Looked(a) \/ Copied(a)
      BY <2>3 DEF Passed, Looked, Copied
    <2> QED BY <2>1, <2>2, <2>3
  <1>5. CASE ~Copied(a)
    <2>1. d.saved = c.saved
      BY <1>5 DEF Passed, Looked, Put_, Swapped, Ahead, Turn
    <2> QED BY <1>1, <1>3, <1>4, <2>1
  <1>6. CASE Copied(a)
    <2> DEFINE text == IF Do(a) \in {"keep", "stale"} THEN c.held[g] ELSE disk[g]
    <2>1. d.saved = With(c.saved, g, text)
      BY <1>6 DEF Copied, Ahead, Turn
    <2> HIDE DEF text
    <2>2. /\ DOMAIN d.saved = DOMAIN c.saved \cup {g} /\ d.saved[g] = text
          /\ \A e \in DOMAIN c.saved \ {g} : d.saved[e] = c.saved[e]
      BY <2>1 DEF With
    <2>3. CASE f # g
      BY <1>1, <1>3, <1>4, <2>2, <2>3
    <2>4. CASE f = g
      <3>1. Do(a) \in Keeps \cup {"stale"}
        BY <1>6 DEF Copied
      <3>2. Do(a) # "stale" /\ Do(a) # "keep"
        <4>1. f \notin UserFiles /\ f \notin Chunk(c)
          BY <1>2 DEF Uncopied
        <4> QED BY <1>1, <2>4, <4>1 DEF Chunk
      <3>3. f \notin ToSet(c.wrote)
        BY <1>1, <1>2, <2>4, <3>1, <3>2 DEF NoneAgain, Keeps, Uncopied
      <3>4. text = disk[f]
        BY <2>4, <3>2 DEF text
      <3> QED BY <1>3, <1>4, <1>1, <2>2, <2>4, <3>3, <3>4
    <2> QED BY <2>3, <2>4
  <1> QED BY <1>5, <1>6

\* What a run has written it can put back.
LEMMA UndoableTurned ==
    ASSUME Shape, AllSane, NEW a \in Actors, NoneAgain(runs[a]), Restorable(runs[a], disk),
           Undoable(runs[a], disk),
           Passed(a) \/ Looked(a) \/ Copied(a) \/ Put_(a) \/ Swapped(a)
    PROVE  Undoable(runs'[a], disk')
  <1> DEFINE c == runs[a]
             d == runs'[a]
             g == File(a)
  <1>1. /\ c.todo[1] = <<Do(a), g>> /\ 1 \in DOMAIN c.todo /\ c.failed \in BOOLEAN
        /\ d.tool = c.tool /\ d.start = c.start /\ d.alone = c.alone /\ d.failed = c.failed
        /\ g \in Files
        /\ ToSet(d.wrote) = ToSet(c.wrote) \cup (IF Put_(a) THEN {g} ELSE {})
        /\ ~c.failed => Suits(c.tool, c.todo)!(1)
        /\ c.failed => Undoing(c)!(1)
        /\ \A i \in DOMAIN c.todo : i # 1 => i - 1 \in DOMAIN d.todo /\ d.todo[i - 1] = c.todo[i]
    BY TurnFacts DEF Running
  <1>2. SUFFICES ASSUME c.alone PROVE Undoable(d, disk')!2
    BY <1>1 DEF Undoable
  <1>3. ASSUME c.tool = "outbound", NEW f \in DOMAIN d.held \ Uncopied
        PROVE  d.held[f] = d.start[f]
    <2>1. CASE Looked(a)
      <3>1. /\ DOMAIN d.held = DOMAIN c.held \cup {g} /\ d.held[g] = disk[g]
            /\ \A e \in DOMAIN c.held \ {g} : d.held[e] = c.held[e]
        <4>1. d.held = With(c.held, g, disk[g])
          BY <2>1 DEF Looked, Ahead, Turn
        <4> QED BY <4>1 DEF With
      <3>2. CASE f = g
        <4>1. g \notin ToSet(c.wrote)
          BY <1>1, <2>1 DEF Looked, NoneAgain
        <4>2. disk[g] = c.start[g]
          BY <1>1, <1>2, <1>3, <3>2, <4>1 DEF Restorable, Chunk
        <4> QED BY <1>1, <3>1, <3>2, <4>2
      <3>3. CASE f # g
        BY <1>1, <1>2, <1>3, <3>1, <3>3 DEF Undoable
      <3> QED BY <3>2, <3>3
    <2>2. CASE Passed(a) \/ Copied(a) \/ Put_(a)
      <3>1. d.held = c.held
        BY <2>2 DEF Passed, Copied, Put_, Ahead, Turn
      <3> QED BY <1>1, <1>2, <1>3, <3>1 DEF Undoable
    <2>3. ~Swapped(a)
      BY <1>1, <1>3 DEF Swapped
    <2> QED BY <2>1, <2>2, <2>3
  <1>4. ASSUME c.failed
        PROVE  /\ Put_(a) \/ UNCHANGED disk
               /\ Put_(a) => Do(a) \in {"restore", "undo"}
    BY <1>1, <1>4 DEF Passed, Looked, Copied, Put_, Swapped, Puts, Writes, Always
  <1>5. ASSUME c.failed, c.tool \in {"layout", "dashboard"}
        PROVE  \/ disk'["index"] = d.start["index"]
               \/ \E i \in DOMAIN d.todo : d.todo[i] = <<"restore", "index">>
    <2>1. CASE Put_(a)
      <3>1. Do(a) = "restore" /\ g = "index" /\ "index" \in DOMAIN c.saved
        BY <1>1, <1>4, <1>5, <2>1
      <3>2. c.saved["index"] = c.start["index"]
        <4>1. "index" \in Files \ (Uncopied \cup Chunk(c))
          BY <1>5, FilesKnown DEF Uncopied, UserFiles, Chunk
        <4> QED BY <1>2, <1>5, <3>1, <4>1 DEF Restorable
      <3>3. Content(a) = c.saved["index"]
        BY <3>1 DEF Content, Writes, Always
      <3>4. disk' = [disk EXCEPT ![g] = Content(a)]
        BY <2>1 DEF Put_
      <3> QED BY <1>1, <3>1, <3>2, <3>3, <3>4 DEF Shape
    <2>2. CASE ~Put_(a)
      <3>1. UNCHANGED disk
        BY <1>4, <1>5, <2>2
      <3>2. CASE disk["index"] = c.start["index"]
        BY <1>1, <3>1, <3>2
      <3>3. CASE \E i \in DOMAIN c.todo : c.todo[i] = <<"restore", "index">>
        <4>1. PICK i \in DOMAIN c.todo : c.todo[i] = <<"restore", "index">>
          BY <3>3
        <4>2. i # 1
          BY <1>1, <2>2, <4>1 DEF Passed, Looked, Copied, Swapped, Puts, Keeps
        <4> QED BY <1>1, <4>1, <4>2
      <3> QED BY <1>2, <1>5, <3>2, <3>3 DEF Undoable
    <2> QED BY <2>1, <2>2
  <1>6. ASSUME c.failed, c.tool = "outbound", NEW f \in ToSet(d.wrote) \ Uncopied
        PROVE  \/ disk'[f] = d.start[f]
               \/ \E i \in DOMAIN d.todo : d.todo[i] = <<"undo", f>>
    <2>1. Put_(a) => Do(a) = "undo" /\ g \in ToSet(c.wrote)
      BY <1>1, <1>4, <1>6
    <2>2. f \in ToSet(c.wrote)
      BY <1>1, <1>6, <2>1
    <2>3. CASE Put_(a) /\ f = g
      <3>1. Content(a) = c.held[f]
        BY <2>1, <2>3 DEF Content, Writes, Always
      <3>2. f \in DOMAIN c.held
        BY <1>6, <2>2, TurnFacts DEF Sane, Reading
      <3>3. c.held[f] = c.start[f]
        BY <1>2, <1>6, <3>2 DEF Undoable
      <3>4. disk' = [disk EXCEPT ![g] = Content(a)]
        BY <2>3 DEF Put_
      <3> QED BY <1>1, <2>3, <3>1, <3>3, <3>4 DEF Shape
    <2>4. CASE ~(Put_(a) /\ f = g)
      <3>4. f \in Files
        <4>1. c.wrote \in Seq(Files)
          BY TurnFacts DEF Running
        <4> QED BY <2>2, <4>1 DEF ToSet
      <3>1. disk'[f] = disk[f]
        <4>1. CASE Put_(a)
          <5>1. disk' = [disk EXCEPT ![g] = Content(a)] /\ f # g
            BY <2>4, <4>1 DEF Put_
          <5> QED BY <3>4, <5>1 DEF Shape
        <4>2. CASE ~Put_(a)
          BY <1>4, <1>6, <4>2
        <4> QED BY <4>1, <4>2
      <3>2. CASE disk[f] = c.start[f]
        BY <1>1, <3>1, <3>2
      <3>3. CASE \E i \in DOMAIN c.todo : c.todo[i] = <<"undo", f>>
        <4>1. PICK i \in DOMAIN c.todo : c.todo[i] = <<"undo", f>>
          BY <3>3
        <4>2. i # 1
          BY <1>1, <2>4, <4>1 DEF Passed, Looked, Copied, Put_, Swapped, Puts, Keeps
        <4> QED BY <1>1, <4>1, <4>2
      <3> QED BY <1>2, <1>6, <2>2, <3>2, <3>3 DEF Undoable
    <2> QED BY <2>3, <2>4
  <1> QED BY <1>1, <1>3, <1>5, <1>6

\* The configuration is put back, and the outbound boundary patched.
LEMMA TendedTurned ==
    ASSUME Shape, AllSane, NEW a \in Actors, NoneAgain(runs[a]), Undoable(runs[a], disk),
           Tended(runs[a], disk),
           Passed(a) \/ Looked(a) \/ Copied(a) \/ Put_(a) \/ Swapped(a)
    PROVE  Tended(runs'[a], disk')
  <1> DEFINE c == runs[a]
             d == runs'[a]
             g == File(a)
  <1>1. /\ c.todo[1] = <<Do(a), g>> /\ 1 \in DOMAIN c.todo /\ c.failed \in BOOLEAN
        /\ d.tool = c.tool /\ d.start = c.start /\ d.alone = c.alone /\ d.failed = c.failed
        /\ g \in Files /\ c.todo # <<>> /\ c.todo \in Seq(Steps) /\ c.todo[1] = Head(c.todo)
        /\ Sane(c)
        /\ ToSet(d.wrote) = ToSet(c.wrote) \cup (IF Put_(a) THEN {g} ELSE {})
        /\ ~c.failed => Suits(c.tool, c.todo)!(1)
        /\ c.failed => Undoing(c)!(1)
        /\ \A i \in DOMAIN c.todo : i # 1 => i - 1 \in DOMAIN d.todo /\ d.todo[i - 1] = c.todo[i]
    BY TurnFacts DEF Running
  <1>2. SUFFICES ASSUME c.alone PROVE Tended(d, disk')!2
    BY <1>1 DEF Tended
  <1>3. ~Swapped(a) \/ c.tool = "bridge"
    BY <1>1 DEF Swapped
  <1>4. Put_(a) => Do(a) \in Puts /\ disk' = [disk EXCEPT ![g] = Content(a)]
    BY DEF Put_
  <1>5. Passed(a) \/ Looked(a) \/ Copied(a) => UNCHANGED disk
    BY DEF Passed, Looked, Copied
  <1>6. ASSUME c.tool \in {"tools", "doctor"}
        PROVE  Tended(d, disk')!2!1!2
    <2>1. /\ "config" \in DOMAIN c.held => Same(c.held["config"], c.start["config"])
          /\ "config" \notin ToSet(c.wrote) => Same(disk["config"], c.start["config"])
          /\ c.failed => \/ Same(disk["config"], c.start["config"])
                         \/ \E i \in DOMAIN c.todo : c.todo[i] = <<"undo", "config">>
      BY <1>2, <1>6 DEF Tended
    <2>2. g = "config" /\ ~Swapped(a)
      BY <1>1, <1>3, <1>6
    <2>3. "config" \notin ToSet(d.wrote) =>
             Same(disk'["config"], c.start["config"]) /\ ~Put_(a)
      BY <1>1, <1>5, <2>1, <2>2
    <2>4. "config" \in DOMAIN d.held => Same(d.held["config"], c.start["config"])
      <3>1. CASE Looked(a)
        <4>1. d.held = With(c.held, g, disk[g]) /\ Do(a) = "read"
          BY <3>1 DEF Looked, Ahead, Turn
        <4>2. d.held["config"] = disk["config"]
          BY <2>2, <4>1 DEF With
        <4>3. "config" \notin ToSet(c.wrote)
          BY <1>1, <2>2, <4>1 DEF NoneAgain
        <4> QED BY <2>1, <4>2, <4>3
      <3>2. CASE ~Looked(a)
        <4>1. d.held = c.held
          BY <2>2, <3>2 DEF Passed, Copied, Put_, Ahead, Turn
        <4> QED BY <2>1, <4>1
      <3> QED BY <3>1, <3>2
    <2>5. ASSUME c.failed
          PROVE  \/ Same(disk'["config"], c.start["config"])
                 \/ \E i \in DOMAIN d.todo : d.todo[i] = <<"undo", "config">>
      <3>1. CASE Put_(a)
        <4>1. Do(a) = "undo" /\ "config" \in ToSet(c.wrote)
          BY <1>1, <1>4, <1>6, <2>2, <2>5, <3>1 DEF Puts, Writes, Always
        <4>2. Content(a) = c.held["config"]
          BY <2>2, <4>1 DEF Content, Writes, Always
        <4>3. "config" \in DOMAIN c.held
          BY <1>1, <1>6, <4>1 DEF Sane, Reading
        <4>4. disk'["config"] = c.held["config"]
          BY <1>1, <1>4, <2>2, <3>1, <4>2 DEF Shape
        <4> QED BY <2>1, <4>3, <4>4
      <3>2. CASE ~Put_(a)
        <4>1. UNCHANGED disk
          BY <1>5, <2>2, <3>2
        <4>2. ASSUME NEW i \in DOMAIN c.todo, c.todo[i] = <<"undo", "config">>
              PROVE  i - 1 \in DOMAIN d.todo /\ d.todo[i - 1] = <<"undo", "config">>
          <5>1. i # 1
            BY <1>1, <2>2, <3>2, <4>2 DEF Passed, Looked, Copied, Puts, Keeps
          <5> QED BY <1>1, <4>2, <5>1
        <4> QED BY <2>1, <2>5, <4>1, <4>2
      <3> QED BY <3>1, <3>2
    <2> QED BY <1>1, <2>3, <2>4, <2>5
  <1>7. ASSUME c.tool = "outbound", ~c.failed, NEW f \in PatchedBy("outbound")
        PROVE  \/ \E i \in DOMAIN d.todo : d.todo[i][1] \in Writes /\ d.todo[i][2] = f
               \/ "outbound" \in disk'[f] \/ "outbound" \in c.start[f]
    <2>1. \/ \E i \in DOMAIN c.todo : c.todo[i][1] \in Writes /\ c.todo[i][2] = f
          \/ "outbound" \in disk[f] \/ "outbound" \in c.start[f]
      BY <1>2, <1>7 DEF Tended
    <2>2. f \in Files
      BY PatchedSteps, ToolsKnown
    <2>3. CASE Put_(a) /\ f = g
      <3>1. Do(a) \in Writes
        BY <1>1, <1>4, <1>7, <2>3 DEF Writes
      <3>2. Content(a) = c.held[g] \cup {"outbound"}
        BY <1>7, <3>1 DEF Content, Patched, Writes, Always
      <3>3. disk'[f] = Content(a)
        BY <1>1, <1>4, <2>3 DEF Shape
      <3> QED BY <3>2, <3>3
    <2>4. CASE ~(Put_(a) /\ f = g)
      <3>1. disk'[f] = disk[f]
        BY <1>3, <1>4, <1>5, <1>7, <2>2, <2>4 DEF Shape
      <3>2. CASE \E i \in DOMAIN c.todo :
                    i # 1 /\ c.todo[i][1] \in Writes /\ c.todo[i][2] = f
        BY <1>1, <3>2
      <3>3. CASE c.todo[1][1] \in Writes /\ c.todo[1][2] = f
        <4>1. Do(a) \in Writes /\ g = f /\ ~Put_(a)
          BY <1>1, <2>4, <3>3
        <4>2. Passed(a)
          BY <4>1 DEF Looked, Copied, Swapped, Writes, Always, Keeps
        <4>3. "outbound" \in c.held[f]
          BY <1>7, <4>1, <4>2 DEF Passed, Puts
        <4>4. f \in DOMAIN c.held
          BY <1>1, <4>1, BeforeHead DEF Sane, Reading, ReadFirst
        <4>5. f \notin Uncopied
          BY <1>1, <1>7, <4>1
        <4>6. c.held[f] = c.start[f]
          BY <1>2, <1>7, <4>4, <4>5 DEF Undoable
        <4> QED BY <4>3, <4>6
      <3> QED BY <2>1, <3>1, <3>2, <3>3
    <2> QED BY <2>3, <2>4
  <1> QED BY <1>1, <1>6, <1>7

\* The catch puts back every file the run wrote.
LEMMA UndoReaches ==
    ASSUME NEW c, Running(c), c.tool = "outbound", NEW f \in ToSet(c.wrote)
    PROVE  \E i \in DOMAIN Undo(c) : Undo(c)[i] = <<"undo", f>>
  <1>1. PICK k \in DOMAIN c.wrote : c.wrote[k] = f
    BY DEF ToSet
  <1>2. /\ Len(c.wrote) \in Nat /\ k \in 1 .. Len(c.wrote)
        /\ Reverse(c.wrote) = [i \in 1 .. Len(c.wrote) |-> c.wrote[(Len(c.wrote) - i) + 1]]
    BY <1>1 DEF Running, Reverse
  <1>3. Undo(c) = [i \in 1 .. Len(c.wrote) |-> <<"undo", c.wrote[(Len(c.wrote) - i) + 1]>>]
    BY <1>2 DEF Undo, Each, Step
  <1> DEFINE j == (Len(c.wrote) - k) + 1
  <1>4. j \in 1 .. Len(c.wrote) /\ (Len(c.wrote) - j) + 1 = k
    BY <1>2
  <1> HIDE DEF j
  <1> QED BY <1>1, <1>3, <1>4

\* A run that fails can be restored.
LEMMA RestoringFailed ==
    ASSUME Shape, AllSane, NEW a \in Actors, NoneAgain(runs[a]), Restorable(runs[a], disk),
           Undoable(runs[a], disk), Tended(runs[a], disk), Failed(a)
    PROVE  /\ NoneAgain(runs'[a]) /\ Restorable(runs'[a], disk')
           /\ Undoable(runs'[a], disk') /\ Tended(runs'[a], disk')
  <1> DEFINE c == runs[a]
             d == runs'[a]
  <1>1. /\ Running(c) /\ Sane(c) /\ ~c.failed /\ disk' = disk
        /\ d.tool = c.tool /\ d.todo = Undo(c) /\ d.held = c.held /\ d.saved = c.saved
        /\ d.wrote = c.wrote /\ d.start = c.start /\ d.alone = c.alone /\ d.failed = TRUE
    BY DEF Failed, Turn, Shape, AllSane
  <1>2. \A i \in DOMAIN d.todo : d.todo[i][1] \in {"restore", "undo", "undoAnchor"}
    BY <1>1, UndoSteps
  <1>3. NoneAgain(d)
    BY <1>1, <1>2 DEF NoneAgain, Chunk, Keeps
  <1>4. Restorable(d, disk')
    BY <1>1 DEF Restorable, Chunk
  <1>5. ASSUME c.alone, c.tool \in {"layout", "dashboard"}
        PROVE  \/ disk["index"] = c.start["index"]
               \/ \E i \in DOMAIN d.todo : d.todo[i] = <<"restore", "index">>
    <2>1. CASE "index" \in DOMAIN c.saved
      <3>1. Undo(c) = <<<<"restore", "index">>>>
        BY <1>5, <2>1 DEF Undo, Each, Step
      <3> QED BY <1>1, <3>1
    <2>2. CASE "index" \notin DOMAIN c.saved
      <3>1. "index" \in Files \ (Uncopied \cup Chunk(c))
        BY <1>5, FilesKnown DEF Uncopied, UserFiles, Chunk
      <3>2. "index" \notin ToSet(c.wrote)
        BY <1>1, <1>5, <2>2, <3>1 DEF Sane, Backing
      <3> QED BY <1>5, <3>1, <3>2 DEF Restorable
    <2> QED BY <2>1, <2>2
  <1>6. ASSUME c.tool = "outbound", NEW f \in ToSet(c.wrote)
        PROVE  \E i \in DOMAIN d.todo : d.todo[i] = <<"undo", f>>
    BY <1>1, <1>6, UndoReaches
  <1>7. c.alone /\ c.tool = "outbound" =>
           \A f \in DOMAIN c.held \ Uncopied : c.held[f] = c.start[f]
    BY DEF Undoable
  <1>8. Undoable(d, disk')
    BY <1>1, <1>5, <1>6, <1>7 DEF Undoable
  <1>9. Tended(d, disk')
    <2>1. SUFFICES ASSUME c.alone, c.tool \in {"tools", "doctor"},
                          ~Same(disk["config"], c.start["config"])
                   PROVE  \E i \in DOMAIN d.todo : d.todo[i] = <<"undo", "config">>
      BY <1>1 DEF Tended
    <2>2. c.wrote # <<>>
      BY <2>1 DEF Tended, ToSet
    <2>3. d.todo = InTurn(<<"undoAnchor", "undo">>, <<"config">>)
      BY <1>1, <2>1, <2>2 DEF Undo
    <2>4. d.todo[2] = <<"undo", "config">> /\ 2 \in DOMAIN d.todo
      BY <2>3 DEF InTurn, Step
    <2> QED BY <2>4
  <1> QED BY <1>3, <1>4, <1>8, <1>9

\* A run that is spared the rest can be restored.
LEMMA RestoringSpared ==
    ASSUME Shape, AllSane, NEW a \in Actors, NoneAgain(runs[a]), Restorable(runs[a], disk),
           Undoable(runs[a], disk), Tended(runs[a], disk), Spared(a)
    PROVE  /\ NoneAgain(runs'[a]) /\ Restorable(runs'[a], disk')
           /\ Undoable(runs'[a], disk') /\ Tended(runs'[a], disk')
  <1> DEFINE c == runs[a]
             d == runs'[a]
  <1>1. /\ Running(c) /\ Sane(c) /\ disk' = disk
        /\ d.tool = c.tool /\ d.todo = <<>> /\ d.held = c.held /\ d.saved = c.saved
        /\ d.wrote = c.wrote /\ d.start = c.start /\ d.alone = c.alone /\ d.failed = c.failed
    BY DEF Spared, Turn, Shape, AllSane
  <1>2. NoneAgain(d)
    BY <1>1 DEF NoneAgain, Chunk
  <1>3. Restorable(d, disk')
    BY <1>1 DEF Restorable, Chunk
  <1>4. c.failed => Do(a) \notin Keeps \cup {"stale", "source"}
    <2>1. c.failed => Undoing(c)!(1)
      BY <1>1, HeadSuits DEF Spared
    <2>2. c.todo[1][1] = Do(a)
      BY <1>1, HeadSuits DEF Spared, Do
    <2> QED BY <2>1, <2>2 DEF Keeps
  <1>5. ~c.failed
    BY <1>4 DEF Spared
  <1>6. c.tool # "outbound"
    <2>1. Suits(c.tool, c.todo)!(1) /\ c.todo[1][1] = Do(a)
      BY <1>1, <1>5, HeadSuits DEF Spared, Do
    <2> QED BY <2>1 DEF Spared
  <1>7. Undoable(d, disk')
    BY <1>1, <1>5 DEF Undoable
  <1>8. Tended(d, disk')
    BY <1>1, <1>5, <1>6 DEF Tended
  <1> QED BY <1>2, <1>3, <1>7, <1>8

\* A run that begins has nothing to restore.
LEMMA RestoringBegun ==
    ASSUME Shape, NEW a \in Actors, Begun(a)
    PROVE  /\ NoneAgain(runs'[a]) /\ Restorable(runs'[a], disk')
           /\ Undoable(runs'[a], disk') /\ Tended(runs'[a], disk')
  <1> DEFINE d == runs'[a]
  <1>1. /\ d.held = <<>> /\ d.wrote = <<>> /\ d.start = disk /\ d.failed = FALSE
        /\ disk' = disk /\ (d.tool # "rollback" => d.saved = <<>>)
    BY DEF Begun
  <1>2. ToSet(d.wrote) = {} /\ DOMAIN d.held = {} /\ (d.tool # "rollback" => DOMAIN d.saved = {})
    BY <1>1 DEF ToSet
  <1>3. NoneAgain(d) /\ Restorable(d, disk') /\ Undoable(d, disk')
    BY <1>1, <1>2 DEF NoneAgain, Restorable, Undoable
  <1>4. d.todo = StepsOf[d.tool] /\ d.tool \in Tools
    BY DEF Begun
  <1>5. Tended(d, disk')
    <2>1. d.tool = "outbound" => \A f \in PatchedBy("outbound") :
             \E i \in DOMAIN d.todo : d.todo[i][1] \in Writes /\ d.todo[i][2] = f
      BY <1>4, PatchedSteps
    <2> QED BY <1>1, <1>2, <2>1 DEF Tended, Same
  <1> QED BY <1>3, <1>5

\* Every step of a run keeps it restorable.
LEMMA RestoringOwn ==
    ASSUME Shape, AllSane, Restoring, NEW a \in Actors, Effect(a), runs'[a] # Rest
    PROVE  /\ NoneAgain(runs'[a]) /\ Restorable(runs'[a], disk')
           /\ Undoable(runs'[a], disk') /\ Tended(runs'[a], disk')
  <1>1. CASE Passed(a) \/ Looked(a) \/ Copied(a) \/ Put_(a) \/ Swapped(a)
    <2>1. runs[a] # Rest
      BY <1>1, TurnFacts
    <2> QED BY <1>1, <2>1, NoneAgainTurned, RestorableTurned, UndoableTurned,
       TendedTurned DEF Restoring
  <1>2. CASE Failed(a)
    BY <1>2, RestoringFailed DEF Failed, Turn, Restoring
  <1>3. CASE Spared(a)
    BY <1>3, RestoringSpared DEF Spared, Turn, Restoring
  <1>4. CASE Begun(a)
    BY <1>4, RestoringBegun
  <1> QED BY <1>1, <1>2, <1>3, <1>4 DEF Effect, Ended, TornEnd, Gone

\* And no run is made less restorable by another.
LEMMA RestoringStep ==
    ASSUME Shape, AllSane, Restoring, PatchesNext
    PROVE  Restoring'
  <1>1. CASE UserWrites
    <2>1. UNCHANGED runs /\ \A f \in Files \ UserFiles : disk'[f] = disk[f]
      BY <1>1 DEF UserWrites, Shape
    <2>4. \A f \in Files : disk[f] \subseteq disk'[f] /\ Same(disk'[f], disk[f])
      <3>1. PICK g \in UserFiles, mark \in ToSet(UserMarks) :
               disk' = [disk EXCEPT ![g] = @ \cup {mark}]
        BY <1>1 DEF UserWrites, ToSet
      <3> QED BY <3>1 DEF Same, Plain, Shape
    <2>2. OnlyRun'
      BY <2>1 DEF Restoring, OnlyRun
    <2>3. ASSUME NEW a \in Actors, runs[a] # Rest
          PROVE  /\ Restorable(runs[a], disk') /\ Undoable(runs[a], disk')
                 /\ Tended(runs[a], disk')
      <3> DEFINE c == runs[a]
      <3>1. c.wrote \in Seq(Files)
        BY <2>3 DEF Shape, Running
      <3>2. ToSet(c.wrote) \subseteq Files
        BY <3>1 DEF ToSet
      <3>3. "index" \in Files \ UserFiles
        BY FilesKnown DEF UserFiles
      <3>4. Restorable(c, disk) /\ Undoable(c, disk) /\ Tended(c, disk)
        BY <2>3 DEF Restoring
      <3> HIDE DEF c
      <3>5. Restorable(c, disk')
        BY <2>1, <3>4 DEF Restorable, Uncopied
      <3>6. Undoable(c, disk')
        BY <2>1, <3>2, <3>3, <3>4 DEF Undoable, Uncopied
      <3>7. "config" \in Files /\ PatchedBy("outbound") \subseteq Files
        BY PatchedSteps, ToolsKnown, FilesKnown DEF UserFiles
      <3>8. Tended(c, disk')
        BY <2>4, <3>4, <3>7 DEF Tended, Same
      <3> QED BY <3>5, <3>6, <3>8 DEF c
    <2> QED BY <2>1, <2>2, <2>3 DEF Restoring
  <1>2. ASSUME NEW a \in Actors, Effect(a) PROVE Restoring'
    <2>1. OnlyRun'
      BY <1>2, OnlyRunStep DEF Restoring
    <2>2. ASSUME NEW b \in Actors \ {a}, runs'[b] # Rest
          PROVE  /\ NoneAgain(runs'[b]) /\ Restorable(runs'[b], disk')
                 /\ Undoable(runs'[b], disk') /\ Tended(runs'[b], disk')
      <3>1. runs[b] # Rest
        BY <1>2, <2>2, OthersStep
      <3>2. DOMAIN runs[b] = RunFields /\ NoneAgain(runs[b])
        BY <3>1, RunFacts DEF Restoring
      <3>3. CASE runs'[b] = [runs[b] EXCEPT !.alone = FALSE]
        <4>1. PICK d : d = runs'[b]
          OBVIOUS
        <4>2. d.alone = FALSE /\ d.wrote = runs[b].wrote /\ d.todo = runs[b].todo
              /\ d.tool = runs[b].tool
          BY <3>2, <3>3, <4>1 DEF RunFields
        <4> QED BY <3>2, <4>1, <4>2 DEF NoneAgain, Chunk, Restorable, Undoable, Tended
      <3>4. CASE runs'[b] = runs[b] /\ ~Begun(a)
        <4>1. runs[a] # Rest
          BY <1>2, <3>4 DEF Effect, Passed, Looked, Copied, Put_, Swapped, Failed, Spared, Ended,
             TornEnd, Ahead, Turn, Gone
        <4>2. ~runs[b].alone
          BY <3>1, <4>1 DEF Restoring, OnlyRun
        <4> QED BY <3>2, <3>4, <4>2 DEF Restorable, Undoable, Tended
      <3>5. CASE runs'[b] = runs[b] /\ Begun(a)
        BY <3>1, <3>3, <3>5 DEF Begun
      <3> QED BY <1>2, <3>3, <3>4, <3>5, OthersStep
    <2> QED BY <1>2, <2>1, <2>2, RestoringOwn DEF Restoring
  <1> QED BY <1>1, <1>2, StepEffects

\* The two properties, for one record of a run.
Pointed(r) ==
    r.alone /\ r.tool \notin {"route", "rollback"} =>
        \A f \in r.wrote \ Uncopied : f \in DOMAIN r.saved /\ r.saved[f] = r.start[f]
Whole(r) ==
    r.alone /\ r.tool \in {"layout", "dashboard", "outbound", "tools", "doctor"} =>
        /\ r.outcome = "failed" => r.changed = {}
        /\ r.outcome = "unreported" =>
              \A f \in PatchedBy(r.tool) : f \in r.changed \/ r.tool \in r.start[f]

RestoreInv ==
    /\ Shape /\ AllSane /\ Restoring
    /\ \A i \in DOMAIN evidence : Pointed(evidence[i]) /\ Whole(evidence[i])

\* A run that ends has a copy of what it wrote.
LEMMA EndedPointed ==
    ASSUME Shape, AllSane, Restoring, NEW a \in Actors, runs[a] # Rest,
           NEW outcome, NEW changed
    PROVE  Pointed(Outcome(runs[a], disk, outcome, ToSet(runs[a].wrote), changed))
  <1> DEFINE c == runs[a]
             r == Outcome(c, disk, outcome, ToSet(c.wrote), changed)
  <1>1. /\ r.alone = c.alone /\ r.tool = c.tool /\ r.wrote = ToSet(c.wrote)
        /\ r.saved = c.saved /\ r.start = c.start
    BY DEF Outcome
  <1>2. /\ Running(c) /\ Sane(c) /\ NoneAgain(c) /\ Restorable(c, disk)
    BY DEF Shape, AllSane, Restoring
  <1>3. ToSet(c.wrote) \subseteq Files
    <2>1. c.wrote \in Seq(Files)
      BY <1>2 DEF Running
    <2> QED BY <2>1 DEF ToSet
  <1> HIDE DEF r, c
  <1>4. SUFFICES ASSUME c.alone, c.tool \notin {"route", "rollback"},
                        NEW f \in ToSet(c.wrote) \ Uncopied
                 PROVE  f \in DOMAIN c.saved /\ c.saved[f] = c.start[f]
    BY <1>1 DEF Pointed, r, c
  <1>5. f \in DOMAIN c.saved
    BY <1>2, <1>4 DEF Sane, Backing
  <1>6. f \in Files \ (Uncopied \cup Chunk(c))
    BY <1>2, <1>3, <1>4 DEF NoneAgain
  <1> QED BY <1>2, <1>4, <1>5, <1>6 DEF Restorable

\* So has one that is killed in a write.
LEMMA TornPointed ==
    ASSUME Shape, AllSane, Restoring, NEW a \in Actors, TornEnd(a)
    PROVE  Pointed(Outcome(runs[a], disk, "cut", ToSet(runs[a].wrote) \cup {File(a)}, {File(a)}))
  <1> DEFINE c == runs[a]
             g == File(a)
             r == Outcome(c, disk, "cut", ToSet(c.wrote) \cup {g}, {g})
  <1>1. /\ r.alone = c.alone /\ r.tool = c.tool /\ r.wrote = ToSet(c.wrote) \cup {g}
        /\ r.saved = c.saved /\ r.start = c.start
    BY DEF Outcome
  <1>2. /\ c # Rest /\ c.todo # <<>> /\ Running(c) /\ Sane(c) /\ NoneAgain(c)
        /\ Restorable(c, disk) /\ c.failed \in BOOLEAN
    BY DEF Shape, AllSane, Restoring, TornEnd, Gone, Running
  <1>3. /\ Head(c.todo) = c.todo[1] /\ 1 \in DOMAIN c.todo /\ g \in Files
        /\ Head(c.todo)[1] = Do(a) /\ Head(c.todo)[2] = g /\ c.todo \in Seq(Steps)
        /\ ~c.failed => Suits(c.tool, c.todo)!(1)
        /\ c.failed => Undoing(c)!(1)
    BY <1>2, HeadSuits DEF Do, File, Running
  <1>4. ToSet(c.wrote) \subseteq Files
    <2>1. c.wrote \in Seq(Files)
      BY <1>2 DEF Running
    <2> QED BY <2>1 DEF ToSet
  <1>5. /\ Do(a) \in {"write", "rewrite", "append"}
        /\ c.tool \notin c.held[g] \/ Do(a) = "rewrite"
    BY DEF TornEnd
  <1>6. Do(a) \in Puts
    BY <1>5 DEF Puts, Writes, Always
  <1>7. g \notin Chunk(c)
    BY <1>3, <1>5, <1>6 DEF Chunk, Puts, Writes, Always
  <1>8. g \notin Skipped(c)
    BY <1>3, <1>5, <1>6 DEF Skipped
  <1>9. ASSUME c.tool \notin {"route", "rollback"}
        PROVE  /\ g \in Uncopied \cup DOMAIN c.saved
               /\ ToSet(c.wrote) \subseteq Uncopied \cup DOMAIN c.saved
    <2>1. /\ BackedFirst(c.todo, DOMAIN c.saved \cup Spare(c))
          /\ ToSet(c.wrote) \subseteq Uncopied \cup DOMAIN c.saved
      BY <1>2, <1>9 DEF Sane, Backing
    <2>2. g \in Uncopied \cup (DOMAIN c.saved \cup Spare(c))
      BY <1>2, <1>3, <1>6, <2>1, BeforeHead DEF BackedFirst
    <2> QED BY <1>7, <1>8, <2>1, <2>2 DEF Spare, Chunk
  <1> HIDE DEF r, c, g
  <1>10. SUFFICES ASSUME c.alone, c.tool \notin {"route", "rollback"},
                         NEW f \in (ToSet(c.wrote) \cup {g}) \ Uncopied
                  PROVE  f \in DOMAIN c.saved /\ c.saved[f] = c.start[f]
    BY <1>1 DEF Pointed, r, c, g
  <1>11. f \in DOMAIN c.saved
    BY <1>9, <1>10
  <1>12. f \in Files \ (Uncopied \cup Chunk(c))
    BY <1>2, <1>3, <1>4, <1>7, <1>10 DEF NoneAgain
  <1> QED BY <1>2, <1>10, <1>11, <1>12 DEF Restorable

\* A run that failed and undid itself leaves its files whole, and one whose report
\* failed has them patched.
LEMMA EndedWhole ==
    ASSUME Shape, AllSane, Restoring, NEW a \in Actors, runs[a] # Rest, NEW outcome,
           outcome = "failed" => runs[a].failed /\ runs[a].todo = <<>>,
           outcome = "unreported" => ~runs[a].failed /\ PastCatch(runs[a])
    PROVE  Whole(Outcome(runs[a], disk, outcome, ToSet(runs[a].wrote), Changed(runs[a])))
  <1> DEFINE c == runs[a]
             r == Outcome(c, disk, outcome, ToSet(c.wrote), Changed(c))
  <1>1. /\ r.alone = c.alone /\ r.tool = c.tool /\ r.outcome = outcome
        /\ r.changed = Changed(c) /\ r.start = c.start
    BY DEF Outcome
  <1>2. /\ Running(c) /\ Sane(c) /\ Restorable(c, disk) /\ Undoable(c, disk)
        /\ Tended(c, disk)
    BY DEF Shape, AllSane, Restoring
  <1>3. ASSUME c.alone, outcome = "failed", NEW f \in Changed(c),
               c.tool \in {"layout", "dashboard", "outbound", "tools", "doctor"}
        PROVE  FALSE
    <2>1. c.failed /\ DOMAIN c.todo = {} /\ c.tool \in Tools
      BY <1>2, <1>3 DEF Running
    <2>2. /\ f \in Files /\ ~Same(disk[f], c.start[f])
          /\ c.tool \in {"layout", "dashboard"} => f = "index"
          /\ c.tool \in {"tools", "doctor"} => f = "config"
          /\ c.tool = "outbound" => f \notin Uncopied
      BY <1>3, <2>1, PatchedSteps DEF Suits, Changed, Same
    <2>3. disk[f] # c.start[f]
      BY <2>2 DEF Same
    <2>4. CASE c.tool \in {"layout", "dashboard"}
      BY <1>2, <1>3, <2>1, <2>2, <2>3, <2>4 DEF Undoable
    <2>5. CASE c.tool \in {"tools", "doctor"}
      BY <1>2, <1>3, <2>1, <2>2, <2>5 DEF Tended
    <2>6. CASE c.tool = "outbound" /\ f \in ToSet(c.wrote)
      BY <1>2, <1>3, <2>1, <2>2, <2>3, <2>6 DEF Undoable
    <2>7. CASE c.tool = "outbound" /\ f \notin ToSet(c.wrote)
      BY <1>2, <1>3, <2>2, <2>3, <2>7 DEF Restorable, Chunk
    <2> QED BY <1>3, <2>4, <2>5, <2>6, <2>7
  <1>4. ASSUME c.alone, outcome = "unreported", NEW f \in PatchedBy(c.tool)
        PROVE  f \in Changed(c) \/ c.tool \in c.start[f]
    <2>1. ~c.failed /\ c.todo # <<>> /\ Head(c.todo)[1] = "report"
      BY <1>4 DEF PastCatch
    <2>2. /\ c.tool = "outbound" /\ c.todo[1] = Head(c.todo)
          /\ \A i \in DOMAIN c.todo : i > 1 => c.todo[i][1] \notin Writes
      BY <1>2, <2>1, HeadSuits
    <2>3. ~\E i \in DOMAIN c.todo : c.todo[i][1] \in Writes
      <3>1. \A i \in DOMAIN c.todo : i = 1 \/ i > 1
        BY <1>2 DEF Running
      <3> QED BY <2>1, <2>2, <3>1 DEF Writes, Always
    <2>4. "outbound" \in disk[f] \/ "outbound" \in c.start[f]
      BY <1>2, <1>4, <2>1, <2>2, <2>3 DEF Tended
    <2>5. "outbound" \notin ToSet(UserMarks)
      <3>1. PICK x : x = "first write"
        OBVIOUS
      <3>2. PICK y : y = "second write"
        OBVIOUS
      <3>3. UserMarks = <<x, y>> /\ x # "outbound" /\ y # "outbound"
        BY <3>1, <3>2 DEF UserMarks
      <3>4. \A i \in DOMAIN UserMarks : UserMarks[i] # "outbound"
        BY <3>3
      <3> QED BY <3>4 DEF ToSet
    <2> QED BY <1>4, <2>2, <2>4, <2>5 DEF Changed, Plain
  <1> HIDE DEF r
  <1>5. Whole(r)
    BY <1>1, <1>3, <1>4 DEF Whole
  <1> QED BY <1>5 DEF r

\* Every step keeps the copies and the records.
LEMMA RestoreInvStep ==
    ASSUME RestoreInv, PatchesNext
    PROVE  RestoreInv'
  <1>1. Shape /\ AllSane /\ Restoring
    BY DEF RestoreInv
  <1>2. (Shape /\ AllSane /\ Restoring)'
    BY <1>1, ShapeStep, RestoringStep
  <1>3. ASSUME NEW r, NEW s, Kept(r, s), Pointed(r), Whole(r) PROVE Pointed(s) /\ Whole(s)
    BY <1>3 DEF Kept, Pointed, Whole
  <1>4. CASE UserWrites
    BY <1>2, <1>4 DEF UserWrites, RestoreInv
  <1>5. ASSUME NEW a \in Actors, Effect(a) PROVE RestoreInv'
    <2>1. \A i \in DOMAIN evidence : Pointed(evidence'[i]) /\ Whole(evidence'[i])
      BY <1>1, <1>3, <1>5, RecordsStep DEF RestoreInv
    <2>2. CASE Ended(a) \/ TornEnd(a)
      <3>1. PICK r : /\ DOMAIN r = EndFields /\ evidence' = Append(evidence, r)
                     /\ Pointed(r) /\ Whole(r)
        <4>1. CASE Ended(a)
          <5>1. PICK outcome :
                   /\ outcome = "failed" => runs[a].failed /\ runs[a].todo = <<>>
                   /\ outcome = "unreported" => ~runs[a].failed /\ PastCatch(runs[a])
                   /\ evidence' = Append(evidence,
                         Outcome(runs[a], disk, outcome, ToSet(runs[a].wrote), Changed(runs[a])))
            BY <4>1 DEF Ended
          <5> DEFINE r == Outcome(runs[a], disk, outcome, ToSet(runs[a].wrote),
                                  Changed(runs[a]))
          <5>2. Pointed(r) /\ Whole(r)
            BY <1>1, <4>1, <5>1, EndedPointed, EndedWhole DEF Ended, Gone
          <5>3. DOMAIN r = EndFields
            BY DEF Outcome, EndFields
          <5> QED BY <5>1, <5>2, <5>3
        <4>2. CASE TornEnd(a)
          <5> DEFINE r == Outcome(runs[a], disk, "cut",
                                  ToSet(runs[a].wrote) \cup {File(a)}, {File(a)})
          <5>1. Pointed(r)
            BY <1>1, <4>2, TornPointed
          <5>2. Whole(r) /\ DOMAIN r = EndFields
            BY DEF Whole, Outcome, EndFields
          <5>3. evidence' = Append(evidence, r)
            BY <4>2 DEF TornEnd
          <5> QED BY <5>1, <5>2, <5>3
        <4> QED BY <2>2, <4>1, <4>2
      <3>2. Recorded
        BY <1>1 DEF Shape, Recorded
      <3> QED BY <1>2, <2>1, <3>1, <3>2, RecordsMore DEF RestoreInv
    <2>3. CASE ~(Ended(a) \/ TornEnd(a))
      <3>1. DOMAIN evidence' = DOMAIN evidence
        <4>1. CASE Overwritten(File(a))
          BY <4>1 DEF Overwritten
        <4>2. CASE UNCHANGED evidence
          BY <4>2
        <4> QED BY <1>5, <2>3, <4>1, <4>2 DEF Effect, Passed, Looked, Copied, Put_, Swapped,
                   Failed, Spared, Begun
      <3> QED BY <1>2, <2>1, <3>1 DEF RestoreInv
    <2> QED BY <2>2, <2>3
  <1> QED BY <1>1, <1>4, <1>5, StepEffects

\* The invariant behind RestorePoint and UndoneWhole.
LEMMA RestoreInvHolds ==
    ASSUME NEW CONSTANT events
    PROVE  PatchesInit(events) /\ [][PatchesNext]_patchVars => []RestoreInv
  <1>1. PatchesInit(events) => RestoreInv
    BY ShapeInit DEF PatchesInit, RestoreInv, Restoring, OnlyRun
  <1>2. RestoreInv /\ UNCHANGED patchVars => RestoreInv'
    BY DEF RestoreInv, patchVars, Shape, AllSane, Restoring, OnlyRun
  <1> QED BY <1>1, <1>2, RestoreInvStep, PTL

\* Whatever tools run, overlapping or not, failing or killed at any step: each
\* release file that a run no other overlapped wrote has a copy of its text
\* from before the run in the evidence of that run.
THEOREM RestorePointHolds ==
    ASSUME NEW CONSTANT events
    PROVE  PatchesInit(events) /\ [][PatchesNext]_patchVars => []RestorePoint
  <1>1. RestoreInv => RestorePoint
    BY DEF RestoreInv, RestorePoint, Pointed, Uncopied, ToSet
  <1> QED BY <1>1, RestoreInvHolds, PTL

\* The tools that undo themselves - the two hotfixes of index.html, the outbound
\* boundary and the configuration repairs - leave after a failure, if no other
\* run overlapped, the files they patch as they were, but for what the user wrote;
\* the outbound boundary, when only its report fails, leaves all of them patched.
THEOREM UndoneWholeHolds ==
    ASSUME NEW CONSTANT events
    PROVE  PatchesInit(events) /\ [][PatchesNext]_patchVars => []UndoneWhole
  <1>1. RestoreInv => UndoneWhole
    BY DEF RestoreInv, UndoneWhole, Whole, ToSet
  <1> QED BY <1>1, RestoreInvHolds, PTL

(***************************************************************************)
(* What was applied stays.                                                      *)
(***************************************************************************)

Good(text, tool) == tool \in text \/ Torn \subseteq text

\* The change of a tool is in the file, in what the runs hold of it, and in the
\* copies that a run may put back.
Stands(tool, f) ==
    /\ Good(disk[f], tool)
    /\ \A b \in Actors : runs[b] # Rest =>
          /\ f \in DOMAIN runs[b].held => Good(runs[b].held[f], tool)
          /\ f = "index" /\ runs[b].tool \in {"layout", "dashboard"}
             /\ f \in DOMAIN runs[b].saved => Good(runs[b].saved[f], tool)

\* A run without company, as far as it is: its change is in the files it is done with.
Progressing(c, text) ==
    c.alone /\ ~c.failed =>
        \A f \in PatchedBy(c.tool) :
            /\ \/ Good(text[f], c.tool)
               \/ \E i \in DOMAIN c.todo : c.todo[i][1] \in Writes /\ c.todo[i][2] = f
            /\ f \in DOMAIN c.held /\ c.tool \in c.held[f] => Good(text[f], c.tool)

AppliedInv ==
    /\ Shape /\ AllSane /\ OnlyRun
    /\ \A a \in Actors : runs[a] # Rest => Progressing(runs[a], disk)
    /\ \A i \in DOMAIN evidence : evidence[i].alone /\ evidence[i].outcome = "applied" =>
          /\ evidence[i].tool \in Tools
          /\ \A f \in PatchedBy(evidence[i].tool) \ evidence[i].over :
                Stands(evidence[i].tool, f)

\* What a step writes keeps what was applied, or says that it does not.
LEMMA ContentGood ==
    ASSUME Shape, AllSane, NEW a \in Actors, Put_(a), NEW tool, Stands(tool, File(a)),
           Do(a) # "copy", ~(Do(a) = "restore" /\ runs[a].tool = "rollback")
    PROVE  Good(Content(a), tool)
  <1> DEFINE c == runs[a]
             g == File(a)
  <1>1. /\ c # Rest /\ Running(c) /\ Sane(c) /\ c.todo # <<>> /\ c.todo \in Seq(Steps)
        /\ Head(c.todo) = <<Do(a), g>> /\ c.todo[1] = Head(c.todo) /\ c.failed \in BOOLEAN
        /\ ~c.failed => Suits(c.tool, c.todo)!(1)
        /\ c.failed => Undoing(c)!(1)
    BY TurnFacts DEF Running
  <1>2. Do(a) \in Puts
    BY DEF Put_
  <1>3. CASE Do(a) \in Writes
    <2>1. g \in DOMAIN c.held
      BY <1>1, <1>3, BeforeHead DEF Sane, Reading, ReadFirst
    <2>2. Good(c.held[g], tool)
      BY <1>1, <2>1 DEF Stands
    <2>3. Content(a) = c.held[g] \cup {c.tool}
      BY <1>3 DEF Content, Patched, Writes, Always
    <2> QED BY <2>2, <2>3 DEF Good
  <1>4. CASE Do(a) = "device"
    <2>1. Content(a) = disk[g] \cup {c.tool}
      BY <1>4 DEF Content, Writes, Always
    <2> QED BY <2>1 DEF Stands, Good
  <1>5. CASE Do(a) = "restore"
    <2>1. c.tool \in {"layout", "dashboard"} /\ g = "index" /\ "index" \in DOMAIN c.saved
      BY <1>1, <1>5
    <2>2. Content(a) = c.saved[g]
      BY <1>5 DEF Content, Writes, Always
    <2> QED BY <1>1, <2>1, <2>2 DEF Stands
  <1>6. CASE Do(a) = "undo"
    <2>1. c.tool \in {"outbound", "tools", "doctor"} /\ g \in ToSet(c.wrote)
      BY <1>1, <1>6
    <2>2. g \in DOMAIN c.held
      BY <1>1, <2>1 DEF Sane, Reading
    <2>3. Content(a) = c.held[g]
      BY <1>6 DEF Content, Writes, Always
    <2> QED BY <1>1, <2>2, <2>3 DEF Stands
  <1> QED BY <1>2, <1>3, <1>4, <1>5, <1>6 DEF Puts

\* A step, unless it takes the place of the file on purpose.
LEMMA StandsStep ==
    ASSUME Shape, AllSane, NEW a \in Actors, Effect(a), NEW tool, NEW f \in Files,
           Stands(tool, f), Overwritten(File(a)) => f # File(a)
    PROVE  Stands(tool, f)'
  <1> DEFINE c == runs[a]
             d == runs'[a]
             g == File(a)
  <1>1. Good(disk'[f], tool)
    <2>1. CASE Put_(a)
      <3>1. disk' = [disk EXCEPT ![g] = Content(a)]
        BY <2>1 DEF Put_
      <3>2. CASE f = g
        <4>1. Do(a) # "copy" /\ ~(Do(a) = "restore" /\ c.tool = "rollback")
          BY <2>1, <3>2 DEF Put_
        <4> QED BY <2>1, <3>1, <3>2, <4>1, ContentGood DEF Shape
      <3>3. CASE f # g
        BY <3>1, <3>3 DEF Shape, Stands
      <3> QED BY <3>2, <3>3
    <2>2. CASE Swapped(a)
      <3>1. disk' = [disk EXCEPT ![g] = {"lab"}] /\ f # g
        BY <2>2 DEF Swapped
      <3> QED BY <3>1 DEF Shape, Stands
    <2>3. CASE TornEnd(a)
      <3>1. disk' = [disk EXCEPT ![g] = Torn]
        BY <2>3 DEF TornEnd
      <3> QED BY <3>1 DEF Shape, Stands, Good
    <2>4. CASE ~Put_(a) /\ ~Swapped(a) /\ ~TornEnd(a)
      <3>1. disk' = disk
        BY <2>4 DEF Effect, Passed, Looked, Copied, Failed, Spared, Ended, Begun
      <3> QED BY <3>1 DEF Stands
    <2> QED BY <2>1, <2>2, <2>3, <2>4
  <1>2. ASSUME NEW b \in Actors \ {a}, runs'[b] # Rest
        PROVE  /\ runs[b] # Rest /\ runs'[b].held = runs[b].held
               /\ runs'[b].saved = runs[b].saved /\ runs'[b].tool = runs[b].tool
    <2>1. runs[b] # Rest
      BY <1>2, OthersStep
    <2>2. DOMAIN runs[b] = RunFields
      BY <2>1, RunFacts
    <2>3. CASE runs'[b] = [runs[b] EXCEPT !.alone = FALSE]
      BY <2>1, <2>2, <2>3 DEF RunFields
    <2> QED BY <2>1, <2>3, OthersStep
  <1>3. ASSUME d # Rest
        PROVE  /\ f \in DOMAIN d.held => Good(d.held[f], tool)
               /\ f = "index" /\ d.tool \in {"layout", "dashboard"}
                  /\ f \in DOMAIN d.saved => Good(d.saved[f], tool)
    <2>1. CASE Looked(a)
      <3>1. d.held = With(c.held, g, disk[g]) /\ d.saved = c.saved /\ d.tool = c.tool /\ c # Rest
        BY <2>1 DEF Looked, Ahead, Turn
      <3>2. f \in DOMAIN d.held => d.held[f] = disk[f] \/ (f \in DOMAIN c.held /\ d.held[f] = c.held[f])
        BY <3>1 DEF With
      <3> QED BY <3>1, <3>2 DEF Stands
    <2>2. CASE Swapped(a)
      <3>1. /\ d.held = c.held \/ d.held = With(c.held, g, disk[g])
            /\ d.saved = c.saved /\ d.tool = c.tool /\ c # Rest
        BY <2>2 DEF Swapped, Ahead, Turn
      <3>2. f \in DOMAIN d.held => d.held[f] = disk[f] \/ (f \in DOMAIN c.held /\ d.held[f] = c.held[f])
        BY <3>1 DEF With
      <3> QED BY <3>1, <3>2 DEF Stands
    <2>3. CASE Copied(a)
      <3> DEFINE text == IF Do(a) \in {"keep", "stale"} THEN c.held[g] ELSE disk[g]
      <3>1. d.saved = With(c.saved, g, text) /\ d.held = c.held /\ d.tool = c.tool /\ c # Rest
        BY <2>3 DEF Copied, Ahead, Turn
      <3>2. ASSUME d.tool \in {"layout", "dashboard"} PROVE text = disk[g]
        <4>1. Do(a) \in Keeps \cup {"stale"}
          BY <2>3 DEF Copied
        <4>2. /\ c.todo[1] = <<Do(a), g>> /\ c.failed \in BOOLEAN
              /\ ~c.failed => Suits(c.tool, c.todo)!(1)
              /\ c.failed => Undoing(c)!(1)
          BY <2>3, TurnFacts DEF Running
        <4> QED BY <3>1, <3>2, <4>1, <4>2 DEF Keeps
      <3> HIDE DEF text
      <3>3. f \in DOMAIN d.saved => (d.saved[f] = text /\ f = g) \/ (f \in DOMAIN c.saved /\ d.saved[f] = c.saved[f])
        BY <3>1 DEF With
      <3> QED BY <3>1, <3>2, <3>3 DEF Stands
    <2>4. CASE Begun(a)
      <3>1. d.held = <<>> /\ (d.tool # "rollback" => d.saved = <<>>)
        BY <2>4 DEF Begun
      <3>2. DOMAIN d.held = {} /\ (d.tool # "rollback" => DOMAIN d.saved = {})
        BY <3>1
      <3> QED BY <3>2
    <2>5. CASE Passed(a) \/ Put_(a) \/ Failed(a) \/ Spared(a)
      <3>1. c # Rest /\ d.held = c.held /\ d.saved = c.saved /\ d.tool = c.tool
        BY <2>5 DEF Passed, Put_, Failed, Spared, Ahead, Turn
      <3> QED BY <3>1 DEF Stands
    <2> QED BY <1>3, <2>1, <2>2, <2>3, <2>4, <2>5 DEF Effect, Ended, TornEnd, Gone
  <1> QED BY <1>1, <1>2, <1>3 DEF Stands

\* A file that a tool patches has a step of it.
LEMMA PatchedIn ==
    ASSUME NEW tool \in Tools, NEW f \in PatchedBy(tool)
    PROVE  /\ f \in Files /\ tool # "rollback"
           /\ tool = "bridge" => f # "handler"
           /\ tool \in {"tools", "doctor"} => f = "config"
  <1>1. PICK i \in DOMAIN StepsOf[tool] :
           StepsOf[tool][i][1] \in Writes /\ StepsOf[tool][i][2] = f
    BY PatchedSteps
  <1>2. Suits(tool, StepsOf[tool])!(i) /\ f \in Files
    BY PatchedSteps DEF Suits
  <1> QED BY <1>1, <1>2 DEF Puts, Writes, Always

\* A step on has patched its file, or leaves it to do.
LEMMA ProgressTurned ==
    ASSUME Shape, AllSane, NEW a \in Actors, Progressing(runs[a], disk),
           Passed(a) \/ Looked(a) \/ Copied(a) \/ Put_(a) \/ Swapped(a)
    PROVE  Progressing(runs'[a], disk')
  <1> DEFINE c == runs[a]
             d == runs'[a]
             g == File(a)
  <1>1. /\ c.todo[1] = <<Do(a), g>> /\ 1 \in DOMAIN c.todo /\ c.failed \in BOOLEAN
        /\ d.tool = c.tool /\ d.alone = c.alone /\ d.failed = c.failed
        /\ g \in Files /\ Running(c) /\ Sane(c) /\ c.todo # <<>> /\ c.todo \in Seq(Steps)
        /\ Head(c.todo) = <<Do(a), g>>
        /\ ~c.failed => Suits(c.tool, c.todo)!(1)
        /\ \A i \in DOMAIN c.todo : i # 1 => i - 1 \in DOMAIN d.todo /\ d.todo[i - 1] = c.todo[i]
    BY TurnFacts DEF Running
  <1>2. SUFFICES ASSUME c.alone, ~c.failed, NEW f \in PatchedBy(c.tool)
                 PROVE  /\ \/ Good(disk'[f], c.tool)
                           \/ \E i \in DOMAIN d.todo : d.todo[i][1] \in Writes /\ d.todo[i][2] = f
                        /\ f \in DOMAIN d.held /\ c.tool \in d.held[f] => Good(disk'[f], c.tool)
    BY <1>1 DEF Progressing
  <1>3. /\ \/ Good(disk[f], c.tool)
           \/ \E i \in DOMAIN c.todo : c.todo[i][1] \in Writes /\ c.todo[i][2] = f
        /\ f \in DOMAIN c.held /\ c.tool \in c.held[f] => Good(disk[f], c.tool)
    BY <1>2 DEF Progressing
  <1>4. f \in Files /\ c.tool # "rollback" /\ (c.tool = "bridge" => f # "handler")
    BY <1>1, PatchedIn DEF Running
  \* A step that does not touch the file.
  <1>5. ASSUME disk'[f] = disk[f], ~(Do(a) \in Writes /\ g = f)
        PROVE  \/ Good(disk'[f], c.tool)
               \/ \E i \in DOMAIN d.todo : d.todo[i][1] \in Writes /\ d.todo[i][2] = f
    <2>1. CASE Good(disk[f], c.tool)
      BY <1>5, <2>1
    <2>2. CASE \E i \in DOMAIN c.todo : c.todo[i][1] \in Writes /\ c.todo[i][2] = f
      <3>1. PICK i \in DOMAIN c.todo : c.todo[i][1] \in Writes /\ c.todo[i][2] = f
        BY <2>2
      <3>2. i # 1
        BY <1>1, <1>5, <3>1
      <3> QED BY <1>1, <3>1, <3>2
    <2> QED BY <1>3, <2>1, <2>2
  <1>6. CASE Passed(a)
    <2>1. d.held = c.held /\ disk' = disk
      BY <1>6 DEF Passed, Ahead, Turn
    <2>2. ASSUME Do(a) \in Writes, g = f PROVE Good(disk[f], c.tool)
      <3>1. c.tool \in c.held[f]
        BY <1>6, <2>2 DEF Passed, Puts
      <3>2. f \in DOMAIN c.held
        BY <1>1, <2>2, BeforeHead DEF Sane, Reading, ReadFirst
      <3> QED BY <1>3, <3>1, <3>2
    <2> QED BY <1>3, <1>5, <2>1, <2>2
  <1>7. CASE Looked(a)
    <2>1. d.held = With(c.held, g, disk[g]) /\ disk' = disk /\ Do(a) = "read"
      BY <1>7 DEF Looked, Ahead, Turn
    <2>2. f \in DOMAIN d.held => d.held[f] = disk[f] \/ (f \in DOMAIN c.held /\ d.held[f] = c.held[f])
      BY <2>1 DEF With
    <2>3. ~(Do(a) \in Writes)
      BY <2>1 DEF Writes, Always
    <2> QED BY <1>3, <1>5, <2>1, <2>2, <2>3 DEF Good
  <1>8. CASE Copied(a)
    <2>1. d.held = c.held /\ disk' = disk /\ Do(a) \notin Writes
      BY <1>8 DEF Copied, Ahead, Turn, Keeps, Writes, Always
    <2> QED BY <1>3, <1>5, <2>1
  <1>9. CASE Put_(a)
    <2>1. d.held = c.held /\ disk' = [disk EXCEPT ![g] = Content(a)] /\ Do(a) \in Puts
      BY <1>9 DEF Put_, Ahead, Turn
    <2>2. CASE f # g
      <3>1. disk'[f] = disk[f]
        BY <2>1, <2>2 DEF Shape
      <3> QED BY <1>3, <1>5, <2>1, <2>2, <3>1
    <2>3. CASE f = g
      <3>1. Do(a) \in Writes \cup {"copy", "device"}
        BY <1>1, <1>2, <1>4, <2>1 DEF Puts
      <3>2. c.tool \in Content(a)
        BY <3>1 DEF Content, Patched, Writes, Always
      <3> QED BY <1>4, <2>1, <2>3, <3>2 DEF Shape, Good
    <2> QED BY <2>2, <2>3
  <1>10. CASE Swapped(a)
    <2>1. /\ d.held = c.held \/ d.held = With(c.held, g, disk[g])
          /\ disk' = [disk EXCEPT ![g] = {"lab"}] /\ Do(a) = "swap"
      BY <1>10 DEF Swapped, Ahead, Turn
    <2>2. c.tool = "bridge" /\ g = "handler" /\ f # g
      BY <1>1, <1>2, <1>4, <2>1
    <2>3. disk'[f] = disk[f] /\ Do(a) \notin Writes
      BY <2>1, <2>2 DEF Shape, Writes, Always
    <2>4. f \in DOMAIN d.held => f \in DOMAIN c.held /\ d.held[f] = c.held[f]
      BY <2>1, <2>2 DEF With
    <2> QED BY <1>3, <1>5, <2>3, <2>4
  <1> QED BY <1>6, <1>7, <1>8, <1>9, <1>10

\* A run that is spared the rest has nothing to patch.
LEMMA ProgressSpared ==
    ASSUME Shape, AllSane, NEW a \in Actors, Progressing(runs[a], disk), Spared(a)
    PROVE  Progressing(runs'[a], disk')
  <1> DEFINE c == runs[a]
             d == runs'[a]
             g == File(a)
  <1>1. /\ Running(c) /\ Sane(c) /\ c.todo # <<>> /\ disk' = disk
        /\ d.tool = c.tool /\ d.todo = <<>> /\ d.held = c.held /\ d.alone = c.alone
        /\ d.failed = c.failed
    BY DEF Spared, Turn, Shape, AllSane
  <1>2. SUFFICES ASSUME c.alone, ~c.failed, NEW f \in PatchedBy(c.tool)
                 PROVE  Good(disk[f], c.tool)
    BY <1>1 DEF Progressing
  <1>3. /\ Suits(c.tool, c.todo) /\ c.todo \in Seq(Steps) /\ 1 \in DOMAIN c.todo
        /\ Head(c.todo)[1] = Do(a) /\ Head(c.todo)[2] = g /\ Head(c.todo) = c.todo[1]
    BY <1>1, <1>2, HeadSuits DEF Sane, Do, File, Running
  <1>4. /\ \/ Good(disk[f], c.tool)
           \/ \E i \in DOMAIN c.todo : c.todo[i][1] \in Writes /\ c.todo[i][2] = f
        /\ f \in DOMAIN c.held /\ c.tool \in c.held[f] => Good(disk[f], c.tool)
    BY <1>2 DEF Progressing
  <1>5. CASE Do(a) = "source"
    <2>1. \A i \in DOMAIN c.todo : i # 1 => i > 1
      BY <1>3
    <2>2. \A i \in DOMAIN c.todo : c.todo[i][1] \notin Writes
      BY <1>3, <1>5, <2>1 DEF Suits, Writes, Always
    <2> QED BY <1>4, <2>2
  <1>6. CASE /\ Do(a) \in Keeps \cup {"stale"} /\ c.tool \in {"tools", "doctor"}
             /\ c.tool \in c.held[g]
    <2>1. g = "config" /\ f = "config" /\ Do(a) \in {"keep", "backupIf"}
      BY <1>1, <1>3, <1>6, PatchedIn DEF Suits, Keeps, Running
    <2>2. g \in DOMAIN c.held
      BY <1>1, <1>3, <2>1, BeforeHead DEF Sane, Reading, ReadFirst
    <2> QED BY <1>4, <1>6, <2>1, <2>2
  <1> QED BY <1>5, <1>6 DEF Spared

\* A run that begins has all of it to do.
LEMMA ProgressBegun ==
    ASSUME Shape, NEW a \in Actors, Begun(a)
    PROVE  Progressing(runs'[a], disk')
  <1> DEFINE d == runs'[a]
  <1>1. d.held = <<>> /\ d.tool \in Tools /\ d.todo = StepsOf[d.tool]
    BY DEF Begun
  <1>2. DOMAIN d.held = {}
    BY <1>1
  <1>3. \A f \in PatchedBy(d.tool) : \E i \in DOMAIN d.todo :
           d.todo[i][1] \in Writes /\ d.todo[i][2] = f
    BY <1>1, PatchedSteps
  <1> QED BY <1>2, <1>3 DEF Progressing

\* Every step of a run makes progress.
LEMMA ProgressOwn ==
    ASSUME Shape, AllSane, NEW a \in Actors, runs[a] # Rest => Progressing(runs[a], disk),
           Effect(a), runs'[a] # Rest
    PROVE  Progressing(runs'[a], disk')
  <1>1. CASE Passed(a) \/ Looked(a) \/ Copied(a) \/ Put_(a) \/ Swapped(a)
    <2>1. runs[a] # Rest
      BY <1>1, TurnFacts
    <2> QED BY <1>1, <2>1, ProgressTurned
  <1>2. CASE Failed(a)
    BY <1>2 DEF Failed, Turn, Progressing
  <1>3. CASE Spared(a)
    BY <1>3, ProgressSpared DEF Spared, Turn
  <1>4. CASE Begun(a)
    BY <1>4, ProgressBegun
  <1> QED BY <1>1, <1>2, <1>3, <1>4 DEF Effect, Ended, TornEnd, Gone

\* And no step of another undoes it.
LEMMA ProgressOthers ==
    ASSUME Shape, OnlyRun, NEW a \in Actors, Effect(a), NEW b \in Actors \ {a},
           runs[b] # Rest => Progressing(runs[b], disk), runs'[b] # Rest
    PROVE  Progressing(runs'[b], disk')
  <1>1. runs[b] # Rest
    BY OthersStep
  <1>2. DOMAIN runs[b] = RunFields
    BY <1>1, RunFacts
  <1>3. CASE runs'[b] = [runs[b] EXCEPT !.alone = FALSE]
    <2>1. runs'[b].alone = FALSE
      BY <1>2, <1>3 DEF RunFields
    <2> QED BY <2>1 DEF Progressing
  <1>4. CASE runs'[b] = runs[b] /\ ~Begun(a)
    <2>1. runs[a] # Rest
      BY <1>4 DEF Effect, Passed, Looked, Copied, Put_, Swapped, Failed, Spared, Ended,
         TornEnd, Ahead, Turn, Gone
    <2>2. ~runs[b].alone
      BY <1>1, <2>1 DEF OnlyRun
    <2> QED BY <1>4, <2>2 DEF Progressing
  <1>5. CASE runs'[b] = runs[b] /\ Begun(a)
    BY <1>1, <1>3, <1>5 DEF Begun
  <1> QED BY <1>3, <1>4, <1>5, OthersStep

\* The user adds to a file.
LEMMA StandsUser ==
    ASSUME Shape, UserWrites, NEW tool, NEW f \in Files, Stands(tool, f)
    PROVE  Stands(tool, f)'
  <1>1. UNCHANGED runs /\ disk[f] \subseteq disk'[f]
    BY DEF UserWrites, Shape
  <1> QED BY <1>1 DEF Stands, Good

\* What a run reports as applied is in its files when it ends.
LEMMA StandsAtEnd ==
    ASSUME Shape, AllSane, OnlyRun, NEW a \in Actors, Ended(a), runs[a].alone,
           Progressing(runs[a], disk), ~runs[a].failed, runs[a].todo = <<>>,
           NEW tool, tool = runs[a].tool, NEW f \in PatchedBy(tool)
    PROVE  Stands(tool, f)'
  <1>1. Good(disk[f], tool)
    BY DEF Progressing
  <1>2. \A b \in Actors : runs'[b] = Rest
    BY DEF Ended, Gone, OnlyRun
  <1>3. disk' = disk
    BY DEF Ended
  <1> QED BY <1>1, <1>2, <1>3 DEF Stands

\* Every step keeps what was applied.
LEMMA AppliedInvStep ==
    ASSUME AppliedInv, PatchesNext
    PROVE  AppliedInv'
  <1>1. Shape /\ AllSane /\ OnlyRun
    BY DEF AppliedInv
  <1>2. (Shape /\ AllSane)'
    BY <1>1, ShapeStep
  <1>3. CASE UserWrites
    <2>1. UNCHANGED <<runs, evidence>> /\ \A f \in Files : disk[f] \subseteq disk'[f]
      BY <1>1, <1>3 DEF UserWrites, Shape
    <2>2. ASSUME NEW b \in Actors, runs[b] # Rest PROVE Progressing(runs[b], disk')
      <3>1. Running(runs[b]) /\ Progressing(runs[b], disk)
        BY <1>1, <2>2 DEF Shape, AppliedInv
      <3>2. \A f \in PatchedBy(runs[b].tool) : disk[f] \subseteq disk'[f]
        BY <2>1, <3>1, PatchedIn DEF Running
      <3> QED BY <3>1, <3>2 DEF Progressing, Good
    <2>3. ASSUME NEW i \in DOMAIN evidence, evidence[i].alone, evidence[i].outcome = "applied",
                 NEW f \in PatchedBy(evidence[i].tool) \ evidence[i].over, NEW tool,
                 tool = evidence[i].tool
          PROVE  tool \in Tools /\ Stands(tool, f)'
      <3>1. tool \in Tools /\ Stands(tool, f)
        BY <2>3 DEF AppliedInv
      <3>2. f \in Files
        BY <2>3, <3>1, PatchedIn
      <3> QED BY <1>1, <1>3, <3>1, <3>2, StandsUser
    <2>4. OnlyRun'
      BY <1>1, <2>1 DEF OnlyRun
    <2> QED BY <1>2, <2>1, <2>2, <2>3, <2>4 DEF AppliedInv
  <1>4. ASSUME NEW a \in Actors, Effect(a) PROVE AppliedInv'
    <2>1. OnlyRun'
      BY <1>1, <1>4, OnlyRunStep
    <2>2. \A b \in Actors : runs'[b] # Rest => Progressing(runs'[b], disk')
      BY <1>1, <1>4, ProgressOwn, ProgressOthers DEF AppliedInv
    <2>3. Recorded /\ \A i \in DOMAIN evidence : Kept(evidence[i], evidence'[i])
      BY <1>1, <1>4, RecordsStep DEF Shape, Recorded
    <2>4. ASSUME NEW i \in DOMAIN evidence, evidence'[i].alone, evidence'[i].outcome = "applied",
                 NEW tool, tool = evidence'[i].tool,
                 NEW f \in PatchedBy(tool) \ evidence'[i].over
          PROVE  tool \in Tools /\ Stands(tool, f)'
      <3>1. /\ evidence[i].alone /\ evidence[i].outcome = "applied" /\ evidence[i].tool = tool
            /\ evidence[i].over \subseteq evidence'[i].over
        BY <1>1, <1>4, <2>3, <2>4, RecordsStep DEF Kept
      <3>2. tool \in Tools /\ Stands(tool, f)
        BY <2>4, <3>1 DEF AppliedInv
      <3>3. f \in Files
        BY <2>4, <3>2, PatchedIn
      <3>4. Overwritten(File(a)) => f # File(a)
        BY <2>3, <2>4, RecordsOver
      <3> QED BY <1>1, <1>4, <3>2, <3>3, <3>4, StandsStep
    <2>5. CASE Ended(a) \/ TornEnd(a)
      <3>1. PICK outcome, wrote, changed :
               /\ evidence' = Append(evidence, Outcome(runs[a], disk, outcome, wrote, changed))
               /\ outcome = "applied" => Ended(a) /\ ~runs[a].failed /\ runs[a].todo = <<>>
        <4>1. CASE Ended(a)
          BY <4>1 DEF Ended
        <4>2. CASE TornEnd(a)
          <5>1. evidence' = Append(evidence, Outcome(runs[a], disk, "cut",
                   ToSet(runs[a].wrote) \cup {File(a)}, {File(a)})) /\ "cut" # "applied"
            BY <4>2 DEF TornEnd
          <5> QED BY <5>1
        <4> QED BY <2>5, <4>1, <4>2
      <3>2. PICK r : r = Outcome(runs[a], disk, outcome, wrote, changed)
        OBVIOUS
      <3>3. DOMAIN r = EndFields /\ r.tool = runs[a].tool /\ r.alone = runs[a].alone
            /\ r.outcome = outcome /\ evidence' = Append(evidence, r)
        BY <3>1, <3>2 DEF Outcome, EndFields
      <3>4. /\ DOMAIN evidence' = DOMAIN evidence \cup {Len(evidence) + 1}
            /\ evidence'[Len(evidence) + 1] = r
        BY <2>3, <3>3, RecordsMore
      <3>5. runs[a] # Rest
        BY <2>5 DEF Ended, TornEnd, Gone
      <3>6. runs[a].tool \in Tools /\ Progressing(runs[a], disk)
        BY <1>1, <3>5 DEF Shape, Running, AppliedInv
      <3>7. ASSUME r.alone, r.outcome = "applied", NEW tool, tool = r.tool, NEW f \in PatchedBy(tool)
            PROVE  Stands(tool, f)'
        BY <1>1, <3>1, <3>3, <3>6, <3>7, StandsAtEnd
      <3>8. ASSUME NEW i \in DOMAIN evidence', evidence'[i].alone,
                   evidence'[i].outcome = "applied", NEW tool, tool = evidence'[i].tool,
                   NEW f \in PatchedBy(tool) \ evidence'[i].over
            PROVE  tool \in Tools /\ Stands(tool, f)'
        BY <2>4, <3>3, <3>4, <3>6, <3>7, <3>8
      <3>9. ASSUME NEW i \in DOMAIN evidence', evidence'[i].alone,
                   evidence'[i].outcome = "applied"
            PROVE  evidence'[i].tool \in Tools
        BY <2>3, <3>3, <3>4, <3>6, <3>9 DEF AppliedInv, Kept
      <3> QED BY <1>2, <2>1, <2>2, <3>8, <3>9 DEF AppliedInv
    <2>6. CASE ~(Ended(a) \/ TornEnd(a))
      <3>1. DOMAIN evidence' = DOMAIN evidence
        <4>1. CASE Overwritten(File(a))
          BY <4>1 DEF Overwritten
        <4>2. CASE UNCHANGED evidence
          BY <4>2
        <4> QED BY <1>4, <2>6, <4>1, <4>2 DEF Effect, Passed, Looked, Copied, Put_, Swapped,
                   Failed, Spared, Begun
      <3>2. ASSUME NEW i \in DOMAIN evidence', evidence'[i].alone,
                   evidence'[i].outcome = "applied"
            PROVE  evidence'[i].tool \in Tools
        BY <2>3, <3>1, <3>2 DEF AppliedInv, Kept
      <3> QED BY <1>2, <2>1, <2>2, <2>4, <3>1, <3>2 DEF AppliedInv
    <2> QED BY <2>5, <2>6
  <1> QED BY <1>1, <1>3, <1>4, StepEffects

\* The invariant behind AppliedStays.
LEMMA AppliedInvHolds ==
    ASSUME NEW CONSTANT events
    PROVE  PatchesInit(events) /\ [][PatchesNext]_patchVars => []AppliedInv
  <1>1. PatchesInit(events) => AppliedInv
    BY ShapeInit DEF PatchesInit, AppliedInv, OnlyRun
  <1>2. AppliedInv /\ UNCHANGED patchVars => AppliedInv'
    BY DEF AppliedInv, patchVars, Shape, AllSane, OnlyRun, Stands
  <1> QED BY <1>1, <1>2, AppliedInvStep, PTL

\* The change of a tool that reported its run, which no other run overlapped, as
\* applied stays in each file it patched through every later run, until a copy of
\* the lab build, a rollback or a torn write takes the place of the file.
THEOREM AppliedStaysHolds ==
    ASSUME NEW CONSTANT events
    PROVE  PatchesInit(events) /\ [][PatchesNext]_patchVars => []AppliedStays
  <1>1. AppliedInv => AppliedStays
    BY DEF AppliedInv, AppliedStays, Stands, Good, ToSet
  <1> QED BY <1>1, AppliedInvHolds, PTL

(***************************************************************************)
(* The manifest.                                                                *)
(***************************************************************************)

\* The manifest stays, and what is written is known to have moved.
Unsealed(a) ==
    /\ UNCHANGED <<seal, sealed>> /\ moved \subseteq moved'
    /\ \A f \in Files : f \in moved' \/ disk'[f] = disk[f]
    /\ Passed(a) => Do(a) # "verify"

Verified(a) ==
    /\ Do(a) = "verify" /\ disk[File(a)] = seal[File(a)]
    /\ Passed(a) /\ moved' = moved \ {File(a)} /\ UNCHANGED <<seal, sealed>>

Sealed(a) ==
    /\ Do(a) = "writeSeal" /\ Passed(a) /\ sealed' = a

Vouching(a) ==
    /\ sealed = a /\ Gone(a) /\ runs[a].tool = "reseal"
    /\ ~runs[a].failed /\ runs[a].todo = <<>>
    /\ UNCHANGED <<disk, seal, moved>> /\ sealed' \in {sealed, "yes"}

SealStep(a) == Unsealed(a) \/ Verified(a) \/ Sealed(a) \/ Vouching(a)

\* A run that is over has not gone on.
LEMMA GoneNotPassed ==
    ASSUME Shape, NEW a \in Actors, runs'[a] = Rest
    PROVE  ~Passed(a)
  BY DEF Passed, Ahead, Turn, RunFields, Rest

\* An exception leaves the manifest.
LEMMA ThrowUnsealed ==
    ASSUME Shape, NEW a \in Actors, Throw(a), runs[a] # Rest,
           UNCHANGED <<disk, seal, moved, users>>
    PROVE  Effect(a) /\ SealStep(a)
  <1>1. Failed(a) \/ Ended(a)
    BY ThrowFails
  <1>2. UNCHANGED sealed
    BY DEF Throw, EndAs
  <1>3. ~Passed(a)
    BY RunFacts DEF Throw, EndAs, Passed, Ahead, Turn, RunFields, Rest
  <1> QED BY <1>1, <1>2, <1>3 DEF Effect, SealStep, Unsealed

\* A write notes its file as moved.
LEMMA PutUnsealed ==
    ASSUME Shape, NEW a \in Actors, NEW content, UNCHANGED <<seal, sealed>>,
           disk' = [disk EXCEPT ![File(a)] = content], moved' = moved \cup {File(a)},
           Do(a) # "verify"
    PROVE  SealStep(a)
  BY DEF SealStep, Unsealed, Shape

\* What every step does to the manifest.
LEMMA SealMoves ==
    ASSUME Shape, PatchesNext
    PROVE  UserWrites \/ \E a \in Actors : Effect(a) /\ SealStep(a)
  <1>1. ASSUME NEW a \in Actors, BeginTool(a) \/ BeginRollback(a)
        PROVE  Effect(a) /\ SealStep(a)
    <2>1. UNCHANGED <<disk, seal, sealed, moved>> /\ Begun(a) /\ runs[a] = Rest
      <3>1. CASE BeginTool(a)
        <4>1. PICK tool \in Tools \ {"rollback"} : Begin(a, tool, <<>>)
          BY <3>1 DEF BeginTool
        <4> QED BY <4>1, BeginEffect DEF Begin
      <3>2. CASE BeginRollback(a)
        <4>1. PICK i \in DOMAIN evidence : Begin(a, "rollback", evidence[i].saved)
          BY <3>2 DEF BeginRollback
        <4>2. "rollback" \in Tools /\ evidence # <<>>
          BY <4>1, ToolsKnown DEF Shape
        <4> QED BY <4>1, <4>2, BeginEffect DEF Begin
      <3> QED BY <1>1, <3>1, <3>2
    <2>2. ~Passed(a)
      BY <2>1 DEF Passed, Ahead, Turn
    <2> QED BY <2>1, <2>2 DEF Effect, SealStep, Unsealed
  <1>2. ASSUME NEW a \in Actors, EndRun(a) PROVE Effect(a) /\ SealStep(a)
    <2>1. Ended(a)
      BY <1>2, EndEffect
    <2>2. ~Passed(a)
      <3>1. runs[a].todo = <<>>
        BY <1>2 DEF EndRun
      <3> QED BY <3>1 DEF Passed, Ahead
    <2>3. UNCHANGED <<disk, seal, moved>>
      BY <1>2 DEF EndRun
    <2>4. CASE UNCHANGED sealed
      BY <2>1, <2>2, <2>3, <2>4 DEF Effect, SealStep, Unsealed
    <2>5. CASE ~UNCHANGED sealed
      <3>1. /\ sealed = a /\ runs[a].tool = "reseal" /\ runs[a].todo = <<>>
            /\ ~runs[a].failed /\ sealed' = "yes"
        BY <1>2, <2>5 DEF EndRun, EndAs
      <3> QED BY <2>1, <2>3, <3>1 DEF Ended, Effect, SealStep, Vouching
    <2> QED BY <2>4, <2>5
  <1>3. ASSUME NEW a \in Actors, StepFails(a) PROVE Effect(a) /\ SealStep(a)
    BY <1>3, ThrowUnsealed DEF StepFails
  <1>4. ASSUME NEW a \in Actors, Crash(a) PROVE Effect(a) /\ SealStep(a)
    <2>1. (Ended(a) \/ TornEnd(a)) /\ runs'[a] = Rest
      BY <1>4, CrashEffect DEF Ended, TornEnd, Gone
    <2>2. UNCHANGED <<seal, sealed>>
      BY <1>4 DEF Crash, EndAs
    <2>3. ~Passed(a)
      BY <2>1, GoneNotPassed
    <2>4. \/ UNCHANGED <<disk, moved>>
          \/ disk' = [disk EXCEPT ![File(a)] = Torn] /\ moved' = moved \cup {File(a)}
      BY <1>4 DEF Crash
    <2> QED BY <2>1, <2>2, <2>3, <2>4 DEF Effect, SealStep, Unsealed, Shape
  <1>5. ASSUME NEW a \in Actors, Read(a) \/ Backup(a) \/ LogoSource(a) \/ WriteReport(a)
        PROVE  Effect(a) /\ SealStep(a)
    <2>1. Effect(a)
      BY <1>5, ReadEffect, BackupEffect, LogoEffect, ReportEffect DEF Effect
    <2>2. UNCHANGED <<disk, seal, sealed, moved>> /\ Do(a) # "verify"
      BY <1>5 DEF Read, Backup, LogoSource, WriteReport, At, Do
    <2> QED BY <2>1, <2>2 DEF SealStep, Unsealed
  <1>6. ASSUME NEW a \in Actors, CodexRoute(a) PROVE Effect(a) /\ SealStep(a)
    <2>1. Effect(a)
      BY <1>6, RouteEffect DEF Effect
    <2>2. UNCHANGED <<disk, seal, sealed, moved>> /\ Do(a) # "verify"
      <3>1. UNCHANGED <<disk, seal, moved>> /\ Do(a) # "verify"
        BY <1>6 DEF CodexRoute, At, Do
      <3>2. UNCHANGED sealed
        BY <1>6 DEF CodexRoute, Throw, EndAs
      <3> QED BY <3>1, <3>2
    <2> QED BY <2>1, <2>2 DEF SealStep, Unsealed
  <1>7. ASSUME NEW a \in Actors, Check(a) PROVE Effect(a) /\ SealStep(a)
    <2>1. runs[a] # Rest /\ runs[a].todo # <<>> /\ UNCHANGED <<disk, seal, users>>
      BY <1>7 DEF Check, At
    <2>2. CASE ~Passes(runs[a], Do(a), File(a))
      <3>1. Throw(a) /\ UNCHANGED moved
        BY <1>7, <2>2 DEF Check, Do
      <3> QED BY <2>1, <3>1, ThrowUnsealed
    <2>3. CASE Passes(runs[a], Do(a), File(a))
      <3>1. /\ Going(a, runs[a]) /\ UNCHANGED <<evidence, sealed>>
            /\ moved' = IF Do(a) = "verify" THEN moved \ {File(a)} ELSE moved
        BY <1>7, <2>3 DEF Check, Do
      <3>2. Ahead(a, runs[a].held, runs[a].saved, runs[a].wrote) /\ runs'[a] # Rest
            /\ runs'[a].failed = runs[a].failed
        <4>1. Ahead(a, runs[a].held, runs[a].saved, runs[a].wrote)
          BY <2>1, <3>1, SamePass
        <4> QED BY <4>1 DEF Ahead, Turn, RunFields, Rest
      <3>3. ~Ended(a) /\ ~Failed(a)
        BY <3>2, RunFacts DEF Ended, Gone, Failed, Turn
      <3>4. Passed(a)
        BY <1>7, <3>3, CheckEffect
      <3>5. CASE Do(a) = "verify"
        <4>1. disk[File(a)] = seal[File(a)]
          BY <2>3, <3>5 DEF Passes, Compared
        <4> QED BY <2>1, <3>1, <3>4, <3>5, <4>1 DEF Effect, SealStep, Verified
      <3>6. CASE Do(a) # "verify"
        BY <2>1, <3>1, <3>4, <3>6 DEF Effect, SealStep, Unsealed
      <3> QED BY <3>5, <3>6
    <2> QED BY <2>2, <2>3
  <1>8. ASSUME NEW a \in Actors, Write(a) PROVE Effect(a) /\ SealStep(a)
    <2>1. Effect(a)
      BY <1>8, WriteEffect DEF Effect
    <2>2. runs[a] # Rest /\ UNCHANGED <<seal, users>> /\ Do(a) # "verify"
      BY <1>8 DEF Write, At, Do, Always
    <2>3. CASE Throw(a) /\ UNCHANGED <<disk, moved>>
      BY <2>2, <2>3, ThrowUnsealed
    <2>4. CASE UNCHANGED <<disk, moved, sealed>>
      BY <2>1, <2>2, <2>4 DEF SealStep, Unsealed
    <2>5. CASE UNCHANGED sealed /\ \E content : Put(a, File(a), content)
      BY <2>1, <2>2, <2>5, PutUnsealed DEF Put
    <2> QED BY <1>8, <2>3, <2>4, <2>5 DEF Write
  <1>9. ASSUME NEW a \in Actors,
               CopyIn(a) \/ SwapChunk(a) \/ RepairDevice(a) \/ Restore(a) \/ PutBack(a)
        PROVE  Effect(a) /\ SealStep(a)
    <2>1. Effect(a)
      BY <1>9, OtherPuts, SwapEffect DEF Effect
    <2>2. UNCHANGED <<seal, sealed>> /\ Do(a) # "verify"
      BY <1>9 DEF CopyIn, SwapChunk, RepairDevice, Restore, PutBack, At, Do
    <2>3. \E content : disk' = [disk EXCEPT ![File(a)] = content] /\ moved' = moved \cup {File(a)}
      BY <1>9 DEF CopyIn, SwapChunk, RepairDevice, Restore, PutBack, Put
    <2> QED BY <2>1, <2>2, <2>3, PutUnsealed
  <1>10. ASSUME NEW a \in Actors, WriteSeal(a) PROVE Effect(a) /\ SealStep(a)
    BY <1>10, SealEffect DEF WriteSeal, At, Do, Effect, SealStep, Sealed
  <1> QED BY <1>1, <1>2, <1>3, <1>4, <1>5, <1>6, <1>7, <1>8, <1>9, <1>10 DEF PatchesNext

\* A file the manifest records as it is, or that has moved since.
Faithful(f) == f \in moved \/ seal[f] = disk[f]

SealInv ==
    /\ Shape /\ AllSane
    /\ sealed = "yes" => \A f \in ToSet(Release) : Faithful(f)
    /\ \A a \in Actors : runs[a] # Rest /\ ~runs[a].failed /\ runs[a].tool = "reseal" =>
          /\ VerifiesAll(runs[a].todo)
          /\ sealed = a => \A f \in ToSet(Release) :
                Faithful(f) \/ \E i \in DOMAIN runs[a].todo : runs[a].todo[i] = <<"verify", f>>

\* After the manifest is written all of it is still to be verified.
LEMMA VerifiesTail ==
    ASSUME NEW s \in Seq(Steps), s # <<>>, VerifiesAll(s)
    PROVE  /\ VerifiesAll(Tail(s))
           /\ Head(s)[1] = "writeSeal" => \A f \in ToSet(Release) :
                 \E i \in DOMAIN Tail(s) : Tail(s)[i] = <<"verify", f>>
  <1>1. ASSUME NEW i \in DOMAIN Tail(s), Tail(s)[i][1] = "writeSeal", NEW f \in ToSet(Release)
        PROVE  \E j \in DOMAIN Tail(s) : j > i /\ Tail(s)[j] = <<"verify", f>>
    <2>1. i + 1 \in DOMAIN s /\ Tail(s)[i] = s[i + 1] /\ i \in Nat /\ i > 0
      BY <1>1, TailSteps
    <2>2. PICK j \in DOMAIN s : j > i + 1 /\ s[j] = <<"verify", f>>
      BY <1>1, <2>1 DEF VerifiesAll
    <2>3. j \in DOMAIN s \ {1} /\ j - 1 > i
      BY <2>1, <2>2
    <2>4. j - 1 \in DOMAIN Tail(s) /\ Tail(s)[j - 1] = s[j]
      BY <2>3, TailSteps
    <2> QED BY <2>2, <2>3, <2>4
  <1>2. ASSUME Head(s)[1] = "writeSeal", NEW f \in ToSet(Release)
        PROVE  \E i \in DOMAIN Tail(s) : Tail(s)[i] = <<"verify", f>>
    <2>1. s[1][1] = "writeSeal" /\ 1 \in DOMAIN s
      BY <1>2, TailSteps
    <2>2. PICK j \in DOMAIN s : j > 1 /\ s[j] = <<"verify", f>>
      BY <1>2, <2>1 DEF VerifiesAll
    <2>3. j \in DOMAIN s \ {1}
      BY <2>2
    <2>4. j - 1 \in DOMAIN Tail(s) /\ Tail(s)[j - 1] = s[j]
      BY <2>3, TailSteps
    <2> QED BY <2>2, <2>4
  <1> QED BY <1>1, <1>2 DEF VerifiesAll

\* What a reseal that has not failed has left to do, after a step of its shell.
LEMMA ResealTurned ==
    ASSUME SealInv, NEW a \in Actors, Effect(a),
           runs'[a] # Rest, ~runs'[a].failed, runs'[a].tool = "reseal"
    PROVE  /\ VerifiesAll(runs'[a].todo)
           /\ \/ \A f \in ToSet(Release) :
                    \E i \in DOMAIN runs'[a].todo : runs'[a].todo[i] = <<"verify", f>>
              \/ /\ runs[a] # Rest /\ ~runs[a].failed /\ runs[a].tool = "reseal"
                 /\ runs[a].todo # <<>> /\ runs[a].todo \in Seq(Steps)
                 /\ runs'[a].todo = Tail(runs[a].todo)
                 /\ Passed(a) \/ Do(a) # "verify"
  <1>1. CASE Begun(a)
    <2>1. runs'[a].todo = Reseal
      BY <1>1 DEF Begun, StepsOf
    <2>2. PICK i \in DOMAIN Reseal : Reseal[i][1] = "writeSeal"
      BY ResealSteps
    <2> QED BY <2>1, <2>2, ResealSteps DEF VerifiesAll
  <1>2. CASE Passed(a) \/ Looked(a) \/ Copied(a) \/ Put_(a) \/ Swapped(a)
    <2>1. /\ runs[a] # Rest /\ ~runs[a].failed /\ runs[a].tool = "reseal"
          /\ runs[a].todo # <<>> /\ runs'[a].todo = Tail(runs[a].todo)
      BY <1>2 DEF Passed, Looked, Copied, Put_, Swapped, Ahead, Turn
    <2>2. Passed(a) \/ Do(a) # "verify"
      BY <1>2 DEF Looked, Copied, Put_, Swapped, Keeps, Puts, Writes, Always
    <2>3. runs[a].todo \in Seq(Steps) /\ VerifiesAll(runs[a].todo)
      BY <2>1 DEF SealInv, Shape, Running
    <2> QED BY <2>1, <2>2, <2>3, VerifiesTail
  <1>3. CASE Failed(a) \/ Ended(a) \/ TornEnd(a)
    BY <1>3 DEF Failed, Ended, TornEnd, Gone, Turn
  <1>4. CASE Spared(a)
    <2>1. /\ runs[a] # Rest /\ ~runs[a].failed /\ runs[a].tool = "reseal"
          /\ runs[a].todo # <<>> /\ Do(a) \in Keeps \cup {"stale", "source"}
      BY <1>4 DEF Spared, Turn
    <2>2. Running(runs[a]) /\ Sane(runs[a])
      BY <2>1 DEF SealInv, Shape, AllSane
    <2>3. Do(a) \in {"read", "writeSeal", "verify"}
      BY <2>1, <2>2, HeadSuits DEF Do
    <2> QED BY <2>1, <2>3 DEF Keeps
  <1> QED BY <1>1, <1>2, <1>3, <1>4 DEF Effect

\* No step but the writing of the manifest makes a file of it untrue.
LEMMA TruthStays ==
    ASSUME Shape, NEW a \in Actors, Unsealed(a) \/ Verified(a) \/ Vouching(a),
           NEW f \in ToSet(Release), Faithful(f)
    PROVE  Faithful(f)'
  <1>1. f \in Files
    BY ReleaseSeq
  <1>2. CASE Unsealed(a)
    BY <1>1, <1>2 DEF Unsealed, Faithful
  <1>3. CASE Verified(a)
    BY <1>3 DEF Verified, Faithful, Passed
  <1>4. CASE Vouching(a)
    BY <1>4 DEF Vouching, Faithful
  <1> QED BY <1>2, <1>3, <1>4

\* A file is true, or the reseal still has to verify it.
Covered(todo, f) == Faithful(f) \/ \E i \in DOMAIN todo : todo[i] = <<"verify", f>>

\* A file is verified before the reseal forgets it.
LEMMA CoverStays ==
    ASSUME SealInv, NEW a \in Actors, Effect(a), SealStep(a), sealed' = a,
           runs'[a] # Rest, ~runs'[a].failed, runs'[a].tool = "reseal",
           NEW f \in ToSet(Release)
    PROVE  Covered(runs[a].todo, f)'
  <1> DEFINE s == runs[a].todo
             Pending(t) == \E i \in DOMAIN t : t[i] = <<"verify", f>>
  <1>1. CASE Pending(runs'[a].todo)
    BY <1>1 DEF Covered
  <1>2. CASE /\ runs[a] # Rest /\ ~runs[a].failed /\ runs[a].tool = "reseal"
             /\ s # <<>> /\ s \in Seq(Steps) /\ runs'[a].todo = Tail(s)
             /\ Passed(a) \/ Do(a) # "verify"
    <2>1. CASE Sealed(a)
      <3>1. VerifiesAll(s) /\ Head(s)[1] = "writeSeal"
        BY <1>2, <2>1 DEF SealInv, Sealed, Do
      <3>2. Pending(Tail(s))
        BY <1>2, <3>1, VerifiesTail
      <3> QED BY <1>1, <1>2, <3>2
    <2>2. CASE Unsealed(a) \/ Verified(a)
      <3>1. sealed = a
        BY <2>2 DEF Unsealed, Verified
      <3>2. Faithful(f) \/ Pending(s)
        BY <1>2, <3>1 DEF SealInv
      <3>3. CASE Faithful(f)
        BY <2>2, <3>3, TruthStays DEF SealInv, Covered
      <3>4. CASE Pending(s)
        <4>1. PICK i \in DOMAIN s : s[i] = <<"verify", f>>
          BY <3>4
        <4>2. CASE i = 1
          <5>1. Do(a) = "verify" /\ File(a) = f
            BY <1>2, <4>1, <4>2, TailSteps DEF Do, File
          <5>2. Verified(a)
            BY <1>2, <2>2, <5>1 DEF Unsealed
          <5>3. Faithful(f)'
            BY <5>1, <5>2 DEF Verified, Faithful, Passed
          <5> QED BY <5>3 DEF Covered
        <4>3. CASE i # 1
          <5>1. i - 1 \in DOMAIN Tail(s) /\ Tail(s)[i - 1] = <<"verify", f>>
            <6>1. i \in DOMAIN s \ {1}
              BY <4>3
            <6> QED BY <1>2, <4>1, <6>1, TailSteps
          <5> QED BY <1>1, <1>2, <5>1
        <4> QED BY <4>2, <4>3
      <3> QED BY <3>2, <3>3, <3>4
    <2>3. CASE Vouching(a)
      BY <2>3 DEF Vouching, Gone
    <2> QED BY <2>1, <2>2, <2>3 DEF SealStep
  <1> QED BY <1>1, <1>2, ResealTurned

\* Every step keeps the manifest true, or known to be unverified.
LEMMA SealInvStep ==
    ASSUME SealInv, PatchesNext
    PROVE  SealInv'
  <1>1. Shape /\ AllSane /\ (Shape /\ AllSane)'
    BY ShapeStep DEF SealInv
  <1>2. CASE UserWrites
    <2>1. UNCHANGED <<seal, sealed, moved, runs>>
          /\ \A f \in ToSet(Release) : disk'[f] = disk[f]
      BY <1>1, <1>2, ReleaseSeq DEF UserWrites, Shape
    <2> QED BY <1>1, <2>1 DEF SealInv, Faithful
  <1>3. ASSUME NEW a \in Actors, Effect(a), SealStep(a) PROVE SealInv'
    <2>1. ASSUME sealed' = "yes", NEW f \in ToSet(Release) PROVE Faithful(f)'
      <3>1. ~Sealed(a)
        BY <2>1, ActorsAssumption DEF Sealed
      <3>2. Faithful(f)
        <4>1. CASE sealed = "yes"
          BY <4>1 DEF SealInv
        <4>2. CASE sealed # "yes"
          <5>1. Vouching(a)
            BY <1>3, <2>1, <3>1, <4>2 DEF SealStep, Unsealed, Verified
          <5>2. DOMAIN runs[a].todo = {}
            BY <5>1 DEF Vouching
          <5> QED BY <5>1, <5>2 DEF Vouching, SealInv, Gone
        <4> QED BY <4>1, <4>2
      <3> QED BY <1>1, <1>3, <3>1, <3>2, TruthStays DEF SealStep
    <2>2. ASSUME NEW b \in Actors, runs'[b] # Rest, ~runs'[b].failed, runs'[b].tool = "reseal"
          PROVE  /\ VerifiesAll(runs'[b].todo)
                 /\ sealed' = b => \A f \in ToSet(Release) : Covered(runs[b].todo, f)'
      <3>1. CASE b = a
        BY <1>3, <2>2, <3>1, ResealTurned, CoverStays
      <3>2. CASE b # a
        <4>1. /\ runs[b] # Rest /\ ~runs[b].failed /\ runs[b].tool = "reseal"
              /\ runs'[b].todo = runs[b].todo
          <5>1. CASE runs'[b] = runs[b]
            BY <2>2, <5>1
          <5>2. CASE runs[b] # Rest /\ runs'[b] = [runs[b] EXCEPT !.alone = FALSE]
            BY <1>1, <2>2, <5>2, RunFacts DEF RunFields
          <5> QED BY <1>1, <1>3, <3>2, <5>1, <5>2, OthersStep
        <4>2. VerifiesAll(runs[b].todo)
          BY <4>1 DEF SealInv
        <4>3. ASSUME sealed' = b, NEW f \in ToSet(Release)
              PROVE  Covered(runs[b].todo, f)'
          <5>1. ~Sealed(a) /\ sealed = b
            BY <1>3, <3>2, <4>3, ActorsAssumption DEF SealStep, Sealed, Unsealed, Verified, Vouching
          <5>2. Covered(runs[b].todo, f)
            BY <4>1, <5>1 DEF SealInv, Covered
          <5>3. Faithful(f) => Faithful(f)'
            BY <1>1, <1>3, <5>1, TruthStays DEF SealStep
          <5> QED BY <4>1, <5>2, <5>3 DEF Covered
        <4> QED BY <4>1, <4>2, <4>3
      <3> QED BY <3>1, <3>2
    <2> QED BY <1>1, <2>1, <2>2 DEF SealInv, Covered
  <1> QED BY <1>1, <1>2, <1>3, SealMoves

\* The invariant behind SealHonest.
LEMMA SealInvHolds ==
    ASSUME NEW CONSTANT events
    PROVE  PatchesInit(events) /\ [][PatchesNext]_patchVars => []SealInv
  <1>1. PatchesInit(events) => SealInv
    <2>1. ASSUME PatchesInit(events), NEW f \in ToSet(Release) PROVE seal[f] = disk[f]
      BY <2>1, ReleaseSeq DEF PatchesInit
    <2> QED BY <2>1, ShapeInit DEF PatchesInit, SealInv, Faithful
  <1>2. SealInv /\ UNCHANGED patchVars => SealInv'
    BY DEF SealInv, patchVars, Shape, AllSane, Faithful
  <1> QED BY <1>1, <1>2, SealInvStep, PTL

\* However tools and reseals overlap, fail and are killed: a manifest that a
\* reseal reported as verified records every release file as it is, but for what
\* was written since the verification looked at it.
THEOREM SealHonestHolds ==
    ASSUME NEW CONSTANT events
    PROVE  PatchesInit(events) /\ [][PatchesNext]_patchVars => []SealHonest
  <1>1. SealInv => SealHonest
    BY DEF SealInv, SealHonest, Faithful
  <1> QED BY <1>1, SealInvHolds, PTL

(***************************************************************************)
(* What the user wrote.                                                         *)
(***************************************************************************)

Looks == {"read", "backup", "anchor", "undoAnchor"}
Makes == Always \cup {"replace", "append", "undo"}

\* A step in D on the file is to come, and no look at the file before it.
Live(s, D, f) ==
    \E i \in DOMAIN s :
        /\ s[i][2] = f /\ s[i][1] \in D
        /\ \A j \in 1 .. (i - 1) : ~(s[j][2] = f /\ s[j][1] \in Looks)

InCopy(copies, n) == users[n].file \in DOMAIN copies /\ UserMarks[n] \in copies[users[n].file]
InText(text, n) ==
    \/ UserMarks[n] \in text
    \/ (users[n].copied \/ users[n].file = "note") /\ Torn \subseteq text

\* A write of the user that no later step can lose.
Safe(n) ==
    \/ users[n].exposed
    \/ \E i \in DOMAIN evidence : InCopy(evidence[i].saved, n)
    \/ \E b \in Actors : runs[b] # Rest /\ InCopy(runs[b].saved, n)
    \/ users[n].file = "state" /\ \E i \in DOMAIN evidence : "state" \in evidence[i].over

\* What a run makes of its file has it, or it is safe.
Carried(c, n) ==
    /\ Live(c.todo, Makes, users[n].file) => Safe(n) \/ InText(c.held[users[n].file], n)
    /\ Live(c.todo, {"copy"}, users[n].file) => Safe(n)
    /\ c.tool = "allowlist" /\ users[n].file \in DOMAIN c.saved /\ users[n].file # "note" =>
          Safe(n) \/ users[n].copied

Surviving(n) ==
    /\ Safe(n) \/ InText(disk[users[n].file], n)
    /\ \A a \in Actors : runs[a] # Rest => Carried(runs[a], n)

Tidy(c) ==
    /\ \A i \in DOMAIN c.todo :
          c.todo[i][1] \in Keeps \cup {"stale"} => c.todo[i][2] \notin DOMAIN c.saved
    /\ c.tool = "outbound" => ToSet(c.wrote) \cap UserFiles = {}
    /\ c.tool = "rollback" => evidence # <<>>

UsersShaped ==
    /\ users \in Seq(ToSet(users))
    /\ \A n \in DOMAIN users : n \in DOMAIN UserMarks /\ users[n].file \in UserFiles

SettingsInv ==
    /\ Shape /\ AllSane /\ UsersShaped
    /\ \A a \in Actors : runs[a] # Rest => Tidy(runs[a])
    /\ ~(Torn \subseteq disk["workspace"])
    /\ \A n \in DOMAIN users : Surviving(n)

\* A step of the tail that is not preceded by a look was not before, or the head is one.
LEMMA LiveTail ==
    ASSUME NEW s \in Seq(Steps), s # <<>>, NEW D, NEW f, Live(Tail(s), D, f)
    PROVE  Live(s, D, f) \/ (Head(s)[2] = f /\ Head(s)[1] \in Looks)
  <1>1. PICK i \in DOMAIN Tail(s) :
           /\ Tail(s)[i][2] = f /\ Tail(s)[i][1] \in D
           /\ \A j \in 1 .. (i - 1) : ~(Tail(s)[j][2] = f /\ Tail(s)[j][1] \in Looks)
    BY DEF Live
  <1>2. i + 1 \in DOMAIN s /\ Tail(s)[i] = s[i + 1] /\ i \in Nat
    BY TailSteps
  <1>3. ASSUME ~(Head(s)[2] = f /\ Head(s)[1] \in Looks), NEW j \in 1 .. ((i + 1) - 1)
        PROVE  ~(s[j][2] = f /\ s[j][1] \in Looks)
    <2>1. CASE j = 1
      BY <1>3, <2>1, TailSteps
    <2>2. CASE j # 1
      <3>1. j \in DOMAIN s \ {1} /\ j - 1 \in 1 .. (i - 1)
        BY <1>2, <2>2
      <3>2. Tail(s)[j - 1] = s[j]
        BY <3>1, TailSteps
      <3> QED BY <1>1, <3>1, <3>2
    <2> QED BY <2>1, <2>2
  <1> QED BY <1>1, <1>2, <1>3 DEF Live

\* The next step has no look before it.
LEMMA LiveHead ==
    ASSUME NEW s \in Seq(Steps), s # <<>>, NEW D, Head(s)[1] \in D
    PROVE  Live(s, D, Head(s)[2])
  BY TailSteps DEF Live

\* A run that is about to write from what it holds holds it.
LEMMA LiveHeld ==
    ASSUME NEW c, Running(c), Sane(c), NEW f, Live(c.todo, Makes, f)
    PROVE  f \in DOMAIN c.held
  <1>1. PICK i \in DOMAIN c.todo :
           /\ c.todo[i][2] = f /\ c.todo[i][1] \in Makes
           /\ \A j \in 1 .. (i - 1) : ~(c.todo[j][2] = f /\ c.todo[j][1] \in Looks)
    BY DEF Live
  <1>2. CASE c.todo[i][1] \in Writes
    <2>1. SUFFICES ASSUME f \notin DOMAIN c.held PROVE FALSE
      OBVIOUS
    <2>2. PICK j \in 1 .. (i - 1) : c.todo[j][2] = f /\ c.todo[j][1] \in {"read"}
      BY <1>1, <1>2, <2>1 DEF Sane, Reading, ReadFirst, Before
    <2> QED BY <1>1, <2>2 DEF Looks
  <1>3. CASE c.todo[i][1] = "undo"
    <2>1. c.failed
      BY <1>3 DEF Sane, Suits
    <2>2. c.tool \in {"outbound", "tools", "doctor"} /\ f \in ToSet(c.wrote)
      BY <1>1, <1>3, <2>1 DEF Sane, Undoing
    <2> QED BY <2>2 DEF Sane, Reading
  <1> QED BY <1>1, <1>2, <1>3 DEF Makes, Writes

\* No run begins with a write that it has not looked for, or with a copy.
LEMMA NoneLiveBegun ==
    ASSUME NEW c, Running(c), Sane(c), DOMAIN c.held = {}, NEW f
    PROVE  ~Live(c.todo, Makes, f)
  BY LiveHeld

\* A copy over a file of the state home that may come without a look has been saved.
LEMMA LiveCopy ==
    ASSUME NEW c, Running(c), Sane(c), NEW f \in UserFiles, Live(c.todo, {"copy"}, f)
    PROVE  f \in DOMAIN c.saved
  <1>1. PICK i \in DOMAIN c.todo :
           /\ c.todo[i][2] = f /\ c.todo[i][1] = "copy"
           /\ \A j \in 1 .. (i - 1) : ~(c.todo[j][2] = f /\ c.todo[j][1] \in Looks)
    BY DEF Live
  <1>2. SUFFICES ASSUME f \notin DOMAIN c.saved PROVE FALSE
    OBVIOUS
  <1>3. f \notin (Files \ UserFiles) \cup DOMAIN c.saved
    BY <1>2
  <1>4. PICK j \in 1 .. (i - 1) : c.todo[j][2] = f /\ c.todo[j][1] \in {"backup"}
    BY <1>1, <1>3 DEF Sane, CopiedFirst, Before
  <1> QED BY <1>1, <1>4 DEF Looks

\* A catch writes no file of the state home without a look.
LEMMA NoneLiveFailed ==
    ASSUME NEW c, Running(c), Sane(c), Tidy(c), ~c.failed, NEW f \in UserFiles
    PROVE  ~Live(Undo(c), Makes \cup {"copy"}, f)
  <1>1. CASE c.tool \in {"tools", "doctor"}
    <2>1. Undo(c) = <<>> \/ Undo(c) = <<<<"undoAnchor", "config">>, <<"undo", "config">>>>
      BY <1>1 DEF Undo, InTurn, Step
    <2>2. CASE Undo(c) = <<>>
      BY <2>2 DEF Live
    <2>3. CASE Undo(c) = <<<<"undoAnchor", "config">>, <<"undo", "config">>>>
      <3> DEFINE s == <<<<"undoAnchor", "config">>, <<"undo", "config">>>>
      <3>1. DOMAIN s = 1 .. 2 /\ s[1] = <<"undoAnchor", "config">> /\ s[2] = <<"undo", "config">>
        OBVIOUS
      <3> HIDE DEF s
      <3>2. ASSUME NEW i \in DOMAIN s, s[i][2] = f, s[i][1] \in Makes \cup {"copy"},
                   \A j \in 1 .. (i - 1) : ~(s[j][2] = f /\ s[j][1] \in Looks)
            PROVE  FALSE
        <4>1. i = 2 /\ f = "config"
          BY <3>1, <3>2 DEF Makes, Always
        <4> QED BY <3>1, <3>2, <4>1 DEF Looks
      <3> QED BY <2>3, <3>2 DEF Live, s
    <2> QED BY <2>1, <2>2, <2>3
  <1>2. CASE c.tool \notin {"tools", "doctor"}
    <2>1. SUFFICES ASSUME NEW i \in DOMAIN Undo(c), Undo(c)[i][2] = f,
                          Undo(c)[i][1] \in Makes \cup {"copy"}
                   PROVE  FALSE
      BY DEF Live
    <2>2. Undo(c)[i][1] = "undo"
      BY <2>1, UndoSteps DEF Makes, Always
    <2>3. c.tool = "outbound" /\ f \in ToSet(c.wrote)
      BY <1>2, <2>1, <2>2, UndoSteps
    <2> QED BY <2>3 DEF Tidy
  <1> QED BY <1>1, <1>2

\* The user's marks are no tools, and no tool tears.
LEMMA MarksApart ==
    /\ \A n \in DOMAIN UserMarks : UserMarks[n] \notin Tools /\ UserMarks[n] # "torn"
    /\ "torn" \notin Tools /\ "lab" # "torn"
  <1>1. "torn" \notin Tools /\ "first write" \notin Tools /\ "second write" \notin Tools
    BY ToolsKnown
  <1>2. \A n \in DOMAIN UserMarks : UserMarks[n] \in {"first write", "second write"}
    <2>1. PICK x, y : x = "first write" /\ y = "second write"
      OBVIOUS
    <2>2. UserMarks = <<x, y>>
      BY <2>1 DEF UserMarks
    <2>3. \A n \in DOMAIN <<x, y>> : <<x, y>>[n] \in {x, y}
      OBVIOUS
    <2> QED BY <2>1, <2>2, <2>3, Zenon
  <1> QED BY <1>1, <1>2

\* A run is no rest.
LEMMA RunNoRest ==
    ASSUME NEW c, DOMAIN c = RunFields
    PROVE  c # Rest
  <1>1. DOMAIN Rest = {"tool"} /\ "todo" \in RunFields
    BY DEF Rest, RunFields
  <1> QED BY <1>1

\* The run of another shell keeps all but its being alone.
LEMMA OtherRun ==
    ASSUME Shape, NEW a \in Actors, Effect(a), NEW b \in Actors \ {a}, runs[b] # Rest \/ runs'[b] # Rest
    PROVE  /\ runs[b] # Rest /\ runs'[b] # Rest
           /\ runs'[b].tool = runs[b].tool /\ runs'[b].todo = runs[b].todo
           /\ runs'[b].held = runs[b].held /\ runs'[b].saved = runs[b].saved
           /\ runs'[b].wrote = runs[b].wrote
  <1>1. CASE runs'[b] = runs[b]
    BY <1>1
  <1>2. CASE runs[b] # Rest /\ runs'[b] = [runs[b] EXCEPT !.alone = FALSE]
    <2>1. DOMAIN runs[b] = RunFields
      BY <1>2, RunFacts
    <2>2. DOMAIN runs'[b] = RunFields
      BY <1>2, <2>1
    <2> QED BY <1>2, <2>1, <2>2, RunNoRest DEF RunFields
  <1> QED BY <1>1, <1>2, OthersStep

\* The run of the shell that moves.
LEMMA OwnRun ==
    ASSUME Shape, NEW a \in Actors, Effect(a)
    PROVE  /\ UNCHANGED users
           /\ Begun(a) \/ (runs[a] # Rest /\ DOMAIN runs[a] = RunFields)
           /\ Ended(a) \/ TornEnd(a) \/ (runs'[a] # Rest /\ DOMAIN runs'[a] = RunFields)
           /\ Begun(a) \/ Ended(a) \/ TornEnd(a) \/ runs'[a].tool = runs[a].tool
           /\ Begun(a) \/ Ended(a) \/ TornEnd(a) \/ Copied(a) \/ runs'[a].saved = runs[a].saved
  <1>1. UNCHANGED users
    BY DEF Effect, Passed, Looked, Copied, Put_, Swapped, Failed, Spared, Ended, TornEnd, Begun
  <1>2. Begun(a) \/ runs[a] # Rest
    BY DEF Effect, Passed, Looked, Copied, Put_, Swapped, Failed, Spared, Ended, TornEnd, Ahead,
           Turn, Gone
  <1>3. Ended(a) \/ TornEnd(a) \/ DOMAIN runs'[a] = RunFields
    BY DEF Effect, Passed, Looked, Copied, Put_, Swapped, Failed, Spared, Begun, Ahead, Turn
  <1>4. Begun(a) \/ Ended(a) \/ TornEnd(a) \/ runs'[a].tool = runs[a].tool
    BY DEF Effect, Passed, Looked, Copied, Put_, Swapped, Failed, Spared, Ahead, Turn
  <1>5. Begun(a) \/ Ended(a) \/ TornEnd(a) \/ Copied(a) \/ runs'[a].saved = runs[a].saved
    BY DEF Effect, Passed, Looked, Put_, Swapped, Failed, Spared, Ahead, Turn
  <1> QED BY <1>1, <1>2, <1>3, <1>4, <1>5, RunNoRest, RunFacts

\* What is safe stays so.
LEMMA SafeStays ==
    ASSUME SettingsInv, NEW a \in Actors, Effect(a), NEW n, Safe(n)
    PROVE  Safe(n)'
  <1>0. Shape /\ AllSane /\ UNCHANGED users
    BY OwnRun DEF SettingsInv
  <1>1. CASE users[n].exposed
    BY <1>0, <1>1 DEF Safe
  <1>2. ASSUME NEW i \in DOMAIN evidence, InCopy(evidence[i].saved, n) PROVE Safe(n)'
    <2>1. i \in DOMAIN evidence' /\ evidence'[i].saved = evidence[i].saved
      BY <1>0, RecordsStep DEF Kept
    <2> QED BY <1>0, <1>2, <2>1 DEF Safe, InCopy
  <1>3. ASSUME NEW b \in Actors, runs[b] # Rest, InCopy(runs[b].saved, n) PROVE Safe(n)'
    <2>1. CASE b # a
      <3>1. runs'[b] # Rest /\ runs'[b].saved = runs[b].saved
        BY <1>0, <1>3, <2>1, OtherRun
      <3> QED BY <1>0, <1>3, <3>1 DEF Safe, InCopy
    <2>2. CASE b = a /\ (Ended(a) \/ TornEnd(a))
      <3>1. PICK content, outcome, wrote, changed :
               evidence' = Append(evidence, Outcome(runs[a], content, outcome, wrote, changed))
        BY <2>2 DEF Ended, TornEnd
      <3>2. PICK r : r = Outcome(runs[a], content, outcome, wrote, changed)
        OBVIOUS
      <3>4. DOMAIN r = EndFields /\ r.saved = runs[a].saved
        BY <3>2 DEF Outcome, EndFields
      <3>3. Len(evidence) + 1 \in DOMAIN evidence' /\ evidence'[Len(evidence) + 1] = r
        BY <1>0, <3>1, <3>2, <3>4, RecordsMore DEF Shape, Recorded
      <3> QED BY <1>0, <1>3, <2>2, <3>3, <3>4 DEF Safe, InCopy
    <2>3. CASE b = a /\ Copied(a)
      <3>1. runs[a].todo \in Seq(Steps) /\ runs[a].todo[1] = Head(runs[a].todo)
            /\ 1 \in DOMAIN runs[a].todo
        BY <1>0, <2>3, TurnFacts
      <3>2. File(a) \notin DOMAIN runs[a].saved
        BY <1>3, <2>3, <3>1 DEF SettingsInv, Tidy, Copied, Do, File
      <3>3. PICK text : runs'[a].saved = With(runs[a].saved, File(a), text)
        BY <2>3 DEF Copied, Ahead, Turn
      <3>4. /\ users[n].file \in DOMAIN runs'[a].saved
            /\ runs'[a].saved[users[n].file] = runs[a].saved[users[n].file]
        <4>1. users[n].file \in DOMAIN runs[a].saved \ {File(a)}
          BY <1>3, <2>3, <3>2 DEF InCopy
        <4>2. PICK old, g : old = runs[a].saved /\ g = users[n].file
          OBVIOUS
        <4>3. g \in DOMAIN old \ {File(a)} /\ runs'[a].saved = With(old, File(a), text)
          BY <3>3, <4>1, <4>2
        <4>4. g \in DOMAIN With(old, File(a), text) /\ With(old, File(a), text)[g] = old[g]
          BY <4>3 DEF With
        <4> QED BY <4>2, <4>3, <4>4
      <3>5. runs'[a] # Rest
        BY <1>0, <2>3, RunNoRest DEF Copied, Ahead, Turn
      <3> QED BY <1>0, <1>3, <2>3, <3>4, <3>5 DEF Safe, InCopy
    <2>4. CASE b = a /\ ~Ended(a) /\ ~TornEnd(a) /\ ~Copied(a)
      <3>1. ~Begun(a)
        BY <1>3, <2>4 DEF Begun
      <3>2. runs'[a] # Rest /\ runs'[a].saved = runs[a].saved
        BY <1>0, <2>4, <3>1, OwnRun
      <3> QED BY <1>0, <1>3, <2>4, <3>2 DEF Safe, InCopy
    <2> QED BY <2>1, <2>2, <2>3, <2>4
  <1>4. ASSUME users[n].file = "state", NEW i \in DOMAIN evidence, "state" \in evidence[i].over
        PROVE  Safe(n)'
    <2>1. i \in DOMAIN evidence' /\ "state" \in evidence'[i].over
      BY <1>0, <1>4, RecordsStep
    <2> QED BY <1>0, <1>4, <2>1 DEF Safe
  <1> QED BY <1>1, <1>2, <1>3, <1>4 DEF Safe

\* After a copy there is another look before the write.
LEMMA NoneLiveCopied ==
    ASSUME NEW c, Running(c), Sane(c), c.todo # <<>>, Head(c.todo)[1] = "backup",
           NEW f \in UserFiles, Head(c.todo)[2] = f
    PROVE  ~Live(Tail(c.todo), Makes, f)
  <1>1. c.todo \in Seq(Steps) /\ ~c.failed
    BY HeadSuits DEF Running
  <1>2. SUFFICES ASSUME NEW i \in DOMAIN Tail(c.todo), Tail(c.todo)[i][2] = f,
                        Tail(c.todo)[i][1] \in Makes,
                        \A j \in 1 .. (i - 1) :
                            ~(Tail(c.todo)[j][2] = f /\ Tail(c.todo)[j][1] \in Looks)
                 PROVE  FALSE
    BY DEF Live
  <1>3. /\ i + 1 \in DOMAIN c.todo /\ Tail(c.todo)[i] = c.todo[i + 1] /\ i \in Nat /\ i > 0
        /\ 1 \in DOMAIN c.todo /\ c.todo[1] = Head(c.todo)
    BY <1>1, TailSteps
  <1>4. c.todo[i + 1][1] \in Writes
    BY <1>1, <1>2, <1>3 DEF Sane, Suits, Makes, Writes
  <1>5. PICK j \in (1 + 1) .. ((i + 1) - 1) : c.todo[j][1] = "read" /\ c.todo[j][2] = f
    BY <1>1, <1>2, <1>3, <1>4 DEF Sane, LookedLast
  <1>6. j \in DOMAIN c.todo \ {1} /\ j - 1 \in 1 .. (i - 1)
    <2>1. j \in Nat /\ j > 1 /\ j <= i /\ j - 1 \in 1 .. (i - 1)
      BY <1>3, <1>5
    <2> QED BY <1>1, <1>3, <2>1, SMTT(40)
  <1>7. Tail(c.todo)[j - 1] = c.todo[j]
    BY <1>1, <1>6, TailSteps
  <1> QED BY <1>2, <1>5, <1>6, <1>7 DEF Looks

\* What the run that moves holds to write later.
LEMMA OwnHeld ==
    ASSUME SettingsInv, NEW a \in Actors, Effect(a), NEW n \in DOMAIN users,
           NEW f, f = users[n].file, runs'[a] # Rest, Live(runs'[a].todo, Makes, f)
    PROVE  Safe(n) \/ InText(runs'[a].held[f], n)
  <1>0. Shape /\ AllSane /\ f \in UserFiles /\ n \in DOMAIN UserMarks /\ Surviving(n)
    BY DEF SettingsInv, UsersShaped
  <1>1. ASSUME Live(runs[a].todo, Makes, f), runs[a] # Rest, runs'[a].held[f] = runs[a].held[f]
        PROVE  Safe(n) \/ InText(runs'[a].held[f], n)
    BY <1>0, <1>1 DEF Surviving, Carried
  <1>2. ASSUME Passed(a) \/ Looked(a) \/ Copied(a) \/ Put_(a) \/ Swapped(a)
        PROVE  /\ runs[a] # Rest /\ Running(runs[a]) /\ Sane(runs[a])
               /\ runs[a].todo # <<>> /\ runs[a].todo \in Seq(Steps)
               /\ Head(runs[a].todo) = <<Do(a), File(a)>>
               /\ ~runs[a].failed => Suits(runs[a].tool, runs[a].todo)!(1)
               /\ Live(runs[a].todo, Makes, f) \/ (File(a) = f /\ Do(a) \in Looks)
    <2>1. /\ runs'[a].todo = Tail(runs[a].todo)
          /\ runs[a] # Rest /\ Running(runs[a]) /\ Sane(runs[a])
          /\ runs[a].todo # <<>> /\ runs[a].todo \in Seq(Steps)
          /\ Head(runs[a].todo) = <<Do(a), File(a)>>
          /\ ~runs[a].failed => Suits(runs[a].tool, runs[a].todo)!(1)
      BY <1>0, <1>2, TurnFacts
    <2>2. Head(runs[a].todo)[1] = Do(a) /\ Head(runs[a].todo)[2] = File(a)
      BY <2>1
    <2> QED BY <2>1, <2>2, LiveTail
  <1>3. CASE Passed(a)
    <2>1. runs'[a].held = runs[a].held
      BY <1>3 DEF Passed, Ahead, Turn
    <2>2. CASE Live(runs[a].todo, Makes, f)
      BY <1>1, <1>2, <1>3, <2>1, <2>2
    <2>3. CASE File(a) = f /\ Do(a) \in Looks
      <3>1. Do(a) \in {"anchor", "undoAnchor"}
        BY <1>3, <2>3 DEF Passed, Looks
      <3>2. \/ disk[f] = runs[a].held[f]
            \/ disk[f] = runs[a].held[f] \cup {runs[a].tool}
        BY <1>3, <2>3, <3>1 DEF Passed
      <3>3. InText(disk[f], n) => InText(runs[a].held[f], n)
        <4>1. runs[a].tool \in Tools
          BY <1>2, <1>3 DEF Running
        <4> QED BY <1>0, <3>2, <4>1, MarksApart DEF InText, Torn
      <3> QED BY <1>0, <2>1, <3>3 DEF Surviving
    <2> QED BY <1>2, <1>3, <2>2, <2>3
  <1>4. CASE Looked(a)
    <2>1. runs'[a].held = With(runs[a].held, File(a), disk[File(a)])
      BY <1>4 DEF Looked, Ahead, Turn
    <2>2. CASE File(a) = f
      <3>1. runs'[a].held[f] = disk[f]
        BY <2>1, <2>2 DEF With
      <3> QED BY <1>0, <3>1 DEF Surviving
    <2>3. CASE File(a) # f
      <3>1. Live(runs[a].todo, Makes, f) /\ f \in DOMAIN runs[a].held /\ runs[a] # Rest
        BY <1>2, <1>4, <2>3, LiveHeld
      <3>2. runs'[a].held[f] = runs[a].held[f]
        BY <2>1, <2>3, <3>1 DEF With
      <3> QED BY <1>1, <3>1, <3>2
    <2> QED BY <2>2, <2>3
  <1>5. CASE Copied(a)
    <2>1. runs'[a].held = runs[a].held /\ runs'[a].todo = Tail(runs[a].todo)
          /\ Do(a) \in Keeps \cup {"stale"}
      BY <1>5 DEF Copied, Ahead, Turn
    <2>2. Live(runs[a].todo, Makes, f)
      <3>1. SUFFICES ASSUME File(a) = f, Do(a) \in Looks PROVE FALSE
        BY <1>2, <1>5
      <3>2. Do(a) = "backup"
        BY <2>1, <3>1 DEF Looks, Keeps
      <3>3. Head(runs[a].todo)[1] = "backup" /\ Head(runs[a].todo)[2] = f
        BY <1>2, <1>5, <3>1, <3>2
      <3> QED BY <1>0, <1>2, <1>5, <2>1, <3>3, NoneLiveCopied
    <2> QED BY <1>1, <1>2, <1>5, <2>1, <2>2
  <1>6. CASE Put_(a)
    <2>1. runs'[a].held = runs[a].held /\ Do(a) \notin Looks
      BY <1>6 DEF Put_, Ahead, Turn, Puts, Writes, Always, Looks
    <2> QED BY <1>1, <1>2, <1>6, <2>1
  <1>7. CASE Swapped(a)
    <2>1. /\ Do(a) = "swap"
          /\ runs'[a].held \in {runs[a].held, With(runs[a].held, File(a), disk[File(a)])}
      BY <1>7 DEF Swapped, Ahead, Turn
    <2>2. Do(a) \notin Looks
      BY <2>1 DEF Looks
    <2>3. Live(runs[a].todo, Makes, f) /\ f \in DOMAIN runs[a].held
      BY <1>2, <1>7, <2>2, LiveHeld
    <2>4. File(a) # f
      <3>1. runs[a].failed => Undoing(runs[a])!(1)
        BY <1>0, <1>7, TurnFacts
      <3>2. runs[a].todo[1] = <<Do(a), File(a)>>
        BY <1>2, <1>7, TailSteps
      <3>3. File(a) = "handler"
        BY <1>2, <1>7, <2>1, <3>1, <3>2
      <3> QED BY <1>0, <3>3 DEF UserFiles
    <2>5. runs'[a].held[f] = runs[a].held[f]
      BY <2>1, <2>3, <2>4 DEF With
    <2> QED BY <1>1, <1>2, <1>7, <2>3, <2>5
  <1>8. CASE Failed(a)
    <2>1. /\ runs[a] # Rest /\ Running(runs[a]) /\ Sane(runs[a]) /\ Tidy(runs[a])
          /\ ~runs[a].failed /\ runs'[a].todo = Undo(runs[a])
      BY <1>8 DEF Failed, Turn, SettingsInv, Shape, AllSane
    <2>2. ~Live(Undo(runs[a]), Makes \cup {"copy"}, f)
      BY <1>0, <2>1, NoneLiveFailed
    <2> QED BY <2>1, <2>2 DEF Live
  <1>9. CASE Spared(a)
    <2>1. runs'[a].todo = <<>>
      BY <1>9 DEF Spared, Turn
    <2> QED BY <2>1 DEF Live
  <1>10. CASE Begun(a)
    <2>1. Running(runs'[a]) /\ Sane(runs'[a]) /\ DOMAIN runs'[a].held = {}
      <3>1. runs'[a].held = <<>>
        BY <1>10 DEF Begun
      <3>2. DOMAIN <<>> = {}
        OBVIOUS
      <3>3. Running(runs'[a]) /\ Sane(runs'[a])
        BY <1>10, SaneBegun DEF Begun
      <3> QED BY <3>1, <3>2, <3>3
    <2> QED BY <2>1, NoneLiveBegun
  <1>11. CASE Ended(a) \/ TornEnd(a)
    BY <1>11 DEF Ended, TornEnd, Gone
  <1> QED BY <1>3, <1>4, <1>5, <1>6, <1>7, <1>8, <1>9, <1>10, <1>11 DEF Effect

\* A copy of the workspace that is to come is of a workspace that is saved.
LEMMA OwnCopy ==
    ASSUME SettingsInv, NEW a \in Actors, Effect(a), NEW n \in DOMAIN users,
           NEW f, f = users[n].file, runs'[a] # Rest, Live(runs'[a].todo, {"copy"}, f)
    PROVE  Safe(n)'
  <1>0. Shape /\ AllSane /\ f \in UserFiles /\ n \in DOMAIN UserMarks /\ Surviving(n)
        /\ UNCHANGED users
    BY OwnRun DEF SettingsInv, UsersShaped
  <1>1. CASE Passed(a) \/ Looked(a) \/ Copied(a) \/ Put_(a) \/ Swapped(a)
    <2>1. /\ runs'[a].todo = Tail(runs[a].todo)
          /\ runs[a] # Rest /\ Running(runs[a]) /\ Sane(runs[a])
          /\ runs[a].todo # <<>> /\ runs[a].todo \in Seq(Steps)
          /\ Head(runs[a].todo) = <<Do(a), File(a)>> /\ runs[a].todo[1] = Head(runs[a].todo)
          /\ 1 \in DOMAIN runs[a].todo
          /\ \A i \in DOMAIN runs'[a].todo :
                i + 1 \in DOMAIN runs[a].todo /\ runs'[a].todo[i] = runs[a].todo[i + 1]
      BY <1>0, <1>1, TurnFacts
    <2>2. Head(runs[a].todo)[1] = Do(a) /\ Head(runs[a].todo)[2] = File(a)
      BY <2>1
    <2>3. CASE Live(runs[a].todo, {"copy"}, f)
      <3>1. Safe(n)
        BY <1>0, <2>1, <2>3 DEF Surviving, Carried
      <3> QED BY <3>1, SafeStays
    <2>4. CASE File(a) = f /\ Do(a) \in Looks
      <3>1. PICK i \in DOMAIN runs[a].todo : runs[a].todo[i] [1] = "copy" /\ runs[a].todo[i][2] = f
        BY <2>1 DEF Live
      <3>2. ~runs[a].failed
        BY <2>1, <3>1 DEF Sane, Undoing
      <3>3. f = "workspace"
        BY <1>0, <2>1, <3>1, <3>2 DEF Sane, Suits
      <3>4. Do(a) \in {"backup", "copy"}
        BY <2>1, <2>2, <2>4, <3>2, <3>3 DEF Sane, Suits
      <3>5. Do(a) = "backup"
        BY <2>4, <3>4 DEF Looks
      <3>6. Copied(a)
        BY <1>1, <3>5 DEF Passed, Looked, Put_, Swapped, Puts, Writes, Always
      <3>7. runs'[a].saved = With(runs[a].saved, f, disk[f]) /\ DOMAIN runs'[a] = RunFields
        BY <2>4, <3>5, <3>6 DEF Copied, Ahead, Turn
      <3>8. CASE Safe(n)
        BY <3>8, SafeStays
      <3>9. CASE InText(disk[f], n)
        <4>1. UserMarks[n] \in disk[f]
          BY <3>3, <3>9 DEF InText, SettingsInv
        <4>2. f \in DOMAIN runs'[a].saved /\ runs'[a].saved[f] = disk[f]
          BY <3>7 DEF With
        <4> QED BY <1>0, <3>7, <4>1, <4>2, RunNoRest DEF Safe, InCopy
      <3> QED BY <1>0, <3>8, <3>9 DEF Surviving
    <2> QED BY <2>1, <2>2, <2>3, <2>4, LiveTail
  <1>2. CASE Failed(a)
    <2>1. /\ runs[a] # Rest /\ Running(runs[a]) /\ Sane(runs[a]) /\ Tidy(runs[a])
          /\ ~runs[a].failed /\ runs'[a].todo = Undo(runs[a])
      BY <1>2 DEF Failed, Turn, SettingsInv, Shape, AllSane
    <2>2. ~Live(Undo(runs[a]), Makes \cup {"copy"}, f)
      BY <1>0, <2>1, NoneLiveFailed
    <2> QED BY <2>1, <2>2 DEF Live
  <1>3. CASE Spared(a)
    <2>1. runs'[a].todo = <<>>
      BY <1>3 DEF Spared, Turn
    <2> QED BY <2>1 DEF Live
  <1>4. CASE Begun(a)
    <2>1. Sound(runs'[a].tool, runs'[a].todo)
      BY <1>4, ProgramsSound DEF Begun
    <2>2. PICK i \in DOMAIN runs'[a].todo :
             /\ runs'[a].todo[i][2] = f /\ runs'[a].todo[i][1] = "copy"
             /\ \A j \in 1 .. (i - 1) :
                   ~(runs'[a].todo[j][2] = f /\ runs'[a].todo[j][1] \in Looks)
      BY DEF Live
    <2>3. f \notin (Files \ UserFiles) \cup {}
      BY <1>0
    <2>4. PICK j \in 1 .. (i - 1) : runs'[a].todo[j][2] = f /\ runs'[a].todo[j][1] \in {"backup"}
      BY <2>1, <2>2, <2>3 DEF Sound, Careful, CopiedFirst, Before
    <2> QED BY <2>2, <2>4 DEF Looks
  <1>5. CASE Ended(a) \/ TornEnd(a)
    BY <1>5 DEF Ended, TornEnd, Gone
  <1> QED BY <1>1, <1>2, <1>3, <1>4, <1>5 DEF Effect

\* A configuration the allowlist has copied is safe, or was written after.
LEMMA OwnAllowlist ==
    ASSUME SettingsInv, NEW a \in Actors, Effect(a), NEW n \in DOMAIN users,
           NEW f, f = users[n].file, runs'[a] # Rest, runs'[a].tool = "allowlist",
           f \in DOMAIN runs'[a].saved, f # "note"
    PROVE  Safe(n)' \/ users[n].copied
  <1>0. Shape /\ AllSane /\ f \in UserFiles /\ n \in DOMAIN UserMarks /\ Surviving(n)
        /\ UNCHANGED users
    BY OwnRun DEF SettingsInv, UsersShaped
  <1>1. ~Ended(a) /\ ~TornEnd(a)
    BY DEF Ended, TornEnd, Gone
  <1>2. ~Begun(a)
    BY DEF Begun
  <1>3. runs[a] # Rest /\ runs[a].tool = "allowlist"
    BY <1>0, <1>1, <1>2, OwnRun
  <1>4. CASE f \in DOMAIN runs[a].saved
    BY <1>0, <1>3, <1>4, SafeStays DEF Surviving, Carried
  <1>5. CASE f \notin DOMAIN runs[a].saved
    <2>1. Copied(a)
      BY <1>0, <1>1, <1>2, <1>5, OwnRun
    <2>2. PICK text : /\ text = IF Do(a) \in {"keep", "stale"} THEN runs[a].held[File(a)]
                                                            ELSE disk[File(a)]
                      /\ runs'[a].saved = With(runs[a].saved, File(a), text)
                      /\ Do(a) \in Keeps \cup {"stale"}
      BY <2>1 DEF Copied, Ahead, Turn
    <2>3. File(a) = f
      BY <1>5, <2>2 DEF With
    <2>4. Do(a) \notin {"keep", "stale"}
      <3>1. /\ runs[a].todo[1] = <<Do(a), File(a)>>
            /\ ~runs[a].failed => Suits(runs[a].tool, runs[a].todo)!(1)
            /\ runs[a].failed => Undoing(runs[a])!(1)
        BY <1>0, <2>1, TurnFacts
      <3> QED BY <1>3, <2>2, <3>1 DEF Keeps
    <2>5. runs'[a].saved = With(runs[a].saved, f, disk[f])
      BY <2>2, <2>3, <2>4
    <2>6. f \in DOMAIN runs'[a].saved /\ runs'[a].saved[f] = disk[f]
      BY <2>5 DEF With
    <2>7. CASE Safe(n)
      BY <2>7, SafeStays
    <2>8. CASE UserMarks[n] \in disk[f]
      BY <1>0, <2>6, <2>8 DEF Safe, InCopy
    <2> QED BY <1>0, <2>7, <2>8 DEF Surviving, InText
  <1> QED BY <1>4, <1>5

\* What a step leaves in a file of the state home.
LEMMA TextStays ==
    ASSUME SettingsInv, NEW a \in Actors, Effect(a), NEW n \in DOMAIN users,
           NEW f, f = users[n].file
    PROVE  Safe(n)' \/ InText(disk'[f], n)
  <1>0. /\ Shape /\ AllSane /\ f \in UserFiles /\ f \in Files /\ n \in DOMAIN UserMarks
        /\ Surviving(n) /\ UNCHANGED users
    <2>1. Shape /\ AllSane /\ f \in UserFiles /\ n \in DOMAIN UserMarks /\ Surviving(n)
      BY DEF SettingsInv, UsersShaped
    <2>2. UserFiles \subseteq Files
      BY DEF Files
    <2> QED BY <2>1, <2>2, OwnRun
  <1>1. CASE disk'[f] = disk[f]
    BY <1>0, <1>1, SafeStays DEF Surviving
  <1>2. CASE Put_(a) /\ File(a) = f
    <2>1. /\ runs[a] # Rest /\ Running(runs[a]) /\ Sane(runs[a]) /\ Tidy(runs[a])
          /\ runs[a].todo # <<>> /\ runs[a].todo \in Seq(Steps)
          /\ Head(runs[a].todo) = <<Do(a), f>> /\ runs[a].todo[1] = <<Do(a), f>>
          /\ ~runs[a].failed => Suits(runs[a].tool, runs[a].todo)!(1)
          /\ runs[a].failed => Undoing(runs[a])!(1)
      BY <1>0, <1>2, TurnFacts DEF SettingsInv
    <2>2. Head(runs[a].todo)[1] = Do(a) /\ Head(runs[a].todo)[2] = f
      BY <2>1
    <2>3. disk'[f] = Content(a) /\ Do(a) \in Puts
      BY <1>0, <1>2 DEF Put_, Shape
    <2>4. ASSUME Do(a) \in Makes PROVE Safe(n) \/ InText(runs[a].held[f], n)
      <3>1. Live(runs[a].todo, Makes, f)
        BY <2>1, <2>2, <2>4, LiveHead
      <3> QED BY <1>0, <2>1, <3>1 DEF Surviving, Carried
    <2>5. CASE Do(a) \in Writes
      <3>1. ~runs[a].failed /\ Do(a) # "write"
        BY <1>0, <2>1, <2>5 DEF Writes, Always
      <3>2. Do(a) \in Makes
        BY <2>5, <3>1 DEF Writes, Makes
      <3>3. disk'[f] = runs[a].held[f] \cup {runs[a].tool}
        BY <1>2, <2>3, <2>5 DEF Content, Patched, Writes, Always
      <3> QED BY <2>4, <3>2, <3>3, SafeStays DEF InText
    <2>6. CASE Do(a) = "copy"
      <3>1. Live(runs[a].todo, {"copy"}, f)
        BY <2>1, <2>2, <2>6, LiveHead
      <3> QED BY <1>0, <2>1, <3>1, SafeStays DEF Surviving, Carried
    <2>7. CASE Do(a) = "device"
      <3>1. disk'[f] = disk[f] \cup {runs[a].tool}
        BY <1>2, <2>3, <2>7 DEF Content, Writes, Always
      <3> QED BY <1>0, <3>1, SafeStays DEF Surviving, InText
    <2>8. CASE Do(a) = "restore"
      <3>1. ~runs[a].failed
        BY <1>0, <2>1, <2>8 DEF UserFiles
      <3>2. f = "state" /\ runs[a].tool = "rollback"
        BY <1>0, <2>1, <2>8, <3>1
      <3>3. Overwritten("state")
        BY <1>2, <2>8, <3>2 DEF Put_
      <3>4. evidence # <<>> /\ Recorded
        BY <1>0, <2>1, <3>2 DEF Tidy, Shape, Recorded
      <3>5. 1 \in DOMAIN evidence
        BY <3>4 DEF Recorded
      <3>6. 1 \in DOMAIN evidence' /\ "state" \in evidence'[1].over
        BY <3>3, <3>4, <3>5, RecordsOver
      <3> QED BY <1>0, <3>2, <3>6 DEF Safe
    <2>9. CASE Do(a) = "undo"
      <3>1. disk'[f] = runs[a].held[f]
        BY <1>2, <2>3, <2>9 DEF Content, Writes, Always
      <3> QED BY <2>4, <2>9, <3>1, SafeStays DEF Makes
    <2> QED BY <2>3, <2>5, <2>6, <2>7, <2>8, <2>9 DEF Puts
  <1>3. CASE Swapped(a)
    <2>1. /\ runs[a].todo[1] = <<Do(a), File(a)>>
          /\ ~runs[a].failed => Suits(runs[a].tool, runs[a].todo)!(1)
          /\ runs[a].failed => Undoing(runs[a])!(1)
      BY <1>0, <1>3, TurnFacts
    <2>2. File(a) = "handler" /\ "handler" \notin UserFiles
      BY <1>3, <2>1 DEF Swapped, UserFiles
    <2>3. disk'[f] = disk[f]
      BY <1>0, <1>3, <2>2 DEF Swapped, Shape
    <2> QED BY <1>1, <2>3
  <1>4. CASE TornEnd(a) /\ File(a) = f
    <2>1. /\ runs[a] # Rest /\ Running(runs[a]) /\ Sane(runs[a]) /\ runs[a].todo # <<>>
          /\ disk'[f] = Torn /\ Do(a) \in {"write", "rewrite", "append"}
      BY <1>0, <1>4 DEF TornEnd, Gone, Shape, AllSane
    <2>2. /\ Head(runs[a].todo) = runs[a].todo[1] /\ runs[a].todo \in Seq(Steps)
          /\ Head(runs[a].todo)[1] = Do(a) /\ Head(runs[a].todo)[2] = f
          /\ ~runs[a].failed => Suits(runs[a].tool, runs[a].todo)!(1)
          /\ runs[a].failed => Undoing(runs[a])!(1)
      BY <1>4, <2>1, HeadSuits DEF Do, File, Running
    <2>3. (Do(a) = "rewrite" /\ runs[a].tool = "allowlist") \/ f = "note"
      BY <1>0, <2>1, <2>2
    <2>4. CASE f = "note"
      BY <1>0, <2>1, <2>4 DEF InText
    <2>5. CASE Do(a) = "rewrite" /\ runs[a].tool = "allowlist" /\ f # "note"
      <3>1. f \in (Files \ UserFiles) \cup DOMAIN runs[a].saved
        BY <2>1, <2>2, <2>5, BeforeHead DEF Sane, CopiedFirst
      <3>2. Safe(n) \/ users[n].copied
        BY <1>0, <2>1, <2>5, <3>1 DEF Surviving, Carried
      <3> QED BY <2>1, <3>2, SafeStays DEF InText
    <2> QED BY <2>3, <2>4, <2>5
  <1>5. CASE (Put_(a) \/ TornEnd(a)) /\ File(a) # f
    <2>1. disk'[f] = disk[f]
      BY <1>0, <1>5 DEF Put_, TornEnd, Shape
    <2> QED BY <1>1, <2>1
  <1>6. CASE Passed(a) \/ Looked(a) \/ Copied(a) \/ Failed(a) \/ Spared(a) \/ Ended(a) \/ Begun(a)
    BY <1>1, <1>6 DEF Passed, Looked, Copied, Failed, Spared, Ended, Begun
  <1> QED BY <1>2, <1>3, <1>4, <1>5, <1>6 DEF Effect

\* A step keeps what the user wrote.
LEMMA SurvivingStep ==
    ASSUME SettingsInv, NEW a \in Actors, Effect(a), NEW n \in DOMAIN users
    PROVE  Surviving(n)'
  <1>0. Shape /\ UNCHANGED users /\ Surviving(n)
    BY OwnRun DEF SettingsInv
  <1>1. PICK f : f = users[n].file
    OBVIOUS
  <1>2. Safe(n)' \/ InText(disk[users[n].file], n)'
    BY <1>0, <1>1, TextStays DEF InText
  <1>3. ASSUME runs'[a] # Rest PROVE Carried(runs[a], n)'
    <2>1. Live(runs'[a].todo, Makes, f) => Safe(n)' \/ InText(runs'[a].held[f], n)
      BY <1>1, <1>3, OwnHeld, SafeStays
    <2>2. Live(runs'[a].todo, {"copy"}, f) => Safe(n)'
      BY <1>1, <1>3, OwnCopy
    <2>3. runs'[a].tool = "allowlist" /\ f \in DOMAIN runs'[a].saved /\ f # "note" =>
             Safe(n)' \/ users[n].copied
      BY <1>1, <1>3, OwnAllowlist
    <2> QED BY <1>0, <1>1, <2>1, <2>2, <2>3 DEF Carried, InText
  <1>4. ASSUME NEW b \in Actors \ {a}, runs'[b] # Rest PROVE Carried(runs[b], n)'
    <2>1. /\ runs[b] # Rest /\ runs'[b].tool = runs[b].tool /\ runs'[b].todo = runs[b].todo
          /\ runs'[b].held = runs[b].held /\ runs'[b].saved = runs[b].saved
      BY <1>0, <1>4, OtherRun
    <2>2. Carried(runs[b], n)
      BY <1>0, <2>1 DEF Surviving
    <2> QED BY <1>0, <2>1, <2>2, SafeStays DEF Carried, InText
  <1> QED BY <1>2, <1>3, <1>4 DEF Surviving

\* What is left to copy has not been copied.
LEMMA TidyStep ==
    ASSUME SettingsInv, NEW a \in Actors, Effect(a), NEW b \in Actors, runs'[b] # Rest
    PROVE  Tidy(runs[b])'
  <1>0. Shape /\ AllSane
    BY DEF SettingsInv
  <1>1. evidence # <<>> => evidence' # <<>>
    <2>1. evidence \in Seq(ToSet(evidence)) /\ DOMAIN evidence \subseteq DOMAIN evidence'
      BY <1>0, RecordsStep DEF Shape
    <2>2. evidence # <<>> => 1 \in DOMAIN evidence
      BY <2>1
    <2>3. evidence' = <<>> => 1 \notin DOMAIN evidence'
      OBVIOUS
    <2> QED BY <2>1, <2>2, <2>3
  <1>2. CASE b # a
    <2>1. /\ runs[b] # Rest /\ runs'[b].tool = runs[b].tool /\ runs'[b].todo = runs[b].todo
          /\ runs'[b].saved = runs[b].saved /\ runs'[b].wrote = runs[b].wrote
      BY <1>0, <1>2, OtherRun
    <2>2. Tidy(runs[b])
      BY <2>1 DEF SettingsInv
    <2> QED BY <1>1, <2>1, <2>2 DEF Tidy
  <1>3. CASE b = a /\ (Passed(a) \/ Looked(a) \/ Copied(a) \/ Put_(a) \/ Swapped(a))
    <2>1. /\ runs[a] # Rest /\ Running(runs[a]) /\ Sane(runs[a]) /\ Tidy(runs[a])
          /\ runs[a].todo # <<>> /\ runs[a].todo \in Seq(Steps)
          /\ Head(runs[a].todo) = <<Do(a), File(a)>> /\ runs[a].todo[1] = <<Do(a), File(a)>>
          /\ runs'[a].tool = runs[a].tool /\ runs'[a].todo = Tail(runs[a].todo)
          /\ ~runs[a].failed => Suits(runs[a].tool, runs[a].todo)!(1)
          /\ runs[a].failed => Undoing(runs[a])!(1)
          /\ ToSet(runs'[a].wrote) = ToSet(runs[a].wrote)
                                     \cup (IF Put_(a) THEN {File(a)} ELSE {})
          /\ \A i \in DOMAIN runs'[a].todo :
                i + 1 \in DOMAIN runs[a].todo /\ runs'[a].todo[i] = runs[a].todo[i + 1]
      BY <1>0, <1>3, TurnFacts DEF SettingsInv
    <2>2. Head(runs[a].todo)[1] = Do(a) /\ Head(runs[a].todo)[2] = File(a)
      BY <2>1
    <2>3. ASSUME NEW i \in DOMAIN runs'[a].todo, runs'[a].todo[i][1] \in Keeps \cup {"stale"}
          PROVE  runs'[a].todo[i][2] \notin DOMAIN runs'[a].saved
      <3>1. runs'[a].todo[i][2] \notin DOMAIN runs[a].saved
        BY <2>1, <2>3 DEF Tidy
      <3>2. CASE runs'[a].saved = runs[a].saved
        BY <3>1, <3>2
      <3>3. CASE Copied(a)
        <4>1. /\ Do(a) \in Keeps \cup {"stale"}
              /\ \E text : runs'[a].saved = With(runs[a].saved, File(a), text)
          BY <3>3 DEF Copied, Ahead, Turn
        <4>2. DOMAIN runs'[a].saved = DOMAIN runs[a].saved \cup {File(a)}
          BY <4>1 DEF With
        <4>3. runs'[a].todo[i][2] # File(a)
          <5>1. NotAfter(runs[a].todo, Keeps \cup {"stale"}, Keeps \cup {"stale"}, {})
            BY <2>1 DEF Sane, KeptApart
          <5> QED BY <2>1, <2>2, <2>3, <4>1, <5>1, NotAfterTail, SMTT(40)
        <4> QED BY <3>1, <4>2, <4>3
      <3> QED BY <1>3, <3>2, <3>3 DEF Passed, Looked, Put_, Swapped, Ahead, Turn
    <2>4. runs[a].tool = "outbound" => ToSet(runs'[a].wrote) \cap UserFiles = {}
      <3>1. SUFFICES ASSUME runs[a].tool = "outbound", Put_(a), File(a) \in UserFiles PROVE FALSE
        BY <2>1 DEF Tidy
      <3>2. CASE ~runs[a].failed
        BY <2>1, <3>1, <3>2 DEF Uncopied
      <3>3. CASE runs[a].failed
        <4>1. Do(a) = "undo"
          BY <2>1, <3>1, <3>3 DEF Put_, Puts, Writes, Always
        <4> QED BY <2>1, <3>1, <3>3, <4>1 DEF Tidy
      <3> QED BY <3>2, <3>3
    <2> QED BY <1>1, <1>3, <2>1, <2>3, <2>4 DEF Tidy
  <1>4. CASE b = a /\ Failed(a)
    <2>1. /\ runs[a] # Rest /\ Running(runs[a]) /\ Sane(runs[a]) /\ Tidy(runs[a])
          /\ ~runs[a].failed /\ runs'[a].todo = Undo(runs[a]) /\ runs'[a].tool = runs[a].tool
          /\ runs'[a].wrote = runs[a].wrote
      BY <1>0, <1>4 DEF Failed, Turn, SettingsInv, Shape, AllSane
    <2>2. \A i \in DOMAIN runs'[a].todo : runs'[a].todo[i][1] \notin Keeps \cup {"stale"}
      BY <2>1, UndoSteps DEF Keeps
    <2> QED BY <1>1, <1>4, <2>1, <2>2 DEF Tidy
  <1>5. CASE b = a /\ Spared(a)
    <2>1. /\ runs[a] # Rest /\ Tidy(runs[a]) /\ runs'[a].todo = <<>>
          /\ runs'[a].tool = runs[a].tool /\ runs'[a].wrote = runs[a].wrote
      BY <1>5 DEF Spared, Turn, SettingsInv
    <2>2. DOMAIN runs'[a].todo = {}
      BY <2>1
    <2> QED BY <1>1, <1>5, <2>1, <2>2 DEF Tidy
  <1>6. CASE b = a /\ Begun(a)
    <2>1. /\ Sound(runs'[a].tool, runs'[a].todo) /\ runs'[a].wrote = <<>>
          /\ IF runs'[a].tool = "rollback" THEN evidence' # <<>> ELSE runs'[a].saved = <<>>
      BY <1>6, ProgramsSound DEF Begun
    <2>2. ToSet(runs'[a].wrote) = {}
      BY <2>1 DEF ToSet
    <2>3. CASE runs'[a].tool = "rollback"
      <3>1. \A i \in DOMAIN runs'[a].todo : runs'[a].todo[i][1] \notin Keeps \cup {"stale"}
        BY <2>1, <2>3 DEF Sound, Suits, Keeps
      <3> QED BY <1>6, <2>1, <2>2, <2>3, <3>1 DEF Tidy
    <2>4. CASE runs'[a].tool # "rollback"
      <3>1. DOMAIN <<>> = {}
        OBVIOUS
      <3>2. DOMAIN runs'[a].saved = {}
        BY <2>1, <2>4, <3>1
      <3> QED BY <1>6, <2>2, <2>4, <3>2 DEF Tidy
    <2> QED BY <2>3, <2>4
  <1>7. CASE b = a /\ (Ended(a) \/ TornEnd(a))
    BY <1>7 DEF Ended, TornEnd, Gone
  <1> QED BY <1>2, <1>3, <1>4, <1>5, <1>6, <1>7 DEF Effect

\* Nothing tears the workspace.
LEMMA WorkspaceWhole ==
    ASSUME SettingsInv, NEW a \in Actors, Effect(a)
    PROVE  ~(Torn \subseteq disk'["workspace"])
  <1>0. Shape /\ AllSane /\ "workspace" \in UserFiles /\ "workspace" \in Files
        /\ ~(Torn \subseteq disk["workspace"])
    BY DEF SettingsInv, UserFiles, Files
  <1>1. CASE disk'["workspace"] = disk["workspace"]
    BY <1>0, <1>1
  <1>2. CASE (Put_(a) \/ Swapped(a)) /\ File(a) = "workspace"
    <2>1. /\ runs[a] # Rest /\ Running(runs[a]) /\ Sane(runs[a]) /\ Tidy(runs[a])
          /\ runs[a].todo[1] = <<Do(a), "workspace">>
          /\ ~runs[a].failed => Suits(runs[a].tool, runs[a].todo)!(1)
          /\ runs[a].failed => Undoing(runs[a])!(1)
      BY <1>0, <1>2, TurnFacts DEF SettingsInv
    <2>2. ~runs[a].failed
      <3>1. SUFFICES ASSUME runs[a].failed PROVE FALSE
        OBVIOUS
      <3>2. Do(a) = "undo" /\ "workspace" \in ToSet(runs[a].wrote)
            /\ runs[a].tool = "outbound"
        BY <1>2, <2>1, <3>1 DEF Put_, Swapped, Puts, Writes, Always
      <3> QED BY <1>0, <2>1, <3>2 DEF Tidy
    <2>3. Do(a) = "copy" /\ Put_(a)
      BY <1>2, <2>1, <2>2 DEF Put_, Swapped, Puts, Writes, Always
    <2>4. disk'["workspace"] = {"lab", runs[a].tool}
      <3>1. Content(a) = {"lab", runs[a].tool}
        BY <2>3 DEF Content, Writes, Always
      <3> QED BY <1>0, <1>2, <2>3, <3>1 DEF Put_, Shape
    <2>5. runs[a].tool \in Tools
      BY <2>1 DEF Running
    <2> QED BY <2>4, <2>5, MarksApart DEF Torn
  <1>3. CASE TornEnd(a) /\ File(a) = "workspace"
    <2>1. /\ runs[a] # Rest /\ Running(runs[a]) /\ Sane(runs[a]) /\ runs[a].todo # <<>>
          /\ Do(a) \in {"write", "rewrite", "append"}
      BY <1>0, <1>3 DEF TornEnd, Gone, Shape, AllSane
    <2> QED BY <1>3, <2>1, HeadSuits DEF Do, File
  <1>4. CASE (Put_(a) \/ Swapped(a) \/ TornEnd(a)) /\ File(a) # "workspace"
    <2>1. disk'["workspace"] = disk["workspace"]
      BY <1>0, <1>4 DEF Put_, Swapped, TornEnd, Shape
    <2> QED BY <1>1, <2>1
  <1>5. CASE Passed(a) \/ Looked(a) \/ Copied(a) \/ Failed(a) \/ Spared(a) \/ Ended(a) \/ Begun(a)
    BY <1>1, <1>5 DEF Passed, Looked, Copied, Failed, Spared, Ended, Begun
  <1> QED BY <1>2, <1>3, <1>4, <1>5 DEF Effect

\* The user writes.
LEMMA UserStep ==
    ASSUME SettingsInv, UserWrites, (Shape /\ AllSane)'
    PROVE  SettingsInv'
  <1>0. Shape /\ UsersShaped /\ UNCHANGED <<runs, evidence>>
    BY DEF SettingsInv, UserWrites
  <1>1. PICK f \in UserFiles :
           /\ Len(users) + 1 \in DOMAIN UserMarks /\ ~(Torn \subseteq disk[f])
           /\ disk' = [disk EXCEPT ![f] = @ \cup {UserMarks[Len(users) + 1]}]
           /\ users' = Append(users,
                 [file |-> f, exposed |-> \E a \in Actors : About(runs[a], f),
                  copied |-> \E a \in Actors : runs[a] # Rest /\ f \in DOMAIN runs[a].saved])
    BY DEF UserWrites
  <1>2. PICK u : /\ u = [file |-> f, exposed |-> \E a \in Actors : About(runs[a], f),
                         copied |-> \E a \in Actors :
                                        runs[a] # Rest /\ f \in DOMAIN runs[a].saved]
                 /\ users' = Append(users, u)
    BY <1>1
  <1>3. /\ u.file = f
        /\ (\E a \in Actors : About(runs[a], f)) => u.exposed
        /\ (\E a \in Actors : runs[a] # Rest /\ f \in DOMAIN runs[a].saved) => u.copied
    BY <1>2, Zenon
  <1>4. PICK m : m = Len(users) + 1
    OBVIOUS
  <1>5. /\ users' \in Seq(ToSet(users')) /\ DOMAIN users' = DOMAIN users \cup {m}
        /\ users'[m] = u /\ \A n \in DOMAIN users : users'[n] = users[n]
    <2>1. PICK S : users \in Seq(S) /\ u \in S
      <3>1. users \in Seq(ToSet(users) \cup {u})
        BY <1>0 DEF UsersShaped
      <3> QED BY <3>1
    <2>2. /\ users' \in Seq(S) /\ DOMAIN users' = DOMAIN users \cup {m}
          /\ users'[m] = u /\ \A n \in DOMAIN users : users'[n] = users[n]
      BY <1>2, <1>4, <2>1
    <2>3. \A n \in DOMAIN users' : users'[n] \in ToSet(users')
      BY DEF ToSet
    <2>4. PICK z, T : z = users' /\ T = ToSet(users')
      OBVIOUS
    <2>5. z \in Seq(T)
      <3>1. z \in Seq(S) /\ \A n \in DOMAIN z : z[n] \in T
        BY <2>2, <2>3, <2>4
      <3> QED BY <3>1
    <2> QED BY <2>2, <2>4, <2>5
  <1>6. UsersShaped'
    BY <1>0, <1>1, <1>3, <1>4, <1>5 DEF UsersShaped
  <1>7. UserMarks[m] # "torn" /\ f \in Files /\ DOMAIN disk = Files /\ "workspace" \in Files
    BY <1>0, <1>1, <1>4, MarksApart DEF Shape, Files, UserFiles
  <1>8. /\ disk'[f] = disk[f] \cup {UserMarks[m]}
        /\ \A g \in Files \ {f} : disk'[g] = disk[g]
    BY <1>1, <1>4, <1>7
  <1>9. ~(Torn \subseteq disk'["workspace"])
    BY <1>7, <1>8 DEF SettingsInv, Torn
  <1>10. \A a \in Actors : runs'[a] # Rest => Tidy(runs[a])'
    BY <1>0 DEF SettingsInv, Tidy
  <1>11. ASSUME NEW n \in DOMAIN users PROVE Surviving(n)'
    <2>1. Surviving(n) /\ users'[n] = users[n] /\ users[n].file \in Files
      BY <1>0, <1>5 DEF SettingsInv, UsersShaped, Files
    <2>2. Safe(n) => Safe(n)'
      BY <1>0, <2>1 DEF Safe, InCopy
    <2>3. InText(disk[users[n].file], n) => InText(disk[users[n].file], n)'
      BY <1>8, <2>1 DEF InText
    <2>4. ASSUME NEW a \in Actors, runs'[a] # Rest PROVE Carried(runs[a], n)'
      <3>1. Carried(runs[a], n)
        BY <1>0, <2>1, <2>4 DEF Surviving
      <3> QED BY <1>0, <2>1, <2>2, <3>1 DEF Carried, InText
    <2> QED BY <2>1, <2>2, <2>3, <2>4 DEF Surviving
  <1>12. Surviving(m)'
    <2>1. InText(disk[users[m].file], m)'
      BY <1>3, <1>5, <1>8 DEF InText
    <2>2. ASSUME NEW a \in Actors, runs'[a] # Rest PROVE Carried(runs[a], m)'
      <3>1. Live(runs[a].todo, Makes, f) \/ Live(runs[a].todo, {"copy"}, f) => About(runs[a], f)
        BY <1>0, <2>2 DEF Live, About, Makes, Looks
      <3>2. Live(runs[a].todo, Makes, f) \/ Live(runs[a].todo, {"copy"}, f) => u.exposed
        BY <1>3, <3>1
      <3>3. f \in DOMAIN runs[a].saved => u.copied
        BY <1>0, <1>3, <2>2
      <3> QED BY <1>0, <1>3, <1>5, <3>2, <3>3 DEF Carried, Safe
    <2> QED BY <2>1, <2>2 DEF Surviving
  <1> QED BY <1>5, <1>6, <1>9, <1>10, <1>11, <1>12 DEF SettingsInv

\* Every step keeps it.
LEMMA SettingsInvStep == SettingsInv /\ PatchesNext => SettingsInv'
  <1> SUFFICES ASSUME SettingsInv, PatchesNext PROVE SettingsInv'
    OBVIOUS
  <1>1. (Shape /\ AllSane)'
    BY ShapeStep DEF SettingsInv
  <1>2. CASE UserWrites
    BY <1>1, <1>2, UserStep
  <1>3. ASSUME NEW a \in Actors, Effect(a) PROVE SettingsInv'
    <2>1. UNCHANGED users
      BY <1>3, OwnRun DEF SettingsInv
    <2>2. UsersShaped'
      BY <2>1 DEF SettingsInv, UsersShaped
    <2>3. \A b \in Actors : runs'[b] # Rest => Tidy(runs[b])'
      BY <1>3, TidyStep
    <2>4. \A n \in DOMAIN users' : Surviving(n)'
      BY <1>3, <2>1, SurvivingStep
    <2> QED BY <1>1, <1>3, <2>2, <2>3, <2>4, WorkspaceWhole DEF SettingsInv
  <1> QED BY <1>2, <1>3, StepEffects DEF SettingsInv

\* What the user or the gateway wrote into the state home is in its file or in a copy
\* that some run made, whatever tools run over it and however they overlap, fail or are
\* killed, but for the cases that SettingsKept names.
THEOREM SettingsKeptHolds ==
    ASSUME NEW CONSTANT events
    PROVE  PatchesInit(events) /\ [][PatchesNext]_patchVars => []SettingsKept
  <1>1. PatchesInit(events) => SettingsInv
    <2> SUFFICES ASSUME PatchesInit(events) PROVE SettingsInv
      OBVIOUS
    <2>1. Shape /\ AllSane
      BY ShapeInit
    <2>2. users = <<>> /\ DOMAIN users = {} /\ ToSet(users) = {}
      BY DEF PatchesInit, ToSet
    <2>3. disk["workspace"] = {}
      BY DEF PatchesInit, Files, UserFiles
    <2>4. UsersShaped
      BY <2>2 DEF UsersShaped
    <2>5. \A a \in Actors : runs[a] = Rest
      BY DEF PatchesInit
    <2>6. ~(Torn \subseteq disk["workspace"])
      BY <2>3 DEF Torn
    <2> QED BY <2>1, <2>2, <2>4, <2>5, <2>6 DEF SettingsInv
  <1>2. SettingsInv /\ UNCHANGED patchVars => SettingsInv'
    <2> SUFFICES ASSUME SettingsInv, UNCHANGED patchVars PROVE SettingsInv'
      OBVIOUS
    <2>1. (Shape /\ AllSane /\ UsersShaped)'
      BY DEF SettingsInv, patchVars, Shape, AllSane, UsersShaped
    <2>2. \A n \in DOMAIN users : Safe(n) <=> Safe(n)'
      BY DEF patchVars, Safe, InCopy
    <2>3. \A n \in DOMAIN users, a \in Actors : Carried(runs[a], n) => Carried(runs[a], n)'
      BY <2>2 DEF patchVars, Carried, InText
    <2>4. \A n \in DOMAIN users' : Surviving(n)'
      BY <2>2, <2>3 DEF SettingsInv, patchVars, Surviving, InText
    <2> QED BY <2>1, <2>4 DEF SettingsInv, patchVars, Tidy
  <1>3. SettingsInv => SettingsKept
    <2> SUFFICES ASSUME SettingsInv, NEW n \in DOMAIN users,
                        ~users[n].exposed, UserMarks[n] \notin disk[users[n].file],
                        \A s \in {r.saved : r \in ToSet(evidence)}
                                 \cup {runs[a].saved : a \in {b \in Actors : runs[b] # Rest}} :
                            ~InCopy(s, n),
                        ~((users[n].copied \/ users[n].file = "note")
                          /\ Torn \subseteq disk[users[n].file])
                 PROVE  users[n].file = "state" /\ \E r \in ToSet(evidence) : users[n].file \in r.over
      BY DEF SettingsKept, InCopy
    <2>1. \A i \in DOMAIN evidence : evidence[i] \in ToSet(evidence)
      BY DEF ToSet
    <2>2. Safe(n)
      BY DEF SettingsInv, Surviving, InText
    <2> QED BY <2>1, <2>2 DEF Safe
  <1> QED BY <1>1, <1>2, <1>3, SettingsInvStep, PTL
================================================================================
