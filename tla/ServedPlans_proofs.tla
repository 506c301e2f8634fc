--------------------------- MODULE ServedPlans_proofs ---------------------------
(***************************************************************************)
(* Every call of the server, the gateway and the CLI is a list of steps in which *)
(* each step has what it needs from earlier ones, a step that must come right *)
(* after another does, and an applied candidate of a self-check is taken back: *)
(* for every operation and every input.                                     *)
(***************************************************************************)
EXTENDS ServedPlans, SequenceTheorems, FiniteSetTheorems, TLAPS

-----------------------------------------------------------------------------
(* Lists, and what steps and lines give and need. *)

\* A sequence is a list of its own elements.
LEMMA ListOf ==
    ASSUME NEW S, NEW s \in Seq(S)
    PROVE  /\ IsList(s) /\ Len(s) \in Nat /\ DOMAIN s = 1 .. Len(s)
           /\ \A i \in 1 .. Len(s) : s[i] \in S
  BY DEF IsList, ToSet

LEMMA ListIs ==
    ASSUME NEW s, IsList(s)
    PROVE  Len(s) \in Nat /\ DOMAIN s = 1 .. Len(s)
  BY DEF IsList

LEMMA Joined ==
    ASSUME NEW s, NEW t, IsList(s), IsList(t)
    PROVE  /\ IsList(s \o t) /\ Len(s \o t) = Len(s) + Len(t)
           /\ DOMAIN (s \o t) = 1 .. Len(s) + Len(t)
           /\ \A i \in DOMAIN s : (s \o t)[i] = s[i]
           /\ \A i \in DOMAIN t : (s \o t)[Len(s) + i] = t[i]
           /\ \A i \in DOMAIN (s \o t) : i \in DOMAIN s \/
                 (i - Len(s) \in DOMAIN t /\ (s \o t)[i] = t[i - Len(s)])
  <1> DEFINE S == ToSet(s) \cup ToSet(t)
  <1>1. s \in Seq(S) /\ t \in Seq(S)
    BY DEF IsList
  <1>2. s \o t \in Seq(S)
    BY <1>1
  <1>3. IsList(s \o t)
    BY <1>2, ListOf
  <1> QED BY <1>1, <1>3 DEF ToSet

LEMMA Shortened ==
    ASSUME NEW s, IsList(s), s # <<>>
    PROVE  /\ IsList(Tail(s)) /\ Len(Tail(s)) = Len(s) - 1 /\ Len(s) \in Nat \ {0}
           /\ DOMAIN Tail(s) = 1 .. Len(s) - 1
           /\ 1 \in DOMAIN s /\ Head(s) = s[1] /\ DOMAIN s = 1 .. Len(s)
           /\ \A i \in DOMAIN Tail(s) : i + 1 \in DOMAIN s /\ Tail(s)[i] = s[i + 1]
  <1>1. s \in Seq(ToSet(s))
    BY DEF IsList
  <1>2. Tail(s) \in Seq(ToSet(s))
    BY <1>1
  <1>3. IsList(Tail(s))
    BY <1>2, ListOf
  <1> QED BY <1>1, <1>3

LEMMA Empty == IsList(<<>>) /\ DOMAIN <<>> = {} /\ Len(<<>>) = 0
  <1>1. <<>> \in Seq({})
    OBVIOUS
  <1>2. DOMAIN <<>> = {}
    OBVIOUS
  <1> QED BY <1>1, <1>2, ListOf

LEMMA Lists ==
    ASSUME NEW x, NEW y, NEW z
    PROVE  /\ IsList(<<x>>) /\ DOMAIN <<x>> = {1} /\ <<x>>[1] = x
           /\ IsList(<<x, y>>) /\ DOMAIN <<x, y>> = {1, 2}
           /\ <<x, y>>[1] = x /\ <<x, y>>[2] = y
           /\ IsList(<<x, y, z>>) /\ DOMAIN <<x, y, z>> = {1, 2, 3}
           /\ <<x, y, z>>[1] = x /\ <<x, y, z>>[2] = y /\ <<x, y, z>>[3] = z
  <1>1. <<x>> \in Seq({x}) /\ <<x, y>> \in Seq({x, y}) /\ <<x, y, z>> \in Seq({x, y, z})
    OBVIOUS
  <1>2. IsList(<<x>>) /\ IsList(<<x, y>>) /\ IsList(<<x, y, z>>)
    BY <1>1, ListOf
  <1> QED BY <1>2

LEMMA Pairs ==
    ASSUME NEW x, NEW y
    PROVE  /\ IsList(<<x, y>>) /\ DOMAIN <<x, y>> = {1, 2}
           /\ <<x, y>>[1] = x /\ <<x, y>>[2] = y
  <1>1. <<x, y>> \in Seq({x, y})
    OBVIOUS
  <1>2. IsList(<<x, y>>)
    BY <1>1, ListOf
  <1> QED BY <1>2

LEMMA OfStep ==
    ASSUME NEW n, n \notin {"append", "appendCandidate"}
    PROVE  Step(n).do = n /\ Gives(Step(n)) = {Did(n)}
  BY DEF Step, Gives

LEMMA OfAdd ==
    ASSUME NEW f, NEW k
    PROVE  LET x == Add(f, k) IN
           /\ x.do = "append" /\ x.file = f /\ x.rec.kind = k /\ Kind(x.rec) = k /\ Own(x.rec)
           /\ "kind" \in DOMAIN x.rec
           /\ Gives(x) = {<<f, k>>, <<f, "any">>} /\ Needs(x) = LineNeeds(f, k)
           /\ ~(x.do # "append")
  <1> DEFINE x == Add(f, k)
  <1>1. x.do = "append" /\ x.file = f /\ x.rec = [kind |-> k]
    BY DEF Add, Line
  <1>2. DOMAIN x.rec = {"kind"} /\ x.rec.kind = k
    BY <1>1
  <1>3. Kind(x.rec) = k /\ Own(x.rec)
    BY <1>2 DEF Kind, Own
  <1>4. Gives(x) = {<<f, k>>, <<f, "any">>}
    BY <1>1, <1>3 DEF Gives
  <1>5. Needs(x) = LineNeeds(f, k)
    BY <1>1, <1>3 DEF Needs
  <1> QED BY <1>1, <1>2, <1>3, <1>4, <1>5

\* The lines that need anything.
LEMMA NeedsSmall ==
    /\ LineNeeds("growth", "captured_review_only") = Reviewed
    /\ LineNeeds("growth", "completed_local_auto_loop") = Applied
    /\ LineNeeds("live", "recorded") = Recorded
    /\ LineNeeds("osTurns", "completed") = Completed
    /\ LineNeeds("events", "turn.completed") = {Did("writeState")}
    /\ LineNeeds("events", "turn.authority_needed") = {Did("writeState")}
  BY DEF LineNeeds, TurnTold

-----------------------------------------------------------------------------
(* Lists one after the other: what both have, their joining has. *)

\* Steps that may stand in a call where P is given already, and that give Q.
Steps(s, P, Q) ==
    Tidy(s) /\ Tame(s) /\ Good(s, P) /\ Q \subseteq P \cup Given(s)
Takes(s, P, Q) == Steps(s, P, Q) /\ RollsBack(s)

LEMMA TidyThen ==
    ASSUME NEW s, NEW t, IsList(s), IsList(t), Tidy(s), Tidy(t)
    PROVE  Tidy(s \o t)
  <1> DEFINE r == s \o t
  <1>0. IsList(r)
    BY Joined, Zenon
  <1>1. /\ DOMAIN r = 1 .. Len(s) + Len(t)
        /\ \A i \in DOMAIN s : r[i] = s[i]
        /\ \A i \in DOMAIN t : r[Len(s) + i] = t[i]
        /\ \A i \in DOMAIN r : i \in DOMAIN s \/
              (i - Len(s) \in DOMAIN t /\ r[i] = t[i - Len(s)])
    BY Joined
  <1>2. DOMAIN s = 1 .. Len(s) /\ DOMAIN t = 1 .. Len(t) /\ Len(s) \in Nat /\ Len(t) \in Nat
    BY ListIs
  <1> HIDE DEF r
  <1>3. ASSUME NEW i \in DOMAIN r PROVE WellFormed(r[i]) /\ Led(r, i)
    <2>1. CASE i \in DOMAIN s
      <3>1. r[i] = s[i] /\ WellFormed(s[i]) /\ Led(s, i)
        BY <1>1, <2>1 DEF Tidy
      <3>2. i - 1 \in DOMAIN s => i - 1 \in DOMAIN r /\ r[i - 1] = s[i - 1]
        BY <1>1, <1>2
      <3> QED BY <3>1, <3>2 DEF Led
    <2>2. CASE i - Len(s) \in DOMAIN t
      <3>1. r[i] = t[i - Len(s)] /\ WellFormed(t[i - Len(s)]) /\ Led(t, i - Len(s))
        BY <1>1, <1>2, <2>2 DEF Tidy
      <3>2. i - Len(s) - 1 \in DOMAIN t => i - 1 \in DOMAIN r /\ r[i - 1] = t[i - Len(s) - 1]
        <4>1. i \in Int /\ Len(s) + (i - Len(s) - 1) = i - 1
          BY <1>1, <1>2
        <4>2. ASSUME i - Len(s) - 1 \in DOMAIN t
              PROVE  i - 1 \in DOMAIN r
          BY <1>1, <1>2, <4>1, <4>2
        <4> QED BY <1>1, <4>1, <4>2
      <3> QED BY <3>1, <3>2 DEF Led
    <2> QED BY <1>1, <2>1, <2>2
  <1>4. ASSUME NEW i \in DOMAIN r, Owes(r[i]) # {}
        PROVE  i + 1 \in DOMAIN r /\ Owes(r[i]) \cap Gives(r[i + 1]) # {}
    <2>1. CASE i \in DOMAIN s
      <3>1. i + 1 \in DOMAIN s /\ Owes(s[i]) \cap Gives(s[i + 1]) # {}
        BY <1>1, <1>4, <2>1 DEF Tidy, Prompt
      <3>2. i + 1 \in DOMAIN r /\ r[i + 1] = s[i + 1]
        BY <1>1, <1>2, <3>1
      <3> QED BY <1>1, <2>1, <3>1, <3>2
    <2>2. CASE i - Len(s) \in DOMAIN t /\ r[i] = t[i - Len(s)]
      <3>1. i - Len(s) + 1 \in DOMAIN t
            /\ Owes(t[i - Len(s)]) \cap Gives(t[i - Len(s) + 1]) # {}
        BY <1>4, <2>2 DEF Tidy, Prompt
      <3>2. i \in Int /\ Len(s) + (i - Len(s) + 1) = i + 1
        BY <1>1, <1>2
      <3>3. i + 1 \in DOMAIN r
        BY <1>1, <1>2, <3>1, <3>2
      <3>4. r[i + 1] = t[i - Len(s) + 1]
        BY <1>1, <3>1, <3>2
      <3> QED BY <2>2, <3>1, <3>3, <3>4
    <2> QED BY <1>1, <2>1, <2>2
  <1> QED BY <1>0, <1>3, <1>4 DEF Tidy, Prompt, r

LEMMA GivenThen ==
    ASSUME NEW s, NEW t, IsList(s), IsList(t)
    PROVE  Given(s \o t) = Given(s) \cup Given(t)
  <1> DEFINE r == s \o t
  <1>1. /\ DOMAIN r = 1 .. Len(s) + Len(t)
        /\ \A i \in DOMAIN s : r[i] = s[i]
        /\ \A i \in DOMAIN t : r[Len(s) + i] = t[i]
        /\ \A i \in DOMAIN r : i \in DOMAIN s \/
              (i - Len(s) \in DOMAIN t /\ r[i] = t[i - Len(s)])
    BY Joined
  <1>2. DOMAIN s = 1 .. Len(s) /\ DOMAIN t = 1 .. Len(t) /\ Len(s) \in Nat /\ Len(t) \in Nat
    BY ListIs
  <1> HIDE DEF r
  <1>3. \A i \in DOMAIN s : i \in DOMAIN r
    BY <1>1, <1>2
  <1>4. \A i \in DOMAIN t : Len(s) + i \in DOMAIN r
    BY <1>1, <1>2
  <1> QED BY <1>1, <1>3, <1>4 DEF Given, r

LEMMA GoodThen ==
    ASSUME NEW s, NEW t, NEW P, NEW Q, IsList(s), IsList(t), Good(s, P), Good(t, Q),
           Q \subseteq P \cup Given(s)
    PROVE  Good(s \o t, P)
  <1> DEFINE r == s \o t
  <1>1. /\ DOMAIN r = 1 .. Len(s) + Len(t)
        /\ \A i \in DOMAIN s : r[i] = s[i]
        /\ \A i \in DOMAIN t : r[Len(s) + i] = t[i]
        /\ \A i \in DOMAIN r : i \in DOMAIN s \/
              (i - Len(s) \in DOMAIN t /\ r[i] = t[i - Len(s)])
    BY Joined
  <1>2. DOMAIN s = 1 .. Len(s) /\ DOMAIN t = 1 .. Len(t) /\ Len(s) \in Nat /\ Len(t) \in Nat
    BY ListIs
  <1> HIDE DEF r
  <1>3. ASSUME NEW i \in DOMAIN r, NEW tag \in Needs(r[i])
        PROVE  tag \in P \/ \E j \in DOMAIN r : j < i /\ tag \in Gives(r[j])
    <2>1. CASE i \in DOMAIN s
      <3>1. tag \in P \/ \E j \in DOMAIN s : j < i /\ tag \in Gives(s[j])
        BY <1>1, <1>3, <2>1 DEF Good
      <3>2. \A j \in DOMAIN s : j \in DOMAIN r /\ r[j] = s[j]
        BY <1>1, <1>2
      <3> QED BY <3>1, <3>2
    <2>2. CASE i - Len(s) \in DOMAIN t /\ r[i] = t[i - Len(s)]
      <3>1. tag \in Q \/ \E j \in DOMAIN t : j < i - Len(s) /\ tag \in Gives(t[j])
        BY <1>3, <2>2 DEF Good
      <3>2. CASE \E j \in DOMAIN t : j < i - Len(s) /\ tag \in Gives(t[j])
        <4>1. PICK j \in DOMAIN t : j < i - Len(s) /\ tag \in Gives(t[j])
          BY <3>2
        <4>2. Len(s) + j \in DOMAIN r /\ Len(s) + j < i /\ r[Len(s) + j] = t[j]
          BY <1>1, <1>2, <4>1
        <4> QED BY <4>1, <4>2
      <3>3. CASE tag \in Given(s)
        <4>1. PICK j \in DOMAIN s : tag \in Gives(s[j])
          BY <3>3 DEF Given
        <4>2. j \in DOMAIN r /\ j < i /\ r[j] = s[j]
          BY <1>1, <1>2, <2>2
        <4> QED BY <4>1, <4>2
      <3> QED BY <3>1, <3>2, <3>3
    <2> QED BY <1>1, <2>1, <2>2
  <1> QED BY <1>3 DEF Good, r

LEMMA StepsThen ==
    ASSUME NEW s, NEW t, NEW P, NEW Q, NEW R, Steps(s, P, Q), Steps(t, Q, R)
    PROVE  Steps(s \o t, P, R)
  <1>1. IsList(s) /\ IsList(t)
    BY DEF Steps, Tidy
  <1>2. Tidy(s \o t)
    BY <1>1, TidyThen DEF Steps
  <1>3. Given(s \o t) = Given(s) \cup Given(t)
    BY <1>1, GivenThen
  <1>4. Good(s \o t, P)
    BY <1>1, GoodThen DEF Steps
  <1>5. Tame(s \o t)
    BY <1>1, Joined DEF Steps, Tame
  <1> QED BY <1>2, <1>3, <1>4, <1>5 DEF Steps

\* An applied candidate of the second list is taken back in the second list.
LEMMA RollsBackThen ==
    ASSUME NEW s, NEW t, IsList(s), IsList(t), RollsBack(s), RollsBack(t)
    PROVE  RollsBack(s \o t)
  <1> DEFINE r == s \o t
  <1>1. /\ DOMAIN r = 1 .. Len(s) + Len(t)
        /\ \A i \in DOMAIN s : r[i] = s[i]
        /\ \A i \in DOMAIN t : r[Len(s) + i] = t[i]
        /\ \A i \in DOMAIN r : i \in DOMAIN s \/
              (i - Len(s) \in DOMAIN t /\ r[i] = t[i - Len(s)])
    BY Joined
  <1>2. DOMAIN s = 1 .. Len(s) /\ DOMAIN t = 1 .. Len(t) /\ Len(s) \in Nat /\ Len(t) \in Nat
    BY ListIs
  <1> HIDE DEF r
  <1>3. ASSUME NEW i \in DOMAIN r, r[i].do = "appendCheckCell"
        PROVE  \E j \in DOMAIN r : j > i /\ TakesBack(r[j])
    <2>1. CASE i \in DOMAIN s
      <3>1. PICK j \in DOMAIN s : j > i /\ TakesBack(s[j])
        BY <1>1, <1>3, <2>1 DEF RollsBack
      <3>2. j \in DOMAIN r /\ r[j] = s[j]
        BY <1>1, <1>2
      <3> QED BY <3>1, <3>2
    <2>2. CASE i - Len(s) \in DOMAIN t /\ r[i] = t[i - Len(s)]
      <3>1. PICK j \in DOMAIN t : j > i - Len(s) /\ TakesBack(t[j])
        BY <1>3, <2>2 DEF RollsBack
      <3>2. Len(s) + j \in DOMAIN r /\ Len(s) + j > i /\ r[Len(s) + j] = t[j]
        BY <1>1, <1>2, <3>1
      <3> QED BY <3>1, <3>2
    <2> QED BY <1>1, <2>1, <2>2
  <1> QED BY <1>3 DEF RollsBack, r

\* Steps that need P, then steps that need what these gave.
LEMMA TakesThen ==
    ASSUME NEW s, NEW t, NEW P, NEW Q, NEW R, Takes(s, P, Q), Takes(t, Q, R)
    PROVE  Takes(s \o t, P, R)
  <1>1. IsList(s) /\ IsList(t)
    BY DEF Takes, Steps, Tidy
  <1> QED BY <1>1, StepsThen, RollsBackThen DEF Takes

LEMMA TakesMore ==
    ASSUME NEW s, NEW P, NEW Q, NEW P2, NEW Q2, Takes(s, P, Q),
           P \subseteq P2, Q2 \subseteq Q \cup P2
    PROVE  Takes(s, P2, Q2)
  <1>1. Good(s, P2)
    BY DEF Takes, Steps, Good
  <1> QED BY <1>1 DEF Takes, Steps

LEMMA TakesNone ==
    ASSUME NEW P, NEW Q, Q \subseteq P
    PROVE  Takes(<<>>, P, Q)
  <1> DEFINE s == <<>>
  <1>1. IsList(s) /\ DOMAIN s = {}
    BY Empty
  <1> HIDE DEF s
  <1> QED BY <1>1 DEF Takes, Steps, Tidy, Tame, Good, Prompt, RollsBack, s

\* A step with no duties: it comes anywhere, and nothing must follow it.
Plain(x) ==
    /\ WellFormed(x) /\ Owes(x) = {} /\ ~Ends(x)
    /\ x.do \notin {"runCommand", "writeIndex", "appendCheckCell", "writeWelcome"}

LEMMA StepsOne ==
    ASSUME NEW x, NEW P, NEW Q, WellFormed(x), Owes(x) = {}, ~Ends(x),
           x.do \notin {"runCommand", "writeIndex", "writeWelcome"},
           Needs(x) \subseteq P, Q \subseteq P \cup Gives(x)
    PROVE  Steps(<<x>>, P, Q)
  <1>1. IsList(<<x>>) /\ DOMAIN <<x>> = {1} /\ <<x>>[1] = x
    BY Lists
  <1>2. \A i \in DOMAIN <<x>> : Led(<<x>>, i)
    BY <1>1 DEF Led
  <1>3. Given(<<x>>) = Gives(x)
    BY <1>1 DEF Given
  <1> QED BY <1>1, <1>2, <1>3 DEF Steps, Tidy, Tame, Good, Prompt

LEMMA TakesOne ==
    ASSUME NEW x, NEW P, NEW Q, Plain(x), Needs(x) \subseteq P, Q \subseteq P \cup Gives(x)
    PROVE  Takes(<<x>>, P, Q)
  <1>1. Steps(<<x>>, P, Q)
    BY StepsOne DEF Plain
  <1>2. RollsBack(<<x>>)
    BY Lists DEF Plain, RollsBack
  <1> QED BY <1>1, <1>2 DEF Takes

\* Two steps, the second right behind the first.
LEMMA TakesTwo ==
    ASSUME NEW x, NEW y, NEW P, NEW Q, WellFormed(x), WellFormed(y), ~Ends(x), ~Ends(y),
           x.do \notin {"runCommand", "writeIndex", "appendCheckCell", "writeWelcome"},
           y.do \notin {"appendCheckCell", "writeWelcome"},
           Owes(x) = {} \/ Owes(x) \cap Gives(y) # {}, Owes(y) = {},
           y.do = "runCommand" => Runs(x), y.do = "writeIndex" => x.do = "collectCells",
           Needs(x) \subseteq P, Needs(y) \subseteq P \cup Gives(x),
           Q \subseteq P \cup Gives(x) \cup Gives(y)
    PROVE  Takes(<<x, y>>, P, Q)
  <1> DEFINE s == <<x, y>>
  <1>1. IsList(s) /\ DOMAIN s = {1, 2} /\ s[1] = x /\ s[2] = y
    BY Pairs
  <1> HIDE DEF s
  <1>2. Led(s, 1) /\ Led(s, 2)
    BY <1>1 DEF Led
  <1>3. Given(s) = Gives(x) \cup Gives(y)
    BY <1>1 DEF Given
  <1>4. Good(s, P)
    BY <1>1 DEF Good
  <1>5. Prompt(s)
    <2>1. ASSUME NEW i \in DOMAIN s, Owes(s[i]) # {}
          PROVE  i + 1 \in DOMAIN s /\ Owes(s[i]) \cap Gives(s[i + 1]) # {}
      <3>1. i = 1
        BY <1>1, <2>1
      <3> QED BY <1>1, <2>1, <3>1
    <2> QED BY <2>1 DEF Prompt
  <1>6. RollsBack(s) /\ Tame(s)
    BY <1>1 DEF RollsBack, Tame
  <1> QED BY <1>1, <1>2, <1>3, <1>4, <1>5, <1>6 DEF Takes, Steps, Tidy, s

-----------------------------------------------------------------------------
(* Single steps and lines, and the ways the lists are put together. *)

LEMMA JoinedRight ==
    ASSUME NEW s, NEW t, IsList(s), IsList(t), NEW i \in DOMAIN t
    PROVE  (s \o t)[Len(s) + i] = t[i]
  <1>1. PICK r : r = s \o t
    OBVIOUS
  <1>2. \A j \in DOMAIN t : r[Len(s) + j] = t[j]
    BY <1>1, Joined
  <1> QED BY <1>1, <1>2

LEMMA JoinOne ==
    ASSUME NEW S, NEW s \in Seq(S), NEW t \in Seq(S), Len(s) = 1, Len(t) = 1
    PROVE  s \o t = <<s[1], t[1]>>
  <1>1. s \o t \in Seq(S) /\ Len(s \o t) = 2
    <2>1. s \o t \in Seq(S) /\ Len(s \o t) = Len(s) + Len(t)
      BY ConcatProperties, Zenon
    <2> QED BY <2>1
  <1>2. (s \o t)[1] = s[1]
    OBVIOUS
  <1>3. (s \o t)[2] = t[1]
    <2>1. IsList(s) /\ IsList(t)
      BY ListOf
    <2>2. 1 \in DOMAIN t /\ Len(s) + 1 = 2
      OBVIOUS
    <2>3. (s \o t)[Len(s) + 1] = t[1]
      BY <2>1, <2>2, JoinedRight
    <2> QED BY <2>2, <2>3
  <1>4. <<s[1], t[1]>> \in Seq(S) /\ Len(<<s[1], t[1]>>) = 2
    OBVIOUS
  <1>5. PICK r : r = s \o t
    OBVIOUS
  <1>6. PICK u : u = <<s[1], t[1]>>
    OBVIOUS
  <1>7. u[1] = s[1] /\ u[2] = t[1] /\ r[1] = s[1] /\ r[2] = t[1]
    BY <1>2, <1>3, <1>5, <1>6
  <1>8. \A i \in 1 .. Len(r) : r[i] = u[i]
    BY <1>1, <1>5, <1>7
  <1>9. r \in Seq(S) /\ u \in Seq(S) /\ Len(r) = Len(u)
    BY <1>1, <1>4, <1>5, <1>6
  <1>10. r = u
    BY <1>8, <1>9, SeqEqual
  <1> QED BY <1>5, <1>6, <1>10

LEMMA Cuts2 ==
    ASSUME NEW x, NEW y
    PROVE  <<x, y>> = <<x>> \o <<y>>
  <1> DEFINE s == <<x>>
             t == <<y>>
  <1>1. s \in Seq({x, y}) /\ t \in Seq({x, y})
    OBVIOUS
  <1>2. Len(s) = 1 /\ Len(t) = 1 /\ s[1] = x /\ t[1] = y
    OBVIOUS
  <1> HIDE DEF s, t
  <1>3. s \o t = <<x, y>>
    BY <1>1, <1>2, JoinOne
  <1> QED BY <1>3 DEF s, t

LEMMA Cuts3 ==
    ASSUME NEW x, NEW y, NEW z
    PROVE  <<x, y, z>> = <<x>> \o <<y, z>>
  OBVIOUS

\* Steps that need, owe or follow something, or say more than what they are.
Special == {"append", "readApplied", "writeState", "writeWiki", "appendCandidate", "writeSessions",
            "appendCheckCell", "writeKept", "collectCells", "writeIndex",
            "writeWelcome", "runCommand"}

\* The steps that are neither plain nor lines.
LEMMA PlainOther ==
    ASSUME NEW x, x.do \notin Special
    PROVE  Plain(x) /\ Needs(x) = {} /\ Gives(x) = {Did(x.do)}
  <1>1. Needs(x) = {}
    BY DEF Needs, Special
  <1>2. Owes(x) = {}
    BY DEF Owes, Special
  <1>3. WellFormed(x) /\ ~Ends(x)
    BY DEF WellFormed, Ends, Special
  <1> QED BY <1>1, <1>2, <1>3 DEF Plain, Gives, Special

LEMMA PlainSteps ==
    ASSUME NEW n, n \notin Special
    PROVE  Plain(Step(n)) /\ Needs(Step(n)) = {} /\ Gives(Step(n)) = {Did(n)}
  <1>1. Step(n).do = n
    BY DEF Step
  <1> QED BY <1>1, PlainOther

LEMMA TakesStep ==
    ASSUME NEW n, n \notin Special, NEW P
    PROVE  Takes(<<Step(n)>>, P, P \cup {Did(n)})
  BY PlainSteps, TakesOne

LEMMA AddFormed ==
    ASSUME NEW f \in LineFiles, NEW k, f = "osTurns" => k \in {"completed", "blocked"}
    PROVE  WellFormed(Add(f, k))
  BY OfAdd DEF WellFormed

LEMMA PlainAdd ==
    ASSUME NEW f \in LineFiles, NEW k, f = "osTurns" => k \in {"completed", "blocked"},
           f = "progress" => k \notin {"tool_running", "tool_complete", "tool_error"}
    PROVE  Plain(Add(f, k))
  <1> DEFINE x == Add(f, k)
  <1>1. x.do = "append" /\ x.file = f /\ Kind(x.rec) = k
    BY OfAdd
  <1>2. WellFormed(x)
    BY AddFormed
  <1> HIDE DEF x
  <1>3. Owes(x) = {} /\ ~Ends(x)
    BY <1>1 DEF Owes, Ends
  <1> QED BY <1>1, <1>2, <1>3 DEF Plain, x

LEMMA TakesAdd ==
    ASSUME NEW f \in LineFiles, NEW k, f = "osTurns" => k \in {"completed", "blocked"},
           f = "progress" => k \notin {"tool_running", "tool_complete", "tool_error"},
           NEW P, LineNeeds(f, k) \subseteq P
    PROVE  Takes(<<Add(f, k)>>, P, P \cup {<<f, k>>, <<f, "any">>})
  BY PlainAdd, OfAdd, TakesOne

LEMMA FreeLines ==
    ASSUME NEW f, NEW k, f \notin {"growth", "live", "osTurns", "events"}
    PROVE  LineNeeds(f, k) = {}
  BY DEF LineNeeds, TurnTold

LEMMA FreeKinds ==
    ASSUME NEW f, NEW k, k \notin {"captured_review_only", "completed_local_auto_loop",
              "recorded", "completed", "turn.completed", "turn.authority_needed"}
    PROVE  LineNeeds(f, k) = {}
  BY DEF LineNeeds, TurnTold

\* A line of a kind that needs nothing.
LEMMA TakesFreeLine ==
    ASSUME NEW f \in LineFiles, NEW k, f \notin {"growth", "live", "osTurns", "events"},
           f = "progress" => k \notin {"tool_running", "tool_complete", "tool_error"},
           NEW P
    PROVE  Takes(<<Add(f, k)>>, P, P \cup {<<f, k>>, <<f, "any">>})
  <1>1. LineNeeds(f, k) = {}
    BY FreeLines
  <1> QED BY <1>1, TakesAdd

LEMMA TakesFreeKind ==
    ASSUME NEW f \in LineFiles, NEW k, f # "osTurns",
           k \notin {"captured_review_only", "completed_local_auto_loop", "recorded",
                "completed", "turn.completed", "turn.authority_needed",
                "tool_running", "tool_complete", "tool_error"},
           NEW P
    PROVE  Takes(<<Add(f, k)>>, P, P \cup {<<f, k>>, <<f, "any">>})
  <1>1. LineNeeds(f, k) = {}
    BY FreeKinds
  <1> QED BY <1>1, TakesAdd

LEMMA TwoFreeLines ==
    ASSUME NEW f \in {"queue", "approvals", "audits"}, NEW k,
           NEW g \in {"queue", "approvals", "audits"}, NEW l, NEW P
    PROVE  Takes(<<Add(f, k), Add(g, l)>>, P, P \cup {<<f, k>>, <<g, l>>})
  <1> DEFINE Q == P \cup {<<f, k>>, <<f, "any">>}
             R == Q \cup {<<g, l>>, <<g, "any">>}
  <1>0. \A h \in {f, g} : h \in LineFiles /\ h \notin {"growth", "live", "osTurns", "events"}
                        /\ h # "progress"
    BY DEF LineFiles
  <1>1. Takes(<<Add(f, k)>>, P, Q)
    BY <1>0, TakesFreeLine
  <1>2. Takes(<<Add(g, l)>>, Q, R)
    BY <1>0, TakesFreeLine
  <1>3. Takes(<<Add(f, k)>> \o <<Add(g, l)>>, P, R)
    BY <1>1, <1>2, TakesThen
  <1>4. <<Add(f, k), Add(g, l)>> = <<Add(f, k)>> \o <<Add(g, l)>>
    BY Cuts2
  <1>5. Takes(<<Add(f, k), Add(g, l)>>, P, R)
    BY <1>3, <1>4
  <1> HIDE DEF R
  <1>6. P \cup {<<f, k>>, <<g, l>>} \subseteq R
    BY DEF R
  <1> QED BY <1>5, <1>6, TakesMore

\* Needing more and giving less is allowed.
LEMMA TakesWeaker ==
    ASSUME NEW s, NEW P, NEW Q, NEW R, Takes(s, P, Q), R \subseteq Q \cup P
    PROVE  Takes(s, P, R)
  BY TakesMore

-----------------------------------------------------------------------------
(* A turn of the runtime, a capture, and the index and the search. *)

LEMMA InitializeTakes == Takes(InitializeMemoryWiki, {}, {Did("readWiki")})
  <1> DEFINE x == Step("checkWiki")
             y == Step("checkCandidates")
             z == Step("readWiki")
  <1>1. Takes(<<x>>, {}, {})
    BY TakesStep, TakesWeaker DEF Special
  <1>2. Takes(<<y>>, {}, {})
    BY TakesStep, TakesWeaker DEF Special
  <1>3. Takes(<<z>>, {}, {Did("readWiki")})
    BY TakesStep, TakesWeaker DEF Special
  <1>4. InitializeMemoryWiki = <<x, y, z>>
    BY DEF InitializeMemoryWiki
  <1> HIDE DEF x, y, z
  <1>5. Takes(<<y>> \o <<z>>, {}, {Did("readWiki")})
    BY <1>2, <1>3, TakesThen
  <1>6. Takes(<<y, z>>, {}, {Did("readWiki")})
    BY <1>5, Cuts2
  <1>7. Takes(<<x>> \o <<y, z>>, {}, {Did("readWiki")})
    BY <1>1, <1>6, TakesThen
  <1> QED BY <1>4, <1>7, Cuts3

LEMMA RunTurnTakes == Takes(RunTurn, {}, {Did("readBase")})
  <1> DEFINE Q == {Did("readBase")}
  <1>1. Takes(<<Step("readBase")>>, {}, Q)
    BY TakesStep, TakesWeaker DEF Special
  <1>2. Takes(<<Step("readCandidates")>>, Q, Q)
    BY TakesStep, TakesWeaker DEF Special
  <1>3. Takes(<<Step("readBase")>> \o <<Step("readCandidates")>>, {}, Q)
    BY <1>1, <1>2, TakesThen
  <1>4. <<Step("readBase"), Step("readCandidates")>>
           = <<Step("readBase")>> \o <<Step("readCandidates")>>
    BY Cuts2
  <1> QED BY <1>3, <1>4 DEF RunTurn

\* A turn that first makes sure of the state.
LEMMA CheckedTurn == Takes(<<Step("checkState")>> \o RunTurn, {}, {Did("readBase")})
  <1>1. Takes(<<Step("checkState")>>, {}, {})
    BY TakesStep, TakesWeaker DEF Special
  <1> QED BY <1>1, RunTurnTakes, TakesThen

LEMMA TurnViewTakes == Takes(TurnView, {}, {})
  BY CheckedTurn, TakesWeaker DEF TurnView

LEMMA TurnWritten ==
    ASSUME NEW status \in {"turn.completed", "turn.authority_needed"}
    PROVE  Takes(<<Step("writeState"), Add("events", status)>>, {Did("readBase")}, {})
  <1> DEFINE x == Step("writeState")
             y == Add("events", status)
  <1>1. x.do = "writeState" /\ Gives(x) = {Did("writeState")}
    BY OfStep
  <1>2. /\ y.do = "append" /\ y.file = "events" /\ Kind(y.rec) = status
        /\ Gives(y) = {<<"events", status>>, <<"events", "any">>}
        /\ Needs(y) = LineNeeds("events", status) /\ Plain(y)
    BY OfAdd, PlainAdd DEF LineFiles
  <1> HIDE DEF x, y
  <1>3. Needs(x) = {Did("readBase")} /\ Owes(x) = TurnTold /\ WellFormed(x) /\ ~Ends(x)
    BY <1>1 DEF Needs, Owes, WellFormed, Ends
  <1>4. <<"events", status>> \in TurnTold
    BY DEF TurnTold
  <1>5. Needs(y) = {Did("writeState")}
    BY <1>2, <1>4 DEF LineNeeds
  <1>6. Takes(<<x, y>>, {Did("readBase")}, {})
    BY <1>1, <1>2, <1>3, <1>4, <1>5, TakesTwo DEF Plain
  <1> QED BY <1>6 DEF x, y

\* A turn writes the state it has read and tells of it at once.
LEMMA TurnTakes ==
    ASSUME NEW status \in {"turn.completed", "turn.authority_needed"}
    PROVE  Takes(TurnSteps(status), {}, {})
  <1> DEFINE Q == {Did("readBase")}
  <1>1. Takes(<<Step("readRest")>>, Q, Q)
    BY TakesStep, TakesWeaker DEF Special
  <1>2. Takes(<<Step("readRest")>> \o <<Step("writeState"), Add("events", status)>>, Q, {})
    BY <1>1, TurnWritten, TakesThen
  <1>3. <<Step("readRest"), Step("writeState"), Add("events", status)>>
           = <<Step("readRest")>> \o <<Step("writeState"), Add("events", status)>>
    BY Cuts3
  <1>4. Takes(<<Step("readRest"), Step("writeState"), Add("events", status)>>, Q, {})
    BY <1>2, <1>3
  <1> QED BY <1>4, CheckedTurn, TakesThen DEF TurnSteps

LEMMA CaptureWritten ==
    Takes(<<Step("writeWiki"), Cell(FALSE)>>, {Did("readWiki")},
          {Did("writeWiki"), Did("appendCandidate")})
  <1> DEFINE x == Step("writeWiki")
             y == Cell(FALSE)
  <1>1. x.do = "writeWiki" /\ Gives(x) = {Did("writeWiki")}
    BY OfStep
  <1>2. y.do = "appendCandidate" /\ y.applied = FALSE
    BY DEF Cell
  <1> HIDE DEF x, y
  <1>3. /\ Needs(x) = {Did("readWiki")} /\ Owes(x) = {Did("appendCandidate")}
        /\ WellFormed(x) /\ ~Ends(x)
    BY <1>1 DEF Needs, Owes, WellFormed, Ends
  <1>4. /\ Needs(y) = {Did("writeWiki")} /\ Owes(y) = {} /\ WellFormed(y) /\ ~Ends(y)
        /\ Gives(y) = {Did("appendCandidate")}
    BY <1>2 DEF Needs, Owes, WellFormed, Ends, Gives
  <1>5. Takes(<<x, y>>, {Did("readWiki")}, {Did("writeWiki"), Did("appendCandidate")})
    BY <1>1, <1>2, <1>3, <1>4, TakesTwo
  <1> QED BY <1>5 DEF x, y

\* What a capture leaves for the lines that name it.
Captured == {Did("writeWiki"), Did("appendCandidate")}

\* A capture writes its entry and its candidate, one right after the other.
LEMMA CaptureTakes == Takes(CaptureSteps, {}, Captured)
  BY CaptureWritten, InitializeTakes, TakesThen DEF CaptureSteps, Captured

LEMMA BuildTakes == Takes(BuildSteps, {}, {})
  <1> DEFINE x == Step("collectCells")
             y == Step("writeIndex")
             P == {Did("collectEntries")}
  <1>1. Takes(<<Step("collectEntries")>>, {}, P)
    BY TakesStep, TakesWeaker DEF Special
  <1>2. /\ x.do = "collectCells" /\ Gives(x) = {Did("collectCells")}
        /\ y.do = "writeIndex" /\ Gives(y) = {Did("writeIndex")}
    BY OfStep
  <1>3. <<Step("collectEntries"), x, y>> = <<Step("collectEntries")>> \o <<x, y>>
    BY Cuts3
  <1> HIDE DEF x, y
  <1>4. /\ Needs(x) = P /\ Owes(x) = {} /\ WellFormed(x) /\ ~Ends(x)
        /\ Needs(y) = {Did("collectEntries"), Did("collectCells")}
        /\ Owes(y) = {} /\ WellFormed(y) /\ ~Ends(y)
    BY <1>2 DEF Needs, Owes, WellFormed, Ends
  <1>5. Takes(<<x, y>>, P, {})
    BY <1>2, <1>4, TakesTwo
  <1>6. Takes(<<Step("collectEntries")>> \o <<x, y>>, {}, {})
    BY <1>1, <1>5, TakesThen
  <1> QED BY <1>3, <1>6 DEF BuildSteps, x, y

LEMMA SearchTakes ==
    ASSUME NEW allowBuild
    PROVE  Takes(SearchSteps(allowBuild), {}, {})
  <1> DEFINE x == [do |-> "readIndex", allowBuild |-> allowBuild]
  <1>1. x.do \notin Special
    BY DEF Special
  <1> HIDE DEF x
  <1>2. Plain(x) /\ Needs(x) = {}
    BY <1>1, PlainOther
  <1>3. Takes(<<x>>, {}, {})
    BY <1>2, TakesOne
  <1> QED BY <1>3 DEF SearchSteps, x

LEMMA LineTakes ==
    ASSUME NEW f \in {"history", "proposals", "gates"}, NEW rec, "call" \notin DOMAIN rec,
           "kind" \notin DOMAIN rec, NEW P
    PROVE  Takes(<<Line(f, rec)>>, P, P)
  <1> DEFINE x == Line(f, rec)
  <1>1. x.do = "append" /\ x.file = f /\ x.rec = rec
    BY DEF Line
  <1> HIDE DEF x
  <1>2. Kind(x.rec) = "none" /\ Own(x.rec)
    BY <1>1 DEF Kind, Own
  <1>3. Needs(x) = LineNeeds(f, "none")
    BY <1>1, <1>2 DEF Needs
  <1>4. Plain(x) /\ Needs(x) = {}
    BY <1>1, <1>2, <1>3, FreeLines DEF Plain, WellFormed, Owes, Ends, LineFiles
  <1>5. Takes(<<x>>, P, P)
    BY <1>4, TakesOne
  <1> QED BY <1>5 DEF x

-----------------------------------------------------------------------------
(* Growth runs: review, approval and apply. *)

LEMMA Cuts3After ==
    ASSUME NEW x, NEW y, NEW z
    PROVE  <<x, y, z>> = <<x, y>> \o <<z>>
  OBVIOUS

\* Steps of a list, taken one after the other.
LEMMA TakesPair ==
    ASSUME NEW x, NEW y, NEW P, NEW Q, NEW R, Takes(<<x>>, P, Q), Takes(<<y>>, Q, R)
    PROVE  Takes(<<x, y>>, P, R)
  <1>1. Takes(<<x>> \o <<y>>, P, R)
    BY TakesThen
  <1> QED BY <1>1, Cuts2

LEMMA TakesTriple ==
    ASSUME NEW x, NEW y, NEW z, NEW P, NEW Q, NEW R, Takes(<<x>>, P, Q), Takes(<<y, z>>, Q, R)
    PROVE  Takes(<<x, y, z>>, P, R)
  <1>1. Takes(<<x>> \o <<y, z>>, P, R)
    BY TakesThen
  <1> QED BY <1>1, Cuts3

LEMMA TakesSix ==
    ASSUME NEW x, NEW y, NEW z, NEW u, NEW v, NEW w, NEW P, NEW Q, NEW R,
           Takes(<<x, y, z>>, P, Q), Takes(<<u, v, w>>, Q, R)
    PROVE  Takes(<<x, y, z, u, v, w>>, P, R)
  <1>1. Takes(<<x, y, z>> \o <<u, v, w>>, P, R)
    BY TakesThen
  <1>2. <<x, y, z, u, v, w>> = <<x, y, z>> \o <<u, v, w>>
    OBVIOUS
  <1> QED BY <1>1, <1>2, Zenon

\* An apply, between two looks at the candidates.
LEMMA ReversiblyTakes ==
    ASSUME NEW append, NEW line, NEW P, NEW Q, Takes(<<Step("readCandidates")>>, P, P),
           Takes(<<append>>, P, P), Takes(<<line>>, P, Q)
    PROVE  Takes(ApplyReversibly(append, line), P, Q)
  <1> DEFINE look == Step("readCandidates")
  <1>1. ApplyReversibly(append, line) = <<look, append, look, line>>
    BY DEF ApplyReversibly
  <1> HIDE DEF look
  <1>2. Takes(<<look>>, P, P)
    BY DEF look
  <1>3. Takes(<<look, append>>, P, P) /\ Takes(<<look, line>>, P, Q)
    BY <1>2, TakesPair
  <1>4. Takes(<<look, append>> \o <<look, line>>, P, Q)
    BY <1>3, TakesThen
  <1>5. <<look, append, look, line>> = <<look, append>> \o <<look, line>>
    OBVIOUS
  <1> QED BY <1>1, <1>4, <1>5, Zenon

\* What a review adds.
Queued == Captured \cup {<<"queue", "candidate">>, <<"queue", "replay">>}

LEMMA ReviewTakes ==
    Takes(CaptureSteps \o <<Add("queue", "candidate"), Add("queue", "replay")>>, {}, Queued)
  <1>1. Takes(<<Add("queue", "candidate"), Add("queue", "replay")>>, Captured, Queued)
    BY TwoFreeLines DEF Queued
  <1> QED BY <1>1, CaptureTakes, TakesThen

LEMMA AppliedCell ==
    ASSUME NEW P, {Did("writeWiki")} \cup Approved \subseteq P
    PROVE  Takes(<<Cell(TRUE)>>, P, P)
  <1> DEFINE x == Cell(TRUE)
  <1>1. x.do = "appendCandidate" /\ x.applied = TRUE
    BY DEF Cell
  <1> HIDE DEF x
  <1>2. Plain(x) /\ Needs(x) = {Did("writeWiki")} \cup Approved
    BY <1>1 DEF Needs, Plain, Owes, WellFormed, Ends
  <1>3. Takes(<<x>>, P, P)
    BY <1>2, TakesOne
  <1> QED BY <1>3 DEF x

ApplySteps ==
    <<Add("approvals", "approval"), Add("audits", "audit"), Add("queue", "bridge")>>
    \o ApplyReversibly(Cell(TRUE), Add("queue", "apply"))

Changed == Queued \cup Approved \cup {<<"queue", "bridge">>, <<"queue", "apply">>}

LEMMA ApplyTakes == Takes(ApplySteps, Queued, Changed)
  <1> DEFINE P == Queued \cup Approved
             Q == P \cup {<<"queue", "bridge">>}
             R == Q \cup {<<"queue", "apply">>}
  <1>1. Takes(<<Add("approvals", "approval"), Add("audits", "audit")>>, Queued, P)
    <2>1. Takes(<<Add("approvals", "approval"), Add("audits", "audit")>>, Queued,
                Queued \cup {<<"approvals", "approval">>, <<"audits", "audit">>})
      BY TwoFreeLines
    <2> QED BY <2>1 DEF Approved
  <1>2. Takes(<<Add("queue", "bridge")>>, P, Q)
    <2>1. Takes(<<Add("queue", "bridge")>>, P, P \cup {<<"queue", "bridge">>, <<"queue", "any">>})
      BY TakesFreeLine DEF LineFiles
    <2> QED BY <2>1, TakesWeaker
  <1>3. Takes(<<Cell(TRUE)>>, Q, Q)
    BY AppliedCell DEF Queued, Captured
  <1>4. Takes(<<Add("queue", "apply")>>, Q, R)
    <2>1. Takes(<<Add("queue", "apply")>>, Q, Q \cup {<<"queue", "apply">>, <<"queue", "any">>})
      BY TakesFreeLine DEF LineFiles
    <2> QED BY <2>1, TakesWeaker
  <1> HIDE DEF P, Q, R
  <1>5. Takes(<<Step("readCandidates")>>, Q, Q)
    BY TakesStep, TakesWeaker DEF Special
  <1>6. Takes(ApplyReversibly(Cell(TRUE), Add("queue", "apply")), Q, R)
    BY <1>3, <1>4, <1>5, ReversiblyTakes
  <1>7. Takes(<<Add("approvals", "approval"), Add("audits", "audit"), Add("queue", "bridge")>>,
              Queued, Q)
    <2>1. Takes(<<Add("approvals", "approval"), Add("audits", "audit")>>
                \o <<Add("queue", "bridge")>>, Queued, Q)
      BY <1>1, <1>2, TakesThen
    <2> QED BY <2>1, Cuts3After
  <1>8. Takes(ApplySteps, Queued, R)
    BY <1>6, <1>7, TakesThen DEF ApplySteps
  <1> QED BY <1>8 DEF Changed, P, Q, R

LEMMA GrownTakes ==
    ASSUME NEW kind, NEW P, LineNeeds("growth", kind) \subseteq P \cup {<<"events", "auto_memory_growth">>}
    PROVE  Takes(<<Add("events", "auto_memory_growth"), Add("growth", kind)>>, P,
                 {<<"growth", "any">>})
  <1> DEFINE Q == P \cup {<<"events", "auto_memory_growth">>}
  <1>1. Takes(<<Add("events", "auto_memory_growth")>>, P, Q)
    <2>1. Takes(<<Add("events", "auto_memory_growth")>>, P,
                P \cup {<<"events", "auto_memory_growth">>, <<"events", "any">>})
      BY TakesFreeKind DEF LineFiles
    <2> QED BY <2>1, TakesWeaker
  <1>2. Takes(<<Add("growth", kind)>>, Q, {<<"growth", "any">>})
    <2>1. Takes(<<Add("growth", kind)>>, Q, Q \cup {<<"growth", kind>>, <<"growth", "any">>})
      BY TakesAdd DEF LineFiles
    <2> QED BY <2>1, TakesWeaker
  <1> QED BY <1>1, <1>2, TakesPair

\* A growth run names only what it has written before.
LEMMA GrowthTakes ==
    ASSUME NEW c, c.signal \in Signals, c.proven \in BOOLEAN, c.approved \in BOOLEAN
    PROVE  Takes(GrowthSteps(c), {}, {<<"growth", "any">>})
  <1>1. CASE c.signal # "worthy"
    <2>1. GrowthSteps(c) = <<Add("growth", c.signal)>>
      BY <1>1 DEF GrowthSteps
    <2>2. LineNeeds("growth", c.signal) = {}
      BY FreeKinds DEF Signals
    <2>3. Takes(<<Add("growth", c.signal)>>, {}, {<<"growth", c.signal>>, <<"growth", "any">>})
      BY <2>2, TakesAdd DEF LineFiles
    <2> QED BY <2>1, <2>3, TakesWeaker
  <1>2. CASE c.signal = "worthy"
    <2> DEFINE review == CaptureSteps \o <<Add("queue", "candidate"), Add("queue", "replay")>>
               request == IF c.proven THEN <<Add("queue", "request")>> ELSE <<>>
               applied == c.proven /\ c.approved
               kind == IF applied THEN "completed_local_auto_loop" ELSE "captured_review_only"
               apply == IF applied THEN ApplySteps ELSE <<>>
               told == <<Add("events", "auto_memory_growth"), Add("growth", kind)>>
               Q == IF applied THEN Changed ELSE Queued
    <2>1. GrowthSteps(c) = review \o request \o apply \o told
      BY <1>2 DEF GrowthSteps, ApplySteps
    <2>2. Takes(request, Queued, Queued)
      <3>1. Takes(<<Add("queue", "request")>>, Queued,
                  Queued \cup {<<"queue", "request">>, <<"queue", "any">>})
        BY TakesFreeLine DEF LineFiles
      <3>2. Takes(<<Add("queue", "request")>>, Queued, Queued)
        BY <3>1, TakesWeaker
      <3>3. Takes(<<>>, Queued, Queued)
        BY TakesNone
      <3> QED BY <3>2, <3>3
    <2>3. Takes(apply, Queued, Q)
      <3>1. Takes(<<>>, Queued, Queued)
        BY TakesNone
      <3> QED BY <3>1, ApplyTakes
    <2>4. LineNeeds("growth", kind) \subseteq Q \cup {<<"events", "auto_memory_growth">>}
      <3>1. CASE applied
        <4>1. LineNeeds("growth", kind) = Applied
          BY <3>1, NeedsSmall
        <4> QED BY <3>1, <4>1 DEF Applied, Reviewed, Changed, Queued, Captured
      <3>2. CASE ~applied
        <4>1. LineNeeds("growth", kind) = Reviewed
          BY <3>2, NeedsSmall
        <4> QED BY <3>2, <4>1 DEF Reviewed, Queued, Captured
      <3> QED BY <3>1, <3>2
    <2>5. Takes(told, Q, {<<"growth", "any">>})
      BY <2>4, GrownTakes
    <2> HIDE DEF review, request, apply, told, Q
    <2>6. Takes(review, {}, Queued)
      BY ReviewTakes DEF review
    <2>7. Takes(review \o request, {}, Queued)
      BY <2>2, <2>6, TakesThen
    <2>8. Takes(review \o request \o apply, {}, Q)
      BY <2>3, <2>7, TakesThen
    <2>9. Takes(review \o request \o apply \o told, {}, {<<"growth", "any">>})
      BY <2>5, <2>8, TakesThen
    <2> QED BY <2>1, <2>9
  <1> QED BY <1>1, <1>2

-----------------------------------------------------------------------------
(* Live turns. *)

LEMMA ProgressTakes ==
    ASSUME NEW phase \in {"context_retrieval", "blocked", "drafting", "verifying",
                          "self_growth_review", "complete"}, NEW P
    PROVE  Takes(<<Add("progress", phase)>>, P, P \cup {<<"progress", phase>>})
  <1>1. Takes(<<Add("progress", phase)>>, P,
              P \cup {<<"progress", phase>>, <<"progress", "any">>})
    BY TakesFreeLine DEF LineFiles
  <1> QED BY <1>1, TakesWeaker

LEMMA ProgressKeeps ==
    ASSUME NEW phase \in {"context_retrieval", "blocked", "drafting", "verifying",
                          "self_growth_review", "complete"}, NEW P, NEW Q, Q \subseteq P
    PROVE  Takes(<<Add("progress", phase)>>, P, Q)
  BY ProgressTakes, TakesWeaker

LEMMA OneLine ==
    ASSUME NEW f \in {"preflight", "answers", "evaluations", "skills", "hardening", "events", "live"},
           NEW k, LineNeeds(f, k) = {}, NEW P
    PROVE  Takes(<<Add(f, k)>>, P, P \cup {<<f, k>>})
  <1>1. Takes(<<Add(f, k)>>, P, P \cup {<<f, k>>, <<f, "any">>})
    BY TakesAdd DEF LineFiles
  <1> QED BY <1>1, TakesWeaker

LEMMA PreflightTakes ==
    Takes(<<Add("progress", "context_retrieval")>> \o TurnView \o <<Add("preflight", "packet")>>,
          {}, {<<"preflight", "packet">>})
  <1>1. Takes(<<Add("progress", "context_retrieval")>>, {}, {})
    BY ProgressKeeps
  <1>2. Takes(<<Add("preflight", "packet")>>, {}, {<<"preflight", "packet">>})
    <2>1. LineNeeds("preflight", "packet") = {}
      BY FreeLines
    <2>2. Takes(<<Add("preflight", "packet")>>, {}, {} \cup {<<"preflight", "packet">>})
      BY <2>1, OneLine
    <2> QED BY <2>2, TakesWeaker
  <1>3. Takes(<<Add("progress", "context_retrieval")>> \o TurnView, {}, {})
    BY <1>1, TurnViewTakes, TakesThen
  <1> QED BY <1>2, <1>3, TakesThen

LEMMA RecordTakes ==
    ASSUME NEW status, NEW P,
           LineNeeds("live", status) \subseteq
              P \cup {<<"events", "live_turn">>, <<"progress", "complete">>}
    PROVE  Takes(<<Add("events", "live_turn"), Add("progress", "complete"),
                   Add("live", status)>>, P, {<<"live", status>>})
  <1> DEFINE Q == P \cup {<<"events", "live_turn">>}
             R == Q \cup {<<"progress", "complete">>}
  <1>1. Takes(<<Add("events", "live_turn")>>, P, Q)
    <2>1. LineNeeds("events", "live_turn") = {}
      BY FreeKinds
    <2> QED BY <2>1, OneLine
  <1>2. Takes(<<Add("progress", "complete")>>, Q, R)
    BY ProgressTakes
  <1>3. Takes(<<Add("live", status)>>, R, {<<"live", status>>})
    <2>1. Takes(<<Add("live", status)>>, R, R \cup {<<"live", status>>, <<"live", "any">>})
      BY TakesAdd DEF LineFiles
    <2> QED BY <2>1, TakesWeaker
  <1> HIDE DEF Q, R
  <1>4. Takes(<<Add("progress", "complete"), Add("live", status)>>, Q, {<<"live", status>>})
    BY <1>2, <1>3, TakesPair
  <1> QED BY <1>1, <1>4, TakesTriple

LEMMA AnswerTakes ==
    ASSUME NEW P
    PROVE  Takes(<<Add("progress", "verifying"), Add("answers", "post_answer"),
                   Add("evaluations", "evaluation")>>, P,
                 P \cup {<<"answers", "post_answer">>, <<"evaluations", "evaluation">>})
  <1> DEFINE Q == P \cup {<<"answers", "post_answer">>}
             R == Q \cup {<<"evaluations", "evaluation">>}
  <1>1. Takes(<<Add("progress", "verifying")>>, P, P)
    BY ProgressKeeps
  <1>2. LineNeeds("answers", "post_answer") = {} /\ LineNeeds("evaluations", "evaluation") = {}
    BY FreeLines
  <1>3. Takes(<<Add("answers", "post_answer")>>, P, Q)
    BY <1>2, OneLine
  <1>4. Takes(<<Add("evaluations", "evaluation")>>, Q, R)
    BY <1>2, OneLine
  <1>5. R = P \cup {<<"answers", "post_answer">>, <<"evaluations", "evaluation">>}
    OBVIOUS
  <1> HIDE DEF Q, R
  <1>6. Takes(<<Add("answers", "post_answer"), Add("evaluations", "evaluation")>>, P, R)
    BY <1>3, <1>4, TakesPair
  <1>7. Takes(<<Add("progress", "verifying"), Add("answers", "post_answer"),
                Add("evaluations", "evaluation")>>, P, R)
    BY <1>1, <1>6, TakesTriple
  <1> QED BY <1>5, <1>7

\* A live turn is recorded after everything it names.
LEMMA LiveTakes ==
    ASSUME NEW c, c.message \in {"none", "question", "answered"},
           c.signal \in Signals, c.proven \in BOOLEAN, c.approved \in BOOLEAN
    PROVE  Takes(LiveSteps(c), {},
                 IF c.message = "answered" THEN {<<"live", "recorded">>} ELSE {})
  <1>1. CASE c.message = "none"
    <2>1. LiveSteps(c) = <<Add("progress", "context_retrieval"), Add("progress", "blocked"),
                           Add("live", "blocked")>>
      BY <1>1 DEF LiveSteps
    <2>2. Takes(<<Add("progress", "context_retrieval")>>, {}, {})
      BY ProgressKeeps
    <2>3. Takes(<<Add("progress", "blocked")>>, {}, {})
      BY ProgressKeeps
    <2>4. Takes(<<Add("live", "blocked")>>, {}, {})
      <3>1. LineNeeds("live", "blocked") = {}
        BY FreeKinds
      <3> QED BY <3>1, OneLine, TakesWeaker
    <2>5. Takes(<<Add("progress", "blocked"), Add("live", "blocked")>>, {}, {})
      BY <2>3, <2>4, TakesPair
    <2>6. Takes(<<Add("progress", "context_retrieval"), Add("progress", "blocked"),
                           Add("live", "blocked")>>, {}, {})
      BY <2>2, <2>5, TakesTriple
    <2> QED BY <1>1, <2>1, <2>6
  <1> DEFINE preflight == <<Add("progress", "context_retrieval")>> \o TurnView
                     \o <<Add("preflight", "packet")>>
             record(status) == <<Add("events", "live_turn"), Add("progress", "complete"),
                                 Add("live", status)>>
             drafting == <<Add("progress", "drafting")>>
             verifying == <<Add("progress", "verifying"), Add("answers", "post_answer"),
                            Add("evaluations", "evaluation")>>
             review == <<Add("progress", "self_growth_review")>>
             grown == GrowthSteps(c)
             P == {<<"preflight", "packet">>}
             Q == P \cup {<<"answers", "post_answer">>, <<"evaluations", "evaluation">>}
             R == Q \cup {<<"growth", "any">>}
  <1>2. CASE c.message = "question"
    <2>1. LiveSteps(c) = preflight \o drafting \o record("waiting")
      BY <1>2 DEF LiveSteps
    <2>2. Takes(drafting, P, {})
      BY ProgressKeeps
    <2>3. Takes(record("waiting"), {}, {})
      <3>1. LineNeeds("live", "waiting") = {}
        BY FreeKinds
      <3>2. Takes(record("waiting"), {}, {<<"live", "waiting">>})
        BY <3>1, RecordTakes
      <3> QED BY <3>2, TakesWeaker
    <2>4. Takes(preflight, {}, P)
      BY PreflightTakes
    <2> HIDE DEF preflight, record, drafting
    <2>5. Takes(preflight \o drafting, {}, {})
      BY <2>2, <2>4, TakesThen
    <2>6. Takes(preflight \o drafting \o record("waiting"), {}, {})
      BY <2>3, <2>5, TakesThen
    <2> QED BY <1>2, <2>1, <2>6
  <1>3. CASE c.message = "answered"
    <2>1. LiveSteps(c) = preflight \o (verifying \o grown \o review) \o record("recorded")
      BY <1>3 DEF LiveSteps
    <2>2. Takes(verifying, P, Q)
      BY AnswerTakes
    <2>3. Takes(grown, Q, R)
      <3>1. Takes(grown, {}, {<<"growth", "any">>})
        BY GrowthTakes
      <3> DEFINE G == {<<"growth", "any">>}
      <3>2. R \subseteq G \cup Q /\ {} \subseteq Q
        OBVIOUS
      <3>3. Takes(grown, {}, G)
        BY <3>1
      <3> HIDE DEF grown, Q, R, G
      <3> QED BY <3>2, <3>3, TakesMore
    <2>4. Takes(review, R, R)
      BY ProgressKeeps
    <2>5. Takes(record("recorded"), R, {<<"live", "recorded">>})
      <3>1. LineNeeds("live", "recorded") \subseteq
               R \cup {<<"events", "live_turn">>, <<"progress", "complete">>}
        BY NeedsSmall DEF Recorded
      <3> QED BY <3>1, RecordTakes
    <2>6. Takes(preflight, {}, P)
      BY PreflightTakes
    <2> HIDE DEF preflight, record, verifying, review, grown, P, Q, R
    <2>7. Takes(verifying \o grown, P, R)
      BY <2>2, <2>3, TakesThen
    <2>8. Takes(verifying \o grown \o review, P, R)
      BY <2>4, <2>7, TakesThen
    <2>9. Takes(preflight \o (verifying \o grown \o review), {}, R)
      BY <2>6, <2>8, TakesThen
    <2>10. Takes(preflight \o (verifying \o grown \o review) \o record("recorded"), {},
                 {<<"live", "recorded">>})
      BY <2>5, <2>9, TakesThen
    <2> QED BY <1>3, <2>1, <2>10
  <1> QED BY <1>1, <1>2, <1>3

-----------------------------------------------------------------------------
(* Dry runs, the work of the OS, and submissions. *)

\* A tool that was started, and a loop that was approved.
RanTool == {<<"progress", "tool_running">>}
Looped == RanTool \cup {<<"approvals", "loop_approval">>, <<"audits", "loop_audit">>}

LEMMA ToolTakes ==
    Takes(<<Add("progress", "tool_running"), Step("runCommand")>>, {}, RanTool)
  <1> DEFINE x == Add("progress", "tool_running")
             y == Step("runCommand")
  <1>1. /\ x.do = "append" /\ x.file = "progress" /\ Kind(x.rec) = "tool_running"
        /\ Gives(x) = {<<"progress", "tool_running">>, <<"progress", "any">>}
        /\ Needs(x) = LineNeeds("progress", "tool_running")
    BY OfAdd
  <1>2. WellFormed(x) /\ LineNeeds("progress", "tool_running") = {}
    BY AddFormed, FreeLines DEF LineFiles
  <1>3. y.do = "runCommand" /\ Gives(y) = {Did("runCommand")}
    BY OfStep
  <1> HIDE DEF x, y
  <1>4. Needs(x) = {} /\ Owes(x) = {Did("runCommand")} /\ ~Ends(x) /\ Runs(x)
    BY <1>1, <1>2 DEF Owes, Ends, Runs
  <1>5. Needs(y) = {} /\ Owes(y) = {} /\ WellFormed(y) /\ ~Ends(y)
    BY <1>3 DEF Needs, Owes, WellFormed, Ends
  <1>6. Takes(<<x, y>>, {}, RanTool)
    BY <1>1, <1>2, <1>3, <1>4, <1>5, TakesTwo DEF RanTool
  <1> QED BY <1>6 DEF x, y

LEMMA BlockedTakes ==
    Takes(<<Add("progress", "tool_blocked")>>, {}, {})
  <1>1. Takes(<<Add("progress", "tool_blocked")>>, {},
              {} \cup {<<"progress", "tool_blocked">>, <<"progress", "any">>})
    BY TakesFreeLine DEF LineFiles
  <1> QED BY <1>1, TakesWeaker

\* A dry run shows its tool as running right before it runs it.
LEMMA DryRunTakes ==
    /\ Takes(DryRunSteps(TRUE), {}, RanTool)
    /\ \A allowed \in BOOLEAN : Takes(DryRunSteps(allowed), {}, {})
  <1>1. Takes(DryRunSteps(TRUE), {}, RanTool)
    BY ToolTakes DEF DryRunSteps
  <1>2. Takes(DryRunSteps(TRUE), {}, {})
    BY <1>1, TakesWeaker
  <1>3. Takes(DryRunSteps(FALSE), {}, {})
    BY BlockedTakes DEF DryRunSteps
  <1> QED BY <1>1, <1>2, <1>3

LEMMA LedgerTakes ==
    ASSUME NEW approval, NEW audit, NEW P
    PROVE  Takes(LedgerPair(approval, audit), P,
                 P \cup {<<"approvals", approval>>, <<"audits", audit>>})
  BY TwoFreeLines DEF LedgerPair

LEMMA LookTakes ==
    Takes(<<Step("readRest"), Step("readCandidates"), Step("readCandidates")>>, {}, {})
  <1>1. Takes(<<Step("readRest")>>, {}, {})
    BY TakesStep, TakesWeaker DEF Special
  <1>2. Takes(<<Step("readCandidates")>>, {}, {})
    BY TakesStep, TakesWeaker DEF Special
  <1>3. Takes(<<Step("readCandidates"), Step("readCandidates")>>, {}, {})
    BY <1>2, TakesPair
  <1> QED BY <1>1, <1>3, TakesTriple

LEMMA LoopTakes ==
    /\ Takes(LoopSteps("clear", TRUE), {}, Looped)
    /\ \A text, keep : Takes(LoopSteps(text, keep), {}, {})
  <1> DEFINE look == <<Step("readRest"), Step("readCandidates"), Step("readCandidates")>>
             run == DryRunSteps(TRUE)
             pair == LedgerPair("loop_approval", "loop_audit")
  <1>1. /\ LoopSteps("clear", TRUE) = look \o run \o pair
        /\ \A keep : keep # TRUE =>
              LoopSteps("clear", keep) \in {look \o run \o pair, look \o run \o <<>>}
        /\ \A text, keep : text # "clear" => LoopSteps(text, keep) = <<>>
    BY DEF LoopSteps
  <1>2. Takes(look, {}, {}) /\ Takes(run, {}, RanTool)
    BY LookTakes, DryRunTakes
  <1>3. Takes(pair, RanTool, Looped)
    BY LedgerTakes DEF Looped
  <1> HIDE DEF look, run, pair
  <1>4. Takes(look \o run, {}, RanTool)
    BY <1>2, TakesThen
  <1>5. Takes(look \o run \o pair, {}, Looped)
    BY <1>3, <1>4, TakesThen
  <1>6. Takes(<<>>, RanTool, {}) /\ Takes(<<>>, {}, {})
    BY TakesNone
  <1>7. Takes(look \o run \o <<>>, {}, {})
    BY <1>4, <1>6, TakesThen
  <1>8. Takes(look \o run \o pair, {}, {})
    BY <1>5, TakesWeaker
  <1>9. ASSUME NEW text, NEW keep
        PROVE  Takes(LoopSteps(text, keep), {}, {})
    <2>1. LoopSteps(text, keep) \in {look \o run \o pair, look \o run \o <<>>, <<>>}
      BY <1>1
    <2> QED BY <2>1, <1>6, <1>7, <1>8
  <1> QED BY <1>1, <1>5, <1>9

LEMMA OsRecordTakes ==
    ASSUME NEW status \in {"completed", "blocked"}, NEW keep \in BOOLEAN, NEW P,
           keep /\ status = "completed" => Completed \subseteq P
    PROVE  Takes(OsTurnRecord(status, keep), P,
                 IF keep THEN {<<"osTurns", "any">>} ELSE {})
  <1>1. CASE keep
    <2>1. LineNeeds("osTurns", status) \subseteq P
      BY <1>1, FreeKinds, NeedsSmall
    <2>2. Takes(<<Add("osTurns", status)>>, P, P \cup {<<"osTurns", status>>, <<"osTurns", "any">>})
      BY <2>1, TakesAdd DEF LineFiles
    <2>3. Takes(<<Add("osTurns", status)>>, P, {<<"osTurns", "any">>})
      BY <2>2, TakesWeaker
    <2> QED BY <1>1, <2>3 DEF OsTurnRecord
  <1>2. CASE ~keep
    <2>1. Takes(<<>>, P, {})
      BY TakesNone
    <2> QED BY <1>2, <2>1 DEF OsTurnRecord
  <1> QED BY <1>1, <1>2

\* An OS turn is completed after its loop, its live turn and its event.
LEMMA OsTurnTakes ==
    ASSUME NEW c, c.text \in Texts, c.message = "answered", c.signal \in Signals,
           c.proven \in BOOLEAN, c.approved \in BOOLEAN, NEW keep \in BOOLEAN
    PROVE  Takes(OsTurnSteps(c, keep), {}, IF keep THEN {<<"osTurns", "any">>} ELSE {})
  <1> DEFINE R == IF keep THEN {<<"osTurns", "any">>} ELSE {}
  <1>1. CASE c.text = "empty"
    <2>1. Takes(OsTurnRecord("blocked", keep), {}, R)
      BY OsRecordTakes
    <2> QED BY <1>1, <2>1 DEF OsTurnSteps
  <1>2. CASE c.text # "empty"
    <2> DEFINE loop == LoopSteps(c.text, keep)
               live == LiveSteps(c)
               told == <<Add("events", "os_turn")>>
               status == IF c.text = "clear" THEN "completed" ELSE "blocked"
               record == OsTurnRecord(status, keep)
               P == IF c.text = "clear" /\ keep THEN Looped ELSE {}
               Q == P \cup {<<"live", "recorded">>}
               S == Q \cup {<<"events", "os_turn">>}
    <2>1. OsTurnSteps(c, keep) = loop \o live \o told \o record
      BY <1>2 DEF OsTurnSteps
    <2>2. Takes(loop, {}, P)
      BY LoopTakes
    <2>3. Takes(live, P, Q)
      <3> DEFINE G == {<<"live", "recorded">>}
      <3>1. Takes(live, {}, G)
        BY LiveTakes
      <3>2. Q \subseteq G \cup P /\ {} \subseteq P
        OBVIOUS
      <3> HIDE DEF live, P, Q, G
      <3> QED BY <3>1, <3>2, TakesMore
    <2>4. Takes(told, Q, S)
      <3>1. LineNeeds("events", "os_turn") = {}
        BY FreeKinds
      <3>2. "events" \in {"preflight", "answers", "evaluations", "skills", "hardening",
                          "events", "live"}
        OBVIOUS
      <3> HIDE DEF Q
      <3> QED BY <3>1, <3>2, OneLine
    <2>5. Takes(record, S, R)
      <3>1. keep /\ status = "completed" => Completed \subseteq S
        <4> SUFFICES ASSUME keep, status = "completed" PROVE Completed \subseteq S
          OBVIOUS
        <4>1. P = Looped
          OBVIOUS
        <4> QED BY <4>1 DEF Completed, Looped, RanTool
      <3>2. status \in {"completed", "blocked"}
        OBVIOUS
      <3> HIDE DEF S, status
      <3> QED BY <3>1, <3>2, OsRecordTakes
    <2> HIDE DEF loop, live, told, record, P, Q, R, S
    <2>6. Takes(loop \o live, {}, Q)
      BY <2>2, <2>3, TakesThen
    <2>7. Takes(loop \o live \o told, {}, S)
      BY <2>4, <2>6, TakesThen
    <2>8. Takes(loop \o live \o told \o record, {}, R)
      BY <2>5, <2>7, TakesThen
    <2>9. Takes(OsTurnSteps(c, keep), {}, R)
      BY <2>1, <2>8
    <2> QED BY <2>9 DEF R
  <1> QED BY <1>1, <1>2

LEMMA SessionTakes ==
    ASSUME NEW kind \in {"opened", "submitted"}, NEW P,
           kind = "submitted" => <<"osTurns", "any">> \in P
    PROVE  Takes(SessionSteps(kind), P, {})
  <1> DEFINE x == Step("readSessions")
             y == [do |-> "writeSessions", kind |-> kind]
             z == Add("events", "session")
             Q == P \cup {Did("readSessions")}
  <1>1. Takes(<<x>>, P, Q)
    BY TakesStep DEF Special
  <1>2. y.do = "writeSessions" /\ y.kind = kind
    OBVIOUS
  <1>3. Takes(<<z>>, Q, {})
    <2>1. LineNeeds("events", "session") = {}
      BY FreeKinds
    <2>2. Takes(<<z>>, Q, Q \cup {<<"events", "session">>, <<"events", "any">>})
      BY <2>1, TakesAdd DEF LineFiles
    <2> HIDE DEF z, Q
    <2> QED BY <2>2, TakesWeaker
  <1>4. SessionSteps(kind) = <<x, y, z>>
    BY DEF SessionSteps
  <1> HIDE DEF y
  <1>5. Plain(y) /\ Needs(y) \subseteq Q
    BY <1>2 DEF Needs, Plain, Owes, WellFormed, Ends
  <1> HIDE DEF x, z, Q
  <1>6. Takes(<<y>>, Q, Q)
    BY <1>5, TakesOne
  <1>7. Takes(<<y, z>>, Q, {})
    BY <1>3, <1>6, TakesPair
  <1>8. Takes(<<x, y, z>>, P, {})
    BY <1>1, <1>7, TakesTriple
  <1> QED BY <1>4, <1>8

\* A submission opens its session after its OS turn is recorded.
LEMMA SubmitTakes ==
    ASSUME NEW c, c.text \in Texts, c.message = "answered", c.signal \in Signals,
           c.proven \in BOOLEAN, c.approved \in BOOLEAN
    PROVE  Takes(SubmitSteps(c), {}, {})
  <1> DEFINE loop == LoopSteps(c.text, TRUE)
             turn == OsTurnSteps(c, TRUE)
             session == SessionSteps("submitted")
             P == {<<"osTurns", "any">>}
  <1>1. SubmitSteps(c) = loop \o turn \o session
    BY DEF SubmitSteps
  <1>2. Takes(loop, {}, {})
    BY LoopTakes
  <1>3. Takes(turn, {}, P)
    BY OsTurnTakes
  <1>4. Takes(session, P, {})
    BY SessionTakes
  <1> HIDE DEF loop, turn, session, P
  <1>5. Takes(loop \o turn, {}, P)
    BY <1>2, <1>3, TakesThen
  <1>6. Takes(loop \o turn \o session, {}, {})
    BY <1>4, <1>5, TakesThen
  <1> QED BY <1>1, <1>6

LEMMA FlowTakes ==
    ASSUME NEW matches, NEW recordable
    PROVE  Takes(FlowSteps(matches, recordable), {}, {})
  <1>1. Takes(LedgerPair("flow_approval", "flow_audit"), {}, {})
    BY LedgerTakes, TakesWeaker
  <1>2. Takes(<<>>, {}, {})
    BY TakesNone
  <1>3. FlowSteps(matches, recordable) \in {LedgerPair("flow_approval", "flow_audit"), <<>>}
    BY DEF FlowSteps
  <1> QED BY <1>1, <1>2, <1>3

-----------------------------------------------------------------------------
(* Self-checks, the welcome settings and the responses of the server. *)

LEMMA TakesCall ==
    ASSUME NEW s, NEW Q, Takes(s, {}, Q)
    PROVE  Call(s)
  BY DEF Takes, Steps, Call

LEMMA CheckLineTakes ==
    ASSUME NEW f, NEW kind,
           \/ f = "approvals" /\ kind = "approval"
           \/ f = "audits" /\ kind = "audit"
           \/ f = "queue" /\ kind \notin {"approval", "audit"},
           NEW P
    PROVE  Takes(<<CheckLine(f, kind)>>, P, P \cup {<<"check", kind>>})
  <1> DEFINE x == CheckLine(f, kind)
  <1>1. x.do = "append" /\ x.file = f /\ x.rec = [kind |-> kind, call |-> CheckId]
    BY DEF CheckLine, Line
  <1>2. DOMAIN x.rec = {"kind", "call"} /\ x.rec.kind = kind /\ x.rec.call = CheckId
    BY <1>1
  <1> HIDE DEF x
  <1>3. Kind(x.rec) = kind /\ ~Own(x.rec)
    BY <1>2 DEF Kind, Own
  <1>4. Needs(x) = {}
    BY <1>1, <1>3, FreeLines DEF Needs
  <1>5. Gives(x) = {<<"check", kind>>}
    BY <1>1, <1>3 DEF Gives
  <1>6. WellFormed(x)
    BY <1>1, <1>2, <1>3 DEF WellFormed, LineFiles
  <1>7. Plain(x)
    BY <1>1, <1>3, <1>6 DEF Plain, Owes, Ends
  <1>8. Takes(<<x>>, P, P \cup {<<"check", kind>>})
    BY <1>4, <1>5, <1>7, TakesOne
  <1> QED BY <1>8 DEF x

LEMMA CheckLineKeeps ==
    ASSUME NEW kind, kind \notin {"approval", "audit"}, NEW P
    PROVE  Takes(<<CheckLine("queue", kind)>>, P, P)
  <1>1. Takes(<<CheckLine("queue", kind)>>, P, P \cup {<<"check", kind>>})
    BY CheckLineTakes
  <1> QED BY <1>1, TakesWeaker

\* What the approval lines of a self-check give.
Checked == {<<"check", "approval">>, <<"check", "audit">>}

LEMMA ReviewStepsTake == Takes(ReviewSteps, {}, Checked)
  <1> DEFINE a == CheckLine("queue", "candidate")
             b == CheckLine("queue", "replay")
             c == CheckLine("queue", "request")
             d == CheckLine("approvals", "approval")
             e == CheckLine("audits", "audit")
             f == CheckLine("queue", "bridge")
             P == {} \cup {<<"check", "approval">>}
             Q == P \cup {<<"check", "audit">>}
  <1>1. ReviewSteps = <<a, b, c, d, e, f>>
    BY DEF ReviewSteps
  <1>2. Takes(<<a>>, {}, {}) /\ Takes(<<b>>, {}, {}) /\ Takes(<<c>>, {}, {})
    BY CheckLineKeeps
  <1>3. Takes(<<d>>, {}, P)
    BY CheckLineTakes
  <1>4. Takes(<<e>>, P, Q)
    BY CheckLineTakes
  <1>5. Takes(<<f>>, Q, Q)
    BY CheckLineKeeps
  <1>6. Q = Checked
    BY DEF Checked
  <1> HIDE DEF a, b, c, d, e, f, P, Q
  <1>7. Takes(<<b, c>>, {}, {})
    BY <1>2, TakesPair
  <1>8. Takes(<<a, b, c>>, {}, {})
    BY <1>2, <1>7, TakesTriple
  <1>9. Takes(<<e, f>>, P, Q)
    BY <1>4, <1>5, TakesPair
  <1>10. Takes(<<d, e, f>>, {}, Q)
    BY <1>3, <1>9, TakesTriple
  <1>11. Takes(<<a, b, c, d, e, f>>, {}, Q)
    BY <1>8, <1>10, TakesSix
  <1> QED BY <1>1, <1>6, <1>11

\* The look of a rollback or a review, wherever it stands.
LEMMA LookTakesBack ==
    ASSUME NEW cell, cell.applied, NEW drops \in BOOLEAN
    PROVE  /\ Takes(ReadApplied(cell, drops), {}, {}) /\ IsList(ReadApplied(cell, drops))
           /\ DOMAIN ReadApplied(cell, drops) = {1} /\ Len(ReadApplied(cell, drops)) = 1
           /\ ReadApplied(cell, drops) # <<>>
           /\ cell = CheckCell /\ drops => TakesBack(ReadApplied(cell, drops)[1])
  <1> DEFINE x == [do |-> "readApplied", cell |-> cell, drops |-> drops]
  <1>1. x.do = "readApplied" /\ x.cell = cell /\ x.drops = drops
    OBVIOUS
  <1>2. ReadApplied(cell, drops) = <<x>>
    BY DEF ReadApplied
  <1> HIDE DEF x
  <1>3. /\ WellFormed(x) /\ Owes(x) = {} /\ ~Ends(x) /\ Needs(x) = {}
        /\ (cell = CheckCell /\ drops => TakesBack(x))
    BY <1>1 DEF WellFormed, Owes, Ends, Needs, TakesBack
  <1>4. Takes(<<x>>, {}, {})
    BY <1>1, <1>3, TakesOne DEF Plain
  <1>5. IsList(<<x>>) /\ DOMAIN <<x>> = {1} /\ <<x>>[1] = x /\ Len(<<x>>) = 1 /\ <<x>> # <<>>
    BY Lists
  <1> QED BY <1>2, <1>3, <1>4, <1>5

\* A list that ends with the look of a rollback takes back what it applied.
LEMMA RollsBackLast ==
    ASSUME NEW s, IsList(s)
    PROVE  RollsBack(s \o ReadApplied(CheckCell, TRUE))
  <1> DEFINE t == ReadApplied(CheckCell, TRUE)
             r == s \o t
  <1>1. IsList(t) /\ DOMAIN t = {1} /\ TakesBack(t[1]) /\ Len(t) = 1
    <2>1. CheckCell.applied
      BY DEF CheckCell
    <2> QED BY <2>1, LookTakesBack
  <1> HIDE DEF t
  <1>2. /\ DOMAIN r = 1 .. Len(s) + Len(t)
        /\ \A i \in DOMAIN s : r[i] = s[i]
        /\ \A i \in DOMAIN t : r[Len(s) + i] = t[i]
        /\ \A i \in DOMAIN r : i \in DOMAIN s \/
              (i - Len(s) \in DOMAIN t /\ r[i] = t[i - Len(s)])
    BY <1>1, Joined
  <1>3. DOMAIN s = 1 .. Len(s) /\ Len(s) \in Nat
    BY ListIs
  <1> HIDE DEF r
  <1>4. ASSUME NEW i \in DOMAIN r, r[i].do = "appendCheckCell"
        PROVE  \E j \in DOMAIN r : j > i /\ TakesBack(r[j])
    <2>1. CASE i \in DOMAIN s
      <3>1. Len(s) + 1 \in DOMAIN r /\ r[Len(s) + 1] = t[1] /\ Len(s) + 1 > i
        BY <1>1, <1>2, <1>3, <2>1
      <3> QED BY <1>1, <3>1
    <2>2. CASE i - Len(s) \in DOMAIN t /\ r[i] = t[i - Len(s)]
      BY <1>1, <1>4, <2>2 DEF TakesBack
    <2> QED BY <1>2, <2>1, <2>2
  <1> QED BY <1>4 DEF RollsBack, r, t

CheckApply == ApplyReversibly(Step("appendCheckCell"), CheckLine("queue", "apply"))

LEMMA CheckApplySteps == Steps(CheckApply, Checked, {})
  <1> DEFINE look == Step("readCandidates")
             x == Step("appendCheckCell")
             y == CheckLine("queue", "apply")
  <1>1. x.do = "appendCheckCell"
    BY DEF Step
  <1>2. Takes(<<y>>, Checked, Checked)
    BY CheckLineKeeps
  <1>3. Takes(<<look>>, Checked, Checked)
    BY TakesStep, TakesWeaker DEF Special
  <1>4. CheckApply = <<look, x, look, y>>
    BY DEF CheckApply, ApplyReversibly
  <1> HIDE DEF look, x, y
  <1>5. /\ Needs(x) = Checked /\ Owes(x) = {} /\ WellFormed(x) /\ ~Ends(x)
    BY <1>1 DEF Needs, Owes, WellFormed, Ends, Checked
  <1>6. Steps(<<x>>, Checked, Checked)
    BY <1>1, <1>5, StepsOne
  <1>7. Steps(<<look>> \o <<x>>, Checked, Checked)
    BY <1>3, <1>6, StepsThen DEF Takes
  <1>8. Steps(<<look, x>>, Checked, Checked)
    BY <1>7, Cuts2
  <1>9. Steps(<<look, y>>, Checked, Checked)
    BY <1>2, <1>3, TakesPair DEF Takes
  <1>10. Steps(<<look, x>> \o <<look, y>>, Checked, Checked)
    BY <1>8, <1>9, StepsThen
  <1>11. <<look, x, look, y>> = <<look, x>> \o <<look, y>>
    OBVIOUS
  <1>12. Steps(CheckApply, Checked, Checked)
    BY <1>4, <1>10, <1>11, Zenon
  <1> QED BY <1>12 DEF Steps

\* A self-check takes its applied candidate back later in its list.
LEMMA SelfCheckTakes ==
    ASSUME NEW replay \in MeshReplayView
    PROVE  Takes(VerifyMemoryLocalApplyInvocationContract(replay), {}, {})
  <1> DEFINE apply == CheckApply
             look == ReadApplied(CheckCell, TRUE)
             review == ReviewSteps
             all == review \o apply \o replay
  <1>1. VerifyMemoryLocalApplyInvocationContract(replay) = all \o look
    BY DEF VerifyMemoryLocalApplyInvocationContract, CheckApply
  <1>2. Steps(review, {}, Checked)
    BY ReviewStepsTake DEF Takes
  <1>3. Steps(replay, {}, {})
    <2>1. Takes(TurnView, {}, {}) /\ Takes(<<>>, {}, {})
      BY TurnViewTakes, TakesNone
    <2> QED BY <2>1 DEF Takes, MeshReplayView
  <1>4. Steps(apply, Checked, {})
    BY CheckApplySteps
  <1>5. Steps(look, {}, {})
    <2>1. CheckCell.applied
      BY DEF CheckCell
    <2>2. Takes(look, {}, {})
      BY <2>1, LookTakesBack
    <2> QED BY <2>2 DEF Takes
  <1> HIDE DEF apply, review, look
  <1>6. Steps(review \o apply, {}, {})
    BY <1>2, <1>4, StepsThen
  <1>7. Steps(all, {}, {})
    BY <1>3, <1>6, StepsThen
  <1> HIDE DEF all
  <1>8. Steps(all \o look, {}, {})
    BY <1>5, <1>7, StepsThen
  <1>9. IsList(all)
    BY <1>7 DEF Steps, Tidy
  <1>10. RollsBack(all \o look)
    BY <1>9, RollsBackLast DEF look
  <1> QED BY <1>1, <1>8, <1>10 DEF Takes

LEMMA PerformTakes ==
    ASSUME NEW operation
    PROVE  Takes(<<Perform(operation)>>, {}, {})
  <1> DEFINE x == Perform(operation)
  <1>1. x.do \notin Special
    BY DEF Perform, Special
  <1> HIDE DEF x
  <1>2. Takes(<<x>>, {}, {})
    BY <1>1, PlainOther, TakesOne
  <1> QED BY <1>2 DEF x

\* An application of the welcome settings writes every base file.
LEMMA WelcomeCalls ==
    ASSUME NEW c, c.token \in BOOLEAN, c.answered \in BOOLEAN
    PROVE  Call(WelcomeSteps(c))
  <1>1. CASE ~(c.token /\ c.answered)
    <2>1. Takes(<<>>, {}, {})
      BY TakesNone
    <2> QED BY <1>1, <2>1, TakesCall DEF WelcomeSteps
  <1>2. CASE c.token /\ c.answered
    <2> DEFINE memory == IF c.memory THEN <<"memory">> ELSE <<>>
               heartbeat == IF c.heartbeat THEN <<"heartbeat">> ELSE <<>>
               files == BaseFiles \o memory \o heartbeat
               s == WriteWelcomeSteps(c, files)
               S == ToSet(BaseFiles) \cup {"memory", "heartbeat"}
    <2>1. WelcomeSteps(c) = s
      BY <1>2 DEF WelcomeSteps
    <2>2. IsList(BaseFiles) /\ IsList(memory) /\ IsList(heartbeat)
      <3>1. BaseFiles \in Seq({"identity", "user", "soul", "state"})
        BY DEF BaseFiles
      <3>2. memory \in {<<"memory">>, <<>>} /\ heartbeat \in {<<"heartbeat">>, <<>>}
        OBVIOUS
      <3>3. IsList(<<"memory">>) /\ IsList(<<"heartbeat">>) /\ IsList(<<>>)
        BY Lists, Empty
      <3> HIDE DEF memory, heartbeat
      <3> QED BY <3>1, <3>2, <3>3, ListOf
    <2>3. /\ \A i \in DOMAIN memory : c.memory /\ memory[i] = "memory"
          /\ \A i \in DOMAIN heartbeat : c.heartbeat /\ heartbeat[i] = "heartbeat"
      BY Lists, Empty
    <2> HIDE DEF memory, heartbeat
    <2>4. PICK both : both = BaseFiles \o memory
      OBVIOUS
    <2>5. /\ IsList(both)
          /\ \A i \in DOMAIN BaseFiles : i \in DOMAIN both /\ both[i] = BaseFiles[i]
          /\ \A i \in DOMAIN both : \/ both[i] \in ToSet(BaseFiles)
                                    \/ c.memory /\ both[i] = "memory"
      <3>1. /\ IsList(both) /\ DOMAIN both = 1 .. Len(BaseFiles) + Len(memory)
            /\ \A i \in DOMAIN BaseFiles : both[i] = BaseFiles[i]
            /\ \A i \in DOMAIN both : i \in DOMAIN BaseFiles \/
                 (i - Len(BaseFiles) \in DOMAIN memory
                    /\ both[i] = memory[i - Len(BaseFiles)])
        BY <2>2, <2>4, Joined
      <3>2. /\ DOMAIN BaseFiles = 1 .. Len(BaseFiles) /\ Len(BaseFiles) \in Nat
            /\ Len(memory) \in Nat
        BY <2>2, ListIs
      <3> QED BY <2>3, <3>1, <3>2 DEF ToSet
    <2>6. PICK all : all = both \o heartbeat
      OBVIOUS
    <2>7. /\ IsList(all)
          /\ \A i \in DOMAIN BaseFiles : i \in DOMAIN all /\ all[i] = BaseFiles[i]
          /\ \A i \in DOMAIN all : \/ all[i] \in ToSet(BaseFiles)
                                   \/ c.memory /\ all[i] = "memory"
                                   \/ c.heartbeat /\ all[i] = "heartbeat"
      <3>1. /\ IsList(all) /\ DOMAIN all = 1 .. Len(both) + Len(heartbeat)
            /\ \A i \in DOMAIN both : all[i] = both[i]
            /\ \A i \in DOMAIN all : i \in DOMAIN both \/
                 (i - Len(both) \in DOMAIN heartbeat
                    /\ all[i] = heartbeat[i - Len(both)])
        BY <2>2, <2>5, <2>6, Joined
      <3>2. /\ DOMAIN both = 1 .. Len(both) /\ Len(both) \in Nat
            /\ Len(heartbeat) \in Nat
        BY <2>2, <2>5, ListIs
      <3> QED BY <2>3, <2>5, <3>1, <3>2
    <2>8. all = files
      BY <2>4, <2>6
    <2> HIDE DEF files, s
    <2>9. /\ DOMAIN s = DOMAIN all
          /\ \A i \in DOMAIN all : /\ s[i].do = "writeWelcome" /\ s[i].file = all[i]
                                   /\ s[i].answers = c
      BY <2>8 DEF s, WriteWelcomeSteps
    <2>10. DOMAIN all = 1 .. Len(all) /\ Len(all) \in Nat
      BY <2>7, ListIs
    <2>11. IsList(s)
      <3>1. s = [i \in DOMAIN all |-> s[i]]
        BY <2>8 DEF s, WriteWelcomeSteps
      <3>2. s = [i \in 1 .. Len(all) |-> s[i]]
        BY <2>10, <3>1
      <3>3. s \in Seq(ToSet(s))
        BY <2>9, <2>10, <3>2 DEF ToSet
      <3> QED BY <3>3 DEF IsList
    <2>12. ASSUME NEW i \in DOMAIN s
           PROVE  /\ WellFormed(s[i]) /\ Led(s, i) /\ Owes(s[i]) = {} /\ Needs(s[i]) = {}
      <3>1. s[i].do = "writeWelcome" /\ s[i].file = all[i] /\ s[i].answers = c
        BY <2>9
      <3>2. \/ all[i] \in ToSet(BaseFiles)
            \/ c.memory /\ all[i] = "memory"
            \/ c.heartbeat /\ all[i] = "heartbeat"
        BY <2>7, <2>9
      <3>3. all[i] \in WelcomeFiles
        BY <3>2 DEF WelcomeFiles
      <3>4. all[i] \in {"memory", "heartbeat"} => c[all[i]]
        <4>1. ToSet(BaseFiles) = {"identity", "user", "soul", "state"}
          BY DEF ToSet, BaseFiles
        <4> QED BY <3>2, <4>1
      <3> QED BY <3>1, <3>3, <3>4 DEF WellFormed, Led, Ends, Owes, Needs
    <2>13. Tidy(s) /\ Good(s, {})
      BY <2>11, <2>12 DEF Tidy, Prompt, Good
    <2>14. RollsBack(s) /\ Welcomes(s)
      BY <2>9 DEF RollsBack, Welcomes
    <2>15. ASSUME NEW f \in ToSet(BaseFiles) PROVE WritesFile(s, f)
      <3>1. PICK i \in DOMAIN BaseFiles : BaseFiles[i] = f
        BY DEF ToSet
      <3> QED BY <2>7, <2>9, <3>1 DEF WritesFile
    <2> QED BY <2>1, <2>13, <2>14, <2>15 DEF Call
  <1> QED BY <1>1, <1>2

LEMMA NotEmpty ==
    ASSUME NEW s, NEW t, IsList(s), IsList(t), t # <<>>
    PROVE  s \o t # <<>>
  <1>1. Len(t) # 0 /\ Len(t) \in Nat /\ Len(s) \in Nat
    BY EmptySeq DEF IsList
  <1>2. Len(s \o t) = Len(s) + Len(t)
    BY Joined
  <1> QED BY <1>1, <1>2

LEMMA SingleStep ==
    ASSUME NEW n \in {"respond", "listen"}
    PROVE  Takes(<<Step(n)>>, {}, {}) /\ IsList(<<Step(n)>>) /\ <<Step(n)>> # <<>>
           /\ DOMAIN <<Step(n)>> = {1} /\ <<Step(n)>>[1].do = n
  <1>1. Takes(<<Step(n)>>, {}, {})
    BY TakesStep, TakesWeaker DEF Special
  <1> QED BY <1>1, Lists, OfStep

\* The list of a request is a call's, with the answer behind it.
LEMMA CallResponds ==
    ASSUME NEW s, Call(s)
    PROVE  Call(s \o <<Step("respond")>>) /\ s \o <<Step("respond")>> # <<>>
  <1> DEFINE t == <<Step("respond")>>
  <1>1. Takes(t, {}, {}) /\ IsList(t) /\ t # <<>> /\ DOMAIN t = {1} /\ t[1].do = "respond"
    BY SingleStep
  <1> HIDE DEF t
  <1>2. IsList(s)
    BY DEF Call, Tidy
  <1>3. Tidy(s \o t) /\ RollsBack(s \o t)
    BY <1>1, <1>2, TidyThen, RollsBackThen DEF Call, Takes, Steps
  <1>4. Good(s \o t, {})
    BY <1>1, <1>2, GoodThen DEF Call, Takes, Steps
  <1>5. PICK r : r = s \o t
    OBVIOUS
  <1>6. /\ DOMAIN r = 1 .. Len(s) + Len(t)
        /\ \A i \in DOMAIN s : r[i] = s[i]
        /\ \A i \in DOMAIN r : i \in DOMAIN s \/
              (i - Len(s) \in DOMAIN t /\ r[i] = t[i - Len(s)])
    BY <1>1, <1>2, <1>5, Joined
  <1>7. Tame(s) => Tame(r)
    BY <1>1, <1>6 DEF Tame
  <1>8. Welcomes(s) => Welcomes(r)
    BY <1>1, <1>6 DEF Welcomes
  <1>9. \A f : WritesFile(s, f) => WritesFile(r, f)
    <2>1. DOMAIN s \subseteq DOMAIN r
      <3>1. DOMAIN s = 1 .. Len(s) /\ Len(s) \in Nat /\ Len(t) \in Nat
        BY <1>1, <1>2, ListIs
      <3> QED BY <1>6, <3>1
    <2> QED BY <1>6, <2>1 DEF WritesFile
  <1>10. Call(r)
    BY <1>3, <1>4, <1>5, <1>7, <1>8, <1>9 DEF Call
  <1>11. s \o t # <<>>
    BY <1>1, <1>2, NotEmpty
  <1> QED BY <1>5, <1>10, <1>11 DEF t

-----------------------------------------------------------------------------
(* The lists of all inputs, of each operation. *)

\* A list that may stand anywhere, and that nothing rests on.
Free(s) == Takes(s, {}, {})

LEMMA FreeThen ==
    ASSUME NEW s, NEW t, Free(s), Free(t)
    PROVE  Free(s \o t)
  BY TakesThen DEF Free

LEMMA FreeCalls == \A s : Free(s) => Call(s)
  BY TakesCall DEF Free

LEMMA FreeStep == \A n : n \notin Special => Free(<<Step(n)>>)
  <1>1. ASSUME NEW n, n \notin Special PROVE Takes(<<Step(n)>>, {}, {})
    BY <1>1, TakesStep, TakesWeaker
  <1> QED BY <1>1 DEF Free

LEMMA FreeNone == Free(<<>>)
  BY TakesNone DEF Free

LEMMA ViewsFree ==
    /\ Free(WikiView) /\ Free(CandidatesView) /\ Free(SessionsView) /\ Free(ThreadsView)
    /\ Free(SurfaceView) /\ Free(SubmissionView)
    /\ (\A view \in CompletionView : Free(view)) /\ (\A view \in ContractView : Free(view))
    /\ Free(ShellView) /\ Free(StagesView) /\ Free(ReviewQueueView)
    /\ Free(SnapshotSteps) /\ Free(SessionHeartView) /\ Free(MemoryHeartView)
    /\ Free(TurnView) /\ Free(SessionHeartView \o MemoryHeartView)
  <1>1. Free(CandidatesView) /\ Free(SessionsView) /\ Free(<<Step("readWiki")>>)
        /\ Free(<<Step("readRest")>>)
    BY FreeStep DEF Special, CandidatesView, SessionsView
  <1>2. Free(WikiView)
    BY <1>1 DEF WikiView
  <1>3. Free(ThreadsView)
    BY <1>1 DEF ThreadsView
  <1>4. Free(SurfaceView)
    <2>1. Free(<<Step("readRest")>> \o WikiView)
      BY <1>1, <1>2, FreeThen
    <2>2. Free(<<Step("readRest")>> \o WikiView \o CandidatesView)
      BY <1>1, <2>1, FreeThen
    <2> QED BY <1>3, <2>2, FreeThen DEF SurfaceView
  <1>5. Free(TurnView)
    BY TurnViewTakes DEF Free
  <1>6. Free(SnapshotSteps) /\ Free(ShellView)
    BY <1>4 DEF SnapshotSteps, ShellView
  <1>7. Free(StagesView)
    BY <1>3, <1>4, FreeThen DEF StagesView
  <1>8. /\ \A view \in ContractView : Free(view)
        /\ \A view \in CompletionView : Free(view)
    <2>1. Free(InitializeMemoryWiki)
      BY InitializeTakes, TakesWeaker DEF Free
    <2>2. \A view \in ContractView : Free(view)
      BY <1>1, FreeNone DEF ContractView
    <2>3. ASSUME NEW contract \in ContractView
          PROVE  Free(contract \o InitializeMemoryWiki \o CandidatesView \o SessionsView)
      <3>1. Free(contract \o InitializeMemoryWiki)
        BY <2>1, <2>2, FreeThen
      <3>2. Free(contract \o InitializeMemoryWiki \o CandidatesView)
        BY <1>1, <3>1, FreeThen
      <3> QED BY <1>1, <3>2, FreeThen
    <2> QED BY <2>2, <2>3 DEF CompletionView
  <1>9. Free(SessionHeartView) /\ Free(MemoryHeartView)
    BY <1>1, SearchTakes DEF SessionHeartView, MemoryHeartView, Free
  <1>10. Free(SessionHeartView \o MemoryHeartView)
    BY <1>9, FreeThen
  <1> QED BY <1>1, <1>2, <1>3, <1>4, <1>5, <1>6, <1>7, <1>8, <1>9, <1>10
          DEF SubmissionView, ReviewQueueView

\* Lists of a set of inputs.
AllCalls(todos) == \A s \in todos : Call(s)

LEMMA TurnTodosCall == AllCalls(TurnTodos) /\ <<>> \notin TurnTodos
  <1>1. ASSUME NEW status \in {"turn.completed", "turn.authority_needed"}
        PROVE  Call(TurnSteps(status)) /\ TurnSteps(status) # <<>>
    <2>1. Call(TurnSteps(status))
      BY TurnTakes, TakesCall
    <2> DEFINE s == <<Step("checkState")>> \o RunTurn
               t == <<Step("readRest"), Step("writeState"), Add("events", status)>>
    <2>2. IsList(s) /\ IsList(t) /\ t # <<>>
      <3>1. IsList(s)
        BY CheckedTurn DEF Takes, Steps, Tidy
      <3> QED BY <3>1, Lists
    <2>3. TurnSteps(status) = s \o t
      BY DEF TurnSteps
    <2> HIDE DEF s, t
    <2> QED BY <2>1, <2>2, <2>3, NotEmpty
  <1> QED BY <1>1 DEF AllCalls, TurnTodos

LEMMA CaptureCalls == Call(CaptureSteps) /\ CaptureSteps # <<>>
  <1> DEFINE s == InitializeMemoryWiki
             t == <<Step("writeWiki"), Cell(FALSE)>>
  <1>1. IsList(s) /\ IsList(t) /\ t # <<>>
    <2>1. IsList(s)
      BY InitializeTakes DEF Takes, Steps, Tidy
    <2> QED BY <2>1, Lists
  <1>2. CaptureSteps = s \o t
    BY DEF CaptureSteps
  <1> HIDE DEF s, t
  <1>3. CaptureSteps # <<>>
    BY <1>1, <1>2, NotEmpty
  <1> QED BY <1>3, CaptureTakes, TakesCall

LEMMA GrowthTodosCall == AllCalls(GrowthTodos) /\ <<>> \notin GrowthTodos
  <1>1. ASSUME NEW c \in GrowthInputs
        PROVE  Call(GrowthSteps(c)) /\ GrowthSteps(c) # <<>>
    <2>1. c.signal \in Signals /\ c.proven \in BOOLEAN /\ c.approved \in BOOLEAN
      BY DEF GrowthInputs
    <2>2. Call(GrowthSteps(c))
      BY <2>1, GrowthTakes, TakesCall
    <2>3. <<"growth", "any">> \in Given(GrowthSteps(c))
      BY <2>1, GrowthTakes DEF Takes, Steps
    <2>4. GrowthSteps(c) # <<>>
      <3>1. Given(<<>>) = {}
        BY Empty DEF Given
      <3> QED BY <2>3, <3>1
    <2> QED BY <2>2, <2>4
  <1> QED BY <1>1 DEF AllCalls, GrowthTodos

LEMMA LiveTodosCall == AllCalls(LiveTodos) /\ <<>> \notin LiveTodos
  <1>1. ASSUME NEW c \in LiveInputs
        PROVE  Call(LiveSteps(c)) /\ LiveSteps(c) # <<>>
    <2>1. c.signal \in Signals /\ c.proven \in BOOLEAN /\ c.approved \in BOOLEAN
          /\ c.message \in {"none", "question", "answered"}
      BY DEF LiveInputs
    <2>2. Call(LiveSteps(c))
      BY <2>1, LiveTakes, TakesCall
    <2>3. LiveSteps(c) # <<>>
      <3> DEFINE preflight == <<Add("progress", "context_retrieval")>> \o TurnView
                     \o <<Add("preflight", "packet")>>
                 answer == <<Add("progress", "verifying"), Add("answers", "post_answer"),
                             Add("evaluations", "evaluation")>>
                           \o GrowthSteps(c) \o <<Add("progress", "self_growth_review")>>
                 record(status) == <<Add("events", "live_turn"), Add("progress", "complete"),
                                     Add("live", status)>>
                 drafting == <<Add("progress", "drafting")>>
                 none == <<Add("progress", "context_retrieval"), Add("progress", "blocked"),
                           Add("live", "blocked")>>
      <3>1. LiveSteps(c) \in {none, preflight \o drafting \o record("waiting"),
                              preflight \o answer \o record("recorded")}
        BY <2>1 DEF LiveSteps
      <3>2. IsList(preflight) /\ IsList(GrowthSteps(c))
        BY <2>1, PreflightTakes, GrowthTakes DEF Takes, Steps, Tidy
      <3>3. /\ IsList(<<Add("progress", "self_growth_review")>>)
            /\ IsList(<<Add("progress", "verifying"), Add("answers", "post_answer"),
                             Add("evaluations", "evaluation")>>)
            /\ IsList(drafting) /\ IsList(record("waiting")) /\ IsList(record("recorded"))
        BY Lists
      <3>4. record("waiting") # <<>> /\ record("recorded") # <<>> /\ none # <<>>
        OBVIOUS
      <3>5. IsList(answer)
        BY <3>2, <3>3, Joined, Zenon
      <3> HIDE DEF preflight, answer, record, drafting, none
      <3>6. IsList(preflight \o drafting) /\ IsList(preflight \o answer)
        BY <3>2, <3>3, <3>5, Joined
      <3>7. preflight \o drafting \o record("waiting") # <<>>
        BY <3>3, <3>4, <3>6, NotEmpty
      <3>8. preflight \o answer \o record("recorded") # <<>>
        BY <3>3, <3>4, <3>6, NotEmpty
      <3> QED BY <3>1, <3>4, <3>7, <3>8
    <2> QED BY <2>2, <2>3
  <1> QED BY <1>1 DEF AllCalls, LiveTodos

LEMMA BuildCalls == Call(BuildSteps) /\ BuildSteps # <<>>
  <1>1. BuildSteps # <<>>
    BY DEF BuildSteps
  <1> QED BY <1>1, BuildTakes, TakesCall

LEMMA SearchCalls ==
    ASSUME NEW allowBuild
    PROVE  Call(SearchSteps(allowBuild)) /\ SearchSteps(allowBuild) # <<>>
  <1>1. SearchSteps(allowBuild) # <<>>
    BY DEF SearchSteps
  <1> QED BY <1>1, SearchTakes, TakesCall

LEMMA RecordTodosCall == AllCalls(RecordTodos) /\ <<>> \notin RecordTodos
  <1>1. ASSUME NEW t \in Targets
        PROVE  /\ Call(TurnView \o <<Line("history", [target |-> t])>>)
               /\ TurnView \o <<Line("history", [target |-> t])>> # <<>>
    <2> DEFINE rec == [target |-> t]
               s == <<Line("history", rec)>>
    <2>1. Takes(s, {}, {})
      <3>1. DOMAIN rec = {"target"}
        OBVIOUS
      <3>2. "call" \notin DOMAIN rec /\ "kind" \notin DOMAIN rec
        BY <3>1
      <3> HIDE DEF rec
      <3> QED BY <3>2, LineTakes
    <2>2. IsList(s) /\ s # <<>>
      BY Lists
    <2> HIDE DEF s
    <2>3. Takes(TurnView \o s, {}, {})
      BY <2>1, TurnViewTakes, TakesThen
    <2>4. TurnView \o s # <<>>
      BY <2>2, TurnViewTakes, NotEmpty DEF Takes, Steps, Tidy
    <2>5. Call(TurnView \o s) /\ TurnView \o s # <<>>
      BY <2>3, <2>4, TakesCall
    <2> QED BY <2>5 DEF s
  <1> QED BY <1>1 DEF AllCalls, RecordTodos

LEMMA ProposeTodosCall == AllCalls(ProposeTodos) /\ <<>> \notin ProposeTodos
  <1>1. ASSUME NEW t PROVE Call(<<Line("proposals", [target |-> t])>>)
    <2> DEFINE rec == [target |-> t]
    <2>1. DOMAIN rec = {"target"}
      OBVIOUS
    <2>2. "call" \notin DOMAIN rec /\ "kind" \notin DOMAIN rec
      BY <2>1
    <2> HIDE DEF rec
    <2>3. Takes(<<Line("proposals", rec)>>, {}, {})
      BY <2>2, LineTakes
    <2> QED BY <2>3, TakesCall DEF rec
  <1>2. \A x : <<x>> # <<>>
    OBVIOUS
  <1> QED BY <1>1, <1>2 DEF AllCalls, ProposeTodos

LEMMA GateTodosCall == AllCalls(GateTodos) /\ <<>> \notin GateTodos
  <1>1. ASSUME NEW p, NEW t, NEW approved PROVE Call(<<Line("gates", Gate(p, t, approved))>>)
    <2> DEFINE rec == Gate(p, t, approved)
    <2>1. DOMAIN rec = {"target", "proposed", "review"}
      BY DEF Gate
    <2>2. "call" \notin DOMAIN rec /\ "kind" \notin DOMAIN rec
      BY <2>1
    <2> HIDE DEF rec
    <2>3. Takes(<<Line("gates", rec)>>, {}, {})
      BY <2>2, LineTakes
    <2> QED BY <2>3, TakesCall DEF rec
  <1>2. \A x : <<x>> # <<>>
    OBVIOUS
  <1> QED BY <1>1, <1>2 DEF AllCalls, GateTodos

LEMMA OthersCall ==
    /\ AllCalls({VerifyMemoryReviewQueue})
    /\ AllCalls(SelfCheckTodos) /\ AllCalls(RollbackTodos) /\ AllCalls(ReplayTodos)
    /\ AllCalls({ProductionCompletion})
    /\ AllCalls(WelcomeTodos)
    /\ AllCalls(DryRunTodos) /\ AllCalls({DryRunSteps(TRUE)})
    /\ AllCalls(FlowTodos) /\ AllCalls(LoopTodos) /\ AllCalls({LoopSteps(text, TRUE) : text \in Texts})
    /\ AllCalls(OsTurnTodos)
    /\ AllCalls({SubmitSteps(c) : c \in TurnInputs})
    /\ AllCalls(LocalRecordTodos)
    /\ AllCalls(SearchTodos)
    /\ AllCalls(PacketTodos) /\ AllCalls(PostAnswerTodos) /\ AllCalls(EvaluationTodos)
    /\ AllCalls(SkillRunTodos) /\ AllCalls(HardeningTodos)
    /\ AllCalls({<<Add("progress", "tool_event")>>})
    /\ AllCalls({<<>>}) /\ AllCalls({<<Step("checkState")>>})
    /\ \A operation : AllCalls({<<Perform(operation)>>})
    /\ AllCalls(EvidenceTodos)
  <1>1. AllCalls({VerifyMemoryReviewQueue}) /\ AllCalls(SelfCheckTodos)
    BY ReviewStepsTake, SelfCheckTakes, TakesCall
       DEF AllCalls, VerifyMemoryReviewQueue, SelfCheckTodos
  <1>2. AllCalls({ProductionCompletion}) /\ AllCalls(LoopTodos)
        /\ AllCalls({LoopSteps(text, TRUE) : text \in Texts})
    <2>1. \A text, keep : Call(LoopSteps(text, keep))
      BY LoopTakes, TakesCall
    <2>2. AllCalls({ProductionCompletion})
      BY <2>1 DEF AllCalls, ProductionCompletion
    <2>3. AllCalls(LoopTodos)
      BY <2>1 DEF AllCalls, LoopTodos
    <2>4. AllCalls({LoopSteps(text, TRUE) : text \in Texts})
      BY <2>1 DEF AllCalls
    <2> QED BY <2>2, <2>3, <2>4
  <1>3. AllCalls(WelcomeTodos)
    BY WelcomeCalls DEF AllCalls, WelcomeTodos, WelcomeInputs
  <1>4. AllCalls(DryRunTodos) /\ AllCalls({DryRunSteps(TRUE)})
    <2>1. \A allowed \in BOOLEAN : Call(DryRunSteps(allowed))
      BY DryRunTakes, TakesCall
    <2> QED BY <2>1 DEF AllCalls, DryRunTodos
  <1>5. AllCalls(FlowTodos)
    <2>1. \A matches, recordable : Call(FlowSteps(matches, recordable))
      BY FlowTakes, TakesCall
    <2> QED BY <2>1 DEF AllCalls, FlowTodos
  <1>6. ASSUME NEW c \in TurnInputs
        PROVE  /\ \A keep \in BOOLEAN : Call(OsTurnSteps(c, keep))
               /\ Call(SubmitSteps(c))
    <2>1. c.text \in Texts /\ c.message = "answered" /\ c.signal \in Signals
          /\ c.proven \in BOOLEAN /\ c.approved \in BOOLEAN
      BY DEF TurnInputs
    <2>2. Call(SubmitSteps(c))
      BY <2>1, SubmitTakes, TakesCall
    <2>3. ASSUME NEW keep \in BOOLEAN PROVE Call(OsTurnSteps(c, keep))
      <3> DEFINE Q == IF keep THEN {<<"osTurns", "any">>} ELSE {}
      <3>1. Takes(OsTurnSteps(c, keep), {}, Q)
        BY <2>1, OsTurnTakes
      <3> HIDE DEF Q
      <3> QED BY <3>1, TakesCall
    <2> QED BY <2>2, <2>3
  <1>7. AllCalls(OsTurnTodos) /\ AllCalls({SubmitSteps(c) : c \in TurnInputs})
    BY <1>6 DEF AllCalls, OsTurnTodos
  <1>8. Call(<<>>)
    BY FreeNone, FreeCalls
  <1>9. AllCalls(LocalRecordTodos)
    <2>1. Takes(LedgerPair("asked_approval", "asked_audit"), {}, {})
      BY LedgerTakes, TakesWeaker
    <2> QED BY <1>8, <2>1, TakesCall DEF AllCalls, LocalRecordTodos
  <1>10. AllCalls(SearchTodos)
    BY SearchCalls DEF AllCalls, SearchTodos
  <1>11. \A f, k : f \in {"preflight", "answers", "evaluations", "skills", "hardening"} =>
            Takes(<<Add(f, k)>>, {}, {})
    <2>1. ASSUME NEW f \in {"preflight", "answers", "evaluations", "skills", "hardening"},
                 NEW k
          PROVE  Takes(<<Add(f, k)>>, {}, {})
      <3>1. LineNeeds(f, k) = {}
        BY FreeLines
      <3> QED BY <3>1, OneLine, TakesWeaker
    <2> QED BY <2>1
  <1>12. AllCalls(PacketTodos)
    <2> DEFINE packet == <<Add("preflight", "packet")>>
    <2>1. Free(packet)
      BY <1>11 DEF Free
    <2>2. PacketTodos = {packet, TurnView \o packet}
      BY DEF PacketTodos
    <2> HIDE DEF packet
    <2>3. Free(TurnView \o packet)
      BY <2>1, ViewsFree, FreeThen
    <2> QED BY <2>1, <2>2, <2>3, FreeCalls DEF AllCalls
  <1>13. AllCalls(PostAnswerTodos) /\ AllCalls(EvaluationTodos)
         /\ AllCalls(SkillRunTodos) /\ AllCalls(HardeningTodos)
    <2>1. \A f, k : f \in {"preflight", "answers", "evaluations", "skills", "hardening"} =>
            Call(<<Add(f, k)>>)
      BY <1>11, TakesCall
    <2> QED BY <1>8, <2>1
            DEF AllCalls, PostAnswerTodos, EvaluationTodos, SkillRunTodos, HardeningTodos
  <1>14. AllCalls({<<Add("progress", "tool_event")>>})
    <2>1. Takes(<<Add("progress", "tool_event")>>, {},
                {} \cup {<<"progress", "tool_event">>, <<"progress", "any">>})
      BY TakesFreeLine DEF LineFiles
    <2> QED BY <2>1, TakesCall DEF AllCalls
  <1>15. AllCalls({<<>>}) /\ AllCalls({<<Step("checkState")>>})
    BY <1>8, FreeStep, FreeCalls DEF AllCalls, Special
  <1>16. \A operation : AllCalls({<<Perform(operation)>>})
    BY PerformTakes, TakesCall DEF AllCalls
  <1>17. AllCalls(EvidenceTodos)
    <2>1. ASSUME NEW view \in CompletionView, NEW operation
          PROVE  Takes(view \o <<Perform(operation)>>, {}, {})
      BY ViewsFree, PerformTakes, TakesThen DEF Free
    <2> QED BY <2>1, TakesCall DEF AllCalls, EvidenceTodos
  <1>18. \A cell \in AppliedCells : cell.applied
    BY DEF AppliedCells, CheckCell
  <1>19. AllCalls(RollbackTodos)
    <2>1. \A cell \in AppliedCells : Call(ReadApplied(cell, TRUE))
      BY <1>18, LookTakesBack, TakesCall
    <2>2. Call(<<Step("readCandidates")>>)
      BY FreeStep, FreeCalls DEF Special
    <2> QED BY <2>1, <2>2 DEF AllCalls, RollbackTodos
  <1>20. AllCalls(ReplayTodos)
    <2> DEFINE line == <<Add("queue", "replay")>>
    <2>1. Free(line)
      <3>1. Takes(line, {}, {} \cup {<<"queue", "replay">>, <<"queue", "any">>})
        BY TakesFreeLine DEF LineFiles
      <3> HIDE DEF line
      <3> QED BY <3>1, TakesWeaker DEF Free
    <2> HIDE DEF line
    <2>2. Free(<<Step("readCandidates")>>)
      BY FreeStep DEF Special
    <2>3. Free(<<Step("readCandidates")>> \o line)
      BY <2>1, <2>2, FreeThen
    <2>4. <<Step("readCandidates"), Add("queue", "replay")>> = <<Step("readCandidates")>> \o line
      BY Cuts2 DEF line
    <2>5. ASSUME NEW cell \in AppliedCells
          PROVE  Free(ReadApplied(cell, FALSE) \o line)
      BY <1>18, <2>1, LookTakesBack, FreeThen DEF Free
    <2>6. ReplayTodos = {line, <<Step("readCandidates"), Add("queue", "replay")>>}
             \cup {ReadApplied(cell, FALSE) \o line : cell \in AppliedCells}
      BY DEF ReplayTodos, line
    <2> QED BY <2>1, <2>3, <2>4, <2>5, <2>6, FreeCalls DEF AllCalls
  <1> QED BY <1>1, <1>2, <1>3, <1>4, <1>5, <1>7, <1>9, <1>10, <1>12, <1>13, <1>14,
             <1>15, <1>16, <1>17, <1>19, <1>20

LEMMA SessionTodosCall == AllCalls(SessionTodos)
  <1>1. Call(SessionSteps("opened"))
    BY SessionTakes, TakesCall
  <1>2. Call(SessionsView) /\ Call(<<Perform("applySessionWorkspaceAction")>>)
    BY ViewsFree, FreeCalls, PerformTakes, TakesCall
  <1> QED BY <1>1, <1>2 DEF AllCalls, SessionTodos

-----------------------------------------------------------------------------
(* The routes of the server and the gateway, and the commands. *)

\* Every list of the routes is one of a whole call.
Sound(routes) == \A r \in routes : AllCalls(r.todos)

LEMMA RouteTodos ==
    /\ \A path, todos : Get(path, todos).todos = todos
    /\ \A path, todos : Post(path, todos).todos = todos
    /\ \A name, todos : Command(name, todos).todos = todos
    /\ \A path : AllCalls(Performs(path).todos)
    /\ \A name : AllCalls(PerformsCommand(name).todos)
  <1>1. /\ \A path, todos : Get(path, todos).todos = todos
        /\ \A path, todos : Post(path, todos).todos = todos
        /\ \A name, todos : Command(name, todos).todos = todos
    BY DEF Get, Post, Command, Route
  <1> QED BY <1>1, OthersCall DEF Performs, PerformsCommand

LEMMA ViewsCall ==
    /\ AllCalls({WikiView}) /\ AllCalls({CandidatesView}) /\ AllCalls({SessionsView})
    /\ AllCalls({ThreadsView}) /\ AllCalls({SurfaceView}) /\ AllCalls({SubmissionView})
    /\ AllCalls(CompletionView) /\ AllCalls(ContractView)
    /\ AllCalls({ShellView}) /\ AllCalls({StagesView})
    /\ AllCalls({ReviewQueueView}) /\ AllCalls({SnapshotSteps})
    /\ AllCalls({SessionHeartView}) /\ AllCalls({MemoryHeartView})
    /\ AllCalls({TurnView}) /\ AllCalls({PreflightView})
    /\ AllCalls({SessionHeartView \o MemoryHeartView})
    /\ AllCalls(MeshReplayView) /\ AllCalls(InspectorView) /\ AllCalls(LlmPacketView)
    /\ AllCalls({CaptureSteps}) /\ AllCalls({BuildSteps})
    /\ AllCalls({GrowthSteps(c) : c \in {c \in GrowthInputs :
                                   c.signal # "text_missing" /\ ~c.approved}})
    /\ AllCalls({LiveSteps(c) : c \in {c \in LiveInputs : c.message = "question"}})
    /\ AllCalls({LiveSteps(c) : c \in {c \in LiveInputs : c.message = "answered"}})
  <1>1. \A s : Free(s) => AllCalls({s})
    BY FreeCalls DEF AllCalls
  <1>2. AllCalls(MeshReplayView) /\ AllCalls(InspectorView) /\ AllCalls(LlmPacketView)
    BY ViewsFree, FreeNone, FreeCalls DEF AllCalls, MeshReplayView, InspectorView, LlmPacketView
  <1>3. AllCalls({CaptureSteps}) /\ AllCalls({BuildSteps})
    BY CaptureCalls, BuildCalls DEF AllCalls
  <1>4. AllCalls({GrowthSteps(c) : c \in {c \in GrowthInputs :
                                   c.signal # "text_missing" /\ ~c.approved}})
    BY GrowthTodosCall DEF AllCalls, GrowthTodos
  <1>5. AllCalls({LiveSteps(c) : c \in {c \in LiveInputs : c.message = "question"}})
    BY LiveTodosCall DEF AllCalls, LiveTodos
  <1>6. AllCalls({LiveSteps(c) : c \in {c \in LiveInputs : c.message = "answered"}})
    BY LiveTodosCall DEF AllCalls, LiveTodos
  <1>7. AllCalls({TurnView}) /\ AllCalls({PreflightView})
    BY <1>1, ViewsFree DEF PreflightView
  <1>8. AllCalls({WikiView}) /\ AllCalls({CandidatesView}) /\ AllCalls({SessionsView})
        /\ AllCalls({ThreadsView}) /\ AllCalls({SurfaceView}) /\ AllCalls({SubmissionView})
        /\ AllCalls({ShellView}) /\ AllCalls({StagesView})
        /\ AllCalls({ReviewQueueView}) /\ AllCalls({SnapshotSteps})
        /\ AllCalls({SessionHeartView}) /\ AllCalls({MemoryHeartView})
    BY <1>1, ViewsFree
  <1>9. AllCalls({SessionHeartView \o MemoryHeartView})
    BY <1>1, ViewsFree
  <1>10. AllCalls(CompletionView) /\ AllCalls(ContractView)
    BY ViewsFree, FreeCalls DEF AllCalls
  <1> QED BY <1>2, <1>3, <1>4, <1>5, <1>6, <1>7, <1>8, <1>9, <1>10

LEMMA SomeCalls ==
    AllCalls(TurnTodos) /\ AllCalls(GrowthTodos) /\ AllCalls(LiveTodos)
    /\ AllCalls(RecordTodos) /\ AllCalls(ProposeTodos) /\ AllCalls(GateTodos)
    /\ AllCalls(SessionTodos)
  BY TurnTodosCall, GrowthTodosCall, LiveTodosCall, RecordTodosCall, ProposeTodosCall,
     GateTodosCall, SessionTodosCall

-----------------------------------------------------------------------------
(* The server. *)

LEMMA HeartSound == Sound(HeartGets)
  BY RouteTodos, ViewsCall DEF Sound, HeartGets

LEMMA SubmissionSound == Sound(SubmissionGets)
  BY RouteTodos, ViewsCall DEF Sound, SubmissionGets

LEMMA SessionGetsSound == Sound(SessionGets)
  BY RouteTodos, ViewsCall DEF Sound, SessionGets

\* Every route of the server.
LEMMA ServerSound == Sound(ServerGets) /\ AllCalls(GetTodos)
  <1>1. Sound(ControlCenterGets)
    BY RouteTodos, ViewsCall DEF Sound, ControlCenterGets
  <1>2. Sound(RuntimeGets)
    BY HeartSound, RouteTodos, OthersCall DEF Sound, RuntimeGets
  <1>3. Sound(WorkspaceGets)
    BY SubmissionSound, SessionGetsSound, RouteTodos, ViewsCall DEF Sound, WorkspaceGets
  <1>4. Sound(ShellGets) /\ Sound(PageGets)
    BY RouteTodos, OthersCall DEF Sound, ShellGets, PageGets
  <1>5. Sound(ServerGets)
    BY <1>1, <1>2, <1>3, <1>4 DEF Sound, ServerGets
  <1> QED BY <1>5 DEF Sound, GetTodos, AllCalls

LEMMA ProtectedSound == Sound(ProtectedPosts)
  BY RouteTodos, OthersCall, SomeCalls DEF Sound, ProtectedPosts

-----------------------------------------------------------------------------
(* The gateway. *)

LEMMA PerformingSound ==
    /\ Sound(ScenarioRoutes) /\ Sound(PrePublicRoutes) /\ Sound(ReviewRoutes)
    /\ Sound(SigningRoutes) /\ Sound(DryRunRoutes) /\ Sound(PackageRoutes)
    /\ Sound(FieldTestRoutes) /\ Sound(BroaderTestRoutes) /\ Sound(SettingsRoutes)
  <1>1. \A paths : Sound({Performs(path) : path \in paths})
    BY RouteTodos DEF Sound
  <1>2. Sound(ScenarioRoutes) /\ Sound(SettingsRoutes)
    BY RouteTodos DEF Sound, ScenarioRoutes, SettingsRoutes
  <1>3. Sound(PrePublicRoutes)
    BY <1>1 DEF PrePublicRoutes
  <1>4. Sound(ReviewRoutes)
    BY <1>1 DEF ReviewRoutes
  <1>5. Sound(SigningRoutes)
    BY <1>1 DEF SigningRoutes
  <1>6. Sound(DryRunRoutes)
    BY <1>1 DEF DryRunRoutes
  <1>7. Sound(PackageRoutes)
    BY <1>1 DEF PackageRoutes
  <1>8. Sound(FieldTestRoutes)
    BY <1>1 DEF FieldTestRoutes
  <1>9. Sound(BroaderTestRoutes)
    BY <1>1 DEF BroaderTestRoutes
  <1> QED BY <1>2, <1>3, <1>4, <1>5, <1>6, <1>7, <1>8, <1>9

\* Every method of the gateway.
LEMMA GatewaySound == Sound(GatewayRoutes \cup RecordedRoutes)
  <1>1. Sound(FileRoutes)
    BY RouteTodos, ViewsCall, OthersCall DEF Sound, FileRoutes
  <1>2. Sound(CenterRoutes)
    BY RouteTodos, ViewsCall, OthersCall DEF Sound, CenterRoutes
  <1>3. Sound(SurfaceRoutes)
    BY RouteTodos, ViewsCall, SomeCalls, SubmissionSound, SessionGetsSound
       DEF Sound, SurfaceRoutes
  <1>4. Sound(WorkRoutes)
    BY RouteTodos, ViewsCall, OthersCall DEF Sound, WorkRoutes
  <1>5. Sound(ProductionRoutes)
    BY RouteTodos, OthersCall DEF Sound, ProductionRoutes
  <1>6. Sound(ApprovalRoutes)
    BY RouteTodos, OthersCall DEF Sound, ApprovalRoutes
  <1>7. Sound(RuntimeRoutes)
    <2>1. AllCalls(ContractView \cup MeshReplayView)
      BY ViewsCall DEF AllCalls
    <2>2. AllCalls(TurnTodos) /\ AllCalls({CaptureSteps}) /\ AllCalls(SelfCheckTodos)
          /\ AllCalls({VerifyMemoryReviewQueue})
      BY ViewsCall, OthersCall, SomeCalls
    <2> QED BY <2>1, <2>2, HeartSound, RouteTodos DEF Sound, RuntimeRoutes
  <1>8. Sound(MemoryRoutes)
    BY RouteTodos, ViewsCall, OthersCall DEF Sound, MemoryRoutes
  <1>9. Sound(LiveRoutes)
    BY RouteTodos, ViewsCall, OthersCall, SomeCalls DEF Sound, LiveRoutes
  <1>10. Sound(TurnRoutes)
    BY RouteTodos, ViewsCall, OthersCall, SomeCalls DEF Sound, TurnRoutes
  <1>11. Sound(ReplayRoutes)
    BY RouteTodos, ViewsCall, OthersCall, SomeCalls DEF Sound, ReplayRoutes
  <1>12. Sound(EvidenceRoutes)
    BY RouteTodos, ViewsCall, OthersCall DEF Sound, EvidenceRoutes
  <1>13. Sound(RecordedRoutes)
    BY RouteTodos, OthersCall, SomeCalls DEF Sound, RecordedRoutes
  <1>14. Sound(GatewayRoutes)
    BY <1>1, <1>2, <1>3, <1>4, <1>5, <1>6, <1>7, <1>8, <1>9, <1>10, <1>11, <1>12,
       PerformingSound DEF Sound, GatewayRoutes
  <1> QED BY <1>13, <1>14 DEF Sound

-----------------------------------------------------------------------------
(* The CLI. *)

LEMMA CommandSound ==
    ASSUME NEW name, NEW todos, AllCalls(todos)
    PROVE  AllCalls(Command(name, todos).todos)
  BY RouteTodos

LEMMA TurnCommandsSound == Sound(TurnCommands)
  <1>1. AllCalls({<<Step("checkState")>>}) /\ AllCalls(SearchTodos)
    BY OthersCall
  <1>2. /\ AllCalls({CaptureSteps}) /\ AllCalls({WikiView}) /\ AllCalls({BuildSteps})
        /\ AllCalls({MemoryHeartView}) /\ AllCalls({CandidatesView}) /\ AllCalls({TurnView})
    BY ViewsCall
  <1>3. AllCalls(TurnTodos) /\ AllCalls(RecordTodos)
    BY SomeCalls
  <1> QED BY <1>1, <1>2, <1>3, CommandSound, ZenonT(30) DEF Sound, TurnCommands

LEMMA GrowthCommandsSound == Sound(GrowthCommands)
  <1> DEFINE grown == {GrowthSteps(c) : c \in {c \in GrowthInputs :
                                   c.signal # "text_missing" /\ ~c.approved}}
             started == {LiveSteps(c) : c \in {c \in LiveInputs : c.message = "question"}}
             answered == {LiveSteps(c) : c \in {c \in LiveInputs : c.message = "answered"}}
  <1>1. AllCalls(grown) /\ AllCalls(started) /\ AllCalls(answered)
        /\ AllCalls({TurnView}) /\ AllCalls({SessionHeartView \o MemoryHeartView})
    BY ViewsCall
  <1>2. AllCalls({<<Add("progress", "tool_event")>>}) /\ AllCalls(SkillRunTodos)
    BY OthersCall
  <1>3. GrowthCommands = {
            Command("auto-memory-growth run", grown), Command("live-turn run", started),
            Command("live-turn run-answer", answered),
            Command("live-turn tool-progress", {<<Add("progress", "tool_event")>>}),
            Command("live-turn verify", {TurnView}),
            Command("runtime heart", {SessionHeartView \o MemoryHeartView}),
            Command("skill execute-record", SkillRunTodos)}
    BY DEF GrowthCommands
  <1> HIDE DEF grown, started, answered
  <1> QED BY <1>1, <1>2, <1>3, CommandSound, ZenonT(30) DEF Sound

LEMMA LocalCommandsSound == Sound(LocalCommands)
  <1>1. /\ AllCalls(DryRunTodos) /\ AllCalls({DryRunSteps(TRUE)}) /\ AllCalls(LocalRecordTodos)
        /\ AllCalls(HardeningTodos) /\ AllCalls(WelcomeTodos) /\ AllCalls({ProductionCompletion})
        /\ AllCalls(EvidenceTodos)
    BY OthersCall
  <1>2. AllCalls(CompletionView) /\ AllCalls(TurnTodos)
    BY ViewsCall, SomeCalls
  <1>3. \A name : AllCalls(PerformsCommand(name).todos)
    BY RouteTodos
  <1> QED BY <1>1, <1>2, <1>3, CommandSound, ZenonT(30) DEF Sound, LocalCommands

LEMMA ControlCommandsSound == Sound(ControlCommands)
  <1>1. \A todos, names : AllCalls(todos) =>
            Sound({Command("control " \o name, todos) : name \in names})
    BY CommandSound, Zenon DEF Sound
  <1>2. /\ AllCalls({SnapshotSteps}) /\ AllCalls({SurfaceView}) /\ AllCalls({SubmissionView})
        /\ AllCalls({SessionsView}) /\ AllCalls({SessionHeartView})
        /\ AllCalls({ThreadsView}) /\ AllCalls({ReviewQueueView}) /\ AllCalls({ShellView})
    BY ViewsCall
  <1>3. /\ AllCalls({LoopSteps(text, TRUE) : text \in Texts})
        /\ AllCalls(FlowTodos) /\ AllCalls(SessionTodos)
    BY OthersCall, SomeCalls
  <1>4. Sound({Command("control multi-chat-memory-review-queue", {ReviewQueueView})})
    BY <1>2, CommandSound, Zenon DEF Sound
  <1>5. Sound({Command("control sessions-action", SessionTodos),
          Command("control work-surface-local-loop",
              {LoopSteps(text, TRUE) : text \in Texts}),
          Command("control work-surface-execution-record", FlowTodos)})
    BY <1>3, CommandSound, Zenon DEF Sound
  <1> DEFINE snapshots == {Command("control " \o name, {SnapshotSteps}) : name \in {
                 "snapshot", "summary", "ui-snapshot", "ui-validate", "html", "render"}}
             surfaces == {Command("control " \o name, {SurfaceView}) : name \in {
                 "work-surface", "work-surface-html", "work-surface-check"}}
             submissions == {Command("control " \o name, {SubmissionView}) : name \in {
                 "work-surface-submission-gate", "work-surface-submission-gate-check",
                 "work-surface-submission-validation-gate",
                 "work-surface-submission-validation-gate-check"}}
             sessionList == {Command("control " \o name, {SessionsView}) : name \in {
                 "sessions", "sessions-check"}}
             hearts == {Command("control " \o name, {SessionHeartView}) : name \in {
                 "session-heart", "session-heart-check"}}
             threads == {Command("control " \o name, {ThreadsView}) : name \in {
                 "multi-chat-workspace", "multi-chat-workspace-check"}}
             queue == {Command("control multi-chat-memory-review-queue", {ReviewQueueView})}
             shells == {Command("control " \o name, {ShellView}) : name \in {
                 "workspace-shell", "workspace-shell-html", "workspace-shell-check"}}
             actions == {Command("control sessions-action", SessionTodos),
                 Command("control work-surface-local-loop",
                     {LoopSteps(text, TRUE) : text \in Texts}),
                 Command("control work-surface-execution-record", FlowTodos)}
  <1>6. Sound(snapshots)
    BY <1>1, <1>2, Zenon
  <1>7. Sound(surfaces)
    BY <1>1, <1>2, Zenon
  <1>8. Sound(submissions)
    BY <1>1, <1>2, Zenon
  <1>9. Sound(sessionList)
    BY <1>1, <1>2, Zenon
  <1>10. Sound(hearts)
    BY <1>1, <1>2, Zenon
  <1>11. Sound(threads)
    BY <1>1, <1>2, Zenon
  <1>12. Sound(shells)
    BY <1>1, <1>2, Zenon
  <1>13. Sound(queue) /\ Sound(actions)
    BY <1>4, <1>5
  <1>14. ControlCommands = snapshots \cup surfaces \cup submissions \cup sessionList
            \cup hearts \cup threads \cup queue \cup shells \cup actions
    BY Zenon DEF ControlCommands
  <1> HIDE DEF snapshots, surfaces, submissions, sessionList, hearts, threads, queue,
               shells, actions
  <1> QED BY <1>6, <1>7, <1>8, <1>9, <1>10, <1>11, <1>12, <1>13, <1>14 DEF Sound

\* Every command.
LEMMA CliSound == Sound(CliCommands \cup RecordedCommands)
  <1>1. Sound(RecordedCommands)
    BY SomeCalls, CommandSound, Zenon DEF Sound, RecordedCommands
  <1>2. Sound(RebuildCommands)
    BY ViewsCall, CommandSound, Zenon DEF Sound, RebuildCommands
  <1>3. \A names : Sound({PerformsCommand(name) : name \in names})
    BY RouteTodos DEF Sound
  <1>4. Sound(EvidenceCommands)
    BY <1>3 DEF EvidenceCommands
  <1>5. Sound(ReviewCommands)
    BY <1>3 DEF ReviewCommands
  <1>6. Sound(TestingCommands)
    BY <1>3 DEF TestingCommands
  <1>7. Sound(DecisionCommands)
    BY <1>3 DEF DecisionCommands
  <1>8. Sound(CliCommands)
    BY <1>2, <1>4, <1>5, <1>6, <1>7, TurnCommandsSound, GrowthCommandsSound,
       LocalCommandsSound, ControlCommandsSound DEF Sound, CliCommands
  <1> QED BY <1>1, <1>8 DEF Sound

\* Whatever the server, the gateway or the CLI is asked to do (control-center-serving,
\* gateway, cli), and whatever its inputs, is a list of steps of a whole call: a line that
\* names others comes after them, a state or an entry is told of at once, and a
\* self-check that applies a candidate takes it back.
THEOREM CallsSound ==
    /\ Sound(ServerGets) /\ AllCalls(GetTodos) /\ Sound(ProtectedPosts)
    /\ Sound(GatewayRoutes \cup RecordedRoutes)
    /\ Sound(CliCommands \cup RecordedCommands)
  BY ServerSound, ProtectedSound, GatewaySound, CliSound
=============================================================================
