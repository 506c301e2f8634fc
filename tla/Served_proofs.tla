----------------------------- MODULE Served_proofs -----------------------------
(***************************************************************************)
(* The server, the gateway and the CLI on one root: tokens and restarts of the *)
(* preview server, and what the files of the root say of the calls that wrote *)
(* them, for any root, any number of calls, requests and stops, and whatever the *)
(* callers do meanwhile.                                                    *)
(***************************************************************************)
EXTENDS ServedPlans_proofs

(***************************************************************************)
(* The invariant: a request that waits for its body waits in the run its cookie  *)
(* is of, and what was asked of the server had the tokens of its run.             *)
(***************************************************************************)

Record ==
    [path : {"page"} \cup ProtectedPaths, valid : BOOLEAN, cookie : Nat, csrf : Nat,
     status : {"handled", "405", "403", "401", "waiting", "answered", "lost"}]

Shaped ==
    /\ server \in [up : BOOLEAN, run : Nat]
    /\ requests \in Seq(Record)

WaitingCurrent ==
    \A k \in DOMAIN requests : requests[k].status = "waiting" =>
        server.up /\ requests[k].cookie = server.run

TokenInv == Shaped /\ WaitingCurrent /\ RestartRevokes

LEMMA TokenInvInit ==
    ASSUME NEW root, NEW calls, ServedInit(root, calls)
    PROVE  TokenInv
  BY DEF ServedInit, TokenInv, Shaped, WaitingCurrent, RestartRevokes

LEMMA TokenInvKept ==
    ASSUME TokenInv, UNCHANGED servedVars
    PROVE  TokenInv'
  BY DEF TokenInv, Shaped, WaitingCurrent, RestartRevokes, servedVars

\* What other calls are asked with is not the server's concern.
LEMMA AskedKeeps ==
    ASSUME TokenInv, NEW via, NEW method, NEW q, Asked(via, method, q),
           via = "server" /\ method = "POST" => q.cookie = server.run /\ q.csrf = server.run
    PROVE  RestartRevokes'
  BY DEF TokenInv, RestartRevokes, Asked

(***************************************************************************)
(* Requests.                                                                    *)
(***************************************************************************)

LEMMA RequestRecord ==
    ASSUME TokenInv, NEW path \in {"page"} \cup ProtectedPaths,
           NEW q \in [cookie : Nat, csrf : Nat],
           NEW status \in {"handled", "405", "403", "401", "waiting"}
    PROVE  /\ Request(path, q, status) \in Record
           /\ Request(path, q, status).status = status
           /\ Request(path, q, status).cookie = q.cookie
  BY DEF Request, Record, TokenInv, Shaped

\* A request is added, and it waits only with the cookie of this run.
LEMMA ArrivalKeeps ==
    ASSUME TokenInv, NEW request \in Record, requests' = Append(requests, request),
           request.status = "waiting" => server.up /\ request.cookie = server.run,
           UNCHANGED server
    PROVE  Shaped' /\ WaitingCurrent'
  <1>1. Shaped'
    BY DEF TokenInv, Shaped
  <1>2. \A k \in DOMAIN requests' : requests'[k] = request \/
            (k \in DOMAIN requests /\ requests'[k] = requests[k])
    BY DEF TokenInv, Shaped
  <1> QED BY <1>1, <1>2 DEF TokenInv, WaitingCurrent

LEMMA AnswerKeeps ==
    ASSUME TokenInv, NEW k \in DOMAIN requests,
           NEW status \in {"handled", "405", "403"}, Answers(k, status), UNCHANGED server
    PROVE  Shaped' /\ WaitingCurrent'
  <1>1. requests[k] \in Record /\ requests \in Seq(Record)
    BY DEF TokenInv, Shaped
  <1>2. [requests[k] EXCEPT !.status = status] \in Record
    BY <1>1 DEF Record
  <1>3. [requests[k] EXCEPT !.status = status].status = status
    BY <1>1 DEF Record
  <1>4. requests' \in Seq(Record) /\ DOMAIN requests' = DOMAIN requests
    BY <1>1, <1>2 DEF Answers
  <1>5. \A j \in DOMAIN requests : requests'[j].status = status \/ requests'[j] = requests[j]
    BY <1>1, <1>3 DEF Answers
  <1> QED BY <1>4, <1>5 DEF TokenInv, Shaped, WaitingCurrent

\* No answer makes a request wait.
LEMMA DoneKeeps ==
    ASSUME TokenInv, NEW from, NEW to \in {"answered", "lost"},
           requests' = [k \in DOMAIN requests |->
              IF requests[k].status \in from THEN [requests[k] EXCEPT !.status = to]
              ELSE requests[k]]
    PROVE  /\ requests' \in Seq(Record)
           /\ DOMAIN requests' = DOMAIN requests
           /\ \A k \in DOMAIN requests : requests'[k].status = "waiting" =>
                 requests'[k] = requests[k] /\ requests[k].status \notin from
  <1>1. requests \in Seq(Record)
    BY DEF TokenInv, Shaped
  <1>2. ASSUME NEW k \in DOMAIN requests
        PROVE  /\ [requests[k] EXCEPT !.status = to] \in Record
               /\ [requests[k] EXCEPT !.status = to].status = to
    <2>1. requests[k] \in Record
      BY <1>1
    <2>2. [requests[k] EXCEPT !.status = to] \in Record
      BY <2>1 DEF Record
    <2>3. [requests[k] EXCEPT !.status = to].status = to
      BY <2>1 DEF Record
    <2> QED BY <2>2, <2>3
  <1> QED BY <1>1, <1>2

LEMMA EndKeeps ==
    ASSUME TokenInv, ServerEnds
    PROVE  TokenInv'
  <1>1. /\ requests' \in Seq(Record)
        /\ DOMAIN requests' = DOMAIN requests
        /\ \A k \in DOMAIN requests : requests'[k].status # "waiting"
    BY DoneKeeps DEF ServerEnds
  <1>2. server' \in [up : BOOLEAN, run : Nat]
    BY DEF ServerEnds, TokenInv, Shaped
  <1>3. RestartRevokes'
    BY DEF ServerEnds, TokenInv, RestartRevokes
  <1> QED BY <1>1, <1>2, <1>3 DEF TokenInv, Shaped, WaitingCurrent

(***************************************************************************)
(* The steps of the server.                                                     *)
(***************************************************************************)

LEMMA ListenKeeps ==
    ASSUME TokenInv, Listen
    PROVE  TokenInv'
  BY DEF Listen, TokenInv, Shaped, WaitingCurrent, RestartRevokes

LEMMA TokensKnown == NoTokens \in [cookie : Nat, csrf : Nat]
  BY DEF NoTokens

LEMMA ArriveGetKeeps ==
    ASSUME TokenInv, ArriveGet
    PROVE  TokenInv'
  <1>1. /\ requests' = Append(requests, Request("page", NoTokens, "handled"))
        /\ UNCHANGED server
        /\ Asked("server", "GET", NoTokens)
    BY DEF ArriveGet, Arrives, Handled
  <1>2. /\ Request("page", NoTokens, "handled") \in Record
        /\ Request("page", NoTokens, "handled").status = "handled"
    BY RequestRecord, TokensKnown
  <1>3. Shaped' /\ WaitingCurrent'
    BY <1>1, <1>2, ArrivalKeeps
  <1>4. RestartRevokes'
    BY <1>1, AskedKeeps
  <1> QED BY <1>3, <1>4 DEF TokenInv

LEMMA ArriveWrongMethodKeeps ==
    ASSUME TokenInv, ArriveWrongMethod
    PROVE  TokenInv'
  <1>1. /\ requests' = Append(requests, Request("page", NoTokens, "405"))
        /\ UNCHANGED <<server, asked>>
    BY DEF ArriveWrongMethod, Arrives
  <1>2. /\ Request("page", NoTokens, "405") \in Record
        /\ Request("page", NoTokens, "405").status = "405"
    BY RequestRecord, TokensKnown
  <1>3. Shaped' /\ WaitingCurrent'
    BY <1>1, <1>2, ArrivalKeeps
  <1> QED BY <1>1, <1>3 DEF TokenInv, RestartRevokes

LEMMA ArrivePostKeeps ==
    ASSUME TokenInv, ArrivePost
    PROVE  TokenInv'
  <1>1. server.up /\ UNCHANGED <<server, asked>> /\ server.run \in Nat
    BY DEF ArrivePost, Arrives, TokenInv, Shaped
  <1>2. PICK path \in ProtectedPaths, origin \in BOOLEAN,
             q \in [cookie : 0 .. server.run, csrf : 0 .. server.run] :
          requests' = Append(requests, Request(path, q, EnvelopeStatus(origin, q)))
    BY DEF ArrivePost
  <1>3. q \in [cookie : Nat, csrf : Nat]
    BY <1>1
  <1>4. /\ EnvelopeStatus(origin, q) \in {"403", "401", "waiting"}
        /\ EnvelopeStatus(origin, q) = "waiting" => q.cookie = server.run
    BY DEF EnvelopeStatus
  <1>5. PICK status : status = EnvelopeStatus(origin, q)
    OBVIOUS
  <1>6. /\ Request(path, q, status) \in Record
        /\ Request(path, q, status).status = status
        /\ Request(path, q, status).cookie = q.cookie
    <2>1. path \in {"page"} \cup ProtectedPaths
      OBVIOUS
    <2>2. status \in {"handled", "405", "403", "401", "waiting"}
      BY <1>4, <1>5
    <2> QED BY <1>3, <2>1, <2>2, RequestRecord, ZenonT(40)
  <1>7. Shaped' /\ WaitingCurrent'
    BY <1>1, <1>2, <1>4, <1>5, <1>6, ArrivalKeeps
  <1> QED BY <1>1, <1>7 DEF TokenInv, RestartRevokes

LEMMA ReadBodyKeeps ==
    ASSUME TokenInv, ReadBody
    PROVE  TokenInv'
  <1>1. PICK k \in DOMAIN requests :
          /\ requests[k].status = "waiting"
          /\ \/ Answers(k, "403") /\ UNCHANGED asked
             \/ Answers(k, "405") /\ UNCHANGED asked
             \/ /\ CsrfReady(requests[k]) /\ Answers(k, "handled")
                /\ Asked("server", "POST", requests[k])
    BY DEF ReadBody, NotHandled, Handled
  <1>2. UNCHANGED server
    BY DEF ReadBody
  <1>3. Shaped' /\ WaitingCurrent'
    BY <1>1, <1>2, AnswerKeeps
  <1>4. RestartRevokes'
    <2>1. CASE UNCHANGED asked
      BY <2>1 DEF TokenInv, RestartRevokes
    <2>2. CASE CsrfReady(requests[k]) /\ Asked("server", "POST", requests[k])
      <3>1. requests[k].cookie = server.run /\ requests[k].csrf = server.run
        BY <1>1, <2>2 DEF TokenInv, WaitingCurrent, CsrfReady
      <3> QED BY <2>2, <3>1, AskedKeeps
    <2> QED BY <1>1, <2>1, <2>2
  <1> QED BY <1>3, <1>4 DEF TokenInv

LEMMA RespondKeeps ==
    ASSUME TokenInv, Respond
    PROVE  TokenInv'
  <1>1. /\ requests' = [k \in DOMAIN requests |->
              IF requests[k].status \in {"handled"}
              THEN [requests[k] EXCEPT !.status = "answered"] ELSE requests[k]]
        /\ UNCHANGED <<server, asked>>
    BY DEF Respond
  <1>2. Shaped' /\ WaitingCurrent'
    BY <1>1, DoneKeeps DEF TokenInv, Shaped, WaitingCurrent
  <1> QED BY <1>1, <1>2 DEF TokenInv, RestartRevokes

\* A change the server makes for a POST was asked for with the cookie and the token
\* of the run that makes it (verifyMutationRequestEnvelope, verifyMutationCsrf):
\* over any number of restarts, and however long a request waits for its body.
THEOREM RestartRevokesHolds ==
    ASSUME NEW CONSTANT root, NEW CONSTANT calls
    PROVE  ServedSpec(root, calls) => []RestartRevokes
  <1>1. TokenInv /\ [ServedNext]_allVars => TokenInv'
    <2> SUFFICES ASSUME TokenInv, [ServedNext]_allVars PROVE TokenInv'
      OBVIOUS
    <2>1. CASE UNCHANGED allVars
      BY <2>1, TokenInvKept DEF allVars
    <2>2. CASE WorkNext /\ UNCHANGED servedVars
      BY <2>2, TokenInvKept
    <2>3. CASE \E a \in Callers : HandleGatewayRequest(a) \/ RunCommandLine(a)
      <3>1. UNCHANGED <<server, requests>> /\ \E via \in {"gateway", "cli"} :
               \E method, q : Asked(via, method, q)
        BY <2>3 DEF HandleGatewayRequest, RunCommandLine
      <3>2. RestartRevokes'
        BY <3>1, AskedKeeps
      <3> QED BY <3>1, <3>2 DEF TokenInv, Shaped, WaitingCurrent
    <2>4. CASE StartServer
      BY <2>4, TokenInvKept DEF StartServer
    <2>5. CASE Listen \/ ArriveGet \/ ArriveWrongMethod \/ ArrivePost
      BY <2>5, ListenKeeps, ArriveGetKeeps, ArriveWrongMethodKeeps, ArrivePostKeeps
    <2>6. CASE ReadBody \/ Respond
      BY <2>6, ReadBodyKeeps, RespondKeeps
    <2>7. CASE HandlerThrew \/ BodyFails
      BY <2>7, EndKeeps DEF HandlerThrew, BodyFails
    <2>8. CASE StopServer
      <3>1. ServerEnds \/ UNCHANGED servedVars
        BY <2>8 DEF StopServer
      <3> QED BY <3>1, EndKeeps, TokenInvKept
    <2> QED BY <2>1, <2>2, <2>3, <2>4, <2>5, <2>6, <2>7, <2>8 DEF ServedNext
  <1>2. ServedInit(root, calls) => TokenInv
    BY TokenInvInit
  <1>3. TokenInv => RestartRevokes
    BY DEF TokenInv
  <1> QED BY <1>1, <1>2, <1>3, PTL DEF ServedSpec

(***************************************************************************)
(* The files of the root.  The invariant is ServedInv of ServedPlans: each call *)
(* is on its plan, and has done what its next step needs; what a line names is *)
(* there; the files keep what was written, or a write that had not seen it came *)
(* after.                                                                   *)
(***************************************************************************)

-----------------------------------------------------------------------------
(* Lists. *)

LEMMA JoinedEmpty ==
    ASSUME NEW t, IsList(t)
    PROVE  <<>> \o t = t
  BY ConcatEmptySeq DEF IsList

LEMMA JoinedNone ==
    ASSUME NEW s, NEW t, IsList(s), IsList(t), s \o t = <<>>
    PROVE  s = <<>> /\ t = <<>>
  <1>1. Len(s) + Len(t) = 0 /\ Len(s) \in Nat /\ Len(t) \in Nat
    BY Joined, Empty
  <1> QED BY <1>1, EmptySeq DEF IsList

\* A step that follows the same step elsewhere.
LEMMA LedSame ==
    ASSUME NEW s, NEW i, Led(s, i), NEW r, NEW j, r[j] = s[i],
           i - 1 \in DOMAIN s => j - 1 \in DOMAIN r /\ r[j - 1] = s[i - 1]
    PROVE  Led(r, j)
  BY DEF Led

\* What is left of a plan after its first step, with steps put in between.
LEMMA RestPlanned ==
    ASSUME NEW s, NEW P, Planned(s, P), NEW t, NEW P2, P \subseteq P2,
           Gives(s[1]) \cap Tags \subseteq P2,
           IsList(t), \A i \in DOMAIN t : WellFormed(t[i]), Prompt(t),
           \A i \in DOMAIN t \ {1} : Led(t, i), RollsBack(t), Good(t, P2),
           t # <<>> => ~Runs(s[1]) /\ s[1].do # "collectCells",
           \A x : Needs(x) \subseteq Tags,
           NEW r, r = t \o Tail(s), r # <<>>
    PROVE  Planned(r, P2)
  <1> DEFINE u == Tail(s)
             n == Len(t)
  <1>1. /\ IsList(u) /\ Len(s) \in Nat \ {0} /\ DOMAIN u = 1 .. Len(s) - 1
        /\ DOMAIN s = 1 .. Len(s)
        /\ \A i \in DOMAIN u : i + 1 \in DOMAIN s /\ u[i] = s[i + 1]
    BY Shortened DEF Planned
  <1>2. n \in Nat /\ DOMAIN t = 1 .. n
    BY ListIs
  <1>3. Len(u) = Len(s) - 1
    BY Shortened DEF Planned
  <1>4. /\ IsList(r) /\ DOMAIN r = 1 .. n + Len(u)
        /\ \A i \in DOMAIN t : r[i] = t[i]
        /\ \A i \in DOMAIN u : r[n + i] = u[i]
        /\ \A i \in DOMAIN r : i \in DOMAIN t \/ (i - n \in DOMAIN u /\ r[i] = u[i - n])
    BY <1>1, Joined
  <1>5. \A i \in DOMAIN s : i # 1 => i - 1 \in DOMAIN u /\ n + (i - 1) \in DOMAIN r /\ r[n + (i - 1)] = s[i]
    <2>1. ASSUME NEW i \in DOMAIN s, i # 1
          PROVE  i - 1 \in DOMAIN u /\ n + (i - 1) \in DOMAIN r /\ r[n + (i - 1)] = s[i]
      <3>1. i - 1 \in DOMAIN u /\ i - 1 + 1 = i
        BY <1>1, <2>1
      <3>2. u[i - 1] = s[i]
        BY <1>1, <3>1
      <3>3. n + (i - 1) \in DOMAIN r
        BY <1>1, <1>2, <1>3, <1>4, <3>1
      <3> QED BY <1>4, <3>1, <3>2, <3>3
    <2> QED BY <2>1
  <1>6. \A i \in DOMAIN t : i \in DOMAIN r
    BY <1>2, <1>3, <1>4, <1>1
  <1> HIDE DEF u, n
  <1>7. ASSUME NEW i \in DOMAIN r PROVE WellFormed(r[i])
    <2>1. CASE i \in DOMAIN t
      BY <1>4, <2>1
    <2>2. CASE i - n \in DOMAIN u /\ r[i] = u[i - n]
      BY <1>1, <2>2 DEF Planned
    <2> QED BY <1>4, <2>1, <2>2
  <1>8. ASSUME NEW i \in DOMAIN r, Owes(r[i]) # {}
        PROVE  i + 1 \in DOMAIN r /\ Owes(r[i]) \cap Gives(r[i + 1]) # {}
    <2>1. CASE i \in DOMAIN t
      <3>1. i + 1 \in DOMAIN t /\ Owes(t[i]) \cap Gives(t[i + 1]) # {}
        BY <1>4, <1>8, <2>1 DEF Prompt
      <3> QED BY <1>4, <1>6, <2>1, <3>1
    <2>2. CASE i - n \in DOMAIN u /\ r[i] = u[i - n]
      <3>1. i - n + 1 \in DOMAIN s /\ r[i] = s[i - n + 1]
        BY <1>1, <2>2
      <3>2. i - n + 1 + 1 \in DOMAIN s /\ Owes(r[i]) \cap Gives(s[i - n + 1 + 1]) # {}
        BY <1>8, <3>1 DEF Planned, Prompt
      <3>3. PICK j : j = i - n + 1 + 1
        OBVIOUS
      <3>4. j # 1 /\ n + (j - 1) = i + 1
        BY <1>1, <1>2, <1>4, <2>2, <3>3
      <3>5. j \in DOMAIN s /\ Owes(r[i]) \cap Gives(s[j]) # {}
        BY <3>2, <3>3
      <3>6. n + (j - 1) \in DOMAIN r /\ r[n + (j - 1)] = s[j]
        BY <1>5, <3>4, <3>5
      <3> QED BY <3>4, <3>5, <3>6
    <2> QED BY <1>4, <2>1, <2>2
  <1>9. ASSUME NEW i \in DOMAIN r, i # 1 PROVE Led(r, i)
    <2>1. CASE i \in DOMAIN t
      <3>1. Led(t, i) /\ r[i] = t[i]
        BY <1>4, <1>9, <2>1
      <3>2. i - 1 \in DOMAIN t /\ i - 1 \in DOMAIN r /\ r[i - 1] = t[i - 1]
        BY <1>2, <1>4, <1>6, <1>9, <2>1
      <3> QED BY <3>1, <3>2 DEF Led
    <2>2. CASE i - n \in DOMAIN u /\ r[i] = u[i - n]
      <3>1. i - n + 1 \in DOMAIN s /\ r[i] = s[i - n + 1] /\ i - n + 1 # 1 /\ i \in Int
            /\ i - n \in Int
        BY <1>1, <1>4, <2>2
      <3>2. PICK j : j = i - n + 1
        OBVIOUS
      <3>3. j \in DOMAIN s /\ r[i] = s[j] /\ j # 1 /\ j \in Int
        BY <3>1, <3>2
      <3>4. Led(s, j)
        BY <3>3 DEF Planned
      <3>5. CASE i - n = 1
        <4>1. t # <<>>
          BY <1>2, <1>9, <3>5, Empty DEF n
        <4>2. j - 1 = 1
          BY <3>2, <3>5
        <4>3. s[j].do \notin {"runCommand", "writeIndex"}
          BY <3>4, <4>1, <4>2 DEF Led
        <4> QED BY <3>3, <3>4, <4>3 DEF Led
      <3>6. CASE i - n # 1
        <4>1. i - n \in DOMAIN s /\ i - n # 1 /\ n + (i - n - 1) = i - 1 /\ j - 1 = i - n
          BY <1>1, <1>2, <2>2, <3>1, <3>2, <3>6
        <4>2. i - 1 \in DOMAIN r /\ r[i - 1] = s[j - 1]
          BY <1>5, <4>1
        <4> QED BY <3>3, <3>4, <4>2, LedSame
      <3> QED BY <3>5, <3>6
    <2> QED BY <1>4, <2>1, <2>2
  <1>10. ASSUME NEW i \in DOMAIN r, r[i].do = "appendCheckCell"
         PROVE  \E j \in DOMAIN r : j > i /\ TakesBack(r[j])
    <2>1. CASE i \in DOMAIN t
      <3>1. PICK j \in DOMAIN t : j > i /\ TakesBack(t[j])
        BY <1>4, <1>10, <2>1 DEF RollsBack
      <3> QED BY <1>4, <1>6, <3>1
    <2>2. CASE i - n \in DOMAIN u /\ r[i] = u[i - n]
      <3>1. i - n + 1 \in DOMAIN s /\ r[i] = s[i - n + 1]
        BY <1>1, <2>2
      <3>2. PICK j \in DOMAIN s : j > i - n + 1 /\ TakesBack(s[j])
        BY <1>10, <3>1 DEF Planned, RollsBack
      <3>3. j # 1 /\ n + (j - 1) > i
        BY <1>1, <1>2, <1>4, <2>2, <3>2
      <3>4. n + (j - 1) \in DOMAIN r /\ r[n + (j - 1)] = s[j]
        BY <1>5, <3>3
      <3> QED BY <3>2, <3>3, <3>4
    <2> QED BY <1>4, <2>1, <2>2
  <1>11. ASSUME NEW i \in DOMAIN r, NEW tag \in Needs(r[i])
         PROVE  tag \in P2 \/ \E j \in DOMAIN r : j < i /\ tag \in Gives(r[j])
    <2>1. CASE i \in DOMAIN t
      <3>1. tag \in P2 \/ \E j \in DOMAIN t : j < i /\ tag \in Gives(t[j])
        BY <1>4, <1>11, <2>1 DEF Good
      <3> QED BY <1>4, <1>6, <3>1
    <2>2. CASE i - n \in DOMAIN u /\ r[i] = u[i - n]
      <3>1. i - n + 1 \in DOMAIN s /\ r[i] = s[i - n + 1]
        BY <1>1, <2>2
      <3>2. tag \in P \/ \E j \in DOMAIN s : j < i - n + 1 /\ tag \in Gives(s[j])
        BY <1>11, <3>1 DEF Planned, Good
      <3>3. CASE \E j \in DOMAIN s : j < i - n + 1 /\ tag \in Gives(s[j])
        <4>1. PICK j \in DOMAIN s : j < i - n + 1 /\ tag \in Gives(s[j])
          BY <3>3
        <4>2. CASE j = 1
          BY <1>11, <4>1, <4>2
        <4>3. CASE j # 1
          <5>1. n + (j - 1) \in DOMAIN r /\ r[n + (j - 1)] = s[j]
            BY <1>5, <4>3
          <5>2. n + (j - 1) < i
            BY <1>1, <1>2, <1>4, <2>2, <4>1
          <5> QED BY <4>1, <5>1, <5>2
        <4> QED BY <4>2, <4>3
      <3> QED BY <3>2, <3>3
    <2> QED BY <1>4, <2>1, <2>2
  <1> QED BY <1>4, <1>7, <1>8, <1>9, <1>10, <1>11 DEF Planned, Prompt, RollsBack, Good

LEMMA NeedsTags == \A x : Needs(x) \subseteq Tags
  <1>1. \A f, k : LineNeeds(f, k) \subseteq Tags
    BY DEF LineNeeds, Tags, TurnTold, Applied
  <1>2. ASSUME NEW x PROVE Needs(x) \subseteq Tags
    <2>1. Reviewed \cup Approved \subseteq Tags
      BY DEF Tags, Applied
    <2>2. Did("writeWiki") \in Tags
      BY <2>1 DEF Reviewed
    <2>3. /\ Did("readBase") \in Tags /\ Did("readWiki") \in Tags
          /\ Did("readSessions") \in Tags /\ Did("readApplied") \in Tags
          /\ Did("collectEntries") \in Tags /\ Did("collectCells") \in Tags
          /\ <<"osTurns", "any">> \in Tags
          /\ <<"check", "approval">> \in Tags /\ <<"check", "audit">> \in Tags
      BY DEF Tags, Looks
    <2> HIDE DEF Did
    <2> QED BY <1>1, <2>1, <2>2, <2>3 DEF Needs
  <1> QED BY <1>2

-----------------------------------------------------------------------------
(* How the processes move. *)

\* Only this process moves.
Others(a) == DOMAIN doing' = Actors /\ \A b \in Actors : b # a => doing'[b] = doing[b]
Does(a, name) == a \in Busy /\ Head(doing[a].todo).do = name

\* The process goes on with its call, or is done with it.
Went(a, rec, between) ==
    /\ a \in Busy /\ Others(a) /\ UNCHANGED past /\ IsList(between)
    /\ \/ doing'[a] = Rest /\ between = <<>> /\ Tail(doing[a].todo) = <<>>
       \/ /\ doing'[a] # Rest
          /\ DOMAIN doing'[a] = DOMAIN rec \cup DOMAIN doing[a]
          /\ doing'[a].call = doing[a].call
          /\ doing'[a].todo = between \o Tail(doing[a].todo)
          /\ doing'[a].todo # <<>>
          /\ \A field \in DOMAIN rec : doing'[a][field] = rec[field]
          /\ \A field \in DOMAIN doing[a] \ DOMAIN rec :
                field # "todo" => doing'[a][field] = doing[a][field]

LEMMA GoesWent ==
    ASSUME NEW a \in Busy, OnPlan(a), Calls, NEW rec, NEW between, IsList(between),
           Goes(a, rec, between), UNCHANGED past,
           DOMAIN rec \cap {"op", "call", "todo"} = {}
    PROVE  Went(a, rec, between)
  <1> DEFINE rest == between \o Tail(doing[a].todo)
             next == Merge(rec, [doing[a] EXCEPT !.todo = rest])
  <1>1. a \in Actors /\ DOMAIN doing = Actors /\ {"op", "call", "todo"} \subseteq DOMAIN doing[a]
    BY DEF Busy, Calls, OnPlan
  <1>2. doing' = [doing EXCEPT ![a] = IF rest = <<>> THEN Rest ELSE next]
    BY DEF Goes
  <1> HIDE DEF next
  <1>3. Others(a) /\ doing'[a] = IF rest = <<>> THEN Rest ELSE next
    BY <1>1, <1>2 DEF Others
  <1>4. IsList(Tail(doing[a].todo))
    BY Shortened DEF OnPlan, Planned
  <1>5. CASE rest = <<>>
    <2>1. between = <<>> /\ Tail(doing[a].todo) = <<>>
      BY <1>4, <1>5, JoinedNone
    <2> QED BY <1>3, <1>5, <2>1 DEF Went
  <1>6. CASE rest # <<>>
    <2> DEFINE old == [doing[a] EXCEPT !.todo = rest]
    <2>1. DOMAIN old = DOMAIN doing[a]
          /\ old.todo = rest /\ \A field \in DOMAIN doing[a] : field # "todo" =>
                old[field] = doing[a][field]
      BY <1>1
    <2> HIDE DEF old, rest
    <2>2. next = [field \in DOMAIN rec \cup DOMAIN old |->
                    IF field \in DOMAIN rec THEN rec[field] ELSE old[field]]
      BY DEF next, Merge, old, rest
    <2>3. DOMAIN next = DOMAIN rec \cup DOMAIN old
          /\ (\A field \in DOMAIN rec : next[field] = rec[field])
          /\ \A field \in DOMAIN old \ DOMAIN rec : next[field] = old[field]
      BY <2>2
    <2>4. "todo" \in DOMAIN old \ DOMAIN rec /\ "call" \in DOMAIN old \ DOMAIN rec
      BY <1>1, <2>1
    <2>5. next.todo = rest /\ next.call = doing[a].call
      BY <1>1, <2>1, <2>3, <2>4
    <2>6. next # Rest
      <3>1. DOMAIN Rest = {"op"}
        BY DEF Rest
      <3>2. "todo" \in DOMAIN next
        BY <2>3, <2>4
      <3> QED BY <3>1, <3>2
    <2>7. \A field \in DOMAIN doing[a] \ DOMAIN rec :
              field # "todo" => next[field] = doing[a][field]
      BY <2>1, <2>3
    <2>8. doing'[a] = next
      BY <1>3, <1>6
    <2> QED BY <1>3, <1>6, <2>1, <2>3, <2>5, <2>6, <2>7, <2>8 DEF Went, rest
  <1> QED BY <1>5, <1>6

Readers == {"readBase", "readRest", "readCandidates", "readWiki", "readSessions",
            "readApplied", "readIndex"}

\* The process leaves its call, cut short or unable to read.
Quit(a) ==
    /\ a \in Busy /\ Others(a) /\ doing'[a] = Rest
    /\ past'.calls = past.calls
    /\ past.cut \subseteq past'.cut /\ past.threw \subseteq past'.threw
    /\ {"calls", "cut", "threw"} \subseteq DOMAIN past'
    /\ \/ doing[a].call \in past'.cut
       \/ doing[a].call \in past'.threw /\ Head(doing[a].todo).do \in Readers

LEMMA ThrowsQuit ==
    ASSUME NEW a \in Busy, Calls, Shapes, Throws(a), Head(doing[a].todo).do \in Readers
    PROVE  Quit(a)
  BY DEF Throws, Leaves, Quit, Others, Calls, Shapes, Busy

LEMMA CutQuit ==
    ASSUME NEW a \in Busy, Calls, Shapes, Leaves(a),
           past' = [past EXCEPT !.cut = @ \cup {doing[a].call}]
    PROVE  Quit(a)
  BY DEF Leaves, Quit, Others, Calls, Shapes, Busy

\* The process starts a call of the list.
Begun(a, todo) ==
    /\ Call(todo) /\ todo # <<>>
    /\ a \in Actors /\ doing[a] = Rest /\ Others(a) /\ doing'[a] # Rest
    /\ DOMAIN doing'[a] = {"op", "call", "todo"}
    /\ doing'[a].call = past.calls + 1 /\ doing'[a].todo = todo
    /\ past'.calls = past.calls + 1 /\ past'.cut = past.cut /\ past'.threw = past.threw
    /\ {"calls", "cut", "threw"} \subseteq DOMAIN past'

LEMMA StartsBegun ==
    ASSUME NEW a \in Actors, Calls, Shapes, NEW op, NEW todo, Call(todo), todo # <<>>,
           Starts(a, op, <<>>, todo)
    PROVE  Begun(a, todo)
  <1> DEFINE old == [op |-> op, call |-> past.calls + 1, todo |-> todo]
             next == Merge(<<>>, old)
  <1>1. doing[a] = Rest /\ past' = [past EXCEPT !.calls = @ + 1]
        /\ doing' = [doing EXCEPT ![a] = next]
    BY DEF Starts
  <1>2. DOMAIN next = {"op", "call", "todo"} /\ next.call = past.calls + 1 /\ next.todo = todo
    <2>1. DOMAIN <<>> = {}
      OBVIOUS
    <2>2. DOMAIN old = {"op", "call", "todo"} /\ old.call = past.calls + 1 /\ old.todo = todo
      OBVIOUS
    <2> HIDE DEF old
    <2>3. next = [field \in {} \cup DOMAIN old |->
                    IF field \in {} THEN <<>>[field] ELSE old[field]]
      BY <2>1 DEF Merge
    <2> QED BY <2>2, <2>3
  <1> HIDE DEF next
  <1>3. next # Rest
    <2>1. DOMAIN Rest = {"op"}
      BY DEF Rest
    <2> QED BY <1>2, <2>1
  <1> QED BY <1>1, <1>2, <1>3 DEF Begun, Others, Calls, Shapes

-----------------------------------------------------------------------------
(* What was done, by the places of the lines and the writes. *)

LEMMA CallsIs ==
    ASSUME NEW f, NEW k, NEW c
    PROVE  /\ c \in CallsThat(f, k) <=>
                 \E i \in DOMAIN writes[f] : writes[f][i].kind = k /\ writes[f][i].call = c
           /\ c \in CallsThat(f, k)' <=>
                 \E i \in DOMAIN writes'[f] : writes'[f][i].kind = k /\ writes'[f][i].call = c
           /\ c \in LinesOf(f, k) <=>
                 \E i \in DOMAIN lines[f] : lines[f][i].kind = k /\ lines[f][i].call = c
           /\ c \in LinesOf(f, k)' <=>
                 \E i \in DOMAIN lines'[f] : lines'[f][i].kind = k /\ lines'[f][i].call = c
           /\ c \in {l.call : l \in ToSet(lines[f])} <=>
                 \E i \in DOMAIN lines[f] : lines[f][i].call = c
           /\ c \in {l.call : l \in ToSet(lines'[f])} <=>
                 \E i \in DOMAIN lines'[f] : lines'[f][i].call = c
  <1>1. c \in CallsThat(f, k) <=>
                 \E i \in DOMAIN writes[f] : writes[f][i].kind = k /\ writes[f][i].call = c
    BY DEF CallsThat, ToSet
  <1>2. c \in CallsThat(f, k)' <=>
                 \E i \in DOMAIN writes'[f] : writes'[f][i].kind = k /\ writes'[f][i].call = c
    BY DEF CallsThat, ToSet
  <1>3. c \in LinesOf(f, k) <=>
                 \E i \in DOMAIN lines[f] : lines[f][i].kind = k /\ lines[f][i].call = c
    BY DEF LinesOf, ToSet
  <1>4. c \in LinesOf(f, k)' <=>
                 \E i \in DOMAIN lines'[f] : lines'[f][i].kind = k /\ lines'[f][i].call = c
    BY DEF LinesOf, ToSet
  <1>5. c \in {l.call : l \in ToSet(lines[f])} <=>
                 \E i \in DOMAIN lines[f] : lines[f][i].call = c
    BY DEF ToSet
  <1>6. c \in {l.call : l \in ToSet(lines'[f])} <=>
                 \E i \in DOMAIN lines'[f] : lines'[f][i].call = c
    BY DEF ToSet
  <1> QED BY <1>1, <1>2, <1>3, <1>4, <1>5, <1>6

LEMMA NotFiles == "did" \notin LineFiles /\ "check" \notin LineFiles
  BY DEF LineFiles

LEMMA HasCallIs ==
    ASSUME NEW c
    PROVE  /\ HasCall(c, Did("writeState")) <=> c \in CallsThat("state", "turn")
           /\ HasCall(c, Did("writeWiki")) <=> c \in CallsThat("wiki", "entry")
           /\ HasCall(c, Did("appendCandidate")) <=> c \in CallsThat("candidates", "cell")
           /\ HasCall(c, <<"check", "approval">>) <=> CheckId \in LinesOf("approvals", "approval")
           /\ HasCall(c, <<"check", "audit">>) <=> CheckId \in LinesOf("audits", "audit")
           /\ \A f \in LineFiles :
                 /\ HasCall(c, <<f, "any">>) <=> \E i \in DOMAIN lines[f] : lines[f][i].call = c
                 /\ \A k : k # "any" => (HasCall(c, <<f, k>>) <=> c \in LinesOf(f, k))
  <1>1. /\ HasCall(c, Did("writeState")) <=> c \in CallsThat("state", "turn")
        /\ HasCall(c, Did("writeWiki")) <=> c \in CallsThat("wiki", "entry")
        /\ HasCall(c, Did("appendCandidate")) <=> c \in CallsThat("candidates", "cell")
    BY NotFiles DEF HasCall, Did
  <1>2. /\ HasCall(c, <<"check", "approval">>) <=> CheckId \in LinesOf("approvals", "approval")
        /\ HasCall(c, <<"check", "audit">>) <=> CheckId \in LinesOf("audits", "audit")
    BY NotFiles DEF HasCall, Did
  <1>3. ASSUME NEW f \in LineFiles
        PROVE  HasCall(c, <<f, "any">>) <=> c \in {l.call : l \in ToSet(lines[f])}
    <2>1. PICK tag : tag = <<f, "any">>
      OBVIOUS
    <2>2. /\ tag \notin {Did("writeState"), Did("writeWiki"), Did("appendCandidate"),
                        <<"check", "approval">>, <<"check", "audit">>}
          /\ tag[1] = f /\ tag[2] = "any"
      BY <2>1, NotFiles DEF Did
    <2>3. HasCall(c, tag) <=> c \in {l.call : l \in ToSet(lines[f])}
      BY <2>2 DEF HasCall
    <2> QED BY <2>1, <2>3
  <1>4. ASSUME NEW f \in LineFiles, NEW k, k # "any"
        PROVE  HasCall(c, <<f, k>>) <=> c \in LinesOf(f, k)
    <2>1. PICK tag : tag = <<f, k>>
      OBVIOUS
    <2>2. /\ tag \notin {Did("writeState"), Did("writeWiki"), Did("appendCandidate"),
                        <<"check", "approval">>, <<"check", "audit">>}
          /\ tag[1] = f /\ tag[2] = k
      BY <2>1, NotFiles DEF Did
    <2>3. HasCall(c, tag) <=> c \in LinesOf(f, k)
      BY <1>4, <2>2 DEF HasCall
    <2> QED BY <2>1, <2>3
  <1>5. ASSUME NEW f \in LineFiles
        PROVE  c \in {l.call : l \in ToSet(lines[f])} <=> \E i \in DOMAIN lines[f] : lines[f][i].call = c
    BY DEF ToSet
  <1> QED BY <1>1, <1>2, <1>3, <1>4, <1>5

\* What is on record after the step.
LEMMA HasCallNext ==
    ASSUME NEW c
    PROVE  /\ HasCall(c, Did("writeState"))' <=> c \in CallsThat("state", "turn")'
           /\ HasCall(c, Did("writeWiki"))' <=> c \in CallsThat("wiki", "entry")'
           /\ HasCall(c, Did("appendCandidate"))' <=> c \in CallsThat("candidates", "cell")'
           /\ HasCall(c, <<"check", "approval">>)' <=> CheckId \in LinesOf("approvals", "approval")'
           /\ HasCall(c, <<"check", "audit">>)' <=> CheckId \in LinesOf("audits", "audit")'
           /\ \A f \in LineFiles :
                 /\ HasCall(c, <<f, "any">>)' <=> \E i \in DOMAIN lines'[f] : lines'[f][i].call = c
                 /\ \A k : k # "any" => (HasCall(c, <<f, k>>)' <=> c \in LinesOf(f, k)')
  <1>1. /\ HasCall(c, Did("writeState"))' <=> c \in CallsThat("state", "turn")'
        /\ HasCall(c, Did("writeWiki"))' <=> c \in CallsThat("wiki", "entry")'
        /\ HasCall(c, Did("appendCandidate"))' <=> c \in CallsThat("candidates", "cell")'
    BY NotFiles DEF HasCall, Did
  <1>2. /\ HasCall(c, <<"check", "approval">>)' <=> CheckId \in LinesOf("approvals", "approval")'
        /\ HasCall(c, <<"check", "audit">>)' <=> CheckId \in LinesOf("audits", "audit")'
    BY NotFiles DEF HasCall, Did
  <1>3. ASSUME NEW f \in LineFiles
        PROVE  HasCall(c, <<f, "any">>)' <=> c \in {l.call : l \in ToSet(lines'[f])}
    <2>1. PICK tag : tag = <<f, "any">>
      OBVIOUS
    <2>2. /\ tag \notin {Did("writeState"), Did("writeWiki"), Did("appendCandidate"),
                        <<"check", "approval">>, <<"check", "audit">>}
          /\ tag[1] = f /\ tag[2] = "any"
      BY <2>1, NotFiles DEF Did
    <2>3. HasCall(c, tag)' <=> c \in {l.call : l \in ToSet(lines'[f])}
      BY <2>2 DEF HasCall
    <2> QED BY <2>1, <2>3
  <1>4. ASSUME NEW f \in LineFiles, NEW k, k # "any"
        PROVE  HasCall(c, <<f, k>>)' <=> c \in LinesOf(f, k)'
    <2>1. PICK tag : tag = <<f, k>>
      OBVIOUS
    <2>2. /\ tag \notin {Did("writeState"), Did("writeWiki"), Did("appendCandidate"),
                        <<"check", "approval">>, <<"check", "audit">>}
          /\ tag[1] = f /\ tag[2] = k
      BY <2>1, NotFiles DEF Did
    <2>3. HasCall(c, tag)' <=> c \in LinesOf(f, k)'
      BY <1>4, <2>2 DEF HasCall
    <2> QED BY <2>1, <2>3
  <1>5. ASSUME NEW f \in LineFiles
        PROVE  c \in {l.call : l \in ToSet(lines'[f])} <=> \E i \in DOMAIN lines'[f] : lines'[f][i].call = c
    BY DEF ToSet
  <1> QED BY <1>1, <1>2, <1>3, <1>4, <1>5

\* The lines and writes of the files are still there after the step.
Longer(old, new) ==
    /\ IsList(new) /\ Len(old) \in Nat /\ Len(old) <= Len(new)
    /\ \A i \in DOMAIN old : i \in DOMAIN new /\ new[i] = old[i]
Grown ==
    /\ \A f \in LineFiles : Longer(lines[f], lines'[f])
    /\ \A f \in Rewritten : Longer(writes[f], writes'[f])

\* What was done stays done, since lines and writes are only added.
LEMMA KeepsCall ==
    ASSUME Grown, NEW c, NEW tag, HasCall(c, tag)
    PROVE  HasCall(c, tag)'
  <1>1. ASSUME NEW f \in Rewritten, NEW k, NEW d \in CallsThat(f, k)
        PROVE  d \in CallsThat(f, k)'
    BY <1>1, CallsIs DEF Grown, Longer
  <1>2. ASSUME NEW f \in LineFiles, NEW k, NEW d \in LinesOf(f, k)
        PROVE  d \in LinesOf(f, k)'
    BY <1>2, CallsIs DEF Grown, Longer
  <1>3. ASSUME NEW f \in LineFiles, NEW i \in DOMAIN lines[f], lines[f][i].call = c
        PROVE  \E j \in DOMAIN lines'[f] : lines'[f][j].call = c
    BY <1>3 DEF Grown, Longer
  <1>4. {"state", "wiki", "candidates"} \subseteq Rewritten /\ {"approvals", "audits"} \subseteq LineFiles
    BY DEF Rewritten, LineFiles
  <1>5. CASE tag = Did("writeState")
    BY <1>1, <1>4, <1>5, HasCallIs, HasCallNext
  <1>6. CASE tag = Did("writeWiki")
    BY <1>1, <1>4, <1>6, HasCallIs, HasCallNext
  <1>7. CASE tag = Did("appendCandidate")
    BY <1>1, <1>4, <1>7, HasCallIs, HasCallNext
  <1>8. CASE tag = <<"check", "approval">>
    BY <1>2, <1>4, <1>8, HasCallIs, HasCallNext
  <1>9. CASE tag = <<"check", "audit">>
    BY <1>2, <1>4, <1>9, HasCallIs, HasCallNext
  <1>10. CASE tag \notin {Did("writeState"), Did("writeWiki"), Did("appendCandidate"),
                          <<"check", "approval">>, <<"check", "audit">>}
    <2>1. tag[1] \in LineFiles
      BY <1>10 DEF HasCall
    <2>2. CASE tag[2] = "any"
      <3>1. c \in {l.call : l \in ToSet(lines[tag[1]])}
        BY <1>10, <2>1, <2>2 DEF HasCall
      <3>2. c \in {l.call : l \in ToSet(lines'[tag[1]])}
        BY <1>3, <2>1, <3>1, CallsIs
      <3> QED BY <1>10, <2>1, <2>2, <3>2 DEF HasCall
    <2>3. CASE tag[2] # "any"
      <3>1. c \in LinesOf(tag[1], tag[2])
        BY <1>10, <2>1, <2>3 DEF HasCall
      <3>2. c \in LinesOf(tag[1], tag[2])'
        BY <1>2, <2>1, <3>1
      <3> QED BY <1>10, <2>1, <2>3, <3>2 DEF HasCall
    <2> QED BY <2>2, <2>3
  <1> QED BY <1>5, <1>6, <1>7, <1>8, <1>9, <1>10

-----------------------------------------------------------------------------
(* The kinds of steps. *)

\* What the invariant says of the files, left alone.
RuntimeKept == "turns" \in DOMAIN runtime' /\ runtime'.turns = runtime.turns
EntriesKept == "entries" \in DOMAIN wiki' /\ wiki'.entries = wiki.entries
OpenKept == "open" \in DOMAIN sessions' /\ sessions'.open = sessions.open
IndexKept ==
    /\ {"entries", "cells", "open"} \subseteq DOMAIN search'
    /\ search'.entries = search.entries /\ search'.cells = search.cells
    /\ search'.open = search.open
TextsKept == RuntimeKept /\ EntriesKept /\ OpenKept /\ IndexKept
FilesKept == TextsKept /\ UNCHANGED <<candidates, lines, writes, welcome>>

\* Steps that change none of the files the invariant is about.
Walked == {"checkState", "readRest", "checkWiki", "checkCandidates", "readCandidates",
           "readIndex", "listen", "respond", "perform"}
\* The call goes on, perhaps with more steps, and no file changes.
Walks(a) ==
    /\ a \in Busy /\ Head(doing[a].todo).do \in Walked
    /\ \E t : /\ Went(a, <<>>, t) /\ Takes(t, {}, {})
              /\ t = <<>> \/ Head(doing[a].todo).do # "respond"
\* The tool ran, and its end is to be shown next.
Ran(a) ==
    /\ Does(a, "runCommand")
    /\ \E outcome \in {"tool_complete", "tool_error"} :
          Went(a, <<>>, <<Add("progress", outcome)>>)

\* The call looks at a file, and keeps what it has seen.
Looked(a, name, rec, t) ==
    Does(a, name) /\ Went(a, rec, t) /\ DOMAIN rec = HeldFields(name)
LookedBase(a) ==
    \E rec : /\ Looked(a, "readBase", rec, <<>>)
             /\ rec.base = runtime.turns /\ rec.baseSeen = Len(writes["state"])
LookedWiki(a) ==
    \E rec, t : /\ Looked(a, "readWiki", rec, t) /\ Takes(t, {}, {})
                /\ rec.wiki = wiki.entries /\ rec.wikiSeen = Len(writes["wiki"])
LookedSessions(a) ==
    \E rec : /\ Looked(a, "readSessions", rec, <<>>)
             /\ rec.sessions = sessions.open /\ rec.sessionsSeen = Len(writes["sessions"])
\* What a rollback or a review does when it finds its candidate.
Rollbacks == {CheckLine("queue", "rollback"), Add("queue", "rollback")}
Rewriting(t) ==
    t = <<Step("writeKept")>> \/ \E y \in Rollbacks : t = <<Step("writeKept"), y>>
LookedApplied(a) ==
    \E rec, t :
        /\ Looked(a, "readApplied", rec, t)
        /\ \/ Head(doing[a].todo).cell \in candidates.cells /\ Rewriting(t)
           \/ Head(doing[a].todo).cell \notin candidates.cells /\ Takes(t, {}, {})
        /\ rec.kept = (IF Head(doing[a].todo).drops
                       THEN candidates.cells \ {Head(doing[a].todo).cell}
                       ELSE candidates.cells)
        /\ rec.keptSeen = Len(writes["candidates"])
LookedEntries(a) ==
    \E rec : /\ Looked(a, "collectEntries", rec, <<>>)
             /\ rec.entries \subseteq wiki.entries
LookedCells(a) ==
    \E rec : /\ Looked(a, "collectCells", rec, <<>>)
             /\ CallsOf(candidates.cells) \subseteq rec.cells /\ rec.open = Open

Looking(a) ==
    LookedBase(a) \/ LookedWiki(a) \/ LookedSessions(a) \/ LookedApplied(a)
    \/ LookedEntries(a) \/ LookedCells(a)

\* The writes, each with what its call had seen of the file.
WroteDefault(a) ==
    /\ Does(a, "writeDefault") /\ Wrote("state", a, 0, "default")
    /\ "turns" \in DOMAIN runtime' /\ runtime'.turns = 0
    /\ EntriesKept /\ OpenKept /\ UNCHANGED candidates
WroteState(a) ==
    /\ Does(a, "writeState") /\ Wrote("state", a, doing[a].baseSeen, "turn")
    /\ "turns" \in DOMAIN runtime' /\ runtime'.turns = doing[a].base + 1
    /\ EntriesKept /\ OpenKept /\ UNCHANGED candidates
WroteEmptyWiki(a) ==
    /\ Does(a, "writeEmptyWiki") /\ Wrote("wiki", a, 0, "empty")
    /\ "entries" \in DOMAIN wiki' /\ wiki'.entries = {}
    /\ RuntimeKept /\ OpenKept /\ UNCHANGED candidates
WroteWiki(a) ==
    /\ Does(a, "writeWiki") /\ Wrote("wiki", a, doing[a].wikiSeen, "entry")
    /\ "entries" \in DOMAIN wiki' /\ wiki'.entries = doing[a].wiki \cup {doing[a].call}
    /\ RuntimeKept /\ OpenKept /\ UNCHANGED candidates
WroteSessions(a) ==
    /\ Does(a, "writeSessions")
    /\ Wrote("sessions", a, doing[a].sessionsSeen, Head(doing[a].todo).kind)
    /\ "open" \in DOMAIN sessions'
    /\ sessions'.open = doing[a].sessions \cup {doing[a].call}
    /\ RuntimeKept /\ EntriesKept /\ UNCHANGED candidates
WroteEmptyCandidates(a) ==
    /\ Does(a, "writeEmptyCandidates") /\ Wrote("candidates", a, 0, "empty")
    /\ candidates'.cells = {}
    /\ RuntimeKept /\ EntriesKept /\ OpenKept
WroteCell(a) ==
    /\ Does(a, "appendCandidate")
    /\ Wrote("candidates", a, Len(writes["candidates"]),
             IF Head(doing[a].todo).applied THEN "applied" ELSE "cell")
    /\ candidates'.cells = candidates.cells \cup
          {[call |-> doing[a].call, applied |-> Head(doing[a].todo).applied]}
    /\ RuntimeKept /\ EntriesKept /\ OpenKept
WroteCheckCell(a) ==
    /\ Does(a, "appendCheckCell") /\ Wrote("candidates", a, Len(writes["candidates"]), "check")
    /\ candidates'.cells = candidates.cells \cup {CheckCell}
    /\ RuntimeKept /\ EntriesKept /\ OpenKept
WroteKept(a) ==
    /\ Does(a, "writeKept") /\ Wrote("candidates", a, doing[a].keptSeen, "kept")
    /\ candidates'.cells = doing[a].kept
    /\ RuntimeKept /\ EntriesKept /\ OpenKept

Writing(a) ==
    /\ Went(a, <<>>, <<>>) /\ UNCHANGED <<lines, welcome>> /\ IndexKept
    /\ WroteDefault(a) \/ WroteState(a) \/ WroteEmptyWiki(a) \/ WroteWiki(a)
       \/ WroteSessions(a) \/ WroteEmptyCandidates(a) \/ WroteCell(a)
       \/ WroteCheckCell(a) \/ WroteKept(a)

\* The process stopped in the rewrite of a rollback or a review.
CutsKept(a) ==
    /\ Quit(a) /\ doing[a].call \in past'.cut /\ Does(a, "writeKept")
    /\ Wrote("candidates", a, 0, "cut") /\ candidates'.cells \subseteq doing[a].kept
    /\ TextsKept /\ UNCHANGED <<lines, welcome>>

Appended(a) ==
    /\ Does(a, "append") /\ Went(a, <<>>, <<>>)
    /\ lines' = [lines EXCEPT ![Head(doing[a].todo).file] =
                   Append(@, Merge(Head(doing[a].todo).rec, [call |-> doing[a].call]))]
    /\ TextsKept /\ UNCHANGED <<candidates, writes, welcome>>
WroteIndex(a) ==
    /\ Does(a, "writeIndex") /\ Went(a, <<>>, <<>>)
    /\ {"entries", "cells", "open"} \subseteq DOMAIN search'
    /\ search'.entries = doing[a].entries /\ search'.cells = doing[a].cells
    /\ search'.open = doing[a].open
    /\ RuntimeKept /\ EntriesKept /\ OpenKept
    /\ UNCHANGED <<candidates, lines, writes, welcome>>
WroteWelcome(a) ==
    /\ Does(a, "writeWelcome") /\ Went(a, <<>>, <<>>)
    /\ welcome' = [welcome EXCEPT ![Head(doing[a].todo).file] =
                     [call |-> doing[a].call, with |-> Open,
                      approved |-> Head(doing[a].todo).answers]]
    /\ TextsKept /\ UNCHANGED <<candidates, lines, writes>>

\* Nothing the invariant is about changes.
Still == UNCHANGED <<doing, past>> /\ FilesKept
Quiet(a) == FilesKept /\ ((\E todo : Begun(a, todo)) \/ Quit(a) \/ Walks(a) \/ Ran(a))
\* Every way a process moves.
Moves(a) ==
    Quiet(a) \/ (FilesKept /\ Looking(a)) \/ Writing(a) \/ CutsKept(a)
    \/ Appended(a) \/ WroteIndex(a) \/ WroteWelcome(a)

-----------------------------------------------------------------------------
(* Every step is one of these. *)

LEMMA SameKept ==
    ASSUME Shapes, UNCHANGED <<runtime, wiki, candidates, lines, search, writes, sessions, welcome>>
    PROVE  FilesKept
  BY DEF FilesKept, TextsKept, RuntimeKept, EntriesKept, OpenKept, IndexKept, Shapes

LEMMA FileKept ==
    ASSUME Shapes
    PROVE  /\ UNCHANGED runtime => RuntimeKept
           /\ UNCHANGED wiki => EntriesKept
           /\ UNCHANGED sessions => OpenKept
           /\ UNCHANGED search => IndexKept
           /\ runtime' = Torn(runtime) => RuntimeKept
           /\ wiki' = Torn(wiki) => EntriesKept
           /\ sessions' = Torn(sessions) => OpenKept
           /\ search' = Torn(search) => IndexKept
  BY DEF RuntimeKept, EntriesKept, OpenKept, IndexKept, Shapes, Torn

\* A step of a process on its plan is one of these.
LEMMA StepIs == \A n : Step(n).do = n
  BY DEF Step

LEMMA GoesTakes ==
    ASSUME NEW a \in Busy, OnPlan(a), Calls, NEW t, Takes(t, {}, {}),
           Goes(a, <<>>, t), UNCHANGED past, Head(doing[a].todo).do \in Walked,
           t = <<>> \/ Head(doing[a].todo).do # "respond"
    PROVE  Walks(a)
  <1>1. IsList(t)
    BY DEF Takes, Steps, Tidy
  <1>2. DOMAIN <<>> = {}
    OBVIOUS
  <1>3. Went(a, <<>>, t)
    BY <1>1, <1>2, GoesWent
  <1> QED BY <1>3 DEF Walks

LEMMA CheckStateMoves ==
    ASSUME ServedInv, NEW a \in Actors, UNCHANGED workVars,
           CheckState(a) \/ CheckWiki(a) \/ CheckCandidates(a)
    PROVE  Moves(a)
  <1>1. a \in Busy /\ OnPlan(a) /\ Calls /\ Shapes
    BY DEF CheckState, CheckWiki, CheckCandidates, At, Busy, ServedInv
  <1>2. FilesKept
    BY <1>1, SameKept DEF CheckState, CheckWiki, CheckCandidates, workVars
  <1>3. Takes(<<>>, {}, {})
    BY TakesNone
  <1>4. CASE CheckState(a)
    <2> DEFINE t == <<Step("writeDefault"), Add("events", "initialized")>>
    <2>1. Takes(t, {}, {})
      <3>1. Takes(<<Step("writeDefault")>>, {}, {})
        BY TakesStep, TakesWeaker DEF Special
      <3>2. Takes(<<Add("events", "initialized")>>, {}, {})
        <4>1. Takes(<<Add("events", "initialized")>>, {}, {} \cup {<<"events", "initialized">>, <<"events", "any">>})
          BY TakesFreeKind DEF LineFiles
        <4> QED BY <4>1, TakesWeaker
      <3> QED BY <3>1, <3>2, TakesPair
    <2> HIDE DEF t
    <2>2. PICK u \in {t, <<>>} : Goes(a, <<>>, u) /\ UNCHANGED past
      BY <1>4 DEF CheckState, t
    <2>3. Head(doing[a].todo).do \in Walked /\ Head(doing[a].todo).do # "respond"
      BY <1>4 DEF CheckState, At, Walked
    <2> QED BY <1>1, <1>2, <1>3, <2>1, <2>2, <2>3, GoesTakes DEF Moves, Quiet
  <1>5. CASE CheckWiki(a)
    <2> DEFINE t == <<Step("writeEmptyWiki")>>
    <2>1. Takes(t, {}, {})
      BY TakesStep, TakesWeaker DEF Special
    <2> HIDE DEF t
    <2>2. PICK u \in {t, <<>>} : Goes(a, <<>>, u) /\ UNCHANGED past
      BY <1>5 DEF CheckWiki, t
    <2>3. Head(doing[a].todo).do \in Walked /\ Head(doing[a].todo).do # "respond"
      BY <1>5 DEF CheckWiki, At, Walked
    <2> QED BY <1>1, <1>2, <1>3, <2>1, <2>2, <2>3, GoesTakes DEF Moves, Quiet
  <1>6. CASE CheckCandidates(a)
    <2> DEFINE t == <<Step("writeEmptyCandidates")>>
    <2>1. Takes(t, {}, {})
      BY TakesStep, TakesWeaker DEF Special
    <2> HIDE DEF t
    <2>2. PICK u \in {t, <<>>} : Goes(a, <<>>, u) /\ UNCHANGED past
      BY <1>6 DEF CheckCandidates, t
    <2>3. Head(doing[a].todo).do \in Walked /\ Head(doing[a].todo).do # "respond"
      BY <1>6 DEF CheckCandidates, At, Walked
    <2> QED BY <1>1, <1>2, <1>3, <2>1, <2>2, <2>3, GoesTakes DEF Moves, Quiet
  <1> QED BY <1>4, <1>5, <1>6

-----------------------------------------------------------------------------
(* The looks, one by one. *)

LEMMA ReadsEither ==
    ASSUME NEW a \in Busy, Calls, Shapes, NEW file, NEW rec, NEW t,
           Reads(a, file, rec, t), Head(doing[a].todo).do \in Readers
    PROVE  Quit(a) \/ (Goes(a, rec, t) /\ UNCHANGED past)
  BY ThrowsQuit DEF Reads

\* The memory files are made if there are none: a list that needs nothing.
LEMMA InitializesAny ==
    ASSUME NEW t, t = InitializeMemoryWiki \/ t = <<>>
    PROVE  Takes(t, {}, {})
  BY InitializeTakes, TakesNone, TakesWeaker

LEMMA ReadMoves ==
    ASSUME ServedInv, NEW a \in Actors, UNCHANGED workVars,
           ReadRest(a) \/ ReadTCellCandidates(a) \/ ReadMemorySearchIndex(a)
    PROVE  Moves(a)
  <1>1. a \in Busy /\ OnPlan(a) /\ Calls /\ Shapes
    BY DEF ReadRest, ReadTCellCandidates, ReadMemorySearchIndex, At, Busy, ServedInv
  <1>2. FilesKept
    BY <1>1, SameKept DEF ReadRest, ReadTCellCandidates, ReadMemorySearchIndex, workVars
  <1>3. Takes(<<>>, {}, {}) /\ Takes(InitializeMemoryWiki, {}, {}) /\ Takes(BuildSteps, {}, {})
    BY TakesNone, InitializesAny, BuildTakes
  <1>4. Head(doing[a].todo).do \in Walked \cap Readers
    BY DEF ReadRest, ReadTCellCandidates, ReadMemorySearchIndex, At, Walked, Readers
  <1>5. \E file, u : Takes(u, {}, {}) /\ Reads(a, file, <<>>, u)
    <2>1. CASE ReadRest(a)
      BY <1>3, <2>1 DEF ReadRest
    <2>2. CASE ReadTCellCandidates(a)
      <3>1. PICK u : u = IF candidates.status = "missing" THEN InitializeMemoryWiki ELSE <<>>
        OBVIOUS
      <3>2. Reads(a, candidates, <<>>, u)
        BY <2>2, <3>1 DEF ReadTCellCandidates
      <3>3. u = InitializeMemoryWiki \/ u = <<>>
        BY <3>1
      <3> QED BY <1>3, <3>2, <3>3, Zenon
    <2>3. CASE ReadMemorySearchIndex(a)
      <3>1. PICK u : u = IF search.status = "missing" /\ Head(doing[a].todo).allowBuild
                         THEN BuildSteps ELSE <<>>
        OBVIOUS
      <3>2. Reads(a, search, <<>>, u)
        BY <2>3, <3>1 DEF ReadMemorySearchIndex
      <3>3. u = BuildSteps \/ u = <<>>
        BY <3>1
      <3> QED BY <1>3, <3>2, <3>3, Zenon
    <2> QED BY <2>1, <2>2, <2>3
  <1>6. PICK file, u : Takes(u, {}, {}) /\ Reads(a, file, <<>>, u)
    BY <1>5
  <1>7. Quit(a) \/ (Goes(a, <<>>, u) /\ UNCHANGED past)
    BY <1>1, <1>4, <1>6, ReadsEither
  <1>8. Head(doing[a].todo).do # "respond"
    BY <1>4 DEF Readers
  <1> QED BY <1>1, <1>2, <1>4, <1>6, <1>7, <1>8, GoesTakes DEF Moves, Quiet

LEMMA FieldsAre ==
    /\ HeldFields("readBase") = {"base", "baseSeen"}
    /\ HeldFields("readWiki") = {"wiki", "wikiSeen"}
    /\ HeldFields("readSessions") = {"sessions", "sessionsSeen"}
    /\ HeldFields("readApplied") = {"kept", "keptSeen"}
    /\ HeldFields("collectEntries") = {"entries"}
    /\ HeldFields("collectCells") = {"cells", "open"}
  BY DEF HeldFields

LEMMA EmptyList == IsList(<<>>)
  BY Empty

LEMMA LooksGo ==
    ASSUME NEW a \in Busy, OnPlan(a), Calls, NEW name \in Looks, Does(a, name),
           NEW rec, DOMAIN rec = HeldFields(name), NEW t, IsList(t),
           Goes(a, rec, t), UNCHANGED past
    PROVE  Looked(a, name, rec, t)
  <1>1. DOMAIN rec \cap {"op", "call", "todo"} = {}
    BY FieldsAre DEF Looks
  <1> QED BY <1>1, GoesWent DEF Looked

LEMMA ReadBaseMoves ==
    ASSUME ServedInv, NEW a \in Actors, UNCHANGED workVars, ReadBase(a)
    PROVE  Moves(a)
  <1>1. a \in Busy /\ OnPlan(a) /\ Calls /\ Shapes /\ Does(a, "readBase")
    BY DEF ReadBase, At, Busy, ServedInv, Does
  <1>2. FilesKept
    BY <1>1, SameKept DEF ReadBase, workVars
  <1>3. PICK rec : rec = [base |-> runtime.turns, baseSeen |-> Len(writes["state"])]
    OBVIOUS
  <1>4. DOMAIN rec = {"base", "baseSeen"} /\ rec.base = runtime.turns /\ rec.baseSeen = Len(writes["state"])
    BY <1>3
  <1>5. Reads(a, runtime, rec, <<>>)
    BY <1>3 DEF ReadBase
  <1>6. Quit(a) \/ (Goes(a, rec, <<>>) /\ UNCHANGED past)
    BY <1>1, <1>5, ReadsEither DEF Does, Readers
  <1>7. Goes(a, rec, <<>>) /\ UNCHANGED past => Looked(a, "readBase", rec, <<>>)
    BY <1>1, <1>4, FieldsAre, EmptyList, LooksGo DEF Looks
  <1> QED BY <1>2, <1>4, <1>6, <1>7 DEF Moves, Quiet, Looking, LookedBase

LEMMA ReadWikiMoves ==
    ASSUME ServedInv, NEW a \in Actors, UNCHANGED workVars, ReadMemoryWiki(a)
    PROVE  Moves(a)
  <1>1. a \in Busy /\ OnPlan(a) /\ Calls /\ Shapes /\ Does(a, "readWiki")
    BY DEF ReadMemoryWiki, At, Busy, ServedInv, Does
  <1>2. FilesKept
    BY <1>1, SameKept DEF ReadMemoryWiki, workVars
  <1>3. PICK rec : rec = [wiki |-> wiki.entries, wikiSeen |-> Len(writes["wiki"])]
    OBVIOUS
  <1>4. DOMAIN rec = {"wiki", "wikiSeen"} /\ rec.wiki = wiki.entries /\ rec.wikiSeen = Len(writes["wiki"])
    BY <1>3
  <1>5. PICK t : t = IF wiki.status = "missing" THEN InitializeMemoryWiki ELSE <<>>
    OBVIOUS
  <1>6. Reads(a, wiki, rec, t)
    BY <1>3, <1>5 DEF ReadMemoryWiki
  <1>7. Takes(t, {}, {})
    BY <1>5, InitializesAny, Zenon
  <1>8. IsList(t)
    BY <1>7 DEF Takes, Steps, Tidy
  <1>9. Quit(a) \/ (Goes(a, rec, t) /\ UNCHANGED past)
    BY <1>1, <1>6, ReadsEither DEF Does, Readers
  <1>10. Goes(a, rec, t) /\ UNCHANGED past => Looked(a, "readWiki", rec, t)
    BY <1>1, <1>4, <1>8, FieldsAre, LooksGo DEF Looks
  <1> QED BY <1>2, <1>4, <1>7, <1>9, <1>10 DEF Moves, Quiet, Looking, LookedWiki

LEMMA ReadSessionsMoves ==
    ASSUME ServedInv, NEW a \in Actors, ReadSessions(a)
    PROVE  Moves(a)
  <1>1. a \in Busy /\ OnPlan(a) /\ Calls /\ Shapes /\ Does(a, "readSessions")
    BY DEF ReadSessions, At, Busy, ServedInv, Does
  <1>2. FilesKept
    BY <1>1, SameKept DEF ReadSessions, workVars
  <1>3. PICK rec : rec = [sessions |-> sessions.open, sessionsSeen |-> Len(writes["sessions"])]
    OBVIOUS
  <1>4. DOMAIN rec = {"sessions", "sessionsSeen"} /\ rec.sessions = sessions.open
        /\ rec.sessionsSeen = Len(writes["sessions"])
    BY <1>3
  <1>5. Reads(a, sessions, rec, <<>>)
    BY <1>3 DEF ReadSessions
  <1>6. Quit(a) \/ (Goes(a, rec, <<>>) /\ UNCHANGED past)
    BY <1>1, <1>5, ReadsEither DEF Does, Readers
  <1>7. Goes(a, rec, <<>>) /\ UNCHANGED past => Looked(a, "readSessions", rec, <<>>)
    BY <1>1, <1>4, FieldsAre, EmptyList, LooksGo DEF Looks
  <1> QED BY <1>2, <1>4, <1>6, <1>7 DEF Moves, Quiet, Looking, LookedSessions

LEMMA ReadAppliedMoves ==
    ASSUME ServedInv, NEW a \in Actors, ReadAppliedCell(a)
    PROVE  Moves(a)
  <1>1. a \in Busy /\ OnPlan(a) /\ Calls /\ Shapes /\ Does(a, "readApplied")
    BY DEF ReadAppliedCell, At, Busy, ServedInv, Does
  <1>2. FilesKept
    BY <1>1, SameKept DEF ReadAppliedCell, workVars
  <1>3. PICK x : x = Head(doing[a].todo)
    OBVIOUS
  <1>4. PICK rec : rec = [kept |-> IF x.drops THEN candidates.cells \ {x.cell}
                                   ELSE candidates.cells,
                          keptSeen |-> Len(writes["candidates"])]
    OBVIOUS
  <1>5. DOMAIN rec = {"kept", "keptSeen"}
        /\ rec.kept = (IF x.drops THEN candidates.cells \ {x.cell} ELSE candidates.cells)
        /\ rec.keptSeen = Len(writes["candidates"])
    BY <1>4
  <1>6. PICK r, u : /\ r = <<Step("writeKept")>>
                        \o (IF x.drops THEN <<RollbackLine(x.cell)>> ELSE <<>>)
                    /\ u = IF candidates.status = "missing" THEN InitializeMemoryWiki ELSE <<>>
    OBVIOUS
  <1>7. PICK t : t = IF x.cell \in candidates.cells THEN r ELSE u
    OBVIOUS
  <1>8. Reads(a, candidates, rec, t)
    BY <1>3, <1>4, <1>6, <1>7 DEF ReadAppliedCell
  <1>9. Takes(u, {}, {})
    BY <1>6, InitializesAny, Zenon
  <1>10. IsList(r) /\ Rewriting(r)
    <2>1. PICK y : y = RollbackLine(x.cell)
      OBVIOUS
    <2>2. y \in Rollbacks
      BY <2>1 DEF RollbackLine, Rollbacks
    <2>3. PICK z : z = Step("writeKept")
      OBVIOUS
    <2>4. <<z>> \o <<y>> = <<z, y>>
      <3>1. <<z>> \in Seq({z, y}) /\ <<y>> \in Seq({z, y}) /\ Len(<<z>>) = 1 /\ Len(<<y>>) = 1
            /\ <<z>>[1] = z /\ <<y>>[1] = y
        OBVIOUS
      <3> QED BY <3>1, JoinOne
    <2>5. <<z>> \o <<>> = <<z>>
      <3>1. <<z>> \in Seq({z})
        OBVIOUS
      <3> QED BY <3>1, ConcatEmptySeq
    <2>6. r = <<z, y>> \/ r = <<z>>
      BY <1>6, <2>1, <2>3, <2>4, <2>5
    <2>7. IsList(<<z, y>>) /\ IsList(<<z>>)
      BY Lists
    <2> QED BY <2>2, <2>3, <2>6, <2>7 DEF Rewriting
  <1>11. IsList(t)
    BY <1>7, <1>9, <1>10 DEF Takes, Steps, Tidy
  <1>12. Quit(a) \/ (Goes(a, rec, t) /\ UNCHANGED past)
    BY <1>1, <1>8, ReadsEither DEF Does, Readers
  <1>13. Goes(a, rec, t) /\ UNCHANGED past => Looked(a, "readApplied", rec, t)
    BY <1>1, <1>5, <1>11, FieldsAre, LooksGo DEF Looks
  <1>14. Quit(a) \/ LookedApplied(a)
    BY <1>3, <1>5, <1>7, <1>9, <1>10, <1>12, <1>13 DEF LookedApplied
  <1> QED BY <1>2, <1>14 DEF Moves, Quiet, Looking

LEMMA CollectMoves ==
    ASSUME ServedInv, NEW a \in Actors, UNCHANGED workVars,
           CollectEntries(a) \/ CollectCells(a)
    PROVE  Moves(a)
  <1>1. a \in Busy /\ OnPlan(a) /\ Calls /\ Shapes
    BY DEF CollectEntries, CollectCells, At, Busy, ServedInv
  <1>2. FilesKept
    BY <1>1, SameKept DEF CollectEntries, CollectCells, workVars
  <1>3. CASE CollectEntries(a)
    <2>1. PICK rec : rec = [entries |-> IF wiki.status = "ok" THEN wiki.entries ELSE {}]
      OBVIOUS
    <2>2. DOMAIN rec = {"entries"} /\ rec.entries \subseteq wiki.entries
      BY <2>1
    <2>3. Goes(a, rec, <<>>) /\ UNCHANGED past /\ Does(a, "collectEntries")
      BY <1>1, <1>3, <2>1 DEF CollectEntries, Does, At
    <2>4. Looked(a, "collectEntries", rec, <<>>)
      BY <1>1, <2>2, <2>3, FieldsAre, EmptyList, LooksGo DEF Looks
    <2> QED BY <1>2, <2>2, <2>4 DEF Moves, Looking, LookedEntries
  <1>4. CASE CollectCells(a)
    <2>1. PICK rec : rec = [cells |-> {c.call : c \in candidates.cells}, open |-> Open]
      OBVIOUS
    <2>2. DOMAIN rec = {"cells", "open"} /\ CallsOf(candidates.cells) \subseteq rec.cells
          /\ rec.open = Open
      BY <2>1 DEF CallsOf
    <2>3. Goes(a, rec, <<>>) /\ UNCHANGED past /\ Does(a, "collectCells")
      BY <1>1, <1>4, <2>1 DEF CollectCells, Does, At, Open
    <2>4. Looked(a, "collectCells", rec, <<>>)
      BY <1>1, <2>2, <2>3, FieldsAre, EmptyList, LooksGo DEF Looks
    <2> QED BY <1>2, <2>2, <2>4 DEF Moves, Looking, LookedCells
  <1> QED BY <1>3, <1>4

-----------------------------------------------------------------------------
(* The writes, the other steps, the stops and the starts. *)

LEMMA GoesOnWent ==
    ASSUME NEW a \in Busy, OnPlan(a), Calls, GoesOn(a), UNCHANGED past
    PROVE  Went(a, <<>>, <<>>)
  <1>1. DOMAIN <<>> = {}
    OBVIOUS
  <1> QED BY <1>1, EmptyList, GoesWent DEF GoesOn

LEMMA WriteMoves ==
    ASSUME ServedInv, NEW a \in Actors,
           \/ UNCHANGED workVars /\ (\/ WriteDefault(a) \/ WriteState(a) \/ WriteEmptyWiki(a)
                                     \/ WriteMemoryWiki(a) \/ WriteEmptyCandidates(a)
                                     \/ AppendTCellCandidate(a))
           \/ WriteSessions(a) \/ AppendCheckCell(a) \/ WriteKept(a)
    PROVE  Moves(a)
  <1> USE DEF Busy, At, Does
  <1>1. OnPlan(a) /\ Calls /\ Shapes /\ a \in Busy /\ GoesOn(a) /\ UNCHANGED past
    BY DEF ServedInv, WriteDefault, WriteState, WriteEmptyWiki, WriteMemoryWiki,
           WriteEmptyCandidates, AppendTCellCandidate, WriteSessions, AppendCheckCell, WriteKept
  <1>2. Went(a, <<>>, <<>>)
    BY <1>1, GoesOnWent
  <1>3. UNCHANGED <<lines, welcome, search>>
    BY DEF WriteDefault, WriteState, WriteEmptyWiki, WriteMemoryWiki, workVars,
           WriteEmptyCandidates, AppendTCellCandidate, WriteSessions, AppendCheckCell, WriteKept
  <1>4. IndexKept
    BY <1>1, <1>3, FileKept
  <1>5. ASSUME WriteDefault(a), UNCHANGED workVars PROVE WroteDefault(a)
    BY <1>1, <1>5, FileKept DEF WriteDefault, WroteDefault, workVars
  <1>6. ASSUME WriteState(a), UNCHANGED workVars PROVE WroteState(a)
    BY <1>1, <1>6, FileKept DEF WriteState, WroteState, workVars
  <1>7. ASSUME WriteEmptyWiki(a), UNCHANGED workVars PROVE WroteEmptyWiki(a)
    BY <1>1, <1>7, FileKept DEF WriteEmptyWiki, WroteEmptyWiki, workVars
  <1>8. ASSUME WriteMemoryWiki(a), UNCHANGED workVars PROVE WroteWiki(a)
    BY <1>1, <1>8, FileKept DEF WriteMemoryWiki, WroteWiki, workVars
  <1>9. ASSUME WriteEmptyCandidates(a), UNCHANGED workVars PROVE WroteEmptyCandidates(a)
    BY <1>1, <1>9, FileKept DEF WriteEmptyCandidates, WroteEmptyCandidates, workVars
  <1>10. ASSUME AppendTCellCandidate(a), UNCHANGED workVars PROVE WroteCell(a)
    BY <1>1, <1>10, FileKept DEF AppendTCellCandidate, WroteCell, workVars
  <1>11. ASSUME WriteSessions(a) PROVE WroteSessions(a)
    BY <1>1, <1>11, FileKept DEF WriteSessions, WroteSessions
  <1>12. ASSUME AppendCheckCell(a) PROVE WroteCheckCell(a)
    BY <1>1, <1>12, FileKept DEF AppendCheckCell, WroteCheckCell, workVars
  <1>13. ASSUME WriteKept(a) PROVE WroteKept(a)
    BY <1>1, <1>13, FileKept DEF WriteKept, WroteKept, workVars
  <1> QED
    BY <1>2, <1>3, <1>4, <1>5, <1>6, <1>7, <1>8, <1>9, <1>10, <1>11, <1>12, <1>13
    DEF Moves, Writing

LEMMA OtherMoves ==
    ASSUME ServedInv, NEW a \in Actors,
           \/ UNCHANGED workVars /\ (AppendLine(a) \/ WriteIndex(a) \/ RunCommand(a))
           \/ PerformOperation(a) \/ WriteWelcome(a)
    PROVE  Moves(a)
  <1>1. OnPlan(a) /\ Calls /\ Shapes /\ a \in Busy
    BY DEF ServedInv, AppendLine, WriteIndex, RunCommand, PerformOperation, WriteWelcome,
           Busy, At
  <1>2. ASSUME AppendLine(a), UNCHANGED workVars PROVE Appended(a)
    <2>1. Went(a, <<>>, <<>>)
      BY <1>1, <1>2, GoesOnWent DEF AppendLine
    <2> QED BY <1>1, <1>2, <2>1, FileKept
          DEF AppendLine, Appended, workVars, TextsKept, Does, At
  <1>3. ASSUME WriteIndex(a), UNCHANGED workVars PROVE WroteIndex(a)
    <2>1. Went(a, <<>>, <<>>)
      BY <1>1, <1>3, GoesOnWent DEF WriteIndex
    <2> QED BY <1>1, <1>3, <2>1, FileKept DEF WriteIndex, WroteIndex, workVars, Does, At
  <1>4. ASSUME RunCommand(a), UNCHANGED workVars PROVE FilesKept /\ Ran(a)
    <2>1. FilesKept
      BY <1>1, <1>4, SameKept DEF RunCommand, workVars
    <2>2. PICK outcome \in {"tool_complete", "tool_error"} :
             Goes(a, <<>>, <<Add("progress", outcome)>>)
      BY <1>4 DEF RunCommand
    <2>3. IsList(<<Add("progress", outcome)>>)
      BY Lists
    <2>4. DOMAIN <<>> = {}
      OBVIOUS
    <2>5. UNCHANGED past
      BY <1>4 DEF RunCommand
    <2>6. Went(a, <<>>, <<Add("progress", outcome)>>)
      BY <1>1, <2>2, <2>3, <2>4, <2>5, GoesWent
    <2> QED BY <1>1, <1>4, <2>1, <2>6 DEF Ran, RunCommand, Does, At
  <1>5. ASSUME PerformOperation(a) PROVE FilesKept /\ Walks(a)
    <2>1. FilesKept
      BY <1>1, <1>5, SameKept DEF PerformOperation
    <2>2. Takes(<<>>, {}, {})
      BY TakesNone
    <2>3. Head(doing[a].todo).do \in Walked
      BY <1>5 DEF PerformOperation, At, Walked
    <2> QED BY <1>1, <1>5, <2>1, <2>2, <2>3, GoesTakes DEF PerformOperation, GoesOn
  <1>6. ASSUME WriteWelcome(a) PROVE WroteWelcome(a)
    <2>1. Went(a, <<>>, <<>>)
      BY <1>1, <1>6, GoesOnWent DEF WriteWelcome
    <2>2. welcome' = [welcome EXCEPT ![Head(doing[a].todo).file] =
                     [call |-> doing[a].call, with |-> Open,
                      approved |-> Head(doing[a].todo).answers]]
      BY <1>6 DEF WriteWelcome, Open
    <2> QED BY <1>1, <1>6, <2>1, <2>2, FileKept
          DEF WriteWelcome, WroteWelcome, TextsKept, Does, At
  <1> QED BY <1>2, <1>3, <1>4, <1>5, <1>6 DEF Moves, Quiet

LEMMA StopMoves ==
    ASSUME ServedInv, NEW a \in Actors,
           (Stop(a) /\ UNCHANGED workVars) \/ StopInRewrite(a)
    PROVE  Moves(a)
  <1>1. Calls /\ Shapes /\ a \in Busy
    BY DEF ServedInv, Stop, StopInRewrite, Busy
  <1>2. Leaves(a) /\ past' = [past EXCEPT !.cut = @ \cup {doing[a].call}]
    BY DEF Stop, StopInRewrite
  <1>3. Quit(a) /\ doing[a].call \in past'.cut
    <2>1. Quit(a)
      BY <1>1, <1>2, CutQuit
    <2> QED BY <1>1, <1>2, <2>1 DEF Shapes
  <1>4. CASE Stop(a) /\ UNCHANGED workVars
    <2>1. RuntimeKept /\ EntriesKept /\ IndexKept
      BY <1>1, <1>4, FileKept DEF Stop
    <2>2. OpenKept
      BY <1>1, <1>4, FileKept DEF workVars
    <2>3. FilesKept
      BY <1>4, <2>1, <2>2 DEF FilesKept, TextsKept, Stop, workVars
    <2> QED BY <1>3, <2>3 DEF Moves, Quiet
  <1>5. CASE StopInRewrite(a)
    <2>1. RuntimeKept /\ EntriesKept /\ IndexKept /\ UNCHANGED <<lines, welcome>>
      BY <1>1, <1>5, FileKept DEF StopInRewrite
    <2>2. OpenKept
      BY <1>1, <1>5, FileKept DEF StopInRewrite
    <2>3. CASE UNCHANGED <<candidates, writes>>
      BY <1>3, <2>1, <2>2, <2>3 DEF Moves, Quiet, FilesKept, TextsKept
    <2>4. CASE /\ At(a, "writeKept")
               /\ \E cells \in SUBSET doing[a].kept, status \in {"ok", "torn"} :
                     candidates' = [status |-> status, cells |-> cells]
               /\ Wrote("candidates", a, 0, "cut")
      <3>1. candidates'.cells \subseteq doing[a].kept
        BY <2>4
      <3> QED BY <1>1, <1>3, <2>1, <2>2, <2>4, <3>1 DEF Moves, CutsKept, TextsKept, At, Does
    <2> QED BY <1>5, <2>3, <2>4 DEF StopInRewrite
  <1> QED BY <1>4, <1>5

LEMMA BeginMoves ==
    ASSUME ServedInv, NEW a \in Actors, NEW op, NEW todo, Call(todo), todo # <<>>,
           Starts(a, op, <<>>, todo), UNCHANGED workVars
    PROVE  Moves(a)
  <1>1. Begun(a, todo)
    BY StartsBegun DEF ServedInv
  <1>2. FilesKept
    BY SameKept DEF Starts, workVars, ServedInv
  <1> QED BY <1>1, <1>2 DEF Moves, Quiet

LEMMA BeginTurnsMoves ==
    ASSUME ServedInv, NEW a \in Actors, UNCHANGED workVars,
           \/ BeginTurn(a) \/ BeginCapture(a) \/ BeginGrowth(a) \/ BeginLive(a)
           \/ BeginRecord(a) \/ BeginPropose(a) \/ BeginGate(a)
           \/ BeginIndex(a) \/ BeginSearch(a)
    PROVE  Moves(a)
  <1>1. ASSUME NEW op, NEW todo, Call(todo), todo # <<>>, Begin(a, op, <<>>, todo)
        PROVE  Moves(a)
    BY <1>1, BeginMoves DEF Begin
  <1>2. ASSUME NEW todos, AllCalls(todos), <<>> \notin todos, NEW op,
               NEW todo \in todos, Begin(a, op, <<>>, todo)
        PROVE  Moves(a)
    BY <1>1, <1>2 DEF AllCalls
  <1>3. CASE BeginTurn(a)
    BY <1>2, <1>3, TurnTodosCall DEF BeginTurn
  <1>4. CASE BeginCapture(a)
    BY <1>1, <1>4, CaptureCalls DEF BeginCapture
  <1>5. CASE BeginGrowth(a)
    <2>1. PICK c \in GrowthInputs : Begin(a, "growth", <<>>, GrowthSteps(c))
      BY <1>5 DEF BeginGrowth
    <2>2. GrowthSteps(c) \in GrowthTodos
      BY DEF GrowthTodos
    <2> QED BY <1>2, <2>1, <2>2, GrowthTodosCall
  <1>6. CASE BeginLive(a)
    <2>1. PICK c \in LiveInputs : Begin(a, "live", <<>>, LiveSteps(c))
      BY <1>6 DEF BeginLive
    <2>2. LiveSteps(c) \in LiveTodos
      BY DEF LiveTodos
    <2> QED BY <1>2, <2>1, <2>2, LiveTodosCall
  <1>7. CASE BeginRecord(a)
    BY <1>2, <1>7, RecordTodosCall DEF BeginRecord
  <1>8. CASE BeginPropose(a)
    BY <1>2, <1>8, ProposeTodosCall DEF BeginPropose
  <1>9. CASE BeginGate(a)
    BY <1>2, <1>9, GateTodosCall DEF BeginGate
  <1>10. CASE BeginIndex(a)
    BY <1>1, <1>10, BuildCalls DEF BeginIndex
  <1>11. CASE BeginSearch(a)
    BY <1>1, <1>11, SearchCalls DEF BeginSearch
  <1> QED BY <1>3, <1>4, <1>5, <1>6, <1>7, <1>8, <1>9, <1>10, <1>11

-----------------------------------------------------------------------------
(* The steps of the server and the gateway, and every step there is. *)

LEMMA AskedMoves ==
    ASSUME ServedInv, NEW a \in Actors, UNCHANGED workVars,
           HandleGatewayRequest(a) \/ RunCommandLine(a)
    PROVE  Moves(a)
  <1>1. ASSUME NEW r, AllCalls(r.todos), NEW op, NEW todo \in r.todos \ {<<>>},
               Begin(a, op, <<>>, todo)
        PROVE  Moves(a)
    BY <1>1, BeginMoves DEF Begin, AllCalls
  <1>2. CASE HandleGatewayRequest(a)
    <2>1. PICK r \in GatewayRoutes \cup RecordedRoutes :
             \E todo \in r.todos \ {<<>>}, kind \in {"gateway", r.path} \cap DOMAIN left :
                 Begin(a, kind, <<>>, todo)
      BY <1>2 DEF HandleGatewayRequest
    <2>2. AllCalls(r.todos)
      BY GatewaySound DEF Sound
    <2> QED BY <1>1, <2>1, <2>2
  <1>3. CASE RunCommandLine(a)
    <2>1. PICK r \in CliCommands \cup RecordedCommands :
             \E todo \in r.todos \ {<<>>} : Begin(a, "cli", <<>>, todo)
      BY <1>3 DEF RunCommandLine
    <2>2. AllCalls(r.todos)
      BY CliSound DEF Sound
    <2> QED BY <1>1, <2>1, <2>2
  <1> QED BY <1>2, <1>3

LEMMA ListenCalls ==
    Call(SnapshotSteps \o <<Step("listen")>>) /\ SnapshotSteps \o <<Step("listen")>> # <<>>
  <1> DEFINE t == <<Step("listen")>>
  <1>1. Free(t) /\ IsList(t) /\ t # <<>>
    BY SingleStep DEF Free
  <1>2. Free(SnapshotSteps)
    BY ViewsFree
  <1> HIDE DEF t
  <1>3. Call(SnapshotSteps \o t)
    BY <1>1, <1>2, FreeThen, FreeCalls
  <1>4. IsList(SnapshotSteps)
    BY <1>2 DEF Free, Takes, Steps, Tidy
  <1>5. SnapshotSteps \o t # <<>>
    BY <1>1, <1>4, NotEmpty
  <1> QED BY <1>3, <1>5 DEF t

LEMMA ServerMoves ==
    ASSUME ServedInv, UNCHANGED workVars,
           \/ StartServer \/ Listen \/ ArriveGet \/ ArriveWrongMethod \/ ArrivePost
           \/ ReadBody \/ Respond \/ HandlerThrew \/ BodyFails
    PROVE  Still \/ Moves(Server)
  <1>1. Server \in Actors /\ Shapes /\ Calls
    BY ServerAssumption DEF ServedInv
  <1>2. CASE StartServer
    <2>1. Begin(Server, "start", <<>>, SnapshotSteps \o <<Step("listen")>>)
      BY <1>2 DEF StartServer
    <2> QED BY <1>1, <2>1, ListenCalls, BeginMoves DEF Begin
  <1>3. CASE Listen \/ Respond
    <2>1. Server \in Busy /\ OnPlan(Server) /\ Head(doing[Server].todo).do \in Walked
      BY <1>1, <1>3 DEF Listen, Respond, At, Busy, Walked, ServedInv
    <2>2. Goes(Server, <<>>, <<>>) /\ UNCHANGED past
      BY <1>3 DEF Listen, Respond, GoesOn
    <2>3. FilesKept
      BY <1>1, <1>3, SameKept DEF Listen, Respond, workVars
    <2>4. Takes(<<>>, {}, {})
      BY TakesNone
    <2> QED BY <1>1, <2>1, <2>2, <2>3, <2>4, GoesTakes DEF Moves, Quiet
  <1>4. ASSUME NEW todo, AllCalls({todo}), NEW method, NEW q, Handled(method, q, todo)
        PROVE  Moves(Server)
    <2>1. Call(todo \o <<Step("respond")>>) /\ todo \o <<Step("respond")>> # <<>>
      BY <1>4, CallResponds DEF AllCalls
    <2>2. Starts(Server, "request", <<>>, todo \o <<Step("respond")>>)
      BY <1>4 DEF Handled
    <2> QED BY <1>1, <2>1, <2>2, BeginMoves
  <1>5. CASE ArriveGet
    <2>1. PICK todo \in GetTodos : Handled("GET", NoTokens, todo)
      BY <1>5 DEF ArriveGet
    <2>2. AllCalls({todo})
      BY ServerSound DEF AllCalls
    <2> QED BY <1>4, <2>1, <2>2
  <1>6. ASSUME UNCHANGED <<runtime, wiki, candidates, lines, search, doing, writes, past>>
        PROVE  Still
    BY <1>1, <1>6, SameKept DEF Still, workVars
  <1>7. CASE ArriveWrongMethod \/ ArrivePost \/ HandlerThrew \/ BodyFails
    BY <1>6, <1>7 DEF ArriveWrongMethod, ArrivePost, HandlerThrew, BodyFails, vars
  <1>8. CASE ReadBody
    <2>1. PICK k \in DOMAIN requests :
             \/ NotHandled
             \/ \E r \in ProtectedPosts : \E todo \in r.todos :
                   Handled("POST", requests[k], todo)
      BY <1>8 DEF ReadBody
    <2>2. CASE NotHandled
      BY <1>6, <2>2 DEF NotHandled, vars
    <2>3. CASE \E r \in ProtectedPosts : \E todo \in r.todos :
                   Handled("POST", requests[k], todo)
      <3>1. PICK r \in ProtectedPosts : \E todo \in r.todos :
                   Handled("POST", requests[k], todo)
        BY <2>3
      <3>2. PICK todo \in r.todos : Handled("POST", requests[k], todo)
        BY <3>1
      <3>3. AllCalls({todo})
        BY ProtectedSound DEF Sound, AllCalls
      <3> QED BY <1>4, <3>2, <3>3
    <2> QED BY <2>1, <2>2, <2>3
  <1> QED BY <1>2, <1>3, <1>5, <1>7, <1>8

\* Every step of the system leaves all alone, or moves one process.
LEMMA StepMoves ==
    ASSUME ServedInv, [ServedNext]_allVars
    PROVE  Still \/ \E a \in Actors : Moves(a)
  <1>1. Server \in Actors /\ Callers \subseteq Actors /\ Shapes
    BY ServerAssumption, TurnsAssumption DEF ServedInv
  <1>2. ASSUME UNCHANGED <<runtime, wiki, candidates, lines, search, doing, writes, past>>,
               UNCHANGED workVars
        PROVE  Still
    BY <1>1, <1>2, SameKept DEF Still, workVars
  <1>3. CASE UNCHANGED allVars
    BY <1>2, <1>3 DEF allVars, localVars, vars
  <1>4. CASE WorkNext /\ UNCHANGED servedVars
    <2>1. CASE TurnsNext /\ UNCHANGED workVars
      <3>1. ASSUME NEW a \in Callers,
                   \/ BeginTurn(a) \/ BeginCapture(a) \/ BeginGrowth(a) \/ BeginLive(a)
                   \/ BeginRecord(a) \/ BeginPropose(a) \/ BeginGate(a)
                   \/ BeginIndex(a) \/ BeginSearch(a)
            PROVE  Moves(a)
        BY <1>1, <2>1, <3>1, BeginTurnsMoves
      <3>2. ASSUME NEW a \in Callers, Stop(a) PROVE Moves(a)
        BY <1>1, <2>1, <3>2, StopMoves
      <3>3. ASSUME NEW a \in Actors,
                   \/ CheckState(a) \/ WriteDefault(a) \/ ReadBase(a) \/ ReadRest(a)
                   \/ WriteState(a) \/ CheckWiki(a) \/ WriteEmptyWiki(a)
                   \/ CheckCandidates(a) \/ WriteEmptyCandidates(a)
                   \/ ReadTCellCandidates(a) \/ ReadMemoryWiki(a) \/ WriteMemoryWiki(a)
                   \/ AppendTCellCandidate(a) \/ AppendLine(a)
                   \/ ReadMemorySearchIndex(a) \/ CollectEntries(a) \/ CollectCells(a)
                   \/ WriteIndex(a)
            PROVE  Moves(a)
        BY <2>1, <3>3, CheckStateMoves, ReadMoves, ReadBaseMoves, ReadWikiMoves,
           CollectMoves, WriteMoves, OtherMoves
      <3> QED BY <1>1, <2>1, <3>1, <3>2, <3>3 DEF TurnsNext
    <2>2. ASSUME NEW a \in Actors,
                 \/ RunCommand(a) /\ UNCHANGED workVars
                 \/ ReadSessions(a) \/ WriteSessions(a) \/ PerformOperation(a)
                 \/ WriteWelcome(a)
                 \/ AppendCheckCell(a) \/ ReadAppliedCell(a) \/ WriteKept(a)
          PROVE  Moves(a)
      BY <2>2, ReadSessionsMoves, ReadAppliedMoves, WriteMoves, OtherMoves
    <2>3. ASSUME NEW a \in Callers, StopInRewrite(a) PROVE Moves(a)
      BY <1>1, <2>3, StopMoves
    <2> QED BY <1>1, <1>4, <2>1, <2>2, <2>3 DEF WorkNext
  <1>5. ASSUME NEW a \in Callers, UNCHANGED workVars,
               HandleGatewayRequest(a) \/ RunCommandLine(a)
        PROVE  Moves(a)
    BY <1>1, <1>5, AskedMoves
  <1>6. ASSUME UNCHANGED workVars,
               \/ StartServer \/ Listen \/ ArriveGet \/ ArriveWrongMethod \/ ArrivePost
               \/ ReadBody \/ Respond \/ HandlerThrew \/ BodyFails
        PROVE  Still \/ \E a \in Actors : Moves(a)
    BY <1>1, <1>6, ServerMoves
  <1>7. CASE StopServer
    <2>1. CASE (Stop(Server) /\ UNCHANGED workVars) \/ StopInRewrite(Server)
      BY <1>1, <2>1, StopMoves
    <2>2. CASE UNCHANGED <<runtime, wiki, candidates, lines, search, doing, writes, past>>
               /\ UNCHANGED workVars
      BY <1>2, <2>2
    <2> QED BY <1>7, <2>1, <2>2 DEF StopServer
  <1> QED BY <1>1, <1>3, <1>4, <1>5, <1>6, <1>7 DEF ServedNext

-----------------------------------------------------------------------------
(* What a step adds to the files. *)

\* The list has one element more.
More(old, new, x) ==
    /\ IsList(old) /\ IsList(new)
    /\ Len(old) \in Nat /\ DOMAIN old = 1 .. Len(old)
    /\ Len(new) = Len(old) + 1 /\ DOMAIN new = 1 .. Len(old) + 1
    /\ new[Len(old) + 1] = x
    /\ \A i \in DOMAIN old : i \in DOMAIN new /\ new[i] = old[i]
    /\ \A i \in DOMAIN new : i = Len(old) + 1 \/ i \in DOMAIN old

LEMMA AppendMore ==
    ASSUME NEW s, IsList(s), NEW x
    PROVE  More(s, Append(s, x), x)
  <1> DEFINE S == ToSet(s) \cup {x}
             t == Append(s, x)
  <1>1. s \in Seq(S) /\ x \in S
    BY DEF IsList
  <1>2. t \in Seq(S) /\ Len(t) = Len(s) + 1 /\ Len(s) \in Nat
    BY <1>1
  <1>3. IsList(t)
    BY <1>2, ListOf
  <1>4. DOMAIN s = 1 .. Len(s) /\ DOMAIN t = 1 .. Len(s) + 1
    BY <1>1, <1>2
  <1>5. t[Len(s) + 1] = x /\ \A i \in DOMAIN s : t[i] = s[i]
    BY <1>1, <1>4
  <1> HIDE DEF t
  <1>6. More(s, t, x)
    BY <1>2, <1>3, <1>4, <1>5 DEF More
  <1> QED BY <1>6 DEF t

LEMMA WroteMore ==
    ASSUME Files, NEW file \in Rewritten, NEW a, NEW seen, NEW kind, Wrote(file, a, seen, kind)
    PROVE  /\ DOMAIN writes' = Rewritten
           /\ \A f \in Rewritten : f # file => writes'[f] = writes[f]
           /\ \E w : /\ w.call = doing[a].call /\ w.seen = seen /\ w.kind = kind
                     /\ More(writes[file], writes'[file], w)
  <1>1. DOMAIN writes = Rewritten /\ IsList(writes[file])
    BY DEF Files
  <1>2. PICK w : w = [call |-> doing[a].call, seen |-> seen, kind |-> kind]
    OBVIOUS
  <1>3. writes' = [writes EXCEPT ![file] = Append(writes[file], w)]
    BY <1>2 DEF Wrote
  <1>4. writes'[file] = Append(writes[file], w)
    BY <1>1, <1>3
  <1>5. w.call = doing[a].call /\ w.seen = seen /\ w.kind = kind
    BY <1>2
  <1>6. More(writes[file], writes'[file], w)
    BY <1>1, <1>4, AppendMore
  <1>7. DOMAIN writes' = Rewritten /\ \A f \in Rewritten : f # file => writes'[f] = writes[f]
    BY <1>1, <1>3
  <1> QED BY <1>5, <1>6, <1>7

\* The line a step of a plan adds.
LineOf(a) == Merge(Head(doing[a].todo).rec, [call |-> doing[a].call])

LEMMA HeadIs ==
    ASSUME NEW a, OnPlan(a)
    PROVE  /\ IsList(doing[a].todo) /\ doing[a].todo # <<>>
           /\ Head(doing[a].todo) = doing[a].todo[1] /\ 1 \in DOMAIN doing[a].todo
           /\ WellFormed(Head(doing[a].todo))
           /\ Needs(Head(doing[a].todo)) \subseteq Done(a)
  <1>1. IsList(doing[a].todo) /\ doing[a].todo # <<>>
    BY DEF OnPlan, Planned
  <1>2. Head(doing[a].todo) = doing[a].todo[1] /\ 1 \in DOMAIN doing[a].todo
        /\ DOMAIN doing[a].todo = 1 .. Len(doing[a].todo)
    BY <1>1, Shortened
  <1>3. WellFormed(Head(doing[a].todo))
    BY <1>2 DEF OnPlan, Planned
  <1>4. Needs(Head(doing[a].todo)) \subseteq Done(a)
    BY <1>2 DEF OnPlan, Planned, Good
  <1> QED BY <1>1, <1>2, <1>3, <1>4

LEMMA LineIs ==
    ASSUME NEW a, OnPlan(a), Head(doing[a].todo).do = "append"
    PROVE  LET x == Head(doing[a].todo)
               l == LineOf(a)
           IN  /\ x.file \in LineFiles /\ Kind(l) = Kind(x.rec)
               /\ Own(x.rec) => l.call = doing[a].call
               /\ ~Own(x.rec) => l.call = CheckId
               /\ x.file \notin {"history", "proposals", "gates"} =>
                     "kind" \in DOMAIN l /\ l.kind = Kind(x.rec)
               /\ x.file = "osTurns" => l.kind \in {"completed", "blocked"}
               /\ ~Own(x.rec) => \/ x.file = "approvals" /\ l.kind = "approval"
                                 \/ x.file = "audits" /\ l.kind = "audit"
                                 \/ x.file = "queue" /\ l.kind \notin {"approval", "audit"}
  <1> DEFINE x == Head(doing[a].todo)
             l == LineOf(a)
             old == [call |-> doing[a].call]
  <1>1. WellFormed(x) /\ x.do = "append"
    BY HeadIs
  <1> HIDE DEF x
  <1>2. DOMAIN old = {"call"} /\ old.call = doing[a].call
    OBVIOUS
  <1> HIDE DEF old
  <1>3. l = [field \in DOMAIN x.rec \cup DOMAIN old |->
                IF field \in DOMAIN x.rec THEN x.rec[field] ELSE old[field]]
    BY DEF LineOf, Merge, x, old
  <1>4. /\ DOMAIN l = DOMAIN x.rec \cup {"call"}
        /\ \A field \in DOMAIN x.rec : l[field] = x.rec[field]
        /\ "call" \notin DOMAIN x.rec => l.call = doing[a].call
    BY <1>2, <1>3
  <1> HIDE DEF l
  <1>5. Kind(l) = Kind(x.rec)
    BY <1>4 DEF Kind
  <1>6. Own(x.rec) => l.call = doing[a].call
    BY <1>4 DEF Own
  <1>7. ~Own(x.rec) => l.call = x.rec.call
    BY <1>4 DEF Own
  <1>8. "kind" \in DOMAIN x.rec => "kind" \in DOMAIN l /\ l.kind = x.rec.kind /\ l.kind = Kind(x.rec)
    BY <1>4 DEF Kind
  <1>9. /\ x.file \in LineFiles
        /\ x.file \notin {"history", "proposals", "gates"} => "kind" \in DOMAIN x.rec
        /\ x.file = "osTurns" => x.rec.kind \in {"completed", "blocked"}
        /\ Own(x.rec) \/ /\ x.rec.call = CheckId
                         /\ \/ x.file = "approvals" /\ x.rec.kind = "approval"
                            \/ x.file = "audits" /\ x.rec.kind = "audit"
                            \/ x.file = "queue" /\ x.rec.kind \notin {"approval", "audit"}
    BY <1>1 DEF WellFormed
  <1> QED BY <1>5, <1>6, <1>7, <1>8, <1>9 DEF x, l

LEMMA AppendedMore ==
    ASSUME Files, NEW a, OnPlan(a), Appended(a)
    PROVE  LET file == Head(doing[a].todo).file IN
           /\ file \in LineFiles
           /\ DOMAIN lines' = LineFiles
           /\ \A f \in LineFiles : f # file => lines'[f] = lines[f]
           /\ More(lines[file], lines'[file], LineOf(a))
  <1> DEFINE file == Head(doing[a].todo).file
  <1>1. file \in LineFiles
    BY LineIs DEF Appended, Does
  <1>2. lines' = [lines EXCEPT ![file] = Append(lines[file], LineOf(a))]
    BY DEF Appended, LineOf
  <1> HIDE DEF file
  <1>3. DOMAIN lines = LineFiles /\ IsList(lines[file])
    BY <1>1 DEF Files
  <1>4. lines'[file] = Append(lines[file], LineOf(a))
    BY <1>1, <1>2, <1>3
  <1>5. More(lines[file], lines'[file], LineOf(a))
    BY <1>3, <1>4, AppendMore
  <1>6. DOMAIN lines' = LineFiles /\ \A f \in LineFiles : f # file => lines'[f] = lines[f]
    BY <1>2, <1>3
  <1> QED BY <1>1, <1>5, <1>6 DEF file

LEMMA Rewrites ==
    ASSUME NEW a, Writing(a) \/ CutsKept(a)
    PROVE  \E file \in Rewritten : \E seen, kind : Wrote(file, a, seen, kind)
  <1>1. {"state", "wiki", "candidates", "sessions"} = Rewritten
    BY DEF Rewritten
  <1>2. ASSUME NEW file \in Rewritten, NEW seen, NEW kind, Wrote(file, a, seen, kind)
        PROVE  \E f \in Rewritten : \E s, k : Wrote(f, a, s, k)
    BY <1>2
  <1>3. \E f \in Rewritten : \E s, k : Wrote(f, a, s, k)
    BY <1>1, <1>2
    DEF Writing, CutsKept, WroteDefault, WroteState, WroteEmptyWiki, WroteWiki,
        WroteSessions, WroteEmptyCandidates, WroteCell, WroteCheckCell, WroteKept
  <1> QED BY <1>3

LEMMA ListLonger ==
    /\ \A s : IsList(s) => Longer(s, s)
    /\ \A s, t, x : More(s, t, x) => Longer(s, t)
  BY ListIs DEF Longer, More

\* Every step only adds lines and writes.
LEMMA StepGrows ==
    ASSUME ServedInv, NEW a, Still \/ (a \in Actors /\ Moves(a))
    PROVE  Grown
  <1>1. Files
    BY DEF ServedInv
  <1>2. ASSUME UNCHANGED lines PROVE \A f \in LineFiles : Longer(lines[f], lines'[f])
    BY <1>1, <1>2, ListLonger DEF Files
  <1>3. ASSUME UNCHANGED writes PROVE \A f \in Rewritten : Longer(writes[f], writes'[f])
    BY <1>1, <1>3, ListLonger DEF Files
  <1>4. CASE UNCHANGED <<lines, writes>>
    BY <1>2, <1>3, <1>4 DEF Grown
  <1>5. CASE Writing(a) \/ CutsKept(a)
    <2>1. UNCHANGED lines
      BY <1>5 DEF Writing, CutsKept
    <2>2. PICK file \in Rewritten : \E seen, kind : Wrote(file, a, seen, kind)
      BY <1>5, Rewrites
    <2>3. PICK seen, kind : Wrote(file, a, seen, kind)
      BY <2>2
    <2>4. \A f \in Rewritten : Longer(writes[f], writes'[f])
      BY <1>1, <2>3, WroteMore, ListLonger DEF Files
    <2> QED BY <1>2, <2>1, <2>4 DEF Grown
  <1>6. CASE Appended(a)
    <2>1. OnPlan(a)
      BY <1>6 DEF Appended, Does, ServedInv
    <2>2. \A f \in LineFiles : Longer(lines[f], lines'[f])
      BY <1>1, <1>6, <2>1, AppendedMore, ListLonger DEF Files
    <2>3. UNCHANGED writes
      BY <1>6 DEF Appended
    <2> QED BY <1>3, <2>2, <2>3 DEF Grown
  <1> QED BY <1>4, <1>5, <1>6
      DEF Moves, Still, Quiet, FilesKept, WroteIndex, WroteWelcome

-----------------------------------------------------------------------------
(* Calls, shapes and files. *)

LEMMA MovesHow ==
    ASSUME NEW a, Moves(a)
    PROVE  (\E todo : Begun(a, todo)) \/ Quit(a) \/ \E rec, t : Went(a, rec, t)
  BY DEF Moves, Quiet, Walks, Ran, Looking, LookedBase, LookedWiki, LookedSessions,
         LookedApplied, LookedEntries, LookedCells, Looked, Writing, CutsKept, Appended,
         WroteIndex, WroteWelcome

LEMMA PastGrows ==
    ASSUME ServedInv, NEW a, Still \/ (a \in Actors /\ Moves(a))
    PROVE  /\ past.calls \in Nat /\ past'.calls \in Nat /\ past.calls <= past'.calls
           /\ past.cut \subseteq past'.cut /\ past.threw \subseteq past'.threw
           /\ {"calls", "cut", "threw"} \subseteq DOMAIN past'
  <1>1. past.calls \in Nat /\ {"calls", "cut", "threw"} \subseteq DOMAIN past
    BY DEF ServedInv, Calls, Shapes
  <1>2. CASE Still
    BY <1>1, <1>2 DEF Still
  <1>3. CASE a \in Actors /\ Moves(a)
    BY <1>1, <1>3, MovesHow DEF Begun, Quit, Went
  <1> QED BY <1>2, <1>3

LEMMA BusyIs ==
    /\ \A b : b \in Busy <=> b \in Actors /\ doing[b] # Rest
    /\ \A b : b \in Busy' <=> b \in Actors /\ doing'[b] # Rest
  BY DEF Busy

LEMMA CallsKept ==
    ASSUME ServedInv, NEW a, Still \/ (a \in Actors /\ Moves(a))
    PROVE  Calls'
  <1>1. Calls
    BY DEF ServedInv
  <1>2. CASE Still
    BY <1>1, <1>2 DEF Still, Calls, Busy
  <1>3. CASE a \in Actors /\ \E todo : Begun(a, todo)
    BY <1>1, <1>3, BusyIs DEF Calls, Begun, Others
  <1>4. CASE Quit(a)
    BY <1>1, <1>4, BusyIs DEF Calls, Quit, Others
  <1>5. CASE a \in Actors /\ \E rec, t : Went(a, rec, t)
    <2>1. Others(a) /\ UNCHANGED past /\ a \in Busy
      BY <1>5 DEF Went
    <2>2. doing'[a] = Rest \/ doing'[a].call = doing[a].call
      BY <1>5 DEF Went
    <2> QED BY <1>1, <1>5, <2>1, <2>2, BusyIs DEF Calls, Others
  <1> QED BY <1>2, <1>3, <1>4, <1>5, MovesHow

-----------------------------------------------------------------------------
(* Shapes and looks. *)

LEMMA ShapesKept ==
    ASSUME ServedInv, NEW a, Still \/ (a \in Actors /\ Moves(a))
    PROVE  Shapes'
  <1>1. {"calls", "cut", "threw"} \subseteq DOMAIN past'
    BY PastGrows
  <1>2. "turns" \in DOMAIN runtime'
    BY DEF Still, Moves, Quiet, FilesKept, TextsKept, RuntimeKept, Writing, CutsKept, Appended,
           WroteIndex, WroteWelcome, WroteDefault, WroteState, WroteEmptyWiki, WroteWiki,
           WroteSessions, WroteEmptyCandidates, WroteCell, WroteCheckCell, WroteKept
  <1>3. "entries" \in DOMAIN wiki'
    BY DEF Still, Moves, Quiet, FilesKept, TextsKept, EntriesKept, Writing, CutsKept, Appended,
           WroteIndex, WroteWelcome, WroteDefault, WroteState, WroteEmptyWiki, WroteWiki,
           WroteSessions, WroteEmptyCandidates, WroteCell, WroteCheckCell, WroteKept
  <1>4. "open" \in DOMAIN sessions'
    BY DEF Still, Moves, Quiet, FilesKept, TextsKept, OpenKept, Writing, CutsKept, Appended,
           WroteIndex, WroteWelcome, WroteDefault, WroteState, WroteEmptyWiki, WroteWiki,
           WroteSessions, WroteEmptyCandidates, WroteCell, WroteCheckCell, WroteKept
  <1>5. {"entries", "cells", "open"} \subseteq DOMAIN search'
    BY DEF Still, Moves, Quiet, FilesKept, TextsKept, IndexKept, Writing, CutsKept, Appended,
           WroteIndex, WroteWelcome
  <1> QED BY <1>1, <1>2, <1>3, <1>4, <1>5 DEF Shapes

LEMMA LooksAre ==
    ASSUME NEW c, NEW name \in Looks
    PROVE  ~HasCall(c, Did(name)) /\ ~HasCall(c, Did(name))' /\ Did(name) \in Tags
  <1>1. PICK tag : tag = Did(name)
    OBVIOUS
  <1>2. /\ tag \notin {Did("writeState"), Did("writeWiki"), Did("appendCandidate"),
                        <<"check", "approval">>, <<"check", "audit">>}
        /\ tag[1] = "did" /\ tag[1] \notin LineFiles
    BY <1>1, NotFiles DEF Did, Looks
  <1>3. ~HasCall(c, tag) /\ ~HasCall(c, tag)'
    BY <1>2 DEF HasCall
  <1>4. Did(name) \in Tags
    BY DEF Tags
  <1> QED BY <1>1, <1>3, <1>4

\* What the next step needs to have been seen is there.
LEMMA HoldsIs ==
    ASSUME NEW a, OnPlan(a), NEW name \in Looks, Did(name) \in Needs(Head(doing[a].todo))
    PROVE  Holds(a, name)
  <1>1. Did(name) \in Done(a)
    BY HeadIs
  <1>2. ~HasCall(doing[a].call, Did(name))
    BY LooksAre
  <1>3. PICK other \in Looks : Did(name) = Did(other) /\ Holds(a, other)
    BY <1>1, <1>2 DEF Done
  <1>4. name = other
    BY <1>3 DEF Did
  <1> QED BY <1>3, <1>4

LEMMA NeedsLook ==
    ASSUME NEW x
    PROVE  /\ x.do = "writeState" => Did("readBase") \in Needs(x)
           /\ x.do = "writeWiki" => Did("readWiki") \in Needs(x)
           /\ x.do = "writeSessions" => Did("readSessions") \in Needs(x)
           /\ x.do = "writeKept" => Did("readApplied") \in Needs(x)
           /\ x.do = "collectCells" => Did("collectEntries") \in Needs(x)
  BY DEF Needs

\* What a write that follows a look has seen.
LEMMA SeenIs ==
    ASSUME ServedInv, NEW a \in Busy
    PROVE  /\ Head(doing[a].todo).do = "writeState" => Holds(a, "readBase")
           /\ Head(doing[a].todo).do = "writeWiki" => Holds(a, "readWiki")
           /\ Head(doing[a].todo).do = "writeSessions" => Holds(a, "readSessions")
           /\ Head(doing[a].todo).do = "writeKept" => Holds(a, "readApplied")
           /\ Head(doing[a].todo).do = "collectCells" => Holds(a, "collectEntries")
  <1>1. OnPlan(a)
    BY DEF ServedInv
  <1>2. {"readBase", "readWiki", "readSessions", "readApplied", "collectEntries"} \subseteq Looks
    BY DEF Looks
  <1> QED BY <1>1, <1>2, NeedsLook, HoldsIs

\* A call has seen no more writes than there are.
LEMMA SeenBounds ==
    ASSUME ServedInv, NEW a \in Busy, NEW file \in Rewritten, NEW seen, NEW kind,
           \/ file = "state" /\ seen = 0
           \/ file = "state" /\ seen = doing[a].baseSeen /\ Does(a, "writeState")
           \/ file = "wiki" /\ seen = 0
           \/ file = "wiki" /\ seen = doing[a].wikiSeen /\ Does(a, "writeWiki")
           \/ file = "sessions" /\ seen = doing[a].sessionsSeen /\ Does(a, "writeSessions")
           \/ file = "candidates" /\ seen = 0
           \/ file = "candidates" /\ seen = Len(writes["candidates"])
           \/ file = "candidates" /\ seen = doing[a].keptSeen /\ Does(a, "writeKept")
    PROVE  seen \in 0 .. Len(writes[file])
  <1>1. \A f \in Rewritten : Len(writes[f]) \in Nat
    BY ListIs DEF ServedInv, Files
  <1>2. Does(a, "writeState") => doing[a].baseSeen \in 0 .. Len(writes["state"])
    BY SeenIs DEF ServedInv, Counted, Does
  <1>3. Does(a, "writeWiki") => doing[a].wikiSeen \in 0 .. Len(writes["wiki"])
    BY SeenIs DEF ServedInv, WikiKept, Does
  <1>4. Does(a, "writeSessions") => doing[a].sessionsSeen \in 0 .. Len(writes["sessions"])
    BY SeenIs DEF ServedInv, SessionsKept, Does
  <1>5. Does(a, "writeKept") => doing[a].keptSeen \in 0 .. Len(writes["candidates"])
    BY SeenIs DEF ServedInv, CellsKept, Does
  <1> QED BY <1>1, <1>2, <1>3, <1>4, <1>5

\* Every rewrite has seen some of the writes before it.
LEMMA RewriteSeen ==
    ASSUME ServedInv, NEW a \in Actors, Writing(a) \/ CutsKept(a)
    PROVE  \E file \in Rewritten : \E seen \in 0 .. Len(writes[file]) : \E kind :
              Wrote(file, a, seen, kind) /\ a \in Busy
  <1>1. a \in Busy
    BY DEF Writing, CutsKept, Quit, Went
  <1>2. {"state", "wiki", "candidates", "sessions"} = Rewritten
    BY DEF Rewritten
  <1>3. ASSUME NEW file \in Rewritten, NEW seen \in 0 .. Len(writes[file]), NEW kind,
               Wrote(file, a, seen, kind)
        PROVE  \E f \in Rewritten : \E s \in 0 .. Len(writes[f]) : \E k : Wrote(f, a, s, k)
    BY <1>3
  <1>4. \E f \in Rewritten : \E s \in 0 .. Len(writes[f]) : \E k : Wrote(f, a, s, k)
    <2>1. CASE WroteDefault(a) \/ WroteState(a)
      BY <1>1, <1>2, <1>3, <2>1, SeenBounds DEF WroteDefault, WroteState
    <2>2. CASE WroteEmptyWiki(a) \/ WroteWiki(a)
      BY <1>1, <1>2, <1>3, <2>2, SeenBounds DEF WroteEmptyWiki, WroteWiki
    <2>3. CASE WroteSessions(a)
      BY <1>1, <1>2, <1>3, <2>3, SeenBounds DEF WroteSessions
    <2>4. CASE WroteEmptyCandidates(a) \/ CutsKept(a)
      BY <1>1, <1>2, <1>3, <2>4, SeenBounds DEF WroteEmptyCandidates, CutsKept
    <2>5. CASE WroteCell(a) \/ WroteCheckCell(a)
      BY <1>1, <1>2, <1>3, <2>5, SeenBounds DEF WroteCell, WroteCheckCell
    <2>6. CASE WroteKept(a)
      BY <1>1, <1>2, <1>3, <2>6, SeenBounds DEF WroteKept
    <2> QED BY <2>1, <2>2, <2>3, <2>4, <2>5, <2>6 DEF Writing
  <1> QED BY <1>1, <1>4

LEMMA FilesSound ==
    ASSUME ServedInv, NEW a, Still \/ (a \in Actors /\ Moves(a))
    PROVE  Files'
  <1>1. Files /\ Calls
    BY DEF ServedInv
  <1>2. past.calls \in Nat /\ past'.calls \in Nat /\ past.calls <= past'.calls
    BY PastGrows
  <1> DEFINE GoodLine(f, l, n) ==
                 /\ l.call \in 0 .. n
                 /\ f \notin {"history", "proposals", "gates"} => "kind" \in DOMAIN l
                 /\ f = "osTurns" => l.kind \in {"completed", "blocked"}
             GoodLines == DOMAIN lines' = LineFiles /\ \A f \in LineFiles : IsList(lines'[f])
                 /\ \A i \in DOMAIN lines'[f] : GoodLine(f, lines'[f][i], past'.calls)
             GoodWrites == DOMAIN writes' = Rewritten /\ \A f \in Rewritten : IsList(writes'[f])
                 /\ \A i \in DOMAIN writes'[f] :
                       /\ writes'[f][i].call \in 1 .. past'.calls
                       /\ writes'[f][i].seen \in 0 .. i - 1
  <1>3. /\ DOMAIN lines = LineFiles
        /\ \A f \in LineFiles : IsList(lines[f])
              /\ \A i \in DOMAIN lines[f] : GoodLine(f, lines[f][i], past'.calls)
    BY <1>1, <1>2 DEF Files
  <1>4. /\ DOMAIN writes = Rewritten
        /\ \A f \in Rewritten : IsList(writes[f])
              /\ \A i \in DOMAIN writes[f] : /\ writes[f][i].call \in 1 .. past'.calls
                                             /\ writes[f][i].seen \in 0 .. i - 1
    BY <1>1, <1>2 DEF Files
  <1>5. UNCHANGED lines => GoodLines
    BY <1>3
  <1>6. UNCHANGED writes => GoodWrites
    BY <1>4
  <1>7. CASE Writing(a) \/ CutsKept(a)
    <2>1. UNCHANGED lines
      BY <1>7 DEF Writing, CutsKept
    <2>2. a \in Actors
      BY <1>7, BusyIs DEF Writing, CutsKept, Quit, Went
    <2>3. PICK file \in Rewritten : \E seen \in 0 .. Len(writes[file]) : \E kind :
              Wrote(file, a, seen, kind) /\ a \in Busy
      BY <1>7, <2>2, RewriteSeen
    <2>4. PICK seen \in 0 .. Len(writes[file]) : \E kind : Wrote(file, a, seen, kind)
      BY <2>3
    <2>5. PICK kind : Wrote(file, a, seen, kind)
      BY <2>4
    <2>6. doing[a].call \in 1 .. past'.calls
      BY <1>1, <1>2, <2>3 DEF Calls
    <2>7. /\ DOMAIN writes' = Rewritten
          /\ \A f \in Rewritten : f # file => writes'[f] = writes[f]
          /\ \E w : /\ w.call = doing[a].call /\ w.seen = seen /\ w.kind = kind
                     /\ More(writes[file], writes'[file], w)
      BY <1>1, <2>5, WroteMore
    <2>8. ASSUME NEW i \in DOMAIN writes'[file]
          PROVE  /\ writes'[file][i].call \in 1 .. past'.calls
                 /\ writes'[file][i].seen \in 0 .. i - 1
      BY <1>4, <2>4, <2>6, <2>7 DEF More
    <2>9. IsList(writes'[file])
      BY <2>7 DEF More
    <2>10. GoodWrites
      BY <1>4, <2>7, <2>8, <2>9
    <2> QED BY <1>5, <2>1, <2>10 DEF Files
  <1>8. CASE Appended(a)
    <2>1. OnPlan(a) /\ a \in Busy
      BY <1>8 DEF Appended, Does, ServedInv
    <2> DEFINE file == Head(doing[a].todo).file
    <2>2. /\ file \in LineFiles /\ DOMAIN lines' = LineFiles
          /\ \A f \in LineFiles : f # file => lines'[f] = lines[f]
          /\ More(lines[file], lines'[file], LineOf(a))
      BY <1>1, <1>8, <2>1, AppendedMore
    <2>3. LineOf(a).call \in 0 .. past'.calls
      <3>1. doing[a].call \in 1 .. past.calls
        BY <1>1, <2>1 DEF Calls
      <3>2. LineOf(a).call = doing[a].call \/ LineOf(a).call = CheckId
        BY <1>8, <2>1, LineIs DEF Appended, Does
      <3> QED BY <1>2, <3>1, <3>2 DEF CheckId
    <2>4. GoodLine(file, LineOf(a), past'.calls)
      <3>1. /\ file \notin {"history", "proposals", "gates"} => "kind" \in DOMAIN LineOf(a)
            /\ file = "osTurns" => LineOf(a).kind \in {"completed", "blocked"}
        BY <1>8, <2>1, LineIs DEF Appended, Does
      <3> QED BY <2>3, <3>1
    <2> HIDE DEF file, GoodLine
    <2>5. ASSUME NEW i \in DOMAIN lines'[file] PROVE GoodLine(file, lines'[file][i], past'.calls)
      BY <1>3, <2>2, <2>4 DEF More
    <2>6. IsList(lines'[file])
      BY <2>2 DEF More
    <2>7. GoodLines
      BY <1>3, <2>2, <2>5, <2>6
    <2>8. UNCHANGED writes
      BY <1>8 DEF Appended
    <2> QED BY <1>6, <2>7, <2>8 DEF Files, GoodLine
  <1>9. CASE UNCHANGED <<lines, writes>>
    BY <1>5, <1>6, <1>9 DEF Files
  <1> QED BY <1>7, <1>8, <1>9 DEF Moves, Still, Quiet, FilesKept, WroteIndex, WroteWelcome

-----------------------------------------------------------------------------
(* What a call holds. *)

\* What a process holds of a file is what it held before.
SameFor(b, name) ==
    HeldFields(name) \subseteq DOMAIN doing'[b] =>
        /\ b \in Busy /\ Holds(b, name) /\ doing'[b].call = doing[b].call
        /\ \A field \in HeldFields(name) : doing'[b][field] = doing[b][field]

LEMMA HeldApart ==
    /\ \A name \in Looks : HeldFields(name) \cap {"op", "call", "todo"} = {} /\ HeldFields(name) # {}
    /\ \A name, other \in Looks : name # other => HeldFields(name) \cap HeldFields(other) = {}
  BY FieldsAre DEF Looks

LEMMA WentSame ==
    ASSUME NEW a, NEW rec, NEW t, Went(a, rec, t), NEW name \in Looks,
           HeldFields(name) \cap DOMAIN rec = {}, a \in Busy'
    PROVE  SameFor(a, name)
  <1>1. doing'[a] # Rest
    BY BusyIs
  <1>2. /\ DOMAIN doing'[a] = DOMAIN rec \cup DOMAIN doing[a]
        /\ doing'[a].call = doing[a].call
        /\ \A field \in DOMAIN doing[a] \ DOMAIN rec :
              field # "todo" => doing'[a][field] = doing[a][field]
    BY <1>1 DEF Went
  <1>3. a \in Busy
    BY DEF Went
  <1>4. "todo" \notin HeldFields(name)
    BY HeldApart
  <1> QED BY <1>2, <1>3, <1>4 DEF SameFor, Holds

LEMMA OthersSame ==
    ASSUME NEW a, Others(a), NEW b \in Busy', b # a, NEW name
    PROVE  SameFor(b, name)
  BY BusyIs DEF Others, SameFor, Holds

\* Only a look changes what a call holds.
LEMMA MovesLook ==
    ASSUME NEW a \in Actors, Moves(a), NEW b \in Busy', NEW name \in Looks
    PROVE  SameFor(b, name) \/ (b = a /\ Does(a, name) /\ FilesKept /\ Looking(a))
  <1>1. CASE b # a
    <2>1. Others(a)
      BY MovesHow DEF Begun, Quit, Went
    <2> QED BY <1>1, <2>1, OthersSame
  <1>2. CASE b = a /\ \E todo : Begun(a, todo)
    <2>1. DOMAIN doing'[a] = {"op", "call", "todo"}
      BY <1>2 DEF Begun
    <2> QED BY <1>2, <2>1, HeldApart DEF SameFor
  <1>3. CASE b = a /\ Quit(a)
    BY <1>3, BusyIs DEF Quit
  <1>4. ASSUME NEW t, Went(a, <<>>, t), b = a PROVE SameFor(b, name)
    <2>1. DOMAIN <<>> = {}
      OBVIOUS
    <2> QED BY <1>4, <2>1, WentSame
  <1>5. CASE b = a /\ FilesKept /\ Looking(a)
    <2>1. PICK other \in Looks : \E rec, t : Looked(a, other, rec, t)
      BY <1>5 DEF Looking, LookedBase, LookedWiki, LookedSessions, LookedApplied,
            LookedEntries, LookedCells, Looks
    <2>2. PICK rec, t : Looked(a, other, rec, t)
      BY <2>1
    <2>3. CASE other = name
      BY <1>5, <2>2, <2>3 DEF Looked
    <2>4. CASE other # name
      <3>1. Went(a, rec, t) /\ HeldFields(name) \cap DOMAIN rec = {}
        BY <2>2, <2>4, HeldApart DEF Looked
      <3> QED BY <1>5, <3>1, WentSame
    <2> QED BY <2>3, <2>4
  <1>6. CASE b = a /\ (Walks(a) \/ Ran(a) \/ Writing(a) \/ Appended(a) \/ WroteIndex(a)
                       \/ WroteWelcome(a))
    BY <1>4, <1>6 DEF Walks, Ran, Writing, Appended, WroteIndex, WroteWelcome
  <1> QED BY <1>1, <1>2, <1>3, <1>5, <1>6 DEF Moves, Quiet, CutsKept

\* Which look it is, the step of the plan says.
LEMMA LooksApart ==
    ASSUME NEW a, Looking(a)
    PROVE  /\ Does(a, "readBase") => LookedBase(a)
           /\ Does(a, "readWiki") => LookedWiki(a)
           /\ Does(a, "readSessions") => LookedSessions(a)
           /\ Does(a, "readApplied") => LookedApplied(a)
           /\ Does(a, "collectEntries") => LookedEntries(a)
           /\ Does(a, "collectCells") => LookedCells(a)
  BY DEF Looking, Does, LookedBase, LookedWiki, LookedSessions, LookedApplied,
         LookedEntries, LookedCells, Looked

LEMMA StillSame ==
    ASSUME Still, NEW b \in Busy', NEW name
    PROVE  SameFor(b, name)
  BY BusyIs DEF Still, SameFor, Holds

\* What a process holds it held before, or has just seen.
LEMMA HeldFrom ==
    ASSUME NEW a, Still \/ (a \in Actors /\ Moves(a)), NEW b \in Busy'
    PROVE  /\ SameFor(b, "readBase") \/ (b = a /\ FilesKept /\ LookedBase(a))
           /\ SameFor(b, "readWiki") \/ (b = a /\ FilesKept /\ LookedWiki(a))
           /\ SameFor(b, "readSessions") \/ (b = a /\ FilesKept /\ LookedSessions(a))
           /\ SameFor(b, "readApplied") \/ (b = a /\ FilesKept /\ LookedApplied(a))
           /\ SameFor(b, "collectEntries") \/ (b = a /\ FilesKept /\ LookedEntries(a))
           /\ SameFor(b, "collectCells") \/ (b = a /\ FilesKept /\ LookedCells(a))
  <1>1. CASE Still
    BY <1>1, StillSame
  <1>2. CASE a \in Actors /\ Moves(a)
    <2>1. {"readBase", "readWiki", "readSessions", "readApplied", "collectEntries",
           "collectCells"} = Looks
      BY DEF Looks
    <2> QED BY <1>2, <2>1, MovesLook, LooksApart
  <1> QED BY <1>1, <1>2

-----------------------------------------------------------------------------
(* What is done stays done. *)

LEMMA DoneGrows ==
    ASSUME ServedInv, NEW a, Still \/ (a \in Actors /\ Moves(a)),
           NEW b \in Busy, b \in Busy', doing'[b].call = doing[b].call,
           DOMAIN doing[b] \subseteq DOMAIN doing'[b]
    PROVE  Done(b) \subseteq Done(b)'
  <1>1. Grown
    BY StepGrows
  <1>2. \A name : Holds(b, name) => HeldFields(name) \subseteq DOMAIN doing'[b]
    BY DEF Holds
  <1>3. PICK c : c = doing[b].call
    OBVIOUS
  <1>4. c = doing'[b].call
    BY <1>3
  <1>5. \A tag : HasCall(c, tag) => HasCall(c, tag)'
    BY <1>1, KeepsCall
  <1>6. /\ Done(b) = {tag \in Tags : \/ HasCall(c, tag)
                                   \/ \E name \in Looks : tag = Did(name) /\ Holds(b, name)}
        /\ Done(b)' = {tag \in Tags : \/ HasCall(c, tag)'
                                    \/ \E name \in Looks : tag = Did(name) /\ Holds(b, name)'}
    BY <1>3, <1>4 DEF Done
  <1>7. \A name : Holds(b, name) => Holds(b, name)'
    BY DEF Holds
  <1> QED BY <1>5, <1>6, <1>7

LEMMA PlannedMore ==
    ASSUME NEW s, NEW P, NEW Q, Planned(s, P), P \subseteq Q
    PROVE  Planned(s, Q)
  BY DEF Planned, Good

LEMMA CallPlanned ==
    ASSUME NEW s, Call(s), s # <<>>, NEW P
    PROVE  Planned(s, P)
  BY DEF Call, Tidy, Planned, Good

LEMMA TagsAre ==
    /\ \A n : Did(n) \in Tags => n \in {"writeState", "writeWiki", "appendCandidate"} \cup Looks
    /\ \A k : <<"check", k>> \in Tags => k \in {"approval", "audit"}
    /\ \A f, k : <<f, k>> \in Tags => f \notin {"history", "proposals", "gates"}
  BY DEF Tags, Applied, Reviewed, Approved, Recorded, Completed, TurnTold, Did, Looks

-----------------------------------------------------------------------------
(* What a step gives is done once it is made. *)

\* The new element is there.
LEMMA MoreHas ==
    ASSUME NEW old, NEW new, NEW x, More(old, new, x)
    PROVE  \E i \in DOMAIN new : new[i] = x
  BY DEF More

LEMMA DoneIs ==
    ASSUME NEW a, NEW tag \in Tags, NEW c, c = doing'[a].call,
           HasCall(c, tag)' \/ \E name \in Looks : tag = Did(name) /\ HeldFields(name) \subseteq DOMAIN doing'[a]
    PROVE  tag \in Done(a)'
  <1>1. \A name : HeldFields(name) \subseteq DOMAIN doing'[a] => Holds(a, name)'
    BY DEF Holds
  <1>2. Done(a)' = {u \in Tags : \/ HasCall(c, u)'
                                 \/ \E name \in Looks : u = Did(name) /\ Holds(a, name)'}
    BY DEF Done
  <1> QED BY <1>1, <1>2

\* A write is there once it is made.
LEMMA WroteHas ==
    ASSUME Files, NEW file \in Rewritten, NEW a, NEW seen, NEW kind, Wrote(file, a, seen, kind)
    PROVE  doing[a].call \in CallsThat(file, kind)'
  <1>1. PICK w : /\ w.call = doing[a].call /\ w.seen = seen /\ w.kind = kind
                 /\ More(writes[file], writes'[file], w)
    BY WroteMore
  <1>2. PICK i : i \in DOMAIN writes'[file] /\ writes'[file][i] = w
    BY <1>1 DEF More
  <1>3. PICK c : c = doing[a].call
    OBVIOUS
  <1>4. c \in CallsThat(file, kind)'
    BY <1>1, <1>2, <1>3, CallsIs
  <1> QED BY <1>3, <1>4

\* The line of a step is there once it is appended.
LEMMA LineHas ==
    ASSUME ServedInv, NEW a, Appended(a), NEW c,
           NEW tag, tag \in Gives(Head(doing[a].todo)) \cap Tags,
           c = doing[a].call
    PROVE  HasCall(c, tag)'
  <1> DEFINE x == Head(doing[a].todo)
             l == LineOf(a)
  <1>1. OnPlan(a) /\ Files /\ x.do = "append"
    BY DEF ServedInv, Appended, Does
  <1>2. /\ x.file \in LineFiles
        /\ More(lines[x.file], lines'[x.file], l)
    BY <1>1, AppendedMore
  <1>3. /\ Own(x.rec) => l.call = doing[a].call
        /\ ~Own(x.rec) => l.call = CheckId
        /\ x.file \notin {"history", "proposals", "gates"} => l.kind = Kind(x.rec)
        /\ ~Own(x.rec) => \/ x.file = "approvals" /\ l.kind = "approval"
                          \/ x.file = "audits" /\ l.kind = "audit"
                          \/ x.file = "queue" /\ l.kind \notin {"approval", "audit"}
    <2>1. OnPlan(a) /\ Head(doing[a].todo).do = "append"
      BY <1>1
    <2> QED BY <2>1, LineIs
  <1> HIDE DEF l
  <1>4. PICK i : i \in DOMAIN lines'[x.file] /\ lines'[x.file][i] = l
    BY <1>2, MoreHas
  <1>5. CASE Own(x.rec)
    <2>1. tag = <<x.file, Kind(x.rec)>> \/ tag = <<x.file, "any">>
      BY <1>1, <1>5 DEF Gives
    <2>2. x.file \notin {"history", "proposals", "gates"}
      BY <2>1, TagsAre
    <2>3. PICK f \in LineFiles : f = x.file
      BY <1>2
    <2>4. PICK k : k = Kind(x.rec)
      OBVIOUS
    <2>5. i \in DOMAIN lines'[f] /\ lines'[f][i].kind = k /\ lines'[f][i].call = c
      BY <1>3, <1>4, <1>5, <2>2, <2>3, <2>4
    <2>6. c \in LinesOf(f, k)'
      BY <2>5, CallsIs
    <2>7. HasCall(c, <<f, "any">>)' /\ (k # "any" => HasCall(c, <<f, k>>)')
      BY <2>5, <2>6, HasCallNext
    <2> QED BY <2>1, <2>3, <2>4, <2>7
  <1>6. CASE ~Own(x.rec)
    <2>1. tag = <<"check", Kind(x.rec)>>
      BY <1>1, <1>6 DEF Gives
    <2>2. Kind(x.rec) \in {"approval", "audit"}
      BY <2>1, TagsAre
    <2>3. x.file \notin {"history", "proposals", "gates"}
      BY <1>3, <1>6
    <2>4. CASE x.file = "approvals" /\ l.kind = "approval"
      <3>1. CheckId \in LinesOf("approvals", "approval")'
        BY <1>3, <1>4, <1>6, <2>4, CallsIs
      <3> QED BY <1>3, <2>1, <2>3, <2>4, <3>1, HasCallNext
    <2>5. CASE x.file = "audits" /\ l.kind = "audit"
      <3>1. CheckId \in LinesOf("audits", "audit")'
        BY <1>3, <1>4, <1>6, <2>5, CallsIs
      <3> QED BY <1>3, <2>1, <2>3, <2>5, <3>1, HasCallNext
    <2> QED BY <1>3, <1>6, <2>2, <2>3, <2>4, <2>5
  <1> QED BY <1>5, <1>6

\* A step that is not an append gives only that it was made.
LEMMA GivesDid ==
    ASSUME NEW x, x.do # "append"
    PROVE  /\ Gives(x) \subseteq {Did(x.do)}
           /\ x.do # "appendCandidate" => Gives(x) = {Did(x.do)}
           /\ x.do = "appendCandidate" /\ x.applied => Gives(x) = {}
  BY DEF Gives

LEMMA GivesNoTag ==
    ASSUME NEW x, x.do \notin {"append", "writeState", "writeWiki", "appendCandidate"} \cup Looks
    PROVE  Gives(x) \cap Tags = {}
  <1>1. Gives(x) = {Did(x.do)}
    BY GivesDid
  <1>2. Did(x.do) \notin Tags
    BY TagsAre
  <1> QED BY <1>1, <1>2

\* A candidate that is not applied is a captured one.
LEMMA CapturedHas ==
    ASSUME Files, NEW a, WroteCell(a), ~Head(doing[a].todo).applied
    PROVE  doing[a].call \in CallsThat("candidates", "cell")'
  <1>1. Wrote("candidates", a, Len(writes["candidates"]), "cell")
    BY DEF WroteCell
  <1> QED BY <1>1, WroteHas DEF Rewritten

\* A tag a step gives is done after the step.
LEMMA GivesDone ==
    ASSUME ServedInv, NEW a \in Actors, Moves(a), NEW rec, NEW t, Went(a, rec, t), a \in Busy'
    PROVE  Gives(Head(doing[a].todo)) \cap Tags \subseteq Done(a)'
  <1> DEFINE x == Head(doing[a].todo)
  <1>1. a \in Busy /\ OnPlan(a) /\ Files /\ doing'[a].call = doing[a].call /\ doing'[a] # Rest
    BY BusyIs DEF Went, ServedInv
  <1>2. PICK c : c = doing[a].call /\ c = doing'[a].call
    BY <1>1
  <1>3. CASE Walks(a)
    <2>1. x.do \notin {"append", "writeState", "writeWiki", "appendCandidate"} \cup Looks
      BY <1>3 DEF Walks, Walked, Looks
    <2> QED BY <2>1, GivesNoTag
  <1>4. CASE Ran(a) \/ WroteIndex(a) \/ WroteWelcome(a)
    <2>1. x.do \notin {"append", "writeState", "writeWiki", "appendCandidate"} \cup Looks
      BY <1>4 DEF Ran, WroteIndex, WroteWelcome, Does, Looks
    <2> QED BY <2>1, GivesNoTag
  <1>5. CASE Looking(a)
    <2>1. PICK name \in Looks : \E r, u : Looked(a, name, r, u)
      BY <1>5 DEF Looking, LookedBase, LookedWiki, LookedSessions, LookedApplied,
            LookedEntries, LookedCells, Looks
    <2>2. PICK r, u : Looked(a, name, r, u)
      BY <2>1
    <2>3. x.do = name /\ HeldFields(name) \subseteq DOMAIN doing'[a]
      BY <1>1, <2>2 DEF Looked, Does, Went
    <2>4. x.do # "append"
      BY <2>3 DEF Looks
    <2>5. Gives(x) \subseteq {Did(name)}
      BY <2>3, <2>4, GivesDid
    <2>6. Did(name) \in Tags => Did(name) \in Done(a)'
      BY <1>2, <2>3, DoneIs
    <2> QED BY <2>5, <2>6
  <1>6. CASE Writing(a)
    <2>1. CASE x.do \notin {"append", "writeState", "writeWiki", "appendCandidate"} \cup Looks
      BY <2>1, GivesNoTag
    <2>2. CASE WroteState(a)
      <3>1. c \in CallsThat("state", "turn")'
        BY <1>1, <1>2, <2>2, WroteHas DEF WroteState, Rewritten
      <3>2. HasCall(c, Did("writeState"))'
        BY <3>1, HasCallNext
      <3>3. Gives(x) = {Did("writeState")}
        BY <2>2, GivesDid DEF WroteState, Does
      <3> QED BY <1>2, <3>2, <3>3, DoneIs
    <2>3. CASE WroteWiki(a)
      <3>1. c \in CallsThat("wiki", "entry")'
        BY <1>1, <1>2, <2>3, WroteHas DEF WroteWiki, Rewritten
      <3>2. HasCall(c, Did("writeWiki"))'
        BY <3>1, HasCallNext
      <3>3. Gives(x) = {Did("writeWiki")}
        BY <2>3, GivesDid DEF WroteWiki, Does
      <3> QED BY <1>2, <3>2, <3>3, DoneIs
    <2>4. CASE WroteCell(a) /\ ~x.applied
      <3>1. c \in CallsThat("candidates", "cell")'
        BY <1>1, <1>2, <2>4, CapturedHas
      <3>2. HasCall(c, Did("appendCandidate"))'
        BY <3>1, HasCallNext
      <3>3. Gives(x) \subseteq {Did("appendCandidate")}
        BY <2>4, GivesDid DEF WroteCell, Does
      <3> QED BY <1>2, <3>2, <3>3, DoneIs
    <2>5. CASE WroteCell(a) /\ x.applied
      <3>1. Gives(x) = {}
        BY <2>5, GivesDid DEF WroteCell, Does
      <3> QED BY <3>1
    <2> QED BY <1>6, <2>1, <2>2, <2>3, <2>4, <2>5
        DEF Writing, WroteDefault, WroteEmptyWiki, WroteSessions, WroteEmptyCandidates,
            WroteCheckCell, WroteKept, Does, Looks
  <1>7. CASE Appended(a)
    <2>1. ASSUME NEW tag \in Gives(x) \cap Tags PROVE tag \in Done(a)'
      <3>1. HasCall(c, tag)'
        BY <1>2, <1>7, <2>1, LineHas
      <3> QED BY <1>2, <2>1, <3>1, DoneIs
    <2> QED BY <2>1
  <1>8. ~Quit(a) /\ ~CutsKept(a) /\ ~\E todo : Begun(a, todo)
    BY <1>1, BusyIs DEF Quit, CutsKept, Begun
  <1> QED BY <1>3, <1>4, <1>5, <1>6, <1>7, <1>8 DEF Moves, Quiet

-----------------------------------------------------------------------------
(* Plans. *)

\* What a step may put before the rest of its call.
Between(a, rec, t) ==
    \/ t = <<>>
    \/ Takes(t, {}, {}) /\ Head(doing[a].todo).do \in
                              (Walked \ {"respond"}) \cup {"readWiki", "readApplied"}
    \/ Does(a, "runCommand") /\ \E outcome \in {"tool_complete", "tool_error"} :
                                   t = <<Add("progress", outcome)>>
    \/ Does(a, "readApplied") /\ Rewriting(t) /\ HeldFields("readApplied") = DOMAIN rec

LEMMA MovesGo ==
    ASSUME NEW a, Moves(a)
    PROVE  \/ \E todo : Begun(a, todo)
           \/ Quit(a)
           \/ \E rec, t : Went(a, rec, t) /\ Between(a, rec, t)
  <1>1. CASE Walks(a) \/ Ran(a)
    BY <1>1 DEF Walks, Ran, Between
  <1>2. CASE Looking(a)
    <2>1. CASE LookedApplied(a)
      BY <2>1 DEF LookedApplied, Looked, Does, Between
    <2>2. CASE LookedWiki(a)
      BY <2>2 DEF LookedWiki, Looked, Does, Between
    <2>3. CASE ~LookedApplied(a) /\ ~LookedWiki(a)
      BY <1>2, <2>3 DEF Looking, LookedBase, LookedSessions, LookedEntries,
            LookedCells, Looked, Between
    <2> QED BY <2>1, <2>2, <2>3
  <1>3. CASE Writing(a) \/ Appended(a) \/ WroteIndex(a) \/ WroteWelcome(a)
    BY <1>3 DEF Writing, Appended, WroteIndex, WroteWelcome, Between
  <1> QED BY <1>1, <1>2, <1>3 DEF Moves, Quiet, CutsKept

\* The end of a tool, added while it ran.
OutcomeFacts(x) ==
    WellFormed(x) /\ Owes(x) = {} /\ Needs(x) = {} /\ x.do = "append"

LEMMA OutcomeIs ==
    ASSUME NEW outcome \in {"tool_complete", "tool_error"}
    PROVE  OutcomeFacts(Add("progress", outcome)) /\ Ends(Add("progress", outcome))
  <1>1. WellFormed(Add("progress", outcome))
    BY AddFormed DEF LineFiles
  <1>2. PICK x : x = Add("progress", outcome)
    OBVIOUS
  <1>3. /\ x.do = "append" /\ x.file = "progress" /\ Kind(x.rec) = outcome
        /\ Needs(x) = LineNeeds("progress", outcome)
    BY <1>2, OfAdd
  <1>4. Owes(x) = {} /\ Ends(x)
    BY <1>3 DEF Owes, Ends
  <1>5. Needs(x) = {}
    BY <1>3, FreeLines
  <1> QED BY <1>1, <1>2, <1>3, <1>4, <1>5 DEF OutcomeFacts

LEMMA RewritingIs ==
    ASSUME NEW t, Rewriting(t)
    PROVE  /\ IsList(t) /\ 1 \in DOMAIN t /\ DOMAIN t \subseteq {1, 2}
           /\ t[1] = Step("writeKept") /\ (2 \in DOMAIN t => t[2] \in Rollbacks)
  <1>1. CASE t = <<Step("writeKept")>>
    <2>1. PICK x : x = Step("writeKept")
      OBVIOUS
    <2>2. IsList(<<x>>) /\ DOMAIN <<x>> = {1} /\ <<x>>[1] = x
      BY Lists
    <2> QED BY <1>1, <2>1, <2>2
  <1>2. CASE \E y \in Rollbacks : t = <<Step("writeKept"), y>>
    BY <1>2, Pairs
  <1> QED BY <1>1, <1>2 DEF Rewriting

LEMMA RollbackIs ==
    ASSUME NEW y \in Rollbacks
    PROVE  OutcomeFacts(y) /\ ~Ends(y)
  <1>2. y.do = "append" /\ y.file = "queue" /\ Kind(y.rec) = "rollback" /\ "kind" \in DOMAIN y.rec
        /\ (~Own(y.rec) => y.rec.call = CheckId) /\ y.rec.kind = "rollback"
    BY DEF Rollbacks, CheckLine, Add, Line, Kind, Own
  <1>3. WellFormed(y)
    BY <1>2 DEF WellFormed, LineFiles
  <1>4. Owes(y) = {} /\ ~Ends(y)
    BY <1>2 DEF Owes, Ends
  <1>5. Needs(y) = {}
    <2>1. LineNeeds("queue", "rollback") = {}
      BY FreeLines
    <2> QED BY <1>2, <2>1 DEF Needs
  <1> QED BY <1>2, <1>3, <1>4, <1>5 DEF OutcomeFacts

LEMMA WriteKeptIs ==
    /\ WellFormed(Step("writeKept")) /\ Owes(Step("writeKept")) = {}
    /\ Needs(Step("writeKept")) = {Did("readApplied")} /\ Step("writeKept").do = "writeKept"
  <1>1. PICK x : x = Step("writeKept")
    OBVIOUS
  <1>2. x.do = "writeKept"
    BY <1>1 DEF Step
  <1>3. WellFormed(x) /\ Owes(x) = {} /\ Needs(x) = {Did("readApplied")}
    BY <1>2 DEF WellFormed, Owes, Needs
  <1> QED BY <1>1, <1>2, <1>3

\* A list whose first step may be one that follows another.
Loose(t, P) ==
    /\ IsList(t) /\ (\A i \in DOMAIN t : WellFormed(t[i])) /\ Prompt(t)
    /\ (\A i \in DOMAIN t \ {1} : Led(t, i)) /\ RollsBack(t) /\ Good(t, P)

LEMMA BetweenLoose ==
    ASSUME NEW a, NEW rec, NEW t, Went(a, rec, t), Between(a, rec, t), a \in Busy'
    PROVE  Loose(t, Done(a)')
  <1>1. CASE t = <<>>
    <2>1. IsList(t) /\ DOMAIN t = {}
      BY <1>1, Empty
    <2> QED BY <2>1 DEF Loose, Prompt, RollsBack, Good
  <1>2. CASE Takes(t, {}, {})
    BY <1>2 DEF Takes, Steps, Tidy, Good, Loose
  <1>3. CASE \E outcome \in {"tool_complete", "tool_error"} : t = <<Add("progress", outcome)>>
    <2>1. PICK outcome \in {"tool_complete", "tool_error"} : t = <<Add("progress", outcome)>>
      BY <1>3
    <2>2. PICK x : x = Add("progress", outcome)
      OBVIOUS
    <2>3. t = <<x>> /\ OutcomeFacts(x)
      BY <2>1, <2>2, OutcomeIs
    <2>4. IsList(t) /\ DOMAIN t = {1} /\ t[1] = x
      BY <2>3, Lists
    <2> QED BY <2>3, <2>4 DEF Loose, Prompt, RollsBack, Good, OutcomeFacts
  <1>4. CASE Does(a, "readApplied") /\ Rewriting(t) /\ HeldFields("readApplied") = DOMAIN rec
    <2>1. PICK x : x = Step("writeKept")
      OBVIOUS
    <2>4. IsList(t) /\ DOMAIN t \subseteq {1, 2} /\ t[1] = x
      BY <1>4, <2>1, RewritingIs
    <2>5. /\ WellFormed(x) /\ Owes(x) = {}
          /\ Needs(x) = {Did("readApplied")} /\ x.do = "writeKept"
      BY <2>1, WriteKeptIs
    <2>11. 2 \in DOMAIN t => OutcomeFacts(t[2]) /\ ~Ends(t[2])
      BY <1>4, RewritingIs, RollbackIs
    <2>6. Did("readApplied") \in Done(a)'
      <3>1. HeldFields("readApplied") \subseteq DOMAIN doing'[a]
        BY <1>4, BusyIs DEF Went
      <3>2. "readApplied" \in Looks
        BY DEF Looks
      <3>3. Did("readApplied") \in Tags
        BY <3>2, LooksAre
      <3> QED BY <3>1, <3>2, <3>3, DoneIs
    <2>7. \A i \in DOMAIN t \ {1} : Led(t, i)
      BY <2>4, <2>5, <2>11 DEF Led, OutcomeFacts
    <2>8. Prompt(t) /\ RollsBack(t)
      BY <2>4, <2>5, <2>11 DEF Prompt, RollsBack, OutcomeFacts
    <2>9. Good(t, Done(a)')
      BY <2>4, <2>5, <2>6, <2>11 DEF Good, OutcomeFacts
    <2>10. \A i \in DOMAIN t : WellFormed(t[i])
      BY <2>4, <2>5, <2>11 DEF OutcomeFacts
    <2> QED BY <2>4, <2>7, <2>8, <2>9, <2>10 DEF Loose
  <1> QED BY <1>1, <1>2, <1>3, <1>4 DEF Between

LEMMA BetweenApart ==
    ASSUME NEW a, NEW rec, NEW t, Between(a, rec, t), t # <<>>
    PROVE  Head(doing[a].todo).do \in Walked \cup {"runCommand", "readWiki", "readApplied"}
  BY DEF Between, Does

\* A process that moves is still on its plan.
LEMMA PlanKept ==
    ASSUME ServedInv, NEW a, Still \/ (a \in Actors /\ Moves(a)), NEW b \in Busy'
    PROVE  OnPlan(b)'
  <1>1. b \in Actors /\ doing'[b] # Rest
    BY BusyIs
  <1>2. ASSUME doing'[b] = doing[b] PROVE OnPlan(b)'
    <2>1. b \in Busy
      BY <1>1, <1>2, BusyIs
    <2>2. OnPlan(b)
      BY <2>1 DEF ServedInv
    <2>3. Done(b) \subseteq Done(b)'
      BY <1>2, <2>1, DoneGrows
    <2>4. Planned(doing[b].todo, Done(b)')
      BY <2>2, <2>3, PlannedMore DEF OnPlan
    <2> QED BY <1>2, <2>2, <2>4 DEF OnPlan
  <1>3. CASE Still
    BY <1>2, <1>3 DEF Still
  <1>4. ASSUME a \in Actors, Moves(a) PROVE OnPlan(b)'
    <2>1. CASE b # a
      <3>1. Others(a)
        BY <1>4, MovesHow DEF Begun, Quit, Went
      <3> QED BY <1>1, <1>2, <2>1, <3>1 DEF Others
    <2>2. CASE b = a /\ \E todo : Begun(a, todo)
      <3>1. PICK todo : Begun(a, todo)
        BY <2>2
      <3>2. Planned(todo, Done(a)')
        BY <3>1, CallPlanned DEF Begun
      <3> QED BY <2>2, <3>1, <3>2 DEF OnPlan, Begun
    <2>3. CASE b = a /\ Quit(a)
      BY <1>1, <2>3 DEF Quit
    <2>4. ASSUME b = a, NEW rec, NEW t, Went(a, rec, t), Between(a, rec, t) PROVE OnPlan(b)'
      <3>1. a \in Busy /\ OnPlan(a)
        BY <2>4 DEF Went, ServedInv
      <3>2. /\ DOMAIN doing'[a] = DOMAIN rec \cup DOMAIN doing[a]
            /\ doing'[a].call = doing[a].call
            /\ doing'[a].todo = t \o Tail(doing[a].todo)
            /\ doing'[a].todo # <<>>
        BY <1>1, <2>4 DEF Went
      <3>3. Done(a) \subseteq Done(a)'
        BY <1>4, <2>4, <3>1, <3>2, DoneGrows
      <3>4. Loose(t, Done(a)')
        BY <2>4, BetweenLoose
      <3>5. Gives(Head(doing[a].todo)) \cap Tags \subseteq Done(a)'
        BY <1>4, <2>4, GivesDone
      <3>6. Head(doing[a].todo) = doing[a].todo[1]
        BY <3>1, HeadIs
      <3>7. t # <<>> => ~Runs(doing[a].todo[1]) /\ doing[a].todo[1].do # "collectCells"
        BY <2>4, <3>6, BetweenApart DEF Walked, Runs
      <3>8. PICK s : s = doing[a].todo
        OBVIOUS
      <3>9. PICK P : P = Done(a)
        OBVIOUS
      <3>10. PICK Q : Q = Done(a)'
        OBVIOUS
      <3>11. PICK r : r = doing'[a].todo
        OBVIOUS
      <3>12. Planned(s, P) /\ P \subseteq Q /\ Gives(s[1]) \cap Tags \subseteq Q
             /\ r = t \o Tail(s) /\ r # <<>>
             /\ (t # <<>> => ~Runs(s[1]) /\ s[1].do # "collectCells")
             /\ Loose(t, Q)
        BY <3>1, <3>2, <3>3, <3>4, <3>5, <3>6, <3>7, <3>8, <3>9, <3>10, <3>11 DEF OnPlan
      <3>13. \A x : Needs(x) \subseteq Tags
        BY NeedsTags
      <3>14. IsList(t) /\ (\A i \in DOMAIN t : WellFormed(t[i])) /\ Prompt(t)
             /\ (\A i \in DOMAIN t \ {1} : Led(t, i)) /\ RollsBack(t) /\ Good(t, Q)
        BY <3>12, Zenon DEF Loose
      <3>15. Planned(r, Q)
        BY ONLY <3>12, <3>13, <3>14, RestPlanned
      <3> QED BY <2>4, <3>1, <3>2, <3>10, <3>11, <3>15 DEF OnPlan
    <2> QED BY <1>4, <2>1, <2>2, <2>3, <2>4, MovesGo
  <1> QED BY <1>3, <1>4

-----------------------------------------------------------------------------
(* What lines and candidates name. *)

\* What a step needs is there for it.
LEMMA NeededHas ==
    ASSUME ServedInv, NEW a \in Busy, NEW tag \in Needs(Head(doing[a].todo)),
           \A name \in Looks : tag # Did(name)
    PROVE  HasCall(doing[a].call, tag)
  BY HeadIs DEF ServedInv, Done

LEMMA NotLooks ==
    /\ \A f, k : \A tag \in LineNeeds(f, k) : \A name \in Looks : tag # Did(name)
    /\ \A tag \in Approved : \A name \in Looks : tag # Did(name)
    /\ \A name \in Looks : Did("writeWiki") # Did(name) /\ Did("writeState") # Did(name)
                           /\ Did("appendCandidate") # Did(name)
    /\ \A f, k : f # "did" => \A name \in Looks : <<f, k>> # Did(name)
  <1>1. \A name \in Looks : Did("writeWiki") # Did(name) /\ Did("writeState") # Did(name)
                           /\ Did("appendCandidate") # Did(name)
    BY DEF Looks, Did
  <1>2. \A f, k : f # "did" => \A name \in Looks : <<f, k>> # Did(name)
    BY DEF Did
  <1>3. \A tag \in Approved \cup Recorded \cup Completed : \A name \in Looks : tag # Did(name)
    BY <1>2 DEF Approved, Recorded, Completed
  <1>4. \A tag \in Reviewed : \A name \in Looks : tag # Did(name)
    BY <1>1, <1>2 DEF Reviewed
  <1>5. \A tag \in Applied : \A name \in Looks : tag # Did(name)
    BY <1>2, <1>3, <1>4 DEF Applied
  <1>6. \A f, k : LineNeeds(f, k) \in {Reviewed, Applied, Recorded, Completed,
                                       {Did("writeState")}, {}}
    BY DEF LineNeeds
  <1>7. \A f, k : \A tag \in LineNeeds(f, k) : \A name \in Looks : tag # Did(name)
    BY <1>1, <1>3, <1>4, <1>5, <1>6
  <1> QED BY <1>1, <1>2, <1>3, <1>7

LEMMA NewCalls ==
    ASSUME Files, NEW file \in Rewritten, NEW a, NEW seen, NEW kind, Wrote(file, a, seen, kind),
           NEW f \in Rewritten, NEW k, NEW c, c \in CallsThat(f, k)'
    PROVE  c \in CallsThat(f, k) \/ (f = file /\ k = kind /\ c = doing[a].call)
  <1>1. PICK i : i \in DOMAIN writes'[f] /\ writes'[f][i].kind = k /\ writes'[f][i].call = c
    BY CallsIs
  <1>2. /\ \A g \in Rewritten : g # file => writes'[g] = writes[g]
        /\ \E w : /\ w.call = doing[a].call /\ w.seen = seen /\ w.kind = kind
                  /\ More(writes[file], writes'[file], w)
    BY WroteMore
  <1>3. CASE f # file
    BY <1>1, <1>2, <1>3, CallsIs
  <1>4. CASE f = file
    <2>1. PICK w : /\ w.call = doing[a].call /\ w.seen = seen /\ w.kind = kind
                   /\ More(writes[file], writes'[file], w)
      BY <1>2
    <2>2. writes'[f][i] = w \/ (i \in DOMAIN writes[f] /\ writes'[f][i] = writes[f][i])
      BY <1>1, <1>4, <2>1 DEF More
    <2> QED BY <1>1, <1>4, <2>1, <2>2, CallsIs
  <1> QED BY <1>3, <1>4

\* Who made a write that is new.
LEMMA WhoWrote ==
    ASSUME ServedInv, NEW a, Still \/ (a \in Actors /\ Moves(a)), NEW c
    PROVE  /\ c \in CallsThat("state", "turn")' =>
                 c \in CallsThat("state", "turn")
                 \/ (c = doing[a].call /\ Writing(a) /\ WroteState(a))
           /\ c \in CallsThat("wiki", "entry")' =>
                 c \in CallsThat("wiki", "entry")
                 \/ (c = doing[a].call /\ Writing(a) /\ WroteWiki(a))
           /\ c \in CallsThat("candidates", "cell")' =>
                 c \in CallsThat("candidates", "cell")
                 \/ (c = doing[a].call /\ Writing(a) /\ WroteCell(a))
           /\ c \in CallsThat("sessions", "submitted")' =>
                 c \in CallsThat("sessions", "submitted")
                 \/ (c = doing[a].call /\ Writing(a) /\ WroteSessions(a)
                     /\ Head(doing[a].todo).kind = "submitted")
  <1>1. Files /\ {"state", "wiki", "candidates", "sessions"} = Rewritten
    BY DEF ServedInv, Rewritten
  <1>2. CASE UNCHANGED writes
    BY <1>2 DEF CallsThat
  <1>3. CASE Writing(a) \/ CutsKept(a)
    <2>1. CASE Writing(a) /\ WroteState(a)
      BY <1>1, <2>1, NewCalls DEF WroteState
    <2>2. CASE Writing(a) /\ WroteWiki(a)
      BY <1>1, <2>2, NewCalls DEF WroteWiki
    <2>3. CASE Writing(a) /\ WroteCell(a)
      BY <1>1, <2>3, NewCalls DEF WroteCell
    <2>4. CASE Writing(a) /\ WroteSessions(a)
      BY <1>1, <2>4, NewCalls DEF WroteSessions
    <2>5. CASE WroteDefault(a)
      BY <1>1, <2>5, NewCalls DEF WroteDefault
    <2>6. CASE WroteEmptyWiki(a)
      BY <1>1, <2>6, NewCalls DEF WroteEmptyWiki
    <2>7. CASE WroteEmptyCandidates(a)
      BY <1>1, <2>7, NewCalls DEF WroteEmptyCandidates
    <2>8. CASE WroteCheckCell(a)
      BY <1>1, <2>8, NewCalls DEF WroteCheckCell
    <2>9. CASE WroteKept(a)
      BY <1>1, <2>9, NewCalls DEF WroteKept
    <2>10. CASE CutsKept(a)
      BY <1>1, <2>10, NewCalls DEF CutsKept
    <2> QED BY <1>3, <2>1, <2>2, <2>3, <2>4, <2>5, <2>6, <2>7, <2>8, <2>9, <2>10 DEF Writing
  <1> QED BY <1>2, <1>3 DEF Still, Moves, Quiet, FilesKept, Appended, WroteIndex, WroteWelcome

LEMMA NeedsAre ==
    ASSUME NEW x
    PROVE  /\ x.do = "append" => Needs(x) = LineNeeds(x.file, Kind(x.rec))
           /\ x.do = "appendCandidate" =>
                 /\ Did("writeWiki") \in Needs(x)
                 /\ x.applied => Approved \subseteq Needs(x)
           /\ x.do = "writeSessions" /\ x.kind = "submitted" => <<"osTurns", "any">> \in Needs(x)
           /\ x.do = "appendCheckCell" =>
                 Needs(x) = {<<"check", "approval">>, <<"check", "audit">>}
  BY DEF Needs

\* The parts of Backed.
BackedLines ==
    \A f \in LineFiles : \A i \in DOMAIN lines[f] :
        \A tag \in LineNeeds(f, Kind(lines[f][i])) : HasCall(lines[f][i].call, tag)
BackedCells ==
    \A c \in candidates.cells : c.applied => \A tag \in Approved : HasCall(c.call, tag)

LEMMA BackedIs ==
    Backed <=> /\ BackedLines /\ BackedCells
               /\ \A c \in CallsThat("candidates", "cell") : HasCall(c, Did("writeWiki"))
               /\ \A c \in CallsThat("sessions", "submitted") : HasCall(c, <<"osTurns", "any">>)
  BY DEF Backed, BackedLines, BackedCells

\* A new line names only what is there.
LEMMA LinesBacked ==
    ASSUME ServedInv, NEW a, Still \/ (a \in Actors /\ Moves(a))
    PROVE  BackedLines'
  <1>1. Files /\ BackedLines /\ Grown
    BY StepGrows, BackedIs DEF ServedInv
  <1>2. ASSUME NEW f \in LineFiles, NEW i \in DOMAIN lines'[f],
               i \in DOMAIN lines[f], lines'[f][i] = lines[f][i],
               NEW tag \in LineNeeds(f, Kind(lines'[f][i]))
        PROVE  HasCall(lines[f][i].call, tag)'
    <2>1. PICK c : c = lines[f][i].call
      OBVIOUS
    <2>2. HasCall(c, tag)
      BY <1>1, <1>2, <2>1 DEF BackedLines
    <2>3. HasCall(c, tag)'
      BY <1>1, <2>2, KeepsCall
    <2>4. c = lines'[f][i].call
      BY <1>2, <2>1
    <2> QED BY <2>3, <2>4
  <1>3. CASE UNCHANGED lines
    <2>1. ASSUME NEW f \in LineFiles, NEW i \in DOMAIN lines'[f],
                 NEW tag \in LineNeeds(f, Kind(lines'[f][i]))
          PROVE  HasCall(lines[f][i].call, tag)'
      BY <1>2, <1>3, <2>1
    <2> QED BY <2>1 DEF BackedLines
  <1>4. CASE Appended(a)
    <2> DEFINE x == Head(doing[a].todo)
               l == LineOf(a)
    <2>1. OnPlan(a) /\ a \in Busy /\ x.do = "append"
      BY <1>4 DEF ServedInv, Appended, Does
    <2>2. /\ x.file \in LineFiles
          /\ \A f \in LineFiles : f # x.file => lines'[f] = lines[f]
          /\ More(lines[x.file], lines'[x.file], l)
      BY <1>1, <1>4, <2>1, AppendedMore
    <2>3. /\ Kind(l) = Kind(x.rec)
          /\ Own(x.rec) => l.call = doing[a].call
          /\ ~Own(x.rec) => x.file \in {"approvals", "audits", "queue"}
      BY <2>1, LineIs
    <2>4. Needs(x) = LineNeeds(x.file, Kind(x.rec))
      BY <2>1, NeedsAre
    <2> HIDE DEF l
    <2>5. PICK d : d = l.call
      OBVIOUS
    <2>6. ASSUME NEW tag \in LineNeeds(x.file, Kind(l)) PROVE HasCall(d, tag)'
      <3>1. Own(x.rec)
        BY <2>3, <2>6, FreeLines
      <3>2. PICK c : c = doing[a].call
        OBVIOUS
      <3>3. HasCall(c, tag)
        BY <2>1, <2>3, <2>4, <2>6, <3>2, NeededHas, NotLooks
      <3>4. HasCall(c, tag)'
        BY <1>1, <3>3, KeepsCall
      <3>5. d = c
        BY <2>3, <2>5, <3>1, <3>2
      <3> QED BY <3>4, <3>5
    <2>7. ASSUME NEW f \in LineFiles, NEW i \in DOMAIN lines'[f],
                 NEW tag \in LineNeeds(f, Kind(lines'[f][i]))
          PROVE  HasCall(lines[f][i].call, tag)'
      <3>1. CASE i \in DOMAIN lines[f] /\ lines'[f][i] = lines[f][i]
        BY <1>2, <2>7, <3>1
      <3>2. CASE f = x.file /\ lines'[f][i] = l
        <4>1. tag \in LineNeeds(x.file, Kind(l))
          BY <2>7, <3>2
        <4>2. HasCall(d, tag)'
          BY <2>6, <4>1
        <4>3. d = lines'[f][i].call
          BY <2>5, <3>2
        <4> QED BY <4>2, <4>3
      <3> QED BY <2>2, <2>7, <3>1, <3>2 DEF More
    <2> QED BY <2>7 DEF BackedLines
  <1> QED BY <1>3, <1>4
      DEF Still, Moves, Quiet, FilesKept, Writing, CutsKept, WroteIndex, WroteWelcome

-----------------------------------------------------------------------------
(* Candidates and what they name. *)

\* Of the applied candidates each has its approval.
CellsBacked(cells) == \A c \in cells : c.applied => \A tag \in Approved : HasCall(c.call, tag)

LEMMA ApprovedIs ==
    Approved = {<<"approvals", "approval">>, <<"audits", "audit">>}
  BY DEF Approved

LEMMA CheckBacked ==
    ASSUME ServedInv, NEW a \in Busy, Head(doing[a].todo).do = "appendCheckCell"
    PROVE  \A tag \in Approved : HasCall(CheckId, tag)
  <1>1. PICK c : c = doing[a].call
    OBVIOUS
  <1>2. HasCall(c, <<"check", "approval">>) /\ HasCall(c, <<"check", "audit">>)
    BY <1>1, NeedsAre, NeededHas, NotLooks
  <1>3. CheckId \in LinesOf("approvals", "approval") /\ CheckId \in LinesOf("audits", "audit")
    BY <1>2, HasCallIs
  <1>4. {"approvals", "audits"} \subseteq LineFiles
    BY DEF LineFiles
  <1>5. HasCall(CheckId, <<"approvals", "approval">>)
    BY <1>3, <1>4, HasCallIs
  <1>6. HasCall(CheckId, <<"audits", "audit">>)
    BY <1>3, <1>4, HasCallIs
  <1> QED BY <1>5, <1>6, ApprovedIs

LEMMA CellBacked ==
    ASSUME ServedInv, NEW a \in Busy, Head(doing[a].todo).do = "appendCandidate",
           Head(doing[a].todo).applied
    PROVE  \A tag \in Approved : HasCall(doing[a].call, tag)
  BY NeedsAre, NeededHas, NotLooks

LEMMA CellsBackedNext ==
    ASSUME Grown, NEW cells, CellsBacked(cells)
    PROVE  \A c \in cells : c.applied => \A tag \in Approved : HasCall(c.call, tag)'
  BY KeepsCall DEF CellsBacked

\* What a step makes of the candidates.
LEMMA CellsFrom ==
    ASSUME NEW a, Still \/ (a \in Actors /\ Moves(a))
    PROVE  \/ UNCHANGED candidates
           \/ Writing(a) /\ WroteEmptyCandidates(a)
           \/ Writing(a) /\ WroteCell(a)
           \/ Writing(a) /\ WroteCheckCell(a)
           \/ Writing(a) /\ WroteKept(a)
           \/ CutsKept(a)
  BY DEF Still, Moves, Quiet, FilesKept, Writing, Appended, WroteIndex, WroteWelcome,
         WroteDefault, WroteState, WroteEmptyWiki, WroteWiki, WroteSessions

LEMMA CellsStayBacked ==
    ASSUME ServedInv, NEW a, Still \/ (a \in Actors /\ Moves(a))
    PROVE  BackedCells'
  <1>1. Grown /\ CellsBacked(candidates.cells)
    BY StepGrows, BackedIs DEF ServedInv, BackedCells, CellsBacked
  <1>2. ASSUME NEW cells, CellsBacked(cells), candidates'.cells \subseteq cells
        PROVE  BackedCells'
    <2>1. \A c \in cells : c.applied => \A tag \in Approved : HasCall(c.call, tag)'
      BY <1>1, <1>2, CellsBackedNext
    <2> QED BY <1>2, <2>1 DEF BackedCells
  <1>3. CASE UNCHANGED candidates
    BY <1>1, <1>2, <1>3
  <1>4. CASE WroteEmptyCandidates(a)
    BY <1>4 DEF WroteEmptyCandidates, BackedCells
  <1>5. CASE WroteCell(a)
    <2>1. PICK new : new = [call |-> doing[a].call, applied |-> Head(doing[a].todo).applied]
      OBVIOUS
    <2>2. new.call = doing[a].call /\ (new.applied <=> Head(doing[a].todo).applied)
      BY <2>1, Zenon
    <2>3. new.applied => \A tag \in Approved : HasCall(new.call, tag)
      BY <1>5, <2>2, CellBacked DEF WroteCell, Does
    <2>4. candidates'.cells = candidates.cells \cup {new}
      BY <1>5, <2>1 DEF WroteCell
    <2>5. CellsBacked(candidates.cells \cup {new})
      BY <1>1, <2>3 DEF CellsBacked
    <2> QED BY <1>2, <2>4, <2>5
  <1>6. CASE WroteCheckCell(a)
    <2>1. CheckCell.call = CheckId
      BY DEF CheckCell
    <2>2. \A tag \in Approved : HasCall(CheckCell.call, tag)
      BY <1>6, <2>1, CheckBacked DEF WroteCheckCell, Does
    <2>3. CellsBacked(candidates.cells \cup {CheckCell})
      BY <1>1, <2>2 DEF CellsBacked
    <2> QED BY <1>2, <1>6, <2>3 DEF WroteCheckCell
  <1>7. CASE WroteKept(a) \/ CutsKept(a)
    <2>1. a \in Busy /\ Head(doing[a].todo).do = "writeKept"
          /\ candidates'.cells \subseteq doing[a].kept
      BY <1>7 DEF WroteKept, CutsKept, Does
    <2>2. CellsBacked(doing[a].kept)
      BY <2>1, SeenIs DEF ServedInv, CellsKept, CellsBacked
    <2> QED BY <1>2, <2>1, <2>2
  <1> QED BY <1>3, <1>4, <1>5, <1>6, <1>7, CellsFrom

\* What lines, candidates and sessions name is there after every step.
LEMMA BackedKept ==
    ASSUME ServedInv, NEW a, Still \/ (a \in Actors /\ Moves(a))
    PROVE  Backed'
  <1>1. Grown /\ Backed
    BY StepGrows DEF ServedInv
  <1>2. BackedLines' /\ BackedCells'
    BY LinesBacked, CellsStayBacked
  <1>3. ASSUME NEW c, c \in CallsThat("candidates", "cell")' PROVE HasCall(c, Did("writeWiki"))'
    <2>1. CASE c \in CallsThat("candidates", "cell")
      BY <1>1, <2>1, BackedIs, KeepsCall
    <2>2. CASE c = doing[a].call /\ Writing(a) /\ WroteCell(a)
      <3>1. HasCall(c, Did("writeWiki"))
        BY <2>2, NeedsAre, NeededHas, NotLooks DEF WroteCell, Does
      <3> QED BY <1>1, <3>1, KeepsCall
    <2> QED BY <1>3, <2>1, <2>2, WhoWrote
  <1>4. ASSUME NEW c, c \in CallsThat("sessions", "submitted")'
        PROVE  HasCall(c, <<"osTurns", "any">>)'
    <2>1. CASE c \in CallsThat("sessions", "submitted")
      BY <1>1, <2>1, BackedIs, KeepsCall
    <2>2. CASE c = doing[a].call /\ WroteSessions(a) /\ Head(doing[a].todo).kind = "submitted"
      <3>1. HasCall(c, <<"osTurns", "any">>)
        BY <2>2, NeedsAre, NeededHas, NotLooks DEF WroteSessions, Does
      <3> QED BY <1>1, <3>1, KeepsCall
    <2> QED BY <1>4, <2>1, <2>2, WhoWrote
  <1>5. (BackedLines /\ BackedCells
               /\ (\A c \in CallsThat("candidates", "cell") : HasCall(c, Did("writeWiki")))
               /\ \A c \in CallsThat("sessions", "submitted") : HasCall(c, <<"osTurns", "any">>))'
    BY <1>2, <1>3, <1>4
  <1> QED BY <1>5 DEF Backed, BackedLines, BackedCells

\* The step a process makes is the first of its list.
LEMMA StepOf ==
    ASSUME NEW a \in Busy, Moves(a), ~Quit(a)
    PROVE  /\ Does(a, "append") => Appended(a)
           /\ Does(a, "appendCandidate") => Writing(a) /\ WroteCell(a)
           /\ Does(a, "runCommand") => FilesKept /\ Ran(a)
           /\ Does(a, "writeIndex") => WroteIndex(a)
           /\ Does(a, "writeWelcome") => WroteWelcome(a)
           /\ Does(a, "collectCells") => FilesKept /\ LookedCells(a)
           /\ Does(a, "respond") => FilesKept /\ Walks(a)
           /\ Does(a, "writeKept") => Writing(a) /\ WroteKept(a)
           /\ Does(a, "readApplied") => FilesKept /\ LookedApplied(a)
  <1>1. ~\E todo : Begun(a, todo)
    BY BusyIs DEF Begun
  <1>2. CASE FilesKept /\ (Walks(a) \/ Ran(a))
    BY <1>2 DEF Walks, Walked, Ran, Does
  <1>3. CASE FilesKept /\ Looking(a)
    BY <1>3, LooksApart DEF Looking, Does, LookedBase, LookedWiki, LookedSessions,
       LookedApplied, LookedEntries, LookedCells, Looked
  <1>4. CASE Writing(a)
    BY <1>4 DEF Writing, Does, WroteDefault, WroteState, WroteEmptyWiki, WroteWiki, WroteSessions,
       WroteEmptyCandidates, WroteCell, WroteCheckCell, WroteKept
  <1>5. CASE Appended(a) \/ WroteIndex(a) \/ WroteWelcome(a)
    BY <1>5 DEF Appended, WroteIndex, WroteWelcome, Does
  <1> QED BY <1>1, <1>2, <1>3, <1>4, <1>5 DEF Moves, Quiet, CutsKept

\* The list of a call that goes on with no steps put in between.
LEMMA NextSteps ==
    ASSUME NEW a \in Busy, OnPlan(a), NEW rec, Went(a, rec, <<>>)
    PROVE  /\ 2 \in DOMAIN doing[a].todo => a \in Busy'
           /\ a \in Busy' =>
                 /\ doing'[a].call = doing[a].call
                 /\ doing'[a].todo # <<>> /\ 1 \in DOMAIN doing'[a].todo
                 /\ 2 \in DOMAIN doing[a].todo
                 /\ Head(doing'[a].todo) = doing[a].todo[2]
                 /\ \A i \in DOMAIN doing'[a].todo :
                       i + 1 \in DOMAIN doing[a].todo
                       /\ doing'[a].todo[i] = doing[a].todo[i + 1]
                 /\ \A i \in DOMAIN doing[a].todo \ {1} :
                       i - 1 \in DOMAIN doing'[a].todo
                       /\ doing'[a].todo[i - 1] = doing[a].todo[i]
  <1>1. PICK s : s = doing[a].todo
    OBVIOUS
  <1>2. /\ IsList(s) /\ s # <<>>
        /\ IsList(Tail(s)) /\ Len(Tail(s)) = Len(s) - 1 /\ Len(s) \in Nat \ {0}
        /\ DOMAIN Tail(s) = 1 .. Len(s) - 1
        /\ DOMAIN s = 1 .. Len(s)
        /\ \A i \in DOMAIN Tail(s) : i + 1 \in DOMAIN s /\ Tail(s)[i] = s[i + 1]
    BY <1>1, Shortened DEF OnPlan, Planned
  <1>3. <<>> \o Tail(s) = Tail(s)
    BY <1>2, JoinedEmpty
  <1>4. a \in Actors
    BY BusyIs
  <1>5. ASSUME 2 \in DOMAIN s PROVE a \in Busy'
    <2>1. Tail(s) # <<>>
      <3>1. PICK t : t = Tail(s)
        OBVIOUS
      <3>2. 1 \in DOMAIN t
        BY <1>2, <1>5, <3>1
      <3>3. DOMAIN <<>> = {}
        BY Empty
      <3> QED BY <3>1, <3>2, <3>3
    <2> QED BY <1>1, <1>4, <2>1, BusyIs DEF Went
  <1>6. ASSUME a \in Busy'
        PROVE  /\ doing'[a].call = doing[a].call /\ doing'[a].todo = Tail(s) /\ Tail(s) # <<>>
    BY <1>1, <1>3, <1>6, BusyIs DEF Went
  <1>7. Tail(s) # <<>> => /\ 1 \in DOMAIN Tail(s) /\ 2 \in DOMAIN s /\ Head(Tail(s)) = s[2]
                          /\ \A i \in DOMAIN s \ {1} : i - 1 \in DOMAIN Tail(s) /\ Tail(s)[i - 1] = s[i]
    BY <1>2, Shortened
  <1> QED BY <1>1, <1>2, <1>5, <1>6, <1>7

-----------------------------------------------------------------------------
(* What comes promptly. *)

\* What must come right after a write.
Promised == {TurnTold, {Did("appendCandidate")}}

LEMMA PromisesAre ==
    ASSUME NEW x, WellFormed(x), NEW tags \in Promised, Gives(x) \cap tags # {}
    PROVE  /\ tags = TurnTold => x.do = "append"
           /\ tags = {Did("appendCandidate")} => x.do = "appendCandidate" /\ ~x.applied
           /\ x.do \in {"append", "appendCandidate"}
           /\ tags \subseteq Tags
  <1>1. tags \subseteq Tags
    <2>1. Reviewed \subseteq Tags /\ TurnTold \subseteq Tags
      BY DEF Tags, Applied
    <2> QED BY <2>1 DEF Promised, Reviewed
  <1>2. x.do # "append" => Gives(x) \subseteq {Did(x.do)}
    BY GivesDid
  <1>3. ASSUME tags = TurnTold PROVE x.do = "append"
    BY <1>2, <1>3 DEF TurnTold, Did
  <1>4. ASSUME tags = {Did("appendCandidate")} PROVE x.do = "appendCandidate" /\ ~x.applied
    <2>0. x.do = "appendCandidate" => ~x.applied
      BY GivesDid
    <2>1. CASE x.do # "append"
      BY <1>2, <1>4, <2>0, <2>1 DEF Did
    <2>2. CASE x.do = "append"
      <3>1. x.file \in LineFiles /\ x.file # "did"
        BY <2>2, NotFiles DEF WellFormed
      <3>2. Did("appendCandidate") \in Gives(x)
        BY <1>4
      <3>3. \A f, k : f # "did" => <<f, k>> # Did("appendCandidate")
        BY DEF Did
      <3>4. Did("appendCandidate") \in {<<x.file, Kind(x.rec)>>, <<x.file, "any">>}
            \/ Did("appendCandidate") = <<"check", Kind(x.rec)>>
        BY <2>2, <3>2 DEF Gives
      <3> QED BY <3>1, <3>3, <3>4
    <2> QED BY <2>1, <2>2
  <1> QED BY <1>1, <1>3, <1>4 DEF Promised

\* A call that has promised something gives it with its next step, or is cut short.
LEMMA PromiseKept ==
    ASSUME ServedInv, NEW a, Still \/ (a \in Actors /\ Moves(a)),
           NEW c, NEW tags \in Promised, Pending(c, tags)
    PROVE  Pending(c, tags)' \/ \E tag \in tags : HasCall(c, tag)'
  <1>1. past.cut \subseteq past'.cut
    BY PastGrows
  <1>2. CASE c \in past.cut
    BY <1>1, <1>2 DEF Pending
  <1>3. ASSUME NEW b \in Busy, doing[b].call = c, Gives(Head(doing[b].todo)) \cap tags # {}
        PROVE  Pending(c, tags)' \/ \E tag \in tags : HasCall(c, tag)'
    <2>1. CASE doing'[b] = doing[b]
      <3>1. b \in Busy'
        BY <2>1, BusyIs
      <3> QED BY <1>3, <2>1, <3>1 DEF Pending
    <2>2. CASE Still
      BY <2>1, <2>2 DEF Still
    <2>3. CASE b # a /\ Moves(a)
      <3>1. Others(a) /\ b \in Actors
        BY <2>3, MovesHow, BusyIs DEF Begun, Quit, Went
      <3> QED BY <2>1, <2>3, <3>1 DEF Others
    <2>4. CASE b = a /\ Moves(a)
      <3> DEFINE x == Head(doing[a].todo)
      <3>1. OnPlan(a) /\ WellFormed(x) /\ a \in Busy
        BY <1>3, <2>4, HeadIs DEF ServedInv
      <3> HIDE DEF x
      <3>2. /\ tags = TurnTold => x.do = "append"
            /\ tags = {Did("appendCandidate")} => x.do = "appendCandidate" /\ ~x.applied
            /\ x.do \in {"append", "appendCandidate"}
            /\ tags \subseteq Tags
        BY <1>3, <2>4, <3>1, PromisesAre DEF x
      <3>3. CASE Quit(a)
        <4>1. doing[a].call \in past'.cut
          BY <3>2, <3>3 DEF Quit, Readers, x
        <4> QED BY <1>3, <2>4, <4>1 DEF Pending
      <3>4. CASE ~Quit(a) /\ x.do = "append"
        <4>1. Appended(a)
          BY <2>4, <3>1, <3>4, StepOf DEF Does, x
        <4>2. PICK tag \in tags : tag \in Gives(x)
          BY <1>3, <2>4 DEF x
        <4>3. HasCall(c, tag)'
          BY <1>3, <2>4, <3>2, <4>1, <4>2, LineHas DEF x
        <4> QED BY <4>2, <4>3
      <3>5. CASE ~Quit(a) /\ x.do = "appendCandidate"
        <4>1. WroteCell(a) /\ Files
          BY <2>4, <3>1, <3>5, StepOf DEF Does, x, ServedInv
        <4>2. tags = {Did("appendCandidate")}
          BY <3>2, <3>5 DEF Promised
        <4>3. c \in CallsThat("candidates", "cell")'
          BY <1>3, <2>4, <3>2, <4>1, <4>2, CapturedHas DEF x
        <4>4. HasCall(c, Did("appendCandidate"))'
          BY <4>3, HasCallNext
        <4> QED BY <4>2, <4>4
      <3> QED BY <3>2, <3>3, <3>4, <3>5
    <2> QED BY <2>2, <2>3, <2>4
  <1> QED BY <1>2, <1>3 DEF Pending

\* A step that promises something has another after it that gives it.
LEMMA PromiseMade ==
    ASSUME ServedInv, NEW a \in Busy, NEW rec, Went(a, rec, <<>>), NEW c, c = doing[a].call,
           NEW tags \in Promised, Owes(Head(doing[a].todo)) = tags
    PROVE  Pending(c, tags)'
  <1>1. OnPlan(a)
    BY DEF ServedInv
  <1>2. PICK s : s = doing[a].todo
    OBVIOUS
  <1>3. Prompt(s) /\ Owes(s[1]) = tags /\ 1 \in DOMAIN s
    BY <1>1, <1>2, HeadIs DEF OnPlan, Planned
  <1>4. tags # {}
    BY DEF Promised, TurnTold
  <1>5. 1 + 1 \in DOMAIN s /\ tags \cap Gives(s[1 + 1]) # {}
    BY <1>3, <1>4 DEF Prompt
  <1>6. PICK y : y = s[2]
    OBVIOUS
  <1>7. a \in Busy' /\ doing'[a].call = c /\ Head(doing'[a].todo) = y
    BY <1>1, <1>2, <1>5, <1>6, NextSteps
  <1>8. Gives(y) \cap tags # {}
    BY <1>5, <1>6
  <1> QED BY <1>7, <1>8 DEF Pending

\* A state or an entry without its next line is of a call about to add it.
LEMMA PromptedKept ==
    ASSUME ServedInv, NEW a, Still \/ (a \in Actors /\ Moves(a))
    PROVE  Prompted'
  <1>1. Grown /\ Prompted
    BY StepGrows DEF ServedInv
  <1>2. TurnTold \in Promised /\ {Did("appendCandidate")} \in Promised
    BY DEF Promised
  <1>3. ASSUME NEW c, c \in CallsThat("state", "turn")'
        PROVE  (\E tag \in TurnTold : HasCall(c, tag)') \/ Pending(c, TurnTold)'
    <2>1. CASE c \in CallsThat("state", "turn")
      <3>1. (\E tag \in TurnTold : HasCall(c, tag)) \/ Pending(c, TurnTold)
        BY <1>1, <2>1 DEF Prompted
      <3> QED BY <1>1, <1>2, <3>1, KeepsCall, PromiseKept
    <2>2. CASE c = doing[a].call /\ Writing(a) /\ WroteState(a)
      <3>1. a \in Busy /\ Went(a, <<>>, <<>>) /\ Head(doing[a].todo).do = "writeState"
        BY <2>2 DEF Writing, WroteState, Does
      <3>2. Owes(Head(doing[a].todo)) = TurnTold
        BY <3>1 DEF Owes
      <3> QED BY <1>2, <2>2, <3>1, <3>2, PromiseMade
    <2> QED BY <1>3, <2>1, <2>2, WhoWrote
  <1>4. ASSUME NEW c, c \in CallsThat("wiki", "entry")'
        PROVE  HasCall(c, Did("appendCandidate"))' \/ Pending(c, {Did("appendCandidate")})'
    <2>1. CASE c \in CallsThat("wiki", "entry")
      <3>1. HasCall(c, Did("appendCandidate")) \/ Pending(c, {Did("appendCandidate")})
        BY <1>1, <2>1 DEF Prompted
      <3> QED BY <1>1, <1>2, <3>1, KeepsCall, PromiseKept
    <2>2. CASE c = doing[a].call /\ Writing(a) /\ WroteWiki(a)
      <3>1. a \in Busy /\ Went(a, <<>>, <<>>) /\ Head(doing[a].todo).do = "writeWiki"
        BY <2>2 DEF Writing, WroteWiki, Does
      <3>2. Owes(Head(doing[a].todo)) = {Did("appendCandidate")}
        BY <3>1 DEF Owes
      <3> QED BY <1>2, <2>2, <3>1, <3>2, PromiseMade
    <2> QED BY <1>4, <2>1, <2>2, WhoWrote
  <1> QED BY <1>3, <1>4 DEF Prompted

-----------------------------------------------------------------------------
(* The turns are counted. *)

\* The turns among the first writes of a list of writes.
TurnSet(w, n) == {i \in DOMAIN w : i <= n /\ w[i].kind = "turn"}

LEMMA TurnSets ==
    ASSUME NEW w, IsList(w)
    PROVE  /\ \A n : Cardinality(TurnSet(w, n)) \in Nat
           /\ \A n, m \in Int : n <= m => Cardinality(TurnSet(w, n)) <= Cardinality(TurnSet(w, m))
  <1>1. Len(w) \in Nat /\ DOMAIN w = 1 .. Len(w)
    BY ListIs
  <1>2. IsFiniteSet(1 .. Len(w))
    BY <1>1, FS_Interval
  <1>3. \A n : IsFiniteSet(TurnSet(w, n))
    <2>1. \A n : TurnSet(w, n) \subseteq 1 .. Len(w)
      BY <1>1 DEF TurnSet
    <2> QED BY <1>2, <2>1, FS_Subset
  <1>4. \A n : Cardinality(TurnSet(w, n)) \in Nat
    BY <1>3, FS_CardinalityType
  <1>5. ASSUME NEW n \in Int, NEW m \in Int, n <= m
        PROVE  Cardinality(TurnSet(w, n)) <= Cardinality(TurnSet(w, m))
    <2>1. TurnSet(w, n) \subseteq TurnSet(w, m)
      BY <1>1, <1>5 DEF TurnSet
    <2> QED BY <1>3, <2>1, FS_Subset
  <1> QED BY <1>4, <1>5

LEMMA TurnsMore ==
    ASSUME NEW w, NEW v, NEW x, More(w, v, x)
    PROVE  /\ \A n \in 0 .. Len(w) : TurnSet(v, n) = TurnSet(w, n)
           /\ x.kind # "turn" => TurnSet(v, Len(v)) = TurnSet(w, Len(w))
           /\ x.kind = "turn" =>
                 Cardinality(TurnSet(v, Len(v))) = Cardinality(TurnSet(w, Len(w))) + 1
  <1>1. /\ Len(w) \in Nat /\ DOMAIN w = 1 .. Len(w) /\ Len(v) = Len(w) + 1
        /\ DOMAIN v = 1 .. Len(w) + 1 /\ v[Len(w) + 1] = x
        /\ \A i \in DOMAIN w : v[i] = w[i]
    BY DEF More
  <1>2. \A n \in 0 .. Len(w) : TurnSet(v, n) = TurnSet(w, n)
    BY <1>1 DEF TurnSet
  <1>3. x.kind # "turn" => TurnSet(v, Len(v)) = TurnSet(w, Len(w))
    BY <1>1 DEF TurnSet
  <1>4. ASSUME x.kind = "turn"
        PROVE  Cardinality(TurnSet(v, Len(v))) = Cardinality(TurnSet(w, Len(w))) + 1
    <2>1. TurnSet(v, Len(v)) = TurnSet(w, Len(w)) \cup {Len(w) + 1}
      BY <1>1, <1>4 DEF TurnSet
    <2>2. Len(w) + 1 \notin TurnSet(w, Len(w))
      BY <1>1 DEF TurnSet
    <2>3. IsFiniteSet(TurnSet(w, Len(w)))
      <3>1. TurnSet(w, Len(w)) \subseteq 1 .. Len(w)
        BY <1>1 DEF TurnSet
      <3>2. IsFiniteSet(1 .. Len(w))
        BY <1>1, FS_Interval
      <3> QED BY <3>1, <3>2, FS_Subset
    <2> QED BY <2>1, <2>2, <2>3, FS_AddElement
  <1> QED BY <1>2, <1>3, <1>4

LEMMA TurnsIs ==
    ASSUME NEW n
    PROVE  /\ TurnsOf(n) = Cardinality(TurnSet(writes["state"], n))
           /\ TurnsOf(n)' = Cardinality(TurnSet(writes'["state"], n))
  <1>1. TurnsOf(n) = Cardinality(TurnSet(writes["state"], n))
    BY DEF TurnsOf, TurnSet
  <1>2. TurnsOf(n)' = Cardinality(TurnSet(writes'["state"], n))
    BY DEF TurnsOf, TurnSet
  <1> QED BY <1>1, <1>2

LEMMA StateFrom ==
    ASSUME ServedInv, NEW a, Still \/ (a \in Actors /\ Moves(a))
    PROVE  \/ RuntimeKept /\ writes'["state"] = writes["state"]
           \/ Writing(a) /\ WroteDefault(a)
           \/ Writing(a) /\ WroteState(a)
  <1>1. Files /\ {"state", "wiki", "candidates", "sessions"} = Rewritten
    BY DEF ServedInv, Rewritten
  <1>2. ASSUME NEW file \in Rewritten, file # "state", NEW seen, NEW kind, Wrote(file, a, seen, kind)
        PROVE  writes'["state"] = writes["state"]
    BY <1>1, <1>2, WroteMore
  <1>3. CASE Writing(a) /\ ~WroteDefault(a) /\ ~WroteState(a)
    BY <1>1, <1>2, <1>3 DEF Writing, WroteEmptyWiki, WroteWiki, WroteSessions,
       WroteEmptyCandidates, WroteCell, WroteCheckCell, WroteKept
  <1>4. CASE CutsKept(a)
    BY <1>1, <1>2, <1>4 DEF CutsKept, TextsKept
  <1> QED BY <1>3, <1>4 DEF Still, Moves, Quiet, FilesKept, TextsKept, Appended, WroteIndex,
                            WroteWelcome

\* A write that is added disturbs or not, and the earlier ones did not.
LEMMA UndisturbedMore ==
    ASSUME NEW file, NEW x, More(writes[file], writes'[file], x), Undisturbed(file)'
    PROVE  Undisturbed(file) /\ x.seen = Len(writes[file])
  <1>1. \A i \in DOMAIN writes'[file] : writes'[file][i].seen = i - 1
    BY DEF Undisturbed
  <1>2. Len(writes[file]) + 1 \in DOMAIN writes'[file]
        /\ writes'[file][Len(writes[file]) + 1] = x /\ Len(writes[file]) \in Nat
    BY DEF More
  <1>3. x.seen = Len(writes[file])
    BY <1>1, <1>2
  <1>4. Undisturbed(file)
    BY <1>1 DEF Undisturbed, More
  <1> QED BY <1>3, <1>4

LEMMA UndisturbedSame ==
    ASSUME NEW file, writes'[file] = writes[file]
    PROVE  Undisturbed(file)' <=> Undisturbed(file)
  BY DEF Undisturbed

\* The counter, and each look at it.
CountIs(n, seen) ==
    /\ seen \in 0 .. Len(writes["state"])
    /\ n \in 0 .. TurnsOf(Len(writes["state"]))
    /\ Undisturbed("state") => n = TurnsOf(seen)

\* What a process has just seen is what it holds.
LEMMA BaseSeen ==
    ASSUME NEW a, LookedBase(a), a \in Busy'
    PROVE  doing'[a].base = runtime.turns /\ doing'[a].baseSeen = Len(writes["state"])
  <1>1. PICK rec : /\ Looked(a, "readBase", rec, <<>>)
                   /\ rec.base = runtime.turns /\ rec.baseSeen = Len(writes["state"])
    BY DEF LookedBase
  <1>2. DOMAIN rec = {"base", "baseSeen"} /\ Went(a, rec, <<>>)
    BY <1>1 DEF Looked, HeldFields
  <1> QED BY <1>1, <1>2, BusyIs DEF Went

LEMMA CountKept ==
    ASSUME ServedInv, NEW n, NEW seen, CountIs(n, seen), Grown,
           \/ writes'["state"] = writes["state"]
           \/ \E x : More(writes["state"], writes'["state"], x)
    PROVE  CountIs(n, seen)'
  <1>0. PICK W, V, N, M : /\ W = writes["state"] /\ V = writes'["state"]
                          /\ N = Len(W) /\ M = Len(V)
    OBVIOUS
  <1>1. IsList(W) /\ IsList(V) /\ N \in Nat /\ M \in Nat /\ N <= M
    BY <1>0, ListIs DEF ServedInv, Files, Grown, Longer, Rewritten
  <1>2. \A m \in 0 .. N : TurnsOf(m)' = TurnsOf(m)
    BY <1>0, TurnsIs, TurnsMore
  <1>3. TurnsOf(N) \in Nat /\ TurnsOf(N)' <= TurnsOf(M)' /\ TurnsOf(M)' \in Nat
    BY <1>0, <1>1, TurnsIs, TurnSets
  <1>4. Undisturbed("state")' => Undisturbed("state")
    BY UndisturbedMore, UndisturbedSame
  <1>5. seen \in 0 .. N /\ n \in 0 .. TurnsOf(N)
        /\ (Undisturbed("state") => n = TurnsOf(seen))
    BY <1>0 DEF CountIs
  <1>6. TurnsOf(N)' = TurnsOf(N)
    BY <1>1, <1>2
  <1>7. seen \in 0 .. M /\ n \in 0 .. TurnsOf(M)'
    BY <1>1, <1>3, <1>5, <1>6
  <1>8. Undisturbed("state")' => n = TurnsOf(seen)'
    BY <1>2, <1>4, <1>5
  <1>9. M = Len(writes'["state"])
    BY <1>0
  <1> QED BY <1>7, <1>8, <1>9 DEF CountIs

\* The counter and the looks at it stay right.
LEMMA CountedKept ==
    ASSUME ServedInv, NEW a, Still \/ (a \in Actors /\ Moves(a))
    PROVE  Counted'
  <1>0. PICK W, V, N, M : /\ W = writes["state"] /\ V = writes'["state"]
                          /\ N = Len(W) /\ M = Len(V)
    OBVIOUS
  <1>1. Grown /\ Counted /\ Files /\ "state" \in Rewritten
    BY StepGrows DEF ServedInv, Rewritten
  <1>2. IsList(W) /\ IsList(V) /\ N \in Nat /\ M \in Nat
    BY <1>0, <1>1, ListIs DEF Files, Grown, Longer
  <1>3. CountIs(runtime.turns, N)
    BY <1>0, <1>1, <1>2 DEF Counted, CountIs
  <1>4. \/ RuntimeKept /\ V = W
        \/ Writing(a) /\ WroteDefault(a)
        \/ Writing(a) /\ WroteState(a)
    BY <1>0, StateFrom
  <1>5. \A file, seen, kind : Wrote(file, a, seen, kind) /\ file = "state" =>
            \E w : /\ w.call = doing[a].call /\ w.seen = seen /\ w.kind = kind
                   /\ More(W, V, w)
    BY <1>0, <1>1, WroteMore
  <1>6. V = W \/ \E w : More(W, V, w)
    BY <1>4, <1>5 DEF WroteDefault, WroteState
  <1>7. \A n, seen : CountIs(n, seen) => CountIs(n, seen)'
    BY <1>0, <1>1, <1>6, CountKept
  <1>8. PICK turns : turns = runtime'.turns
    OBVIOUS
  <1>9. CountIs(turns, M)'
    <2>1. CASE RuntimeKept /\ V = W
      <3>1. turns = runtime.turns /\ M = N
        BY <1>0, <1>8, <2>1 DEF RuntimeKept
      <3> QED BY <1>3, <1>7, <3>1
    <2>2. CASE Writing(a) /\ WroteDefault(a)
      <3>1. PICK w : w.seen = 0 /\ w.kind = "default" /\ More(W, V, w)
        BY <1>5, <2>2 DEF WroteDefault
      <3>2. turns = 0
        BY <1>8, <2>2 DEF WroteDefault
      <3>3. TurnsOf(M)' = TurnsOf(N) /\ TurnsOf(N) \in Nat
        BY <1>0, <1>2, <3>1, TurnsIs, TurnSets, TurnsMore
      <3>4. ASSUME Undisturbed("state")' PROVE turns = TurnsOf(M)'
        <4>1. N = 0
          BY <1>0, <3>1, <3>4, UndisturbedMore
        <4>2. TurnSet(W, N) = {}
          BY <1>0, <1>2, <4>1, ListIs DEF TurnSet
        <4>3. TurnsOf(N) = 0
          BY <1>0, <4>2, TurnsIs, FS_EmptySet
        <4> QED BY <3>2, <3>3, <4>3
      <3>5. M \in 0 .. Len(writes'["state"]) /\ M = Len(writes'["state"])
        BY <1>0, <1>2
      <3>6. turns \in 0 .. TurnsOf(M)'
        BY <3>2, <3>3
      <3> QED BY <3>4, <3>5, <3>6 DEF CountIs
    <2>3. CASE Writing(a) /\ WroteState(a)
      <3>1. PICK w : w.seen = doing[a].baseSeen /\ w.kind = "turn" /\ More(W, V, w)
        BY <1>5, <2>3 DEF WroteState
      <3>2. a \in Busy /\ Holds(a, "readBase")
        BY <2>3, SeenIs DEF WroteState, Does
      <3>3. /\ doing[a].base \in 0 .. TurnsOf(N)
            /\ Undisturbed("state") => doing[a].base = TurnsOf(doing[a].baseSeen)
        BY <1>0, <1>1, <3>2 DEF Counted
      <3>4. turns = doing[a].base + 1
        BY <1>8, <2>3 DEF WroteState
      <3>5. TurnsOf(M)' = TurnsOf(N) + 1 /\ TurnsOf(N) \in Nat
        BY <1>0, <1>2, <3>1, TurnsIs, TurnSets, TurnsMore
      <3>6. ASSUME Undisturbed("state")' PROVE turns = TurnsOf(M)'
        <4>1. w.seen = N /\ Undisturbed("state")
          BY <1>0, <3>1, <3>6, UndisturbedMore
        <4>2. doing[a].baseSeen = N
          BY <3>1, <4>1
        <4>3. doing[a].base = TurnsOf(N)
          BY <3>3, <4>1, <4>2
        <4> QED BY <3>4, <3>5, <4>3
      <3>7. M \in 0 .. Len(writes'["state"]) /\ M = Len(writes'["state"])
        BY <1>0, <1>2
      <3>8. turns \in 0 .. TurnsOf(M)'
        BY <3>3, <3>4, <3>5
      <3> QED BY <3>6, <3>7, <3>8 DEF CountIs
    <2> QED BY <1>4, <2>1, <2>2, <2>3
  <1>10. ASSUME NEW b \in Busy', Holds(b, "readBase")', NEW n, NEW seen,
                n = doing'[b].base, seen = doing'[b].baseSeen
         PROVE  CountIs(n, seen)'
    <2>1. {"base", "baseSeen"} \subseteq DOMAIN doing'[b] /\ HeldFields("readBase") = {"base", "baseSeen"}
      BY <1>10 DEF Holds, HeldFields
    <2>2. CASE SameFor(b, "readBase")
      <3>1. b \in Busy /\ Holds(b, "readBase") /\ n = doing[b].base /\ seen = doing[b].baseSeen
        BY <1>10, <2>1, <2>2 DEF SameFor
      <3>2. CountIs(n, seen)
        BY <1>1, <3>1 DEF Counted, CountIs
      <3> QED BY <1>7, <3>2
    <2>3. CASE b = a /\ LookedBase(a)
      <3>1. n = runtime.turns /\ seen = N
        BY <1>0, <1>10, <2>3, BaseSeen
      <3> QED BY <1>3, <1>7, <3>1
    <2> QED BY <1>10, <2>2, <2>3, HeldFrom
  <1>11. runtime'.turns \in 0 .. TurnsOf(M)' /\ (Undisturbed("state")' => runtime'.turns = TurnsOf(M)')
    BY <1>0, <1>8, <1>9 DEF CountIs
  <1>12. ASSUME NEW b \in Busy', Holds(b, "readBase")'
         PROVE  /\ doing'[b].baseSeen \in 0 .. M
                /\ doing'[b].base \in 0 .. TurnsOf(M)'
                /\ Undisturbed("state")' => doing'[b].base = TurnsOf(doing[b].baseSeen)'
    <2>1. PICK n, seen : n = doing'[b].base /\ seen = doing'[b].baseSeen
      OBVIOUS
    <2>2. CountIs(n, seen)'
      BY <1>10, <1>12, <2>1
    <2>3. seen \in 0 .. M /\ n \in 0 .. TurnsOf(M)' /\ (Undisturbed("state")' => n = TurnsOf(seen)')
      BY <1>0, <2>2 DEF CountIs
    <2> QED BY <2>1, <2>3
  <1>13. M = Len(writes'["state"])
    BY <1>0
  <1>14. (runtime.turns \in 0 .. TurnsOf(Len(writes["state"])))'
         /\ (Undisturbed("state") => runtime.turns = TurnsOf(Len(writes["state"])))'
    BY <1>11, <1>13
  <1>15. ASSUME NEW b \in Busy', Holds(b, "readBase")'
         PROVE  (/\ doing[b].baseSeen \in 0 .. Len(writes["state"])
                 /\ doing[b].base \in 0 .. TurnsOf(Len(writes["state"]))
                 /\ Undisturbed("state") => doing[b].base = TurnsOf(doing[b].baseSeen))'
    BY <1>12, <1>13, <1>15
  <1> QED BY <1>14, <1>15 DEF Counted

-----------------------------------------------------------------------------
(* What is written stays, or is made over. *)

\* What was kept of the first n writes is kept of them after one more.
LEMMA KeptStays ==
    ASSUME NEW file, NEW kinds, NEW n, NEW kept, KeptOf(file, kinds, n, kept),
           n \in 0 .. Len(writes[file]), IsList(writes[file]),
           \/ writes'[file] = writes[file]
           \/ \E x : More(writes[file], writes'[file], x)
    PROVE  KeptOf(file, kinds, n, kept)'
  <1>0. PICK W, V : W = writes[file] /\ V = writes'[file]
    OBVIOUS
  <1>1. DOMAIN W = 1 .. Len(W) /\ Len(W) \in Nat
    BY <1>0, ListIs
  <1>2. \A i \in DOMAIN V : i <= n => i \in DOMAIN W /\ V[i] = W[i]
    BY <1>0, <1>1 DEF More
  <1>3. \A j \in DOMAIN W : j \in DOMAIN V /\ V[j] = W[j]
    BY <1>0 DEF More
  <1>4. ASSUME NEW i \in DOMAIN V, i <= n, V[i].kind \in kinds
        PROVE  V[i].call \in kept \/ \E j \in DOMAIN V : j > i /\ V[j].seen < i
    <2>1. i \in DOMAIN W /\ V[i] = W[i]
      BY <1>2, <1>4
    <2>2. W[i].call \in kept \/ \E j \in DOMAIN W : j > i /\ W[j].seen < i
      BY <1>0, <1>4, <2>1 DEF KeptOf, MadeOver
    <2> QED BY <1>3, <2>1, <2>2
  <1> QED BY <1>0, <1>4 DEF KeptOf, MadeOver

\* A write keeps what its call had seen, and makes over the rest.
LEMMA KeptNew ==
    ASSUME NEW file, NEW kinds, NEW seen, NEW kept, KeptOf(file, kinds, seen, kept),
           seen \in 0 .. Len(writes[file]),
           NEW x, More(writes[file], writes'[file], x), x.seen = seen,
           NEW kept2, kept \subseteq kept2, x.kind \in kinds => x.call \in kept2,
           NEW n, n = Len(writes'[file])
    PROVE  KeptOf(file, kinds, n, kept2)'
  <1>0. PICK W, V : W = writes[file] /\ V = writes'[file]
    OBVIOUS
  <1>1. /\ Len(W) \in Nat /\ DOMAIN W = 1 .. Len(W)
        /\ DOMAIN V = 1 .. Len(W) + 1 /\ V[Len(W) + 1] = x
        /\ \A i \in DOMAIN W : i \in DOMAIN V /\ V[i] = W[i]
    BY <1>0 DEF More
  <1>2. ASSUME NEW i \in DOMAIN V, V[i].kind \in kinds
        PROVE  V[i].call \in kept2 \/ \E j \in DOMAIN V : j > i /\ V[j].seen < i
    <2>1. CASE i = Len(W) + 1
      BY <1>1, <1>2, <2>1
    <2>2. CASE i \in DOMAIN W /\ i > seen
      <3>1. Len(W) + 1 \in DOMAIN V /\ Len(W) + 1 > i /\ V[Len(W) + 1].seen < i
        BY <1>0, <1>1, <2>2
      <3> QED BY <3>1
    <2>3. CASE i \in DOMAIN W /\ i <= seen
      <3>1. W[i].call \in kept \/ \E j \in DOMAIN W : j > i /\ W[j].seen < i
        BY <1>0, <1>1, <1>2, <2>3 DEF KeptOf, MadeOver
      <3> QED BY <1>1, <2>3, <3>1
    <2> QED BY <1>0, <1>1, <2>1, <2>2, <2>3
  <1> QED BY <1>0, <1>2 DEF KeptOf, MadeOver

LEMMA KeptNone ==
    ASSUME NEW file, NEW kinds, NEW kept, IsList(writes[file])
    PROVE  KeptOf(file, kinds, 0, kept)
  BY ListIs DEF KeptOf

-----------------------------------------------------------------------------
(* Which writes there are of a file. *)

LEMMA OtherFile ==
    ASSUME Files, NEW a, NEW file \in Rewritten, NEW seen, NEW kind, Wrote(file, a, seen, kind),
           NEW f \in Rewritten, f # file
    PROVE  writes'[f] = writes[f]
  BY WroteMore

LEMMA WritesFrom ==
    ASSUME ServedInv, NEW a, Still \/ (a \in Actors /\ Moves(a))
    PROVE  /\ \/ EntriesKept /\ writes'["wiki"] = writes["wiki"]
              \/ Writing(a) /\ WroteEmptyWiki(a)
              \/ Writing(a) /\ WroteWiki(a)
           /\ \/ OpenKept /\ writes'["sessions"] = writes["sessions"]
              \/ Writing(a) /\ WroteSessions(a)
           /\ \/ UNCHANGED candidates /\ writes'["candidates"] = writes["candidates"]
              \/ Writing(a) /\ WroteEmptyCandidates(a)
              \/ Writing(a) /\ WroteCell(a)
              \/ Writing(a) /\ WroteCheckCell(a)
              \/ Writing(a) /\ WroteKept(a)
              \/ CutsKept(a)
  <1>1. Files /\ {"state", "wiki", "candidates", "sessions"} = Rewritten
    BY DEF ServedInv, Rewritten
  <1>2. CASE Writing(a)
    <2>1. CASE WroteDefault(a) \/ WroteState(a)
      BY <1>1, <2>1, OtherFile DEF WroteDefault, WroteState
    <2>2. CASE WroteEmptyWiki(a)
      BY <1>1, <1>2, <2>2, OtherFile DEF WroteEmptyWiki
    <2>3. CASE WroteWiki(a)
      BY <1>1, <1>2, <2>3, OtherFile DEF WroteWiki
    <2>4. CASE WroteSessions(a)
      BY <1>1, <1>2, <2>4, OtherFile DEF WroteSessions
    <2>5. CASE WroteEmptyCandidates(a)
      BY <1>1, <1>2, <2>5, OtherFile DEF WroteEmptyCandidates
    <2>6. CASE WroteCell(a)
      BY <1>1, <1>2, <2>6, OtherFile DEF WroteCell
    <2>7. CASE WroteCheckCell(a)
      BY <1>1, <1>2, <2>7, OtherFile DEF WroteCheckCell
    <2>8. CASE WroteKept(a)
      BY <1>1, <1>2, <2>8, OtherFile DEF WroteKept
    <2> QED BY <1>2, <2>1, <2>2, <2>3, <2>4, <2>5, <2>6, <2>7, <2>8 DEF Writing
  <1>3. CASE CutsKept(a)
    BY <1>1, <1>3, OtherFile DEF CutsKept, TextsKept
  <1> QED BY <1>2, <1>3 DEF Still, Moves, Quiet, FilesKept, TextsKept, Appended, WroteIndex,
                            WroteWelcome

LEMMA WritesMore ==
    ASSUME ServedInv, NEW a, Still \/ (a \in Actors /\ Moves(a)), NEW f \in Rewritten
    PROVE  writes'[f] = writes[f] \/ \E x : More(writes[f], writes'[f], x)
  <1>1. Files
    BY DEF ServedInv
  <1>2. CASE UNCHANGED writes
    BY <1>2
  <1>3. CASE Writing(a) \/ CutsKept(a)
    <2>1. PICK file \in Rewritten : \E seen, kind : Wrote(file, a, seen, kind)
      BY <1>3, Rewrites
    <2>2. PICK seen, kind : Wrote(file, a, seen, kind)
      BY <2>1
    <2> QED BY <1>1, <2>2, WroteMore
  <1> QED BY <1>2, <1>3 DEF Still, Moves, Quiet, FilesKept, Appended, WroteIndex, WroteWelcome

\* What was kept of a file when a process looked is still kept of that much.
LEMMA SeenStays ==
    ASSUME ServedInv, NEW a, Still \/ (a \in Actors /\ Moves(a)), NEW f \in Rewritten,
           NEW kinds, NEW n, NEW kept, KeptOf(f, kinds, n, kept), n \in 0 .. Len(writes[f])
    PROVE  KeptOf(f, kinds, n, kept)' /\ n \in 0 .. Len(writes'[f])
  <1>1. IsList(writes[f])
    BY DEF ServedInv, Files
  <1>2. Len(writes[f]) \in Nat /\ Len(writes'[f]) \in Nat /\ Len(writes[f]) <= Len(writes'[f])
    BY <1>1, StepGrows, ListIs DEF Grown, Longer
  <1>3. KeptOf(f, kinds, n, kept)'
    BY <1>1, WritesMore, KeptStays
  <1> QED BY <1>2, <1>3

-----------------------------------------------------------------------------
(* The wiki keeps its entries. *)

LEMMA CallsGrow ==
    ASSUME Grown, NEW f \in Rewritten, NEW k
    PROVE  CallsThat(f, k) \subseteq CallsThat(f, k)'
  BY CallsIs DEF Grown, Longer

LEMMA WikiSeen ==
    ASSUME NEW a, LookedWiki(a), a \in Busy'
    PROVE  doing'[a].wiki = wiki.entries /\ doing'[a].wikiSeen = Len(writes["wiki"])
  <1>1. PICK rec, t :
                   /\ Looked(a, "readWiki", rec, t)
                   /\ rec.wiki = wiki.entries /\ rec.wikiSeen = Len(writes["wiki"])
    BY DEF LookedWiki
  <1>2. DOMAIN rec = {"wiki", "wikiSeen"} /\ Went(a, rec, t)
    BY <1>1 DEF Looked, HeldFields
  <1> QED BY <1>1, <1>2, BusyIs DEF Went

\* An entry is in the wiki, or a write that had not seen it came after.
LEMMA WikiStays ==
    ASSUME ServedInv, NEW a, Still \/ (a \in Actors /\ Moves(a))
    PROVE  WikiKept'
  <1> DEFINE kinds == {"entry"}
  <1>0. PICK N, M, E : N = Len(writes["wiki"]) /\ M = Len(writes'["wiki"]) /\ E = wiki'.entries
    OBVIOUS
  <1>1. Grown /\ WikiKept /\ Files /\ "wiki" \in Rewritten
    BY StepGrows DEF ServedInv, Rewritten
  <1>2. IsList(writes["wiki"]) /\ N \in Nat /\ M \in Nat
    BY <1>0, <1>1, ListIs DEF Files, Grown, Longer
  <1>3. CallsThat("wiki", "entry") \subseteq CallsThat("wiki", "entry")'
    BY <1>1, CallsGrow
  <1>4. KeptOf("wiki", kinds, N, wiki.entries) /\ wiki.entries \subseteq CallsThat("wiki", "entry")
    BY <1>0, <1>1 DEF WikiKept
  <1>5. \/ EntriesKept /\ writes'["wiki"] = writes["wiki"]
        \/ Writing(a) /\ WroteEmptyWiki(a)
        \/ Writing(a) /\ WroteWiki(a)
    BY WritesFrom
  <1>6. KeptOf("wiki", kinds, M, E)' /\ E \subseteq CallsThat("wiki", "entry")'
    <2>1. CASE EntriesKept /\ writes'["wiki"] = writes["wiki"]
      <3>1. E = wiki.entries /\ M = N
        BY <1>0, <2>1 DEF EntriesKept
      <3>2. KeptOf("wiki", kinds, N, E) /\ N \in 0 .. Len(writes["wiki"])
        BY <1>0, <1>2, <1>4, <3>1
      <3>3. KeptOf("wiki", kinds, N, E)'
        BY <1>2, <2>1, <3>2, KeptStays
      <3> QED BY <1>3, <1>4, <3>1, <3>3
    <2>2. CASE WroteEmptyWiki(a)
      <3>1. PICK w : w.seen = 0 /\ w.kind = "empty" /\ More(writes["wiki"], writes'["wiki"], w)
        BY <1>1, <2>2, WroteMore DEF WroteEmptyWiki
      <3>2. E = {}
        BY <1>0, <2>2 DEF WroteEmptyWiki
      <3>3. KeptOf("wiki", kinds, 0, {}) /\ 0 \in 0 .. Len(writes["wiki"])
        BY <1>0, <1>2, KeptNone
      <3>4. PICK none, seen : none = {} /\ seen = 0
        OBVIOUS
      <3>5. w.kind \notin kinds /\ none \subseteq none
        BY <3>1
      <3>6. KeptOf("wiki", kinds, M, none)'
        BY <1>0, <3>1, <3>3, <3>4, <3>5, KeptNew
      <3> QED BY <3>2, <3>4, <3>6
    <2>3. CASE WroteWiki(a)
      <3>1. PICK w : /\ w.call = doing[a].call /\ w.seen = doing[a].wikiSeen /\ w.kind = "entry"
                     /\ More(writes["wiki"], writes'["wiki"], w)
        BY <1>1, <2>3, WroteMore DEF WroteWiki
      <3>2. a \in Busy /\ Holds(a, "readWiki")
        BY <2>3, SeenIs DEF WroteWiki, Does
      <3>3. PICK kept, seen : kept = doing[a].wiki /\ seen = doing[a].wikiSeen
        OBVIOUS
      <3>4. /\ seen \in 0 .. N /\ KeptOf("wiki", kinds, seen, kept)
            /\ kept \subseteq CallsThat("wiki", "entry")
        BY <1>0, <1>1, <3>2, <3>3 DEF WikiKept
      <3>5. E = kept \cup {doing[a].call}
        BY <1>0, <2>3, <3>3 DEF WroteWiki
      <3>6. kept \subseteq E /\ w.call \in E /\ w.seen = seen /\ seen \in 0 .. Len(writes["wiki"])
        BY <1>0, <3>1, <3>3, <3>4, <3>5
      <3>7. KeptOf("wiki", kinds, M, E)'
        BY <1>0, <3>1, <3>4, <3>6, KeptNew
      <3>8. doing[a].call \in CallsThat("wiki", "entry")'
        BY <1>1, <2>3, WroteHas DEF WroteWiki
      <3> QED BY <1>3, <3>4, <3>5, <3>7, <3>8
    <2> QED BY <1>5, <2>1, <2>2, <2>3
  <1>7. ASSUME NEW b \in Busy', Holds(b, "readWiki")', NEW kept, NEW seen,
               kept = doing'[b].wiki, seen = doing'[b].wikiSeen
        PROVE  /\ seen \in 0 .. M /\ KeptOf("wiki", kinds, seen, kept)'
               /\ kept \subseteq CallsThat("wiki", "entry")'
    <2>1. {"wiki", "wikiSeen"} \subseteq DOMAIN doing'[b] /\ HeldFields("readWiki") = {"wiki", "wikiSeen"}
      BY <1>7 DEF Holds, HeldFields
    <2>2. /\ seen \in 0 .. N /\ KeptOf("wiki", kinds, seen, kept)
          /\ kept \subseteq CallsThat("wiki", "entry")
      <3>1. CASE SameFor(b, "readWiki")
        <4>1. b \in Busy /\ Holds(b, "readWiki") /\ kept = doing[b].wiki /\ seen = doing[b].wikiSeen
          BY <1>7, <2>1, <3>1 DEF SameFor
        <4> QED BY <1>0, <1>1, <4>1 DEF WikiKept
      <3>2. CASE b = a /\ LookedWiki(a)
        <4>1. kept = wiki.entries /\ seen = N
          BY <1>0, <1>7, <3>2, WikiSeen
        <4> QED BY <1>2, <1>4, <4>1
      <3> QED BY <1>7, <3>1, <3>2, HeldFrom
    <2>3. KeptOf("wiki", kinds, seen, kept)' /\ seen \in 0 .. M
      BY <1>0, <1>1, <2>2, SeenStays
    <2> QED BY <1>3, <2>2, <2>3
  <1>8. (KeptOf("wiki", {"entry"}, Len(writes["wiki"]), wiki.entries))'
        /\ (wiki.entries \subseteq CallsThat("wiki", "entry"))'
    BY <1>0, <1>6
  <1>9. ASSUME NEW b \in Busy', Holds(b, "readWiki")'
        PROVE  (/\ doing[b].wikiSeen \in 0 .. Len(writes["wiki"])
                /\ KeptOf("wiki", {"entry"}, doing[b].wikiSeen, doing[b].wiki)
                /\ doing[b].wiki \subseteq CallsThat("wiki", "entry"))'
    BY <1>0, <1>7, <1>9
  <1> QED BY <1>8, <1>9 DEF WikiKept

-----------------------------------------------------------------------------
(* The sessions file keeps what was opened and submitted. *)

LEMMA SessionsSeen ==
    ASSUME NEW a, LookedSessions(a), a \in Busy'
    PROVE  doing'[a].sessions = sessions.open /\ doing'[a].sessionsSeen = Len(writes["sessions"])
  <1>1. PICK rec : /\ Looked(a, "readSessions", rec, <<>>)
                   /\ rec.sessions = sessions.open /\ rec.sessionsSeen = Len(writes["sessions"])
    BY DEF LookedSessions
  <1>2. DOMAIN rec = {"sessions", "sessionsSeen"} /\ Went(a, rec, <<>>)
    BY <1>1 DEF Looked, HeldFields
  <1> QED BY <1>1, <1>2, BusyIs DEF Went

\* A session is in the file, or a write that had not seen it came after.
LEMMA SessionsStay ==
    ASSUME ServedInv, NEW a, Still \/ (a \in Actors /\ Moves(a))
    PROVE  SessionsKept'
  <1> DEFINE kinds == {"opened", "submitted"}
  <1>0. PICK N, M, E : /\ N = Len(writes["sessions"]) /\ M = Len(writes'["sessions"])
                       /\ E = sessions'.open
    OBVIOUS
  <1>1. Grown /\ SessionsKept /\ Files /\ "sessions" \in Rewritten
    BY StepGrows DEF ServedInv, Rewritten
  <1>2. IsList(writes["sessions"]) /\ N \in Nat /\ M \in Nat
    BY <1>0, <1>1, ListIs DEF Files, Grown, Longer
  <1>3. /\ KeptOf("sessions", kinds, N, sessions.open)
        /\ \A i \in DOMAIN writes["sessions"] : writes["sessions"][i].kind \in kinds
    BY <1>0, <1>1 DEF SessionsKept
  <1>4. \/ OpenKept /\ writes'["sessions"] = writes["sessions"]
        \/ Writing(a) /\ WroteSessions(a)
    BY WritesFrom
  <1>5. /\ KeptOf("sessions", kinds, M, E)'
        /\ \A i \in DOMAIN writes'["sessions"] : writes'["sessions"][i].kind \in kinds
    <2>1. CASE OpenKept /\ writes'["sessions"] = writes["sessions"]
      <3>1. E = sessions.open /\ M = N
        BY <1>0, <2>1 DEF OpenKept
      <3>2. KeptOf("sessions", kinds, N, E) /\ N \in 0 .. Len(writes["sessions"])
        BY <1>0, <1>2, <1>3, <3>1
      <3>3. KeptOf("sessions", kinds, N, E)'
        BY <1>2, <2>1, <3>2, KeptStays
      <3> QED BY <1>3, <2>1, <3>1, <3>3
    <2>2. CASE WroteSessions(a)
      <3>1. PICK w : /\ w.call = doing[a].call /\ w.seen = doing[a].sessionsSeen
                     /\ w.kind = Head(doing[a].todo).kind
                     /\ More(writes["sessions"], writes'["sessions"], w)
        BY <1>1, <2>2, WroteMore DEF WroteSessions
      <3>2. a \in Busy /\ Holds(a, "readSessions") /\ OnPlan(a)
        BY <2>2, SeenIs DEF WroteSessions, Does, ServedInv
      <3>3. PICK kept, seen : kept = doing[a].sessions /\ seen = doing[a].sessionsSeen
        OBVIOUS
      <3>4. seen \in 0 .. N /\ KeptOf("sessions", kinds, seen, kept)
        BY <1>0, <1>1, <3>2, <3>3 DEF SessionsKept
      <3>5. E = kept \cup {doing[a].call}
        BY <1>0, <2>2, <3>3 DEF WroteSessions
      <3>6. kept \subseteq E /\ w.call \in E /\ w.seen = seen /\ seen \in 0 .. Len(writes["sessions"])
        BY <1>0, <3>1, <3>3, <3>4, <3>5
      <3>7. KeptOf("sessions", kinds, M, E)'
        BY <1>0, <3>1, <3>4, <3>6, KeptNew
      <3>8. w.kind \in kinds
        BY <2>2, <3>1, <3>2, HeadIs DEF WellFormed, WroteSessions, Does
      <3>9. \A i \in DOMAIN writes'["sessions"] : writes'["sessions"][i].kind \in kinds
        BY <1>3, <3>1, <3>8 DEF More
      <3> QED BY <3>7, <3>9
    <2> QED BY <1>4, <2>1, <2>2
  <1>6. ASSUME NEW b \in Busy', Holds(b, "readSessions")', NEW kept, NEW seen,
               kept = doing'[b].sessions, seen = doing'[b].sessionsSeen
        PROVE  seen \in 0 .. M /\ KeptOf("sessions", kinds, seen, kept)'
    <2>1. /\ {"sessions", "sessionsSeen"} \subseteq DOMAIN doing'[b]
          /\ HeldFields("readSessions") = {"sessions", "sessionsSeen"}
      BY <1>6 DEF Holds, HeldFields
    <2>2. seen \in 0 .. N /\ KeptOf("sessions", kinds, seen, kept)
      <3>1. CASE SameFor(b, "readSessions")
        <4>1. /\ b \in Busy /\ Holds(b, "readSessions")
              /\ kept = doing[b].sessions /\ seen = doing[b].sessionsSeen
          BY <1>6, <2>1, <3>1 DEF SameFor
        <4> QED BY <1>0, <1>1, <4>1 DEF SessionsKept
      <3>2. CASE b = a /\ LookedSessions(a)
        <4>1. kept = sessions.open /\ seen = N
          BY <1>0, <1>6, <3>2, SessionsSeen
        <4> QED BY <1>2, <1>3, <4>1
      <3> QED BY <1>6, <3>1, <3>2, HeldFrom
    <2> QED BY <1>0, <1>1, <2>2, SeenStays
  <1>7. (KeptOf("sessions", {"opened", "submitted"}, Len(writes["sessions"]), sessions.open))'
    BY <1>0, <1>5
  <1>8. ASSUME NEW b \in Busy', Holds(b, "readSessions")'
        PROVE  (/\ doing[b].sessionsSeen \in 0 .. Len(writes["sessions"])
                /\ KeptOf("sessions", {"opened", "submitted"}, doing[b].sessionsSeen,
                          doing[b].sessions))'
    BY <1>0, <1>6, <1>8
  <1> QED BY <1>5, <1>7, <1>8 DEF SessionsKept

LEMMA CellsSeen ==
    ASSUME ServedInv, NEW a \in Busy, LookedApplied(a), a \in Busy'
    PROVE  /\ doing'[a].kept = (IF Head(doing[a].todo).drops
                                THEN candidates.cells \ {Head(doing[a].todo).cell}
                                ELSE candidates.cells)
           /\ doing'[a].keptSeen = Len(writes["candidates"])
           /\ Head(doing[a].todo).cell.applied
  <1>1. PICK rec, t : /\ Looked(a, "readApplied", rec, t)
                      /\ rec.kept = (IF Head(doing[a].todo).drops
                                     THEN candidates.cells \ {Head(doing[a].todo).cell}
                                     ELSE candidates.cells)
                      /\ rec.keptSeen = Len(writes["candidates"])
    BY DEF LookedApplied
  <1>2. DOMAIN rec = {"kept", "keptSeen"} /\ Went(a, rec, t)
    BY <1>1 DEF Looked, HeldFields
  <1>3. OnPlan(a) /\ Head(doing[a].todo).do = "readApplied"
    BY <1>1 DEF ServedInv, Looked, Does
  <1>4. WellFormed(Head(doing[a].todo))
    BY <1>3, HeadIs
  <1>5. Head(doing[a].todo).cell.applied
    BY <1>3, <1>4 DEF WellFormed
  <1> QED BY <1>1, <1>2, <1>5, BusyIs DEF Went

\* What a rollback keeps has every captured candidate: it drops an applied one.
LEMMA KeptCalls ==
    ASSUME NEW cells, NEW cell, cell.applied, NEW drops,
           NEW kept, kept = IF drops THEN cells \ {cell} ELSE cells
    PROVE  kept \subseteq cells /\ CallsOf(kept) = CallsOf(cells)
  BY DEF CallsOf

-----------------------------------------------------------------------------
(* The candidate file keeps its cells. *)

\* A write of the candidates that keeps what its call had seen.
LEMMA CellsNew ==
    ASSUME ServedInv, NEW a, NEW seen, NEW kind, Wrote("candidates", a, seen, kind),
           NEW old, NEW new, seen \in 0 .. Len(writes["candidates"]),
           KeptOf("candidates", {"cell"}, seen, CallsOf(old)), CallsOf(old) \subseteq CallsOf(new),
           kind = "cell" => doing[a].call \in CallsOf(new),
           NEW n, n = Len(writes'["candidates"])
    PROVE  KeptOf("candidates", {"cell"}, n, CallsOf(new))'
  <1>1. PICK w : /\ w.call = doing[a].call /\ w.seen = seen /\ w.kind = kind
                 /\ More(writes["candidates"], writes'["candidates"], w)
    BY WroteMore DEF ServedInv, Rewritten
  <1>2. PICK f, kinds, K, L : /\ f = "candidates" /\ kinds = {"cell"}
                              /\ K = CallsOf(old) /\ L = CallsOf(new)
    OBVIOUS
  <1>3. w.kind \in kinds => w.call \in L
    BY <1>1, <1>2
  <1>4. KeptOf(f, kinds, n, L)'
    BY <1>1, <1>2, <1>3, KeptNew
  <1>5. CallsOf(new)' = CallsOf(new)
    BY DEF CallsOf
  <1> QED BY <1>2, <1>4, <1>5

\* A candidate is in the file, or a rollback that had not seen it came after.
LEMMA CellsStay ==
    ASSUME ServedInv, NEW a, Still \/ (a \in Actors /\ Moves(a))
    PROVE  CellsKept'
  <1>0. PICK N, M, E, C : /\ N = Len(writes["candidates"]) /\ M = Len(writes'["candidates"])
                          /\ E = candidates'.cells /\ C = candidates.cells
    OBVIOUS
  <1>1. Grown /\ CellsKept /\ Files /\ "candidates" \in Rewritten /\ BackedCells
    BY StepGrows, BackedIs DEF ServedInv, Rewritten
  <1>2. IsList(writes["candidates"]) /\ N \in Nat /\ M \in Nat
    BY <1>0, <1>1, ListIs DEF Files, Grown, Longer
  <1>3. KeptOf("candidates", {"cell"}, N, CallsOf(C))
    BY <1>0, <1>1 DEF CellsKept
  <1>4. \/ E = C /\ writes'["candidates"] = writes["candidates"]
        \/ Writing(a) /\ WroteEmptyCandidates(a)
        \/ Writing(a) /\ WroteCell(a)
        \/ Writing(a) /\ WroteCheckCell(a)
        \/ Writing(a) /\ WroteKept(a)
        \/ CutsKept(a)
    BY <1>0, WritesFrom
  <1>5. KeptOf("candidates", {"cell"}, M, CallsOf(E))'
    <2>1. CASE E = C /\ writes'["candidates"] = writes["candidates"]
      <3>1. PICK K : K = CallsOf(C)
        OBVIOUS
      <3>2. KeptOf("candidates", {"cell"}, N, K) /\ N \in 0 .. Len(writes["candidates"])
        BY <1>0, <1>2, <1>3, <3>1
      <3>3. KeptOf("candidates", {"cell"}, N, K)'
        BY <1>2, <2>1, <3>2, KeptStays
      <3>4. CallsOf(E)' = K /\ M = N
        BY <1>0, <2>1, <3>1 DEF CallsOf
      <3> QED BY <3>3, <3>4
    <2>2. CASE WroteEmptyCandidates(a)
      <3>1. KeptOf("candidates", {"cell"}, 0, CallsOf({})) /\ CallsOf({}) \subseteq CallsOf(E)
        BY <1>2, KeptNone DEF CallsOf
      <3>2. PICK seen, kind : Wrote("candidates", a, seen, kind) /\ seen = 0 /\ kind # "cell"
        BY <2>2 DEF WroteEmptyCandidates
      <3>3. seen \in 0 .. Len(writes["candidates"])
        BY <1>0, <1>2, <3>2
      <3> QED BY <1>0, <3>1, <3>2, <3>3, CellsNew
    <2>3. CASE WroteCell(a)
      <3>1. PICK new : new = [call |-> doing[a].call, applied |-> Head(doing[a].todo).applied]
        OBVIOUS
      <3>2. new.call = doing[a].call
        BY <3>1
      <3>3. E = C \cup {new}
        BY <1>0, <2>3, <3>1 DEF WroteCell
      <3>4. CallsOf(C) \subseteq CallsOf(E)
            /\ (~Head(doing[a].todo).applied => doing[a].call \in CallsOf(E))
        BY <3>1, <3>2, <3>3 DEF CallsOf
      <3>5. PICK kind : /\ Wrote("candidates", a, N, kind)
                        /\ kind = IF Head(doing[a].todo).applied THEN "applied" ELSE "cell"
        BY <1>0, <2>3 DEF WroteCell
      <3>6. (kind = "cell" => ~Head(doing[a].todo).applied) /\ N \in 0 .. Len(writes["candidates"])
        BY <1>0, <1>2, <3>5
      <3> QED BY <1>0, <1>3, <3>4, <3>5, <3>6, CellsNew
    <2>4. CASE WroteCheckCell(a)
      <3>1. E = C \cup {CheckCell}
        BY <1>0, <2>4 DEF WroteCheckCell
      <3>2. CallsOf(C) \subseteq CallsOf(E)
        BY <3>1 DEF CallsOf
      <3>3. PICK kind : Wrote("candidates", a, N, kind) /\ kind # "cell"
        BY <1>0, <2>4 DEF WroteCheckCell
      <3>4. N \in 0 .. Len(writes["candidates"])
        BY <1>0, <1>2
      <3> QED BY <1>0, <1>3, <3>2, <3>3, <3>4, CellsNew
    <2>5. CASE WroteKept(a)
      <3>1. a \in Busy /\ Holds(a, "readApplied")
        BY <2>5, SeenIs DEF WroteKept, Does
      <3>2. PICK seen, kind : /\ Wrote("candidates", a, seen, kind) /\ seen = doing[a].keptSeen
                              /\ kind # "cell"
        BY <2>5 DEF WroteKept
      <3>3. seen \in 0 .. Len(writes["candidates"])
            /\ KeptOf("candidates", {"cell"}, seen, CallsOf(doing[a].kept))
        BY <1>1, <3>1, <3>2 DEF CellsKept
      <3>4. E = doing[a].kept
        BY <1>0, <2>5 DEF WroteKept
      <3>5. KeptOf("candidates", {"cell"}, seen, CallsOf(E)) /\ CallsOf(E) \subseteq CallsOf(E)
        BY <3>3, <3>4
      <3> QED BY <1>0, <3>2, <3>3, <3>5, CellsNew
    <2>6. CASE CutsKept(a)
      <3>1. KeptOf("candidates", {"cell"}, 0, CallsOf({})) /\ CallsOf({}) \subseteq CallsOf(E)
        BY <1>2, KeptNone DEF CallsOf
      <3>2. PICK seen, kind : Wrote("candidates", a, seen, kind) /\ seen = 0 /\ kind # "cell"
        BY <2>6 DEF CutsKept
      <3>3. seen \in 0 .. Len(writes["candidates"])
        BY <1>0, <1>2, <3>2
      <3> QED BY <1>0, <3>1, <3>2, <3>3, CellsNew
    <2> QED BY <1>4, <2>1, <2>2, <2>3, <2>4, <2>5, <2>6
  <1>6. ASSUME NEW b \in Busy', Holds(b, "readApplied")', NEW kept, NEW seen,
               kept = doing'[b].kept, seen = doing'[b].keptSeen
        PROVE  /\ seen \in 0 .. M /\ KeptOf("candidates", {"cell"}, seen, CallsOf(kept))'
               /\ \A c \in kept : c.applied => \A tag \in Approved : HasCall(c.call, tag)'
    <2>1. /\ {"kept", "keptSeen"} \subseteq DOMAIN doing'[b]
          /\ HeldFields("readApplied") = {"kept", "keptSeen"}
      BY <1>6 DEF Holds, HeldFields
    <2>2. /\ seen \in 0 .. N /\ KeptOf("candidates", {"cell"}, seen, CallsOf(kept))
          /\ CellsBacked(kept)
      <3>1. CASE SameFor(b, "readApplied")
        <4>1. /\ b \in Busy /\ Holds(b, "readApplied")
              /\ kept = doing[b].kept /\ seen = doing[b].keptSeen
          BY <1>6, <2>1, <3>1 DEF SameFor
        <4> QED BY <1>0, <1>1, <4>1 DEF CellsKept, CellsBacked
      <3>2. CASE b = a /\ LookedApplied(a)
        <4>0. a \in Busy /\ a \in Busy'
          BY <1>6, <3>2 DEF LookedApplied, Looked, Does
        <4>4. PICK cell, drops : cell = Head(doing[a].todo).cell
                                 /\ drops = Head(doing[a].todo).drops
          OBVIOUS
        <4>5. /\ kept = (IF drops THEN C \ {cell} ELSE C) /\ seen = N /\ cell.applied
          BY <1>0, <1>6, <3>2, <4>0, <4>4, CellsSeen, Zenon
        <4>1. kept \subseteq C /\ CallsOf(kept) = CallsOf(C) /\ seen = N
          BY <4>5, KeptCalls
        <4>2. KeptOf("candidates", {"cell"}, seen, CallsOf(kept))
          BY <1>3, <4>1
        <4>3. CellsBacked(kept)
          BY <1>0, <1>1, <4>1 DEF BackedCells, CellsBacked
        <4> QED BY <1>2, <4>1, <4>2, <4>3
      <3> QED BY <1>6, <3>1, <3>2, HeldFrom
    <2>3. PICK K : K = CallsOf(kept)
      OBVIOUS
    <2>4. seen \in 0 .. M /\ KeptOf("candidates", {"cell"}, seen, K)'
      BY <1>0, <1>1, <2>2, <2>3, SeenStays
    <2>5. CallsOf(kept)' = K
      BY <2>3 DEF CallsOf
    <2> QED BY <1>1, <2>2, <2>4, <2>5, CellsBackedNext
  <1>7. KeptOf("candidates", {"cell"}, Len(writes["candidates"]), CallsOf(candidates.cells))'
    BY <1>0, <1>5 DEF CallsOf
  <1>8. ASSUME NEW b \in Busy', Holds(b, "readApplied")'
        PROVE  (/\ doing[b].keptSeen \in 0 .. Len(writes["candidates"])
                /\ KeptOf("candidates", {"cell"}, doing[b].keptSeen, CallsOf(doing[b].kept))
                /\ \A c \in doing[b].kept : c.applied => \A tag \in Approved : HasCall(c.call, tag))'
    <2>1. PICK kept, seen : kept = doing'[b].kept /\ seen = doing'[b].keptSeen
      OBVIOUS
    <2>2. /\ seen \in 0 .. M /\ KeptOf("candidates", {"cell"}, seen, CallsOf(kept))'
          /\ \A c \in kept : c.applied => \A tag \in Approved : HasCall(c.call, tag)'
      BY <1>6, <1>8, <2>1
    <2>3. KeptOf("candidates", {"cell"}, doing[b].keptSeen, CallsOf(doing[b].kept))'
      BY <2>1, <2>2 DEF CallsOf
    <2> QED BY <1>0, <2>1, <2>2, <2>3
  <1> QED BY <1>7, <1>8 DEF CellsKept

-----------------------------------------------------------------------------
(* What comes next. *)

\* Two lists one after the other, under a name.
LEMMA JoinedAs ==
    ASSUME NEW s, NEW t, IsList(s), IsList(t), NEW v, v = s \o t, NEW n, n = Len(s)
    PROVE  /\ \A i \in DOMAIN s : v[i] = s[i]
           /\ \A i \in DOMAIN t : v[n + i] = t[i]
           /\ DOMAIN v = 1 .. n + Len(t)
           /\ \A i \in DOMAIN v : i \in DOMAIN s \/
                 (i - n \in DOMAIN t /\ v[i] = t[i - n])
  <1>1. DOMAIN (s \o t) = 1 .. Len(s) + Len(t)
    BY ONLY IsList(s), IsList(t), Joined, Zenon
  <1>2. \A i \in DOMAIN s : (s \o t)[i] = s[i]
    BY ONLY IsList(s), IsList(t), Joined, Zenon
  <1>3. ASSUME NEW i \in DOMAIN t PROVE (s \o t)[Len(s) + i] = t[i]
    BY JoinedRight, Zenon
  <1>4. \A i \in DOMAIN (s \o t) : i \in DOMAIN s \/
                 (i - Len(s) \in DOMAIN t /\ (s \o t)[i] = t[i - Len(s)])
    BY ONLY IsList(s), IsList(t), Joined
  <1> QED BY ONLY <1>1, <1>2, <1>3, <1>4, v = s \o t, n = Len(s), Zenon

\* What a list r that follows s, with t put in between, has of the two.
Followed(s, t, r) ==
    /\ \A i \in DOMAIN s \ {1} : \E j \in DOMAIN r : r[j] = s[i]
    /\ \A i \in DOMAIN t : i \in DOMAIN r /\ r[i] = t[i]
    /\ \A j \in DOMAIN r : \/ \E i \in DOMAIN t : r[j] = t[i]
                           \/ \E i \in DOMAIN s \ {1} : r[j] = s[i]

\* The list of a call that goes on.
LEMMA GoesOnWith ==
    ASSUME NEW a \in Busy, OnPlan(a), NEW rec, NEW t, Went(a, rec, t),
           NEW s, s = doing[a].todo, NEW r, r = doing'[a].todo
    PROVE  /\ a \in Busy' => doing'[a].call = doing[a].call /\ Followed(s, t, r)
           /\ a \notin Busy' => t = <<>> /\ DOMAIN s = {1}
           /\ 1 \in DOMAIN s /\ Head(s) = s[1]
  <1>1. /\ IsList(s) /\ s # <<>>
        /\ IsList(Tail(s)) /\ Len(Tail(s)) = Len(s) - 1 /\ Len(s) \in Nat \ {0}
        /\ DOMAIN Tail(s) = 1 .. Len(s) - 1
        /\ 1 \in DOMAIN s /\ Head(s) = s[1] /\ DOMAIN s = 1 .. Len(s)
        /\ \A i \in DOMAIN Tail(s) : i + 1 \in DOMAIN s /\ Tail(s)[i] = s[i + 1]
    BY Shortened DEF OnPlan, Planned
  <1>2. IsList(t) /\ a \in Actors
    BY BusyIs DEF Went
  <1>3. PICK u : u = Tail(s)
    OBVIOUS
  <1>4. PICK v : v = t \o u
    OBVIOUS
  <1>11. IsList(u) /\ Len(u) = Len(s) - 1
    BY <1>1, <1>3
  <1>12. Len(t) \in Nat /\ DOMAIN t = 1 .. Len(t)
    BY <1>2, ListIs
  <1>13. Len(u) \in Nat /\ DOMAIN u = 1 .. Len(u)
    BY <1>11, ListIs
  <1>14. PICK n \in Nat : n = Len(t)
    BY <1>12
  <1>5. /\ \A i \in DOMAIN t : v[i] = t[i]
        /\ \A i \in DOMAIN u : v[n + i] = u[i]
        /\ DOMAIN v = 1 .. n + Len(u)
        /\ \A i \in DOMAIN v : i \in DOMAIN t \/
                 (i - n \in DOMAIN u /\ v[i] = u[i - n])
    BY ONLY <1>2, <1>11, <1>14, <1>4, JoinedAs
  <1>6. ASSUME NEW i \in DOMAIN s \ {1} PROVE \E j \in DOMAIN v : v[j] = s[i]
    <2>0. i \in Nat /\ i # 1 /\ i \in 1 .. Len(s) /\ Len(s) \in Nat
      BY <1>1, <1>6
    <2>1. PICK k : k = i - 1
      OBVIOUS
    <2>2. k \in DOMAIN u /\ u[k] = s[i] /\ k \in 1 .. Len(u)
      <3>1. k \in 1 .. Len(s) - 1 /\ k + 1 = i
        BY ONLY <2>0, <2>1
      <3> QED BY <3>1, <1>1, <1>3, <1>11
    <2>3. n + k \in 1 .. n + Len(u)
      BY ONLY <2>2, <1>13, <1>14
    <2>4. n + k \in DOMAIN v /\ v[n + k] = s[i]
      BY ONLY <2>2, <2>3, <1>5
    <2> QED BY <2>4
  <1>7. \A j \in DOMAIN v : \/ \E i \in DOMAIN t : v[j] = t[i]
                            \/ \E i \in DOMAIN s \ {1} : v[j] = s[i]
    <2> SUFFICES ASSUME NEW j \in DOMAIN v
                 PROVE  \/ \E i \in DOMAIN t : v[j] = t[i]
                        \/ \E i \in DOMAIN s \ {1} : v[j] = s[i]
      OBVIOUS
    <2>1. CASE j \in DOMAIN t
      BY <1>5, <2>1
    <2>2. CASE j - n \in DOMAIN u /\ v[j] = u[j - n]
      <3>1. PICK k : k = j - n
        OBVIOUS
      <3>2. k \in DOMAIN u /\ v[j] = u[k]
        BY <2>2, <3>1
      <3>3. k + 1 \in DOMAIN s \ {1} /\ v[j] = s[k + 1]
        BY <1>1, <1>3, <3>2
      <3> QED BY <3>3
    <2> QED BY <1>5, <2>1, <2>2
  <1>8. \A i \in DOMAIN t : i \in DOMAIN v
    BY ONLY <1>5, <1>12, <1>13, <1>14
  <1>9. ASSUME a \in Busy' PROVE r = v /\ doing'[a].call = doing[a].call
    BY <1>3, <1>4, <1>9, BusyIs DEF Went
  <1>10. ASSUME a \notin Busy' PROVE t = <<>> /\ DOMAIN s = {1}
    <2>1. doing'[a] = Rest
      BY <1>2, <1>10, BusyIs
    <2>2. t = <<>> /\ Tail(s) = <<>>
      BY <2>1 DEF Went
    <2>3. u = <<>>
      BY <1>3, <2>2
    <2>4. Len(u) = 0
      BY ONLY <2>3, Empty
    <2>5. Len(s) = 1
      BY ONLY <2>4, <1>11, <1>1
    <2>6. DOMAIN s = {1}
      BY ONLY <2>5, <1>1
    <2> QED BY ONLY <2>2, <2>6
  <1>15. Followed(s, t, v)
    BY ONLY <1>5, <1>6, <1>7, <1>8 DEF Followed
  <1> QED BY <1>1, <1>9, <1>10, <1>15

\* A step that need not come right after another.
Fresh(y) == y.do \notin {"runCommand", "writeIndex"} /\ ~Ends(y)

\* The next step of a call follows from the step it makes, or is fresh.
LEMMA HeadAfter ==
    ASSUME ServedInv, NEW a \in Actors, Moves(a), a \in Busy', NEW y, y = Head(doing'[a].todo)
    PROVE  \/ Fresh(y)
           \/ Does(a, "collectCells") /\ y.do = "writeIndex"
           \/ a \in Busy /\ Runs(Head(doing[a].todo)) /\ y.do = "runCommand"
           \/ Does(a, "runCommand") /\ Ends(y)
  <1>1. CASE \E todo : Begun(a, todo)
    <2>1. PICK todo : Begun(a, todo)
      BY <1>1
    <2>2. Tidy(todo) /\ todo # <<>> /\ doing'[a].todo = todo
      BY <2>1 DEF Begun, Call
    <2>3. DOMAIN todo = 1 .. Len(todo) /\ y = todo[1] /\ 1 \in DOMAIN todo
      BY <2>2, Shortened DEF Tidy
    <2>4. Led(todo, 1) /\ 1 - 1 \notin DOMAIN todo
      BY <2>2, <2>3 DEF Tidy
    <2> QED BY <2>3, <2>4 DEF Led, Fresh
  <1>2. ASSUME NEW rec, NEW t, Went(a, rec, t), Between(a, rec, t)
        PROVE  \/ Fresh(y)
               \/ Does(a, "collectCells") /\ y.do = "writeIndex"
               \/ a \in Busy /\ Runs(Head(doing[a].todo)) /\ y.do = "runCommand"
               \/ Does(a, "runCommand") /\ Ends(y)
    <2>1. a \in Busy /\ OnPlan(a)
      BY <1>2 DEF Went, ServedInv
    <2>2. PICK s, r : s = doing[a].todo /\ r = doing'[a].todo
      OBVIOUS
    <2>3. CASE t = <<>>
      <3>1. Went(a, rec, <<>>)
        BY <1>2, <2>3
      <3>2. y = s[2] /\ 2 \in DOMAIN s /\ Head(s) = s[1]
        BY <2>1, <2>2, <3>1, NextSteps, HeadIs
      <3>3. Led(s, 2)
        BY <2>1, <2>2, <3>2 DEF OnPlan, Planned
      <3>4. /\ y.do = "runCommand" => Runs(s[1])
            /\ y.do = "writeIndex" => s[1].do = "collectCells"
            /\ ~Ends(y)
        BY <3>2, <3>3 DEF Led
      <3> QED BY <2>1, <2>2, <3>2, <3>4 DEF Fresh, Does
    <2>4. CASE t # <<>>
      <3>1. 1 \in DOMAIN t
        BY <1>2, <2>4, Shortened DEF Went
      <3>2. 1 \in DOMAIN r /\ r[1] = t[1] /\ r # <<>>
        <4>1. 1 \in DOMAIN r /\ r[1] = t[1]
          BY <1>2, <2>1, <2>2, <3>1, GoesOnWith DEF Followed
        <4>2. DOMAIN <<>> = {}
          BY Empty
        <4> QED BY <4>1, <4>2
      <3>3. y = t[1]
        <4>1. OnPlan(a)'
          BY PlanKept
        <4>2. IsList(r)
          BY <2>2, <4>1 DEF OnPlan, Planned
        <4>3. Head(r) = r[1]
          BY <3>2, <4>2, Shortened
        <4> QED BY <2>2, <3>2, <4>3
      <3>4. CASE Takes(t, {}, {})
        <4>1. Led(t, 1) /\ DOMAIN t = 1 .. Len(t)
          BY <3>1, <3>4, ListIs DEF Takes, Steps, Tidy
        <4>2. 1 - 1 \notin DOMAIN t
          BY <4>1
        <4> QED BY <3>3, <4>1, <4>2 DEF Led, Fresh
      <3>5. CASE Does(a, "runCommand") /\ \E outcome \in {"tool_complete", "tool_error"} :
                                             t = <<Add("progress", outcome)>>
        <4>1. PICK outcome \in {"tool_complete", "tool_error"} : t = <<Add("progress", outcome)>>
          BY <3>5
        <4>2. y = Add("progress", outcome)
          BY <3>3, <4>1, Lists
        <4> QED BY <3>5, <4>2, OutcomeIs
      <3>6. CASE Rewriting(t)
        <4>1. y = Step("writeKept")
          BY <3>3, <3>6, RewritingIs
        <4>2. y.do = "writeKept"
          BY <4>1, StepIs
        <4> QED BY <4>2 DEF Fresh, Ends
      <3> QED BY <1>2, <2>4, <3>4, <3>5, <3>6 DEF Between
    <2> QED BY <2>3, <2>4
  <1>3. ~Quit(a)
    BY BusyIs DEF Quit
  <1> QED BY <1>1, <1>2, <1>3, MovesGo

-----------------------------------------------------------------------------
(* The search index. *)

\* A call that makes no step is as it was.
LEMMA Bystander ==
    ASSUME NEW a, Still \/ (a \in Actors /\ Moves(a)), NEW b \in Busy', Still \/ b # a
    PROVE  b \in Busy /\ doing'[b] = doing[b]
  <1>1. b \in Actors /\ doing'[b] # Rest
    BY BusyIs
  <1>2. doing'[b] = doing[b]
    <2>1. CASE Still
      BY <2>1 DEF Still
    <2>2. CASE ~Still
      <3>1. Others(a) /\ b # a
        BY <2>2, MovesHow DEF Begun, Quit, Went
      <3> QED BY <1>1, <3>1 DEF Others
    <2> QED BY <2>1, <2>2
  <1> QED BY <1>1, <1>2, BusyIs

\* Entries paired with candidates stay so.
LEMMA PairedStays ==
    ASSUME ServedInv, NEW a, Still \/ (a \in Actors /\ Moves(a)),
           NEW entries, NEW cells, NEW open, Paired(entries, cells, open)
    PROVE  Paired(entries, cells, open)'
  <1>1. past.cut \subseteq past'.cut
    BY PastGrows
  <1>2. Undisturbed("candidates")' => Undisturbed("candidates")
    <2>1. CASE writes'["candidates"] = writes["candidates"]
      BY <2>1, UndisturbedSame
    <2>2. CASE \E x : More(writes["candidates"], writes'["candidates"], x)
      BY <2>2, UndisturbedMore
    <2> QED BY <2>1, <2>2, WritesMore DEF Rewritten
  <1> QED BY <1>1, <1>2 DEF Paired

LEMMA IndexFrom ==
    ASSUME NEW a, Still \/ (a \in Actors /\ Moves(a))
    PROVE  IndexKept \/ WroteIndex(a)
  BY DEF Still, Moves, Quiet, FilesKept, TextsKept, Writing, CutsKept, Appended, WroteWelcome

\* The entries a call has collected have their candidates among the lines.
LEMMA EntriesPaired ==
    ASSUME ServedInv, NEW a \in Busy, Head(doing[a].todo).do = "collectCells",
           Undisturbed("candidates"), NEW c \in doing[a].entries
    PROVE  c \in CallsOf(candidates.cells) \cup Open \cup past.cut
  <1>1. c \in CallsThat("wiki", "entry")
    BY SeenIs DEF ServedInv, Indexed
  <1>2. HasCall(c, Did("appendCandidate")) \/ Pending(c, {Did("appendCandidate")})
    BY <1>1 DEF ServedInv, Prompted
  <1>3. CASE HasCall(c, Did("appendCandidate"))
    <2>1. PICK i \in DOMAIN writes["candidates"] :
              writes["candidates"][i].kind = "cell" /\ writes["candidates"][i].call = c
      BY <1>3, HasCallIs, CallsIs
    <2>2. IsList(writes["candidates"]) /\ KeptOf("candidates", {"cell"}, Len(writes["candidates"]),
                                                 CallsOf(candidates.cells))
      BY DEF ServedInv, Files, CellsKept, Rewritten
    <2>3. DOMAIN writes["candidates"] = 1 .. Len(writes["candidates"]) /\ Len(writes["candidates"]) \in Nat
      BY <2>2, ListIs
    <2>4. i <= Len(writes["candidates"])
      BY <2>3
    <2>5. c \in CallsOf(candidates.cells) \/ MadeOver("candidates", i)
      BY <2>1, <2>2, <2>4 DEF KeptOf
    <2>6. ~MadeOver("candidates", i)
      BY <2>3 DEF MadeOver, Undisturbed
    <2> QED BY <2>5, <2>6
  <1>4. CASE Pending(c, {Did("appendCandidate")})
    BY <1>4 DEF Pending, Open, Busy
  <1> QED BY <1>2, <1>3, <1>4

\* The look at the lines pairs them with the entries.
LEMMA CellsPaired ==
    ASSUME ServedInv, NEW a \in Actors, Moves(a), Does(a, "collectCells"), a \in Busy'
    PROVE  Paired(doing[a].entries, doing[a].cells, doing[a].open)'
  <1>1. a \in Busy /\ Head(doing[a].todo).do = "collectCells" /\ ~Quit(a)
    BY BusyIs DEF Does, Quit
  <1>2. FilesKept /\ LookedCells(a)
    BY <1>1, StepOf
  <1>3. PICK rec : /\ Went(a, rec, <<>>) /\ DOMAIN rec = {"cells", "open"}
                   /\ CallsOf(candidates.cells) \subseteq rec.cells /\ rec.open = Open
    BY <1>2 DEF LookedCells, Looked, HeldFields
  <1>4. Holds(a, "collectEntries") /\ "entries" \in DOMAIN doing[a]
    BY <1>1, SeenIs DEF Holds, HeldFields
  <1>5. doing'[a] # Rest
    BY BusyIs
  <1>6. PICK E : E = doing[a].entries
    OBVIOUS
  <1>7. doing'[a].entries = E
    BY <1>3, <1>4, <1>5, <1>6 DEF Went
  <1>8. CallsOf(candidates.cells) \subseteq doing'[a].cells /\ doing'[a].open = Open
    BY <1>3, <1>5 DEF Went
  <1>9. past.cut \subseteq past'.cut /\ writes' = writes
    BY <1>2, PastGrows DEF FilesKept
  <1>10. Undisturbed("candidates")' => Undisturbed("candidates")
    BY <1>9, UndisturbedSame
  <1>11. Undisturbed("candidates") =>
            \A c \in E : c \in CallsOf(candidates.cells) \cup Open \cup past.cut
    BY <1>1, <1>6, EntriesPaired
  <1> QED BY <1>7, <1>8, <1>9, <1>10, <1>11 DEF Paired

\* The index pairs its entries with candidates, as does each one being built.
LEMMA IndexedStays ==
    ASSUME ServedInv, NEW a, Still \/ (a \in Actors /\ Moves(a))
    PROVE  Indexed'
  <1>0. Indexed /\ WikiKept /\ Grown
    BY StepGrows DEF ServedInv
  <1>1. Paired(search.entries, search.cells, search.open)'
    <2>1. CASE IndexKept
      <3>1. PICK E, C, O : E = search.entries /\ C = search.cells /\ O = search.open
        OBVIOUS
      <3>2. Paired(E, C, O)'
        BY <1>0, <3>1, PairedStays DEF Indexed
      <3> QED BY <2>1, <3>1, <3>2 DEF IndexKept
    <2>2. CASE WroteIndex(a)
      <3>1. PICK E, C, O : E = doing[a].entries /\ C = doing[a].cells /\ O = doing[a].open
        OBVIOUS
      <3>2. Paired(E, C, O)
        BY <1>0, <2>2, <3>1 DEF Indexed, WroteIndex, Does
      <3>3. Paired(E, C, O)'
        BY <3>2, PairedStays
      <3> QED BY <2>2, <3>1, <3>3 DEF WroteIndex
    <2> QED BY <2>1, <2>2, IndexFrom
  <1>2. ASSUME NEW b \in Busy', HeldFields("collectEntries") \subseteq DOMAIN doing'[b]
        PROVE  doing'[b].entries \subseteq CallsThat("wiki", "entry")'
    <2>1. CallsThat("wiki", "entry") \subseteq CallsThat("wiki", "entry")'
      BY <1>0, CallsGrow DEF Rewritten
    <2>2. CASE SameFor(b, "collectEntries")
      <3>1. b \in Busy /\ Holds(b, "collectEntries") /\ doing'[b].entries = doing[b].entries
        BY <1>2, <2>2 DEF SameFor, HeldFields
      <3> QED BY <1>0, <2>1, <3>1 DEF Indexed
    <2>3. CASE b = a /\ FilesKept /\ LookedEntries(a)
      <3>1. PICK rec : /\ Went(a, rec, <<>>) /\ DOMAIN rec = {"entries"}
                       /\ rec.entries \subseteq wiki.entries
        BY <2>3 DEF LookedEntries, Looked, HeldFields
      <3>2. doing'[a] # Rest
        BY <2>3, BusyIs
      <3>3. doing'[a].entries \subseteq wiki.entries
        BY <3>1, <3>2 DEF Went
      <3> QED BY <1>0, <2>1, <2>3, <3>3 DEF WikiKept
    <2> QED BY <2>2, <2>3, HeldFrom
  <1>3. ASSUME NEW b \in Busy', Head(doing'[b].todo).do = "writeIndex"
        PROVE  Paired(doing[b].entries, doing[b].cells, doing[b].open)'
    <2>1. CASE Still \/ b # a
      <3>1. b \in Busy /\ doing'[b] = doing[b]
        BY <2>1, Bystander
      <3>2. PICK E, C, O : E = doing[b].entries /\ C = doing[b].cells /\ O = doing[b].open
        OBVIOUS
      <3>3. Paired(E, C, O)
        BY <1>0, <1>3, <3>1, <3>2 DEF Indexed
      <3>4. Paired(E, C, O)'
        BY <3>3, PairedStays
      <3> QED BY <3>1, <3>2, <3>4
    <2>2. CASE ~Still /\ b = a
      <3>1. a \in Actors /\ Moves(a) /\ a \in Busy'
        BY <2>2
      <3>2. PICK y : y = Head(doing'[a].todo)
        OBVIOUS
      <3>3. y.do = "writeIndex"
        BY <1>3, <2>2, <3>2
      <3>4. Does(a, "collectCells")
        BY <3>1, <3>2, <3>3, HeadAfter DEF Fresh, Ends
      <3> QED BY <2>2, <3>1, <3>4, CellsPaired
    <2> QED BY <2>1, <2>2
  <1>4. ASSUME NEW b \in Busy'
        PROVE  (/\ Holds(b, "collectEntries") => doing[b].entries \subseteq CallsThat("wiki", "entry")
                /\ Head(doing[b].todo).do = "writeIndex" =>
                      Paired(doing[b].entries, doing[b].cells, doing[b].open))'
    BY <1>2, <1>3 DEF Holds
  <1> QED BY <1>1, <1>4 DEF Indexed

-----------------------------------------------------------------------------
(* The tools. *)

\* Lines of a call that say its tool runs, or has ended.
CountSet(w, kinds, c) == {i \in DOMAIN w : w[i].kind \in kinds /\ w[i].call = c}
Tools(w, c) ==
    Cardinality(CountSet(w, {"tool_running"}, c))
        - Cardinality(CountSet(w, {"tool_complete", "tool_error"}, c))

LEMMA RunningIs ==
    ASSUME NEW c
    PROVE  /\ Running(c) = Tools(lines["progress"], c)
           /\ Running(c)' = Tools(lines'["progress"], c)
  <1>1. Running(c) = Tools(lines["progress"], c)
    BY DEF Running, Count, Tools, CountSet
  <1>2. Running(c)' = Tools(lines'["progress"], c)
    BY DEF Running, Count, Tools, CountSet
  <1> QED BY <1>1, <1>2

LEMMA CountType ==
    ASSUME NEW w, IsList(w), NEW kinds, NEW c
    PROVE  Cardinality(CountSet(w, kinds, c)) \in Nat /\ IsFiniteSet(CountSet(w, kinds, c))
  <1>1. Len(w) \in Nat /\ DOMAIN w = 1 .. Len(w)
    BY ListIs
  <1>2. IsFiniteSet(1 .. Len(w))
    BY <1>1, FS_Interval
  <1>3. CountSet(w, kinds, c) \subseteq 1 .. Len(w)
    BY <1>1 DEF CountSet
  <1>4. IsFiniteSet(CountSet(w, kinds, c))
    BY <1>2, <1>3, FS_Subset
  <1> QED BY <1>4, FS_CardinalityType

LEMMA CountMore ==
    ASSUME NEW w, NEW v, NEW x, More(w, v, x), NEW kinds, NEW c
    PROVE  /\ ~(x.kind \in kinds /\ x.call = c) =>
                 Cardinality(CountSet(v, kinds, c)) = Cardinality(CountSet(w, kinds, c))
           /\ x.kind \in kinds /\ x.call = c =>
                 Cardinality(CountSet(v, kinds, c)) = Cardinality(CountSet(w, kinds, c)) + 1
  <1>1. /\ Len(w) \in Nat /\ DOMAIN w = 1 .. Len(w) /\ IsList(w)
        /\ DOMAIN v = 1 .. Len(w) + 1 /\ v[Len(w) + 1] = x
        /\ \A i \in DOMAIN w : v[i] = w[i]
    BY DEF More
  <1>2. ASSUME ~(x.kind \in kinds /\ x.call = c)
        PROVE  CountSet(v, kinds, c) = CountSet(w, kinds, c)
    BY <1>1, <1>2 DEF CountSet
  <1>3. ASSUME x.kind \in kinds, x.call = c
        PROVE  Cardinality(CountSet(v, kinds, c)) = Cardinality(CountSet(w, kinds, c)) + 1
    <2>1. CountSet(v, kinds, c) = CountSet(w, kinds, c) \cup {Len(w) + 1}
      BY <1>1, <1>3 DEF CountSet
    <2>2. Len(w) + 1 \notin CountSet(w, kinds, c)
      BY <1>1 DEF CountSet
    <2> QED BY <1>1, <2>1, <2>2, CountType, FS_AddElement
  <1> QED BY <1>2, <1>3

LEMMA ToolsMore ==
    ASSUME NEW w, NEW v, NEW x, More(w, v, x), NEW c
    PROVE  /\ Tools(w, c) \in Int
           /\ (x.call # c \/ x.kind \notin {"tool_running", "tool_complete", "tool_error"}) =>
                 Tools(v, c) = Tools(w, c)
           /\ x.call = c /\ x.kind = "tool_running" => Tools(v, c) = Tools(w, c) + 1
           /\ x.call = c /\ x.kind \in {"tool_complete", "tool_error"} =>
                 Tools(v, c) = Tools(w, c) - 1
  <1>1. PICK run, end : run = {"tool_running"} /\ end = {"tool_complete", "tool_error"}
    OBVIOUS
  <1>2. PICK p, q, p2, q2 : /\ p = Cardinality(CountSet(w, run, c))
                            /\ q = Cardinality(CountSet(w, end, c))
                            /\ p2 = Cardinality(CountSet(v, run, c))
                            /\ q2 = Cardinality(CountSet(v, end, c))
    OBVIOUS
  <1>3. IsList(w)
    BY DEF More
  <1>4. p \in Nat /\ q \in Nat
    BY <1>2, <1>3, CountType
  <1>5. /\ ~(x.kind \in run /\ x.call = c) => p2 = p
        /\ x.kind \in run /\ x.call = c => p2 = p + 1
        /\ ~(x.kind \in end /\ x.call = c) => q2 = q
        /\ x.kind \in end /\ x.call = c => q2 = q + 1
    BY <1>2, CountMore
  <1>6. Tools(w, c) = p - q /\ Tools(v, c) = p2 - q2
    BY <1>1, <1>2 DEF Tools
  <1> QED BY ONLY <1>1, <1>4, <1>5, <1>6

\* A call that is not made yet has no lines.
LEMMA NoTools ==
    ASSUME Files, Calls, NEW c, c = past.calls + 1
    PROVE  Tools(lines["progress"], c) = 0
  <1>1. \A i \in DOMAIN lines["progress"] : lines["progress"][i].call \in 0 .. past.calls
    BY DEF Files, LineFiles
  <1>2. \A n \in 0 .. past.calls : n # c
    BY DEF Calls
  <1>3. \A kinds : CountSet(lines["progress"], kinds, c) = {}
    BY <1>1, <1>2 DEF CountSet
  <1>4. Cardinality({}) = 0
    BY FS_EmptySet
  <1>5. PICK run, end : run = {"tool_running"} /\ end = {"tool_complete", "tool_error"}
    OBVIOUS
  <1>6. CountSet(lines["progress"], run, c) = {} /\ CountSet(lines["progress"], end, c) = {}
    BY <1>3
  <1>7. Tools(lines["progress"], c) = Cardinality(CountSet(lines["progress"], run, c))
                                      - Cardinality(CountSet(lines["progress"], end, c))
    BY <1>5 DEF Tools
  <1>8. Tools(lines["progress"], c) = 0 - 0
    BY <1>4, <1>6, <1>7
  <1> QED BY <1>8

\* The lines of the progress file that a step adds are those of the call itself.
LEMMA ProgressFrom ==
    ASSUME ServedInv, NEW a, Still \/ (a \in Actors /\ Moves(a))
    PROVE  \/ /\ lines'["progress"] = lines["progress"]
              /\ ~(Appended(a) /\ Head(doing[a].todo).file = "progress")
           \/ /\ Appended(a) /\ Head(doing[a].todo).file = "progress" /\ a \in Busy
              /\ \E l : /\ More(lines["progress"], lines'["progress"], l)
                        /\ l.call = doing[a].call /\ l.kind = Kind(Head(doing[a].todo).rec)
  <1>1. CASE ~Appended(a)
    BY <1>1 DEF Still, Moves, Quiet, FilesKept, Writing, CutsKept, WroteIndex, WroteWelcome
  <1>2. CASE Appended(a)
    <2>1. a \in Busy /\ OnPlan(a) /\ Files /\ Head(doing[a].todo).do = "append"
      BY <1>2 DEF ServedInv, Appended, Does
    <2>2. PICK x : x = Head(doing[a].todo)
      OBVIOUS
    <2>3. /\ \A f \in LineFiles : f # x.file => lines'[f] = lines[f]
          /\ More(lines[x.file], lines'[x.file], LineOf(a))
      BY <1>2, <2>1, <2>2, AppendedMore
    <2>4. CASE x.file = "progress"
      <3>1. LineOf(a).call = doing[a].call /\ LineOf(a).kind = Kind(x.rec)
        BY <2>1, <2>2, <2>4, LineIs
      <3> QED BY <1>2, <2>1, <2>2, <2>3, <2>4, <3>1
    <2>5. CASE x.file # "progress"
      BY <2>2, <2>3, <2>5 DEF LineFiles
    <2> QED BY <2>4, <2>5
  <1> QED BY <1>1, <1>2

-----------------------------------------------------------------------------
(* The tool of a call that goes on. *)

\* A line of progress is added.
TookTool(a) == Appended(a) /\ Head(doing[a].todo).file = "progress"

\* A call is at its tool when its next step runs it or shows its end.
LEMMA AtToolIs ==
    ASSUME NEW a
    PROVE  /\ \A x : x = Head(doing[a].todo) => (AtTool(a) <=> x.do = "runCommand" \/ Ends(x))
           /\ \A x : x = Head(doing'[a].todo) => (AtTool(a)' <=> x.do = "runCommand" \/ Ends(x))
  BY DEF AtTool, Ends, Kind

LEMMA ToolsHold ==
    ASSUME ServedInv
    PROVE  /\ \A a \in Busy : Tools(lines["progress"], doing[a].call) = IF AtTool(a) THEN 1 ELSE 0
           /\ \A c \in 1 .. past.calls :
                 Tools(lines["progress"], c) = 0 \/
                 (Tools(lines["progress"], c) = 1 /\ c \in Unfinished)
  <1>1. ToolsEnd /\ Calls
    BY DEF ServedInv
  <1>2. \A c : Running(c) = Tools(lines["progress"], c)
    BY RunningIs
  <1>3. \A a \in Busy : doing[a].call \in 1 .. past.calls
    BY <1>1 DEF Calls
  <1> QED BY <1>1, <1>2, <1>3 DEF ToolsEnd

\* A line that tells that a tool runs is followed by the run of it.
LEMMA RunFollows ==
    ASSUME NEW a \in Busy, OnPlan(a), Runs(Head(doing[a].todo)), NEW rec, Went(a, rec, <<>>)
    PROVE  a \in Busy' /\ Head(doing'[a].todo).do = "runCommand"
  <1>1. PICK s : s = doing[a].todo
    OBVIOUS
  <1>2. Head(s) = s[1] /\ 1 \in DOMAIN s /\ Prompt(s) /\ \A i \in DOMAIN s : WellFormed(s[i])
    BY <1>1, HeadIs DEF OnPlan, Planned
  <1>3. PICK x, y : x = s[1] /\ y = s[2]
    OBVIOUS
  <1>4. Runs(x)
    BY <1>1, <1>2, <1>3
  <1>5. Owes(x) = {Did("runCommand")}
    BY <1>4 DEF Owes, Runs
  <1>6. Owes(s[1]) # {} => 1 + 1 \in DOMAIN s /\ Owes(s[1]) \cap Gives(s[1 + 1]) # {}
    BY <1>2 DEF Prompt
  <1>7. 2 \in DOMAIN s /\ Owes(x) \cap Gives(y) # {}
    BY <1>3, <1>5, <1>6
  <1>8. WellFormed(y) /\ Did("runCommand") \in Gives(y)
    BY <1>2, <1>3, <1>5, <1>7
  <1>9. y.do = "runCommand"
    <2>1. CASE y.do # "append"
      <3>1. Gives(y) \subseteq {Did(y.do)}
        BY <2>1, GivesDid
      <3> QED BY <1>8, <3>1 DEF Did
    <2>2. CASE y.do = "append"
      <3>1. y.file \in LineFiles /\ y.file # "did"
        BY <1>8, <2>2, NotFiles DEF WellFormed
      <3>2. \A f, k : f # "did" => <<f, k>> # Did("runCommand")
        BY DEF Did
      <3>3. Did("runCommand") \in {<<y.file, Kind(y.rec)>>, <<y.file, "any">>}
            \/ Did("runCommand") = <<"check", Kind(y.rec)>>
        BY <1>8, <2>2 DEF Gives
      <3> QED BY <3>1, <3>2, <3>3
    <2> QED BY <2>1, <2>2
  <1> QED BY <1>1, <1>3, <1>7, <1>9, NextSteps

\* The call that makes the step, and goes on with another.
LEMMA ToolOnward ==
    ASSUME ServedInv, NEW a \in Actors, Moves(a), a \in Busy, a \in Busy',
           NEW c, c = doing[a].call
    PROVE  doing'[a].call = c /\ Tools(lines'["progress"], c) = IF AtTool(a)' THEN 1 ELSE 0
  <1>1. ~Quit(a) /\ OnPlan(a)
    BY BusyIs DEF Quit, ServedInv
  <1>2. PICK rec, t : Went(a, rec, t)
    BY <1>1, BusyIs, MovesHow DEF Begun
  <1>3. doing'[a].call = c
    BY <1>2, BusyIs DEF Went
  <1>4. PICK x, y : x = Head(doing[a].todo) /\ y = Head(doing'[a].todo)
    OBVIOUS
  <1>5. PICK w, v : w = lines["progress"] /\ v = lines'["progress"]
    OBVIOUS
  <1>6. /\ AtTool(a) <=> x.do = "runCommand" \/ Ends(x)
        /\ AtTool(a)' <=> y.do = "runCommand" \/ Ends(y)
    BY <1>4, AtToolIs
  <1>7. Tools(w, c) = IF AtTool(a) THEN 1 ELSE 0
    BY <1>5, ToolsHold
  <1>8. \/ Fresh(y)
        \/ x.do = "collectCells" /\ y.do = "writeIndex"
        \/ Runs(x) /\ y.do = "runCommand"
        \/ x.do = "runCommand" /\ Ends(y)
    BY <1>4, HeadAfter DEF Does
  <1>9. /\ ~(Runs(x) /\ Ends(x))
        /\ (Runs(x) \/ Ends(x)) => x.do = "append" /\ x.file = "progress"
        /\ Ends(y) => y.do = "append"
    BY DEF Runs, Ends
  <1>10. CASE v = w /\ ~TookTool(a)
    <2>1. ~Runs(x) /\ ~Ends(x)
      <3>1. Does(a, "append") => Appended(a)
        BY <1>1, StepOf
      <3> QED BY <1>4, <1>9, <1>10, <3>1 DEF Does, TookTool
    <2>2. CASE x.do = "runCommand"
      <3>1. Ran(a)
        BY <1>1, <1>4, <2>2, StepOf DEF Does
      <3>2. PICK outcome \in {"tool_complete", "tool_error"} :
                Went(a, <<>>, <<Add("progress", outcome)>>)
        BY <3>1 DEF Ran
      <3>3. PICK z : z = Add("progress", outcome)
        OBVIOUS
      <3>4. Ends(z)
        BY <3>2, <3>3, OutcomeIs
      <3>5. PICK one : one = <<z>>
        OBVIOUS
      <3>6. IsList(one) /\ DOMAIN one = {1} /\ one[1] = z
        BY <3>5, Lists
      <3>7. Went(a, <<>>, one)
        BY <3>2, <3>3, <3>5
      <3>8. PICK r : r = doing'[a].todo
        OBVIOUS
      <3>9. 1 \in DOMAIN r /\ r[1] = z
        BY <1>1, <3>6, <3>7, <3>8, GoesOnWith DEF Followed
      <3>10. IsList(r) /\ r # <<>>
        BY <3>8, PlanKept DEF OnPlan, Planned
      <3>11. y = z
        BY <1>4, <3>8, <3>9, <3>10, Shortened
      <3> QED BY <1>3, <1>5, <1>6, <1>7, <1>10, <2>2, <3>4, <3>11
    <2>3. CASE x.do # "runCommand"
      <3>1. ~AtTool(a) /\ ~AtTool(a)'
        BY <1>6, <1>8, <1>9, <2>1, <2>3 DEF Fresh
      <3> QED BY <1>3, <1>5, <1>7, <1>10, <3>1
    <2> QED BY <2>2, <2>3
  <1>11. CASE TookTool(a)
    <2>1. PICK l : More(w, v, l) /\ l.call = c /\ l.kind = Kind(x.rec)
      BY <1>4, <1>5, <1>11, ProgressFrom DEF TookTool
    <2>2. x.do = "append" /\ x.file = "progress" /\ Went(a, <<>>, <<>>)
      BY <1>4, <1>11 DEF TookTool, Appended, Does
    <2>3. /\ Tools(w, c) \in Int
          /\ l.kind \notin {"tool_running", "tool_complete", "tool_error"} =>
                 Tools(v, c) = Tools(w, c)
          /\ l.kind = "tool_running" => Tools(v, c) = Tools(w, c) + 1
          /\ l.kind \in {"tool_complete", "tool_error"} => Tools(v, c) = Tools(w, c) - 1
      BY <2>1, ToolsMore
    <2>4. /\ Runs(x) <=> l.kind = "tool_running"
          /\ Ends(x) <=> l.kind \in {"tool_complete", "tool_error"}
      BY <2>1, <2>2 DEF Runs, Ends
    <2>5. CASE Runs(x)
      <3>1. y.do = "runCommand"
        BY <1>1, <1>4, <2>2, <2>5, RunFollows
      <3>2. AtTool(a)' /\ ~AtTool(a)
        BY <1>6, <1>9, <2>2, <2>5, <3>1
      <3>3. Tools(v, c) = Tools(w, c) + 1 /\ Tools(w, c) = 0
        BY <1>7, <2>3, <2>4, <2>5, <3>2
      <3> QED BY <1>3, <1>5, <3>2, <3>3
    <2>6. CASE ~Runs(x)
      <3>1. ~AtTool(a)'
        BY <1>6, <1>8, <1>9, <2>2, <2>6 DEF Fresh
      <3>2. Tools(v, c) = 0
        <4>1. CASE Ends(x)
          BY <1>6, <1>7, <2>3, <2>4, <4>1
        <4>2. CASE ~Ends(x)
          BY <1>6, <1>7, <2>2, <2>3, <2>4, <2>6, <4>2
        <4> QED BY <4>1, <4>2
      <3> QED BY <1>3, <1>5, <3>1, <3>2
    <2> QED BY <2>5, <2>6
  <1> QED BY <1>5, <1>10, <1>11, ProgressFrom DEF TookTool

-----------------------------------------------------------------------------
(* The tools of calls that leave, start, or are elsewhere. *)

\* The call that makes its last step.
LEMMA ToolLeft ==
    ASSUME ServedInv, NEW a \in Actors, Moves(a), a \in Busy, a \notin Busy',
           NEW c, c = doing[a].call
    PROVE  LET n == Tools(lines'["progress"], c) IN n = 0 \/ (n = 1 /\ c \in past'.cut)
  <1>1. OnPlan(a)
    BY DEF ServedInv
  <1>2. PICK x : x = Head(doing[a].todo)
    OBVIOUS
  <1>3. PICK w, v : w = lines["progress"] /\ v = lines'["progress"]
    OBVIOUS
  <1>4. AtTool(a) <=> x.do = "runCommand" \/ Ends(x)
    BY <1>2, AtToolIs
  <1>5. Tools(w, c) = IF AtTool(a) THEN 1 ELSE 0
    BY <1>3, ToolsHold
  <1>6. /\ ~(Runs(x) /\ Ends(x))
        /\ (Runs(x) \/ Ends(x)) => x.do = "append" /\ x.file = "progress"
    BY DEF Runs, Ends
  <1>7. CASE v = w /\ ~TookTool(a) /\ Quit(a)
    <2>1. CASE c \in past'.cut
      BY <1>3, <1>5, <1>7, <2>1
    <2>2. CASE c \notin past'.cut
      <3>1. x.do \in Readers
        BY <1>2, <1>7, <2>2 DEF Quit
      <3>2. ~AtTool(a)
        BY <1>4, <1>6, <3>1 DEF Readers
      <3> QED BY <1>3, <1>5, <1>7, <3>2
    <2> QED BY <2>1, <2>2
  <1>8. CASE v = w /\ ~TookTool(a) /\ ~Quit(a)
    <2>1. ~Ends(x)
      <3>1. Does(a, "append") => Appended(a)
        BY <1>8, StepOf
      <3> QED BY <1>2, <1>6, <1>8, <3>1 DEF Does, TookTool
    <2>2. x.do # "runCommand"
      <3>1. SUFFICES ASSUME x.do = "runCommand" PROVE FALSE
        OBVIOUS
      <3>2. Ran(a)
        BY <1>2, <1>8, <3>1, StepOf DEF Does
      <3>3. PICK outcome \in {"tool_complete", "tool_error"} :
                Went(a, <<>>, <<Add("progress", outcome)>>)
        BY <3>2 DEF Ran
      <3>4. PICK z, one : z = Add("progress", outcome) /\ one = <<z>>
        OBVIOUS
      <3>5. DOMAIN one = {1}
        BY <3>4, Lists
      <3>6. Went(a, <<>>, one)
        BY <3>3, <3>4
      <3>7. one = <<>>
        BY <1>1, <3>6, GoesOnWith
      <3> QED BY <3>5, <3>7, Empty
    <2> QED BY <1>3, <1>4, <1>5, <1>8, <2>1, <2>2
  <1>9. CASE TookTool(a)
    <2>1. PICK l : More(w, v, l) /\ l.call = c /\ l.kind = Kind(x.rec)
      BY <1>2, <1>3, <1>9, ProgressFrom DEF TookTool
    <2>2. x.do = "append" /\ x.file = "progress" /\ Went(a, <<>>, <<>>)
      BY <1>2, <1>9 DEF TookTool, Appended, Does
    <2>3. /\ Tools(w, c) \in Int
          /\ l.kind \notin {"tool_running", "tool_complete", "tool_error"} =>
                 Tools(v, c) = Tools(w, c)
          /\ l.kind \in {"tool_complete", "tool_error"} => Tools(v, c) = Tools(w, c) - 1
      BY <2>1, ToolsMore
    <2>4. /\ Runs(x) <=> l.kind = "tool_running"
          /\ Ends(x) <=> l.kind \in {"tool_complete", "tool_error"}
      BY <2>1, <2>2 DEF Runs, Ends
    <2>5. ~Runs(x)
      BY <1>1, <1>2, <2>2, RunFollows
    <2>6. CASE Ends(x)
      BY <1>3, <1>4, <1>5, <2>3, <2>4, <2>6
    <2>7. CASE ~Ends(x)
      BY <1>3, <1>4, <1>5, <2>2, <2>3, <2>4, <2>5, <2>7
    <2> QED BY <2>6, <2>7
  <1> QED BY <1>3, <1>7, <1>8, <1>9, ProgressFrom DEF TookTool

\* The call that begins.
LEMMA ToolBegun ==
    ASSUME ServedInv, NEW a \in Actors, Moves(a), a \notin Busy, a \in Busy',
           NEW c, c = doing'[a].call
    PROVE  c = past.calls + 1 /\ Tools(lines'["progress"], c) = 0 /\ ~AtTool(a)'
  <1>1. PICK todo : Begun(a, todo)
    BY MovesHow DEF Quit, Went
  <1>2. c = past.calls + 1
    BY <1>1 DEF Begun
  <1>3. lines'["progress"] = lines["progress"]
    BY ProgressFrom
  <1>4. Tools(lines["progress"], c) = 0
    BY <1>2, NoTools DEF ServedInv
  <1>5. PICK y : y = Head(doing'[a].todo)
    OBVIOUS
  <1>6. Fresh(y)
    BY <1>5, HeadAfter DEF Does
  <1>7. AtTool(a)' <=> y.do = "runCommand" \/ Ends(y)
    BY <1>5, AtToolIs
  <1> QED BY <1>2, <1>3, <1>4, <1>6, <1>7 DEF Fresh

\* Calls that make no step keep what their lines say.
LEMMA ToolOthers ==
    ASSUME ServedInv, NEW a, Still \/ (a \in Actors /\ Moves(a)),
           NEW c, a \in Busy => doing[a].call # c
    PROVE  Tools(lines'["progress"], c) = Tools(lines["progress"], c)
  <1>1. CASE lines'["progress"] = lines["progress"]
    BY <1>1
  <1>2. CASE TookTool(a)
    <2>1. PICK l : More(lines["progress"], lines'["progress"], l) /\ l.call = doing[a].call /\ a \in Busy
      BY <1>2, ProgressFrom DEF TookTool
    <2> QED BY <2>1, ToolsMore
  <1> QED BY <1>1, <1>2, ProgressFrom DEF TookTool

LEMMA ToolsOfBusy ==
    ASSUME ServedInv, NEW a, Still \/ (a \in Actors /\ Moves(a)), NEW b \in Busy',
           NEW c, c = doing'[b].call
    PROVE  Tools(lines'["progress"], c) = IF AtTool(b)' THEN 1 ELSE 0
  <1>1. CASE Still
    <2>1. b \in Busy /\ doing'[b] = doing[b]
      BY <1>1, Bystander
    <2>2. lines' = lines
      BY <1>1 DEF Still, FilesKept
    <2>3. AtTool(b)' <=> AtTool(b)
      BY <2>1 DEF AtTool
    <2> QED BY <2>1, <2>2, <2>3, ToolsHold
  <1>2. CASE ~Still /\ b # a
    <2>1. b \in Busy /\ doing'[b] = doing[b]
      BY <1>2, Bystander
    <2>2. a \in Busy => doing[a].call # c
      BY <1>2, <2>1 DEF ServedInv, Calls
    <2>3. Tools(lines'["progress"], c) = Tools(lines["progress"], c)
      BY <2>2, ToolOthers
    <2>4. AtTool(b)' <=> AtTool(b)
      BY <2>1 DEF AtTool
    <2> QED BY <2>1, <2>3, <2>4, ToolsHold
  <1>3. CASE ~Still /\ b = a
    <2>1. a \in Actors /\ Moves(a) /\ a \in Busy'
      BY <1>3
    <2>2. CASE a \in Busy
      <3>1. PICK d : d = doing[a].call
        OBVIOUS
      <3>2. doing'[a].call = d /\ Tools(lines'["progress"], d) = IF AtTool(a)' THEN 1 ELSE 0
        BY <2>1, <2>2, <3>1, ToolOnward
      <3> QED BY <1>3, <3>2
    <2>3. CASE a \notin Busy
      <3>1. Tools(lines'["progress"], c) = 0 /\ ~AtTool(a)'
        BY <1>3, <2>1, <2>3, ToolBegun
      <3> QED BY <1>3, <3>1
    <2> QED BY <2>2, <2>3
  <1> QED BY <1>1, <1>2, <1>3

\* A tool runs exactly while its call is at it, or was cut short at it.
LEMMA ToolsStay ==
    ASSUME ServedInv, NEW a, Still \/ (a \in Actors /\ Moves(a))
    PROVE  ToolsEnd'
  <1>1. ASSUME NEW c \in 1 .. past'.calls, NEW n, n = Tools(lines'["progress"], c)
        PROVE  n = 0 \/ (n = 1 /\ c \in Unfinished')
    <2>1. CASE \E b \in Busy' : doing'[b].call = c
      <3>1. PICK b \in Busy' : doing'[b].call = c
        BY <2>1
      <3>2. n = 0 \/ n = 1
        BY <1>1, <3>1, ToolsOfBusy
      <3>3. b \in Actors /\ doing'[b] # Rest
        BY <3>1, BusyIs
      <3>4. c \in Unfinished'
        BY <3>1, <3>3 DEF Unfinished, Open
      <3> QED BY <3>2, <3>4
    <2>2. CASE a \in Busy /\ a \notin Busy' /\ doing[a].call = c
      <3>1. a \in Actors /\ Moves(a)
        BY <2>2, BusyIs DEF Still
      <3>2. n = 0 \/ (n = 1 /\ c \in past'.cut)
        BY <1>1, <2>2, <3>1, ToolLeft
      <3> QED BY <3>2 DEF Unfinished
    <2>3. CASE ~(\E b \in Busy' : doing'[b].call = c) /\ ~(a \in Busy /\ a \notin Busy' /\ doing[a].call = c)
      <3>1. ASSUME NEW b \in Busy, doing[b].call = c PROVE FALSE
        <4>1. CASE Still \/ b # a
          <5>1. doing'[b] = doing[b]
            <6>1. CASE Still
              BY <6>1 DEF Still
            <6>2. CASE ~Still
              <7>1. Others(a) /\ b # a
                BY <4>1, <6>2, MovesHow DEF Begun, Quit, Went
              <7> QED BY <3>1, <7>1, BusyIs DEF Others
            <6> QED BY <6>1, <6>2
          <5>2. b \in Busy'
            BY <3>1, <5>1, BusyIs
          <5> QED BY <2>3, <3>1, <5>1, <5>2
        <4>2. CASE ~Still /\ b = a
          <5>1. a \in Busy'
            BY <2>3, <3>1, <4>2
          <5>2. doing'[a].call = c
            BY <3>1, <4>2, <5>1, ToolOnward
          <5> QED BY <2>3, <5>1, <5>2
        <4> QED BY <4>1, <4>2
      <3>2. n = Tools(lines["progress"], c)
        BY <1>1, <3>1, ToolOthers
      <3>3. CASE c \in 1 .. past.calls
        <4>1. n = 0 \/ (n = 1 /\ c \in Unfinished)
          BY <3>2, <3>3, ToolsHold
        <4>2. c \in Unfinished => c \in past.cut
          BY <3>1, BusyIs DEF Unfinished, Open
        <4>3. c \in past.cut => c \in past'.cut
          BY PastGrows
        <4> QED BY <4>1, <4>2, <4>3 DEF Unfinished
      <3>4. CASE c \notin 1 .. past.calls
        <4>1. CASE past'.calls = past.calls
          BY <3>4, <4>1
        <4>2. CASE past'.calls # past.calls
          <5>1. a \in Actors /\ Moves(a)
            BY <4>2 DEF Still
          <5>2. PICK todo : Begun(a, todo)
            BY <4>2, <5>1, MovesHow DEF Quit, Went
          <5>3. past.calls \in Nat /\ past'.calls = past.calls + 1 /\ doing'[a].call = past.calls + 1
            BY <5>2 DEF Begun, ServedInv, Calls
          <5>4. c = past.calls + 1
            BY <3>4, <5>3
          <5>5. a \in Busy'
            BY <5>2, BusyIs DEF Begun
          <5> QED BY <2>3, <5>3, <5>4, <5>5
        <4> QED BY <4>1, <4>2
      <3> QED BY <3>3, <3>4
    <2> QED BY <2>1, <2>2, <2>3
  <1>2. \A c : Running(c)' = Tools(lines'["progress"], c)
    BY RunningIs
  <1>3. ASSUME NEW c \in 1 .. past'.calls
        PROVE  (/\ Running(c) = 0 \/ (Running(c) = 1 /\ c \in Unfinished)
                /\ \A b \in Busy : doing[b].call = c => Running(c) = IF AtTool(b) THEN 1 ELSE 0)'
    <2>1. Running(c)' = 0 \/ (Running(c)' = 1 /\ c \in Unfinished')
      BY <1>1, <1>2
    <2>2. ASSUME NEW b \in Busy', doing'[b].call = c
          PROVE  Running(c)' = IF AtTool(b)' THEN 1 ELSE 0
      BY <1>2, <2>2, ToolsOfBusy
    <2> QED BY <2>1, <2>2
  <1> QED BY <1>3 DEF ToolsEnd

-----------------------------------------------------------------------------
(* The welcome settings. *)

\* Only an application of the settings writes the welcome files.
LEMMA WelcomeFrom ==
    ASSUME NEW a, Still \/ (a \in Actors /\ Moves(a))
    PROVE  UNCHANGED welcome \/ WroteWelcome(a)
  BY DEF Still, Moves, Quiet, FilesKept, Writing, CutsKept, Appended, WroteIndex

\* What a step puts in between is no welcome file.
LEMMA BetweenTame ==
    ASSUME NEW a, NEW rec, NEW t, Between(a, rec, t)
    PROVE  Tame(t)
  <1>1. CASE t = <<>>
    BY <1>1, Empty DEF Tame
  <1>2. CASE Takes(t, {}, {})
    BY <1>2 DEF Takes, Steps
  <1>3. CASE \E outcome \in {"tool_complete", "tool_error"} : t = <<Add("progress", outcome)>>
    <2>1. PICK outcome \in {"tool_complete", "tool_error"} : t = <<Add("progress", outcome)>>
      BY <1>3
    <2>2. PICK z : z = Add("progress", outcome)
      OBVIOUS
    <2>3. z.do = "append"
      BY <2>2, OutcomeIs DEF OutcomeFacts
    <2>4. DOMAIN t = {1} /\ t[1] = z
      BY <2>1, <2>2, Lists
    <2> QED BY <2>3, <2>4 DEF Tame
  <1>4. CASE Rewriting(t)
    <2>1. DOMAIN t \subseteq {1, 2} /\ t[1].do = "writeKept"
      BY <1>4, RewritingIs, WriteKeptIs
    <2>2. 2 \in DOMAIN t => t[2].do = "append"
      BY <1>4, RewritingIs, RollbackIs DEF OutcomeFacts
    <2> QED BY <2>1, <2>2 DEF Tame
  <1> QED BY <1>1, <1>2, <1>3, <1>4 DEF Between

\* A call that applies the settings writes one of their files, or responds.
LEMMA WelcomingStep ==
    ASSUME ServedInv, NEW a \in Busy, Moves(a), Welcoming(a), ~Quit(a)
    PROVE  /\ Went(a, <<>>, <<>>) /\ Welcomes(doing[a].todo)
           /\ \/ Does(a, "writeWelcome") /\ WroteWelcome(a)
              \/ Does(a, "respond") /\ UNCHANGED welcome
  <1>1. Welcomes(doing[a].todo) /\ OnPlan(a)
    BY DEF ServedInv, WelcomeKept
  <1>2. Head(doing[a].todo).do \in {"writeWelcome", "respond"}
    BY <1>1, HeadIs DEF Welcomes
  <1>3. CASE Does(a, "writeWelcome")
    BY <1>1, <1>3, StepOf DEF WroteWelcome
  <1>4. CASE Does(a, "respond")
    <2>1. Walks(a) /\ FilesKept
      BY <1>4, StepOf
    <2> QED BY <1>1, <1>4, <2>1 DEF Walks, Does, FilesKept
  <1> QED BY <1>2, <1>3, <1>4 DEF Does

LEMMA WroteWelcomeIs ==
    ASSUME ServedInv, NEW a, WroteWelcome(a)
    PROVE  /\ a \in Busy /\ Head(doing[a].todo).file \in WelcomeFiles
           /\ DOMAIN welcome' = WelcomeFiles
           /\ \A f \in WelcomeFiles : f # Head(doing[a].todo).file => welcome'[f] = welcome[f]
           /\ welcome'[Head(doing[a].todo).file].call = doing[a].call
           /\ welcome'[Head(doing[a].todo).file].with = Open
           /\ welcome'[Head(doing[a].todo).file].approved = Head(doing[a].todo).answers
           /\ ~Tame(doing[a].todo) /\ Head(doing[a].todo).do = "writeWelcome"
  <1>1. a \in Busy /\ OnPlan(a) /\ Head(doing[a].todo).do = "writeWelcome"
    BY DEF WroteWelcome, Does, ServedInv
  <1>2. PICK x : x = Head(doing[a].todo)
    OBVIOUS
  <1>3. x.file \in WelcomeFiles
    BY <1>1, <1>2, HeadIs DEF WellFormed
  <1>4. DOMAIN welcome = WelcomeFiles
    BY DEF ServedInv, WelcomeKept
  <1>5. welcome' = [welcome EXCEPT ![x.file] =
                      [call |-> doing[a].call, with |-> Open, approved |-> x.answers]]
    BY <1>2 DEF WroteWelcome
  <1>6. ~Tame(doing[a].todo)
    BY <1>1, HeadIs DEF Tame
  <1> QED BY <1>1, <1>2, <1>3, <1>4, <1>5, <1>6

\* The files every application of the settings writes.
Base == ToSet(BaseFiles)

\* What is still true of the base files when a call has left them.
LEMMA WelcomeLists ==
    ASSUME NEW a \in Busy, OnPlan(a), NEW rec, NEW t, Went(a, rec, t),
           NEW s, s = doing[a].todo, NEW r, r = doing'[a].todo, a \in Busy'
    PROVE  /\ Tame(s) /\ Tame(t) => Tame(r)
           /\ Welcomes(s) /\ t = <<>> => Welcomes(r)
           /\ \A f : WritesFile(s, f) /\ ~(Head(s).do = "writeWelcome" /\ Head(s).file = f)
                        => WritesFile(r, f)
  <1>1. /\ \A i \in DOMAIN s \ {1} : \E j \in DOMAIN r : r[j] = s[i]
        /\ \A j \in DOMAIN r : \/ \E i \in DOMAIN t : r[j] = t[i]
                               \/ \E i \in DOMAIN s \ {1} : r[j] = s[i]
        /\ Head(s) = s[1]
    <2>1. Followed(s, t, r) /\ Head(s) = s[1]
      BY GoesOnWith
    <2> QED BY <2>1 DEF Followed
  <1>2. Tame(s) /\ Tame(t) => Tame(r)
    BY <1>1 DEF Tame
  <1>3. Welcomes(s) /\ t = <<>> => Welcomes(r)
    <2>1. t = <<>> => DOMAIN t = {}
      BY Empty
    <2> QED BY <1>1, <2>1 DEF Welcomes
  <1>4. ASSUME NEW f, WritesFile(s, f), ~(Head(s).do = "writeWelcome" /\ Head(s).file = f)
        PROVE  WritesFile(r, f)
    <2>1. PICK i \in DOMAIN s : s[i].do = "writeWelcome" /\ s[i].file = f
      BY <1>4 DEF WritesFile
    <2>2. i # 1
      BY <1>1, <1>4, <2>1
    <2>3. PICK j \in DOMAIN r : r[j] = s[i]
      BY <1>1, <2>2
    <2> QED BY <2>1, <2>3 DEF WritesFile
  <1> QED BY <1>2, <1>3, <1>4

\* A base file is still to be written, is the call's, or was written next to it.
Met(todo, f, c, file) == WritesFile(todo, f) \/ file.call = c \/ c \in file.with

LEMMA WelcomingOnward ==
    ASSUME ServedInv, NEW a \in Actors, Moves(a), a \in Busy, a \in Busy',
           NEW c, c = doing[a].call, NEW r, r = doing'[a].todo, Welcoming(a)'
    PROVE  Welcomes(r) /\ doing'[a].call = c /\ \A f \in Base : Met(r, f, c, welcome'[f])
  <1>1. ~Quit(a) /\ OnPlan(a)
    BY BusyIs DEF Quit, ServedInv
  <1>2. PICK rec, t : Went(a, rec, t) /\ Between(a, rec, t)
    BY <1>1, BusyIs, MovesGo DEF Begun
  <1>3. doing'[a].call = c
    BY <1>2, BusyIs DEF Went
  <1>4. PICK s : s = doing[a].todo
    OBVIOUS
  <1>5. Welcoming(a)
    <2>1. SUFFICES ASSUME ~Welcoming(a) PROVE FALSE
      OBVIOUS
    <2>2. Tame(s) /\ \A f \in Base : welcome[f].call # c
      BY <1>4, <2>1 DEF Welcoming, Base
    <2>3. UNCHANGED welcome
      BY <1>4, <2>2, WelcomeFrom, WroteWelcomeIs
    <2>4. Tame(r)
      BY <1>1, <1>2, <1>4, <2>2, BetweenTame, WelcomeLists
    <2> QED BY <1>3, <2>2, <2>3, <2>4 DEF Welcoming, Base
  <1>6. /\ Went(a, <<>>, <<>>) /\ Welcomes(s)
        /\ \/ Does(a, "writeWelcome") /\ WroteWelcome(a)
           \/ Does(a, "respond") /\ UNCHANGED welcome
    BY <1>1, <1>4, <1>5, WelcomingStep
  <1>7. /\ Welcomes(r)
        /\ \A f : WritesFile(s, f) /\ ~(Head(s).do = "writeWelcome" /\ Head(s).file = f)
                        => WritesFile(r, f)
    BY <1>1, <1>4, <1>6, WelcomeLists
  <1>8. \A f \in Base : Met(s, f, c, welcome[f])
    BY <1>4, <1>5 DEF ServedInv, WelcomeKept, Met, Base
  <1>9. ASSUME NEW f \in Base PROVE Met(r, f, c, welcome'[f])
    <2>1. f \in WelcomeFiles
      BY <1>9 DEF Base, WelcomeFiles
    <2>2. CASE WroteWelcome(a) /\ f = Head(s).file
      BY <1>4, <2>2, WroteWelcomeIs DEF Met
    <2>3. CASE WroteWelcome(a) /\ f # Head(s).file
      <3>1. welcome'[f] = welcome[f]
        BY <1>4, <2>1, <2>3, WroteWelcomeIs
      <3> QED BY <1>7, <1>8, <1>9, <2>3, <3>1 DEF Met
    <2>4. CASE Does(a, "respond") /\ UNCHANGED welcome
      <3>1. Head(s).do = "respond"
        BY <1>4, <2>4 DEF Does
      <3> QED BY <1>7, <1>8, <1>9, <2>4, <3>1 DEF Met
    <2> QED BY <1>6, <2>2, <2>3, <2>4
  <1> QED BY <1>3, <1>7, <1>9

-----------------------------------------------------------------------------
(* Welcome settings of calls that start, go on, leave, or are elsewhere. *)

\* A call that begins finds no welcome file of its own.
LEMMA WelcomingBegun ==
    ASSUME ServedInv, NEW a \in Actors, Moves(a), a \notin Busy, a \in Busy',
           NEW c, c = doing'[a].call, NEW r, r = doing'[a].todo, Welcoming(a)'
    PROVE  Welcomes(r) /\ \A f \in Base : Met(r, f, c, welcome'[f])
  <1>1. PICK todo : Begun(a, todo)
    BY MovesHow DEF Quit, Went
  <1>2. c = past.calls + 1 /\ Call(r)
    BY <1>1 DEF Begun
  <1>3. UNCHANGED welcome
    BY WelcomeFrom DEF WroteWelcome, Does
  <1>4. \A f \in Base : f \in WelcomeFiles /\ welcome[f].call \in 0 .. past.calls
    BY DEF ServedInv, WelcomeKept, Base, WelcomeFiles
  <1>5. past.calls \in Nat
    BY DEF ServedInv, Calls
  <1>6. \A f \in Base : welcome[f].call # c
    BY <1>2, <1>4, <1>5
  <1>7. ~Tame(r)
    BY <1>3, <1>6 DEF Welcoming, Base
  <1> QED BY <1>2, <1>7 DEF Call, Met, Base

\* A call that makes no step, while another may write a welcome file.
LEMMA WelcomingOthers ==
    ASSUME ServedInv, NEW a, Still \/ (a \in Actors /\ Moves(a)), NEW b \in Busy', Still \/ b # a,
           NEW c, c = doing'[b].call, NEW r, r = doing'[b].todo, Welcoming(b)'
    PROVE  Welcomes(r) /\ \A f \in Base : Met(r, f, c, welcome'[f])
  <1>1. b \in Busy /\ doing'[b] = doing[b]
    BY Bystander
  <1>2. Welcoming(b) => Welcomes(r) /\ \A f \in Base : Met(r, f, c, welcome[f])
    BY <1>1 DEF ServedInv, WelcomeKept, Met, Base
  <1>3. CASE UNCHANGED welcome
    <2>1. Welcoming(b)
      BY <1>1, <1>3 DEF Welcoming
    <2> QED BY <1>2, <1>3, <2>1
  <1>4. CASE WroteWelcome(a) /\ ~Still
    <2>1. a \in Busy /\ doing[a].call # c
      BY <1>1, <1>4 DEF WroteWelcome, Does, ServedInv, Calls
    <2>2. PICK h : h = Head(doing[a].todo).file
      OBVIOUS
    <2>3. /\ \A f \in WelcomeFiles : f # h => welcome'[f] = welcome[f]
          /\ welcome'[h].call = doing[a].call /\ welcome'[h].with = Open
      BY <1>4, <2>2, WroteWelcomeIs
    <2>4. \A f \in Base : f \in WelcomeFiles
      BY DEF Base, WelcomeFiles
    <2>5. Welcoming(b)
      BY <1>1, <2>1, <2>3, <2>4 DEF Welcoming, Base
    <2>6. c \in Open
      BY <1>1, BusyIs DEF Open
    <2>7. ASSUME NEW f \in Base PROVE Met(r, f, c, welcome'[f])
      <3>1. CASE f = h
        BY <2>3, <2>6, <3>1 DEF Met
      <3>2. CASE f # h
        BY <1>2, <2>3, <2>4, <2>5, <3>2
      <3> QED BY <3>1, <3>2
    <2> QED BY <1>2, <2>5, <2>7
  <1>5. CASE Still
    BY <1>3, <1>5 DEF Still, FilesKept
  <1> QED BY <1>3, <1>4, <1>5, WelcomeFrom

LEMMA WelcomingStays ==
    ASSUME ServedInv, NEW a, Still \/ (a \in Actors /\ Moves(a)), NEW b \in Busy',
           NEW c, c = doing'[b].call, NEW r, r = doing'[b].todo, Welcoming(b)'
    PROVE  Welcomes(r) /\ \A f \in Base : Met(r, f, c, welcome'[f])
  <1>1. CASE Still \/ b # a
    BY <1>1, WelcomingOthers
  <1>2. CASE ~Still /\ b = a /\ a \notin Busy
    <2>1. a \in Actors /\ Moves(a) /\ a \in Busy' /\ Welcoming(a)'
      BY <1>2
    <2> QED BY <1>2, <2>1, WelcomingBegun
  <1>3. CASE ~Still /\ b = a /\ a \in Busy
    <2>1. a \in Actors /\ Moves(a) /\ a \in Busy' /\ Welcoming(a)'
      BY <1>3
    <2>2. PICK d : d = doing[a].call
      OBVIOUS
    <2>3. Welcomes(r) /\ c = d /\ \A f \in Base : Met(r, f, d, welcome'[f])
      BY <1>3, <2>1, <2>2, WelcomingOnward
    <2> QED BY <2>3
  <1> QED BY <1>1, <1>2, <1>3

\* When a call that applies the settings is done, each base file is its, or was
\* written next to it.
LEMMA WelcomingLeft ==
    ASSUME ServedInv, NEW a \in Busy, Moves(a), Welcoming(a), a \notin Busy',
           NEW c, c = doing[a].call, c \notin past'.cut
    PROVE  \A f \in Base : welcome'[f].call = c \/ c \in welcome'[f].with
  <1>1. PICK s : s = doing[a].todo
    OBVIOUS
  <1>2. OnPlan(a) /\ Welcomes(s) /\ \A f \in Base : Met(s, f, c, welcome[f])
    BY <1>1 DEF ServedInv, WelcomeKept, Met, Base
  <1>3. ~Quit(a)
    <2>1. Head(s).do \in {"writeWelcome", "respond"}
      BY <1>1, <1>2, HeadIs DEF Welcomes
    <2> QED BY <1>1, <2>1 DEF Quit, Readers
  <1>4. /\ Went(a, <<>>, <<>>)
        /\ \/ Does(a, "writeWelcome") /\ WroteWelcome(a)
           \/ Does(a, "respond") /\ UNCHANGED welcome
    BY <1>3, WelcomingStep
  <1>5. DOMAIN s = {1} /\ Head(s) = s[1]
    BY <1>1, <1>2, <1>4, GoesOnWith
  <1>6. \A f : WritesFile(s, f) => Head(s).do = "writeWelcome" /\ Head(s).file = f
    BY <1>5 DEF WritesFile
  <1>7. ASSUME NEW f \in Base PROVE welcome'[f].call = c \/ c \in welcome'[f].with
    <2>1. f \in WelcomeFiles
      BY <1>7 DEF Base, WelcomeFiles
    <2>2. CASE WroteWelcome(a) /\ f = Head(s).file
      BY <1>1, <2>2, WroteWelcomeIs
    <2>3. CASE WroteWelcome(a) /\ f # Head(s).file
      <3>1. welcome'[f] = welcome[f]
        BY <1>1, <2>1, <2>3, WroteWelcomeIs
      <3> QED BY <1>2, <1>6, <1>7, <2>3, <3>1 DEF Met
    <2>4. CASE Does(a, "respond") /\ UNCHANGED welcome
      <3>1. Head(s).do = "respond"
        BY <1>1, <2>4 DEF Does
      <3> QED BY <1>2, <1>6, <1>7, <2>4, <3>1 DEF Met
    <2> QED BY <1>4, <2>2, <2>3, <2>4
  <1> QED BY <1>7

\* A call under way is under way still, was cut short, or is done.
LEMMA UnfinishedStays ==
    ASSUME ServedInv, NEW a, Still \/ (a \in Actors /\ Moves(a)), NEW c \in Unfinished
    PROVE  c \in Unfinished' \/
           (a \in Busy /\ a \notin Busy' /\ Moves(a) /\ c = doing[a].call /\ c \notin past'.cut)
  <1>1. CASE c \in past.cut
    <2>1. c \in past'.cut
      BY <1>1, PastGrows
    <2> QED BY <2>1 DEF Unfinished
  <1>2. CASE c \notin past.cut
    <2>1. PICK b \in Actors : doing[b] # Rest /\ doing[b].call = c
      BY <1>2 DEF Unfinished, Open
    <2>2. CASE doing'[b] # Rest /\ doing'[b].call = c
      BY <2>1, <2>2 DEF Unfinished, Open
    <2>3. CASE ~(doing'[b] # Rest /\ doing'[b].call = c)
      <3>1. ~Still
        BY <2>1, <2>3 DEF Still
      <3>2. Others(a) \/ b = a
        BY <3>1, MovesHow DEF Begun, Quit, Went
      <3>3. b = a
        BY <2>1, <2>3, <3>2 DEF Others
      <3>4. a \in Busy
        BY <2>1, <3>3, BusyIs
      <3>5. doing'[a] = Rest
        <4>1. CASE Quit(a)
          BY <4>1 DEF Quit
        <4>2. CASE \E rec, t : Went(a, rec, t)
          BY <2>1, <2>3, <3>3, <4>2 DEF Went
        <4> QED BY <2>1, <3>1, <3>3, <4>1, <4>2, MovesHow DEF Begun
      <3>6. a \notin Busy'
        BY <3>5, BusyIs
      <3> QED BY <2>1, <3>1, <3>3, <3>4, <3>6 DEF Unfinished
    <2> QED BY <2>2, <2>3
  <1> QED BY <1>1, <1>2

-----------------------------------------------------------------------------
(* The base files fit each other. *)

\* Two base files that are of one application, or of two that have an excuse.
Fit(one, other, open) ==
    \/ one.call = other.call
    \/ {one.call, other.call} \cap open # {}
    \/ one.call \in other.with \/ other.call \in one.with

LEMMA WholeIs ==
    /\ WelcomeWhole <=>
          /\ \A f, g \in Base : Fit(welcome[f], welcome[g], Unfinished)
          /\ \A f \in {"memory", "heartbeat"} : welcome[f].call # 0 => welcome[f].approved[f]
    /\ WelcomeWhole' <=>
          /\ \A f, g \in Base : Fit(welcome'[f], welcome'[g], Unfinished')
          /\ \A f \in {"memory", "heartbeat"} : welcome'[f].call # 0 => welcome'[f].approved[f]
  BY DEF WelcomeWhole, Fit, Base

LEMMA FitStays ==
    ASSUME ServedInv, NEW a, Still \/ (a \in Actors /\ Moves(a)), NEW f \in Base, NEW g \in Base
    PROVE  Fit(welcome'[f], welcome'[g], Unfinished')
  <1>1. f \in WelcomeFiles /\ g \in WelcomeFiles
    BY DEF Base, WelcomeFiles
  <1>2. Fit(welcome[f], welcome[g], Unfinished)
    BY WholeIs DEF ServedInv, WelcomeKept
  <1>3. PICK c : c = doing[a].call
    OBVIOUS
  <1>4. ASSUME a \in Busy, a \notin Busy', Moves(a), Welcoming(a), c \notin past'.cut,
               welcome'[f].call = c \/ welcome'[g].call = c
        PROVE  Fit(welcome'[f], welcome'[g], Unfinished')
    <2>1. \A k \in Base : welcome'[k].call = c \/ c \in welcome'[k].with
      BY <1>3, <1>4, WelcomingLeft
    <2> QED BY <1>4, <2>1 DEF Fit
  <1>5. CASE welcome'[f] = welcome[f] /\ welcome'[g] = welcome[g]
    <2>1. CASE {welcome[f].call, welcome[g].call} \cap Unfinished = {}
      BY <1>2, <1>5, <2>1 DEF Fit
    <2>2. CASE {welcome[f].call, welcome[g].call} \cap Unfinished # {}
      <3>1. PICK e \in Unfinished : e = welcome[f].call \/ e = welcome[g].call
        BY <2>2
      <3>2. CASE e \in Unfinished'
        BY <1>5, <3>1, <3>2 DEF Fit
      <3>3. CASE e \notin Unfinished'
        <4>1. a \in Busy /\ a \notin Busy' /\ Moves(a) /\ e = c /\ c \notin past'.cut
          BY <1>3, <3>3, UnfinishedStays
        <4>2. Welcoming(a)
          BY <1>3, <3>1, <4>1 DEF Welcoming, Base
        <4> QED BY <1>4, <1>5, <3>1, <4>1, <4>2
      <3> QED BY <3>2, <3>3
    <2> QED BY <2>1, <2>2
  <1>6. CASE ~(welcome'[f] = welcome[f] /\ welcome'[g] = welcome[g])
    <2>1. WroteWelcome(a)
      BY <1>6, WelcomeFrom
    <2>2. PICK h : h = Head(doing[a].todo).file
      OBVIOUS
    <2>3. /\ \A k \in WelcomeFiles : k # h => welcome'[k] = welcome[k]
          /\ welcome'[h].call = c /\ a \in Busy /\ ~Tame(doing[a].todo)
      BY <1>3, <2>1, <2>2, WroteWelcomeIs
    <2>4. welcome'[f].call = c \/ welcome'[g].call = c
      BY <1>1, <1>6, <2>3
    <2>5. Welcoming(a)
      BY <2>3 DEF Welcoming
    <2>6. Moves(a)
      BY <1>6 DEF Still, FilesKept
    <2>7. c \in Unfinished
      BY <1>3, <2>3, BusyIs DEF Unfinished, Open
    <2>8. CASE c \in Unfinished'
      BY <2>4, <2>8 DEF Fit
    <2>9. CASE c \notin Unfinished'
      <3>1. a \notin Busy' /\ c \notin past'.cut
        BY <2>7, <2>9, UnfinishedStays
      <3> QED BY <1>4, <2>3, <2>4, <2>5, <2>6, <3>1
    <2> QED BY <2>8, <2>9
  <1> QED BY <1>5, <1>6

\* The base files fit, and those still being written will.
LEMMA WelcomeStays ==
    ASSUME ServedInv, NEW a, Still \/ (a \in Actors /\ Moves(a))
    PROVE  WelcomeKept'
  <1>1. ASSUME NEW f \in {"memory", "heartbeat"}, welcome'[f].call # 0
        PROVE  welcome'[f].approved[f]
    <2>1. f \in WelcomeFiles
      BY <1>1 DEF WelcomeFiles
    <2>2. welcome[f].call # 0 => welcome[f].approved[f]
      BY <1>1, WholeIs DEF ServedInv, WelcomeKept
    <2>3. CASE welcome'[f] = welcome[f]
      BY <1>1, <2>2, <2>3, Zenon
    <2>4. CASE welcome'[f] # welcome[f]
      <3>1. WroteWelcome(a)
        BY <2>4, WelcomeFrom
      <3>2. PICK x : x = Head(doing[a].todo)
        OBVIOUS
      <3>3. x.file = f /\ welcome'[f].approved = x.answers /\ a \in Busy /\ x.do = "writeWelcome"
        BY <2>1, <2>4, <3>1, <3>2, WroteWelcomeIs
      <3>4. WellFormed(x)
        BY <3>2, <3>3, HeadIs DEF ServedInv
      <3>5. x.answers[f]
        BY <1>1, <3>3, <3>4, Zenon DEF WellFormed
      <3> QED BY <3>3, <3>5, Zenon
    <2> QED BY <2>3, <2>4
  <1>2. WelcomeWhole'
    BY <1>1, FitStays, WholeIs
  <1>3. DOMAIN welcome' = WelcomeFiles
    BY WelcomeFrom, WroteWelcomeIs DEF ServedInv, WelcomeKept
  <1>4. ASSUME NEW f \in WelcomeFiles PROVE welcome'[f].call \in 0 .. past'.calls
    <2>1. past.calls \in Nat /\ past'.calls \in Nat /\ past.calls <= past'.calls
      BY PastGrows
    <2>2. welcome[f].call \in 0 .. past.calls
      BY <1>4 DEF ServedInv, WelcomeKept
    <2>3. CASE welcome'[f] = welcome[f]
      BY <2>1, <2>2, <2>3
    <2>4. CASE welcome'[f] # welcome[f]
      <3>1. WroteWelcome(a)
        BY <2>4, WelcomeFrom
      <3>2. a \in Busy /\ welcome'[f].call = doing[a].call
        BY <1>4, <2>4, <3>1, WroteWelcomeIs
      <3>3. doing[a].call \in 1 .. past.calls
        BY <3>2 DEF ServedInv, Calls
      <3> QED BY <2>1, <3>2, <3>3
    <2> QED BY <2>3, <2>4
  <1>5. ASSUME NEW b \in Busy', Welcoming(b)'
        PROVE  (/\ Welcomes(doing[b].todo)
                /\ \A f \in ToSet(BaseFiles) :
                      \/ WritesFile(doing[b].todo, f)
                      \/ welcome[f].call = doing[b].call
                      \/ doing[b].call \in welcome[f].with)'
    <2>1. PICK c, r : c = doing'[b].call /\ r = doing'[b].todo
      OBVIOUS
    <2>2. Welcomes(r) /\ \A f \in Base : Met(r, f, c, welcome'[f])
      BY <1>5, <2>1, WelcomingStays
    <2> QED BY <2>1, <2>2 DEF Met, Base
  <1> QED BY <1>2, <1>3, <1>4, <1>5 DEF WelcomeKept

-----------------------------------------------------------------------------
(* The candidates of the self-checks. *)

\* A call that is to roll back a check later in its list still is after its step.
LEMMA UndoesLater ==
    ASSUME ServedInv, NEW a \in Busy, NEW rec, NEW t, Went(a, rec, t),
           NEW s, s = doing[a].todo, NEW i \in DOMAIN s, i # 1, TakesBack(s[i])
    PROVE  a \in Busy' /\ doing'[a].call = doing[a].call /\ Undoes(a)'
  <1>1. PICK r : r = doing'[a].todo
    OBVIOUS
  <1>2. OnPlan(a) /\ DOMAIN s # {1}
    BY DEF ServedInv
  <1>3. a \in Busy'
    BY <1>2, GoesOnWith
  <1>4. Followed(s, t, r) /\ doing'[a].call = doing[a].call
    BY <1>1, <1>2, <1>3, GoesOnWith
  <1>5. PICK j \in DOMAIN r : r[j] = s[i]
    BY <1>4 DEF Followed
  <1>6. PICK x : x = s[i]
    OBVIOUS
  <1>7. TakesBack(x) /\ r[j] = x
    BY <1>5, <1>6
  <1>8. j \in DOMAIN doing'[a].todo /\ TakesBack(doing'[a].todo[j])
    BY <1>1, <1>5, <1>7
  <1> QED BY <1>3, <1>4, <1>8 DEF Undoes

\* A rollback of a check that finds its candidate goes on to write the rest.
LEMMA UndoesNext ==
    ASSUME ServedInv, NEW a \in Actors, Moves(a), a \in Busy, ~Quit(a),
           Does(a, "readApplied"), TakesBack(Head(doing[a].todo)),
           CheckCell \in candidates.cells
    PROVE  a \in Busy' /\ doing'[a].call = doing[a].call /\ Undoes(a)'
  <1>1. LookedApplied(a) /\ OnPlan(a)
    BY StepOf DEF ServedInv
  <1>2. PICK s, r, x : s = doing[a].todo /\ r = doing'[a].todo /\ x = Head(doing[a].todo)
    OBVIOUS
  <1>3. x.cell = CheckCell /\ x.drops
    BY <1>2 DEF TakesBack
  <1>4. PICK rec, t : Went(a, rec, t) /\ Rewriting(t)
    BY <1>1, <1>2, <1>3 DEF LookedApplied, Looked
  <1>5. IsList(t) /\ 1 \in DOMAIN t /\ t[1] = Step("writeKept")
    BY <1>4, RewritingIs
  <1>6. a \in Busy'
    BY <1>1, <1>2, <1>4, <1>5, Empty, GoesOnWith
  <1>7. Followed(s, t, r) /\ doing'[a].call = doing[a].call
    BY <1>1, <1>2, <1>4, <1>6, GoesOnWith
  <1>8. 1 \in DOMAIN r /\ r[1] = Step("writeKept")
    BY <1>5, <1>7 DEF Followed
  <1>9. Head(r) = Step("writeKept")
    <2>1. OnPlan(a)'
      BY <1>6, PlanKept
    <2>2. IsList(r)
      BY <1>2, <2>1 DEF OnPlan, Planned
    <2>3. r # <<>>
      BY <1>8, Empty
    <2> QED BY <1>8, <2>2, <2>3, Shortened
  <1>10. Head(doing'[a].todo).do = "writeKept"
    BY <1>2, <1>9, WriteKeptIs
  <1>11. doing'[a].kept = candidates.cells \ {CheckCell}
    BY <1>1, <1>2, <1>3, <1>6, CellsSeen
  <1> QED BY <1>6, <1>7, <1>10, <1>11 DEF Undoes

LEMMA UndoesStays ==
    ASSUME ServedInv, NEW a \in Actors, Moves(a), a \in Busy, Undoes(a),
           CheckCell \in candidates.cells, CheckCell \in candidates'.cells, ~Quit(a)
    PROVE  a \in Busy' /\ doing'[a].call = doing[a].call /\ Undoes(a)'
  <1>1. PICK s : s = doing[a].todo
    OBVIOUS
  <1>2. OnPlan(a) /\ Head(s) = s[1]
    BY <1>1, HeadIs DEF ServedInv
  <1>3. ASSUME NEW i \in DOMAIN s, TakesBack(s[i])
        PROVE  a \in Busy' /\ doing'[a].call = doing[a].call /\ Undoes(a)'
    <2>1. CASE i # 1
      <3>1. PICK rec, t : Went(a, rec, t)
        BY MovesHow DEF Begun, Busy
      <3> QED BY <1>1, <1>3, <2>1, <3>1, UndoesLater
    <2>2. CASE i = 1
      <3>1. PICK x : x = s[1]
        OBVIOUS
      <3>2. TakesBack(x) /\ x = Head(doing[a].todo)
        BY <1>1, <1>2, <1>3, <2>2, <3>1
      <3>3. x.do = "readApplied"
        BY <3>2 DEF TakesBack
      <3> QED BY <3>2, <3>3, UndoesNext DEF Does
    <2> QED BY <2>1, <2>2
  <1>4. CASE Head(doing[a].todo).do = "writeKept" /\ CheckCell \notin doing[a].kept
    <2>1. WroteKept(a)
      BY <1>4, StepOf DEF Does
    <2>2. candidates'.cells = doing[a].kept
      BY <2>1 DEF WroteKept
    <2> QED BY <1>4, <2>2
  <1> QED BY <1>1, <1>3, <1>4 DEF Undoes

\* Rewrites of the candidates stay on record, and so do those written over.
LEMMA RewrotesStay ==
    ASSUME Grown
    PROVE  /\ \A n : RewroteAfter(n) => RewroteAfter(n)'
           /\ Overwrote => Overwrote'
  <1>1. PICK W, V : W = writes["candidates"] /\ V = writes'["candidates"]
    OBVIOUS
  <1>2. \A i \in DOMAIN W : i \in DOMAIN V /\ V[i] = W[i]
    BY <1>1 DEF Grown, Longer, Rewritten
  <1>3. ASSUME NEW i \in DOMAIN W, Rewrote(i) PROVE i \in DOMAIN V /\ Rewrote(i)'
    BY <1>1, <1>2, <1>3 DEF Rewrote
  <1>4. ASSUME NEW i \in DOMAIN W, MadeOver("candidates", i) PROVE MadeOver("candidates", i)'
    BY <1>1, <1>2, <1>4 DEF MadeOver
  <1>5. ASSUME NEW n, RewroteAfter(n) PROVE RewroteAfter(n)'
    BY <1>1, <1>3, <1>5 DEF RewroteAfter
  <1>6. ASSUME Overwrote PROVE Overwrote'
    BY <1>1, <1>3, <1>4, <1>6 DEF Overwrote
  <1> QED BY <1>5, <1>6

\* A rewrite comes after all writes a call has seen, and over the rewrites it had not.
LEMMA RewriteIs ==
    ASSUME ServedInv, NEW a, NEW seen, NEW kind, Wrote("candidates", a, seen, kind),
           kind \in {"empty", "kept", "cut"}, seen \in 0 .. Len(writes["candidates"])
    PROVE  /\ \A n \in 0 .. Len(writes["candidates"]) : RewroteAfter(n)'
           /\ RewroteAfter(seen) => Overwrote'
  <1>1. PICK W, V : W = writes["candidates"] /\ V = writes'["candidates"]
    OBVIOUS
  <1>2. PICK w : w.seen = seen /\ w.kind = kind /\ More(W, V, w)
    BY <1>1, WroteMore DEF ServedInv, Rewritten
  <1>3. PICK N : N = Len(W)
    OBVIOUS
  <1>4. /\ N \in Nat /\ DOMAIN W = 1 .. N /\ DOMAIN V = 1 .. N + 1 /\ V[N + 1] = w
        /\ \A i \in DOMAIN W : i \in DOMAIN V /\ V[i] = W[i]
    BY <1>2, <1>3 DEF More
  <1>5. Rewrote(N + 1)'
    BY <1>1, <1>2, <1>4 DEF Rewrote
  <1>6. ASSUME NEW n \in 0 .. N PROVE RewroteAfter(n)'
    <2>1. N + 1 \in DOMAIN V /\ N + 1 > n
      BY <1>4
    <2> QED BY <1>1, <1>5, <2>1 DEF RewroteAfter
  <1>7. ASSUME RewroteAfter(seen) PROVE Overwrote'
    <2>1. PICK i \in DOMAIN W : i > seen /\ Rewrote(i)
      BY <1>1, <1>7 DEF RewroteAfter
    <2>2. i \in DOMAIN V /\ Rewrote(i)'
      BY <1>1, <1>4, <2>1 DEF Rewrote
    <2>3. N + 1 \in DOMAIN V /\ N + 1 > i /\ V[N + 1].seen < i
      BY <1>2, <1>4, <2>1
    <2>4. MadeOver("candidates", i)'
      BY <1>1, <2>3 DEF MadeOver
    <2> QED BY <1>1, <2>2, <2>4 DEF Overwrote
  <1> QED BY <1>1, <1>3, <1>6, <1>7

\* The rewrites of a step, with what their call had seen.
LEMMA RewritesSeen ==
    ASSUME ServedInv, NEW a, (Writing(a) /\ WroteKept(a)) \/ CutsKept(a)
    PROVE  /\ a \in Busy /\ Holds(a, "readApplied")
           /\ candidates'.cells \subseteq doing[a].kept
           /\ \E seen, kind : /\ Wrote("candidates", a, seen, kind)
                              /\ kind \in {"empty", "kept", "cut"}
                              /\ seen \in 0 .. Len(writes["candidates"])
                              /\ RewroteAfter(doing[a].keptSeen) => RewroteAfter(seen)
  <1>1. a \in Busy /\ Head(doing[a].todo).do = "writeKept"
        /\ candidates'.cells \subseteq doing[a].kept
    BY DEF WroteKept, CutsKept, Does
  <1>2. Holds(a, "readApplied")
    BY <1>1, SeenIs
  <1>3. PICK N, m : N = Len(writes["candidates"]) /\ m = doing[a].keptSeen
    OBVIOUS
  <1>4. m \in 0 .. N
    BY <1>1, <1>2, <1>3 DEF ServedInv, CellsKept
  <1>5. N \in Nat /\ DOMAIN writes["candidates"] = 1 .. N
    BY <1>3, ListIs DEF ServedInv, Files, Rewritten
  <1>6. CASE WroteKept(a)
    <2>1. Wrote("candidates", a, m, "kept")
      BY <1>3, <1>6 DEF WroteKept
    <2> QED BY <1>1, <1>2, <1>3, <1>4, <2>1
  <1>7. CASE CutsKept(a)
    <2>1. Wrote("candidates", a, 0, "cut") /\ 0 \in 0 .. N
      BY <1>5, <1>7 DEF CutsKept
    <2>2. RewroteAfter(m) => RewroteAfter(0)
      BY <1>4, <1>5 DEF RewroteAfter
    <2> QED BY <1>1, <1>2, <1>3, <2>1, <2>2
  <1> QED BY <1>6, <1>7

\* What a call keeps with a candidate of a self-check in it has seen it, or a rewrite
\* came after its look.
LEMMA KeptStill ==
    ASSUME ServedInv, NEW a, Still \/ (a \in Actors /\ Moves(a)), NEW b \in Busy',
           Holds(b, "readApplied")', CheckCell \in doing'[b].kept,
           NEW n, n = doing'[b].keptSeen
    PROVE  CheckCell \in candidates'.cells \/ RewroteAfter(n)'
  <1>1. /\ {"kept", "keptSeen"} \subseteq DOMAIN doing'[b]
        /\ HeldFields("readApplied") = {"kept", "keptSeen"}
    BY DEF Holds, HeldFields
  <1>2. CASE SameFor(b, "readApplied")
    <2>2. /\ b \in Busy /\ Holds(b, "readApplied")
          /\ doing[b].kept = doing'[b].kept /\ doing[b].keptSeen = n
      BY <1>1, <1>2 DEF SameFor
    <2>3. CheckCell \in candidates.cells \/ RewroteAfter(n)
      BY <2>2 DEF ServedInv, ChecksPend
    <2>4. n \in 0 .. Len(writes["candidates"])
      BY <2>2 DEF ServedInv, CellsKept
    <2>5. CASE RewroteAfter(n)
      <3>1. RewroteAfter(n)'
        BY <2>5, StepGrows, RewrotesStay
      <3> QED BY <3>1
    <2>6. CASE CheckCell \in candidates.cells
      <3>1. CASE (Writing(a) /\ WroteKept(a)) \/ CutsKept(a)
        <4>1. PICK seen, kind : /\ Wrote("candidates", a, seen, kind)
                                /\ kind \in {"empty", "kept", "cut"}
                                /\ seen \in 0 .. Len(writes["candidates"])
          BY <3>1, RewritesSeen
        <4>2. RewroteAfter(n)'
          BY <2>4, <4>1, RewriteIs
        <4> QED BY <4>2
      <3>2. CASE Writing(a) /\ WroteEmptyCandidates(a)
        <4>1. Wrote("candidates", a, 0, "empty") /\ 0 \in 0 .. Len(writes["candidates"])
          BY <2>4, <3>2 DEF WroteEmptyCandidates
        <4>2. RewroteAfter(n)'
          BY <2>4, <4>1, RewriteIs
        <4> QED BY <4>2
      <3>3. CASE Writing(a) /\ WroteCell(a)
        BY <2>6, <3>3 DEF WroteCell
      <3>4. CASE Writing(a) /\ WroteCheckCell(a)
        BY <2>6, <3>4 DEF WroteCheckCell
      <3>5. CASE UNCHANGED candidates
        BY <2>6, <3>5
      <3> QED BY <3>1, <3>2, <3>3, <3>4, <3>5, CellsFrom
    <2> QED BY <2>3, <2>5, <2>6
  <1>3. CASE b = a /\ FilesKept /\ LookedApplied(a)
    <2>1. a \in Busy /\ a \in Busy' /\ UNCHANGED candidates
      BY <1>3 DEF LookedApplied, Looked, Does, FilesKept
    <2>2. doing'[a].kept \subseteq candidates.cells
      BY <1>3, <2>1, CellsSeen, KeptCalls
    <2> QED BY <1>3, <2>1, <2>2
  <1> QED BY <1>2, <1>3, HeldFrom

\* A candidate of a self-check is there only while one may take it back, or because a
\* rewrite was written over.
LEMMA ChecksStay ==
    ASSUME ServedInv, NEW a, Still \/ (a \in Actors /\ Moves(a))
    PROVE  ChecksPend'
  <1>0. SUFFICES ASSUME CheckCell \in candidates'.cells
                 PROVE  \/ Overwrote'
                        \/ \E c \in CallsThat("candidates", "check")' :
                            \/ c \in past'.cut \cup past'.threw
                            \/ \E b \in Busy' : doing'[b].call = c /\ Undoes(b)'
    <2>1. ASSUME NEW b \in Busy', Holds(b, "readApplied")', CheckCell \in doing'[b].kept
          PROVE  CheckCell \in candidates'.cells \/ RewroteAfter(doing[b].keptSeen)'
      <3>1. PICK n : n = doing'[b].keptSeen
        OBVIOUS
      <3>2. CheckCell \in candidates'.cells \/ RewroteAfter(n)'
        BY <2>1, <3>1, KeptStill
      <3> QED BY <3>1, <3>2 DEF RewroteAfter
    <2> QED BY <2>1 DEF ChecksPend, CheckCell, CheckId
  <1>1. CASE Writing(a) /\ WroteCheckCell(a)
    <2>1. PICK c, s : c = doing[a].call /\ s = doing[a].todo
      OBVIOUS
    <2>2. a \in Busy /\ Head(s).do = "appendCheckCell" /\ Went(a, <<>>, <<>>) /\ OnPlan(a)
      BY <1>1, <2>1 DEF WroteCheckCell, Does, Writing, ServedInv
    <2>3. PICK seen : Wrote("candidates", a, seen, "check")
      BY <1>1 DEF WroteCheckCell
    <2>4. c \in CallsThat("candidates", "check")'
      BY <2>1, <2>3, WroteHas DEF ServedInv, Rewritten
    <2>5. RollsBack(s) /\ Head(s) = s[1] /\ 1 \in DOMAIN s
      BY <2>1, <2>2, HeadIs DEF OnPlan, Planned
    <2>6. PICK j \in DOMAIN s : j > 1 /\ TakesBack(s[j])
      BY <2>2, <2>5 DEF RollsBack
    <2>7. a \in Busy' /\ doing'[a].call = c /\ Undoes(a)'
      BY <2>1, <2>2, <2>6, UndoesLater
    <2> QED BY <2>4, <2>7
  <1>2. CASE CheckCell \notin candidates.cells /\ ~(Writing(a) /\ WroteCheckCell(a))
    <2>1. CASE Writing(a) /\ WroteCell(a)
      <3>1. PICK new : new = [call |-> doing[a].call, applied |-> Head(doing[a].todo).applied]
        OBVIOUS
      <3>2. candidates'.cells = candidates.cells \cup {new} /\ a \in Busy
        BY <2>1, <3>1 DEF WroteCell, Does
      <3>3. doing[a].call \in 1 .. past.calls
        BY <3>2 DEF ServedInv, Calls
      <3>4. new.call # CheckId
        BY <3>1, <3>3 DEF CheckId
      <3>5. CheckCell # new
        BY <3>4 DEF CheckCell
      <3> QED BY <1>0, <1>2, <3>2, <3>5
    <2>2. CASE Writing(a) /\ WroteEmptyCandidates(a)
      <3>1. PICK none : none = {}
        OBVIOUS
      <3>2. candidates'.cells = none
        BY <2>2, <3>1 DEF WroteEmptyCandidates
      <3> QED BY <1>0, <3>1, <3>2
    <2>3. CASE (Writing(a) /\ WroteKept(a)) \/ CutsKept(a)
      <3>1. a \in Busy /\ Holds(a, "readApplied") /\ candidates'.cells \subseteq doing[a].kept
        BY <2>3, RewritesSeen
      <3>2. CheckCell \in doing[a].kept
        BY <1>0, <3>1
      <3>3. RewroteAfter(doing[a].keptSeen)
        BY <1>2, <3>1, <3>2 DEF ServedInv, ChecksPend
      <3>4. PICK seen, kind : /\ Wrote("candidates", a, seen, kind)
                              /\ kind \in {"empty", "kept", "cut"}
                              /\ seen \in 0 .. Len(writes["candidates"])
                              /\ RewroteAfter(doing[a].keptSeen) => RewroteAfter(seen)
        BY <2>3, RewritesSeen
      <3> QED BY <3>3, <3>4, RewriteIs
    <2>4. CASE UNCHANGED candidates
      BY <1>0, <1>2, <2>4
    <2> QED BY <1>2, <2>1, <2>2, <2>3, <2>4, CellsFrom
  <1>3. CASE CheckCell \in candidates.cells
    <2>1. CASE Overwrote
      BY <2>1, StepGrows, RewrotesStay
    <2>2. ASSUME NEW c \in CallsThat("candidates", "check"),
                 \/ c \in past.cut \cup past.threw
                 \/ \E b \in Busy : doing[b].call = c /\ Undoes(b)
          PROVE  /\ c \in CallsThat("candidates", "check")'
                 /\ \/ c \in past'.cut \cup past'.threw
                    \/ \E b \in Busy' : doing'[b].call = c /\ Undoes(b)'
      <3>1. c \in CallsThat("candidates", "check")'
        BY <2>2, StepGrows, CallsGrow DEF Rewritten
      <3>2. CASE c \in past.cut \cup past.threw
        <4>1. c \in past'.cut \cup past'.threw
          BY <3>2, PastGrows
        <4> QED BY <3>1, <4>1
      <3>3. CASE \E b \in Busy : doing[b].call = c /\ Undoes(b)
        <4>1. PICK b \in Busy : doing[b].call = c /\ Undoes(b)
          BY <3>3
        <4>2. CASE doing'[b] = doing[b]
          <5>1. b \in Busy'
            BY <4>1, <4>2, BusyIs
          <5>2. Undoes(b)'
            BY <4>1, <4>2 DEF Undoes
          <5> QED BY <3>1, <4>1, <4>2, <5>1, <5>2
        <4>3. CASE doing'[b] # doing[b]
          <5>1. ~Still
            BY <4>3 DEF Still
          <5>2. b = a
            BY <4>1, <4>3, <5>1, MovesHow, BusyIs DEF Begun, Quit, Went, Others
          <5>3. a \in Actors /\ Moves(a) /\ a \in Busy /\ Undoes(a) /\ doing[a].call = c
            BY <4>1, <5>1, <5>2
          <5>4. CASE Quit(a)
            <6>1. c \in past'.cut \cup past'.threw
              BY <5>3, <5>4 DEF Quit
            <6> QED BY <3>1, <6>1
          <5>5. CASE ~Quit(a)
            <6>1. a \in Busy' /\ doing'[a].call = doing[a].call /\ Undoes(a)'
              BY <1>0, <1>3, <5>3, <5>5, UndoesStays
            <6> QED BY <3>1, <5>3, <6>1
          <5> QED BY <5>4, <5>5
        <4> QED BY <4>2, <4>3
      <3> QED BY <2>2, <3>2, <3>3
    <2>3. \/ Overwrote
          \/ \E c \in CallsThat("candidates", "check") :
                \/ c \in past.cut \cup past.threw
                \/ \E b \in Busy : doing[b].call = c /\ Undoes(b)
      BY <1>3 DEF ServedInv, ChecksPend
    <2> QED BY <2>1, <2>2, <2>3
  <1> QED BY <1>1, <1>2, <1>3

-----------------------------------------------------------------------------
(* The invariant holds. *)

\* The invariant holds at the start.
LEMMA StartServed ==
    ASSUME NEW root, NEW calls, ServedInit(root, calls)
    PROVE  ServedInv
  <1>1. /\ lines = [file \in LineFiles |-> <<>>] /\ writes = [file \in Rewritten |-> <<>>]
        /\ doing = [a \in Actors |-> Rest] /\ past = [calls |-> 0, cut |-> {}, threw |-> {}]
        /\ "turns" \in DOMAIN runtime /\ runtime.turns = 0
        /\ "entries" \in DOMAIN wiki /\ wiki.entries = {} /\ candidates.cells = {}
        /\ search = [status |-> "missing", entries |-> {}, cells |-> {}, open |-> {}]
        /\ "open" \in DOMAIN sessions
        /\ welcome = [file \in WelcomeFiles |-> NoFile]
    BY DEF ServedInit, WorkInit, TurnsInit, NoState
  <1>2. Busy = {}
    BY <1>1 DEF Busy
  <1>3. past.calls = 0 /\ past.cut = {}
    BY <1>1
  <1>4. PICK none : none = <<>>
    OBVIOUS
  <1>5. IsList(none) /\ DOMAIN none = {} /\ Len(none) = 0
    BY <1>4, Empty
  <1>6. /\ DOMAIN lines = LineFiles /\ DOMAIN writes = Rewritten
        /\ \A f \in LineFiles : lines[f] = none
        /\ \A f \in Rewritten : writes[f] = none
    BY <1>1, <1>4
  <1>7. writes["state"] = none /\ writes["wiki"] = none /\ writes["candidates"] = none
        /\ writes["sessions"] = none
    BY <1>6 DEF Rewritten
  <1>8. /\ \A k : CallsThat("state", k) = {} /\ CallsThat("wiki", k) = {}
        /\ \A k : CallsThat("candidates", k) = {} /\ CallsThat("sessions", k) = {}
    BY <1>5, <1>7, CallsIs
  <1>9. Shapes
    BY <1>1 DEF Shapes
  <1>10. Calls
    BY <1>1, <1>2, <1>3 DEF Calls
  <1>11. Files
    BY <1>5, <1>6 DEF Files
  <1>12. Backed
    BY <1>1, <1>5, <1>6, <1>8 DEF Backed
  <1>13. Prompted
    BY <1>8 DEF Prompted
  <1>14. Counted
    <2>1. TurnSet(none, 0) = {}
      BY <1>5 DEF TurnSet
    <2>2. TurnsOf(0) = 0
      BY <1>7, <2>1, TurnsIs, FS_EmptySet
    <2>3. Len(writes["state"]) = 0 /\ runtime.turns = 0
      BY <1>1, <1>5, <1>7
    <2> QED BY <1>2, <2>2, <2>3 DEF Counted
  <1>15. WikiKept /\ SessionsKept /\ CellsKept
    <2>1. \A f \in Rewritten : \A kinds, n, kept : KeptOf(f, kinds, n, kept)
      BY <1>5, <1>6 DEF KeptOf
    <2>2. WikiKept
      BY <1>1, <1>2, <2>1 DEF WikiKept, Rewritten
    <2>3. SessionsKept
      BY <1>2, <1>5, <1>7, <2>1 DEF SessionsKept, Rewritten
    <2>4. CellsKept
      BY <1>2, <2>1 DEF CellsKept, Rewritten
    <2> QED BY <2>2, <2>3, <2>4
  <1>16. Indexed
    BY <1>1, <1>2 DEF Indexed, Paired
  <1>17. ToolsEnd
    BY <1>3 DEF ToolsEnd
  <1>18. WelcomeKept
    <2>1. \A f \in WelcomeFiles : welcome[f] = NoFile
      BY <1>1
    <2>2. NoFile.call = 0
      BY DEF NoFile
    <2>3. \A f \in Base : f \in WelcomeFiles
      BY DEF Base, WelcomeFiles
    <2>4. "memory" \in WelcomeFiles /\ "heartbeat" \in WelcomeFiles
      BY DEF WelcomeFiles
    <2>5. WelcomeWhole
      BY <2>1, <2>2, <2>3, <2>4, WholeIs DEF Fit
    <2> QED BY <1>1, <1>2, <1>3, <2>1, <2>2, <2>5 DEF WelcomeKept
  <1>19. ChecksPend
    BY <1>1, <1>2 DEF ChecksPend
  <1> QED BY <1>2, <1>9, <1>10, <1>11, <1>12, <1>13, <1>14, <1>15, <1>16, <1>17, <1>18, <1>19
          DEF ServedInv

\* Every step keeps the invariant.
LEMMA ServedStays ==
    ASSUME ServedInv, [ServedNext]_allVars
    PROVE  ServedInv'
  <1>1. PICK a : Still \/ (a \in Actors /\ Moves(a))
    BY StepMoves
  <1>2. /\ Shapes' /\ Calls' /\ Files' /\ Backed' /\ Prompted' /\ Counted'
        /\ WikiKept' /\ SessionsKept' /\ CellsKept' /\ Indexed' /\ ToolsEnd'
        /\ WelcomeKept' /\ ChecksPend'
    BY <1>1, ShapesKept, CallsKept, FilesSound, BackedKept, PromptedKept, CountedKept,
       WikiStays, SessionsStay, CellsStay, IndexedStays, ToolsStay, WelcomeStays, ChecksStay
  <1>3. ASSUME NEW b \in Busy' PROVE OnPlan(b)'
    BY <1>1, PlanKept
  <1> QED BY <1>2, <1>3 DEF ServedInv

\* Whatever the server, the gateway and the commands do on a root, in whatever order their
\* steps come, and wherever a process stops or throws: each call under way is on its plan,
\* and the files agree with what the calls have written.
THEOREM ServedInvHolds ==
    ASSUME NEW CONSTANT root, NEW CONSTANT calls
    PROVE  ServedSpec(root, calls) => []ServedInv
  <1>1. ServedInit(root, calls) => ServedInv
    BY StartServed
  <1>2. ServedInv /\ [ServedNext]_allVars => ServedInv'
    BY ServedStays
  <1> QED BY <1>1, <1>2, PTL DEF ServedSpec

-----------------------------------------------------------------------------
(* What it says. *)

\* A line that names others has them on file.
LEMMA LineBacked ==
    ASSUME ServedInv, NEW f \in LineFiles \ {"history", "proposals", "gates"}, NEW k,
           NEW c \in LinesOf(f, k), NEW tag \in LineNeeds(f, k)
    PROVE  HasCall(c, tag)
  <1>1. PICK i \in DOMAIN lines[f] : lines[f][i].kind = k /\ lines[f][i].call = c
    BY CallsIs
  <1>2. "kind" \in DOMAIN lines[f][i]
    BY DEF ServedInv, Files
  <1>3. PICK l : l = lines[f][i]
    OBVIOUS
  <1>4. Kind(l) = k /\ l.call = c
    BY <1>1, <1>2, <1>3 DEF Kind
  <1>5. \A tg \in LineNeeds(f, Kind(l)) : HasCall(l.call, tg)
    BY <1>3, BackedIs DEF ServedInv, BackedLines
  <1> QED BY <1>4, <1>5

\* A call that still owes a line is unfinished.
LEMMA PendingUnfinished ==
    ASSUME NEW c, NEW tags, Pending(c, tags)
    PROVE  c \in Unfinished
  BY DEF Pending, Unfinished, Open, Busy

LEMMA LineTag ==
    ASSUME NEW c, NEW f \in LineFiles, NEW k, k # "any"
    PROVE  HasCall(c, <<f, k>>) <=> c \in LinesOf(f, k)
  BY HasCallIs

LEMMA TurnsCountedFollows ==
    ASSUME ServedInv
    PROVE  TurnsCounted
  <1>1. PICK turns, told : /\ turns = {i \in DOMAIN writes["state"] : writes["state"][i].kind = "turn"}
                           /\ told = LinesOf("events", "turn.completed")
                                        \cup LinesOf("events", "turn.authority_needed")
    OBVIOUS
  <1>2. IsList(writes["state"]) /\ Counted
    BY DEF ServedInv, Files, Rewritten
  <1>3. TurnSet(writes["state"], Len(writes["state"])) = turns
    BY <1>1, <1>2, ListIs DEF TurnSet
  <1>4. TurnsOf(Len(writes["state"])) = Cardinality(turns) /\ Cardinality(turns) \in Nat
    BY <1>2, <1>3, TurnsIs, TurnSets
  <1>5. /\ runtime.turns <= Cardinality(turns)
        /\ Undisturbed("state") => runtime.turns = Cardinality(turns)
    BY <1>2, <1>4 DEF Counted
  <1>6. ASSUME NEW c \in told PROVE c \in CallsThat("state", "turn")
    <2>1. "events" \in LineFiles \ {"history", "proposals", "gates"}
      BY DEF LineFiles
    <2>2. HasCall(c, Did("writeState"))
      BY <1>1, <1>6, <2>1, NeedsSmall, LineBacked
    <2> QED BY <2>2, HasCallIs
  <1>7. ASSUME NEW c \in CallsThat("state", "turn") \ told PROVE c \in Unfinished
    <2>1. (\E tag \in TurnTold : HasCall(c, tag)) \/ Pending(c, TurnTold)
      BY <1>7 DEF ServedInv, Prompted
    <2>2. CASE \E tag \in TurnTold : HasCall(c, tag)
      <3>1. \/ HasCall(c, <<"events", "turn.completed">>)
            \/ HasCall(c, <<"events", "turn.authority_needed">>)
        BY <2>2 DEF TurnTold
      <3>2. "events" \in LineFiles
        BY DEF LineFiles
      <3> QED BY <1>1, <1>7, <3>1, <3>2, LineTag
    <2> QED BY <2>1, <2>2, PendingUnfinished
  <1> QED BY <1>1, <1>5, <1>6, <1>7 DEF TurnsCounted

LEMMA MemoryKeptFollows ==
    ASSUME ServedInv
    PROVE  MemoryKept
  <1>1. WikiKept /\ CellsKept /\ Prompted /\ Backed
    BY DEF ServedInv
  <1>2. \A f \in Rewritten : \A i \in DOMAIN writes[f] : i <= Len(writes[f])
    BY ListIs DEF ServedInv, Files
  <1>3. ASSUME NEW i \in DOMAIN writes["wiki"], writes["wiki"][i].kind = "entry"
        PROVE  writes["wiki"][i].call \in wiki.entries \/ MadeOver("wiki", i)
    BY <1>1, <1>2, <1>3 DEF WikiKept, KeptOf, Rewritten
  <1>4. ASSUME NEW i \in DOMAIN writes["candidates"], writes["candidates"][i].kind = "cell"
        PROVE  \/ \E c \in candidates.cells : c.call = writes["candidates"][i].call /\ ~c.applied
               \/ MadeOver("candidates", i)
    BY <1>1, <1>2, <1>4 DEF CellsKept, KeptOf, CallsOf, Rewritten
  <1>5. ASSUME NEW c \in CallsThat("candidates", "cell") PROVE c \in CallsThat("wiki", "entry")
    BY <1>1, HasCallIs DEF Backed
  <1>6. ASSUME NEW c \in CallsThat("wiki", "entry") \ CallsThat("candidates", "cell")
        PROVE  c \in Unfinished
    BY <1>1, HasCallIs, PendingUnfinished DEF Prompted
  <1> QED BY <1>3, <1>4, <1>5, <1>6 DEF MemoryKept

LEMMA ReviewedHas ==
    ASSUME NEW c, \A tag \in Reviewed : HasCall(c, tag)
    PROVE  /\ c \in CallsThat("wiki", "entry") /\ c \in CallsThat("candidates", "cell")
           /\ c \in LinesOf("queue", "candidate") /\ c \in LinesOf("queue", "replay")
           /\ c \in LinesOf("events", "auto_memory_growth")
  <1>1. /\ HasCall(c, Did("writeWiki")) /\ HasCall(c, Did("appendCandidate"))
        /\ HasCall(c, <<"queue", "candidate">>) /\ HasCall(c, <<"queue", "replay">>)
        /\ HasCall(c, <<"events", "auto_memory_growth">>)
    BY DEF Reviewed
  <1>2. "queue" \in LineFiles /\ "events" \in LineFiles
    BY DEF LineFiles
  <1> QED BY <1>1, <1>2, HasCallIs, LineTag

LEMMA ApprovedHas ==
    ASSUME NEW c, \A tag \in Approved : HasCall(c, tag)
    PROVE  c \in LinesOf("approvals", "approval") /\ c \in LinesOf("audits", "audit")
  <1>1. HasCall(c, <<"approvals", "approval">>) /\ HasCall(c, <<"audits", "audit">>)
    BY DEF Approved
  <1>2. "approvals" \in LineFiles /\ "audits" \in LineFiles
    BY DEF LineFiles
  <1> QED BY <1>1, <1>2, LineTag

LEMMA RecordedHas ==
    ASSUME NEW c, \A tag \in Recorded : HasCall(c, tag)
    PROVE  /\ c \in LinesOf("preflight", "packet") /\ c \in LinesOf("answers", "post_answer")
           /\ c \in LinesOf("evaluations", "evaluation")
           /\ c \in LinesOf("events", "live_turn") /\ c \in LinesOf("progress", "complete")
           /\ c \in {l.call : l \in ToSet(lines["growth"])}
  <1>1. /\ HasCall(c, <<"preflight", "packet">>) /\ HasCall(c, <<"answers", "post_answer">>)
        /\ HasCall(c, <<"evaluations", "evaluation">>) /\ HasCall(c, <<"events", "live_turn">>)
        /\ HasCall(c, <<"progress", "complete">>) /\ HasCall(c, <<"growth", "any">>)
    BY DEF Recorded
  <1>2. /\ "preflight" \in LineFiles /\ "answers" \in LineFiles /\ "evaluations" \in LineFiles
        /\ "events" \in LineFiles /\ "progress" \in LineFiles /\ "growth" \in LineFiles
    BY DEF LineFiles
  <1>3. \E i \in DOMAIN lines["growth"] : lines["growth"][i].call = c
    BY <1>1, <1>2, HasCallIs
  <1>4. c \in {l.call : l \in ToSet(lines["growth"])}
    BY <1>3, CallsIs
  <1> QED BY <1>1, <1>2, <1>4, LineTag

LEMMA CompletedHas ==
    ASSUME NEW c, \A tag \in Completed : HasCall(c, tag)
    PROVE  /\ c \in LinesOf("approvals", "loop_approval") /\ c \in LinesOf("audits", "loop_audit")
           /\ c \in LinesOf("progress", "tool_running") /\ c \in LinesOf("live", "recorded")
           /\ c \in LinesOf("events", "os_turn")
  <1>1. /\ HasCall(c, <<"approvals", "loop_approval">>) /\ HasCall(c, <<"audits", "loop_audit">>)
        /\ HasCall(c, <<"progress", "tool_running">>) /\ HasCall(c, <<"live", "recorded">>)
        /\ HasCall(c, <<"events", "os_turn">>)
    BY DEF Completed
  <1>2. /\ "approvals" \in LineFiles /\ "audits" \in LineFiles /\ "progress" \in LineFiles
        /\ "live" \in LineFiles /\ "events" \in LineFiles
    BY DEF LineFiles
  <1> QED BY <1>1, <1>2, LineTag

LEMMA RunsBackedFollows ==
    ASSUME ServedInv
    PROVE  RunsBacked
  <1>1. PICK rev, app, rec : /\ rev = LinesOf("growth", "captured_review_only")
                             /\ app = LinesOf("growth", "completed_local_auto_loop")
                             /\ rec = LinesOf("live", "recorded")
    OBVIOUS
  <1>2. {"growth", "live"} \subseteq LineFiles \ {"history", "proposals", "gates"}
    BY DEF LineFiles
  <1>3. Reviewed \subseteq Applied /\ Approved \subseteq Applied
        /\ <<"queue", "bridge">> \in Applied /\ <<"queue", "apply">> \in Applied
    BY DEF Applied
  <1>4. ASSUME NEW c \in rev \cup app PROVE \A tag \in Reviewed : HasCall(c, tag)
    BY <1>1, <1>2, <1>3, <1>4, NeedsSmall, LineBacked
  <1>5. ASSUME NEW c \in app PROVE \A tag \in Applied : HasCall(c, tag)
    BY <1>1, <1>2, <1>5, NeedsSmall, LineBacked
  <1>6. ASSUME NEW c \in rec PROVE \A tag \in Recorded : HasCall(c, tag)
    BY <1>1, <1>2, <1>6, NeedsSmall, LineBacked
  <1>7. ASSUME NEW c \in app
        PROVE  /\ c \in LinesOf("approvals", "approval") /\ c \in LinesOf("audits", "audit")
               /\ c \in LinesOf("queue", "bridge") /\ c \in LinesOf("queue", "apply")
    <2>1. "queue" \in LineFiles
      BY DEF LineFiles
    <2>2. HasCall(c, <<"queue", "bridge">>) /\ HasCall(c, <<"queue", "apply">>)
      BY <1>3, <1>5
    <2>3. c \in LinesOf("approvals", "approval") /\ c \in LinesOf("audits", "audit")
      BY <1>3, <1>5, ApprovedHas
    <2> QED BY <2>1, <2>2, <2>3, LineTag
  <1>8. ASSUME NEW c \in candidates.cells, c.applied
        PROVE  c.call \in LinesOf("approvals", "approval") /\ c.call \in LinesOf("audits", "audit")
    <2>1. \A tag \in Approved : HasCall(c.call, tag)
      BY <1>8 DEF ServedInv, Backed
    <2> QED BY <2>1, ApprovedHas
  <1>9. ASSUME NEW c \in rev \cup app
        PROVE  /\ c \in CallsThat("wiki", "entry") /\ c \in CallsThat("candidates", "cell")
               /\ c \in LinesOf("queue", "candidate") /\ c \in LinesOf("queue", "replay")
               /\ c \in LinesOf("events", "auto_memory_growth")
    BY <1>4, ReviewedHas
  <1>10. ASSUME NEW c \in rec
         PROVE  /\ c \in LinesOf("preflight", "packet") /\ c \in LinesOf("answers", "post_answer")
                /\ c \in LinesOf("evaluations", "evaluation")
                /\ c \in LinesOf("events", "live_turn") /\ c \in LinesOf("progress", "complete")
                /\ c \in {l.call : l \in ToSet(lines["growth"])}
    BY <1>6, RecordedHas
  <1> QED BY <1>1, <1>7, <1>8, <1>9, <1>10 DEF RunsBacked

LEMMA IndexPairsFollows ==
    ASSUME ServedInv
    PROVE  IndexPairsEntries
  BY DEF ServedInv, Indexed, Paired, IndexPairsEntries

LEMMA DryRunsFollows ==
    ASSUME ServedInv
    PROVE  DryRunsEnd
  <1>1. IsList(lines["progress"])
    BY DEF ServedInv, Files, LineFiles
  <1>2. ASSUME NEW c \in 1 .. past.calls,
               NEW p, p = Count("progress", {"tool_running"}, c),
               NEW q, q = Count("progress", {"tool_complete", "tool_error"}, c)
        PROVE  q \in {p, p - 1} /\ (q = p \/ c \in Unfinished)
    <2>1. /\ p = Cardinality(CountSet(lines["progress"], {"tool_running"}, c))
          /\ q = Cardinality(CountSet(lines["progress"], {"tool_complete", "tool_error"}, c))
      BY <1>2 DEF Count, CountSet
    <2>2. p \in Nat /\ q \in Nat
      BY <1>1, <2>1, CountType
    <2>3. Running(c) = p - q
      BY <1>2 DEF Running
    <2>4. Running(c) = 0 \/ (Running(c) = 1 /\ c \in Unfinished)
      BY DEF ServedInv, ToolsEnd
    <2> QED BY <2>2, <2>3, <2>4
  <1> QED BY <1>2 DEF DryRunsEnd

LEMMA WorkBackedFollows ==
    ASSUME ServedInv
    PROVE  WorkBacked
  <1>1. PICK done, stop : /\ done = LinesOf("osTurns", "completed")
                          /\ stop = LinesOf("osTurns", "blocked")
    OBVIOUS
  <1>2. "osTurns" \in LineFiles \ {"history", "proposals", "gates"}
    BY DEF LineFiles
  <1>3. ASSUME NEW c \in done
        PROVE  /\ c \in LinesOf("approvals", "loop_approval") /\ c \in LinesOf("audits", "loop_audit")
               /\ c \in LinesOf("progress", "tool_running") /\ c \in LinesOf("live", "recorded")
               /\ c \in LinesOf("events", "os_turn")
    <2>1. \A tag \in Completed : HasCall(c, tag)
      BY <1>1, <1>2, <1>3, NeedsSmall, LineBacked
    <2> QED BY <2>1, CompletedHas
  <1>4. ASSUME NEW c \in CallsThat("sessions", "submitted") PROVE c \in done \cup stop
    <2>1. HasCall(c, <<"osTurns", "any">>)
      BY <1>4 DEF ServedInv, Backed
    <2>2. PICK i \in DOMAIN lines["osTurns"] : lines["osTurns"][i].call = c
      BY <1>2, <2>1, HasCallIs
    <2>3. lines["osTurns"][i].kind \in {"completed", "blocked"}
      BY <1>2 DEF ServedInv, Files
    <2> QED BY <1>1, <2>2, <2>3, CallsIs
  <1>5. ASSUME NEW i \in DOMAIN writes["sessions"]
        PROVE  writes["sessions"][i].call \in sessions.open \/ MadeOver("sessions", i)
    <2>1. i <= Len(writes["sessions"])
      BY ListIs DEF ServedInv, Files, Rewritten
    <2> QED BY <2>1 DEF ServedInv, SessionsKept, KeptOf
  <1> QED BY <1>1, <1>3, <1>4, <1>5 DEF WorkBacked

LEMMA ChecksFollows ==
    ASSUME ServedInv
    PROVE  SelfChecksLeaveNothing
  <1>1. ChecksPend
    BY DEF ServedInv
  <1>2. \A b \in Busy : doing[b].call \in Unfinished
    BY DEF Busy, Unfinished, Open
  <1> QED BY <1>1, <1>2 DEF ChecksPend, Overwrote, SelfChecksLeaveNothing, Unfinished

LEMMA WelcomeFollows ==
    ASSUME ServedInv
    PROVE  WelcomeWhole
  BY DEF ServedInv, WelcomeKept

-----------------------------------------------------------------------------
(* The theorems. *)

\* While no write of the state is made over another (session-core, writeJson of the
\* runtime state), the turns it counts are the turns that calls recorded.
THEOREM TurnsCountedHolds ==
    ASSUME NEW CONSTANT root, NEW CONSTANT calls
    PROVE  ServedSpec(root, calls) => []TurnsCounted
  BY ServedInvHolds, TurnsCountedFollows, PTL

\* What a capture writes (memory-wiki: entry, then candidate) stays in its file, unless
\* a call that had read the file before wrote it again, and an entry that no candidate
\* ever followed is of a capture that is under way or was cut short.
THEOREM MemoryKeptHolds ==
    ASSUME NEW CONSTANT root, NEW CONSTANT calls
    PROVE  ServedSpec(root, calls) => []MemoryKept
  BY ServedInvHolds, MemoryKeptFollows, PTL

\* Growth runs and live turns (auto-memory-growth-loop, live-turn-absorption-bridge) put
\* their own line last: everything a line on record names is on file, and a candidate is
\* applied only with the approval and the audit line of its call.
THEOREM RunsBackedHolds ==
    ASSUME NEW CONSTANT root, NEW CONSTANT calls
    PROVE  ServedSpec(root, calls) => []RunsBacked
  BY ServedInvHolds, RunsBackedFollows, PTL

\* The search index (memory-search) is built from two looks, entries then candidates, with
\* other calls in between: an entry in it has its candidate there, unless its capture was
\* open or cut short then, or the candidate file was written over.
THEOREM IndexPairsEntriesHolds ==
    ASSUME NEW CONSTANT root, NEW CONSTANT calls
    PROVE  ServedSpec(root, calls) => []IndexPairsEntries
  BY ServedInvHolds, IndexPairsFollows, PTL

\* The progress of a dry run (execution-runtime) says that a tool runs and then that it
\* ended, once, unless the call is under way or was cut short in between.
THEOREM DryRunsEndHolds ==
    ASSUME NEW CONSTANT root, NEW CONSTANT calls
    PROVE  ServedSpec(root, calls) => []DryRunsEnd
  BY ServedInvHolds, DryRunsFollows, PTL

\* An OS turn (first-real-os-turn-pipeline) is recorded as completed after its loop, dry
\* run, live turn and event; a session that a submission opened (work-surface execution
\* flow) has its OS turn, and stays unless a call that had not seen it wrote the file.
THEOREM WorkBackedHolds ==
    ASSUME NEW CONSTANT root, NEW CONSTANT calls
    PROVE  ServedSpec(root, calls) => []WorkBacked
  BY ServedInvHolds, WorkBackedFollows, PTL

\* Applying the welcome settings (runtime-workspace-welcome) writes its files one by one:
\* those there are fit one application, unless it is open, was cut short, or overlapped.
THEOREM WelcomeWholeHolds ==
    ASSUME NEW CONSTANT root, NEW CONSTANT calls
    PROVE  ServedSpec(root, calls) => []WelcomeWhole
  BY ServedInvHolds, WelcomeFollows, PTL

\* The self-checks of the review queue (memory-candidate-review-queue) apply a candidate on
\* the user's root and roll it back: one is left only while a check runs, was cut short,
\* or threw between the two, or because a rollback or a review wrote over a rewrite.
THEOREM SelfChecksLeaveNothingHolds ==
    ASSUME NEW CONSTANT root, NEW CONSTANT calls
    PROVE  ServedSpec(root, calls) => []SelfChecksLeaveNothing
  BY ServedInvHolds, ChecksFollows, PTL
=============================================================================
