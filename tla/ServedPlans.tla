------------------------------ MODULE ServedPlans ------------------------------
(***************************************************************************)
(* What the lists of steps of all calls have in common, and what is true of a    *)
(* root in every state in between: the inductive invariant of Served_proofs.      *)
(*                                                                          *)
(* A step gives tags, and needs tags given by earlier steps of its call: a       *)
(* line it names, a write, or a look at the file it rewrites.                     *)
(***************************************************************************)
EXTENDS Served

IsList(s) == s \in Seq(ToSet(s))

-----------------------------------------------------------------------------
(* What a step needs and gives *)

Kind(rec) == IF "kind" \in DOMAIN rec THEN rec.kind ELSE "none"

\* A line that names the call it is from, not one of a self-check.
Own(rec) == "call" \notin DOMAIN rec

Did(name) == <<"did", name>>

Reviewed == {Did("writeWiki"), Did("appendCandidate"), <<"queue", "candidate">>,
             <<"queue", "replay">>, <<"events", "auto_memory_growth">>}
Approved == {<<"approvals", "approval">>, <<"audits", "audit">>}
Applied == Reviewed \cup Approved \cup {<<"queue", "bridge">>, <<"queue", "apply">>}
Recorded == {<<"preflight", "packet">>, <<"answers", "post_answer">>,
             <<"evaluations", "evaluation">>, <<"events", "live_turn">>,
             <<"progress", "complete">>, <<"growth", "any">>}
Completed == {<<"approvals", "loop_approval">>, <<"audits", "loop_audit">>,
              <<"progress", "tool_running">>, <<"live", "recorded">>,
              <<"events", "os_turn">>}
TurnTold == {<<"events", "turn.completed">>, <<"events", "turn.authority_needed">>}

LineNeeds(file, kind) ==
    CASE <<file, kind>> = <<"growth", "captured_review_only">> -> Reviewed
      [] <<file, kind>> = <<"growth", "completed_local_auto_loop">> -> Applied
      [] <<file, kind>> = <<"live", "recorded">> -> Recorded
      [] <<file, kind>> = <<"osTurns", "completed">> -> Completed
      [] <<file, kind>> \in TurnTold -> {Did("writeState")}
      [] OTHER -> {}

Needs(x) ==
    CASE x.do = "append" -> LineNeeds(x.file, Kind(x.rec))
      [] x.do = "writeState" -> {Did("readBase")}
      [] x.do = "writeWiki" -> {Did("readWiki")}
      [] x.do = "appendCandidate" ->
            {Did("writeWiki")} \cup (IF x.applied THEN Approved ELSE {})
      [] x.do = "writeSessions" ->
            {Did("readSessions")}
            \cup (IF x.kind = "submitted" THEN {<<"osTurns", "any">>} ELSE {})
      [] x.do = "appendCheckCell" -> {<<"check", "approval">>, <<"check", "audit">>}
      [] x.do = "writeKept" -> {Did("readApplied")}
      [] x.do = "collectCells" -> {Did("collectEntries")}
      [] x.do = "writeIndex" -> {Did("collectEntries"), Did("collectCells")}
      [] OTHER -> {}

Gives(x) ==
    IF x.do = "appendCandidate" /\ x.applied THEN {}
    ELSE IF x.do # "append" THEN {Did(x.do)}
    ELSE IF Own(x.rec) THEN {<<x.file, Kind(x.rec)>>, <<x.file, "any">>}
    ELSE {<<"check", Kind(x.rec)>>}

-----------------------------------------------------------------------------
(* Lists *)

Given(s) == UNION {Gives(s[i]) : i \in DOMAIN s}

\* Each step of the list has what it needs, when P is given before the first.
Good(s, P) ==
    \A i \in DOMAIN s : \A tag \in Needs(s[i]) :
        tag \in P \/ \E j \in DOMAIN s : j < i /\ tag \in Gives(s[j])

WellFormed(x) ==
    /\ x.do = "append" =>
          /\ x.file \in LineFiles
          /\ x.file \notin {"history", "proposals", "gates"} => "kind" \in DOMAIN x.rec
          /\ x.file = "osTurns" => x.rec.kind \in {"completed", "blocked"}
          /\ Own(x.rec) \/ /\ x.rec.call = CheckId
                           /\ \/ x.file = "approvals" /\ x.rec.kind = "approval"
                              \/ x.file = "audits" /\ x.rec.kind = "audit"
                              \/ x.file = "queue" /\ x.rec.kind \notin {"approval", "audit"}
    /\ x.do = "appendCandidate" => x.applied \in BOOLEAN
    /\ x.do = "readApplied" => x.cell.applied /\ x.drops \in BOOLEAN
    /\ x.do = "writeSessions" => x.kind \in {"opened", "submitted"}
    /\ x.do = "writeWelcome" =>
          /\ x.file \in WelcomeFiles
          /\ x.file \in {"memory", "heartbeat"} => x.answers[x.file]

\* What the very next step must give: nothing comes between the two.
Owes(x) ==
    CASE x.do = "writeState" -> TurnTold
      [] x.do = "writeWiki" -> {Did("appendCandidate")}
      [] x.do = "append" /\ x.file = "progress" /\ Kind(x.rec) = "tool_running" ->
            {Did("runCommand")}
      [] OTHER -> {}
Prompt(s) ==
    \A i \in DOMAIN s : Owes(s[i]) # {} =>
        i + 1 \in DOMAIN s /\ Owes(s[i]) \cap Gives(s[i + 1]) # {}

Runs(x) == x.do = "append" /\ x.file = "progress" /\ Kind(x.rec) = "tool_running"
Ends(x) == x.do = "append" /\ x.file = "progress"
           /\ Kind(x.rec) \in {"tool_complete", "tool_error"}

\* Steps that come only right after another.
Led(s, i) ==
    /\ s[i].do = "runCommand" => i - 1 \in DOMAIN s /\ Runs(s[i - 1])
    /\ s[i].do = "writeIndex" => i - 1 \in DOMAIN s /\ s[i - 1].do = "collectCells"
    /\ ~Ends(s[i])

\* An applied candidate of a self-check is looked for later on.
TakesBack(x) == x.do = "readApplied" /\ x.cell = CheckCell /\ x.drops
RollsBack(s) ==
    \A i \in DOMAIN s : s[i].do = "appendCheckCell" =>
        \E j \in DOMAIN s : j > i /\ TakesBack(s[j])

Tame(s) == \A i \in DOMAIN s : s[i].do # "writeWelcome"
WritesFile(s, f) == \E i \in DOMAIN s : s[i].do = "writeWelcome" /\ s[i].file = f
Welcomes(s) == \A i \in DOMAIN s : s[i].do \in {"writeWelcome", "respond"}

\* Steps in any place of a call's list, and the list of a whole call.
Tidy(s) ==
    /\ IsList(s)
    /\ \A i \in DOMAIN s : WellFormed(s[i]) /\ Led(s, i)
    /\ Prompt(s)
Call(s) ==
    /\ Tidy(s) /\ RollsBack(s) /\ Good(s, {})
    /\ Tame(s) \/ (Welcomes(s) /\ \A f \in ToSet(BaseFiles) : WritesFile(s, f))

-----------------------------------------------------------------------------
(* What was done, of a call and of an actor *)

HasCall(c, tag) ==
    CASE tag = Did("writeState") -> c \in CallsThat("state", "turn")
      [] tag = Did("writeWiki") -> c \in CallsThat("wiki", "entry")
      [] tag = Did("appendCandidate") -> c \in CallsThat("candidates", "cell")
      [] tag = <<"check", "approval">> -> CheckId \in LinesOf("approvals", "approval")
      [] tag = <<"check", "audit">> -> CheckId \in LinesOf("audits", "audit")
      [] tag[1] \in LineFiles /\ tag[2] = "any" ->
            c \in {l.call : l \in ToSet(lines[tag[1]])}
      [] tag[1] \in LineFiles /\ tag[2] # "any" -> c \in LinesOf(tag[1], tag[2])
      [] OTHER -> FALSE

\* The looks at files a call goes on with, and the fields they are kept in.
HeldFields(name) ==
    CASE name = "readBase" -> {"base", "baseSeen"}
      [] name = "readWiki" -> {"wiki", "wikiSeen"}
      [] name = "readSessions" -> {"sessions", "sessionsSeen"}
      [] name = "readApplied" -> {"kept", "keptSeen"}
      [] name = "collectEntries" -> {"entries"}
      [] name = "collectCells" -> {"cells", "open"}
Looks == {"readBase", "readWiki", "readSessions", "readApplied",
          "collectEntries", "collectCells"}
Holds(a, name) == HeldFields(name) \subseteq DOMAIN doing[a]

Tags == Applied \cup Recorded \cup Completed \cup TurnTold \cup {Did("writeState")}
        \cup {Did(name) : name \in Looks}
        \cup {<<"osTurns", "any">>, <<"check", "approval">>, <<"check", "audit">>}

Done(a) ==
    {tag \in Tags : \/ HasCall(doing[a].call, tag)
                    \/ \E name \in Looks : tag = Did(name) /\ Holds(a, name)}

-----------------------------------------------------------------------------
(* The invariant, in parts *)

Busy == {a \in Actors : doing[a] # Rest}

\* What a call has still to do, with P done: only its first step may be one that
\* follows another.
Planned(s, P) ==
    /\ IsList(s) /\ s # <<>> /\ (\A i \in DOMAIN s : WellFormed(s[i]))
    /\ Prompt(s) /\ (\A i \in DOMAIN s \ {1} : Led(s, i)) /\ RollsBack(s)
    /\ Good(s, P)

OnPlan(a) ==
    /\ {"op", "call", "todo"} \subseteq DOMAIN doing[a]
    /\ Planned(doing[a].todo, Done(a))

Calls ==
    /\ DOMAIN doing = Actors
    /\ past.calls \in Nat
    /\ \A a \in Busy : doing[a].call \in 1 .. past.calls
    /\ \A a, b \in Busy : a # b => doing[a].call # doing[b].call

Shapes ==
    /\ {"calls", "cut", "threw"} \subseteq DOMAIN past
    /\ "turns" \in DOMAIN runtime /\ "entries" \in DOMAIN wiki
    /\ {"entries", "cells", "open"} \subseteq DOMAIN search
    /\ "open" \in DOMAIN sessions

Files ==
    /\ DOMAIN lines = LineFiles /\ DOMAIN writes = Rewritten
    /\ \A f \in LineFiles : IsList(lines[f]) /\ \A i \in DOMAIN lines[f] :
          /\ lines[f][i].call \in 0 .. past.calls
          /\ f \notin {"history", "proposals", "gates"} => "kind" \in DOMAIN lines[f][i]
          /\ f = "osTurns" => lines[f][i].kind \in {"completed", "blocked"}
    /\ \A f \in Rewritten : IsList(writes[f]) /\ \A i \in DOMAIN writes[f] :
          /\ writes[f][i].call \in 1 .. past.calls
          /\ writes[f][i].seen \in 0 .. i - 1

\* What a line, a candidate or a session names is there.
Backed ==
    /\ \A f \in LineFiles : \A i \in DOMAIN lines[f] :
          \A tag \in LineNeeds(f, Kind(lines[f][i])) : HasCall(lines[f][i].call, tag)
    /\ \A c \in CallsThat("candidates", "cell") : HasCall(c, Did("writeWiki"))
    /\ \A c \in candidates.cells : c.applied => \A tag \in Approved : HasCall(c.call, tag)
    /\ \A c \in CallsThat("sessions", "submitted") : HasCall(c, <<"osTurns", "any">>)

\* The next step of the call, if it is under way, or it was cut short.
Pending(c, tags) ==
    c \in past.cut \/ \E a \in Busy :
        doing[a].call = c /\ Gives(Head(doing[a].todo)) \cap tags # {}

Prompted ==
    /\ \A c \in CallsThat("state", "turn") :
          (\E tag \in TurnTold : HasCall(c, tag)) \/ Pending(c, TurnTold)
    /\ \A c \in CallsThat("wiki", "entry") :
          HasCall(c, Did("appendCandidate")) \/ Pending(c, {Did("appendCandidate")})

\* The turns among the first n writes of the state.
TurnsOf(n) == Cardinality({i \in DOMAIN writes["state"] :
                              i <= n /\ writes["state"][i].kind = "turn"})

Counted ==
    /\ runtime.turns \in 0 .. TurnsOf(Len(writes["state"]))
    /\ Undisturbed("state") => runtime.turns = TurnsOf(Len(writes["state"]))
    /\ \A a \in Busy : Holds(a, "readBase") =>
          /\ doing[a].baseSeen \in 0 .. Len(writes["state"])
          /\ doing[a].base \in 0 .. TurnsOf(Len(writes["state"]))
          /\ Undisturbed("state") => doing[a].base = TurnsOf(doing[a].baseSeen)

\* Of the first n writes of the file, those of a kind are in what is kept, or made over.
KeptOf(file, kinds, n, kept) ==
    \A i \in DOMAIN writes[file] :
        i <= n /\ writes[file][i].kind \in kinds =>
            writes[file][i].call \in kept \/ MadeOver(file, i)

WikiKept ==
    /\ KeptOf("wiki", {"entry"}, Len(writes["wiki"]), wiki.entries)
    /\ wiki.entries \subseteq CallsThat("wiki", "entry")
    /\ \A a \in Busy : Holds(a, "readWiki") =>
          /\ doing[a].wikiSeen \in 0 .. Len(writes["wiki"])
          /\ KeptOf("wiki", {"entry"}, doing[a].wikiSeen, doing[a].wiki)
          /\ doing[a].wiki \subseteq CallsThat("wiki", "entry")

SessionsKept ==
    /\ KeptOf("sessions", {"opened", "submitted"}, Len(writes["sessions"]), sessions.open)
    /\ \A i \in DOMAIN writes["sessions"] :
          writes["sessions"][i].kind \in {"opened", "submitted"}
    /\ \A a \in Busy : Holds(a, "readSessions") =>
          /\ doing[a].sessionsSeen \in 0 .. Len(writes["sessions"])
          /\ KeptOf("sessions", {"opened", "submitted"}, doing[a].sessionsSeen,
                    doing[a].sessions)

\* The captured candidates among them.
CallsOf(cells) == {c.call : c \in {c \in cells : ~c.applied}}

CellsKept ==
    /\ KeptOf("candidates", {"cell"}, Len(writes["candidates"]), CallsOf(candidates.cells))
    /\ \A a \in Busy : Holds(a, "readApplied") =>
          /\ doing[a].keptSeen \in 0 .. Len(writes["candidates"])
          /\ KeptOf("candidates", {"cell"}, doing[a].keptSeen, CallsOf(doing[a].kept))
          /\ \A c \in doing[a].kept : c.applied => \A tag \in Approved : HasCall(c.call, tag)

Paired(entries, cells, open) ==
    Undisturbed("candidates") => entries \subseteq cells \cup open \cup past.cut

Indexed ==
    /\ Paired(search.entries, search.cells, search.open)
    /\ \A a \in Busy :
          /\ Holds(a, "collectEntries") => doing[a].entries \subseteq CallsThat("wiki", "entry")
          /\ Head(doing[a].todo).do = "writeIndex" =>
                Paired(doing[a].entries, doing[a].cells, doing[a].open)

\* How many more lines say that a tool of the call runs than that one has ended.
Running(c) ==
    Count("progress", {"tool_running"}, c)
        - Count("progress", {"tool_complete", "tool_error"}, c)
AtTool(a) == LET x == Head(doing[a].todo) IN x.do = "runCommand" \/ Ends(x)

ToolsEnd ==
    \A c \in 1 .. past.calls :
        /\ Running(c) = 0 \/ (Running(c) = 1 /\ c \in Unfinished)
        /\ \A a \in Busy : doing[a].call = c => Running(c) = IF AtTool(a) THEN 1 ELSE 0

Welcoming(a) ==
    \/ ~Tame(doing[a].todo)
    \/ \E f \in ToSet(BaseFiles) : welcome[f].call = doing[a].call

WelcomeKept ==
    /\ WelcomeWhole
    /\ DOMAIN welcome = WelcomeFiles
    /\ \A f \in WelcomeFiles : welcome[f].call \in 0 .. past.calls
    /\ \A a \in Busy : Welcoming(a) =>
          /\ Welcomes(doing[a].todo)
          /\ \A f \in ToSet(BaseFiles) :
                \/ WritesFile(doing[a].todo, f)
                \/ welcome[f].call = doing[a].call
                \/ doing[a].call \in welcome[f].with

\* The call has still to take back the candidate of a self-check.
Undoes(a) ==
    \/ \E i \in DOMAIN doing[a].todo : TakesBack(doing[a].todo[i])
    \/ Head(doing[a].todo).do = "writeKept" /\ CheckCell \notin doing[a].kept

RewroteAfter(n) == \E i \in DOMAIN writes["candidates"] : i > n /\ Rewrote(i)
Overwrote ==
    \E i \in DOMAIN writes["candidates"] : Rewrote(i) /\ MadeOver("candidates", i)

\* A candidate of a self-check is there while one of those that made it may take
\* it back, or because a rewrite was written over; and a call that would write it
\* again has read it before the last rewrite, or it is there.
ChecksPend ==
    /\ CheckCell \in candidates.cells =>
          \/ Overwrote
          \/ \E c \in CallsThat("candidates", "check") :
                \/ c \in past.cut \cup past.threw
                \/ \E a \in Busy : doing[a].call = c /\ Undoes(a)
    /\ \A a \in Busy : Holds(a, "readApplied") /\ CheckCell \in doing[a].kept =>
          CheckCell \in candidates.cells \/ RewroteAfter(doing[a].keptSeen)

ServedInv ==
    /\ Shapes /\ Calls /\ Files /\ (\A a \in Busy : OnPlan(a))
    /\ Backed /\ Prompted /\ Counted /\ WikiKept /\ SessionsKept /\ CellsKept
    /\ Indexed /\ ToolsEnd /\ WelcomeKept /\ ChecksPend
=============================================================================
