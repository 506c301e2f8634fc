------------------------------ MODULE MCLiveTools ------------------------------
EXTENDS LivePatches

Bounds(bounds) ==
    [k \in Events |-> IF k \in DOMAIN bounds THEN bounds[k] ELSE 0]

\* Two runs of any two tools that share files, and one that fails or is killed.
Handlers == {"hotfix", "conversation", "replay", "growth", "bridge", "identity"}
Screens  == {"layout", "dashboard", "surface", "route", "mirror", "namespace", "ux"}
Configs  == {"tools", "doctor", "allowlist", "cleanup"}
Faults   == {[fail |-> 1], [crash |-> 1]}

Pair(s, t) == IF s = t THEN (s :> 2) ELSE (s :> 1) @@ (t :> 1)

Scenarios ==
    {Bounds(Pair(s, t) @@ f) : s \in Handlers, t \in Handlers, f \in Faults}
    \cup {Bounds(Pair(s, t) @@ f) : s \in Screens, t \in Screens, f \in Faults}
    \cup {Bounds(Pair(s, t) @@ f @@ [user |-> 1]) : s \in Configs, t \in Configs, f \in Faults}
    \cup {Bounds([pack |-> 2, user |-> 1] @@ f) : f \in Faults}
    \cup {Bounds([update |-> 1, outbound |-> 2] @@ f) : f \in Faults}
    \cup {Bounds([repair |-> 2, rollback |-> 1] @@ f) : f \in Faults}
    \cup {Bounds([repair |-> 2, user |-> 1] @@ f) : f \in Faults}
    \cup {Bounds([repair |-> 2, rollback |-> 1, user |-> 1]),
          Bounds([reseal |-> 1, layout |-> 1, registry |-> 1]),
          Bounds([reseal |-> 1, repair |-> 1])}

MCInit == \E events \in Scenarios : PatchesInit(events)
MCSpec == MCInit /\ [][PatchesNext]_patchVars
Symmetry == Permutations(Actors)
=============================================================================
