------------------------------ MODULE MCServices ------------------------------
(* Instance for TLC: the news collection, the strategy library, the         *)
(* simulation of a candle range, and the leaderboard of a scope, whose      *)
(* state machines share nothing here; a behaviour runs one of them.         *)
EXTENDS NewsProperties, StrategyLibrary, Simulation, Leaderboard, TLC

VARIABLE part  \* the one that runs

servicesVars == <<newsVars, libraryVars, simVars, boardVars, part>>

Init ==
  /\ part \in {"news", "library", "simulation", "leaderboard"}
  /\ NewsInit /\ LibraryInit /\ SimInit /\ BoardInit

Next ==
  \/ part = "news" /\ NewsNext /\ UNCHANGED <<libraryVars, simVars, boardVars, part>>
  \/ part = "library" /\ LibraryNext /\ UNCHANGED <<newsVars, simVars, boardVars, part>>
  \/ part = "simulation" /\ SimNext /\ UNCHANGED <<newsVars, libraryVars, boardVars, part>>
  \/ part = "leaderboard" /\ BoardNext /\ UNCHANGED <<newsVars, libraryVars, simVars, part>>

Spec == Init /\ [][Next]_servicesVars

CONSTANTS a1, a2
MCListed == [k \in Kinds |-> IF k = "FEED" THEN {a1, a2} ELSE {a1}]

\* open, high, low and close: a quiet candle, a rise and a fall, one that
\* reaches both protective levels, and two that open beyond them.
C(o, h, l, c) == [open |-> o, high |-> h, low |-> l, close |-> c]
MCCandles ==
  { C(100, 101, 99, 100), C(100, 130, 95, 120), C(100, 104, 70, 75),
    C(100, 130, 70, 100), C(70, 75, 68, 72), C(130, 135, 128, 131) }

\* Two Experiments tie.
MCExperiments == 1 .. 5
MCScore == [e \in MCExperiments |-> CASE e = 1 -> 1 [] e \in {2, 3} -> 2 [] OTHER -> 3]
MCIneligible == {5}

\* Users, contents, and requests are interchangeable.  The readers are the users
\* of the library, and the transactions its requests: the parts never meet.
MCSymmetry == Permutations(Users) \cup Permutations(Contents) \cup Permutations(Reqs)
=============================================================================
