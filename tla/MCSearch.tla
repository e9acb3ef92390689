------------------------------ MODULE MCSearch ------------------------------
(***************************************************************************)
(* Instance for TLC of a Search Run and of what surrounds its Candidates:  *)
(* the definitions they are made of, the sentiment their backtests read    *)
(* and the replay verification of their Experiments.  These share no state *)
(* here; a behaviour runs one of them.                                     *)
(***************************************************************************)
EXTENDS SearchProperties, SearchCandidates, SentimentSnapshot, ReplayVerification, TLC

VARIABLE part  \* the one that runs

partsVars == <<vars, candidateVars, sentimentVars, replayVars, part>>

PartsInit ==
  /\ part \in {"search", "candidates", "sentiment", "replay"}
  /\ Init /\ CandidatesInit /\ SentimentInit /\ ReplayInit

PartsNext ==
  \/ part = "search" /\ Next /\ UNCHANGED <<candidateVars, sentimentVars, replayVars, part>>
  \/ part = "candidates" /\ CandidatesNext /\ UNCHANGED <<vars, sentimentVars, replayVars, part>>
  \/ part = "sentiment" /\ SentimentNext /\ UNCHANGED <<vars, candidateVars, replayVars, part>>
  \/ part = "replay" /\ ReplayNext /\ UNCHANGED <<vars, candidateVars, sentimentVars, part>>

PartsSpec == PartsInit /\ [][PartsNext]_partsVars

\* Two ranges, of which one does not begin where a candle opens.
MCRanges == {<<0, 4>>, <<1, 5>>}

\* Two families; of one, two definitions with equal parameters, as the implementation
\* of the second one has been replaced; the other one warms up too long for the scope.
MCBounds == [ma |-> <<[least |-> 1, greatest |-> 2], [least |-> 2, greatest |-> 3]>>,
             rsi |-> <<[least |-> 1, greatest |-> 2]>>]
MCCategory == [ma |-> "TREND", rsi |-> "MOMENTUM"]
Definition(i, f, p, x) == [id |-> i, family |-> f, params |-> p, described |-> x]
MCWarmup == [ma |-> 1, rsi |-> 2]
MCSpace == << Definition(1, "ma", <<1, 2>>, TRUE), Definition(2, "ma", <<1, 2>>, FALSE),
              Definition(3, "rsi", <<1>>, TRUE) >>
MCRequired == <<"TREND">>

\* Backend processes are interchangeable, as are the requests for sentiment and
\* the workers of a replay, which are named like them.
BackendSymmetry == Permutations(Fillers)
=============================================================================
