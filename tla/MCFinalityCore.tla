--------------------------- MODULE MCFinalityCore ---------------------------
(***************************************************************************)
(* Acts, sinks and symmetry of the instances of FinalityCore.              *)
(***************************************************************************)
EXTENDS FinalityCoreRefinement, MCActs, TLC

\* Two acts that compete for one nonce.
TheRivalActs ==
  [ c1 |-> BaseAct,
    c2 |-> [BaseAct EXCEPT !.payload = "amount-9000"] ]

\* Two acts of one source, each with its own nonce.
TheIndependentActs ==
  [ c1 |-> BaseAct,
    c2 |-> [BaseAct EXCEPT !.nonce = "nonce-2", !.payload = "amount-9000"] ]

\* An act, the same act with its payload altered, and the same act with its
\* source spelled differently.
TheSpelledActs ==
  [ c1 |-> BaseAct,
    c2 |-> [BaseAct EXCEPT !.payload = "amount-9000"],
    c3 |-> [BaseAct EXCEPT !.source = "agent-A~"] ]

\* Two acts that compete for one nonce, and a third with its own.
TheContendingActs ==
  [ c1 |-> BaseAct,
    c2 |-> [BaseAct EXCEPT !.payload = "amount-9000"],
    c3 |-> [BaseAct EXCEPT !.nonce = "nonce-2"] ]

TheOneSink == [s1 |-> SinkA]

\* The same boundary served by two sinks that share one store.
TheTwinSinks == [s1 |-> SinkA, s2 |-> [SinkA EXCEPT !.signs_receipts = FALSE]]

\* A sink of the strict non-bearer profile.
TheStrictSink == [s1 |-> [SinkA EXCEPT !.require_proof = TRUE, !.presentation_freshness = 0]]

\* The names configurations use.
RivalActs == TheRivalActs
IndependentActs == TheIndependentActs
SpelledActs == TheSpelledActs
ContendingActs == TheContendingActs
OneSink == TheOneSink
TwinSinks == TheTwinSinks
StrictSink == TheStrictSink

ThreadSymmetry == Permutations(Callers) \cup Permutations(Authorizers)
=============================================================================
