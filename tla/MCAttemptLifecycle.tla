------------------------- MODULE MCAttemptLifecycle -------------------------
(***************************************************************************)
(* Small instances of AttemptLifecycle for TLC.                            *)
(***************************************************************************)
EXTENDS AttemptLifecycle, TLC

CONSTANTS a1, a2, x1, s1, s2, h1, h2, c1, c2, f1     \* model values

\* All attempts belong to one exam.
MCExamOf == [a \in Attempts |-> x1]

Symmetry ==
  Permutations(Attempts) \cup Permutations(Saves) \cup Permutations(Cycles)

\* A second save, a background flush, a timer and a mishap each multiply the
\* interleavings of a submission: the second save does not come with a timer,
\* nor with both of the others.
SecondSaveCalm ==
  \/ Cardinality({s \in Saves : saver[s].at # "new"}) < 2
  \/ /\ \A a \in Attempts : timer[a] = "off"
     /\ faults = 0 \/ \A f \in Flushers : pc[f] = "idle"
=============================================================================
