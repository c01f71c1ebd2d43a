--------------------------- MODULE MCGradingQueue ---------------------------
(***************************************************************************)
(* Small instances of GradingQueue for TLC.                                *)
(***************************************************************************)
EXTENDS GradingQueue, TLC

CONSTANTS j1, j2, w1, w2, s1, s2     \* model values

\* Workers, and the slots of one worker, are interchangeable; used in runs
\* that check safety only.
Symmetry == Permutations(Workers) \cup Permutations(Slots)

\* A worker as it is when it has just started.
Fresh(w) ==
  /\ up[w] /\ turn[w] = "high" /\ inbox[w] = {} /\ claimed[w] = {} /\ rpc[w] = "poll"
  /\ FreeSlots(w) = Slots

\* Bound: two jobs in the slots of one worker, or one job, no preview, that
\* several workers each have at most once.
JobsOrWorkers ==
  \/ \E w \in Workers : Fresh(w)
  \/ /\ \A j \in Previews : api[j] = "new"
     /\ \A w \in Workers : Cardinality(FreeSlots(w)) + 1 >= Cardinality(Slots)
=============================================================================
