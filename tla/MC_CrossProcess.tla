--------------------------- MODULE MC_CrossProcess ---------------------------
(* Instances of CrossProcess for TLC.                                      *)
EXTENDS CrossHistory, TLC

CONSTANTS research, report, w1, w2

(* A root that submit publishes and a task that only the advancer does.    *)
PairDeps == (research :> {}) @@ (report :> {research})

WorkerSymmetry == Permutations(Worker)
=============================================================================
