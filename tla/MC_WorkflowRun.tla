--------------------------- MODULE MC_WorkflowRun ---------------------------
(* Instances of WorkflowRun for TLC.                                       *)
EXTENDS WorkflowRun, TLC

CONSTANTS research, analyze1, analyze2, report, w1, w2

(* The graph of cmd_ready: one source, two branches, one join.             *)
DiamondDeps ==
  (research :> {}) @@ (analyze1 :> {research}) @@ (analyze2 :> {research})
    @@ (report :> {analyze1, analyze2})

(* Two independent sources joined, as price and vendor before analysis.    *)
JoinDeps == (analyze1 :> {}) @@ (analyze2 :> {}) @@ (report :> {analyze1, analyze2})
=============================================================================
