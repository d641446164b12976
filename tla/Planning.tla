------------------------------ MODULE Planning ------------------------------
(***************************************************************************)
(* Loops 1, 2 and 8 around the engine: the planner turns a request into a  *)
(* graph, run_workflow checks it against its budgets, and the learning     *)
(* loop mines what became of the tasks into the retry budgets of the next  *)
(* plans.                                                                  *)
(***************************************************************************)
EXTENDS Naturals, Sequences, SequencesExt, FiniteSetsExt

CONSTANTS
  Proposals,     \* what a language model may answer, as sequences of nodes
  MaxTasks, MaxAgents, MaxDepth, MaxIterations,  \* BudgetLimits
  History,       \* failed and total tasks that a type may have on record
  Watched        \* the task types whose record changes in an instance

ASSUME PlanAssumption ==
  /\ \A nodes \in Proposals :
       nodes \in Seq(Range(nodes)) /\ \A n \in Range(nodes) : n.deps \in Seq(Range(n.deps))
  /\ {MaxTasks, MaxAgents, MaxDepth, MaxIterations} \subseteq Nat
  /\ [failed |-> 0, total |-> 0] \in History

VARIABLES
  stage,    \* of run_agent_workflow
  proposed, \* the nodes before _cap_nodes
  plan,     \* the nodes of the graph
  history,  \* the tasks table, per task type
  policy    \* max_attempts of the policy file, for the types it names

planVars == <<stage, proposed, plan, history, policy>>

TaskTypes == {"research", "analyze", "report", "notify", "price", "vendor", "contract",
              "spec", "analysis", "verification"}

DefaultMaxAttempts ==
  [t \in TaskTypes |-> IF t \in {"notify", "vendor", "analysis", "verification"} THEN 2 ELSE 3]

Node(id, type, deps) == [id |-> id, type |-> type, deps |-> deps]

ProcurementDag ==
  << Node("price-1", "price", <<>>), Node("vendor-1", "vendor", <<>>),
     Node("contract-1", "contract", <<>>), Node("spec-1", "spec", <<>>),
     Node("analysis-1", "analysis", <<"price-1", "vendor-1", "contract-1", "spec-1">>),
     Node("verification-1", "verification", <<"analysis-1">>) >>

(* _template: procurement, comparison, notification, and anything else     *)
Templates ==
  LET research == Node("research-1", "research", <<>>)
      analyze(id) == Node(id, "analyze", <<"research-1">>)
      report(deps) == Node("report-1", "report", deps)
  IN  { ProcurementDag,
        <<research, analyze("analyze-1"), analyze("analyze-2"),
          report(<<"analyze-1", "analyze-2">>)>>,
        <<research, report(<<"research-1">>), Node("notify-1", "notify", <<"report-1">>)>>,
        <<research, analyze("analyze-1"), report(<<"analyze-1">>)>> }

Ids(nodes)    == {nodes[i].id : i \in DOMAIN nodes}
ById(nodes)   == [id \in Ids(nodes) |-> nodes[CHOOSE i \in DOMAIN nodes : nodes[i].id = id]]
TypesOf(nodes) == {nodes[i].type : i \in DOMAIN nodes}

(* _validate_nodes; whether there is a cycle is not asked                  *)
ValidNodes(nodes) ==
  /\ nodes # <<>>
  /\ TypesOf(nodes) \subseteq TaskTypes
  /\ Cardinality(Ids(nodes)) = Len(nodes)
  /\ \A i \in DOMAIN nodes : Range(nodes[i].deps) \subseteq Ids(nodes)

(* What keep of _cap_nodes fills: the kept nodes and kept_ids, which has a *)
(* node from the beginning of its call.                                    *)
Keeping(nodes) == [kept : Seq(Ids(nodes)), ids : SUBSET Ids(nodes)]

(* keep of the nodes in a list, one after the other                        *)
KeepAll(keep, acc, ids) ==
  LET next(a, id) == keep[id][a] IN FoldLeft(next, acc, ids)

(* Fault: a node is kept before what it depends on.                        *)
KeepBy_NodeFirst(nodes, deeper) ==
  [id \in Ids(nodes) |-> [acc \in Keeping(nodes) |->
     IF id \in acc.ids THEN acc
     ELSE KeepAll(deeper, [kept |-> Append(acc.kept, id), ids |-> acc.ids \cup {id}],
                  ById(nodes)[id].deps)]]

(* keep: a node after what it depends on, unless it is kept or being kept; *)
(* deeper is what keep does for those                                      *)
KeepBy(nodes, deeper) ==
  [id \in Ids(nodes) |-> [acc \in Keeping(nodes) |->
     IF id \in acc.ids THEN acc
     ELSE [KeepAll(deeper, [acc EXCEPT !.ids = @ \cup {id}], ById(nodes)[id].deps)
             EXCEPT !.kept = Append(@, id)]]]

(* Each call inside another has one id more, so there are no more of them  *)
(* than nodes.                                                             *)
Keep(nodes) ==
  LET keep[calls \in 0..Len(nodes)] ==
        IF calls = 0 THEN [id \in Ids(nodes) |-> [acc \in Keeping(nodes) |-> acc]]
        ELSE KeepBy(nodes, keep[calls - 1])
  IN  keep[Len(nodes)]

(* The loop over the nodes, until enough are kept                          *)
KeepUpTo(keep, nodes) ==
  LET next(acc, n) == IF Len(acc.kept) >= MaxTasks THEN acc ELSE keep[n.id][acc]
  IN  FoldLeft(next, [kept |-> <<>>, ids |-> {}], nodes)

(* _cap_nodes                                                              *)
CapNodes(nodes) ==
  LET kept == KeepUpTo(Keep(nodes), nodes).kept
  IN  IF Len(nodes) <= MaxTasks THEN nodes
      ELSE [i \in 1..Min({MaxTasks, Len(kept)}) |-> ById(nodes)[kept[i]]]

AttemptsOf(type) ==
  IF type \in DOMAIN policy THEN policy[type] ELSE DefaultMaxAttempts[type]

-----------------------------------------------------------------------------
Children(nodes, id) == {n \in Ids(nodes) : id \in Range(ById(nodes)[n].deps)}
RootsOf(nodes) == {id \in Ids(nodes) : ById(nodes)[id].deps = <<>>}

(* What a call of _compute_depth ends with                                 *)
Found(nodes) == [depth : Nat, visited : SUBSET Ids(nodes)]

(* A call for a child: what it may end with, from what the caller may have *)
(* found before it; and the calls for some children in an order            *)
AfterChild(depth, founds, c) ==
  UNION {{[below EXCEPT !.depth = Max({@, f.depth})] : below \in depth[c][f.visited]} :
           f \in founds}

DepthAll(depth, founds, order) ==
  LET next(sofar, c) == AfterChild(depth, sofar, c) IN FoldLeft(next, founds, order)

(* _compute_depth: the visited set is shared by all branches, so a task    *)
(* that another branch has reached counts nothing.  The children are a     *)
(* Python set: these are the results of every order, deeper those of the   *)
(* calls for the children.                                                 *)
DepthBy(nodes, deeper) ==
  [id \in Ids(nodes) |-> [visited \in SUBSET Ids(nodes) |->
     IF id \in visited THEN {[depth |-> 0, visited |-> visited]}
     ELSE {[f EXCEPT !.depth = @ + 1] :
             f \in UNION {DepthAll(deeper, {[depth |-> 0, visited |-> visited \cup {id}]}, order) :
                            order \in SetToSeqs(Children(nodes, id))}}]]

(* Each call inside another has visited one task more.                     *)
ComputeDepth(nodes) ==
  LET depth[calls \in 0..Len(nodes)] ==
        IF calls = 0
        THEN [id \in Ids(nodes) |-> [visited \in SUBSET Ids(nodes) |->
                {[depth |-> 0, visited |-> visited]}]]
        ELSE DepthBy(nodes, depth[calls - 1])
  IN  depth[Len(nodes)]

Depths(nodes, root) == {f.depth : f \in ComputeDepth(nodes)[root][{}]}

(* validate counts the tasks, though its limit is one of agents; then      *)
(* validate_graph_budget                                                   *)
Admitted(nodes) ==
  /\ Len(nodes) <= MaxAgents /\ Len(nodes) <= MaxTasks
  /\ \A t \in TypesOf(nodes) : AttemptsOf(t) <= MaxIterations

(* policy_suggestions: a type without failures is passed over, one that    *)
(* fails half the time gets 4 attempts, one that hardly fails 2            *)
Suggestions(table) ==
  LET rate(t, percent) == 100 * table[t].failed >= percent * table[t].total
      failing == {t \in TaskTypes : table[t].failed > 0 /\ rate(t, 50)}
      healthy == {t \in TaskTypes : table[t].failed > 0 /\ 100 * table[t].failed
                                                            <= 5 * table[t].total}
  IN  [t \in failing \cup healthy |-> IF t \in failing THEN 4 ELSE 2]

-----------------------------------------------------------------------------
PlanTypeOK ==
  /\ stage \in {"idle", "planned", "running", "refused"}
  /\ Ids(plan) \subseteq Ids(proposed) /\ TypesOf(plan) \subseteq TaskTypes
  /\ history \in [TaskTypes -> History]
  /\ DOMAIN policy \subseteq TaskTypes /\ Range(policy) \subseteq {2, 4}

PlanInit ==
  /\ stage = "idle" /\ proposed = <<>> /\ plan = <<>>
  /\ history = [t \in TaskTypes |-> [failed |-> 0, total |-> 0]]
  /\ policy = <<>>

(* plan: the model's nodes when they are valid, else a template            *)
Plan ==
  /\ stage = "idle"
  /\ proposed' \in {n \in Proposals : ValidNodes(n)} \cup Templates
  /\ plan' = CapNodes(proposed')
  /\ stage' = "planned"
  /\ UNCHANGED <<history, policy>>

(* the budgets, then the depth that build_dag finds                        *)
Submit ==
  /\ stage = "planned"
  /\ \/ /\ stage' = "running"
        /\ Admitted(plan)
        /\ \A r \in RootsOf(plan) : \E d \in Depths(plan, r) : d <= MaxDepth
     \/ /\ stage' = "refused"
        /\ Admitted(plan) => \E r \in RootsOf(plan) : \E d \in Depths(plan, r) : d > MaxDepth
  /\ UNCHANGED <<proposed, plan, history, policy>>

(* The tasks have ended, and so may have others of their types.  The       *)
(* policy is mined and written; an error doing so is swallowed.            *)
Learn ==
  /\ stage = "running"
  /\ \E outcome \in [TypesOf(plan) \cap Watched -> History] :
       history' = [t \in TaskTypes |-> IF t \in DOMAIN outcome THEN outcome[t] ELSE history[t]]
  /\ policy' \in {policy, Suggestions(history')}
  /\ stage' = "idle" /\ proposed' = <<>> /\ plan' = <<>>

(* BudgetExceededError leaves run_agent_workflow                           *)
GiveUp ==
  /\ stage = "refused"
  /\ stage' = "idle" /\ proposed' = <<>> /\ plan' = <<>>
  /\ UNCHANGED <<history, policy>>

PlanNext == Plan \/ Submit \/ Learn \/ GiveUp

PlanSpec == PlanInit /\ [][PlanNext]_planVars

-----------------------------------------------------------------------------
(* Among any tasks there is one that needs none of the others.             *)
Acyclic(nodes) ==
  \A some \in (SUBSET Ids(nodes)) \ {{}} :
    \E id \in some : Range(ById(nodes)[id].deps) \cap some = {}

(* A path of more than MaxDepth tasks from a root                          *)
TooDeep(nodes) ==
  \E path \in [0..MaxDepth -> Ids(nodes)] :
    /\ path[0] \in RootsOf(nodes)
    /\ \A i \in 1..MaxDepth : path[i] \in Children(nodes, path[i - 1])

(* planner.py:135, budgets.py:62: unless the model proposes a cycle, a     *)
(* plan is within the cap and needs no task that was cut off, whatever the *)
(* order of its nodes; and it is refused only for its size or a path that  *)
(* is too long, never for what the learning loop has learned.              *)
PlanIsRunnable ==
  Acyclic(proposed) =>
    /\ Len(plan) <= MaxTasks
    /\ \A i \in DOMAIN plan : Range(plan[i].deps) \subseteq Ids(plan)
    /\ stage = "refused" => Len(plan) > MaxAgents \/ TooDeep(plan)
=============================================================================
