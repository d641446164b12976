------------------------- MODULE WorkflowRun_records -------------------------
(***************************************************************************)
(* What the tables and the DAG of a run say about each other, for every    *)
(* graph with one source, every set of workers and every bound on          *)
(* attempts.  RunInv is inductive together with TokenInv as long as the    *)
(* store does not raise; the refinement of DagRun rests on it.  Both are   *)
(* needed: a second root is published outside the lock and may run twice   *)
(* (the run workflow_two_roots), and a store call that raises inside a     *)
(* callback leaves the tables apart (RaiseInOnDone, RaiseInOnFail).  What  *)
(* task_results says outlasts that: DependenciesComeFirst puts no bound on *)
(* the calls that raise.  The last part is about chains, where ChainInv is *)
(* inductive and all three tables keep the order.                          *)
(***************************************************************************)
EXTENDS WorkflowRun_proofs

-----------------------------------------------------------------------------
(* Tokens, callbacks and entries.                                          *)

(* Whoever carries a task holds its token and is in no callback.           *)
LEMMA CarriesHolds ==
  ASSUME NEW w \in Worker, NEW t, Carries(w, t)
  PROVE  Holds(w, t) /\ ~ Cascading(w) /\ pc[w] # "advance"
BY DEF Carries, Holds, ClaimHeld, Cascading, FailsBelow, Failing

(* With one source, whoever has the token of a task is alone with it.      *)
LEMMA CarrierAlone ==
  ASSUME SingleSource, TokenInv, NEW w \in Worker, NEW t \in Task, Carries(w, t)
  PROVE  /\ \A v \in Worker : Carries(v, t) => v = w
         /\ \A m \in Msg : m.task = t => ~ (queue[m] > 0)
         /\ t \in dispatched
<1>1. Holds(w, t) /\ PublishedOnce(t)
  BY CarriesHolds DEF SingleSource
<1>2. \A v \in Worker : Carries(v, t) => v = w
  BY <1>1, CarriesHolds DEF TokenInv, OneHolder
<1> QED BY <1>1, <1>2 DEF TokenInv, MessageOrHolder, OnlyDispatched, Holds

(* Once a worker is busy the roots are published.                          *)
LEMMA RootsAreOut ==
  ASSUME SingleSource, RunTypeOK, TokenInv,
         \/ \E w \in Worker : pc[w] # "idle"
         \/ \E m \in Msg : queue[m] > 0
  PROVE  roots = {} /\ main # "publish"
<1>1. ASSUME NEW r \in Roots PROVE Roots = {r}
  BY GraphSets DEF SingleSource, PublishedOnce
<1>2. \A r \in Roots : r \notin roots /\ ~ (main = "publish" /\ cur = r)
  BY <1>1 DEF RunTypeOK, TypeOK, TokenInv, SoloStart
<1> QED BY <1>2 DEF TokenInv, RootsLeft

(* on_fail fails only tasks that were never dispatched: what was has its   *)
(* dependencies completed, so no failed task lies above it.                *)
LEMMA NothingBelowStarted ==
  ASSUME RunTypeOK, DagInv, NEW c \in Task, dag[c] = "failed"
  PROVE  \A x \in Descendants(c) : x \in Task /\ x \notin dispatched
<1> DEFINE S == Task \ dispatched
<1>1. ClosedFrom(c, S)
  <2> SUFFICES ASSUME NEW x \in Task, x \in dispatched, NEW y \in S \cup {c}, y \in Deps[x]
               PROVE  FALSE
    BY DEF ClosedFrom, Dependents
  <2>1. dag[y] = "completed"
    BY DEF DagInv
  <2> QED BY <2>1 DEF DagInv
<1> QED BY <1>1 DEF Descendants

(* A worker that is in no callback disturbs none.                          *)
LEMMA KeepCallbacks ==
  ASSUME CallbackInv, UNCHANGED runVars, NEW w \in Worker,
         \A v \in Worker \ {w} : pc'[v] = pc[v] /\ job'[v] = job[v] /\ target'[v] = target[v],
         \A v \in Worker \ {w} : FailsBelow(v) => Entry(target[v])' = Entry(target[v]),
         pc'[w] # "advance", ~ Cascading(w)'
  PROVE  CallbackInv'
<1> SUFFICES ASSUME NEW v \in Worker, v # w
             PROVE  (/\ pc[v] = "advance" \/ Cascading(v) => lock = v
                     /\ pc[v] = "advance" => todo[v] \subseteq ReadyTasks(dag)
                     /\ Cascading(v) => /\ dag[Doing(v)] = "failed"
                                        /\ todo[v] \subseteq Descendants(Doing(v))
                     /\ FailsBelow(v) => /\ dag[target[v]] = "failed"
                                         /\ target[v] \notin dispatched
                                         /\ Entry(target[v]) = ExpectedBelow(pc[v]))'
  BY DEF CallbackInv, Cascading
<1>1. /\ pc'[v] = pc[v] /\ target'[v] = target[v] /\ Doing(v)' = Doing(v)
      /\ FailsBelow(v)' = FailsBelow(v) /\ Cascading(v)' = Cascading(v)
  BY DEF Doing, FailsBelow, Cascading
<1>2. FailsBelow(v) => Entry(target[v])' = Entry(target[v])
  OBVIOUS
<1>3. FailsBelow(v) => Entry(target[v])' = ExpectedBelow(pc[v])
  BY <1>2 DEF CallbackInv
<1>4. UNCHANGED <<dag, lock, todo, dispatched>>
  BY DEF runVars
<1> QED BY <1>1, <1>3, <1>4 DEF CallbackInv, ReadyTasks

-----------------------------------------------------------------------------
(* Steps of a worker, by what they do to entries and tokens.               *)

(* The step takes w to the label and leaves the other workers alone.       *)
Moves(w, label) == pc'[w] = label /\ \A v \in Worker \ {w} : pc'[v] = pc[v]

(* The step leaves this entry for t and touches no other.                  *)
Leaves(t, e) == Entry(t)' = e /\ \A x \in Task \ {t} : Entry(x)' = Entry(x)

(* GoTo moves one worker.                                                  *)
LEMMA GoesTo ==
  ASSUME TypeOK, NEW w \in Worker, NEW label, GoTo(w, label)
  PROVE  Moves(w, label)
BY DEF TypeOK, GoTo, Moves

(* A step that leaves the tables alone leaves every entry alone.           *)
LEMMA NoWrite ==
  ASSUME NEW t, UNCHANGED storeVars
  PROVE  Leaves(t, Entry(t))
BY DEF Leaves, Entry, storeVars

(* One statement of the store changes one part of one entry.               *)
LEMMA StateWrite ==
  ASSUME TypeOK, NEW t \in Task, NEW s, SetState(t, s), UNCHANGED <<status, results>>
  PROVE  Leaves(t, <<s, status[t], results[t]>>)
BY DEF TypeOK, Leaves, Entry, SetState

(* The same for the task row ...                                           *)
LEMMA RowWrite ==
  ASSUME TypeOK, NEW t \in Task, NEW s, SetRow(t, s), UNCHANGED <<es, results>>
  PROVE  Leaves(t, <<es[t], s, results[t]>>)
BY DEF TypeOK, Leaves, Entry, SetRow

(* ... and for the results.                                                *)
LEMMA ResultWrite ==
  ASSUME TypeOK, NEW t \in Task, NEW s, results' = [results EXCEPT ![t] = @ \cup {s}],
         UNCHANGED <<es, status>>
  PROVE  Leaves(t, <<es[t], status[t], results[t] \cup {s}>>)
BY DEF TypeOK, Leaves, Entry

(* A label that expects an entry is one whose worker carries a task.       *)
LEMMA ExpectingLabels ==
  ASSUME NEW label, NEW e \in Expected(label)
  PROVE  label \in ClaimHeld \cup Failing \cup {"check", "refused", "claim", "onDone", "onFail"}
BY DEF Expected, ClaimHeld, Failing

(* The worker with the token of t writes down how far it is: nobody else   *)
(* looks at these entries.                                                 *)
LEMMA OwnStep ==
  ASSUME SingleSource, RunTypeOK, TokenInv, RunInv,
         NEW w \in Worker, NEW t \in Task, Carries(w, t),
         NEW label, NEW e, Moves(w, label), Leaves(t, e), e \in Expected(label),
         UNCHANGED <<queue, job>>, UNCHANGED runVars, dlq \subseteq dlq',
         \A v \in Worker \ {w} : target'[v] = target[v],
         label \in Failing => target'[w] = t,
         label \in Failing \cup {"deadAck", "onFail"} => dlq' # {}
  PROVE  RunInv'
<1>a. /\ \A v \in Worker \ {w} : pc'[v] = pc[v] /\ target'[v] = target[v]
      /\ \A x \in Task \ {t} : Entry(x)' = Entry(x)
      /\ Entry(t)' \in Expected(pc'[w])
      /\ pc'[w] \in Failing \cup {"deadAck", "onFail"} => dlq' # {}
  BY DEF Moves, Leaves
<1>b. Carries(w, t)'
  <2>1. pc'[w] \in ClaimHeld \cup Failing \cup {"check", "refused", "claim", "onDone", "onFail"}
    BY ExpectingLabels DEF Moves
  <2> QED BY <2>1 DEF Moves, Carries, Doing, Failing
<1> USE <1>a, <1>b
<1>0. /\ pc[w] # "idle" /\ dag[t] = "pending" /\ t \in dispatched
      /\ ~ Cascading(w) /\ ~ Cascading(w)' /\ pc'[w] # "advance"
      /\ \A v \in Worker : Carries(v, t) => v = w
      /\ \A m \in Msg : m.task = t => ~ (queue[m] > 0)
      /\ Carries(w, t) => Holds(w, t)
  BY CarriesHolds, CarrierAlone DEF RunInv, CarriersTell, Carries, ClaimHeld, Cascading,
     FailsBelow, Failing
<1>1. ASSUME NEW v \in Worker, v # w
      PROVE  /\ \A x \in Task : Carries(v, x)' <=> Carries(v, x)
             /\ FailsBelow(v)' <=> FailsBelow(v)
             /\ Cascading(v)' <=> Cascading(v)
  BY <1>1 DEF Carries, FailsBelow, Cascading, Doing
<1>2. \A x \in Task : Carries(w, x)' => x = t
  BY DEF Carries, Doing
<1>3. CarriersTell'
  BY <1>0, <1>1, <1>2 DEF RunInv, CarriersTell, runVars
<1>4. MessagesTell'
  BY <1>0, MsgParts DEF RunInv, MessagesTell, runVars
<1>5. FirstPublish'
  BY <1>0, RootsAreOut DEF RunInv, FirstPublish, runVars
<1>6. ASSUME NEW v \in Worker, FailsBelow(v)
      PROVE  v # w /\ target[v] \in Task \ {t} /\ Entry(target[v])' = Entry(target[v])
  <2>1. v # w /\ target[v] \in Task \ {t}
    BY <1>0, <1>6 DEF RunInv, CallbackInv, RunTypeOK, TypeOK, FailsBelow, Failing, Cascading
  <2> QED BY <2>1
<1>7. CallbackInv'
  BY <1>0, <1>6, KeepCallbacks DEF RunInv
<1>8. DagInv'
  <2>1. \A x \in Task \ dispatched : Entry(x)' = Entry(x)
    BY <1>0
  <2>2. ASSUME NEW x \in Task, dag[x] # "pending", ~ (Entry(x) = Settled(dag[x]))
        PROVE  \E v \in Worker : FailsBelow(v)' /\ target'[v] = x
    <3>1. PICK v \in Worker : FailsBelow(v) /\ target[v] = x
      BY <2>2 DEF RunInv, DagInv
    <3> QED BY <1>1, <1>6, <3>1
  <2>3. \A x \in Task : dag[x] # "pending" => Entry(x)' = Entry(x)
    BY <1>0
  <2>4. UNCHANGED <<dag, dispatched>>
    BY DEF runVars
  <2> QED BY <2>1, <2>2, <2>3, <2>4 DEF RunInv, DagInv
<1>9. CauseInv'
  <2>1. dlq # {} => dlq' # {}
    OBVIOUS
  <2>2. pc'[w] # "cascade"
    BY <1>0 DEF Cascading
  <2> QED BY <2>1, <2>2 DEF RunInv, CauseInv, runVars
<1>10. NoTaskLost'
  <2> SUFFICES ASSUME NEW x \in Task, x \in dispatched, dag[x] = "pending"
               PROVE  (Waiting(x) \/ (\E v \in Worker : Carries(v, x)) \/ cur = x)'
    BY DEF NoTaskLost, runVars
  <2>1. Waiting(x) \/ (\E v \in Worker : Carries(v, x)) \/ cur = x
    BY DEF RunInv, NoTaskLost
  <2>2. Waiting(x) => Waiting(x)'
    BY DEF Waiting
  <2>3. (\E v \in Worker : Carries(v, x)) => (\E v \in Worker : Carries(v, x)')
    BY <1>0, <1>1 DEF Carries, Doing
  <2> QED BY <2>1, <2>2, <2>3 DEF runVars
<1> QED BY <1>3, <1>4, <1>5, <1>7, <1>8, <1>9, <1>10 DEF RunInv

(* Under on_fail's lock a worker fails a task below its own: its entry is  *)
(* nobody else's business either.                                          *)
LEMMA BelowStep ==
  ASSUME SingleSource, RunTypeOK, TokenInv, RunInv,
         NEW w \in Worker, FailsBelow(w),
         NEW label, NEW e, Moves(w, label), Leaves(target[w], e),
         \/ label \in Failing /\ e = ExpectedBelow(label)
         \/ label = "cascade" /\ e = Settled("failed"),
         UNCHANGED <<queue, dlq, job, target>>, UNCHANGED runVars
  PROVE  RunInv'
<1>a. /\ \A v \in Worker \ {w} : pc'[v] = pc[v]
      /\ \A x \in Task \ {target[w]} : Entry(x)' = Entry(x)
      /\ \/ pc'[w] \in Failing /\ Entry(target[w])' = ExpectedBelow(pc'[w])
         \/ pc'[w] = "cascade" /\ Entry(target[w])' = Settled("failed")
  BY DEF Moves, Leaves
<1> USE <1>a
<1>0. /\ target[w] \in Task /\ dag[target[w]] = "failed" /\ target[w] \notin dispatched
      /\ lock = w /\ pc[w] # "idle" /\ dlq # {}
      /\ Cascading(w) /\ dag[Doing(w)] = "failed" /\ todo[w] \subseteq Descendants(Doing(w))
  BY DEF RunInv, CallbackInv, CauseInv, RunTypeOK, TypeOK, FailsBelow, Failing, Cascading
<1>1. ASSUME NEW v \in Worker, v # w
      PROVE  /\ \A x \in Task : Carries(v, x)' <=> Carries(v, x)
             /\ FailsBelow(v)' <=> FailsBelow(v)
             /\ Cascading(v)' <=> Cascading(v)
             /\ ~ Cascading(v)
             /\ pc[v] # "advance"
  BY <1>0, <1>1 DEF RunInv, CallbackInv, Carries, FailsBelow, Cascading, Doing
<1>2. \A x \in Task : ~ Carries(w, x) /\ ~ Carries(w, x)'
  BY DEF FailsBelow, Carries, Failing, ClaimHeld, Doing
<1>3. Cascading(w)' /\ pc'[w] # "advance" /\ (FailsBelow(w)' <=> pc'[w] \in Failing)
  BY DEF Cascading, FailsBelow, Failing, Doing
<1>4. CarriersTell'
  BY <1>0, <1>1, <1>2 DEF RunInv, CarriersTell, runVars
<1>5. MessagesTell'
  BY <1>0, MsgParts DEF RunInv, MessagesTell, runVars
<1>6. FirstPublish'
  BY <1>0, RootsAreOut DEF RunInv, FirstPublish, runVars
<1>7. CallbackInv'
  <2>1. ASSUME NEW v \in Worker, v # w
        PROVE  ~ Cascading(v)' /\ pc'[v] # "advance" /\ ~ FailsBelow(v)'
    BY <1>1, <2>1 DEF Cascading
  <2>2. /\ UNCHANGED <<dag, lock, todo, dispatched, target>> /\ Doing(w)' = Doing(w)
        /\ pc'[w] \in Failing => Entry(target[w])' = ExpectedBelow(pc'[w])
    BY DEF runVars, Doing, Failing
  <2> QED BY <1>0, <1>3, <2>1, <2>2 DEF CallbackInv
<1>8. DagInv'
  <2>1. \A x \in Task \ {target[w]} : Entry(x)' = Entry(x)
    OBVIOUS
  <2>2. \A x \in Task \ {target[w]} : dag[x] # "pending" => Entry(x) = Settled(dag[x])
    BY <1>1 DEF RunInv, DagInv, Cascading
  <2>3. Entry(target[w])' = Settled("failed") \/ (FailsBelow(w)' /\ target'[w] = target[w])
    BY <1>3
  <2>4. UNCHANGED <<dag, dispatched>>
    BY DEF runVars
  <2> QED BY <1>0, <2>1, <2>2, <2>3, <2>4 DEF RunInv, DagInv
<1>9. CauseInv'
  BY <1>0 DEF RunInv, CauseInv, runVars
<1>10. NoTaskLost'
  BY <1>1, <1>2 DEF RunInv, NoTaskLost, Waiting, runVars
<1> QED BY <1>4, <1>5, <1>6, <1>7, <1>8, <1>9, <1>10 DEF RunInv

(* A worker puts the message of its task back on the bus.                  *)
LEMMA GiveBackStep ==
  ASSUME SingleSource, RunTypeOK, TokenInv, RunInv,
         NEW w \in Worker, NEW n \in Msg, Carries(w, n.task), Enqueue(n),
         pc[w] \in {"refused", "requeue"}, pc'[w] \in {"idle", "retryAck"},
         \A v \in Worker \ {w} : pc'[v] = pc[v] /\ job'[v] = job[v] /\ target'[v] = target[v],
         UNCHANGED <<storeVars, dlq, runVars>>
  PROVE  RunInv'
<1> DEFINE t == n.task
<1>0. /\ t \in Task /\ dag[t] = "pending" /\ Entry(t) \in Waitable /\ pc[w] # "idle"
      /\ queue \in [Msg -> Nat] /\ queue'[n] = queue[n] + 1
      /\ \A m \in Msg \ {n} : queue'[m] = queue[m]
      /\ \A x : Entry(x)' = Entry(x)
  <2>1. t \in Task
    BY MsgParts
  <2>2. dag[t] = "pending" /\ Entry(t) \in Expected(pc[w])
    BY <2>1 DEF RunInv, CarriersTell
  <2>3. Entry(t) \in Waitable
    BY <2>2 DEF Expected, Waitable
  <2> QED BY <2>1, <2>2, <2>3 DEF RunTypeOK, TypeOK, Enqueue, Entry, storeVars
<1>1. ASSUME NEW v \in Worker, v # w
      PROVE  /\ \A x \in Task : Carries(v, x)' <=> Carries(v, x)
             /\ FailsBelow(v)' <=> FailsBelow(v)
             /\ Cascading(v)' <=> Cascading(v)
             /\ Doing(v)' = Doing(v)
  BY <1>1 DEF Carries, FailsBelow, Cascading, Doing
<1>2. /\ \A x \in Task : ~ Carries(w, x)' /\ (Carries(w, x) => x = t)
      /\ ~ Cascading(w) /\ ~ Cascading(w)' /\ pc'[w] # "advance"
  BY DEF FailsBelow, Carries, Failing, ClaimHeld, Doing, Cascading
<1>3. CarriersTell'
  BY <1>0, <1>1, <1>2 DEF RunInv, CarriersTell, runVars
<1>4. MessagesTell'
  BY <1>0, MsgParts DEF RunInv, MessagesTell, runVars
<1>5. FirstPublish'
  BY <1>0, RootsAreOut DEF RunInv, FirstPublish, runVars
<1>6. CallbackInv'
  BY <1>0, <1>2, KeepCallbacks DEF RunInv
<1>7. DagInv'
  <2>1. ASSUME NEW x \in Task, dag[x] # "pending", ~ (Entry(x) = Settled(dag[x]))
        PROVE  \E v \in Worker : FailsBelow(v)' /\ target'[v] = x
    <3>1. PICK v \in Worker : FailsBelow(v) /\ target[v] = x
      BY <2>1 DEF RunInv, DagInv
    <3> QED BY <1>1, <1>2, <3>1 DEF Cascading
  <2>2. UNCHANGED <<dag, dispatched>>
    BY DEF runVars
  <2> QED BY <1>0, <2>1, <2>2 DEF RunInv, DagInv
<1>8. CauseInv'
  BY DEF RunInv, CauseInv, runVars, Failing
<1>9. NoTaskLost'
  <2> SUFFICES ASSUME NEW x \in Task, x \in dispatched, dag[x] = "pending"
               PROVE  (Waiting(x) \/ (\E v \in Worker : Carries(v, x)) \/ cur = x)'
    BY DEF NoTaskLost, runVars
  <2>1. Waiting(x) \/ (\E v \in Worker : Carries(v, x)) \/ cur = x
    BY DEF RunInv, NoTaskLost
  <2>2. ASSUME NEW a \in 1..MaxAttempts, queue[[task |-> x, attempt |-> a]] > 0 PROVE Waiting(x)'
    <3>1. [task |-> x, attempt |-> a] \in Msg
      BY DEF Msg
    <3> QED BY <1>0, <2>2, <3>1 DEF Waiting
  <2>3. x = t => Waiting(x)'
    <3>1. n = [task |-> t, attempt |-> n.attempt] /\ n.attempt \in 1..MaxAttempts
      BY DEF Msg
    <3> QED BY <1>0, <3>1 DEF Waiting
  <2>4. ASSUME NEW v \in Worker, Carries(v, x)
        PROVE  Waiting(x)' \/ (\E u \in Worker : Carries(u, x)')
    BY <1>1, <1>2, <2>3, <2>4
  <2> QED BY <2>1, <2>2, <2>4 DEF runVars, Waiting
<1> QED BY <1>3, <1>4, <1>5, <1>6, <1>7, <1>8, <1>9 DEF RunInv

(* A worker takes the only message of its task.                            *)
LEMMA FetchStep ==
  ASSUME SingleSource, RunTypeOK, TokenInv, RunInv,
         NEW w \in Worker, NEW n \in Msg, Fetch(w, n), UNCHANGED runVars
  PROVE  RunInv'
<1> DEFINE t == n.task
<1>0. /\ t \in Task /\ dag[t] = "pending" /\ Entry(t) \in Waitable
      /\ pc[w] = "idle" /\ pc'[w] = "check" /\ job'[w] = n /\ n # NoMsg
      /\ queue \in [Msg -> Nat] /\ queue[n] > 0 /\ \A m \in Msg \ {n} : queue'[m] = queue[m]
      /\ \A m \in Msg : queue'[m] > 0 => queue[m] > 0
      /\ \A x : Entry(x)' = Entry(x)
      /\ \A v \in Worker \ {w} : pc'[v] = pc[v] /\ job'[v] = job[v]
      /\ target' = target /\ dlq' = dlq
  BY MsgParts, WorkerAssumption
     DEF RunInv, MessagesTell, RunTypeOK, TypeOK, Fetch, At, GoTo, Entry, storeVars, Msg
<1>1. ASSUME NEW v \in Worker, v # w
      PROVE  /\ \A x \in Task : Carries(v, x)' <=> Carries(v, x)
             /\ FailsBelow(v)' <=> FailsBelow(v)
             /\ Cascading(v)' <=> Cascading(v)
             /\ Doing(v)' = Doing(v)
  BY <1>0, <1>1 DEF Carries, FailsBelow, Cascading, Doing
<1>2. /\ \A x \in Task : ~ Carries(w, x) /\ (Carries(w, x)' <=> x = t)
      /\ ~ Cascading(w) /\ ~ Cascading(w)'
  BY <1>0 DEF FailsBelow, Carries, Failing, ClaimHeld, Doing, Cascading
<1>3. CarriersTell'
  <2>1. Entry(t) \in Expected(pc'[w])
    BY <1>0 DEF Expected
  <2> QED BY <1>0, <1>1, <1>2, <2>1 DEF RunInv, CarriersTell, runVars
<1>4. MessagesTell'
  BY <1>0, MsgParts DEF RunInv, MessagesTell, runVars
<1>5. FirstPublish'
  BY <1>0, RootsAreOut DEF RunInv, FirstPublish, runVars
<1>6. CallbackInv'
  BY <1>0, <1>2, KeepCallbacks DEF RunInv
<1>7. DagInv'
  <2>1. ASSUME NEW x \in Task, dag[x] # "pending", ~ (Entry(x) = Settled(dag[x]))
        PROVE  \E v \in Worker : FailsBelow(v)' /\ target'[v] = x
    <3>1. PICK v \in Worker : FailsBelow(v) /\ target[v] = x
      BY <2>1 DEF RunInv, DagInv
    <3> QED BY <1>0, <1>1, <1>2, <3>1 DEF Cascading
  <2>2. UNCHANGED <<dag, dispatched>>
    BY DEF runVars
  <2> QED BY <1>0, <2>1, <2>2 DEF RunInv, DagInv
<1>8. CauseInv'
  BY <1>0 DEF RunInv, CauseInv, runVars, Failing
<1>9. NoTaskLost'
  <2> SUFFICES ASSUME NEW x \in Task, x \in dispatched, dag[x] = "pending"
               PROVE  (Waiting(x) \/ (\E v \in Worker : Carries(v, x)) \/ cur = x)'
    BY DEF NoTaskLost, runVars
  <2>1. Waiting(x) \/ (\E v \in Worker : Carries(v, x)) \/ cur = x
    BY DEF RunInv, NoTaskLost
  <2>2. ASSUME NEW a \in 1..MaxAttempts, queue[[task |-> x, attempt |-> a]] > 0, x # t
        PROVE  Waiting(x)'
    <3>1. [task |-> x, attempt |-> a] \in Msg \ {n}
      BY <2>2 DEF Msg
    <3> QED BY <1>0, <2>2, <3>1 DEF Waiting
  <2>3. ASSUME NEW v \in Worker, Carries(v, x) PROVE Carries(v, x)'
    BY <1>1, <1>2, <2>3
  <2> QED BY <1>2, <2>1, <2>2, <2>3 DEF runVars, Waiting
<1> QED BY <1>3, <1>4, <1>5, <1>6, <1>7, <1>8, <1>9 DEF RunInv

(* The ack after a requeue concerns no entry and no token.                 *)
LEMMA AckRetriedStep ==
  ASSUME RunInv, RunTypeOK, NEW w \in Worker, AckRetried(w), UNCHANGED runVars
  PROVE  RunInv'
<1>0. /\ pc[w] = "retryAck" /\ pc'[w] = "idle"
      /\ \A v \in Worker \ {w} : pc'[v] = pc[v] /\ job'[v] = job[v] /\ target'[v] = target[v]
      /\ \A x : Entry(x)' = Entry(x)
      /\ dlq' = dlq /\ queue' = queue
  BY DEF RunTypeOK, TypeOK, AckRetried, At, GoTo, Release, Entry, storeVars
<1>1. ASSUME NEW v \in Worker
      PROVE  /\ \A x \in Task : Carries(v, x)' <=> Carries(v, x)
             /\ FailsBelow(v)' <=> FailsBelow(v)
             /\ Cascading(v)' <=> Cascading(v)
             /\ Cascading(v) => Doing(v)' = Doing(v)
             /\ (pc'[v] = pc[v] /\ target'[v] = target[v])
                  \/ (v = w /\ ~ Cascading(v) /\ \A x \in Task : ~ Carries(v, x))
  BY <1>0 DEF Carries, FailsBelow, Cascading, Doing, Failing, ClaimHeld
<1>2. CarriersTell'
  BY <1>0, <1>1 DEF RunInv, CarriersTell, runVars
<1>3. MessagesTell' /\ FirstPublish'
  BY <1>0, MsgParts DEF RunInv, MessagesTell, FirstPublish, runVars
<1>4. CallbackInv'
  BY <1>0, <1>1, KeepCallbacks DEF RunInv, Cascading, FailsBelow, Failing
<1>5. DagInv'
  <2>1. ASSUME NEW x \in Task, dag[x] # "pending", ~ (Entry(x) = Settled(dag[x]))
        PROVE  \E v \in Worker : FailsBelow(v)' /\ target'[v] = x
    BY <1>0, <1>1, <2>1 DEF RunInv, DagInv, Cascading
  <2>2. UNCHANGED <<dag, dispatched>>
    BY DEF runVars
  <2> QED BY <1>0, <2>1, <2>2 DEF RunInv, DagInv
<1>6. CauseInv'
  BY <1>0 DEF RunInv, CauseInv, runVars, Failing
<1>7. NoTaskLost'
  BY <1>0, <1>1 DEF RunInv, NoTaskLost, runVars, Waiting
<1> QED BY <1>2, <1>3, <1>4, <1>5, <1>6, <1>7 DEF RunInv

-----------------------------------------------------------------------------
(* The statements of a worker.                                             *)

(* _process finds the entry its label says and leaves the one its next     *)
(* label says.                                                             *)
LEMMA ProcessRecords ==
  ASSUME SingleSource, RunTypeOK, TokenInv, RunInv, NEW w \in Worker, ProcessStep(w),
         UNCHANGED runVars
  PROVE  RunInv'
<1> DEFINE t == Doing(w)
<1>0. /\ TypeOK /\ job[w] \in Msg /\ job[w] # NoMsg
      /\ pc[w] \in {"check", "refused", "claim", "claimed"}
  BY WorkerAssumption DEF RunTypeOK, TypeOK, ProcessStep, SkipCompleted, Admit, Refuse, PutBack,
     Claim, LoseClaim, MarkRunning, At, Msg
<1>1. t \in Task /\ Carries(w, t) /\ job[w].task = t
  BY <1>0, MsgParts DEF Carries, ClaimHeld, Doing
<1>2. Entry(t) \in Expected(pc[w])
  BY <1>1 DEF RunInv, CarriersTell
<1>3. ASSUME pc[w] \in {"check", "refused", "claim"}
      PROVE  Entry(t) \in Waitable /\ es[t] \in {"created", "retrying"}
  <2>1. Entry(t) \in Waitable
    BY <1>2, <1>3 DEF Expected
  <2> QED BY <2>1 DEF Waitable, Untouched, Entry
<1>4. CASE Admit(w) \/ Refuse(w)
  <2>1. PICK label \in {"claim", "refused"} : Moves(w, label)
    BY <1>0, <1>4, GoesTo DEF Admit, Refuse
  <2>2. Leaves(t, Entry(t))
    BY <1>4, NoWrite DEF Admit, Refuse
  <2>3. Entry(t) \in Expected(label)
    BY <1>3, <1>4 DEF Admit, Refuse, At, Expected
  <2>4. UNCHANGED <<queue, job, dlq, target>>
    BY <1>4 DEF Admit, Refuse, busVars
  <2> QED BY <1>1, <2>1, <2>2, <2>3, <2>4, OwnStep DEF Failing
<1>5. CASE PutBack(w)
  <2>1. /\ Enqueue(job[w]) /\ pc[w] = "refused" /\ pc'[w] = "idle"
        /\ \A v \in Worker \ {w} : pc'[v] = pc[v] /\ job'[v] = job[v] /\ target'[v] = target[v]
        /\ UNCHANGED <<storeVars, dlq>>
    BY <1>0, <1>5 DEF PutBack, At, Release, GoTo, TypeOK
  <2> QED BY <1>0, <1>1, <2>1, GiveBackStep
<1>6. CASE SkipCompleted(w) \/ LoseClaim(w)
  BY <1>3, <1>6 DEF SkipCompleted, LoseClaim, At
<1>7. CASE Claim(w)
  <2>1. Moves(w, "claimed")
    BY <1>0, <1>7, GoesTo DEF Claim
  <2>2. Leaves(t, <<"running", status[t], results[t]>>)
    BY <1>0, <1>1, <1>7, StateWrite DEF Claim
  <2>3. <<"running", status[t], results[t]>> \in Expected("claimed")
    BY <1>3, <1>7 DEF Claim, At, Expected, Waitable, Untouched, Entry
  <2>4. UNCHANGED <<queue, job, dlq, target>>
    BY <1>7 DEF Claim, busVars
  <2> QED BY <1>1, <2>1, <2>2, <2>3, <2>4, OwnStep DEF Failing
<1>8. CASE MarkRunning(w)
  <2>1. Moves(w, "begin") /\ pc[w] = "claimed"
    BY <1>0, <1>8, GoesTo DEF MarkRunning, At
  <2>2. Leaves(t, <<es[t], "running", results[t]>>)
    BY <1>0, <1>1, <1>8, RowWrite DEF MarkRunning
  <2>3. <<es[t], "running", results[t]>> \in Expected("begin")
    BY <1>2, <2>1 DEF Expected, Entry
  <2>4. UNCHANGED <<queue, job, dlq, target>>
    BY <1>8 DEF MarkRunning, busVars
  <2> QED BY <1>1, <2>1, <2>2, <2>3, <2>4, OwnStep DEF Failing
<1> QED BY <1>4, <1>5, <1>6, <1>7, <1>8 DEF ProcessStep

(* So do _execute and the commits of mark_completed ...                    *)
LEMMA ExecuteRecords ==
  ASSUME SingleSource, RunTypeOK, TokenInv, RunInv, NEW w \in Worker,
         ExecuteStep(w) \/ CompleteStep(w), UNCHANGED runVars
  PROVE  RunInv'
<1> DEFINE t == Doing(w)
<1>0. /\ TypeOK /\ job[w] \in Msg /\ job[w] # NoMsg
      /\ pc[w] \in {"begin", "run", "done", "doneRow", "doneResult", "doneAck"}
      /\ UNCHANGED <<queue, job, dlq, target>>
  BY WorkerAssumption DEF RunTypeOK, TypeOK, ExecuteStep, CompleteStep, Begin, HandlerSucceeds,
     VerifierRejects, HandlerRaises, CompleteState, CompleteRow, CompleteResult, AckCompleted,
     At, Msg, busVars
<1>1. t \in Task /\ Carries(w, t)
  BY <1>0, MsgParts DEF Carries, ClaimHeld, Doing
<1>2. Entry(t) \in Expected(pc[w])
  BY <1>1 DEF RunInv, CarriersTell
<1>3. ASSUME NEW label, NEW e, Moves(w, label), Leaves(t, e), e \in Expected(label),
             label \notin Failing \cup {"deadAck", "onFail"}
      PROVE  RunInv'
  BY <1>0, <1>1, <1>3, OwnStep
<1>4. ASSUME NEW retryable \in BOOLEAN, GoTo(w, FailureRoute(w, retryable))
      PROVE  \E label \in {"retry", "dead"} : Moves(w, label)
  <2>1. FailureRoute(w, retryable) \in {"retry", "dead"}
    BY DEF FailureRoute
  <2> QED BY <1>0, <1>4, <2>1, GoesTo
<1>5. CASE Begin(w) \/ HandlerSucceeds(w) \/ VerifierRejects(w)
  <2>1. PICK label \in {"run", "done", "retry", "dead"} : Moves(w, label)
    BY <1>0, <1>4, <1>5, GoesTo DEF Begin, HandlerSucceeds, VerifierRejects
  <2>2. Leaves(t, <<"running", status[t], results[t]>>)
    BY <1>0, <1>1, <1>5, StateWrite DEF Begin, HandlerSucceeds, VerifierRejects
  <2>3. pc[w] \in {"begin", "run"}
    BY <1>5 DEF Begin, HandlerSucceeds, VerifierRejects, At
  <2>4. <<"running", status[t], results[t]>> \in Expected(label)
    BY <1>2, <2>3 DEF Expected, Entry
  <2> QED BY <1>3, <2>1, <2>2, <2>4 DEF Failing
<1>6. CASE HandlerRaises(w)
  <2>1. PICK label \in {"retry", "dead"} : Moves(w, label)
    BY <1>4, <1>6 DEF HandlerRaises
  <2>2. Leaves(t, Entry(t)) /\ pc[w] = "run"
    BY <1>6, NoWrite DEF HandlerRaises, At
  <2>3. Entry(t) \in Expected(label)
    BY <1>2, <2>2 DEF Expected
  <2> QED BY <1>3, <2>1, <2>2, <2>3 DEF Failing
<1>7. CASE CompleteState(w)
  <2>1. Moves(w, "doneRow") /\ pc[w] = "done"
    BY <1>0, <1>7, GoesTo DEF CompleteState, At
  <2>2. Leaves(t, <<"completed", status[t], results[t]>>)
    BY <1>0, <1>1, <1>7, StateWrite DEF CompleteState
  <2>3. <<"completed", status[t], results[t]>> \in Expected("doneRow")
    BY <1>2, <2>1 DEF Expected, Entry
  <2> QED BY <1>3, <2>1, <2>2, <2>3 DEF Failing
<1>8. CASE CompleteRow(w)
  <2>1. Moves(w, "doneResult") /\ pc[w] = "doneRow"
    BY <1>0, <1>8, GoesTo DEF CompleteRow, At
  <2>2. Leaves(t, <<es[t], "completed", results[t]>>)
    BY <1>0, <1>1, <1>8, RowWrite DEF CompleteRow
  <2>3. <<es[t], "completed", results[t]>> \in Expected("doneResult")
    BY <1>2, <2>1 DEF Expected, Entry
  <2> QED BY <1>3, <2>1, <2>2, <2>3 DEF Failing
<1>9. CASE CompleteResult(w)
  <2>1. Moves(w, "doneAck") /\ pc[w] = "doneResult"
    BY <1>0, <1>9, GoesTo DEF CompleteResult, At
  <2>2. Leaves(t, <<es[t], status[t], results[t] \cup {"completed"}>>)
    BY <1>0, <1>1, <1>9, ResultWrite DEF CompleteResult
  <2>3. <<es[t], status[t], results[t] \cup {"completed"}>> \in Expected("doneAck")
    BY <1>2, <2>1 DEF Expected, Entry, Settled
  <2> QED BY <1>3, <2>1, <2>2, <2>3 DEF Failing
<1>10. CASE AckCompleted(w)
  <2>1. Moves(w, "onDone") /\ pc[w] = "doneAck"
    BY <1>0, <1>10, GoesTo DEF AckCompleted, At
  <2>2. Leaves(t, Entry(t))
    BY <1>10, NoWrite DEF AckCompleted
  <2>3. Entry(t) \in Expected("onDone")
    BY <1>2, <2>1 DEF Expected
  <2> QED BY <1>3, <2>1, <2>2, <2>3 DEF Failing
<1> QED BY <1>5, <1>6, <1>7, <1>8, <1>9, <1>10 DEF ExecuteStep, CompleteStep

(* ... and the retry branch.                                               *)
LEMMA RetryRecords ==
  ASSUME SingleSource, RunTypeOK, TokenInv, RunInv, NEW w \in Worker,
         RetryStep(w) \/ Requeue(w), UNCHANGED runVars
  PROVE  RunInv'
<1> DEFINE t == Doing(w)
<1>0. /\ TypeOK /\ job[w] \in Msg /\ job[w] # NoMsg
      /\ pc[w] \in Retrying \cup {"retryAck"}
  BY WorkerAssumption DEF RunTypeOK, TypeOK, RetryStep, RetryState, RetryMark, RetryRow,
     AckRetried, Requeue, At, Msg, Retrying
<1>1. t \in Task /\ job[w].task = t /\ job[w].attempt \in 1..MaxAttempts
  BY <1>0, MsgParts DEF Doing
<1>2. ASSUME pc[w] \in Retrying PROVE Carries(w, t) /\ Entry(t) \in Expected(pc[w])
  <2>1. Carries(w, t)
    BY <1>0, <1>2 DEF Carries, ClaimHeld, Retrying
  <2> QED BY <1>1, <2>1 DEF RunInv, CarriersTell
<1>3. ASSUME NEW label, NEW e, Moves(w, label), Leaves(t, e), e \in Expected(label),
             pc[w] \in Retrying, UNCHANGED <<queue, job, dlq, target>>,
             label \notin Failing \cup {"deadAck", "onFail"}
      PROVE  RunInv'
  BY <1>1, <1>2, <1>3, OwnStep
<1>4. CASE AckRetried(w)
  BY <1>4, AckRetriedStep
<1>5. CASE Requeue(w)
  <2>1. pc[w] = "requeue" /\ pc[w] \in Retrying
    BY <1>5 DEF Requeue, At, Retrying
  <2>2. job[w].attempt + 1 \in 1..MaxAttempts
    BY <1>0, <1>1, <2>1, WorkerAssumption DEF TypeOK
  <2>3. [task |-> t, attempt |-> job[w].attempt + 1] \in Msg
    BY <1>1, <2>2 DEF Msg
  <2>4. /\ Enqueue([task |-> t, attempt |-> job[w].attempt + 1]) /\ pc'[w] = "retryAck"
        /\ \A v \in Worker \ {w} : pc'[v] = pc[v] /\ job'[v] = job[v] /\ target'[v] = target[v]
        /\ UNCHANGED <<storeVars, dlq>>
    BY <1>0, <1>5 DEF Requeue, GoTo, TypeOK
  <2> QED BY <1>2, <2>1, <2>3, <2>4, GiveBackStep
<1>6. CASE RetryState(w) \/ RetryMark(w)
  <2>1. PICK label \in {"retryMark", "retryRow"} : Moves(w, label)
    BY <1>0, <1>6, GoesTo DEF RetryState, RetryMark
  <2>2. Leaves(t, <<"retrying", status[t], results[t]>>)
    BY <1>0, <1>1, <1>6, StateWrite DEF RetryState, RetryMark
  <2>3. /\ pc[w] \in {"retry", "retryMark"} /\ pc[w] \in Retrying
        /\ UNCHANGED <<queue, job, dlq, target>>
    BY <1>6 DEF RetryState, RetryMark, At, Retrying, busVars
  <2>4. <<"retrying", status[t], results[t]>> \in Expected(label)
    BY <1>2, <2>3 DEF Expected, Entry
  <2> QED BY <1>3, <2>1, <2>2, <2>3, <2>4 DEF Failing
<1>7. CASE RetryRow(w)
  <2>1. Moves(w, "requeue")
    BY <1>0, <1>7, GoesTo DEF RetryRow
  <2>2. Leaves(t, <<es[t], "retrying", results[t]>>)
    BY <1>0, <1>1, <1>7, RowWrite DEF RetryRow
  <2>3. pc[w] = "retryRow" /\ pc[w] \in Retrying /\ UNCHANGED <<queue, job, dlq, target>>
    BY <1>7 DEF RetryRow, At, Retrying, busVars
  <2>4. <<es[t], "retrying", results[t]>> \in Expected("requeue")
    BY <1>2, <2>3 DEF Expected, Entry
  <2> QED BY <1>3, <2>1, <2>2, <2>3, <2>4 DEF Failing
<1> QED BY <1>4, <1>5, <1>6, <1>7 DEF RetryStep

(* Dead-lettering writes the entry of the worker's own task.               *)
LEMMA OwnFailureRecords ==
  ASSUME SingleSource, RunTypeOK, TokenInv, RunInv, NEW w \in Worker, ~ FailsBelow(w),
         DeadLetterStep(w) \/ DeadLetter(w), UNCHANGED runVars
  PROVE  RunInv'
<1> DEFINE t == Doing(w)
<1>0. /\ TypeOK /\ job[w] \in Msg /\ job[w] # NoMsg
      /\ target \in [Worker -> Task \cup {NoTask}]
      /\ pc[w] \in Failing \cup {"dead", "deadAck"}
      /\ UNCHANGED <<queue, job>>
  BY WorkerAssumption DEF RunTypeOK, TypeOK, DeadLetterStep, DeadLetter, FailState, FailRow,
     FailResult, AckDead, At, Msg, busVars, Failing
<1>1. t \in Task /\ Carries(w, t) /\ (pc[w] \in Failing => target[w] = t)
  BY <1>0, MsgParts DEF Carries, ClaimHeld, Doing, Failing, FailsBelow
<1>2. Entry(t) \in Expected(pc[w])
  BY <1>1 DEF RunInv, CarriersTell
<1>3. pc[w] # "dead" => dlq # {}
  BY <1>0 DEF RunInv, CauseInv
<1>4. ASSUME NEW label, NEW e, Moves(w, label), Leaves(t, e), e \in Expected(label),
             pc[w] # "dead", pc[w] = "deadAck" => label \notin Failing, UNCHANGED <<dlq, target>>
      PROVE  RunInv'
  <2>1. label \in Failing => target'[w] = t
    BY <1>0, <1>1, <1>4
  <2> QED BY <1>0, <1>1, <1>3, <1>4, <2>1, OwnStep
<1>5. CASE DeadLetter(w)
  <2>1. Moves(w, "failState") /\ pc[w] = "dead"
    BY <1>0, <1>5, GoesTo DEF DeadLetter, At
  <2>2. Leaves(t, Entry(t))
    BY <1>5, NoWrite DEF DeadLetter
  <2>3. Entry(t) \in Expected("failState")
    BY <1>2, <2>1 DEF Expected
  <2>4. /\ dlq \subseteq dlq' /\ dlq' # {} /\ target'[w] = t
        /\ \A v \in Worker \ {w} : target'[v] = target[v]
    BY <1>0, <1>5 DEF DeadLetter
  <2> QED BY <1>0, <1>1, <2>1, <2>2, <2>3, <2>4, OwnStep
<1>6. CASE FailState(w)
  <2>1. Moves(w, "failRow") /\ pc[w] = "failState" /\ target[w] = t /\ UNCHANGED <<dlq, target>>
    BY <1>0, <1>1, <1>6, GoesTo DEF FailState, At, Failing, busVars
  <2>2. Leaves(t, <<"failed", status[t], results[t]>>)
    BY <1>0, <1>1, <1>6, <2>1, StateWrite DEF FailState
  <2>3. <<"failed", status[t], results[t]>> \in Expected("failRow")
    BY <1>2, <2>1 DEF Expected, Entry
  <2> QED BY <1>4, <2>1, <2>2, <2>3
<1>7. CASE FailRow(w)
  <2>1. Moves(w, "failResult") /\ pc[w] = "failRow" /\ target[w] = t /\ UNCHANGED <<dlq, target>>
    BY <1>0, <1>1, <1>7, GoesTo DEF FailRow, At, Failing, busVars
  <2>2. Leaves(t, <<es[t], "failed", results[t]>>)
    BY <1>0, <1>1, <1>7, <2>1, RowWrite DEF FailRow
  <2>3. <<es[t], "failed", results[t]>> \in Expected("failResult")
    BY <1>2, <2>1 DEF Expected, Entry
  <2> QED BY <1>4, <2>1, <2>2, <2>3
<1>8. CASE FailResult(w)
  <2>0. pc[w] = "failResult" /\ target[w] = t /\ UNCHANGED <<dlq, target>>
    BY <1>1, <1>8 DEF FailResult, At, Failing, busVars
  <2>1. Moves(w, "deadAck")
    BY <1>0, <1>8, <2>0, GoesTo DEF FailResult
  <2>2. Leaves(t, <<es[t], status[t], results[t] \cup {"failed"}>>)
    BY <1>0, <1>1, <1>8, <2>0, ResultWrite DEF FailResult
  <2>3. <<es[t], status[t], results[t] \cup {"failed"}>> \in Expected("deadAck")
    BY <1>2, <2>0 DEF Expected, Entry, Settled
  <2> QED BY <1>4, <2>0, <2>1, <2>2, <2>3
<1>9. CASE AckDead(w)
  <2>1. Moves(w, "onFail") /\ pc[w] = "deadAck" /\ UNCHANGED <<dlq, target>>
    BY <1>0, <1>9, GoesTo DEF AckDead, At
  <2>2. Leaves(t, Entry(t))
    BY <1>9, NoWrite DEF AckDead
  <2>3. Entry(t) \in Expected("onFail")
    BY <1>2, <2>1 DEF Expected
  <2> QED BY <1>4, <2>1, <2>2, <2>3 DEF Failing
<1> QED BY <1>5, <1>6, <1>7, <1>8, <1>9 DEF DeadLetterStep

(* The cascade writes the entry of a task below the worker's own.          *)
LEMMA CascadeRecords ==
  ASSUME SingleSource, RunTypeOK, TokenInv, RunInv, NEW w \in Worker, FailsBelow(w),
         DeadLetterStep(w), UNCHANGED runVars
  PROVE  RunInv'
<1> DEFINE x == target[w]
<1>0. /\ TypeOK /\ x \in Task /\ x # Doing(w) /\ pc[w] \in Failing
      /\ Entry(x) = ExpectedBelow(pc[w])
      /\ UNCHANGED <<queue, dlq, job, target>>
      /\ FailState(w) \/ FailRow(w) \/ FailResult(w)
  BY DEF RunTypeOK, TypeOK, RunInv, CallbackInv, FailsBelow, Failing, DeadLetterStep,
         FailState, FailRow, FailResult, AckDead, At, busVars
<1>1. CASE FailState(w)
  <2>1. Moves(w, "failRow") /\ pc[w] = "failState"
    BY <1>0, <1>1, GoesTo DEF FailState, At
  <2>2. Leaves(x, <<"failed", status[x], results[x]>>)
    BY <1>0, <1>1, StateWrite DEF FailState
  <2>3. <<"failed", status[x], results[x]>> = ExpectedBelow("failRow")
    BY <1>0, <2>1 DEF ExpectedBelow, Untouched, Entry
  <2> QED BY <1>0, <2>1, <2>2, <2>3, BelowStep DEF Failing
<1>2. CASE FailRow(w)
  <2>1. Moves(w, "failResult") /\ pc[w] = "failRow"
    BY <1>0, <1>2, GoesTo DEF FailRow, At
  <2>2. Leaves(x, <<es[x], "failed", results[x]>>)
    BY <1>0, <1>2, RowWrite DEF FailRow
  <2>3. <<es[x], "failed", results[x]>> = ExpectedBelow("failResult")
    BY <1>0, <2>1 DEF ExpectedBelow, Entry
  <2> QED BY <1>0, <2>1, <2>2, <2>3, BelowStep DEF Failing
<1>3. CASE FailResult(w)
  <2>1. Moves(w, "cascade") /\ pc[w] = "failResult"
    BY <1>0, <1>3, GoesTo DEF FailResult, At
  <2>2. Leaves(x, <<es[x], status[x], results[x] \cup {"failed"}>>)
    BY <1>0, <1>3, ResultWrite DEF FailResult
  <2>3. <<es[x], status[x], results[x] \cup {"failed"}>> = Settled("failed")
    BY <1>0, <2>1 DEF ExpectedBelow, Settled, Entry
  <2> QED BY <1>0, <2>1, <2>2, <2>3, BelowStep
<1> QED BY <1>0, <1>1, <1>2, <1>3

(* So a worker keeps the records.                                          *)
LEMMA WorkRecords ==
  ASSUME SingleSource, RunTypeOK, TokenInv, RunInv, NEW w \in Worker, Work(w)
  PROVE  RunInv'
<1>1. UNCHANGED runVars
  BY DEF Work
<1>2. ASSUME DeadLetter(w) PROVE ~ FailsBelow(w)
  BY <1>2 DEF DeadLetter, At, FailsBelow, Failing
<1> QED BY <1>1, <1>2, ProcessRecords, ExecuteRecords, RetryRecords, OwnFailureRecords,
           CascadeRecords DEF Work, WorkerStep

-----------------------------------------------------------------------------
(* The callbacks.                                                          *)

(* A callback that has the lock is the only one.                           *)
LEMMA CallbackAlone ==
  ASSUME RunInv, NEW w \in Worker, pc[w] = "advance" \/ Cascading(w)
  PROVE  /\ lock = w
         /\ \A v \in Worker \ {w} : pc[v] # "advance" /\ ~ Cascading(v)
BY DEF RunInv, CallbackInv

(* on_done and on_fail enter the outcome of the worker's task in the DAG.  *)
LEMMA SettleStep ==
  ASSUME SingleSource, RunTypeOK, TokenInv, RunInv,
         NEW w \in Worker, NEW t \in Task, Carries(w, t), t = Doing(w), lock = NoWorker, lock' = w,
         NEW s, dag' = [dag EXCEPT ![t] = s], Entry(t) = Settled(s), Leaves(t, Entry(t)),
         NEW label, Moves(w, label),
         \/ s = "completed" /\ label = "advance" /\ todo'[w] = ReadyTasks(dag)'
         \/ s = "failed" /\ label = "cascade" /\ todo'[w] = Descendants(t) /\ dlq # {},
         UNCHANGED <<queue, job, target, dlq, dispatched, main, roots, cur, count, wf>>
  PROVE  RunInv'
<1>0. /\ dag \in [Task -> {"pending", "completed", "failed"}] /\ dag[t] = "pending"
      /\ pc[w] # "idle" /\ t \in dispatched
      /\ \A v \in Worker : Carries(v, t) => v = w
      /\ \A m \in Msg : m.task = t => ~ (queue[m] > 0)
      /\ \A x \in Task : Entry(x)' = Entry(x)
  BY CarrierAlone DEF RunTypeOK, RunInv, CarriersTell, Carries, ClaimHeld, Leaves
<1>1. \A v \in Worker : pc[v] # "advance" /\ ~ Cascading(v) /\ ~ FailsBelow(v)
  BY RunAssumption DEF RunInv, CallbackInv, Cascading
<1>2. ASSUME NEW v \in Worker, v # w
      PROVE  /\ pc'[v] = pc[v] /\ pc'[v] # "advance" /\ ~ Cascading(v)' /\ ~ FailsBelow(v)'
             /\ \A x \in Task : Carries(v, x)' <=> Carries(v, x)
  BY <1>1, <1>2 DEF Moves, Carries, FailsBelow, Cascading, Doing
<1>3. /\ pc'[w] = label /\ Doing(w)' = t /\ ~ FailsBelow(w)'
      /\ \A x \in Task : ~ Carries(w, x)' /\ (Carries(w, x) => x = t)
  BY DEF Moves, Carries, FailsBelow, Failing, ClaimHeld, Doing
<1>4. CarriersTell'
  BY <1>0, <1>2, <1>3 DEF RunInv, CarriersTell
<1>5. MessagesTell'
  BY <1>0, MsgParts DEF RunInv, MessagesTell
<1>6. FirstPublish'
  BY <1>0, RootsAreOut DEF RunInv, FirstPublish
<1>7. CallbackInv'
  <2>1. label = "advance" => todo'[w] = ReadyTasks(dag)'
    OBVIOUS
  <2>2. label = "cascade" => dag'[t] = "failed" /\ todo'[w] = Descendants(t)
    BY <1>0
  <2> QED BY <1>2, <1>3, <2>1, <2>2 DEF CallbackInv, Cascading
<1>8. DagInv'
  <2>1. \A x \in Task \ {t} : dag'[x] = dag[x]
    BY <1>0
  <2>2. dag'[t] = s
    BY <1>0
  <2>3. \A x \in Task : dag[x] # "pending" => Entry(x) = Settled(dag[x])
    BY <1>1 DEF RunInv, DagInv
  <2>4. ASSUME NEW x \in dispatched, NEW d \in Deps[x] PROVE dag'[d] = "completed"
    <3>1. dag[d] = "completed" /\ d \in Task
      BY GraphAssumption DEF RunInv, DagInv, RunTypeOK
    <3> QED BY <1>0, <2>1, <3>1
  <2> QED BY <1>0, <2>1, <2>2, <2>3, <2>4 DEF RunInv, DagInv
<1>9. CauseInv'
  <2>1. \A v \in Worker : pc'[v] \in Failing \cup {"deadAck", "onFail", "cascade"} => dlq # {}
    BY <1>2, <1>3 DEF RunInv, CauseInv, Failing
  <2>2. \A x \in Task : dag'[x] = "failed" => dlq # {}
    BY <1>0 DEF RunInv, CauseInv
  <2> QED BY <2>1, <2>2 DEF RunInv, CauseInv
<1>10. NoTaskLost'
  <2> SUFFICES ASSUME NEW x \in Task, x \in dispatched, dag'[x] = "pending"
               PROVE  (Waiting(x) \/ (\E v \in Worker : Carries(v, x)) \/ cur = x)'
    BY DEF NoTaskLost
  <2>1. x # t /\ dag[x] = "pending"
    BY <1>0
  <2>2. Waiting(x) \/ (\E v \in Worker : Carries(v, x)) \/ cur = x
    BY <2>1 DEF RunInv, NoTaskLost
  <2>3. ASSUME NEW v \in Worker, Carries(v, x) PROVE Carries(v, x)'
    BY <1>2, <1>3, <2>1, <2>3
  <2> QED BY <2>2, <2>3 DEF Waiting
<1> QED BY <1>4, <1>5, <1>6, <1>7, <1>8, <1>9, <1>10 DEF RunInv

(* on_done and on_fail find the outcome already in the tables.             *)
LEMMA OnDoneRecords ==
  ASSUME SingleSource, RunTypeOK, TokenInv, RunInv, NEW w \in Worker, OnDone(w) \/ OnFail(w)
  PROVE  RunInv'
<1> DEFINE t == Doing(w)
<1>0. /\ TypeOK /\ job[w] \in Msg /\ job[w] # NoMsg /\ pc[w] \in {"onDone", "onFail"}
      /\ lock = NoWorker /\ lock' = w
      /\ UNCHANGED <<status, results, queue, job, target, dlq, dispatched, main, roots, cur, count, wf>>
  BY WorkerAssumption DEF RunTypeOK, TypeOK, OnDone, OnFail, At, Msg, busVars
<1>1. t \in Task /\ Carries(w, t)
  BY <1>0, MsgParts DEF Carries, Doing
<1>2. Entry(t) \in Expected(pc[w])
  BY <1>1 DEF RunInv, CarriersTell
<1>3. CASE OnDone(w)
  <2>1. Entry(t) = Settled("completed")
    BY <1>2, <1>3 DEF OnDone, At, Expected
  <2>2. Leaves(t, Entry(t))
    <3>1. Leaves(t, <<"completed", status[t], results[t]>>)
      BY <1>0, <1>1, <1>3, StateWrite DEF OnDone
    <3>2. Entry(t) = <<"completed", status[t], results[t]>>
      BY <2>1 DEF Entry, Settled
    <3> QED BY <3>1, <3>2
  <2>3. Moves(w, "advance")
    BY <1>0, <1>3, GoesTo DEF OnDone
  <2>4. todo'[w] = ReadyTasks(dag)' /\ dag' = [dag EXCEPT ![t] = "completed"]
    BY <1>3 DEF OnDone, RunTypeOK, ReadyTasks
  <2> QED BY <1>0, <1>1, <2>1, <2>2, <2>3, <2>4, SettleStep
<1>4. CASE OnFail(w)
  <2>1. Entry(t) = Settled("failed") /\ dlq # {}
    BY <1>2, <1>4 DEF OnFail, At, Expected, RunInv, CauseInv
  <2>2. Leaves(t, Entry(t))
    <3>1. Leaves(t, <<"failed", status[t], results[t]>>)
      BY <1>0, <1>1, <1>4, StateWrite DEF OnFail
    <3>2. Entry(t) = <<"failed", status[t], results[t]>>
      BY <2>1 DEF Entry, Settled
    <3> QED BY <3>1, <3>2
  <2>3. Moves(w, "cascade")
    BY <1>0, <1>4, GoesTo DEF OnFail
  <2>4. todo'[w] = Descendants(t) /\ dag' = [dag EXCEPT ![t] = "failed"]
    BY <1>4 DEF OnFail, RunTypeOK
  <2> QED BY <1>0, <1>1, <2>1, <2>2, <2>3, <2>4, SettleStep
<1> QED BY <1>3, <1>4

(* A step that only takes a task off a callback's list.                    *)
LEMMA ShrinkTodo ==
  ASSUME RunTypeOK, RunInv, NEW w \in Worker, NEW x, todo' = [todo EXCEPT ![w] = @ \ {x}],
         UNCHANGED <<es, status, results, queue, dlq, pc, job, target, dag, dispatched, lock, main,
                     roots, cur, count, wf>>
  PROVE  RunInv'
<1>1. \A v \in Worker : todo'[v] \subseteq todo[v]
  BY DEF RunTypeOK
<1>2. \A v \in Worker, t \in Task : Carries(v, t)' <=> Carries(v, t)
  BY DEF Carries, Doing
<1>3. \A v \in Worker : /\ FailsBelow(v)' <=> FailsBelow(v)
                        /\ Cascading(v)' <=> Cascading(v)
                        /\ Doing(v)' = Doing(v)
  BY DEF FailsBelow, Cascading, Doing
<1>4. \A t : Entry(t)' = Entry(t)
  BY DEF Entry
<1>5. CarriersTell' /\ MessagesTell' /\ FirstPublish'
  BY <1>2, <1>4 DEF RunInv, CarriersTell, MessagesTell, FirstPublish
<1>6. CallbackInv'
  BY <1>1, <1>3, <1>4 DEF RunInv, CallbackInv, ReadyTasks
<1>7. DagInv'
  BY <1>3, <1>4 DEF RunInv, DagInv
<1>8. CauseInv' /\ NoTaskLost'
  BY <1>2 DEF RunInv, CauseInv, NoTaskLost, Waiting
<1> QED BY <1>5, <1>6, <1>7, <1>8 DEF RunInv

(* A task on the bus waits.                                                *)
LEMMA EnqueuedWaits ==
  ASSUME TypeOK, NEW t \in Task, Publish(t)
  PROVE  /\ Waiting(t)'
         /\ \A x \in Task : Waiting(x) => Waiting(x)'
         /\ \A m \in Msg : queue'[m] > 0 => queue[m] > 0 \/ m.task = t
<1> DEFINE n == [task |-> t, attempt |-> attempt[t]]
<1>1. n \in Msg /\ attempt[t] \in 1..MaxAttempts /\ queue \in [Msg -> Nat]
      /\ queue' = [queue EXCEPT ![n] = @ + 1]
  BY DEF TypeOK, Msg, Publish, Enqueue
<1>2. Waiting(t)'
  BY <1>1 DEF Waiting
<1>3. ASSUME NEW x \in Task, NEW a \in 1..MaxAttempts, queue[[task |-> x, attempt |-> a]] > 0
      PROVE  queue'[[task |-> x, attempt |-> a]] > 0
  <2>1. [task |-> x, attempt |-> a] \in Msg
    BY DEF Msg
  <2> QED BY <1>1, <1>3, <2>1
<1>4. \A m \in Msg : queue'[m] > 0 => queue[m] > 0 \/ m.task = t
  <2> SUFFICES ASSUME NEW m \in Msg, queue'[m] > 0, m # n PROVE queue[m] > 0
    OBVIOUS
  <2> QED BY <1>1
<1> QED BY <1>2, <1>3, <1>4 DEF Waiting

(* on_done publishes a ready task.                                         *)
LEMMA AdvanceRecords ==
  ASSUME SingleSource, RunTypeOK, TokenInv, RunInv, NEW w \in Worker, NEW t \in Task,
         AdvanceTo(w, t)
  PROVE  RunInv'
<1>0. /\ TypeOK /\ pc[w] = "advance" /\ t \in todo[w] /\ todo' = [todo EXCEPT ![w] = @ \ {t}]
      /\ UNCHANGED <<storeVars, dlq, pc, job, target, dag, lock, main, roots, cur, count, wf>>
  BY DEF RunTypeOK, AdvanceTo, At, workVars
<1>1. CASE t \in dispatched
  BY <1>0, <1>1, ShrinkTodo DEF AdvanceTo, storeVars
<1>2. CASE t \notin dispatched
  <2>0. Publish(t) /\ dispatched' = dispatched \cup {t}
    BY <1>2 DEF AdvanceTo
  <2>1. /\ t \in ReadyTasks(dag) /\ dag[t] = "pending" /\ Entry(t) = Untouched
        /\ \A d \in Deps[t] : dag[d] = "completed"
    BY <1>0, <1>2 DEF RunInv, CallbackInv, DagInv, ReadyTasks
  <2>2. \A v \in Worker, x \in Task : Carries(v, x)' <=> Carries(v, x)
    BY <1>0 DEF Carries, Doing
  <2>3. \A v \in Worker : /\ FailsBelow(v)' <=> FailsBelow(v)
                          /\ Cascading(v)' <=> Cascading(v)
                          /\ ~ Cascading(v) /\ ~ FailsBelow(v)
    BY <1>0, CallbackAlone DEF FailsBelow, Cascading, Doing, Failing
  <2>4. \A x : Entry(x)' = Entry(x)
    BY <1>0 DEF Entry, storeVars
  <2>5. CarriersTell'
    BY <1>0, <2>2, <2>4 DEF RunInv, CarriersTell
  <2>6. MessagesTell'
    BY <1>0, <2>0, <2>1, <2>4, EnqueuedWaits DEF RunInv, MessagesTell, Waitable
  <2>7. FirstPublish'
    BY <1>0, RootsAreOut DEF RunInv, FirstPublish
  <2>8. CallbackInv'
    <3>1. \A v \in Worker : todo'[v] \subseteq todo[v]
      BY <1>0 DEF RunTypeOK
    <3> QED BY <1>0, <2>3, <3>1 DEF RunInv, CallbackInv, ReadyTasks
  <2>9. DagInv'
    BY <1>0, <2>0, <2>1, <2>3, <2>4 DEF RunInv, DagInv
  <2>10. CauseInv'
    BY <1>0 DEF RunInv, CauseInv
  <2>11. NoTaskLost'
    BY <1>0, <2>0, <2>2, EnqueuedWaits DEF RunInv, NoTaskLost
  <2> QED BY <2>5, <2>6, <2>7, <2>8, <2>9, <2>10, <2>11 DEF RunInv
<1> QED BY <1>1, <1>2

(* on_fail fails a pending task below a failed one.                        *)
LEMMA CascadeToRecords ==
  ASSUME SingleSource, RunTypeOK, TokenInv, RunInv, NEW w \in Worker, NEW t \in Task,
         CascadeTo(w, t)
  PROVE  RunInv'
<1>0. /\ TypeOK /\ pc[w] = "cascade" /\ t \in todo[w] /\ todo' = [todo EXCEPT ![w] = @ \ {t}]
      /\ job[w] \in Msg /\ dag \in [Task -> {"pending", "completed", "failed"}]
      /\ UNCHANGED <<storeVars, queue, dlq, job, dispatched, lock, main, roots, cur, count, wf>>
  BY DEF RunTypeOK, TypeOK, CascadeTo, At, busVars
<1>1. CASE dag[t] # "pending"
  BY <1>0, <1>1, ShrinkTodo DEF CascadeTo, storeVars
<1>2. CASE dag[t] = "pending"
  <2>0. /\ dag' = [dag EXCEPT ![t] = "failed"] /\ target' = [target EXCEPT ![w] = t]
        /\ Moves(w, "failState")
    BY <1>0, <1>2, GoesTo DEF CascadeTo
  <2>1. /\ lock = w /\ dag[Doing(w)] = "failed" /\ todo[w] \subseteq Descendants(Doing(w))
        /\ dlq # {} /\ Doing(w) \in Task
    BY <1>0, MsgParts DEF RunInv, CallbackInv, Cascading, CauseInv, Doing
  <2>2. /\ t \notin dispatched /\ t # Doing(w) /\ Entry(t) = Untouched
    BY <1>0, <1>2, <2>1, NothingBelowStarted DEF RunInv, DagInv, Descendants
  <2>3. ASSUME NEW v \in Worker, v # w
        PROVE  /\ \A x \in Task : Carries(v, x)' <=> Carries(v, x)
               /\ pc'[v] = pc[v] /\ pc[v] # "advance" /\ ~ Cascading(v)' /\ ~ FailsBelow(v)'
               /\ ~ FailsBelow(v)
    <3>1. pc[v] # "advance" /\ ~ Cascading(v) /\ ~ FailsBelow(v)
      BY <1>0, <2>3, CallbackAlone DEF Cascading
    <3>2. pc'[v] = pc[v] /\ target'[v] = target[v] /\ job'[v] = job[v]
      BY <1>0, <2>0, <2>3 DEF Moves, TypeOK
    <3> QED BY <3>1, <3>2 DEF Carries, FailsBelow, Cascading, Doing
  <2>4. /\ pc'[w] = "failState" /\ target'[w] = t /\ Doing(w)' = Doing(w)
        /\ FailsBelow(w)' /\ Cascading(w)' /\ ~ FailsBelow(w)
        /\ \A x \in Task : ~ Carries(w, x) /\ ~ Carries(w, x)'
    BY <1>0, <2>0, <2>2 DEF Moves, TypeOK, FailsBelow, Cascading, Carries, Failing, ClaimHeld, Doing
  <2>5. \A x : Entry(x)' = Entry(x)
    BY <1>0 DEF Entry, storeVars
  <2>6. \A v \in Worker, x \in Task : Carries(v, x) => x # t
    BY <2>2 DEF Carries, ClaimHeld, TokenInv, OnlyDispatched
  <2>7. CarriersTell'
    BY <1>0, <2>0, <2>3, <2>4, <2>5, <2>6 DEF RunInv, CarriersTell
  <2>8. MessagesTell'
    <3>1. \A m \in Msg : queue[m] > 0 => m.task # t
      BY <2>2 DEF TokenInv, OnlyDispatched
    <3> QED BY <1>0, <2>0, <2>5, <3>1, MsgParts DEF RunInv, MessagesTell
  <2>9. FirstPublish'
    BY <1>0, RootsAreOut DEF RunInv, FirstPublish
  <2>10. CallbackInv'
    <3>1. todo'[w] \subseteq todo[w]
      BY <1>0 DEF RunTypeOK
    <3>2. dag'[Doing(w)] = "failed" /\ dag'[t] = "failed"
      BY <1>0, <2>0, <2>1
    <3>3. Entry(t)' = ExpectedBelow("failState")
      BY <2>2, <2>5 DEF ExpectedBelow
    <3> QED BY <1>0, <2>1, <2>2, <2>3, <2>4, <3>1, <3>2, <3>3 DEF CallbackInv
  <2>11. DagInv'
    <3>1. \A x \in Task \ {t} : dag'[x] = dag[x]
      BY <1>0, <2>0
    <3>2. dag'[t] = "failed"
      BY <1>0, <2>0
    <3>3. \A x \in Task : dag[x] # "pending" => Entry(x) = Settled(dag[x])
      BY <2>3, <2>4 DEF RunInv, DagInv
    <3>4. ASSUME NEW x \in dispatched, NEW d \in Deps[x] PROVE dag'[d] = "completed"
      <4>1. dag[d] = "completed" /\ d \in Task
        BY GraphAssumption DEF RunInv, DagInv, RunTypeOK
      <4> QED BY <1>2, <3>1, <4>1
    <3> QED BY <1>0, <2>2, <2>4, <2>5, <3>1, <3>2, <3>3, <3>4 DEF RunInv, DagInv
  <2>12. CauseInv'
    BY <1>0, <2>1 DEF RunInv, CauseInv
  <2>13. NoTaskLost'
    <3> SUFFICES ASSUME NEW x \in Task, x \in dispatched, dag'[x] = "pending"
                 PROVE  (Waiting(x) \/ (\E v \in Worker : Carries(v, x)) \/ cur = x)'
      BY <1>0 DEF NoTaskLost
    <3>1. Waiting(x) \/ (\E v \in Worker : Carries(v, x)) \/ cur = x
      BY <1>0, <2>0 DEF RunInv, NoTaskLost
    <3> QED BY <1>0, <2>3, <2>4, <3>1 DEF Waiting
  <2> QED BY <2>7, <2>8, <2>9, <2>10, <2>11, <2>12, <2>13 DEF RunInv
<1> QED BY <1>1, <1>2

(* A callback that is through gives the lock back.                         *)
LEMMA EndRecords ==
  ASSUME SingleSource, RunTypeOK, TokenInv, RunInv, NEW w \in Worker, EndCallback(w)
  PROVE  RunInv'
<1>0. /\ TypeOK /\ pc[w] \in {"advance", "cascade"} /\ pc'[w] = "idle"
      /\ \A v \in Worker \ {w} : pc'[v] = pc[v] /\ job'[v] = job[v] /\ target'[v] = target[v]
      /\ UNCHANGED <<storeVars, queue, dlq, dag, dispatched, todo, main, roots, cur, count, wf>>
  BY DEF RunTypeOK, TypeOK, EndCallback, Release, GoTo, busVars
<1>1. ASSUME NEW v \in Worker
      PROVE  /\ \A x \in Task : Carries(v, x)' <=> Carries(v, x)
             /\ pc'[v] # "advance" /\ ~ Cascading(v)' /\ ~ FailsBelow(v)' /\ ~ FailsBelow(v)
  <2>1. v # w => pc[v] # "advance" /\ ~ Cascading(v)
    BY <1>0, CallbackAlone DEF Cascading
  <2> QED BY <1>0, <2>1 DEF Carries, FailsBelow, Cascading, Doing, Failing, ClaimHeld
<1>2. \A x : Entry(x)' = Entry(x)
  BY <1>0 DEF Entry, storeVars
<1>3. CarriersTell'
  <2>1. \A v \in Worker, x \in Task : Carries(v, x) => pc'[v] = pc[v]
    BY <1>0 DEF Carries, ClaimHeld
  <2> QED BY <1>0, <1>1, <1>2, <2>1 DEF RunInv, CarriersTell
<1>4. MessagesTell' /\ FirstPublish'
  BY <1>0, <1>2 DEF RunInv, MessagesTell, FirstPublish
<1>5. CallbackInv'
  BY <1>1 DEF CallbackInv
<1>6. DagInv'
  BY <1>0, <1>1, <1>2 DEF RunInv, DagInv
<1>7. CauseInv'
  BY <1>0 DEF RunInv, CauseInv, Failing
<1>8. NoTaskLost'
  BY <1>0, <1>1 DEF RunInv, NoTaskLost, Waiting
<1> QED BY <1>3, <1>4, <1>5, <1>6, <1>7, <1>8 DEF RunInv

-----------------------------------------------------------------------------
(* The main thread, and induction.                                         *)

(* A step of the main thread that touches neither tasks nor messages keeps *)
(* the records.                                                            *)
LEMMA KeepRecords ==
  ASSUME RunInv,
         UNCHANGED <<es, status, results, queue, dlq, pc, job, target, dag, dispatched, lock, todo,
                     roots, cur>>,
         main' = "publish" <=> main = "publish",
         main' # "reported" => wf' = "running",
         main' \notin {"counted", "reported"} => count' = "running",
         main' = "counted" => count' # "running"
  PROVE  RunInv'
<1>2. \A x : Entry(x)' = Entry(x)
  BY DEF Entry
<1>3. \A v \in Worker, x \in Task : Carries(v, x)' <=> Carries(v, x)
  BY DEF Carries, Doing
<1>4. \A v \in Worker : /\ FailsBelow(v)' <=> FailsBelow(v)
                        /\ Cascading(v)' <=> Cascading(v)
                        /\ Doing(v)' = Doing(v)
  BY DEF FailsBelow, Cascading, Doing
<1>5. CarriersTell' /\ MessagesTell' /\ FirstPublish'
  BY <1>2, <1>3 DEF RunInv, CarriersTell, MessagesTell, FirstPublish
<1>6. CallbackInv' /\ DagInv'
  BY <1>2, <1>4 DEF RunInv, CallbackInv, DagInv, ReadyTasks
<1>7. CauseInv' /\ NoTaskLost'
  BY <1>3 DEF RunInv, CauseInv, NoTaskLost, Waiting
<1> QED BY <1>5, <1>6, <1>7 DEF RunInv

(* The main thread publishes the one root before anything else happens and *)
(* only looks afterwards.                                                  *)
LEMMA MainRecords ==
  ASSUME SingleSource, RunTypeOK, TokenInv, RunInv, MainStep \/ Deadline
  PROVE  RunInv'
<1>0. TypeOK /\ \A r \in Roots : Roots = {r}
  BY GraphSets DEF RunTypeOK, SingleSource, PublishedOnce
<1>1. ASSUME NEW t \in Task, DispatchRoot(t) PROVE RunInv'
  <2>0. /\ t \in roots /\ roots' = roots \ {t} /\ dispatched' = dispatched \cup {t} /\ cur' = t
        /\ main = "dispatch" /\ main' = "publish"
        /\ UNCHANGED <<es, status, results, queue, dlq, pc, job, target, dag, lock, todo, count, wf>>
    BY <1>1 DEF DispatchRoot, wvars, storeVars, busVars, workVars
  <2>1. /\ Roots = {t} /\ roots' = {} /\ Deps[t] = {}
        /\ \A v \in Worker : pc[v] = "idle"
        /\ \A m \in Msg : ~ (queue[m] > 0)
    BY <1>0, <2>0 DEF TokenInv, RootsLeft, SoloStart, Roots
  <2>2. dispatched = {} /\ (\A x \in Task : dag[x] = "pending") /\ Entry(t) = Untouched
    BY <2>0 DEF RunInv, FirstPublish, DagInv
  <2>3. \A x : Entry(x)' = Entry(x)
    BY <2>0 DEF Entry
  <2>4. CarriersTell' /\ MessagesTell'
    BY <2>0, <2>1 DEF CarriersTell, MessagesTell, Carries, ClaimHeld
  <2>5. FirstPublish'
    BY <2>0, <2>1, <2>2, <2>3 DEF FirstPublish
  <2>6. CallbackInv'
    BY <2>0, <2>1 DEF CallbackInv, Cascading, FailsBelow, Failing
  <2>7. DagInv'
    BY <2>0, <2>1, <2>2, <2>3 DEF RunInv, DagInv
  <2>8. CauseInv'
    BY <2>0, <2>1 DEF RunInv, CauseInv
  <2>9. NoTaskLost'
    BY <2>0, <2>2 DEF NoTaskLost
  <2> QED BY <2>4, <2>5, <2>6, <2>7, <2>8, <2>9 DEF RunInv
<1>2. CASE PublishRoot
  <2>0. /\ cur \in Task /\ main = "publish" /\ cur' = NoTask /\ main' \in {"wait", "dispatch"}
        /\ Publish(cur)
        /\ UNCHANGED <<es, status, results, dlq, pc, job, target, dag, dispatched, lock, todo,
                       roots, count, wf>>
    BY <1>2 DEF RunTypeOK, PublishRoot, storeVars, workVars
  <2>1. dag[cur] = "pending" /\ Entry(cur) = Untouched
    BY <2>0 DEF RunInv, FirstPublish
  <2>2. \A x : Entry(x)' = Entry(x)
    BY <2>0 DEF Entry
  <2>3. \A v \in Worker, x \in Task : Carries(v, x)' <=> Carries(v, x)
    BY <2>0 DEF Carries, Doing
  <2>4. \A v \in Worker : /\ FailsBelow(v)' <=> FailsBelow(v)
                          /\ Cascading(v)' <=> Cascading(v)
                          /\ Doing(v)' = Doing(v)
    BY <2>0 DEF FailsBelow, Cascading, Doing
  <2>5. CarriersTell'
    BY <2>0, <2>2, <2>3 DEF RunInv, CarriersTell
  <2>6. MessagesTell'
    BY <1>0, <2>0, <2>1, <2>2, EnqueuedWaits DEF RunInv, MessagesTell, Waitable
  <2>7. FirstPublish'
    BY <2>0 DEF RunInv, FirstPublish
  <2>8. CallbackInv'
    BY <2>0, <2>2, <2>4 DEF RunInv, CallbackInv, ReadyTasks
  <2>9. DagInv' /\ CauseInv'
    BY <2>0, <2>2, <2>4 DEF RunInv, DagInv, CauseInv
  <2>10. NoTaskLost'
    BY <1>0, <2>0, <2>3, EnqueuedWaits DEF RunInv, NoTaskLost
  <2> QED BY <2>5, <2>6, <2>7, <2>8, <2>9, <2>10 DEF RunInv
<1>3. CASE AllResolved \/ Deadline \/ CountRows \/ Report
  <2>0. /\ main \in {"wait", "stopping", "counted"} /\ main' \in {"stopping", "counted", "reported"}
        /\ main' # "reported" => wf' = "running"
        /\ main' \notin {"counted", "reported"} => count' = "running"
        /\ main' = "counted" => count' # "running"
        /\ UNCHANGED <<es, status, results, queue, dlq, pc, job, target, dag, dispatched, lock,
                       todo, roots, cur>>
    BY <1>3 DEF AllResolved, Deadline, CountRows, Report, wvars, storeVars, busVars, workVars, RunInv,
                CauseInv
  <2> QED BY <2>0, KeepRecords
<1> QED BY <1>1, <1>2, <1>3 DEF MainStep

(* Before the first publish every task is untouched.                       *)
LEMMA InitRecords == Init => RunInv
<1> SUFFICES ASSUME Init PROVE RunInv
  OBVIOUS
<1>1. \A t \in Task : Entry(t) = Untouched /\ dag[t] = "pending"
  BY DEF Init, WorkerInit, Entry, Untouched
<1>2. CarriersTell /\ MessagesTell
  BY DEF Init, WorkerInit, CarriersTell, MessagesTell, Carries, ClaimHeld
<1>3. FirstPublish
  BY <1>1 DEF Init, FirstPublish
<1>4. CallbackInv /\ CauseInv
  BY <1>1 DEF Init, WorkerInit, CallbackInv, CauseInv, Cascading, FailsBelow, Failing
<1>5. DagInv /\ NoTaskLost
  BY <1>1 DEF Init, DagInv, NoTaskLost
<1> QED BY <1>2, <1>3, <1>4, <1>5 DEF RunInv

(* So every step of a run keeps the records, until a store call raises.    *)
LEMMA NextRecords ==
  ASSUME SingleSource, RunTypeOK, TokenInv, RunInv, faults = 0, faults' = 0, [Next]_vars
  PROVE  RunInv'
<1>1. CASE MainStep \/ Deadline
  BY <1>1, MainRecords
<1>2. ASSUME NEW w \in Worker, Poll(w) PROVE RunInv'
  BY <1>2, FetchStep DEF Poll
<1>3. ASSUME NEW w \in Worker, Work(w) PROVE RunInv'
  BY <1>3, WorkRecords
<1>4. ASSUME NEW w \in Worker, CallbackStep(w) PROVE RunInv'
  BY <1>4, OnDoneRecords, AdvanceRecords, CascadeToRecords, EndRecords DEF CallbackStep
<1>5. ASSUME NEW w \in Worker, Fault(w) \/ RaiseInOnDone(w) \/ RaiseInOnFail(w) PROVE FALSE
  <2>1. faults' = faults + 1
    BY <1>5 DEF Fault, FaultStep, RaiseInTry, RaiseOutside, RaiseInDeadLetter, RaiseInOnDone,
       RaiseInOnFail
  <2> QED BY <2>1
<1>6. CASE UNCHANGED vars
  <2>0. UNCHANGED <<es, status, results, queue, dlq, pc, job, target, dag, dispatched, lock, todo,
                    main, roots, cur, count, wf>>
    BY <1>6 DEF vars, wvars, runVars, storeVars, busVars, workVars
  <2> QED BY <2>0, KeepRecords DEF RunInv, CauseInv
<1> QED BY <1>1, <1>2, <1>3, <1>4, <1>5, <1>6 DEF Next

(* Store calls that have raised stay raised.                               *)
LEMMA FaultsStay ==
  ASSUME RunTypeOK, [Next]_vars, faults' = 0
  PROVE  faults = 0
<1>0. faults \in Nat
  BY WorkerAssumption DEF RunTypeOK, TypeOK
<1>1. faults' = faults \/ faults' = faults + 1
  <2>1. ASSUME NEW w \in Worker, Poll(w) \/ Work(w) PROVE faults' = faults
    BY <2>1 DEF Poll, Fetch, Work, WorkerStep, ProcessStep, SkipCompleted, Admit, Refuse, PutBack,
       Claim, LoseClaim, MarkRunning, ExecuteStep, Begin, HandlerSucceeds, VerifierRejects,
       HandlerRaises, CompleteStep, CompleteState, CompleteRow, CompleteResult, AckCompleted,
       RetryStep, RetryState, RetryMark, RetryRow, AckRetried, DeadLetterStep, FailState, FailRow,
       FailResult, AckDead, Requeue, DeadLetter
  <2>2. ASSUME NEW w \in Worker,
               CallbackStep(w) \/ Fault(w) \/ RaiseInOnDone(w) \/ RaiseInOnFail(w)
        PROVE  faults' = faults \/ faults' = faults + 1
    BY <2>2 DEF CallbackStep, OnDone, OnFail, EndCallback, AdvanceTo, CascadeTo, Fault, FaultStep,
       RaiseInTry, RaiseOutside, RaiseInDeadLetter, RaiseInOnDone, RaiseInOnFail
  <2>3. CASE MainStep \/ Deadline \/ UNCHANGED vars
    BY <2>3 DEF MainStep, DispatchRoot, PublishRoot, AllResolved, CountRows, Report, Deadline, vars,
       wvars
  <2> QED BY <2>1, <2>2, <2>3 DEF Next
<1> QED BY <1>0, <1>1

(* The invariant of a run, for as long as no store call has raised.        *)
LEMMA SoundInduction ==
  ASSUME SingleSource
  PROVE  Spec => [](RunTypeOK /\ TokenInv /\ (faults = 0 => RunInv))
<1>1. Init => RunTypeOK /\ TokenInv /\ (faults = 0 => RunInv)
  BY InitTypeOK, InitTokens, InitRecords
<1>2. (RunTypeOK /\ TokenInv /\ (faults = 0 => RunInv)) /\ [Next]_vars
        => (RunTypeOK /\ TokenInv /\ (faults = 0 => RunInv))'
  BY NextTypeOK, NextTokens, NextRecords, FaultsStay
<1> QED BY <1>1, <1>2, PTL DEF Spec

(* The invariant of a run whose store does not raise.                      *)
LEMMA RunInduction ==
  ASSUME SingleSource, MaxFaults = 0
  PROVE  Spec => [](RunTypeOK /\ TokenInv /\ RunInv)
<1>1. RunTypeOK => faults = 0
  BY DEF RunTypeOK, TypeOK
<1> QED BY <1>1, SoundInduction, PTL

-----------------------------------------------------------------------------
(* What the invariant says of the properties of a run.                     *)

(* What a task that is neither dispatched nor settled looks like, and one  *)
(* that is settled: the cases the invariant leaves for an entry.           *)
LEMMA EntryCases ==
  ASSUME RunTypeOK, RunInv, NEW t \in Task
  PROVE  \/ Entry(t) = Settled(dag[t]) /\ dag[t] \in {"completed", "failed"}
         \/ \E w \in Worker : FailsBelow(w) /\ target[w] = t /\ dag[t] = "failed"
                              /\ Entry(t) = ExpectedBelow(pc[w])
         \/ dag[t] = "pending" /\ Entry(t) \in Waitable
         \/ \E w \in Worker : Carries(w, t) /\ dag[t] = "pending" /\ Entry(t) \in Expected(pc[w])
<1>1. CASE dag[t] # "pending"
  <2>1. dag[t] \in {"completed", "failed"}
    BY <1>1 DEF RunTypeOK
  <2>2. Entry(t) = Settled(dag[t]) \/ \E w \in Worker : FailsBelow(w) /\ target[w] = t
    BY <1>1 DEF RunInv, DagInv
  <2> QED BY <2>1, <2>2 DEF RunInv, CallbackInv
<1>2. CASE dag[t] = "pending" /\ t \notin dispatched
  BY <1>2 DEF RunInv, DagInv, Waitable
<1>3. CASE dag[t] = "pending" /\ t \in dispatched
  <2>1. Waiting(t) \/ (\E w \in Worker : Carries(w, t)) \/ cur = t
    BY <1>3 DEF RunInv, NoTaskLost
  <2>2. CASE Waiting(t)
    <3>1. PICK a \in 1..MaxAttempts : queue[[task |-> t, attempt |-> a]] > 0
      BY <2>2 DEF Waiting
    <3>2. [task |-> t, attempt |-> a] \in Msg
      BY DEF Msg
    <3> QED BY <1>3, <3>1, <3>2 DEF RunInv, MessagesTell
  <2>3. CASE \E w \in Worker : Carries(w, t)
    BY <1>3, <2>3 DEF RunInv, CarriersTell
  <2>4. CASE cur = t
    <3>1. main = "publish"
      BY <2>4, WorkerAssumption DEF RunInv, FirstPublish
    <3> QED BY <1>3, <2>4, <3>1 DEF RunInv, FirstPublish, Waitable
  <2> QED BY <2>1, <2>2, <2>3, <2>4
<1> QED BY <1>1, <1>2, <1>3

(* A result "completed" is only ever found in a completed entry.           *)
LEMMA CompletedEntry ==
  ASSUME RunTypeOK, RunInv, NEW t \in Task, "completed" \in results[t]
  PROVE  Entry(t) = Settled("completed")
<1>1. ASSUME NEW w \in Worker, Entry(t) = ExpectedBelow(pc[w]) PROVE FALSE
  <2>1. results[t] = {}
    BY <1>1 DEF ExpectedBelow, Untouched, Entry
  <2> QED BY <2>1
<1>2. ASSUME Entry(t) \in Waitable PROVE FALSE
  BY <1>2 DEF Waitable, Untouched, Entry
<1>3. ASSUME NEW w \in Worker, Entry(t) \in Expected(pc[w]) PROVE Entry(t) = Settled("completed")
  BY <1>3 DEF Expected, Waitable, Untouched, Entry, Settled
<1>4. ASSUME Entry(t) = Settled(dag[t]) PROVE Entry(t) = Settled("completed")
  <2>1. results[t] = {dag[t]}
    BY <1>4 DEF Entry, Settled
  <2> QED BY <1>4, <2>1
<1> QED BY <1>1, <1>2, <1>3, <1>4, EntryCases

(* No published task is dropped while its outcome is open: a message for it*)
(* waits, a worker carries it, or the main thread is publishing it, whatever*)
(* is refused by the breaker, retried or lost to another claim             *)
(* (worker.py:155, orchestrator.py:340).                                   *)
THEOREM TasksAreNotLost ==
  ASSUME SingleSource, MaxFaults = 0
  PROVE  Spec => []NoTaskLost
<1>1. RunTypeOK /\ TokenInv /\ RunInv => NoTaskLost
  BY DEF RunInv
<1> QED BY <1>1, RunInduction, PTL

(* A worker executes a task only when all its dependencies have their      *)
(* results, and are completed in execution_state, tasks and task_results   *)
(* as long as no store call has raised (TaskDAG.ready_tasks, dag.py:12).   *)
THEOREM DependenciesComeFirst ==
  ASSUME SingleSource
  PROVE  Spec => []DependenciesFirst
<1>1. ASSUME RunTypeOK, TokenInv, RunInv PROVE TablesFirst
  <2> SUFFICES ASSUME NEW w \in Worker, NEW t \in Task, Executes(w, t), NEW d \in Deps[t]
               PROVE  es[d] = "completed" /\ status[d] = "completed" /\ results[d] = {"completed"}
    BY DEF TablesFirst
  <2>1. t \in dispatched
    BY <1>1 DEF TokenInv, OnlyDispatched, Executes, ClaimHeld
  <2>2. d \in Task /\ dag[d] = "completed"
    BY <1>1, <2>1, GraphAssumption DEF RunInv, DagInv
  <2>3. \A v \in Worker : ~ (FailsBelow(v) /\ target[v] = d)
    BY <1>1, <2>2 DEF RunInv, CallbackInv
  <2>4. Entry(d) = Settled("completed")
    BY <1>1, <2>2, <2>3 DEF RunInv, DagInv
  <2> QED BY <2>4 DEF Entry, Settled
<1>2. RunTypeOK /\ TokenInv /\ (faults = 0 => RunInv) /\ ResultsFirst => DependenciesFirst
  BY <1>1 DEF DependenciesFirst
<1> QED BY <1>2, SoundInduction, ResultsComeFirst, PTL

(* Between the commits of mark_completed and mark_failed the tables may    *)
(* differ; once nobody works on a task they agree with the DAG.            *)
THEOREM RecordsAlwaysAgree ==
  ASSUME SingleSource, MaxFaults = 0
  PROVE  Spec => []RecordsAgree
<1>1. ASSUME RunTypeOK, TokenInv, RunInv PROVE RecordsAgree
  <2> SUFFICES ASSUME NEW t \in Task,
                      \A w \in Worker :
                        pc[w] \in {"idle", "check"} \/ (Doing(w) # t /\ target[w] # t)
               PROVE  /\ dag[t] = "completed" <=> results[t] = {"completed"}
                      /\ dag[t] = "failed" <=> results[t] = {"failed"}
                      /\ dag[t] # "pending" => es[t] = dag[t] /\ status[t] = dag[t]
    BY DEF RecordsAgree
  <2>1. \A w \in Worker : ~ (FailsBelow(w) /\ target[w] = t)
    BY DEF FailsBelow, Failing
  <2>2. \A w \in Worker : Carries(w, t) => Expected(pc[w]) = Waitable
    BY DEF Carries, Expected, ClaimHeld
  <2>3. \/ Entry(t) = Settled(dag[t]) /\ dag[t] \in {"completed", "failed"}
        \/ dag[t] = "pending" /\ Entry(t) \in Waitable
    BY <1>1, <2>1, <2>2, EntryCases
  <2> QED BY <2>3 DEF Entry, Settled, Waitable, Untouched
<1> QED BY <1>1, RunInduction, PTL

(* A result "completed" is found in completed entries only.                *)
CompletedEntries ==
  \A t \in Task : "completed" \in results[t] => Entry(t) = Settled("completed")

(* A completed task stays completed in all three tables: no duplicate, no  *)
(* retry and no cascade reopens it (worker.py:142).                        *)
THEOREM CompletedStaysCompleted ==
  ASSUME SingleSource, MaxFaults = 0
  PROVE  Spec => CompletedIsFinal
<1> DEFINE Kept == \A t \in Task : "completed" \in results[t] =>
             status'[t] = "completed" /\ es'[t] = "completed" /\ results'[t] = {"completed"}
<1>1. RunTypeOK /\ TokenInv /\ RunInv => CompletedEntries
  BY CompletedEntry DEF CompletedEntries
<1>2. ASSUME RunTypeOK, CompletedEntries', [Next]_vars PROVE Kept
  <2> SUFFICES ASSUME NEW t \in Task, "completed" \in results[t]
               PROVE  status'[t] = "completed" /\ es'[t] = "completed"
                      /\ results'[t] = {"completed"}
    OBVIOUS
  <2>1. "completed" \in results'[t]
    BY <1>2, ResultsStay
  <2> QED BY <1>2, <2>1 DEF CompletedEntries, Entry, Settled
<1>3. RunTypeOK /\ CompletedEntries' /\ [Next]_vars => [Kept]_vars
  BY <1>2
<1>4. Spec => []RunTypeOK /\ []CompletedEntries /\ [][Next]_vars
  BY <1>1, RunInduction, PTL DEF Spec
<1> HIDE DEF Kept
<1>5. Spec => [][Kept]_vars
  BY <1>3, <1>4, PTL
<1> QED BY <1>5 DEF CompletedIsFinal, Kept

(* A row that says completed has its result, or its worker writes it next; *)
(* the DAG may still have the task as pending, but a task it has as        *)
(* completed or failed has a row that agrees.                              *)
LEMMA RowCases ==
  ASSUME RunTypeOK, RunInv, NEW t \in Task
  PROVE  /\ status[t] = "completed" => Recorded(t)
         /\ status[t] = "completed" => dag[t] # "failed"
         /\ dag[t] = "completed" => status[t] = "completed"
<1>1. ASSUME NEW w \in Worker, Entry(t) = ExpectedBelow(pc[w]) PROVE status[t] # "completed"
  BY <1>1 DEF ExpectedBelow, Untouched, Entry
<1>2. ASSUME Entry(t) \in Waitable PROVE status[t] # "completed"
  BY <1>2 DEF Waitable, Untouched, Entry
<1>3. ASSUME NEW w \in Worker, Carries(w, t), Entry(t) \in Expected(pc[w]),
             status[t] = "completed"
      PROVE  Recorded(t)
  BY <1>3 DEF Expected, Waitable, Untouched, Entry, Settled, Recorded, Carries, At
<1>4. ASSUME Entry(t) = Settled(dag[t]) PROVE status[t] = dag[t] /\ results[t] = {dag[t]}
  BY <1>4 DEF Entry, Settled
<1> QED BY <1>1, <1>2, <1>3, <1>4, EntryCases DEF Recorded

(* No step takes a completed row back.                                     *)
LEMMA RowsStay ==
  ASSUME SingleSource, RunTypeOK, TokenInv, RunInv, faults' = 0, [Next]_vars,
         NEW t \in Task, status[t] = "completed"
  PROVE  status'[t] = "completed"
<1>0. /\ status \in [Task -> TaskStatus] /\ faults \in Nat
      /\ \A w \in Worker : pc[w] # "idle" => Doing(w) \in Task /\ job[w] # NoMsg
  BY WorkerAssumption, MsgParts DEF RunTypeOK, TypeOK, Doing, Msg
<1>1. \A w \in Worker, x \in Task :
         Carries(w, x) /\ pc[w] \in {"claimed", "retryRow", "failRow"} => status[x] # "completed"
  BY DEF RunInv, CarriersTell, Expected, Entry
<1>2. \A w \in Worker : FailsBelow(w) /\ pc[w] = "failRow" => status[target[w]] # "completed"
  BY DEF RunInv, CallbackInv, ExpectedBelow, Entry
<1>3. ASSUME NEW w \in Worker, NEW x \in Task, NEW s, SetRow(x, s),
             s = "completed" \/ status[x] # "completed"
      PROVE  status'[t] = "completed"
  BY <1>0, <1>3 DEF SetRow
<1>4. ASSUME NEW w \in Worker, Work(w) PROVE status'[t] = "completed"
  <2>1. CASE MarkRunning(w)
    <3>1. Doing(w) \in Task /\ status[Doing(w)] # "completed"
      BY <1>0, <1>1, <2>1 DEF MarkRunning, At, Carries, ClaimHeld
    <3> QED BY <1>3, <2>1, <3>1 DEF MarkRunning
  <2>2. CASE RetryRow(w)
    <3>1. Doing(w) \in Task /\ status[Doing(w)] # "completed"
      BY <1>0, <1>1, <2>2 DEF RetryRow, At, Carries, ClaimHeld
    <3> QED BY <1>3, <2>2, <3>1 DEF RetryRow
  <2>3. CASE FailRow(w)
    <3>1. target[w] \in Task /\ pc[w] = "failRow"
      BY <2>3 DEF FailRow, At, RunTypeOK, TypeOK
    <3>2. status[target[w]] # "completed"
      BY <1>0, <1>1, <1>2, <3>1 DEF Carries, FailsBelow, Failing
    <3> QED BY <1>3, <2>3, <3>1, <3>2 DEF FailRow
  <2>4. CASE CompleteRow(w)
    <3>1. Doing(w) \in Task
      BY <1>0, <2>4 DEF CompleteRow, At
    <3> QED BY <1>3, <2>4, <3>1 DEF CompleteRow
  <2>5. CASE (ProcessStep(w) /\ ~ MarkRunning(w)) \/ ExecuteStep(w)
    BY <2>5 DEF ProcessStep, SkipCompleted, Admit, Refuse, PutBack, Claim, LoseClaim,
       ExecuteStep, Begin, HandlerSucceeds, VerifierRejects, HandlerRaises, storeVars
  <2>6. CASE (CompleteStep(w) /\ ~ CompleteRow(w)) \/ (RetryStep(w) /\ ~ RetryRow(w)) \/ Requeue(w)
    BY <2>6 DEF CompleteStep, CompleteState, CompleteResult, AckCompleted, RetryStep, RetryState,
       RetryMark, AckRetried, Requeue, storeVars
  <2>7. CASE (DeadLetterStep(w) /\ ~ FailRow(w)) \/ DeadLetter(w)
    BY <2>7 DEF DeadLetterStep, FailState, FailResult, AckDead, DeadLetter, storeVars
  <2> QED BY <1>4, <2>1, <2>2, <2>3, <2>4, <2>5, <2>6, <2>7
          DEF Work, WorkerStep, ProcessStep, CompleteStep, RetryStep, DeadLetterStep
<1>5. ASSUME NEW w \in Worker, Poll(w) \/ CallbackStep(w) PROVE status' = status
  BY <1>5 DEF Poll, Fetch, CallbackStep, OnDone, OnFail, EndCallback, AdvanceTo, CascadeTo, storeVars
<1>6. ASSUME NEW w \in Worker, Fault(w) \/ RaiseInOnDone(w) \/ RaiseInOnFail(w) PROVE FALSE
  <2>1. faults' = faults + 1
    BY <1>6 DEF Fault, FaultStep, RaiseInTry, RaiseOutside, RaiseInDeadLetter, RaiseInOnDone,
       RaiseInOnFail
  <2> QED BY <1>0, <2>1
<1>7. CASE MainStep \/ Deadline \/ UNCHANGED vars
  BY <1>7 DEF MainStep, DispatchRoot, PublishRoot, AllResolved, CountRows, Report, Deadline, vars,
     wvars, storeVars
<1> QED BY <1>4, <1>5, <1>6, <1>7 DEF Next

(* So what was counted as completed is still so when it is reported.       *)
LEMMA CountInduction ==
  ASSUME SingleSource, MaxFaults = 0
  PROVE  Spec => []CountInv
<1>1. Init => CountInv
  BY DEF Init, CountInv
<1>2. ASSUME RunTypeOK, RunTypeOK', TokenInv, RunInv, CountInv, [Next]_vars PROVE CountInv'
  <2>1. faults' = 0
    BY <1>2 DEF RunTypeOK, TypeOK
  <2>2. \A t \in Task : status[t] = "completed" => status'[t] = "completed"
    BY <1>2, <2>1, RowsStay
  <2>3. count' = count \/ CountRows
    BY <1>2 DEF Next, MainStep, DispatchRoot, PublishRoot, AllResolved, Report, Deadline, Poll, Work,
       Fault, CallbackStep, OnDone, OnFail, AdvanceTo, CascadeTo, EndCallback, RaiseInOnDone,
       RaiseInOnFail, runVars, vars
  <2>4. CASE CountRows
    BY <2>2, <2>4 DEF CountRows, CountInv
  <2>5. CASE count' = count
    BY <1>2, <2>2, <2>5 DEF CountInv
  <2> QED BY <2>3, <2>4, <2>5
<1> QED BY <1>1, <1>2, RunInduction, PTL DEF Spec

(* aggregate reports completed only when every task has its result, or its *)
(* worker is one commit away from it, and counts a failure only when       *)
(* something was dead-lettered or is still open, whatever the workers that *)
(* outlast pool.stop are doing (worker.py:348, orchestrator.py:189).       *)
THEOREM ReportIsTruthful ==
  ASSUME SingleSource, MaxFaults = 0
  PROVE  Spec => ReportTruthful
<1> DEFINE Truthful ==
      /\ main = "stopping" /\ main' = "counted" =>
           IF count' = "completed"
           THEN \A t \in Task : Recorded(t)
           ELSE dlq # {} \/ \E t \in Task : dag[t] = "pending"
      /\ main = "counted" /\ main' = "reported" /\ wf' = "completed" =>
           \A t \in Task : Recorded(t)
<1>1. ASSUME RunTypeOK, RunInv, [Next]_vars
      PROVE  /\ main = "stopping" /\ main' = "counted" => CountRows
             /\ main = "counted" /\ main' = "reported" => Report
  BY <1>1 DEF Next, MainStep, DispatchRoot, PublishRoot, AllResolved, CountRows, Report, Deadline, Poll,
     Work, Fault, CallbackStep, OnDone, OnFail, AdvanceTo, CascadeTo, EndCallback, RaiseInOnDone,
     RaiseInOnFail, runVars, vars
<1>2. ASSUME RunTypeOK, RunInv, CountRows
      PROVE  IF count' = "completed"
             THEN \A t \in Task : Recorded(t)
             ELSE dlq # {} \/ \E t \in Task : dag[t] = "pending"
  <2>1. CASE \A t \in Task : status[t] = "completed"
    BY <1>2, <2>1, RowCases DEF CountRows
  <2>2. CASE \E t \in Task : status[t] # "completed"
    <3>1. PICK t \in Task : dag[t] # "completed"
      BY <1>2, <2>2, RowCases
    <3>2. dag[t] = "failed" => dlq # {}
      BY <1>2 DEF RunInv, CauseInv
    <3>3. dag[t] \in {"pending", "failed"}
      BY <1>2, <3>1 DEF RunTypeOK
    <3> QED BY <1>2, <2>2, <3>2, <3>3 DEF CountRows
  <2> QED BY <2>1, <2>2
<1>3. ASSUME RunTypeOK, RunInv, CountInv, Report, wf' = "completed"
      PROVE  \A t \in Task : Recorded(t)
  BY <1>3, RowCases DEF Report, CountInv
<1>4. RunTypeOK /\ RunInv /\ CountInv /\ [Next]_vars => [Truthful]_vars
  BY <1>1, <1>2, <1>3
<1>5. Spec => [](RunTypeOK /\ RunInv /\ CountInv) /\ [][Next]_vars
  BY RunInduction, CountInduction, PTL DEF Spec
<1> HIDE DEF Truthful
<1>6. Spec => [][Truthful]_vars
  BY <1>4, <1>5, PTL
<1> QED BY <1>6 DEF ReportTruthful, Truthful

-----------------------------------------------------------------------------
(* The refinement of DagRun.                                               *)

(* The phase of every task under the refinement mapping.                   *)
Phases == [t \in Task |-> Phase(t)]

(* Both modules read descendants off the same graph.                       *)
LEMMA SameDescendants == \A t : Abstract!Descendants(t) = Descendants(t)
BY DEF Abstract!Descendants, Abstract!ClosedFrom, Abstract!Dependents, Descendants, ClosedFrom,
       Dependents

(* A step of the run that leaves DAG, dispatched set, count and verdict    *)
(* alone and completes no row is invisible in DagRun.                      *)
LEMMA Invisible ==
  ASSUME UNCHANGED <<dag, dispatched, count, wf>>,
         \A t \in Task : status'[t] = "completed" <=> status[t] = "completed"
  PROVE  UNCHANGED <<Phases, count, wf>>
<1>1. \A t \in Task : Phase(t)' = Phase(t)
  BY DEF Phase
<1> QED BY <1>1 DEF Phases

(* A step that changes one phase.                                          *)
LEMMA OnePhase ==
  ASSUME NEW t \in Task, NEW p, Phase(t)' = p, \A x \in Task \ {t} : Phase(x)' = Phase(x)
  PROVE  Phases' = [Phases EXCEPT ![t] = p]
BY DEF Phases

(* Dispatching a pending task activates it.                                *)
LEMMA Activates ==
  ASSUME RunTypeOK, RunInv, NEW t \in Task, t \notin dispatched, dag[t] = "pending",
         \A d \in Deps[t] : dag[d] = "completed",
         dispatched' = dispatched \cup {t}, UNCHANGED <<dag, status, count, wf>>
  PROVE  Abstract!Activate(t)
<1>0. status[t] # "completed"
  BY DEF RunInv, DagInv, Entry, Untouched
<1>1. Phase(t) = "waiting" /\ Phase(t)' = "active" /\ \A x \in Task \ {t} : Phase(x)' = Phase(x)
  BY <1>0 DEF Phase
<1>2. \A d \in Deps[t] : d \in Task /\ Phase(d) = "done"
  BY RowCases, GraphAssumption DEF Phase
<1>3. Phases[t] = "waiting" /\ \A d \in Deps[t] : Phases[d] = "done"
  BY <1>1, <1>2 DEF Phases
<1>4. Phases' = [Phases EXCEPT ![t] = "active"]
  BY <1>1, OnePhase
<1> QED BY <1>3, <1>4 DEF Abstract!Activate, Phases

(* A worker finishes its task with the second commit of mark_completed.    *)
LEMMA Finishes ==
  ASSUME SingleSource, RunTypeOK, TokenInv, RunInv, NEW w \in Worker, CompleteRow(w),
         UNCHANGED runVars, NEW t \in Task, t = Doing(w)
  PROVE  Abstract!DagNext
<1>0. /\ pc[w] = "doneRow" /\ t \in Task /\ job[w] # NoMsg /\ status \in [Task -> TaskStatus]
      /\ status' = [status EXCEPT ![t] = "completed"] /\ UNCHANGED <<dag, dispatched, count, wf>>
  BY WorkerAssumption, MsgParts DEF CompleteRow, At, SetRow, RunTypeOK, TypeOK, Msg, Doing, runVars
<1>1. Carries(w, t)
  BY <1>0 DEF Carries, ClaimHeld
<1>2. dag[t] = "pending" /\ t \in dispatched /\ status[t] = "running"
  BY <1>0, <1>1, CarrierAlone DEF RunInv, CarriersTell, Expected, Entry
<1>3. status'[t] = "completed" /\ \A x \in Task \ {t} : status'[x] = status[x]
  BY <1>0
<1>4. Phase(t) = "active" /\ Phase(t)' = "done" /\ \A x \in Task \ {t} : Phase(x)' = Phase(x)
  BY <1>0, <1>2, <1>3 DEF Phase
<1>5. Phases[t] = "active" /\ Phases' = [Phases EXCEPT ![t] = "done"]
  BY <1>4, OnePhase DEF Phases
<1> QED BY <1>0, <1>5 DEF Abstract!DagNext, Abstract!Finish, Phases

(* Its other steps complete no row and take none back.                     *)
LEMMA KeepRows ==
  ASSUME SingleSource, RunTypeOK, TokenInv, RunInv, faults' = 0, [Next]_vars,
         NEW w \in Worker, Work(w), ~ CompleteRow(w), NEW t \in Task
  PROVE  status'[t] = "completed" <=> status[t] = "completed"
<1>0. status \in [Task -> TaskStatus]
  BY DEF RunTypeOK, TypeOK
<1>1. status'[t] = "completed" => status[t] = "completed"
  <2>1. CASE MarkRunning(w) \/ RetryRow(w) \/ FailRow(w)
    BY <1>0, <2>1 DEF MarkRunning, RetryRow, FailRow, SetRow
  <2>2. CASE (ProcessStep(w) /\ ~ MarkRunning(w)) \/ ExecuteStep(w)
    BY <2>2 DEF ProcessStep, SkipCompleted, Admit, Refuse, PutBack, Claim, LoseClaim,
       ExecuteStep, Begin, HandlerSucceeds, VerifierRejects, HandlerRaises, storeVars
  <2>3. CASE CompleteStep(w) \/ (RetryStep(w) /\ ~ RetryRow(w)) \/ Requeue(w)
    BY <2>3 DEF CompleteStep, CompleteState, CompleteResult, AckCompleted, RetryStep, RetryState,
       RetryMark, AckRetried, Requeue, storeVars
  <2>4. CASE (DeadLetterStep(w) /\ ~ FailRow(w)) \/ DeadLetter(w)
    BY <2>4 DEF DeadLetterStep, FailState, FailResult, AckDead, DeadLetter, storeVars
  <2> QED BY <2>1, <2>2, <2>3, <2>4 DEF Work, WorkerStep, ProcessStep, RetryStep, DeadLetterStep
<1> QED BY <1>1, RowsStay

(* on_done tells the DAG what the row says already.                        *)
LEMMA OnDoneInvisible ==
  ASSUME SingleSource, RunTypeOK, TokenInv, RunInv, NEW w \in Worker, OnDone(w)
  PROVE  UNCHANGED <<Phases, count, wf>>
<1> DEFINE t == Doing(w)
<1>0. /\ pc[w] = "onDone" /\ t \in Task /\ job[w] # NoMsg
      /\ dag' = [dag EXCEPT ![t] = "completed"] /\ UNCHANGED <<status, dispatched, count, wf>>
  BY WorkerAssumption, MsgParts DEF OnDone, At, RunTypeOK, TypeOK, Msg, Doing
<1>1. status[t] = "completed"
  BY <1>0 DEF RunInv, CarriersTell, Carries, Expected, Entry, Settled
<1>2. \A x \in Task \ {t} : dag'[x] = dag[x]
  BY <1>0 DEF RunTypeOK
<1>3. \A x \in Task : Phase(x)' = Phase(x)
  BY <1>0, <1>1, <1>2 DEF Phase
<1> QED BY <1>0, <1>3 DEF Phases

(* on_fail fails an active task.                                           *)
LEMMA OnFailFails ==
  ASSUME SingleSource, RunTypeOK, TokenInv, RunInv, NEW w \in Worker, OnFail(w),
         NEW t \in Task, t = Doing(w)
  PROVE  Abstract!DagNext
<1>0. /\ pc[w] = "onFail" /\ t \in Task /\ job[w] # NoMsg
      /\ dag' = [dag EXCEPT ![t] = "failed"] /\ UNCHANGED <<status, dispatched, count, wf>>
  BY WorkerAssumption, MsgParts DEF OnFail, At, RunTypeOK, TypeOK, Msg, Doing
<1>1. Carries(w, t)
  BY <1>0 DEF Carries
<1>2. dag[t] = "pending" /\ t \in dispatched /\ status[t] = "failed"
  BY <1>0, <1>1, CarrierAlone DEF RunInv, CarriersTell, Expected, Entry, Settled
<1>3. dag'[t] = "failed" /\ \A x \in Task \ {t} : dag'[x] = dag[x]
  BY <1>0 DEF RunTypeOK
<1>4. Phase(t) = "active" /\ Phase(t)' = "failed" /\ \A x \in Task \ {t} : Phase(x)' = Phase(x)
  BY <1>0, <1>2, <1>3 DEF Phase
<1>5. Phases[t] = "active" /\ Phases' = [Phases EXCEPT ![t] = "failed"]
  BY <1>4, OnePhase DEF Phases
<1> QED BY <1>0, <1>5 DEF Abstract!DagNext, Abstract!Fail, Phases

(* The cascade skips a task below a failed one.                            *)
LEMMA Skips ==
  ASSUME RunTypeOK, TokenInv, RunInv, NEW w \in Worker, NEW t \in Task, CascadeTo(w, t),
         dag[t] = "pending"
  PROVE  Abstract!Skip(t)
<1> DEFINE c == Doing(w)
<1>1. /\ c \in Task /\ c \in dispatched /\ dag[c] = "failed" /\ t \in Descendants(c)
      /\ t \notin dispatched
  <2>1. pc[w] = "cascade" /\ t \in todo[w]
    BY DEF CascadeTo, At
  <2>2. c \in Task /\ c \in dispatched
    BY <2>1, MsgParts DEF RunTypeOK, TypeOK, TokenInv, OnlyDispatched, Doing
  <2>3. dag[c] = "failed" /\ t \in Descendants(c)
    BY <2>1 DEF RunInv, CallbackInv, Cascading
  <2> QED BY <2>2, <2>3, NothingBelowStarted DEF RunInv
<1>2. dag' = [dag EXCEPT ![t] = "failed"] /\ UNCHANGED <<status, dispatched, count, wf>>
  BY DEF CascadeTo, storeVars
<1>3. dag'[t] = "failed" /\ \A x \in Task \ {t} : dag'[x] = dag[x]
  BY <1>2 DEF RunTypeOK
<1>4. status[t] # "completed" /\ status[c] # "completed"
  BY <1>1, RowCases DEF RunInv, DagInv, Entry, Untouched
<1>5. Phase(t) = "waiting" /\ Phase(c) = "failed"
  BY <1>1, <1>4 DEF Phase
<1>6. Phase(t)' = "skipped" /\ \A x \in Task \ {t} : Phase(x)' = Phase(x)
  BY <1>1, <1>2, <1>3, <1>4 DEF Phase
<1>7. Phases' = [Phases EXCEPT ![t] = "skipped"]
  BY <1>6, OnePhase
<1>8. Phases[t] = "waiting" /\ Phases[c] = "failed"
  BY <1>1, <1>5 DEF Phases
<1> QED BY <1>1, <1>2, <1>7, <1>8, SameDescendants DEF Abstract!Skip, Phases

(* aggregate counts the rows, DagRun the phases, and both keep the count   *)
(* until the verdict.                                                      *)
LEMMA Concludes ==
  ASSUME RunTypeOK, RunInv
  PROVE  /\ CountRows => Abstract!Count
         /\ Report => Abstract!Conclude
<1>1. ASSUME NEW t \in Task PROVE status[t] = "completed" <=> Phases[t] = "done"
  <2>1. Phases[t] = Phase(t)
    BY DEF Phases
  <2>2. status[t] = "completed" => Phase(t) = "done"
    BY DEF Phase
  <2>3. status[t] # "completed" => Phase(t) \in {"failed", "skipped", "active", "waiting"}
    BY RowCases DEF Phase, RunTypeOK
  <2> QED BY <2>1, <2>2, <2>3
<1>2. CountRows \/ Report => UNCHANGED Phases
  <2> SUFFICES ASSUME UNCHANGED <<status, dag, dispatched>> PROVE UNCHANGED Phases
    BY DEF CountRows, Report, wvars, storeVars
  <2> QED BY DEF Phases, Phase
<1>3. ASSUME CountRows PROVE Abstract!Count
  <2>1. count = "running" /\ wf' = wf
    BY <1>3 DEF CountRows, RunInv, CauseInv
  <2> QED BY <1>1, <1>2, <1>3, <2>1 DEF CountRows, Abstract!Count, Phases
<1>4. ASSUME Report PROVE Abstract!Conclude
  <2>1. count # "running" /\ wf = "running" /\ wf' = count /\ count' = count
    BY <1>4 DEF Report, RunInv, CauseInv
  <2> QED BY <1>2, <1>4, <2>1 DEF Abstract!Conclude, Phases
<1> QED BY <1>3, <1>4

(* Every step of a run is a step of DagRun or invisible in it.             *)
LEMMA StepSimulation ==
  ASSUME SingleSource, MaxFaults = 0, RunTypeOK, RunTypeOK', TokenInv, RunInv, [Next]_vars
  PROVE  [Abstract!DagNext]_(Abstract!dagVars)
<1>0. faults' = 0
  BY DEF RunTypeOK, TypeOK
<1>1. ASSUME UNCHANGED <<dag, dispatched, count, wf>>,
             \A t \in Task : status'[t] = "completed" <=> status[t] = "completed"
      PROVE  UNCHANGED (Abstract!dagVars)
  BY <1>1, Invisible DEF Abstract!dagVars, Phases
<1>2. ASSUME NEW t \in Task, DispatchRoot(t) PROVE Abstract!DagNext
  <2>1. t \notin dispatched /\ dag[t] = "pending" /\ Deps[t] = {}
    BY <1>2 DEF DispatchRoot, RunInv, FirstPublish, TokenInv, RootsLeft, Roots
  <2> QED BY <1>2, <2>1, Activates DEF DispatchRoot, Abstract!DagNext, wvars, storeVars
<1>3. CASE CountRows \/ Report
  BY <1>3, Concludes DEF Abstract!DagNext
<1>4. CASE PublishRoot \/ AllResolved \/ Deadline
  BY <1>1, <1>4 DEF PublishRoot, AllResolved, Deadline, wvars, storeVars
<1>5. ASSUME NEW w \in Worker, Poll(w) \/ EndCallback(w) PROVE UNCHANGED (Abstract!dagVars)
  BY <1>1, <1>5 DEF Poll, Fetch, EndCallback, runVars, storeVars
<1>6. ASSUME NEW w \in Worker, Work(w)
      PROVE  Abstract!DagNext \/ UNCHANGED (Abstract!dagVars)
  <2>1. CASE CompleteRow(w)
    <3>1. Doing(w) \in Task
      BY <2>1, MsgParts DEF CompleteRow, At, RunTypeOK, TypeOK, Doing
    <3> QED BY <1>6, <2>1, <3>1, Finishes DEF Work
  <2>2. CASE ~ CompleteRow(w)
    BY <1>0, <1>1, <1>6, <2>2, KeepRows DEF Work, runVars
  <2> QED BY <2>1, <2>2
<1>7. ASSUME NEW w \in Worker, OnDone(w) \/ OnFail(w)
      PROVE  Abstract!DagNext \/ UNCHANGED (Abstract!dagVars)
  <2>1. Doing(w) \in Task
    BY <1>7, MsgParts DEF OnDone, OnFail, At, RunTypeOK, TypeOK, Doing
  <2> QED BY <1>7, <2>1, OnDoneInvisible, OnFailFails DEF Abstract!dagVars, Phases
<1>8. ASSUME NEW w \in Worker, NEW t \in Task, AdvanceTo(w, t)
      PROVE  Abstract!DagNext \/ UNCHANGED (Abstract!dagVars)
  <2>1. t \in ReadyTasks(dag) /\ UNCHANGED <<status, dag, count, wf>>
    BY <1>8 DEF AdvanceTo, At, RunInv, CallbackInv, storeVars
  <2> QED BY <1>1, <1>8, <2>1, Activates DEF AdvanceTo, ReadyTasks, Abstract!DagNext
<1>9. ASSUME NEW w \in Worker, NEW t \in Task, CascadeTo(w, t)
      PROVE  Abstract!DagNext \/ UNCHANGED (Abstract!dagVars)
  BY <1>1, <1>9, Skips DEF CascadeTo, Abstract!DagNext, storeVars
<1>10. ASSUME NEW w \in Worker, Fault(w) \/ RaiseInOnDone(w) \/ RaiseInOnFail(w) PROVE FALSE
  <2>1. faults < MaxFaults
    BY <1>10 DEF Fault, FaultStep, RaiseInTry, RaiseOutside, RaiseInDeadLetter, RaiseInOnDone,
       RaiseInOnFail
  <2> QED BY <2>1 DEF RunTypeOK, TypeOK
<1>11. CASE UNCHANGED vars
  BY <1>1, <1>11 DEF vars, wvars, runVars, storeVars
<1> QED BY <1>2, <1>3, <1>4, <1>5, <1>6, <1>7, <1>8, <1>9, <1>10, <1>11
        DEF Next, MainStep, CallbackStep

(* A run of workers, messages, retries and callbacks is a run of DagRun:   *)
(* tasks are activated after their dependencies, settle once, are skipped  *)
(* only below a failure, and the verdict is their count, however late the  *)
(* workers are when the main thread stops waiting (README.md:127).         *)
THEOREM RunImplementsDag ==
  ASSUME SingleSource, MaxFaults = 0
  PROVE  Spec => RunsTheDag
<1>1. Init => Abstract!DagInit
  BY DEF Init, WorkerInit, Abstract!DagInit, Phase
<1>2. RunTypeOK /\ RunTypeOK' /\ TokenInv /\ RunInv /\ [Next]_vars
        => [Abstract!DagNext]_(Abstract!dagVars)
  BY StepSimulation
<1> QED BY <1>1, <1>2, RunInduction, PTL DEF Spec, RunsTheDag, Abstract!DagSpec

-----------------------------------------------------------------------------
(* A chain with a store that raises.                                       *)

(* A busy worker is alone: nobody else is busy and no message waits.       *)
LEMMA AloneAtWork ==
  ASSUME SingleSource, RunTypeOK, TokenInv, ChainInv, NEW w \in Worker, Busy(w)
  PROVE  /\ Doing(w) \in Task /\ Live(Doing(w))
         /\ \A v \in Worker \ {w} : ~ Busy(v)
         /\ \A m \in Msg : ~ (queue[m] > 0)
<1>1. Doing(w) \in Task /\ Live(Doing(w))
  BY MsgParts DEF RunTypeOK, TypeOK, Busy, Doing, Live
<1>2. PublishedOnce(Doing(w))
  BY <1>1 DEF SingleSource
<1>3. ASSUME NEW v \in Worker, Busy(v) PROVE v = w
  <2>1. Doing(v) \in Task /\ Live(Doing(v))
    BY <1>3, MsgParts DEF RunTypeOK, TypeOK, Busy, Doing, Live
  <2>2. Doing(v) = Doing(w)
    BY <1>1, <2>1 DEF ChainInv, OneLive
  <2> QED BY <1>1, <1>2, <1>3, <2>2 DEF TokenInv, OneHolder, Holds, Busy
<1>4. ASSUME NEW m \in Msg, queue[m] > 0 PROVE FALSE
  <2>1. m.task \in Task /\ Live(m.task)
    BY <1>4, MsgParts DEF Live
  <2>2. m.task = Doing(w)
    BY <1>1, <2>1 DEF ChainInv, OneLive
  <2> QED BY <1>2, <1>4, <2>2 DEF TokenInv, MessageOrHolder, Holds, Busy
<1> QED BY <1>1, <1>3, <1>4

(* What a step of the one busy worker has to leave behind.                 *)
LEMMA BusyStep ==
  ASSUME SingleSource, RunTypeOK, TokenInv, ChainInv,
         NEW w \in Worker, NEW t \in Task, Busy(w), Doing(w) = t,
         \A v \in Worker \ {w} : pc'[v] = pc[v] /\ todo'[v] = todo[v],
         Busy(w)' => Doing(w)' = t /\ Told(w)',
         \A m \in Msg : queue'[m] > 0 => m.task = t /\ "failed" \notin results'[t],
         dispatched \subseteq dispatched', UNCHANGED <<main, roots, cur>>,
         \A e \in Task : dag[e] # "pending" => dag'[e] # "pending",
         \A e \in Task \ {t} :
           /\ dag[e] = "completed" => dag'[e] = "completed"
           /\ dag'[e] = "completed" => dag[e] = "completed" /\ Entry(e)' = Entry(e)
           /\ e \notin dispatched' /\ dag'[e] = "pending" => results'[e] = results[e],
         \A v \in Worker : Locked(v)'
  PROVE  ChainInv'
<1>0. /\ Live(t) /\ t \in dispatched
      /\ \A v \in Worker \ {w} : ~ Busy(v)
      /\ pc[w] # "idle"
  BY AloneAtWork DEF TokenInv, OnlyDispatched, Busy
<1>1. \A v \in Worker \ {w} : ~ Busy(v)'
  BY <1>0 DEF Busy, Spent
<1>2. ASSUME NEW s \in Task, Live(s)' PROVE s = t
  BY <1>1, <1>2 DEF Live
<1>3. OneLive'
  BY <1>2 DEF OneLive
<1>4. Behind(t)'
  <2>1. Behind(t)
    BY <1>0 DEF ChainInv
  <2>2. ASSUME NEW d \in Deps[t] PROVE d # t /\ dag'[d] = "completed"
    BY <2>1, GraphAssumption DEF Behind
  <2>3. ASSUME NEW e \in Task \ {t}, dag'[e] = "completed"
        PROVE  /\ Entry(e)' = Settled("completed")
               /\ \A s \in Task : e \in Deps[s] => s \in dispatched' \/ dag'[s] # "pending"
    BY <2>1, <2>3 DEF Behind
  <2> QED BY <2>2, <2>3 DEF Behind, Settled
<1>5. BeforePublish'
  <2>1. roots = {} /\ main # "publish"
    BY <1>0, RootsAreOut
  <2>2. \A s \in Task : s \notin dispatched' /\ dag'[s] = "pending" => results'[s] = {}
    BY <1>0 DEF ChainInv, BeforePublish
  <2>3. \A m \in Msg : queue'[m] > 0 => "failed" \notin results'[m.task]
    OBVIOUS
  <2> QED BY <2>1, <2>2, <2>3 DEF ChainInv, BeforePublish
<1>6. \A s \in Task : Live(s)' => Behind(s)'
  BY <1>2, <1>4
<1>7. \A v \in Worker : Busy(v)' => Told(v)'
  BY <1>1
<1> QED BY <1>3, <1>5, <1>6, <1>7 DEF ChainInv

(* A step that leaves everything but the places of idle workers.           *)
LEMMA QuietStep ==
  ASSUME ChainInv, UNCHANGED <<storeVars, queue, dag, dispatched, roots, cur>>,
         main' = "publish" => main = "publish",
         \A v \in Worker : Busy(v)' => Busy(v) /\ Doing(v)' = Doing(v) /\ Told(v)',
         \A v \in Worker : Locked(v)'
  PROVE  ChainInv'
<1>1. ASSUME NEW s \in Task, Live(s)' PROVE Live(s)
  BY <1>1 DEF Live
<1>2. OneLive'
  BY <1>1 DEF OneLive, ChainInv
<1>3. ASSUME NEW s \in Task, Behind(s) PROVE Behind(s)'
  BY <1>3 DEF Behind, Entry, storeVars
<1>4. BeforePublish'
  BY DEF ChainInv, BeforePublish, storeVars
<1> QED BY <1>1, <1>2, <1>3, <1>4 DEF ChainInv

(* A worker takes the one message there is.                                *)
LEMMA FetchChain ==
  ASSUME SingleSource, RunTypeOK, TokenInv, ChainInv,
         NEW w \in Worker, NEW m \in Msg, Fetch(w, m), UNCHANGED runVars
  PROVE  ChainInv'
<1>0. /\ queue \in [Msg -> Nat] /\ queue[m] > 0 /\ queue' = [queue EXCEPT ![m] = @ - 1]
      /\ pc \in [Worker -> WorkerPC] /\ pc[w] = "idle" /\ pc' = [pc EXCEPT ![w] = "check"]
      /\ job' = [job EXCEPT ![w] = m] /\ job \in [Worker -> Msg \cup {NoMsg}]
      /\ UNCHANGED <<storeVars, dag, dispatched, roots, cur, main, todo, lock, target>>
  BY DEF RunTypeOK, TypeOK, Fetch, At, GoTo, runVars
<1>1. m.task \in Task /\ Live(m.task)
  BY <1>0, MsgParts DEF Live
<1>2. \A v \in Worker : Busy(v)' => (v = w \/ (v # w /\ Busy(v) /\ Doing(v)' = Doing(v)))
  BY <1>0 DEF Busy, Spent, Doing
<1>3. Doing(w)' = m.task
  BY <1>0 DEF Doing
<1>4. ASSUME NEW s \in Task, Live(s)' PROVE Live(s)
  <2>1. CASE \E k \in Msg : k.task = s /\ queue'[k] > 0
    BY <1>0, <2>1 DEF Live
  <2>2. CASE \E v \in Worker : Busy(v)' /\ Doing(v)' = s
    BY <1>1, <1>2, <1>3, <2>2 DEF Live
  <2> QED BY <1>4, <2>1, <2>2 DEF Live
<1>5. OneLive'
  BY <1>4 DEF OneLive, ChainInv
<1>6. ASSUME NEW s \in Task, Behind(s) PROVE Behind(s)'
  BY <1>0, <1>6 DEF Behind, Entry, storeVars
<1>7. BeforePublish'
  BY <1>0 DEF ChainInv, BeforePublish, storeVars
<1>8. ASSUME NEW v \in Worker PROVE Locked(v)'
  <2>1. CASE v = w
    BY <1>0, <2>1 DEF Locked, Cascading, FailsBelow, Failing
  <2>2. CASE v # w
    <3>1. Locked(v) /\ pc'[v] = pc[v] /\ job'[v] = job[v]
      BY <1>0, <2>2 DEF ChainInv
    <3> QED BY <1>0, <3>1 DEF Locked, Cascading, FailsBelow, Doing, ReadyTasks
  <2> QED BY <2>1, <2>2
<1>9. ASSUME NEW v \in Worker, Busy(v)' PROVE Told(v)'
  <2>1. CASE v = w
    <3>1. "failed" \notin results[m.task]
      BY <1>0 DEF ChainInv, BeforePublish
    <3> QED BY <1>0, <1>3, <2>1, <3>1 DEF Told, storeVars, Failing
  <2>2. CASE v # w
    <3>1. Busy(v) /\ Doing(v)' = Doing(v) /\ pc'[v] = pc[v]
      BY <1>0, <1>2, <1>9, <2>2
    <3>2. Told(v)
      BY <3>1 DEF ChainInv
    <3> QED BY <1>0, <3>1, <3>2 DEF Told, Entry, storeVars
  <2> QED BY <2>1, <2>2
<1> QED BY <1>4, <1>5, <1>6, <1>7, <1>8, <1>9 DEF ChainInv

(* The steps of a worker outside callbacks take it nowhere near one.       *)
LEMMA WorkLocks ==
  ASSUME RunTypeOK, ChainInv, NEW w \in Worker, UNCHANGED runVars,
         \A v \in Worker \ {w} : pc'[v] = pc[v] /\ job'[v] = job[v] /\ target'[v] = target[v],
         pc'[w] # "advance",
         Cascading(w)' => Cascading(w) /\ Doing(w)' = Doing(w),
         FailsBelow(w)' => FailsBelow(w) /\ target'[w] = target[w]
  PROVE  \A v \in Worker : Locked(v)'
<1> SUFFICES ASSUME NEW v \in Worker PROVE Locked(v)'
  OBVIOUS
<1>0. Locked(v) /\ UNCHANGED <<lock, dag, todo>>
  BY DEF ChainInv, runVars
<1>1. CASE v = w
  BY <1>0, <1>1 DEF Locked
<1>2. CASE v # w
  BY <1>0, <1>2 DEF Locked, Cascading, FailsBelow, Doing, ReadyTasks
<1> QED BY <1>1, <1>2

(* What is left to check of a step of Work or Fault.                       *)
LEMMA WorkStep ==
  ASSUME SingleSource, RunTypeOK, TokenInv, ChainInv,
         NEW w \in Worker, NEW t \in Task, Busy(w), Doing(w) = t,
         UNCHANGED runVars,
         \A v \in Worker \ {w} : pc'[v] = pc[v] /\ job'[v] = job[v] /\ target'[v] = target[v],
         pc'[w] # "advance",
         pc'[w] # "idle" => job'[w] = job[w],
         Cascading(w)' => Cascading(w),
         FailsBelow(w)' => FailsBelow(w) /\ target'[w] = target[w],
         pc'[w] \notin {"idle", "retryAck"} => Told(w)',
         \A m \in Msg : queue'[m] > 0 =>
           queue[m] > 0 \/ (m.task = t /\ "failed" \notin results'[t]),
         NEW x \in Task, x = t \/ dag[x] = "failed",
         \A e \in Task \ {x} : Entry(e)' = Entry(e)
  PROVE  ChainInv'
<1>1. \A m \in Msg : ~ (queue[m] > 0)
  BY AloneAtWork
<1>2. Busy(w)' => pc'[w] \notin {"idle", "retryAck"}
  BY DEF Busy
<1>3. Cascading(w)' => Doing(w)' = Doing(w)
  BY DEF Cascading, FailsBelow, Failing, Doing
<1>4. \A v \in Worker : Locked(v)'
  BY <1>3, WorkLocks
<1>5. /\ UNCHANGED <<dag, dispatched, main, roots, cur>>
      /\ \A v \in Worker \ {w} : todo'[v] = todo[v]
  BY DEF runVars
<1>6. Busy(w)' => Doing(w)' = t /\ Told(w)'
  BY <1>2 DEF Doing
<1>7. \A e \in Task \ {t} :
        /\ dag'[e] = "completed" => Entry(e)' = Entry(e)
        /\ dag'[e] = "pending" => results'[e] = results[e]
  BY <1>5 DEF Entry
<1> QED BY <1>1, <1>4, <1>5, <1>6, <1>7, BusyStep

(* Up to the claim.                                                        *)
LEMMA ProcessChain ==
  ASSUME SingleSource, RunTypeOK, TokenInv, ChainInv,
         NEW w \in Worker, ProcessStep(w), UNCHANGED runVars
  PROVE  ChainInv'
<1>0. /\ pc[w] \in {"check", "refused", "claim", "claimed"}
      /\ pc \in [Worker -> WorkerPC] /\ job \in [Worker -> Msg \cup {NoMsg}]
      /\ target \in [Worker -> Task \cup {NoTask}] /\ queue \in [Msg -> Nat]
      /\ es \in [Task -> TaskStatus] /\ status \in [Task -> TaskStatus]
      /\ job[w] \in Msg
  BY DEF RunTypeOK, TypeOK, ProcessStep, SkipCompleted, Admit, Refuse, PutBack, Claim, LoseClaim,
         MarkRunning, At
<1>1. Busy(w)
  BY <1>0 DEF Busy, Spent
<1>2. PICK t \in Task : Doing(w) = t
  BY <1>1, AloneAtWork
<1>3. Told(w) /\ "failed" \notin results[t]
  BY <1>0, <1>1, <1>2 DEF ChainInv, Told, Failing
<1>4. \A m \in Msg : ~ (queue[m] > 0)
  BY <1>1, AloneAtWork
<1>5. /\ \A v \in Worker \ {w} : pc'[v] = pc[v] /\ job'[v] = job[v] /\ target'[v] = target[v]
      /\ pc'[w] \in {"idle", "refused", "claim", "claimed", "begin"}
      /\ pc'[w] # "idle" => job'[w] = job[w]
      /\ results' = results
      /\ \A e \in Task \ {t} : es'[e] = es[e] /\ status'[e] = status[e]
  BY <1>0, <1>2 DEF ProcessStep, SkipCompleted, Admit, Refuse, PutBack, Claim, LoseClaim,
         MarkRunning, At, GoTo, Release, SetState, SetRow, storeVars, Doing
<1>6. \A e \in Task \ {t} : Entry(e)' = Entry(e)
  BY <1>5 DEF Entry
<1>7. pc'[w] # "idle" => Told(w)'
  BY <1>2, <1>3, <1>5 DEF Told, Failing, Doing
<1>8. \A m \in Msg : queue'[m] > 0 => m = job[w]
  BY <1>0, <1>4 DEF ProcessStep, SkipCompleted, Admit, Refuse, PutBack, Claim, LoseClaim,
         MarkRunning, Enqueue, busVars
<1>9. ~ Cascading(w)' /\ ~ FailsBelow(w)' /\ pc'[w] # "advance"
  BY <1>5 DEF Cascading, FailsBelow, Failing
<1>10. \A m \in Msg : queue'[m] > 0 => m.task = t /\ "failed" \notin results'[t]
  BY <1>2, <1>3, <1>5, <1>8 DEF Doing
<1> HIDE DEF Cascading, FailsBelow
<1> QED BY <1>1, <1>2, <1>5, <1>6, <1>7, <1>9, <1>10, WorkStep

(* From the handler to the acknowledgement.                                *)
LEMMA ExecuteChain ==
  ASSUME SingleSource, RunTypeOK, TokenInv, ChainInv,
         NEW w \in Worker, ExecuteStep(w) \/ CompleteStep(w) \/ RaiseInTry(w), UNCHANGED runVars
  PROVE  ChainInv'
<1>0. /\ pc[w] \in {"begin", "run", "done", "doneRow", "doneResult", "doneAck"}
      /\ pc \in [Worker -> WorkerPC] /\ job \in [Worker -> Msg \cup {NoMsg}]
      /\ es \in [Task -> TaskStatus] /\ status \in [Task -> TaskStatus]
      /\ results \in [Task -> SUBSET {"completed", "failed"}]
      /\ job[w] \in Msg
  BY DEF RunTypeOK, TypeOK, ExecuteStep, CompleteStep, Begin, HandlerSucceeds, VerifierRejects,
         HandlerRaises, CompleteState, CompleteRow, CompleteResult, AckCompleted, RaiseInTry, At
<1>1. Busy(w)
  BY <1>0 DEF Busy, Spent
<1>2. PICK t \in Task : Doing(w) = t
  BY <1>1, AloneAtWork
<1>3. /\ Told(w) /\ "failed" \notin results[t]
      /\ pc[w] \in {"doneRow", "doneResult"} => es[t] = "completed"
      /\ pc[w] = "doneResult" => status[t] = "completed"
      /\ pc[w] = "doneAck" => Entry(t) = Settled("completed")
  BY <1>0, <1>1, <1>2 DEF ChainInv, Told, Failing
<1>5. /\ \A v \in Worker : job'[v] = job[v] /\ target'[v] = target[v]
      /\ \A v \in Worker \ {w} : pc'[v] = pc[v]
      /\ queue' = queue
      /\ pc'[w] \in {"run", "done", "doneRow", "doneResult", "doneAck", "onDone", "retry", "dead"}
      /\ \A e \in Task \ {t} :
           es'[e] = es[e] /\ status'[e] = status[e] /\ results'[e] = results[e]
  BY <1>0, <1>2 DEF ExecuteStep, CompleteStep, Begin, HandlerSucceeds, VerifierRejects,
         HandlerRaises, CompleteState, CompleteRow, CompleteResult, AckCompleted, RaiseInTry,
         At, GoTo, FailureRoute, SetState, SetRow, storeVars, busVars
<1>6. \A e \in Task \ {t} : Entry(e)' = Entry(e)
  BY <1>5 DEF Entry
<1>7. Told(w)'
  <2>0. Doing(w)' = t /\ "failed" \notin results'[t]
    BY <1>0, <1>2, <1>3, <1>5 DEF ExecuteStep, CompleteStep, Begin, HandlerSucceeds,
         VerifierRejects, HandlerRaises, CompleteState, CompleteRow, CompleteResult,
         AckCompleted, RaiseInTry, storeVars, Doing
  <2>1. CASE ExecuteStep(w) \/ RaiseInTry(w)
    <3>1. pc'[w] \in {"run", "done", "retry", "dead"}
      BY <1>0, <2>1 DEF ExecuteStep, Begin, HandlerSucceeds, VerifierRejects, HandlerRaises,
         RaiseInTry, GoTo, FailureRoute
    <3> QED BY <2>0, <3>1 DEF Told, Failing
  <2>2. CASE CompleteState(w)
    BY <1>0, <1>2, <2>0, <2>2 DEF CompleteState, GoTo, SetState, Told, Failing
  <2>3. CASE CompleteRow(w)
    BY <1>0, <1>2, <1>3, <2>0, <2>3 DEF CompleteRow, At, GoTo, SetRow, Told, Failing
  <2>4. CASE CompleteResult(w)
    <3>1. Entry(t)' = Settled("completed") /\ pc'[w] = "doneAck"
      BY <1>0, <1>2, <1>3, <2>4 DEF CompleteResult, At, GoTo, Entry, Settled
    <3> QED BY <2>0, <3>1 DEF Told, Failing, Settled
  <2>5. CASE AckCompleted(w)
    <3>1. Entry(t)' = Settled("completed") /\ pc'[w] = "onDone"
      BY <1>0, <1>2, <1>3, <2>5 DEF AckCompleted, At, GoTo, Entry, storeVars
    <3> QED BY <2>0, <3>1 DEF Told, Failing, Settled
  <2> QED BY <2>1, <2>2, <2>3, <2>4, <2>5 DEF CompleteStep
<1>8. ~ Cascading(w)' /\ ~ FailsBelow(w)' /\ pc'[w] # "advance"
  BY <1>5 DEF Cascading, FailsBelow, Failing
<1> HIDE DEF Cascading, FailsBelow, Told
<1> QED BY <1>1, <1>2, <1>5, <1>6, <1>7, <1>8, WorkStep

(* The retry branch, and where a raising call drops the message.           *)
LEMMA RetryChain ==
  ASSUME SingleSource, RunTypeOK, TokenInv, ChainInv,
         NEW w \in Worker, RetryStep(w) \/ Requeue(w) \/ RaiseOutside(w), UNCHANGED runVars
  PROVE  ChainInv'
<1>0. /\ pc[w] \in {"check", "claim", "claimed", "retry", "retryMark", "retryRow", "requeue",
                    "retryAck"}
      /\ pc \in [Worker -> WorkerPC] /\ job \in [Worker -> Msg \cup {NoMsg}]
      /\ target \in [Worker -> Task \cup {NoTask}] /\ queue \in [Msg -> Nat]
      /\ es \in [Task -> TaskStatus] /\ status \in [Task -> TaskStatus]
      /\ job[w] \in Msg
  BY DEF RunTypeOK, TypeOK, RetryStep, RetryState, RetryMark, RetryRow, AckRetried, Requeue,
         RaiseOutside, At
<1>a. /\ \A v \in Worker \ {w} : pc'[v] = pc[v] /\ job'[v] = job[v] /\ target'[v] = target[v]
      /\ pc'[w] \in {"idle", "retryMark", "retryRow", "requeue", "retryAck"}
      /\ pc'[w] # "idle" => job'[w] = job[w]
      /\ results' = results
      /\ \A e \in Task : e # Doing(w) => es'[e] = es[e] /\ status'[e] = status[e]
  BY <1>0 DEF RetryStep, RetryState, RetryMark, RetryRow, AckRetried, Requeue, RaiseOutside,
         At, GoTo, Release, SetState, SetRow, storeVars, Doing
<1>b. ~ Cascading(w)' /\ ~ FailsBelow(w)' /\ pc'[w] # "advance"
  BY <1>a DEF Cascading, FailsBelow, Failing
<1>1. CASE pc[w] = "retryAck"
  <2>0. /\ pc'[w] = "idle" /\ UNCHANGED <<storeVars, queue>>
    BY <1>0, <1>1 DEF RetryStep, RetryState, RetryMark, RetryRow, AckRetried, Requeue,
         RaiseOutside, At, GoTo, Release
  <2>1. \A v \in Worker : Locked(v)'
    BY <1>a, <1>b, WorkLocks
  <2>2. ASSUME NEW v \in Worker, Busy(v)' PROVE Busy(v) /\ Doing(v)' = Doing(v) /\ Told(v)'
    <3>1. v # w /\ pc'[v] = pc[v] /\ job'[v] = job[v] /\ UNCHANGED <<todo, dispatched, dag>>
      BY <1>a, <2>0, <2>2 DEF Busy, runVars
    <3>2. Busy(v) /\ Doing(v)' = Doing(v)
      BY <2>2, <3>1 DEF Busy, Spent, Doing
    <3>3. Told(v)
      BY <3>2 DEF ChainInv
    <3> QED BY <2>0, <3>1, <3>2, <3>3 DEF Told, Entry, storeVars
  <2> QED BY <2>0, <2>1, <2>2, QuietStep DEF runVars
<1>2. CASE pc[w] # "retryAck"
  <2>1. Busy(w)
    BY <1>0, <1>2 DEF Busy, Spent
  <2>2. PICK t \in Task : Doing(w) = t
    BY <2>1, AloneAtWork
  <2>3. "failed" \notin results[t]
    BY <1>0, <2>1, <2>2 DEF ChainInv, Told, Failing
  <2>4. \A m \in Msg : ~ (queue[m] > 0)
    BY <2>1, AloneAtWork
  <2>5. \A e \in Task \ {t} : Entry(e)' = Entry(e)
    BY <1>a, <2>2 DEF Entry
  <2>6. pc'[w] \notin {"idle", "retryAck"} => Told(w)'
    BY <1>a, <2>2, <2>3 DEF Told, Failing, Doing
  <2>7. \A m \in Msg : queue'[m] > 0 => m.task = t
    BY <1>0, <2>2, <2>4 DEF RetryStep, RetryState, RetryMark, RetryRow, AckRetried, Requeue,
         RaiseOutside, Enqueue, busVars
  <2>8. \A m \in Msg : queue'[m] > 0 => m.task = t /\ "failed" \notin results'[t]
    BY <1>a, <2>3, <2>7
  <2> HIDE DEF Cascading, FailsBelow, Told
  <2> QED BY <1>a, <1>b, <2>1, <2>2, <2>5, <2>6, <2>8, WorkStep
<1> QED BY <1>1, <1>2

(* Dead-lettering, and mark_failed for the worker's task or one below it.  *)
LEMMA DeadChain ==
  ASSUME SingleSource, RunTypeOK, TokenInv, ChainInv,
         NEW w \in Worker, DeadLetterStep(w) \/ DeadLetter(w) \/ RaiseInDeadLetter(w),
         UNCHANGED runVars
  PROVE  ChainInv'
<1>0. /\ pc[w] \in {"dead", "failState", "failRow", "failResult", "deadAck"}
      /\ pc \in [Worker -> WorkerPC]
      /\ target \in [Worker -> Task \cup {NoTask}]
      /\ es \in [Task -> TaskStatus] /\ status \in [Task -> TaskStatus]
      /\ results \in [Task -> SUBSET {"completed", "failed"}]
      /\ job[w] \in Msg /\ (pc[w] \in Failing => target[w] \in Task)
  BY DEF RunTypeOK, TypeOK, DeadLetterStep, DeadLetter, FailState, FailRow, FailResult, AckDead,
         RaiseInDeadLetter, At, Failing
<1>1. Busy(w)
  BY <1>0 DEF Busy, Spent
<1>2. PICK t \in Task : Doing(w) = t
  BY <1>1, AloneAtWork
<1>3. PICK x \in Task : IF FailsBelow(w) THEN x = target[w] ELSE x = t
  BY <1>0 DEF FailsBelow
<1>4. x = t \/ dag[x] = "failed"
  BY <1>3 DEF ChainInv, Locked
<1>5. /\ \A v \in Worker : job'[v] = job[v] /\ (v # w => target'[v] = target[v] /\ pc'[v] = pc[v])
      /\ queue' = queue
      /\ pc'[w] \in Failing \cup {"deadAck", "onFail", "cascade"}
  BY <1>0 DEF DeadLetterStep, DeadLetter, FailState, FailRow, FailResult, AckDead,
         RaiseInDeadLetter, At, GoTo, Failing, busVars
<1>6. \A e \in Task \ {x} : Entry(e)' = Entry(e)
  BY <1>0, <1>2, <1>3 DEF DeadLetterStep, DeadLetter, FailState, FailRow, FailResult, AckDead,
         RaiseInDeadLetter, At, SetState, SetRow, storeVars, Entry, FailsBelow, Failing
<1>7. Told(w)'
  BY <1>5 DEF Told, Failing
<1>8. /\ Cascading(w)' => Cascading(w)
      /\ FailsBelow(w)' => FailsBelow(w) /\ target'[w] = target[w]
  BY <1>0, <1>5 DEF DeadLetterStep, DeadLetter, FailState, FailRow, FailResult, AckDead,
         RaiseInDeadLetter, At, GoTo, Cascading, FailsBelow, Failing, Doing
<1>9. pc'[w] # "advance"
  BY <1>5 DEF Failing
<1> HIDE DEF Cascading, FailsBelow, Told
<1> QED BY <1>1, <1>2, <1>4, <1>5, <1>6, <1>7, <1>8, <1>9, WorkStep

(* So no step of a worker outside callbacks breaks the invariant.          *)
LEMMA WorkChain ==
  ASSUME SingleSource, RunTypeOK, TokenInv, ChainInv, NEW w \in Worker, Work(w) \/ Fault(w)
  PROVE  ChainInv'
BY ProcessChain, ExecuteChain, RetryChain, DeadChain DEF Work, Fault, WorkerStep, FaultStep

(* A callback, while its worker holds or takes the lock, is the only one.  *)
LEMMA OnlyCallback ==
  ASSUME ChainInv, NEW w \in Worker, lock = w \/ lock = NoWorker,
         NEW v \in Worker \ {w}
  PROVE  pc[v] # "advance" /\ ~ Cascading(v) /\ ~ FailsBelow(v)
BY RunAssumption DEF ChainInv, Locked, Cascading

(* What a step of a callback has to show of its lock.                      *)
LEMMA CallbackLocks ==
  ASSUME ChainInv, NEW w \in Worker, lock = w \/ lock = NoWorker,
         \A v \in Worker \ {w} : pc'[v] = pc[v] /\ job'[v] = job[v] /\ target'[v] = target[v],
         Locked(w)'
  PROVE  \A v \in Worker : Locked(v)'
<1> SUFFICES ASSUME NEW v \in Worker, v # w PROVE Locked(v)'
  OBVIOUS
<1>1. pc[v] # "advance" /\ ~ Cascading(v) /\ ~ FailsBelow(v)
  BY OnlyCallback
<1>2. pc'[v] # "advance" /\ ~ Cascading(v)' /\ ~ FailsBelow(v)'
  BY <1>1 DEF Cascading, FailsBelow, Doing
<1> QED BY <1>2 DEF Locked

(* on_done and on_fail write to the DAG what the task came to.             *)
LEMMA BeginChain ==
  ASSUME SingleSource, Chain, RunTypeOK, TokenInv, ChainInv, NEW w \in Worker,
         \/ OnDone(w) \/ OnFail(w)
         \/ (RaiseInOnDone(w) \/ RaiseInOnFail(w)) /\ pc[w] \in {"onDone", "onFail"}
  PROVE  ChainInv'
<1>0. /\ pc[w] \in {"onDone", "onFail"} /\ lock = NoWorker
      /\ pc \in [Worker -> WorkerPC] /\ dag \in [Task -> {"pending", "completed", "failed"}]
      /\ es \in [Task -> TaskStatus] /\ todo \in [Worker -> SUBSET Task] /\ job[w] \in Msg
      /\ job \in [Worker -> Msg \cup {NoMsg}] /\ target \in [Worker -> Task \cup {NoTask}]
  BY DEF RunTypeOK, TypeOK, OnDone, OnFail, RaiseInOnDone, RaiseInOnFail, At
<1>1. Busy(w)
  BY <1>0 DEF Busy, Spent
<1>2. PICK t \in Task : Doing(w) = t
  BY <1>1, AloneAtWork
<1>3. /\ Told(w)
      /\ pc[w] = "onDone" => "failed" \notin results[t] /\ Entry(t) = Settled("completed")
  BY <1>0, <1>1, <1>2 DEF ChainInv, Told, Failing
<1>4. \A m \in Msg : ~ (queue[m] > 0)
  BY <1>1, AloneAtWork
<1>5. /\ \A v \in Worker \ {w} :
           pc'[v] = pc[v] /\ job'[v] = job[v] /\ target'[v] = target[v] /\ todo'[v] = todo[v]
      /\ UNCHANGED <<queue, dispatched, main, roots, cur, results, status>>
      /\ dag' = [dag EXCEPT ![t] = IF pc[w] = "onDone" THEN "completed" ELSE "failed"]
      /\ \A e \in Task \ {t} : es'[e] = es[e]
      /\ IF pc[w] = "onDone" THEN pc'[w] \in {"advance", "retry", "dead"}
                             ELSE pc'[w] \in {"cascade", "idle"}
      /\ pc'[w] # "idle" => job'[w] = job[w]
      /\ pc'[w] = "advance" => todo'[w] = ReadyTasks(dag') /\ es'[t] = "completed"
      /\ pc'[w] \in {"advance", "cascade"} => lock' = w
  BY <1>0, <1>2 DEF OnDone, OnFail, RaiseInOnDone, RaiseInOnFail, At, GoTo, Release,
         FailureRoute, SetState, storeVars, busVars, Failing
<1>6. /\ \A e \in Task \ {t} : dag'[e] = dag[e] /\ Entry(e)' = Entry(e)
      /\ \A e \in Task : dag[e] # "pending" => dag'[e] # "pending"
  BY <1>0, <1>5 DEF Entry
<1>7. pc'[w] # "idle" => Doing(w)' = t
  BY <1>2, <1>5 DEF Doing
<1>8. Locked(w)'
  <2>1. ~ FailsBelow(w)' /\ (Cascading(w)' => pc'[w] = "cascade" /\ pc[w] = "onFail")
    BY <1>0, <1>5 DEF FailsBelow, Cascading, Failing
  <2>2. pc'[w] = "cascade" => dag'[Doing(w)'] = "failed"
    BY <1>0, <1>5, <1>7
  <2> QED BY <1>5, <2>1, <2>2 DEF Locked
<1>9. \A v \in Worker : Locked(v)'
  BY <1>0, <1>5, <1>8, CallbackLocks
<1>10. ASSUME pc'[w] = "advance" PROVE Told(w)'
  <2>1. Entry(t)' = Settled("completed")
    BY <1>0, <1>3, <1>5, <1>10 DEF Entry, Settled
  <2>2. pc[w] = "onDone" /\ dag'[t] = "completed"
    BY <1>0, <1>5, <1>10
  <2>3. ASSUME NEW s \in Task, t \in Deps[s], dag'[s] = "pending"
        PROVE  s \in todo'[w]
    <3>1. \A d \in Deps[s] : d = t
      BY <2>3 DEF Chain
    <3> QED BY <1>5, <1>10, <2>2, <2>3, <3>1 DEF ReadyTasks
  <2> QED BY <1>3, <1>5, <1>7, <1>10, <2>1, <2>2, <2>3 DEF Told, Failing, Settled
<1>11. Busy(w)' => Doing(w)' = t /\ Told(w)'
  <2>1. CASE pc'[w] \in {"retry", "dead"}
    BY <1>0, <1>3, <1>5, <1>7, <2>1 DEF Told, Failing
  <2>2. CASE pc'[w] = "cascade"
    BY <1>7, <2>2 DEF Told, Failing
  <2> QED BY <1>0, <1>5, <1>7, <1>10, <2>1, <2>2 DEF Busy
<1>12. \A e \in Task \ {t} :
         /\ dag[e] = "completed" => dag'[e] = "completed"
         /\ dag'[e] = "completed" => dag[e] = "completed" /\ Entry(e)' = Entry(e)
         /\ e \notin dispatched' /\ dag'[e] = "pending" => results'[e] = results[e]
  BY <1>5, <1>6
<1> HIDE DEF Told, Locked
<1> QED BY <1>1, <1>2, <1>4, <1>5, <1>6, <1>9, <1>11, <1>12, BusyStep

(* on_done passes over what is dispatched already.                         *)
LEMMA PassOver ==
  ASSUME RunTypeOK, ChainInv, NEW w \in Worker, NEW t \in dispatched, AdvanceTo(w, t)
  PROVE  ChainInv'
<1>0. /\ pc[w] = "advance" /\ todo' = [todo EXCEPT ![w] = @ \ {t}]
      /\ todo \in [Worker -> SUBSET Task]
      /\ UNCHANGED <<storeVars, workVars, queue, dag, dispatched, main, roots, cur, lock>>
  BY DEF RunTypeOK, AdvanceTo, At
<1>1. Locked(w) /\ lock = w
  BY <1>0 DEF ChainInv, Locked
<1>2. Locked(w)'
  <2>1. pc'[w] = "advance" /\ todo'[w] = todo[w] \ {t} /\ dag' = dag /\ lock' = w
    BY <1>0, <1>1 DEF workVars
  <2>2. ~ Cascading(w)' /\ ~ FailsBelow(w)'
    BY <2>1 DEF Cascading, FailsBelow, Failing
  <2> QED BY <1>0, <1>1, <2>1, <2>2 DEF Locked, ReadyTasks
<1>3. \A v \in Worker : Locked(v)'
  BY <1>0, <1>1, <1>2, CallbackLocks DEF workVars
<1>4. ASSUME NEW v \in Worker, Busy(v)' PROVE Busy(v) /\ Doing(v)' = Doing(v) /\ Told(v)'
  <2>1. Busy(v) /\ Doing(v)' = Doing(v) /\ pc'[v] = pc[v]
    BY <1>0, <1>4 DEF Busy, Spent, Doing, workVars
  <2>2. Told(v)
    BY <2>1 DEF ChainInv
  <2>3. todo[v] \cup dispatched = todo'[v] \cup dispatched'
    BY <1>0
  <2> QED BY <1>0, <2>1, <2>2, <2>3 DEF Told, Entry, storeVars
<1> QED BY <1>0, <1>3, <1>4, QuietStep

(* On a chain on_done publishes one task, and gives up its own with it.    *)
LEMMA PublishNext ==
  ASSUME SingleSource, Chain, RunTypeOK, TokenInv, ChainInv,
         NEW w \in Worker, NEW t \in Task, t \notin dispatched, AdvanceTo(w, t)
  PROVE  ChainInv'
<1>0. /\ pc[w] = "advance" /\ todo' = [todo EXCEPT ![w] = @ \ {t}] /\ t \in todo[w]
      /\ todo \in [Worker -> SUBSET Task] /\ queue \in [Msg -> Nat]
      /\ dispatched' = dispatched \cup {t}
      /\ queue' = [queue EXCEPT ![[task |-> t, attempt |-> attempt[t]]] = @ + 1]
      /\ UNCHANGED <<storeVars, workVars, dag, main, roots, cur, lock>>
  BY DEF RunTypeOK, TypeOK, AdvanceTo, At, Publish, Enqueue
<1>1. Busy(w)
  BY <1>0 DEF Busy, Spent
<1>2. PICK d \in Task : Doing(w) = d
  BY <1>1, AloneAtWork
<1>3. /\ Behind(d) /\ Told(w) /\ Locked(w) /\ lock = w
      /\ \A v \in Worker \ {w} : ~ Busy(v)
      /\ \A m \in Msg : ~ (queue[m] > 0)
      /\ roots = {} /\ main # "publish"
  BY <1>0, <1>1, <1>2, AloneAtWork, RootsAreOut DEF ChainInv, Locked
<1>4. /\ Entry(d) = Settled("completed")
      /\ \A s \in Task : d \in Deps[s] => s \in todo[w] \cup dispatched \/ dag[s] # "pending"
      /\ todo[w] \subseteq ReadyTasks(dag)
  BY <1>0, <1>2, <1>3 DEF Told, Locked
(* What is ready and not dispatched follows d, as does t.                  *)
<1>5. ASSUME NEW s \in todo[w], s \notin dispatched PROVE s = t
  <2>1. ASSUME NEW u \in todo[w], u \notin dispatched PROVE d \in Deps[u]
    <3>1. u \in Task /\ dag[u] = "pending" /\ \A e \in Deps[u] : dag[e] = "completed"
      BY <1>4 DEF ReadyTasks
    <3>2. u \notin Roots
      BY <1>3, <2>1 DEF ChainInv, BeforePublish
    <3>3. PICK e \in Deps[u] : e \in Task
      BY <3>1, <3>2, GraphAssumption DEF Roots
    <3> QED BY <1>3, <2>1, <3>1, <3>3 DEF Behind
  <2>2. d \in Deps[s] /\ d \in Deps[t] /\ s \in Task
    BY <1>0, <1>4, <1>5, <2>1 DEF ReadyTasks
  <2> QED BY <2>2 DEF Chain
<1>6. Spent(w)'
  BY <1>0, <1>5 DEF Spent, workVars
<1>7. \A v \in Worker : ~ Busy(v)'
  BY <1>0, <1>3, <1>6 DEF Busy, Spent, workVars
<1>8. \A m \in Msg : queue'[m] > 0 => m.task = t
  BY <1>0, <1>3
<1>9. \A s \in Task : Live(s)' => s = t
  BY <1>7, <1>8 DEF Live
<1>10. Behind(t)'
  <2>1. dag[t] = "pending" /\ \A e \in Deps[t] : dag[e] = "completed"
    BY <1>0, <1>4 DEF ReadyTasks
  <2>2. ASSUME NEW e \in Task \ {t}, dag[e] = "completed"
        PROVE  /\ Entry(e)' = Settled("completed")
               /\ \A s \in Task : e \in Deps[s] => s \in dispatched' \/ dag[s] # "pending"
    <3>0. Entry(e)' = Entry(e)
      BY <1>0 DEF Entry, storeVars
    <3>1. CASE e = d
      BY <1>0, <1>4, <1>5, <3>0, <3>1
    <3>2. CASE e # d
      BY <1>0, <1>3, <2>2, <3>0, <3>2 DEF Behind
    <3> QED BY <3>1, <3>2
  <2> QED BY <1>0, <2>1, <2>2 DEF Behind, Settled
<1>11. BeforePublish'
  <2>1. results[t] = {}
    BY <1>0, <1>4 DEF ChainInv, BeforePublish, ReadyTasks
  <2>2. \A m \in Msg : queue'[m] > 0 => "failed" \notin results'[m.task]
    BY <1>0, <1>8, <2>1 DEF storeVars
  <2>3. /\ Roots \subseteq roots' \cup dispatched'
        /\ \A s \in Task : s \notin dispatched' /\ dag'[s] = "pending" => results'[s] = {}
    BY <1>0 DEF ChainInv, BeforePublish, storeVars
  <2> QED BY <1>0, <1>3, <2>2, <2>3 DEF BeforePublish
<1>12. Locked(w)'
  <2>1. pc'[w] = "advance" /\ todo'[w] \subseteq todo[w] /\ dag' = dag /\ lock' = w
    BY <1>0, <1>3 DEF workVars
  <2>2. ~ Cascading(w)' /\ ~ FailsBelow(w)'
    BY <2>1 DEF Cascading, FailsBelow, Failing
  <2> QED BY <1>4, <2>1, <2>2 DEF Locked, ReadyTasks
<1>13. \A v \in Worker : Locked(v)'
  BY <1>0, <1>3, <1>12, CallbackLocks DEF workVars
<1> QED BY <1>7, <1>9, <1>10, <1>11, <1>13 DEF ChainInv, OneLive

(* A store call raises in the middle of on_done, or in one of the          *)
(* mark_failed of on_fail.                                                 *)
LEMMA BreakOff ==
  ASSUME SingleSource, RunTypeOK, TokenInv, ChainInv, NEW w \in Worker,
         \/ RaiseInOnDone(w) /\ pc[w] = "advance"
         \/ RaiseInOnFail(w) /\ pc[w] # "onFail"
  PROVE  ChainInv'
<1>0. /\ pc \in [Worker -> WorkerPC] /\ todo \in [Worker -> SUBSET Task]
      /\ job \in [Worker -> Msg \cup {NoMsg}] /\ target \in [Worker -> Task \cup {NoTask}]
      /\ Busy(w)
  BY DEF RunTypeOK, TypeOK, RaiseInOnDone, RaiseInOnFail, Busy, Spent, At
<1>1. PICK t \in Task : Doing(w) = t
  BY <1>0, AloneAtWork
<1>2. \A m \in Msg : ~ (queue[m] > 0)
  BY <1>0, AloneAtWork
<1>3. Locked(w) /\ Told(w) /\ lock = w
  BY <1>0 DEF ChainInv, Locked, Cascading, FailsBelow, Failing, RaiseInOnDone, RaiseInOnFail, At
<1>4. /\ \A v \in Worker \ {w} :
           pc'[v] = pc[v] /\ job'[v] = job[v] /\ target'[v] = target[v] /\ todo'[v] = todo[v]
      /\ UNCHANGED <<storeVars, queue, dag, main, roots, cur>>
      /\ dispatched \subseteq dispatched'
      /\ pc'[w] \in {"idle", "retry", "dead"}
      /\ pc'[w] # "idle" => pc[w] = "advance" /\ job'[w] = job[w]
  BY <1>0 DEF RaiseInOnDone, RaiseInOnFail, At, GoTo, Release, FailureRoute, busVars
<1>5. Locked(w)'
  BY <1>4 DEF Locked, Cascading, FailsBelow, Failing
<1>6. \A v \in Worker : Locked(v)'
  BY <1>3, <1>4, <1>5, CallbackLocks
<1>7. Busy(w)' => Doing(w)' = t /\ Told(w)'
  BY <1>1, <1>3, <1>4 DEF Busy, Told, Doing, storeVars, Failing
<1>8. \A e \in Task : Entry(e)' = Entry(e) /\ results'[e] = results[e]
  BY <1>4 DEF Entry, storeVars
<1> HIDE DEF Told, Locked
<1> QED BY <1>0, <1>1, <1>2, <1>4, <1>6, <1>7, <1>8, BusyStep

(* on_fail fails a pending task below its own, or passes over another.     *)
LEMMA CascadeChain ==
  ASSUME SingleSource, RunTypeOK, TokenInv, ChainInv,
         NEW w \in Worker, NEW x \in Task, CascadeTo(w, x)
  PROVE  ChainInv'
<1>0. /\ pc[w] = "cascade" /\ pc \in [Worker -> WorkerPC] /\ todo \in [Worker -> SUBSET Task]
      /\ target \in [Worker -> Task \cup {NoTask}]
      /\ dag \in [Task -> {"pending", "completed", "failed"}]
      /\ Busy(w)
  BY DEF RunTypeOK, TypeOK, CascadeTo, Busy, Spent, At
<1>1. PICK t \in Task : Doing(w) = t
  BY <1>0, AloneAtWork
<1>2. \A m \in Msg : ~ (queue[m] > 0)
  BY <1>0, AloneAtWork
<1>3. lock = w /\ dag[t] = "failed"
  BY <1>0, <1>1 DEF ChainInv, Locked, Cascading
<1>4. /\ \A v \in Worker \ {w} :
           pc'[v] = pc[v] /\ job'[v] = job[v] /\ target'[v] = target[v] /\ todo'[v] = todo[v]
      /\ job' = job
      /\ UNCHANGED <<storeVars, queue, dispatched, lock, main, roots, cur>>
      /\ \/ /\ dag[x] = "pending" /\ dag' = [dag EXCEPT ![x] = "failed"]
            /\ pc'[w] = "failState" /\ target'[w] = x
         \/ dag' = dag /\ pc'[w] = "cascade"
  BY <1>0 DEF CascadeTo, At, GoTo, busVars
<1>5. Locked(w)'
  BY <1>0, <1>1, <1>3, <1>4 DEF Locked, Cascading, FailsBelow, Failing, Doing
<1>6. \A v \in Worker : Locked(v)'
  BY <1>3, <1>4, <1>5, CallbackLocks
<1>7. Doing(w)' = t /\ Told(w)'
  BY <1>1, <1>4 DEF Told, Doing, Failing
<1>8. \A e \in Task :
        /\ Entry(e)' = Entry(e) /\ results'[e] = results[e]
        /\ dag[e] # "pending" => dag'[e] = dag[e]
        /\ dag'[e] = "completed" => dag[e] = "completed"
  BY <1>0, <1>4 DEF Entry, storeVars
<1> HIDE DEF Told, Locked
<1> QED BY <1>0, <1>1, <1>2, <1>4, <1>6, <1>7, <1>8, BusyStep

(* A callback that returns gives the lock back and its task up.            *)
LEMMA EndChain ==
  ASSUME RunTypeOK, ChainInv, NEW w \in Worker, EndCallback(w)
  PROVE  ChainInv'
<1>0. /\ pc[w] \in {"advance", "cascade"}
      /\ pc \in [Worker -> WorkerPC]
      /\ job \in [Worker -> Msg \cup {NoMsg}] /\ target \in [Worker -> Task \cup {NoTask}]
      /\ UNCHANGED <<storeVars, queue, dag, dispatched, todo, main, roots, cur>>
      /\ pc' = [pc EXCEPT ![w] = "idle"] /\ job' = [job EXCEPT ![w] = NoMsg]
      /\ target' = [target EXCEPT ![w] = NoTask]
  BY DEF RunTypeOK, TypeOK, EndCallback, Release, GoTo, busVars
<1>1. lock = w
  BY <1>0 DEF ChainInv, Locked, Cascading
<1>2. Locked(w)'
  BY <1>0 DEF Locked, Cascading, FailsBelow, Failing
<1>3. \A v \in Worker : Locked(v)'
  BY <1>0, <1>1, <1>2, CallbackLocks
<1>4. ASSUME NEW v \in Worker, Busy(v)' PROVE Busy(v) /\ Doing(v)' = Doing(v) /\ Told(v)'
  <2>1. v # w /\ pc'[v] = pc[v] /\ job'[v] = job[v]
    BY <1>0, <1>4 DEF Busy
  <2>2. Busy(v) /\ Doing(v)' = Doing(v)
    BY <1>0, <1>4, <2>1 DEF Busy, Spent, Doing
  <2>3. Told(v)
    BY <2>2 DEF ChainInv
  <2> QED BY <1>0, <2>1, <2>2, <2>3 DEF Told, Entry, storeVars
<1> QED BY <1>0, <1>3, <1>4, QuietStep

(* No callback breaks the invariant.                                       *)
LEMMA CallbackChain ==
  ASSUME SingleSource, Chain, RunTypeOK, TokenInv, ChainInv, NEW w \in Worker,
         CallbackStep(w) \/ RaiseInOnDone(w) \/ RaiseInOnFail(w)
  PROVE  ChainInv'
<1>1. CASE OnDone(w) \/ OnFail(w)
  BY <1>1, BeginChain
<1>2. CASE EndCallback(w)
  BY <1>2, EndChain
<1>3. ASSUME NEW t \in Task, AdvanceTo(w, t) PROVE ChainInv'
  BY <1>3, PassOver, PublishNext
<1>4. ASSUME NEW t \in Task, CascadeTo(w, t) PROVE ChainInv'
  BY <1>4, CascadeChain
<1>5. CASE RaiseInOnDone(w)
  BY <1>5, BeginChain, BreakOff DEF RaiseInOnDone, At
<1>6. CASE RaiseInOnFail(w)
  BY <1>6, BeginChain, BreakOff
<1> QED BY <1>1, <1>2, <1>3, <1>4, <1>5, <1>6 DEF CallbackStep

(* The main thread publishes the source before anything is live.           *)
LEMMA MainChain ==
  ASSUME SingleSource, RunTypeOK, TokenInv, ChainInv, MainStep \/ Deadline
  PROVE  ChainInv'
<1>0. /\ \A v \in Worker : Locked(v) /\ (Busy(v) => Told(v))
      /\ UNCHANGED <<storeVars, workVars, dag, lock, todo>>
  BY DEF ChainInv, MainStep, DispatchRoot, PublishRoot, AllResolved, Deadline, CountRows, Report, wvars,
         busVars, workVars
<1>1. \A v \in Worker : Locked(v)'
  BY <1>0 DEF Locked, Cascading, FailsBelow, Doing, ReadyTasks, workVars
<1>2. CASE AllResolved \/ Deadline \/ CountRows \/ Report
  <2>1. /\ UNCHANGED <<storeVars, queue, dag, dispatched, todo, roots, cur, pc, job>>
        /\ main' # "publish"
    BY <1>2 DEF AllResolved, Deadline, CountRows, Report, wvars, busVars, workVars
  <2>2. \A v \in Worker : Busy(v)' => Busy(v) /\ Doing(v)' = Doing(v) /\ Told(v)'
    BY <1>0, <2>1 DEF Busy, Spent, Doing, Told, Entry, storeVars
  <2> QED BY <1>1, <2>1, <2>2, QuietStep
<1>3. CASE (\E t \in Task : DispatchRoot(t)) \/ PublishRoot
  <2>0. roots # {} \/ main = "publish"
    BY <1>3 DEF DispatchRoot, PublishRoot
  <2>1. (\A w \in Worker : pc[w] = "idle") /\ (\A m \in Msg : ~ (queue[m] > 0))
    BY <2>0, RootsAreOut
  <2>2. \A w \in Worker : ~ Busy(w)'
    BY <1>0, <2>1 DEF Busy, workVars
  <2>3. /\ \A t \in Task : dag'[t] = "pending" /\ results'[t] = {}
        /\ Roots \subseteq roots' \cup dispatched'
    BY <1>0, <1>3, <2>0 DEF ChainInv, BeforePublish, storeVars, DispatchRoot, PublishRoot
  <2>4. BeforePublish'
    BY <2>3, MsgParts DEF BeforePublish
  <2>5. CASE \E t \in Task : DispatchRoot(t)
    <3>1. queue' = queue
      BY <2>5 DEF DispatchRoot, wvars, busVars
    <3>2. \A s \in Task : ~ Live(s)'
      BY <2>1, <2>2, <3>1 DEF Live
    <3> QED BY <1>1, <2>2, <2>4, <3>2 DEF ChainInv, OneLive
  <2>6. CASE PublishRoot
    <3>1. cur \in Roots /\ queue \in [Msg -> Nat]
          /\ queue' = [queue EXCEPT ![[task |-> cur, attempt |-> attempt[cur]]] = @ + 1]
      BY <2>6 DEF RunTypeOK, TypeOK, TokenInv, RootsLeft, PublishRoot, Publish, Enqueue
    <3>2. \A m \in Msg : queue'[m] > 0 => m.task = cur
      BY <2>1, <3>1
    <3>3. \A s \in Task : Live(s)' => s = cur
      BY <2>2, <3>2 DEF Live
    <3>4. \A s \in Task : s \in Roots => Behind(s)'
      BY <2>3 DEF Behind, Roots
    <3> QED BY <1>1, <2>2, <2>4, <3>1, <3>3, <3>4 DEF ChainInv, OneLive
  <2> QED BY <1>3, <2>5, <2>6
<1> QED BY <1>2, <1>3 DEF MainStep

(* The invariant of a chain is inductive, however many store calls raise.  *)
LEMMA NextChain ==
  ASSUME SingleSource, Chain
  PROVE  RunTypeOK /\ TokenInv /\ ChainInv /\ [Next]_vars => ChainInv'
<1> SUFFICES ASSUME RunTypeOK, TokenInv, ChainInv, [Next]_vars PROVE ChainInv'
  OBVIOUS
<1>1. CASE MainStep \/ Deadline
  BY <1>1, MainChain
<1>2. ASSUME NEW w \in Worker, Poll(w) PROVE ChainInv'
  BY <1>2, FetchChain DEF Poll
<1>3. ASSUME NEW w \in Worker, Work(w) \/ Fault(w) PROVE ChainInv'
  BY <1>3, WorkChain
<1>4. ASSUME NEW w \in Worker, CallbackStep(w) \/ RaiseInOnDone(w) \/ RaiseInOnFail(w)
      PROVE  ChainInv'
  BY <1>4, CallbackChain
<1>5. CASE UNCHANGED vars
  <2>1. /\ UNCHANGED <<storeVars, queue, dag, dispatched, todo, roots, cur, pc, job, main>>
        /\ UNCHANGED <<lock, target>>
    BY <1>5 DEF vars, wvars, runVars, busVars, workVars
  <2>2. \A v \in Worker : Locked(v)'
    BY <2>1 DEF ChainInv, Locked, Cascading, FailsBelow, Doing, ReadyTasks
  <2>3. \A v \in Worker : Busy(v)' => Busy(v) /\ Doing(v)' = Doing(v) /\ Told(v)'
    BY <2>1 DEF ChainInv, Busy, Spent, Doing, Told, Entry, storeVars
  <2> QED BY <2>1, <2>2, <2>3, QuietStep
<1> QED BY <1>1, <1>2, <1>3, <1>4, <1>5 DEF Next

(* Nothing is live in the first state.                                     *)
LEMMA InitChain == Init => ChainInv
BY DEF Init, WorkerInit, ChainInv, OneLive, Live, Busy, BeforePublish, Locked,
       Cascading, FailsBelow, Failing

(* On a chain a worker executes a task only when its dependency is         *)
(* completed in execution_state, tasks and task_results (dag.py:12), and   *)
(* that stays so while it executes, whatever store calls raise and however *)
(* often: on_done of the dependency has nothing left to fail in.           *)
THEOREM ChainsKeepOrder ==
  ASSUME SingleSource, Chain
  PROVE  Spec => []TablesFirst
<1>1. Init => RunTypeOK /\ TokenInv /\ ChainInv
  BY InitTypeOK, InitTokens, InitChain
<1>2. RunTypeOK /\ TokenInv /\ ChainInv /\ [Next]_vars => (RunTypeOK /\ TokenInv /\ ChainInv)'
  BY NextTypeOK, NextTokens, NextChain
<1>3. RunTypeOK /\ ChainInv => TablesFirst
  <2> SUFFICES ASSUME RunTypeOK, ChainInv, NEW w \in Worker, NEW t \in Task, Executes(w, t),
                      NEW d \in Deps[t]
               PROVE  Entry(d) = Settled("completed")
    BY DEF TablesFirst, Entry, Settled
  <2>1. Busy(w) /\ Doing(w) = t
    BY DEF Executes, ClaimHeld, Busy, Spent
  <2>2. Behind(t)
    BY <2>1 DEF ChainInv, Live
  <2> QED BY <2>2, GraphAssumption DEF Behind
<1> QED BY <1>1, <1>2, <1>3, PTL DEF Spec
=============================================================================
