----------------------------- MODULE OutboxRelay -----------------------------
(***************************************************************************)
(* The transactional outbox: OutboxEventBus appends lifecycle events to    *)
(* outbox_events, one relay process publishes them on a live bus and keeps *)
(* book in the same table.  A sweep publishes the due rows one by one,     *)
(* records each failure at once and all successes together at the end, so  *)
(* a process that dies or a store call that raises in the middle of a      *)
(* sweep leaves published rows unmarked.  The bus raises when it cannot    *)
(* take an event, as JsonlEventBus does.                                   *)
(*                                                                         *)
(* Several processes emit at once, each with a connection of its own.  The *)
(* database numbers a row when it is inserted and shows it to the relay    *)
(* when the transaction commits, so on Postgres a row may appear after a   *)
(* younger one.  Until then no step sees it: the model has no other state  *)
(* for it, and an id whose transaction rolls back is one that never        *)
(* appears.                                                                *)
(***************************************************************************)
EXTENDS Naturals, FiniteSets

CONSTANTS
  NEvents,      \* bound: row ids given out in one behaviour
  MaxAttempts,  \* HERMES_RELAY_MAX_ATTEMPTS
  Batch,        \* HERMES_RELAY_BATCH
  MaxAborts     \* bound: sweeps that end before their bookkeeping

ASSUME RelayAssumption ==
  /\ {NEvents, MaxAttempts, Batch} \subseteq Nat \ {0}
  /\ MaxAborts \in Nat

Event == 1..NEvents  \* row ids, in the order the database gives them out

VARIABLES
  written,    \* the rows whose transaction has committed
  attempts,   \* outbox_events.attempts
  lastError,  \* outbox_events.last_error
  due,        \* next_attempt_at is empty or has passed
  published,  \* rows with published_at
  dead,       \* rows with dead_lettered_at
  delivered,  \* how often the live bus has taken an event
  announced,  \* events announced as dead-lettered
  pc,         \* where the relay is
  todo,       \* the rows of this sweep it has still to publish
  sent,       \* the rows of this sweep the bus has taken
  failing,    \* the row whose failure it is recording
  aborts,
  precedes    \* history: the older row committed first; no step reads it

emitVars  == <<written, precedes>>
tableVars == <<emitVars, attempts, lastError, due, published, dead>>
busVars   == <<delivered, announced>>
sweepVars == <<pc, todo, sent, failing>>
vars      == <<tableVars, busVars, sweepVars, aborts>>

RelayTypeOK ==
  /\ written \in SUBSET Event
  /\ precedes \in SUBSET (written \X written)
  /\ attempts \in [Event -> 0..MaxAttempts]
  /\ lastError \in [Event -> {"none", "transient", "permanent"}]
  /\ due \in [Event -> BOOLEAN]
  /\ published \in SUBSET Event
  /\ dead \in SUBSET Event
  /\ delivered \in [Event -> Nat]
  /\ announced \in SUBSET Event
  /\ pc \in {"wait", "sweep", "transient", "permanent", "announce"}
  /\ todo \in SUBSET Event
  /\ sent \in SUBSET Event
  /\ failing \in 0..NEvents
  /\ aborts \in 0..MaxAborts
  /\ pc \in {"transient", "permanent", "announce"} => failing \in Event

Init ==
  /\ written = {}
  /\ precedes = {}
  /\ attempts = [e \in Event |-> 0]
  /\ lastError = [e \in Event |-> "none"]
  /\ due = [e \in Event |-> TRUE]
  /\ published = {}
  /\ dead = {}
  /\ delivered = [e \in Event |-> 0]
  /\ announced = {}
  /\ pc = "wait"
  /\ todo = {}
  /\ sent = {}
  /\ failing = 0
  /\ aborts = 0

-----------------------------------------------------------------------------
(* OutboxEventBus.emit, or the enclosing transaction, commits row e.       *)
Emit(e) ==
  /\ e \notin written
  /\ written' = written \cup {e}
  /\ precedes' = precedes \cup {<<d, e>> : d \in {x \in written : x < e}}
  /\ UNCHANGED <<attempts, lastError, due, published, dead, busVars, sweepVars, aborts>>

BackoffElapses(e) ==
  /\ ~ due[e]
  /\ due' = [due EXCEPT ![e] = TRUE]
  /\ UNCHANGED <<emitVars, attempts, lastError, published, dead, busVars, sweepVars, aborts>>

-----------------------------------------------------------------------------
(* poll_once                                                               *)

(* Fault: dead-lettered rows are selected again.                           *)
Unpublished_DeadToo == {e \in written : e \notin published /\ due[e]}

(* Fault: published rows are selected again.                               *)
Unpublished_All == {e \in written : e \notin dead /\ due[e]}

(* get_unpublished_outbox_events without its limit                         *)
Unpublished == {e \in written : e \notin published /\ e \notin dead /\ due[e]}

(* The oldest Batch rows of S.                                             *)
Oldest(S) == {e \in S : Cardinality({d \in S : d < e}) < Batch}

Select ==
  /\ pc = "wait"
  /\ Unpublished # {}
  /\ pc' = "sweep"
  /\ todo' = Oldest(Unpublished)
  /\ UNCHANGED <<tableVars, busVars, sent, failing, aborts>>

(* Fault: a sweep publishes in any order.                                  *)
Reached_Any(e) == e \in todo

(* The row the sweep has reached.                                          *)
Reached(e) == e \in todo /\ \A d \in todo : e <= d

Publish(e) ==
  /\ pc = "sweep"
  /\ Reached(e)
  /\ todo' = todo \ {e}
  /\ delivered' = [delivered EXCEPT ![e] = @ + 1]
  /\ sent' = sent \cup {e}
  /\ UNCHANGED <<tableVars, announced, pc, failing, aborts>>

(* Fault: after a failure the row is still counted as published.           *)
BusRaises_Counted(e, kind) ==
  /\ pc = "sweep"
  /\ Reached(e)
  /\ todo' = todo \ {e}
  /\ failing' = e
  /\ sent' = sent \cup {e}
  /\ pc' = kind
  /\ UNCHANGED <<tableVars, busVars, aborts>>

(* The bus raises; classify_failure calls it transient or permanent.       *)
BusRaises(e, kind) ==
  /\ pc = "sweep"
  /\ Reached(e)
  /\ todo' = todo \ {e}
  /\ failing' = e
  /\ pc' = kind
  /\ UNCHANGED <<tableVars, busVars, sent, aborts>>

(* Fault: attempts are not counted.                                        *)
Count_Never(e) == UNCHANGED attempts

Count(e) == attempts' = [attempts EXCEPT ![e] = @ + 1]

Retryable(e) == pc = "transient" /\ attempts[e] + 1 < MaxAttempts

(* _record_failure: retry later ...                                        *)
RecordRetry ==
  /\ pc \in {"transient", "permanent"}
  /\ Retryable(failing)
  /\ Count(failing)
  /\ lastError' = [lastError EXCEPT ![failing] = pc]
  /\ due' = [due EXCEPT ![failing] = FALSE]
  /\ pc' = "sweep"
  /\ UNCHANGED <<emitVars, published, dead, busVars, todo, sent, failing, aborts>>

(* ... or give up, and announce it.                                        *)
RecordDead ==
  /\ pc \in {"transient", "permanent"}
  /\ ~ Retryable(failing)
  /\ Count(failing)
  /\ lastError' = [lastError EXCEPT ![failing] = pc]
  /\ dead' = dead \cup {failing}
  /\ pc' = "announce"
  /\ UNCHANGED <<emitVars, due, published, busVars, todo, sent, failing, aborts>>

(* emit_best_effort: the announcement itself may be lost.                  *)
Announce ==
  /\ pc = "announce"
  /\ announced' \in {announced, announced \cup {failing}}
  /\ pc' = "sweep"
  /\ UNCHANGED <<tableVars, delivered, todo, sent, failing, aborts>>

MarkPublished ==
  /\ pc = "sweep"
  /\ todo = {}
  /\ published' = published \cup sent
  /\ sent' = {}
  /\ pc' = "wait"
  /\ UNCHANGED <<emitVars, attempts, lastError, due, dead, busVars, todo, failing, aborts>>

(* The process dies, or a store call raises out of poll_once.              *)
Abort ==
  /\ aborts < MaxAborts
  /\ pc # "wait"
  /\ aborts' = aborts + 1
  /\ pc' = "wait"
  /\ todo' = {}
  /\ sent' = {}
  /\ UNCHANGED <<tableVars, busVars, failing>>

Sweep ==
  \/ Select \/ RecordRetry \/ RecordDead \/ Announce \/ MarkPublished
  \/ \E e \in Event :
        \/ Publish(e)
        \/ \E kind \in {"transient", "permanent"} : BusRaises(e, kind)

Next ==
  \/ Sweep \/ Abort
  \/ \E e \in Event : Emit(e) \/ BackoffElapses(e)

Spec == Init /\ [][Next]_vars

(* run_forever keeps sweeping and time passes.  A bus that never works is  *)
(* allowed.                                                                *)
Fairness == WF_vars(Sweep) /\ \A e \in Event : WF_vars(BackoffElapses(e))

FairSpec == Spec /\ Fairness

-----------------------------------------------------------------------------
(* A row marked published was taken by the bus (outbox.py:4).              *)
PublishedWasDelivered == \A e \in published : delivered[e] > 0

(* A row is never both published and given up (outbox.py:92).              *)
PublishedOrDead == published \cap dead = {}

(* The bus takes an event a second time only after a sweep that did not    *)
(* reach its bookkeeping (outbox.py:97).                                   *)
DuplicatesOnlyFromAborts == \A e \in Event : delivered[e] <= 1 + aborts

(* A row is dead-lettered only after a permanent failure or when its       *)
(* attempts are used up (outbox.py:157).                                   *)
GaveUpForCause ==
  \A e \in dead : lastError[e] = "permanent" \/ attempts[e] = MaxAttempts

(* A row is published before every younger one that was committed after it,*)
(* unless it has failed: oldest first (store.py:574).  A younger row that  *)
(* was committed first may be gone before the older one can be seen.       *)
OldestFirst ==
  \A e, f \in Event :
    <<e, f>> \in precedes /\ delivered[f] > 0 /\ attempts[e] = 0 => delivered[e] > 0

(* An event the relay gave up is never published (store.py:577).           *)
GivenUpStaysSilent ==
  [][\A e \in dead : delivered'[e] = delivered[e] /\ attempts'[e] = attempts[e]]_vars

(* No publish is tried before the backoff of the row is over.              *)
BackoffHeld ==
  [][\A e \in Event : ~ due[e] =>
       delivered'[e] = delivered[e] /\ attempts'[e] = attempts[e]]_vars

(* Every committed row is published or dead-lettered in the end, in        *)
(* whatever order rows become visible.                                     *)
Settles == \A e \in Event : e \in written ~> e \in published \cup dead

=============================================================================
