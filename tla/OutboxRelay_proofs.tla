-------------------------- MODULE OutboxRelay_proofs --------------------------
(***************************************************************************)
(* The safety of the relay for any number of rows, any batch size, any     *)
(* attempt limit and any number of aborted sweeps.                         *)
(***************************************************************************)
EXTENDS OutboxRelay, FiniteSetTheorems, TLAPS

(* A failure is being recorded.                                            *)
Failing == pc \in {"transient", "permanent"}

(* A row is in one place: waiting in the sweep, being recorded as failed,  *)
(* taken by the bus in this sweep, published or dead.                      *)
Places ==
  /\ todo \cup sent \cup published \cup dead \subseteq written
  /\ dead \cap (todo \cup sent \cup published) = {}
  /\ todo \cap (sent \cup published) = {}
  /\ sent \cap published = {}
  /\ pc = "wait" => sent = {}
  /\ Failing => failing \in written \ (todo \cup sent \cup published \cup dead)

(* What the table and the bus know of each other.                          *)
Books ==
  /\ \A e \in sent \cup published : delivered[e] > 0
  /\ \A e \in Event : delivered[e] <= 1 + aborts
  /\ \A e \in Event : e \notin sent \cup published => delivered[e] <= aborts
  /\ \A e \in Event : e \notin written => delivered[e] = 0

(* What the failure columns mean.                                          *)
Failures ==
  /\ \A e \in Event : e \notin dead => attempts[e] < MaxAttempts
  /\ \A e \in Event : e \in dead \/ ~ due[e] => attempts[e] > 0
  /\ \A e \in dead : lastError[e] = "permanent" \/ attempts[e] = MaxAttempts
  /\ \A e \in todo : due[e]
  /\ Failing => due[failing]

(* A row never tried yet is passed over by no younger row that became      *)
(* visible after it.                                                       *)
Order ==
  \A e, f \in Event : <<e, f>> \in precedes =>
    /\ e < f
    /\ attempts[e] = 0 /\ delivered[e] = 0 =>
         /\ delivered[f] = 0
         /\ f \in todo => e \in todo \/ (Failing /\ e = failing)

RelayInv == RelayTypeOK /\ Places /\ Books /\ Failures /\ Order

-----------------------------------------------------------------------------
(* The first rows of a set are those with few smaller members: taking away *)
(* younger rows takes away none of the rows before them.                   *)
LEMMA OldestIsClosed ==
  ASSUME NEW S \in SUBSET Event, NEW f \in Oldest(S), NEW e \in S, e < f
  PROVE  e \in Oldest(S)
<1> USE RelayAssumption DEF RelayAssumption
<1> DEFINE Before(x) == {d \in S : d < x}
<1>1. IsFiniteSet(Event)
  BY FS_Interval DEF Event
<1>2. IsFiniteSet(Before(f)) /\ Before(e) \subseteq Before(f)
  <2>1. Before(f) \subseteq Event
    OBVIOUS
  <2>2. ASSUME NEW d \in Before(e) PROVE d \in Before(f)
    <3>1. d \in Nat /\ e \in Nat /\ f \in Nat /\ d < e
      BY DEF Event, Oldest
    <3> QED BY <3>1
  <2> QED BY <1>1, <2>1, <2>2, FS_Subset
<1>3. Cardinality(Before(e)) <= Cardinality(Before(f)) /\ IsFiniteSet(Before(e))
  BY <1>2, FS_Subset
<1>4. Cardinality(Before(e)) \in Nat /\ Cardinality(Before(f)) \in Nat
  BY <1>2, <1>3, FS_CardinalityType
<1>5. Cardinality(Before(f)) < Batch
  BY DEF Oldest
<1>6. Cardinality(Before(e)) < Batch
  BY <1>3, <1>4, <1>5
<1> QED BY <1>6 DEF Oldest

(* The initial states satisfy the invariant.                               *)
LEMMA RelayInit == Init => RelayInv
<1> USE RelayAssumption DEF RelayAssumption
<1> SUFFICES ASSUME Init PROVE RelayInv
  OBVIOUS
<1>1. RelayTypeOK
  BY DEF Init, RelayTypeOK, Event
<1>2. Places /\ Books /\ Failures /\ Order
  BY DEF Init, Places, Books, Failures, Order, Failing, Event
<1> QED BY <1>1, <1>2 DEF RelayInv

(* Type correctness is inductive given that live rows have attempts left.  *)
LEMMA RelayTypeNext == RelayInv /\ [Next]_vars => RelayTypeOK'
<1> USE RelayAssumption DEF RelayAssumption
<1> SUFFICES ASSUME RelayInv, [Next]_vars PROVE RelayTypeOK'
  OBVIOUS
<1> USE DEF RelayInv, RelayTypeOK, emitVars, tableVars, busVars, sweepVars
<1>1. ASSUME NEW e \in Event, Emit(e) PROVE RelayTypeOK'
  BY <1>1 DEF Emit, Event
<1>2. CASE Select
  BY <1>2 DEF Select, Oldest, Unpublished, Event
<1>3. ASSUME NEW e \in Event, Publish(e) PROVE RelayTypeOK'
  <2>1. delivered' \in [Event -> Nat]
    BY <1>3 DEF Publish
  <2> QED BY <1>3, <2>1 DEF Publish, Event
<1>4. ASSUME NEW e \in Event, NEW kind \in {"transient", "permanent"}, BusRaises(e, kind)
      PROVE  RelayTypeOK'
  BY <1>4 DEF BusRaises, Event
<1>5. CASE RecordRetry
  <2>1. failing \in Event /\ attempts[failing] + 1 \in 0..MaxAttempts
    BY <1>5 DEF RecordRetry, Retryable, Event
  <2> QED BY <1>5, <2>1 DEF RecordRetry, Count, Event
<1>6. CASE RecordDead
  <2>1. failing \in Event /\ failing \notin dead
    BY <1>6 DEF RecordDead, Places, Failing
  <2>2. attempts[failing] \in Nat /\ attempts[failing] < MaxAttempts
    BY <2>1 DEF Failures
  <2>3. attempts[failing] + 1 \in 0..MaxAttempts
    BY <2>2
  <2> QED BY <1>6, <2>1, <2>3 DEF RecordDead, Count, Event
<1>7. CASE Announce
  BY <1>7 DEF Announce, Event
<1>8. CASE MarkPublished
  BY <1>8 DEF MarkPublished, Event
<1>9. CASE Abort
  BY <1>9 DEF Abort, Event
<1>10. ASSUME NEW e \in Event, BackoffElapses(e) PROVE RelayTypeOK'
  BY <1>10 DEF BackoffElapses, Event
<1>11. CASE UNCHANGED vars
  BY <1>11 DEF vars, Event
<1> QED
  BY <1>1, <1>2, <1>3, <1>4, <1>5, <1>6, <1>7, <1>8, <1>9, <1>10, <1>11 DEF Next, Sweep

(* Every step keeps a row in one place.                                    *)
LEMMA PlacesNext == RelayInv /\ [Next]_vars => Places'
<1> USE RelayAssumption DEF RelayAssumption
<1> SUFFICES ASSUME RelayInv, [Next]_vars PROVE Places'
  OBVIOUS
<1> USE DEF RelayInv, RelayTypeOK, Places, Failing, emitVars, tableVars, busVars, sweepVars
<1>1. ASSUME NEW e \in Event, Emit(e) PROVE Places'
  BY <1>1 DEF Emit
<1>2. CASE Select
  <2>1. todo' \subseteq Unpublished
    BY <1>2 DEF Select, Oldest
  <2> QED BY <1>2, <2>1 DEF Select, Unpublished
<1>3. ASSUME NEW e \in Event, Publish(e) PROVE Places'
  BY <1>3 DEF Publish, Reached
<1>4. ASSUME NEW e \in Event, NEW kind \in {"transient", "permanent"}, BusRaises(e, kind)
      PROVE  Places'
  BY <1>4 DEF BusRaises, Reached
<1>5. CASE RecordRetry
  BY <1>5 DEF RecordRetry
<1>6. CASE RecordDead
  <2>1. failing \in written
    BY <1>6 DEF RecordDead
  <2> QED BY <1>6, <2>1 DEF RecordDead
<1>7. CASE Announce
  BY <1>7 DEF Announce
<1>8. CASE MarkPublished
  BY <1>8 DEF MarkPublished
<1>9. CASE Abort
  BY <1>9 DEF Abort
<1>10. ASSUME NEW e \in Event, BackoffElapses(e) PROVE Places'
  BY <1>10 DEF BackoffElapses
<1>11. CASE UNCHANGED vars
  BY <1>11 DEF vars
<1> QED
  BY <1>1, <1>2, <1>3, <1>4, <1>5, <1>6, <1>7, <1>8, <1>9, <1>10, <1>11 DEF Next, Sweep

(* The bus and the table agree after every step.                           *)
LEMMA BooksNext == RelayInv /\ [Next]_vars => Books'
<1> USE RelayAssumption DEF RelayAssumption
<1> SUFFICES ASSUME RelayInv, [Next]_vars PROVE Books'
  OBVIOUS
<1> USE DEF RelayInv, RelayTypeOK, Books, emitVars, tableVars, busVars, sweepVars
<1>1. ASSUME NEW e \in Event, Emit(e) PROVE Books'
  BY <1>1 DEF Emit
<1>2. CASE Select
  BY <1>2 DEF Select
<1>3. ASSUME NEW e \in Event, Publish(e) PROVE Books'
  <2>1. e \notin sent \cup published /\ delivered[e] <= aborts /\ delivered[e] \in Nat
    BY <1>3 DEF Publish, Reached, Places
  <2>2. delivered'[e] = delivered[e] + 1 /\ \A x \in Event \ {e} : delivered'[x] = delivered[x]
    BY <1>3 DEF Publish
  <2>3. sent' = sent \cup {e} /\ UNCHANGED <<published, aborts>>
    BY <1>3 DEF Publish
  <2>4. e \in written
    BY <1>3 DEF Publish, Reached, Places
  <2>5. UNCHANGED written
    BY <1>3 DEF Publish
  <2> QED BY <2>1, <2>2, <2>3, <2>4, <2>5
<1>4. ASSUME NEW e \in Event, NEW kind \in {"transient", "permanent"}, BusRaises(e, kind)
      PROVE  Books'
  BY <1>4 DEF BusRaises
<1>5. CASE RecordRetry
  BY <1>5 DEF RecordRetry
<1>6. CASE RecordDead
  BY <1>6 DEF RecordDead
<1>7. CASE Announce
  BY <1>7 DEF Announce
<1>8. CASE MarkPublished
  BY <1>8 DEF MarkPublished
<1>9. CASE Abort
  BY <1>9 DEF Abort
<1>10. ASSUME NEW e \in Event, BackoffElapses(e) PROVE Books'
  BY <1>10 DEF BackoffElapses
<1>11. CASE UNCHANGED vars
  BY <1>11 DEF vars
<1> QED
  BY <1>1, <1>2, <1>3, <1>4, <1>5, <1>6, <1>7, <1>8, <1>9, <1>10, <1>11 DEF Next, Sweep

(* Every step keeps the failure columns meaningful.                        *)
LEMMA FailuresNext == RelayInv /\ [Next]_vars => Failures'
<1> USE RelayAssumption DEF RelayAssumption
<1> SUFFICES ASSUME RelayInv, [Next]_vars PROVE Failures'
  OBVIOUS
<1> USE DEF RelayInv, RelayTypeOK, Failures, Failing, emitVars, tableVars, busVars, sweepVars
<1>1. ASSUME NEW e \in Event, Emit(e) PROVE Failures'
  BY <1>1 DEF Emit
<1>2. CASE Select
  <2>1. todo' \subseteq Unpublished
    BY <1>2 DEF Select, Oldest
  <2> QED BY <1>2, <2>1 DEF Select, Unpublished
<1>3. ASSUME NEW e \in Event, Publish(e) PROVE Failures'
  BY <1>3 DEF Publish
<1>4. ASSUME NEW e \in Event, NEW kind \in {"transient", "permanent"}, BusRaises(e, kind)
      PROVE  Failures'
  BY <1>4 DEF BusRaises, Reached
<1>5. CASE RecordRetry
  <2>1. failing \in Event /\ failing \notin dead /\ failing \notin todo
    BY <1>5 DEF RecordRetry, Places
  <2>2. attempts'[failing] = attempts[failing] + 1 /\ attempts[failing] + 1 < MaxAttempts
    BY <1>5, <2>1 DEF RecordRetry, Count, Retryable
  <2>3. \A x \in Event \ {failing} :
          attempts'[x] = attempts[x] /\ due'[x] = due[x] /\ lastError'[x] = lastError[x]
    BY <1>5 DEF RecordRetry, Count
  <2>4. pc' = "sweep" /\ UNCHANGED <<dead, todo>>
    BY <1>5 DEF RecordRetry
  <2>5. attempts[failing] \in Nat
    BY <2>1
  <2> QED BY <2>1, <2>2, <2>3, <2>4, <2>5
<1>6. CASE RecordDead
  <2>1. failing \in Event /\ failing \notin dead /\ failing \notin todo
    BY <1>6 DEF RecordDead, Places
  <2>2. attempts'[failing] = attempts[failing] + 1 /\ lastError'[failing] = pc
    BY <1>6, <2>1 DEF RecordDead, Count
  <2>3. \A x \in Event \ {failing} :
          attempts'[x] = attempts[x] /\ lastError'[x] = lastError[x]
    BY <1>6 DEF RecordDead, Count
  <2>4. pc' = "announce" /\ dead' = dead \cup {failing} /\ UNCHANGED <<due, todo>>
    BY <1>6 DEF RecordDead
  <2>5. attempts[failing] \in Nat /\ attempts[failing] < MaxAttempts
    BY <2>1
  <2>6. pc = "permanent" \/ attempts[failing] + 1 = MaxAttempts
    BY <1>6, <2>5 DEF RecordDead, Retryable
  <2> QED BY <2>1, <2>2, <2>3, <2>4, <2>5, <2>6
<1>7. CASE Announce
  BY <1>7 DEF Announce
<1>8. CASE MarkPublished
  BY <1>8 DEF MarkPublished
<1>9. CASE Abort
  BY <1>9 DEF Abort
<1>10. ASSUME NEW e \in Event, BackoffElapses(e) PROVE Failures'
  BY <1>10 DEF BackoffElapses
<1>11. CASE UNCHANGED vars
  BY <1>11 DEF vars
<1> QED
  BY <1>1, <1>2, <1>3, <1>4, <1>5, <1>6, <1>7, <1>8, <1>9, <1>10, <1>11 DEF Next, Sweep

(* No step lets a younger row overtake a row not tried yet.                *)
LEMMA OrderNext == RelayInv /\ [Next]_vars => Order'
<1> USE RelayAssumption DEF RelayAssumption
<1> SUFFICES ASSUME RelayInv, [Next]_vars,
                    NEW e \in Event, NEW f \in Event, <<e, f>> \in precedes'
             PROVE  /\ e < f
                    /\ attempts'[e] = 0 /\ delivered'[e] = 0 =>
                         /\ delivered'[f] = 0
                         /\ f \in todo' => e \in todo' \/ (Failing' /\ e = failing')
  BY DEF Order
<1> USE DEF RelayInv, RelayTypeOK, Order, Failing, emitVars, tableVars, busVars, sweepVars
<1> DEFINE Goal ==
      /\ e < f
      /\ attempts'[e] = 0 /\ delivered'[e] = 0 =>
           /\ delivered'[f] = 0
           /\ f \in todo' => e \in todo' \/ (Failing' /\ e = failing')
<1>1. ASSUME NEW x \in Event, Emit(x) PROVE Goal
  <2>1. UNCHANGED <<attempts, delivered, todo, pc, failing>>
    BY <1>1 DEF Emit
  <2>2. CASE <<e, f>> \in precedes
    BY <2>1, <2>2
  <2>3. CASE <<e, f>> \notin precedes
    <3>1. f = x /\ e < f /\ x \notin written
      BY <1>1, <2>3 DEF Emit
    <3> QED BY <2>1, <3>1 DEF Books, Places
  <2> QED BY <2>2, <2>3
<1>2. CASE Select
  <2>1. UNCHANGED <<attempts, delivered>>
    BY <1>2 DEF Select
  <2>0. <<e, f>> \in precedes
    BY <1>2 DEF Select
  <2>2. ASSUME f \in todo', attempts'[e] = 0, delivered'[e] = 0 PROVE e \in todo'
    <3>1. f \in Oldest(Unpublished) /\ Unpublished \in SUBSET Event
      BY <1>2, <2>2 DEF Select, Unpublished
    <3>2. e \in written /\ e < f
      BY <2>0
    <3>3. e \notin published
      BY <2>1, <2>2 DEF Books
    <3>4. e \notin dead /\ due[e]
      BY <2>1, <2>2 DEF Failures
    <3>5. e \in Unpublished
      BY <3>2, <3>3, <3>4 DEF Unpublished
    <3>6. ASSUME NEW S, S = Unpublished PROVE e \in Oldest(S)
      <4>1. S \in SUBSET Event /\ f \in Oldest(S) /\ e \in S /\ e < f
        BY <3>1, <3>2, <3>5, <3>6
      <4> HIDE DEF RelayInv, RelayTypeOK
      <4> QED BY <4>1, OldestIsClosed
    <3>7. e \in Oldest(Unpublished)
      BY <3>6
    <3> QED BY <1>2, <3>7 DEF Select
  <2> QED BY <2>0, <2>1, <2>2
<1>3. ASSUME NEW x \in Event, Publish(x) PROVE Goal
  <2>1. x \in todo /\ (\A d \in todo : x <= d) /\ pc = "sweep" /\ todo' = todo \ {x}
    BY <1>3 DEF Publish, Reached
  <2>2. /\ UNCHANGED <<attempts, precedes>>
        /\ delivered' = [delivered EXCEPT ![x] = @ + 1]
    BY <1>3 DEF Publish
  <2>3. e < f
    BY <2>2
  <2>4. ASSUME attempts'[e] = 0, delivered'[e] = 0
        PROVE  delivered'[f] = 0 /\ (f \in todo' => e \in todo')
    <3>1. e # x /\ delivered[e] = 0
      BY <2>2, <2>4
    <3>2. delivered[f] = 0 /\ (f \in todo => e \in todo)
      BY <2>1, <2>2, <2>4, <3>1
    <3>3. f # x
      BY <2>1, <2>3, <3>1, <3>2 DEF Event
    <3> QED BY <2>1, <2>2, <3>1, <3>2, <3>3
  <2> QED BY <2>3, <2>4
<1>4. ASSUME NEW x \in Event, NEW kind \in {"transient", "permanent"}, BusRaises(x, kind)
      PROVE  Goal
  BY <1>4 DEF BusRaises
<1>5. ASSUME RecordRetry \/ RecordDead
      PROVE  Goal
  <2>1. failing \in Event /\ attempts' = [attempts EXCEPT ![failing] = @ + 1]
    BY <1>5 DEF RecordRetry, RecordDead, Count
  <2>2. UNCHANGED <<delivered, todo, precedes>>
    BY <1>5 DEF RecordRetry, RecordDead
  <2>3. attempts'[e] = 0 => e # failing /\ attempts[e] = 0
    BY <2>1
  <2> QED BY <2>2, <2>3
<1>6. CASE Announce
  BY <1>6 DEF Announce
<1>7. CASE MarkPublished
  BY <1>7 DEF MarkPublished
<1>8. CASE Abort
  BY <1>8 DEF Abort
<1>9. ASSUME NEW x \in Event, BackoffElapses(x)
      PROVE  Goal
  BY <1>9 DEF BackoffElapses
<1>10. CASE UNCHANGED vars
  BY <1>10 DEF vars
<1> QED
  BY <1>1, <1>2, <1>3, <1>4, <1>5, <1>6, <1>7, <1>8, <1>9, <1>10 DEF Next, Sweep

(* The invariant of the relay                                              *)
LEMMA RelayInvariant == Spec => []RelayInv
<1>1. Init => RelayInv
  BY RelayInit
<1>2. RelayInv /\ [Next]_vars => RelayInv'
  BY RelayTypeNext, PlacesNext, BooksNext, FailuresNext, OrderNext DEF RelayInv
<1> QED BY <1>1, <1>2, PTL DEF Spec

-----------------------------------------------------------------------------
(* The bookkeeping of the relay stays within its types, the attempts of a  *)
(* row within MaxAttempts (outbox.py:157).                                 *)
THEOREM RelayTypeCorrect == Spec => []RelayTypeOK
<1>1. RelayInv => RelayTypeOK
  BY DEF RelayInv
<1> QED BY <1>1, RelayInvariant, PTL

(* published_at is set only on rows the bus has taken (outbox.py:99).      *)
THEOREM NothingPublishedUnsent == Spec => []PublishedWasDelivered
<1>1. RelayInv => PublishedWasDelivered
  BY DEF RelayInv, Books, PublishedWasDelivered
<1> QED BY <1>1, RelayInvariant, PTL

(* No row is both published and dead-lettered (outbox.py:92).              *)
THEOREM NeverBoth == Spec => []PublishedOrDead
<1>1. RelayInv => PublishedOrDead
  BY DEF RelayInv, Places, PublishedOrDead
<1> QED BY <1>1, RelayInvariant, PTL

(* The bus takes an event at most once more often than sweeps are cut off  *)
(* before their bookkeeping (outbox.py:99).                                *)
THEOREM AtLeastOnceIsBounded == Spec => []DuplicatesOnlyFromAborts
<1>1. RelayInv => DuplicatesOnlyFromAborts
  BY DEF RelayInv, Books, DuplicatesOnlyFromAborts
<1> QED BY <1>1, RelayInvariant, PTL

(* Giving up takes a permanent failure or MaxAttempts failures             *)
(* (outbox.py:157).                                                        *)
THEOREM NoRowGivenUpEarly == Spec => []GaveUpForCause
<1>1. RelayInv => GaveUpForCause
  BY DEF RelayInv, Failures, GaveUpForCause
<1> QED BY <1>1, RelayInvariant, PTL

(* A row that never failed is published before every younger row that      *)
(* became visible after it (store.py:574), whatever the batch, wherever    *)
(* sweeps are cut off and in whatever order other rows are committed.      *)
THEOREM FirstWrittenFirst == Spec => []OldestFirst
<1>1. RelayInv => OldestFirst
  BY DEF RelayInv, RelayTypeOK, Order, OldestFirst
<1> QED BY <1>1, RelayInvariant, PTL

(* A dead-lettered row is never sent or counted again (store.py:577).      *)
THEOREM DeadIsSilent == Spec => GivenUpStaysSilent
<1> USE DEF RelayInv, RelayTypeOK, Places, Failing, emitVars, tableVars, busVars, sweepVars
<1>1. ASSUME RelayInv, [Next]_vars, NEW e \in dead
      PROVE  delivered'[e] = delivered[e] /\ attempts'[e] = attempts[e]
  <2>1. ASSUME NEW x \in Event, Publish(x) PROVE UNCHANGED attempts /\ delivered'[e] = delivered[e]
    BY <1>1, <2>1 DEF Publish, Reached
  <2>2. ASSUME RecordRetry \/ RecordDead PROVE UNCHANGED delivered /\ attempts'[e] = attempts[e]
    BY <1>1, <2>2 DEF RecordRetry, RecordDead, Count
  <2>3. ASSUME NEW x \in Event, NEW kind \in {"transient", "permanent"}, BusRaises(x, kind)
        PROVE  UNCHANGED <<delivered, attempts>>
    BY <2>3 DEF BusRaises
  <2>4. ASSUME NEW x \in Event, BackoffElapses(x) PROVE UNCHANGED <<delivered, attempts>>
    BY <2>4 DEF BackoffElapses
  <2> QED
    BY <1>1, <2>1, <2>2, <2>3, <2>4
    DEF Next, Sweep, Emit, Select, Announce, MarkPublished, Abort, vars
<1>2. RelayInv /\ [Next]_vars
      => [\A e \in dead : delivered'[e] = delivered[e] /\ attempts'[e] = attempts[e]]_vars
  BY <1>1
<1> QED BY <1>2, RelayInvariant, PTL DEF Spec, GivenUpStaysSilent

(* While a row waits for its backoff no publish of it is tried             *)
(* (store.py:578).                                                         *)
THEOREM NoEarlyRetry == Spec => BackoffHeld
<1> USE DEF RelayInv, RelayTypeOK, Failures, Failing, emitVars, tableVars, busVars, sweepVars
<1>1. ASSUME RelayInv, [Next]_vars, NEW e \in Event, ~ due[e]
      PROVE  delivered'[e] = delivered[e] /\ attempts'[e] = attempts[e]
  <2>1. ASSUME NEW x \in Event, Publish(x) PROVE UNCHANGED attempts /\ delivered'[e] = delivered[e]
    BY <1>1, <2>1 DEF Publish, Reached
  <2>2. ASSUME RecordRetry \/ RecordDead PROVE UNCHANGED delivered /\ attempts'[e] = attempts[e]
    BY <1>1, <2>2 DEF RecordRetry, RecordDead, Count
  <2>3. ASSUME NEW x \in Event, NEW kind \in {"transient", "permanent"}, BusRaises(x, kind)
        PROVE  UNCHANGED <<delivered, attempts>>
    BY <2>3 DEF BusRaises
  <2>4. ASSUME NEW x \in Event, BackoffElapses(x) PROVE UNCHANGED <<delivered, attempts>>
    BY <2>4 DEF BackoffElapses
  <2> QED
    BY <1>1, <2>1, <2>2, <2>3, <2>4
    DEF Next, Sweep, Emit, Select, Announce, MarkPublished, Abort, vars
<1>2. RelayInv /\ [Next]_vars
      => [\A e \in Event : ~ due[e] => delivered'[e] = delivered[e] /\ attempts'[e] = attempts[e]]_vars
  BY <1>1
<1> QED BY <1>2, RelayInvariant, PTL DEF Spec, BackoffHeld
=============================================================================
