---------------------------- MODULE ServiceDesk -----------------------------
(***************************************************************************)
(* The domain services that the runtime builds on first use and keeps in   *)
(* memory: the operations hub with its connectors, and the watch over      *)
(* competitors with the findings that the chat caches.  Requests run in    *)
(* threads of their own.                                                   *)
(***************************************************************************)
EXTENDS Filters, FiniteSets

CONSTANTS
  Threads,
  Defaults,     \* competitors watched from the start
  Competitors,  \* all that may be watched
  Silent,       \* those whose pages may fail to answer
  Kinds,        \* of sources, in the order they are connected
  OpsKinds,     \* those with an address in the environment
  Invoices,     \* what the accounting service may answer with
  Replies,      \* its replies to one collection, retries included
  FreshFor      \* five minutes, in ticks

ASSUME ServiceAssumption ==
  /\ {"none", "idle", "building"} \cap Threads = {}
  /\ Defaults \subseteq Competitors /\ OpsKinds \subseteq Range(Kinds)
  /\ FreshFor \in Nat
  /\ Kinds \in Seq(Range(Kinds))
  /\ \A name \in DOMAIN Invoices : Invoices[name] \in Seq(Range(Invoices[name]))

VARIABLES
  services,  \* _domain_svc: the set in use, named for the thread that built it
  desk,      \* what each set of services holds
  asking,   \* of each thread: "idle", "building", or the services it has
  report     \* the severities of the last attention report

serviceVars == <<services, desk, asking, report>>

Rank == [low |-> 0, medium |-> 1, high |-> 2, critical |-> 3]

NewDesk == [targets |-> Defaults, findings |-> {}, age |-> FreshFor + 1, sources |-> OpsKinds]

ServiceTypeOK ==
  /\ services \in Threads \cup {"none"}
  /\ \A t \in Threads :
       /\ desk[t].targets \cup desk[t].findings \subseteq Competitors
       /\ desk[t].age \in 0..FreshFor + 1 /\ desk[t].sources \subseteq Range(Kinds)
       /\ asking[t] \in Threads \cup {"idle", "building"}
  /\ Range(report) \subseteq DOMAIN Rank

ServiceInit ==
  /\ services = "none"
  /\ desk = [t \in Threads |-> NewDesk]
  /\ asking = [t \in Threads |-> "idle"]
  /\ report = <<>>

-----------------------------------------------------------------------------
(* Fault: every request builds services of its own.                        *)
Enter_Uncached(t) ==
  /\ asking[t] = "idle"
  /\ asking' = [asking EXCEPT ![t] = "building"]
  /\ UNCHANGED <<services, desk, report>>

(* services: read without a lock; whoever finds none starts to build       *)
Enter(t) ==
  /\ asking[t] = "idle"
  /\ asking' = [asking EXCEPT ![t] = IF services = "none" THEN "building" ELSE services]
  /\ UNCHANGED <<services, desk, report>>

(* The set built replaces the one that another thread has put there in     *)
(* the meantime                                                            *)
Build(t) ==
  /\ asking[t] = "building"
  /\ services' = t
  /\ desk' = [desk EXCEPT ![t] = NewDesk]
  /\ asking' = [asking EXCEPT ![t] = t]
  /\ UNCHANGED report

Serving(t) == asking[t] \in Threads
Done(t)    == asking' = [asking EXCEPT ![t] = "idle"]
OnDesk(t, change) == desk' = [desk EXCEPT ![asking[t]] = change]

(* collect: one finding per page that answers with text                    *)
Collected(targets) == {targets \ silent : silent \in SUBSET Silent}

Watch(t, c) ==
  /\ Serving(t) /\ Done(t)
  /\ OnDesk(t, [desk[asking[t]] EXCEPT !.targets = @ \cup {c}])
  /\ UNCHANGED <<services, report>>

(* _reply_competitor_brief: collects again when nothing was collected yet  *)
(* or the findings are older than five minutes                             *)
ChatBrief(t) ==
  LET d == desk[asking[t]] IN
  /\ Serving(t) /\ Done(t)
  /\ \E findings \in IF d.age > FreshFor THEN Collected(d.targets) ELSE {d.findings} :
       OnDesk(t, [d EXCEPT !.findings = findings, !.age = IF @ > FreshFor THEN 0 ELSE @])
  /\ UNCHANGED <<services, report>>

(* competitor_brief of the API collects every time and keeps nothing       *)
ApiBrief(t) ==
  /\ Serving(t) /\ Done(t)
  /\ UNCHANGED <<services, desk, report>>

(* add_source and remove_source, by the kind of the source                 *)
Connect(t, kind) ==
  /\ Serving(t) /\ Done(t)
  /\ \E sources \in {desk[asking[t]].sources \cup {kind}, desk[asking[t]].sources \ {kind}} :
       OnDesk(t, [desk[asking[t]] EXCEPT !.sources = sources])
  /\ UNCHANGED <<services, report>>

-----------------------------------------------------------------------------
(* _map_invoices: nothing to collect, or by the days it is overdue or due  *)
(* in; a date that cannot be read counts as 15 days ago for an invoice     *)
(* that is overdue, and says nothing otherwise                             *)
Overdue(inv) == IF inv.due = "unknown" THEN 15 ELSE inv.late

Severity(inv) ==
  CASE inv.status = "OVERDUE" /\ (Overdue(inv) > 30 \/ inv.amount > 10000) -> "critical"
    [] inv.status = "OVERDUE" /\ Overdue(inv) > 7 -> "high"
    [] inv.status = "OVERDUE" -> "medium"
    [] inv.due = "unknown" -> "low"
    [] inv.late > 0 -> "high"
    [] inv.left <= 7 -> "medium"
    [] OTHER -> "low"

MapInvoices(invoices) ==
  LET open == Only(invoices, {inv \in Range(invoices) :
                                inv.status \notin {"PAID", "DELETED", "VOIDED"}})
  IN  [i \in DOMAIN open |-> [kind |-> "invoicing", severity |-> Severity(open[i])]]

(* vendor_request: a refused token is fetched anew and asked with twice    *)
(* more; whatever fails in the end is no invoice                           *)
VendorRequest(answers) ==
  LET i == SelectInSeq(answers, LAMBDA a : a # "401")
  IN  IF i \in 1..3 /\ answers[i] \in DOMAIN Invoices THEN Invoices[answers[i]] ELSE <<>>

(* build_connector: the native one when it is configured, else whatever    *)
(* the address of the source answers                                       *)
Items(kind, native, answers, http) ==
  IF kind = "invoicing" /\ native THEN MapInvoices(VendorRequest(answers)) ELSE http[kind]

(* collect_attention: of all sources, one that fails contributing nothing  *)
CollectAttention(sources, native, answers, http) ==
  LET items == FlattenSeq([i \in DOMAIN sources |-> Items(sources[i], native, answers, http)])
      of(severity) == Only(items, {it \in Range(items) : it.severity = severity})
  IN  of("critical") \o of("high") \o of("medium") \o of("low")

Attend(t) ==
  /\ Serving(t) /\ Done(t)
  /\ \E native \in BOOLEAN, answers \in Replies,
        http \in [Range(Kinds) -> {<<>>, <<[kind |-> "crm", severity |-> "medium"]>>}] :
       LET connected == Only(Kinds, desk[asking[t]].sources)
           items == CollectAttention(connected, native, answers, http)
       IN  report' = [i \in DOMAIN items |-> items[i].severity]
  /\ UNCHANGED <<services, desk>>

ServiceTick ==
  /\ desk' = [t \in Threads |-> [desk[t] EXCEPT !.age = IF @ > FreshFor THEN @ ELSE @ + 1]]
  /\ UNCHANGED <<services, asking, report>>

-----------------------------------------------------------------------------
ServiceNext ==
  \/ \E t \in Threads :
       \/ Enter(t) \/ Build(t) \/ ChatBrief(t) \/ ApiBrief(t) \/ Attend(t)
       \/ \E c \in Competitors : Watch(t, c)
       \/ \E kind \in Range(Kinds) : Connect(t, kind)
  \/ ServiceTick

ServiceSpec == ServiceInit /\ [][ServiceNext]_serviceVars

Settled == services # "none" /\ \A t \in Threads : asking[t] # "building"

(* runtime.py:79, handler.py:617: two first requests may each build a set  *)
(* of services, and what the earlier set was given is lost; but once one   *)
(* is in place and no request is still building, that set stays in use for *)
(* good and what it watches stays watched, in whatever order requests run. *)
WatchesKept ==
  [][Settled => /\ Settled' /\ services' = services
                /\ desk[services].targets \subseteq desk'[services].targets]_serviceVars
=============================================================================
