------------------------------ MODULE Scraping ------------------------------
(***************************************************************************)
(* The scraper: its policy, its fetchers, the worker that takes scrape     *)
(* tasks from a bus, and the file of scraped documents.  A scrape reads    *)
(* the file, adds to its copy in memory and does not write it back.        *)
(***************************************************************************)
EXTENDS Naturals, FiniteSets

CONSTANTS
  Uris,     \* what may be asked for: [site, pdf], the name ending in .pdf or not
  Blocked, AllowedSites,  \* blocked_domains and allowed_domains of the policy
  Ttl       \* ttl_days; bounds the age of a document to one day more

ASSUME ScrapingAssumption == Ttl \in Nat

VARIABLES
  scraped,  \* the file at HERMES_RAG_INDEX: the age of each document
  fetched,  \* what the last scrape reported as stored
  waiting   \* the message in the worker's queue; bound: one at a time

scrapingVars == <<scraped, fetched, waiting>>

ScrapeTasks == [kind : {"web", "pdf", "vendor_catalog"}, keys : SUBSET Uris]
Nothing     == [kind |-> "nothing", keys |-> {}]
Malformed   == [kind |-> "malformed", keys |-> {}]

ScrapingTypeOK ==
  /\ \A u \in DOMAIN scraped : u \in Uris /\ scraped[u] \in 0..Ttl + 1
  /\ fetched \subseteq Uris
  /\ waiting \in ScrapeTasks \cup {Nothing, Malformed}

(* The file is one that is there already.                                  *)
ScrapingInit ==
  /\ scraped \in UNION {[known -> {0}] : known \in SUBSET Uris}
  /\ fetched = {} /\ waiting = Nothing

DomainAllowed(site) == site \notin Blocked /\ (AllowedSites = {} \/ site \in AllowedSites)

(* WebFetcher.fetch and PdfUrlFetcher.fetch of a page that answers         *)
Fetches(kind, u) == DomainAllowed(u.site) /\ (kind = "pdf" => u.pdf)

(* run_scrape: what is on file is not stored again; a page with no text    *)
(* is stored, for its metadata                                             *)
RunScrape(task) ==
  \E unanswered \in SUBSET task.keys :
    fetched' = {u \in task.keys \ unanswered : Fetches(task.kind, u)} \ DOMAIN scraped

(* hermes scraper run                                                      *)
ScraperRun == (\E task \in ScrapeTasks : RunScrape(task)) /\ UNCHANGED <<scraped, waiting>>

AskScrape ==
  /\ waiting = Nothing
  /\ waiting' \in ScrapeTasks \cup {Malformed}
  /\ UNCHANGED <<scraped, fetched>>

(* run_once: a message that is no task is acknowledged; after a scrape     *)
(* that raises the message is back on a RabbitMQ queue, and gone from an   *)
(* InMemoryBus, whose nack only takes a note                               *)
RunOnce ==
  /\ \/ waiting = Malformed /\ waiting' = Nothing /\ UNCHANGED fetched
     \/ /\ waiting \in ScrapeTasks
        /\ \/ RunScrape(waiting) /\ waiting' = Nothing
           \/ waiting' \in {waiting, Nothing} /\ UNCHANGED fetched
  /\ UNCHANGED scraped

(* hermes-scraper cleanup: evict_stale and save                            *)
Cleanup ==
  /\ scraped' = [u \in {v \in DOMAIN scraped : scraped[v] <= Ttl} |-> scraped[u]]
  /\ UNCHANGED <<fetched, waiting>>

DayPasses ==
  /\ \A u \in DOMAIN scraped : scraped[u] <= Ttl
  /\ scraped' = [u \in DOMAIN scraped |-> scraped[u] + 1]
  /\ UNCHANGED <<fetched, waiting>>

ScrapingNext == ScraperRun \/ AskScrape \/ RunOnce \/ Cleanup \/ DayPasses

ScrapingSpec == ScrapingInit /\ [][ScrapingNext]_scrapingVars
=============================================================================
