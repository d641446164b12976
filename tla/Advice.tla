------------------------------- MODULE Advice -------------------------------
(***************************************************************************)
(* Where answers come from when a language model may be missing or may     *)
(* fail: the provider chain of the model gateway, the advisory council     *)
(* with its personas asked in parallel, an agent's think, the router's     *)
(* classifier, and the price answer of the chat, which asks no model.      *)
(***************************************************************************)
EXTENDS Filters, FiniteSets

CONSTANTS
  KeySets,      \* the keys that an environment may hold
  Personas,     \* of the council
  DatedQuotes,  \* [demo, until, quoted]: the age of both dates, NoDate when absent
  FreshDays,    \* PRICE_FRESH_DAYS
  MaxListed,    \* the quotes one answer lists
  NoDate

VARIABLES
  keys,      \* providers with a key in the environment
  up,        \* environment: providers that answer now
  trying,    \* ModelGateway.complete: the place in the chain, 0 when not asking
  answer,    \* who answered last
  opinions,  \* of each persona: "none", "asking", "llm", "stub"
  priced     \* the latest price answer

adviceVars == <<keys, up, trying, answer, opinions, priced>>

ProviderOrder == <<"openai", "anthropic", "hf", "cloudflare">>
Providers     == Range(ProviderOrder)

ASSUME AdviceAssumption == KeySets \subseteq SUBSET Providers /\ MaxListed \in Nat

(* from_env: a provider for each key, in this order                        *)
Chain == Only(ProviderOrder, keys)

NoAnswer == [kind |-> "none", listed |-> 0, stale |-> {}]

AdviceTypeOK ==
  /\ keys \subseteq Providers /\ up \subseteq keys
  /\ trying \in 0..Len(Chain)
  /\ answer \in Providers \cup {"none", "stub", "raised", "fallback", "rules"}
  /\ opinions \in [Personas -> {"none", "asking", "llm", "stub"}]
  /\ priced.kind \in {"none", "no_data", "demo_only", "prices"}
  /\ priced.listed \in 0..MaxListed /\ priced.stale \subseteq 1..priced.listed

AdviceInit ==
  /\ keys \in KeySets /\ up = keys
  /\ trying = 0 /\ answer = "none"
  /\ opinions = [p \in Personas |-> "none"]
  /\ priced = NoAnswer

(* Environment: a provider goes down or comes back.                        *)
ProviderChanges ==
  /\ \E p \in keys : up' = IF p \in up THEN up \ {p} ELSE up \cup {p}
  /\ UNCHANGED <<keys, trying, answer, opinions, priced>>

-----------------------------------------------------------------------------
(* complete: without providers a stub answer                               *)
Ask ==
  /\ trying = 0
  /\ IF Chain = <<>> THEN answer' = "stub" /\ UNCHANGED trying
     ELSE trying' = 1 /\ UNCHANGED answer
  /\ UNCHANGED <<keys, up, opinions, priced>>

(* the first success wins; after the last failure it raises                *)
TryProvider ==
  /\ trying # 0
  /\ \/ Chain[trying] \in up /\ answer' = Chain[trying] /\ trying' = 0
     \/ /\ Chain[trying] \notin up
        /\ IF trying = Len(Chain) THEN answer' = "raised" /\ trying' = 0
           ELSE trying' = trying + 1 /\ UNCHANGED answer
  /\ UNCHANGED <<keys, up, opinions, priced>>

(* build_llm knows cloudflare alone; without it there is no model          *)
DirectModel == "cloudflare" \in keys

(* BaseAgent.think, and the classifier, whose failures leave the rules     *)
Direct(without, failing) ==
  /\ answer' = CASE ~ DirectModel -> without
                 [] DirectModel /\ "cloudflare" \in up -> "cloudflare"
                 [] DirectModel /\ "cloudflare" \notin up -> failing
  /\ UNCHANGED <<keys, up, trying, opinions, priced>>

Think       == Direct("stub", "fallback")
NameProject == Direct("rules", "rules")

-----------------------------------------------------------------------------
(* ask: the personas named, all when none of the names is one              *)
AskCouncil ==
  /\ \A p \in Personas : opinions[p] # "asking"
  /\ \E named \in SUBSET Personas :
        opinions' = [p \in Personas |->
                       IF named = {} \/ p \in named THEN "asking" ELSE "none"]
  /\ UNCHANGED <<keys, up, trying, answer, priced>>

(* _opinion in the pool, in any order: a failing model costs this persona  *)
(* alone its opinion, and the stub speaks instead                          *)
Opine(p) ==
  /\ opinions[p] = "asking"
  /\ opinions' = [opinions EXCEPT ![p] =
                    IF DirectModel /\ "cloudflare" \in up THEN "llm" ELSE "stub"]
  /\ UNCHANGED <<keys, up, trying, answer, priced>>

-----------------------------------------------------------------------------
(* quote_age_days: from valid_until, from quote_date when that is absent   *)
QuoteAge(q) == IF q.until # NoDate THEN q.until ELSE q.quoted

IsStale(q) == QuoteAge(q) # NoDate /\ QuoteAge(q) > FreshDays

(* price_question_reply: the first quotes that are no demo                 *)
PriceAnswer(quotes) ==
  LET real  == Only(quotes, {q \in DatedQuotes : ~ q.demo})
      shown == IF Len(real) <= MaxListed THEN real ELSE SubSeq(real, 1, MaxListed)
  IN  CASE quotes = <<>> -> [NoAnswer EXCEPT !.kind = "no_data"]
        [] quotes # <<>> /\ real = <<>> -> [NoAnswer EXCEPT !.kind = "demo_only"]
        [] real # <<>> -> [kind |-> "prices", listed |-> Len(shown),
                           stale |-> {i \in DOMAIN shown : IsStale(shown[i])}]

AnswerPrice ==
  /\ \E n \in 0..MaxListed + 1 : \E quotes \in [1..n -> DatedQuotes] :
        priced' = PriceAnswer(quotes)
  /\ UNCHANGED <<keys, up, trying, answer, opinions>>

AdviceNext ==
  \/ ProviderChanges \/ Ask \/ TryProvider \/ Think \/ NameProject
  \/ AskCouncil \/ AnswerPrice
  \/ \E p \in Personas : Opine(p)

AdviceSpec == AdviceInit /\ [][AdviceNext]_adviceVars
=============================================================================
