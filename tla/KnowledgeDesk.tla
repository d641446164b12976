--------------------------- MODULE KnowledgeDesk ----------------------------
(***************************************************************************)
(* The knowledge base: documents of tenants, for the team or for their     *)
(* owner, and the full-text index that triggers keep beside them.  A text  *)
(* is the set of its words; an identifier is the sequence of its parts     *)
(* between colons ("tg:7" is <<"tg", "7">>).                               *)
(***************************************************************************)
EXTENDS Naturals, Sequences, SequencesExt, FiniteSets, FiniteSetsExt

CONSTANTS
  DocIds,     \* bounds the documents
  KbTenants, Readers, Contents,
  Limit       \* of one search

ASSUME KnowledgeAssumption ==
  /\ Readers \subseteq Seq(STRING) \ {<<>>}
  /\ Limit \in Nat

VARIABLES
  kbDocs,  \* table kb_docs
  kbFts    \* table kb_fts: the words filed for each row

knowledgeVars == <<kbDocs, kbFts>>

Scopes == {"team", "personal"}

KnowledgeDoc ==
  [tenant : KbTenants, scope : Scopes, content : Contents, owner : Readers \cup {<<>>},
   shared : SUBSET Readers]

KnowledgeTypeOK ==
  /\ kbDocs \in UNION {[ids -> KnowledgeDoc] : ids \in SUBSET DocIds}
  /\ kbFts \subseteq DocIds \X Contents

KnowledgeInit == kbDocs = <<>> /\ kbFts = {}

-----------------------------------------------------------------------------
Filed(id, doc) == {<<id, doc.content>>}
Refile(id) == IF id \in DOMAIN kbDocs THEN kbFts \ Filed(id, kbDocs[id]) ELSE kbFts

(* Fault: the trigger after an update files the new words only.            *)
Put_KeepFiled(id, doc) ==
  /\ kbDocs' = [d \in DOMAIN kbDocs \cup {id} |-> IF d = id THEN doc ELSE kbDocs[d]]
  /\ kbFts' = kbFts \cup Filed(id, doc)

(* put: insert, or update of the row with this id; triggers kb_ai, kb_au   *)
Put(id, doc) ==
  /\ kbDocs' = [d \in DOMAIN kbDocs \cup {id} |-> IF d = id THEN doc ELSE kbDocs[d]]
  /\ kbFts' = Refile(id) \cup Filed(id, doc)

(* ingest: a new id; a personal document needs an owner, one of the team   *)
(* has none, and nobody is given a share                                   *)
IngestDoc ==
  \E id \in DocIds \ DOMAIN kbDocs, t \in KbTenants, s \in Scopes, u \in Readers, c \in Contents :
    Put(id, [tenant |-> t, scope |-> s, content |-> c, shared |-> {},
             owner |-> IF s = "personal" THEN u ELSE <<>>])

(* The store itself lets a document be rewritten and shared                *)
Rewrite ==
  \E id \in DOMAIN kbDocs, c \in Contents, with \in SUBSET Readers :
    Put(id, [kbDocs[id] EXCEPT !.content = c,
                               !.shared = IF kbDocs[id].scope = "personal" THEN with ELSE {}])

DeleteDoc ==
  \E id \in DOMAIN kbDocs :
    /\ kbDocs' = [d \in DOMAIN kbDocs \ {id} |-> kbDocs[d]]
    /\ kbFts' = Refile(id)

KnowledgeNext == IngestDoc \/ Rewrite \/ DeleteDoc

KnowledgeSpec == KnowledgeInit /\ [][KnowledgeNext]_knowledgeVars

-----------------------------------------------------------------------------
(* _unjson of _json: the ids were joined by colons and are split at every  *)
(* one                                                                     *)
SharedParts(shared) == UNION {Range(u) : u \in shared}

(* _personal_visible; no user at all is <<>>                               *)
PersonalVisible(doc, u) ==
  \/ u # <<>> /\ doc.owner = u
  \/ Len(u) = 1 /\ u[1] \in SharedParts(doc.shared)

(* search: the best rows by score, at most Limit, before the filter on     *)
(* their readers; which rows score best is left open                       *)
Search(query, t, s, u) ==
  LET matching == {id \in DOMAIN kbDocs : /\ \E row \in kbFts : row[1] = id /\ row[2] \cap query # {}
                                          /\ kbDocs[id].tenant = t /\ kbDocs[id].scope = s}
      n == Cardinality(matching)
  IN  {{id \in rows : s = "personal" => PersonalVisible(kbDocs[id], u)} :
          rows \in kSubset(IF n < Limit THEN n ELSE Limit, matching)}

(* recent: the owner's, and those with the whole id among the joined ones  *)
Recent(t, s, u) ==
  {id \in DOMAIN kbDocs :
     /\ kbDocs[id].tenant = t /\ kbDocs[id].scope = s
     /\ s = "personal" => kbDocs[id].owner = u \/ u \in kbDocs[id].shared}

(* query, and _reply_domain: a question in a chat is asked as "tg:" user,  *)
(* with the default tenant; without rows the answer is not grounded        *)
Query(query, t, s, u) == {[grounded |-> rows # {}, sources |-> rows] : rows \in Search(query, t, s, u)}

-----------------------------------------------------------------------------
(* knowledge/store.py:31, :104: after any sequence of inserts, updates and *)
(* deletions a search answers from the documents as they are now: each     *)
(* source has one of the words asked for, belongs to the tenant and the    *)
(* scope, and is the reader's own or shared; and when no more rows match   *)
(* than a search takes, every document of the team and of the reader that  *)
(* has a word is among them.                                               *)
AnswersAreCurrent ==
  \A query \in Contents, t \in KbTenants, s \in Scopes, u \in Readers :
    LET has(id) == kbDocs[id].content \cap query # {} /\ kbDocs[id].tenant = t
                     /\ kbDocs[id].scope = s
        mine(id) == s = "team" \/ kbDocs[id].owner = u
    IN  \A answer \in Query(query, t, s, u) :
          /\ \A id \in answer.sources :
               has(id) /\ (mine(id) \/ \E v \in kbDocs[id].shared : Range(u) \subseteq Range(v))
          /\ Cardinality({id \in DOMAIN kbDocs : has(id)}) <= Limit =>
               {id \in DOMAIN kbDocs : has(id) /\ mine(id)} \subseteq answer.sources
=============================================================================
