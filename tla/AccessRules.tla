----------------------------- MODULE AccessRules ----------------------------
(***************************************************************************)
(* Who may do what: the RBAC engine with its seeded users and their roles, *)
(* the tenant and user an API request or a Telegram message speaks for,    *)
(* the amounts a role may approve, and the store of memory assets with     *)
(* their access lists.  Amounts are in mills, 1/1000 of a dollar.          *)
(***************************************************************************)
EXTENDS Integers, Sequences

CONSTANTS
  Clients,      \* what a request says of its sender: headers and token
  ApprovalRows, \* the tenants of the pending approvals, oldest first
  Amounts,      \* of requests
  AssetIds,
  Assets,       \* that may be put
  Principals,   \* <<principal, tenant>> that read them
  Changes       \* <<user, role>> that somebody assigns or revokes

VARIABLES
  held,    \* the roles of each user of the engine
  assets,  \* of _InMemoryStore
  verdict  \* what the latest call returned

accessVars == <<held, assets, verdict>>

-----------------------------------------------------------------------------
(* _seed_default_rbac, of the API and of the chat: each has its own engine *)
Seeded == [ user_1 |-> {"procurement_requester"}, user_2 |-> {"procurement_manager"},
            user_3 |-> {"finance_approver"}, user_4 |-> {"admin"} ]
Names  == [ alice |-> "user_1", bob |-> "user_2", carol |-> "user_3", dave |-> "user_4" ]
Home   == "default"

(* PREDEFINED_ROLES: permissions are <<domain, verb, limit>>               *)
Permissions ==
  [ procurement_requester |-> {<<"procurement", "create", 0>>, <<"procurement", "view", 0>>},
    procurement_manager   |-> {<<"procurement", "create", 0>>, <<"procurement", "view", 0>>,
                               <<"procurement", "approve", 10000>>},
    finance_approver      |-> {<<"procurement", "view", 0>>, <<"procurement", "approve", 100000>>},
    admin                 |-> {<<"admin", "*", 0>>} ]

Roles == DOMAIN Permissions
Users == DOMAIN Seeded

(* A role or a user that is not known is not assigned.                     *)
ASSUME AccessAssumption == Changes \subseteq Users \X Roles

(* has_permission: the same, any of the domain for "*", or a limit at      *)
(* least as high                                                           *)
HasPermission(role, wanted) ==
  \E p \in Permissions[role] :
    /\ p[1] = wanted[1]
    /\ \/ p = wanted
       \/ p[2] = "*"
       \/ p[2] = "approve" /\ wanted[2] = "approve" /\ wanted[3] <= p[3]

CheckPermission(u, wanted) == \E r \in held[u] : HasPermission(r, wanted)

-----------------------------------------------------------------------------
(* _default_thresholds, in the order of their least amount: an amount      *)
(* between two of them has none                                            *)
Thresholds ==
  << [from |-> 0,        to |-> 999990,  roles |-> {"procurement_manager"}],
     [from |-> 1000000,  to |-> 9999990, roles |-> {"procurement_manager", "finance_approver"}],
     [from |-> 10000000, to |-> 0,
      roles |-> {"procurement_manager", "finance_approver", "admin"}] >>

Matches(th, amount) == th.from <= amount /\ (th.to # 0 => amount <= th.to)

ThresholdFor(amount) == SelectSeq(Thresholds, LAMBDA th : Matches(th, amount))

(* user_can_approve: one user must hold every role of the threshold        *)
UserCanApprove(u, amount) ==
  /\ ThresholdFor(amount) # <<>>
  /\ Head(ThresholdFor(amount)).roles \subseteq held[u]

(* evaluate_approval adds the separation of duties                         *)
EvaluateApproval(requester, approver, amount) ==
  UserCanApprove(approver, amount) /\ requester # approver

-----------------------------------------------------------------------------
(* _extract_tenant_context and _get_user_from_request: "" for what the     *)
(* sender does not say; a sender nobody knows is no user                   *)
TenantOf(s) == IF s.tenant # "" THEN s.tenant ELSE IF s.token # <<>> THEN s.token[1] ELSE Home

UserOf(s) ==
  CASE s.user # "" -> IF s.user \in Users THEN s.user ELSE ""
    [] s.name # "" -> IF TenantOf(s) = Home /\ s.name \in DOMAIN Names THEN Names[s.name] ELSE ""
    [] s.token # <<>> -> IF s.token[2] \in Users THEN s.token[2] ELSE ""
    [] OTHER -> ""

(* get_user_from_telegram: by the name, else by the number                 *)
TelegramUser(s) ==
  CASE s.name \in DOMAIN Names -> Names[s.name]
    [] s.user \in Users -> s.user
    [] OTHER -> ""

(* the request goes on unless a known user lacks the permission            *)
Serves(u, verb) == u = "" \/ CheckPermission(u, <<"procurement", verb, 0>>)

-----------------------------------------------------------------------------
(* ACLPolicy.authorize                                                     *)
Authorize(asset, principal, tenant, wanted) ==
  /\ tenant = asset.tenant
  /\ \/ principal = asset.owner
     \/ asset.visibility # "private" /\ <<principal, wanted>> \in asset.acls

(* promotion_gate: to the same tier or down to raw_store is always         *)
(* allowed, all else needs a review                                        *)
PromotionGate(current, requested, reviewed) ==
  requested \in {current, "raw_store"} \/ reviewed

(* classify_content asks nothing of the text                               *)
ClassifyContent == [tier |-> "raw_store", kind |-> "data", review |-> TRUE]

NoAsset == [tenant |-> "", owner |-> "", visibility |-> "private", acls |-> {}, tier |-> "none"]

-----------------------------------------------------------------------------
AccessTypeOK ==
  /\ DOMAIN held = Users /\ \A u \in Users : held[u] \subseteq Roles
  /\ DOMAIN assets = AssetIds /\ \A a \in AssetIds : assets[a] \in Assets \cup {NoAsset}

AccessInit ==
  held = Seeded /\ assets = [a \in AssetIds |-> NoAsset] /\ verdict = <<>>

Say(v) == verdict' = v /\ UNCHANGED <<held, assets>>

(* assign_role and revoke_role; a role or a user not known changes nothing *)
AssignRole(u, r) ==
  /\ held' = [held EXCEPT ![u] = @ \cup {r}]
  /\ verdict' = <<"assigned">> /\ UNCHANGED assets

RevokeRole(u, r) ==
  /\ held' = [held EXCEPT ![u] = @ \ {r}]
  /\ verdict' = <<"revoked">> /\ UNCHANGED assets

FindUsersByRole(r) == Say(<<"holders", {u \in Users : r \in held[u]}>>)

(* procurement_run                                                         *)
ProcurementRun(s) ==
  Say(IF Serves(UserOf(s), "create") THEN <<"run", TenantOf(s)>> ELSE <<"403">>)

(* approvals_pending: those of the tenant only                             *)
ApprovalsPending(s) ==
  Say(IF Serves(UserOf(s), "view")
      THEN <<"pending", SelectSeq(ApprovalRows, LAMBDA tenant : tenant = TenantOf(s))>>
      ELSE <<"403">>)

(* knowledge_ingest, knowledge_query: personal documents need a user to    *)
(* put, not to query                                                       *)
KnowledgeIngest(s, scope) ==
  Say(IF scope = "personal" /\ UserOf(s) = "" THEN <<"422">>
      ELSE <<"ingested", TenantOf(s), UserOf(s)>>)

KnowledgeQuery(s, scope) == Say(<<"searched", scope, TenantOf(s), UserOf(s)>>)

(* the chat asks whether its user may create                               *)
ChatCreates(s) ==
  Say(<<IF Serves(TelegramUser(s), "create") THEN "started" ELSE "refused">>)

Approve(requester, approver, amount) ==
  Say(<<IF EvaluateApproval(requester, approver, amount) THEN "allowed" ELSE "refused">>)

(* SafeMemoryClient: put overwrites, whatever tier the asset names         *)
PutAsset(a, asset) ==
  assets' = [assets EXCEPT ![a] = asset] /\ verdict' = <<"put">> /\ UNCHANGED held

Readable(a, p) == assets[a] # NoAsset /\ Authorize(assets[a], p[1], p[2], "read")

GetAsset(a, p) == Say(<<IF Readable(a, p) THEN "asset" ELSE "nothing">>)

(* authorize_tool: the owner, too, needs the entry of the access list      *)
AuthorizeTool(a, p) ==
  Say(<<IF /\ Readable(a, p) /\ assets[a].tier = "approved"
           /\ <<p[1], "authorize">> \in assets[a].acls
        THEN "granted" ELSE "denied">>)

AskPromotion(a, tier, reviewed) ==
  Say(<<IF PromotionGate(assets[a].tier, tier, reviewed) THEN "promoted" ELSE "kept",
        ClassifyContent.tier>>)

AccessNext ==
  \/ \E c \in Changes : AssignRole(c[1], c[2]) \/ RevokeRole(c[1], c[2])
  \/ \E r \in Roles : FindUsersByRole(r)
  \/ \E s \in Clients :
       \/ ProcurementRun(s) \/ ApprovalsPending(s) \/ ChatCreates(s)
       \/ \E scope \in {"team", "personal"} : KnowledgeIngest(s, scope) \/ KnowledgeQuery(s, scope)
  \/ \E u, v \in Users, amount \in Amounts : Approve(u, v, amount)
  \/ \E a \in AssetIds :
       \/ \E asset \in Assets : PutAsset(a, asset)
       \/ \E p \in Principals : GetAsset(a, p) \/ AuthorizeTool(a, p)
       \/ \E tier \in {"raw_store", "reviewed", "approved"}, ok \in BOOLEAN :
            AskPromotion(a, tier, ok)

AccessSpec == AccessInit /\ [][AccessNext]_accessVars
=============================================================================
