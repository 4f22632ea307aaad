------------------------------ MODULE TenantScopes ------------------------------
(***************************************************************************)
(* Which tenant a piece of work acts for: the middleware and its resolver,   *)
(* the context variable, the binding of each transaction (src/tenancy), the  *)
(* row-level security it relies on, and the report of                        *)
(* inspect_isolation on whether that applies.                                *)
(*                                                                          *)
(* PostgreSQL is external: a policy shows a transaction the rows of the      *)
(* tenant it is bound to.  Connections are pooled; a session gives its       *)
(* connection back at the end of each transaction.                           *)
(***************************************************************************)
EXTENDS Integers, FiniteSets

CONSTANTS
    Tenants,   \* tenants
    NoTenant,  \* None, or an absent setting
    Requests,  \* requests and the tasks they start
    Pool       \* connections of the engine's pool

VARIABLES
    role,    \* constant: superuser, bypassrls, owner of the tables
    table,   \* constant: row security enabled, forced, has a policy
    bound,   \* app.tenant_id on each connection
    inUse,   \* the request whose transaction a connection runs, or none
    reqs,    \* each request: state, tenant in scope
    sight,   \* history: the tenants whose rows a request was shown
    empty,   \* history: it was shown no row though its tenant has some
    stray    \* history: a row was written for a tenant other than the writer's

tenantVars == <<role, table, bound, inUse, reqs, sight, empty, stray>>

AnyTenant == Tenants \union {NoTenant}
NoRequest == "none"

ASSUME TenantScopesAssumption == NoTenant \notin Tenants /\ NoRequest \notin Requests

FreshRequest == [state |-> "idle", scope |-> NoTenant]

TenantsTypeOK ==
    /\ role \in [superuser : BOOLEAN, bypass : BOOLEAN, owner : BOOLEAN]
    /\ table \in [enabled : BOOLEAN, forced : BOOLEAN, policy : BOOLEAN]
    /\ bound \in [Pool -> AnyTenant] /\ inUse \in [Pool -> Requests \union {NoRequest}]
    /\ reqs \in [Requests -> [state : {"idle", "open"}, scope : AnyTenant]]
    /\ sight \in [Requests -> SUBSET Tenants] /\ empty \subseteq Requests /\ stray \in BOOLEAN

TenantsInit ==
    /\ role \in [superuser : BOOLEAN, bypass : BOOLEAN, owner : BOOLEAN]
    /\ table \in [enabled : BOOLEAN, forced : BOOLEAN, policy : BOOLEAN]
    /\ bound = [c \in Pool |-> NoTenant] /\ inUse = [c \in Pool |-> NoRequest]
    /\ reqs = [q \in Requests |-> FreshRequest]
    /\ sight = [q \in Requests |-> {}] /\ empty = {} /\ stray = FALSE

-----------------------------------------------------------------------------
(* Row-level security, and what inspect_isolation says of it.              *)

\* The rows a transaction bound to t is shown, or may write.
Visible(t) ==
    CASE role.superuser \/ role.bypass \/ ~table.enabled \/ (role.owner /\ ~table.forced) -> Tenants
      [] ~table.policy -> {}
      [] OTHER -> {t} \ {NoTenant}

\* mutant: the report does not look at FORCE.
ReportedUnforced == ~role.superuser /\ ~role.bypass /\ table.enabled /\ table.policy

\* IsolationReport.enforced: no problem is found.
Enforced == ~role.superuser /\ ~role.bypass /\ table.enabled /\ table.forced /\ table.policy

-----------------------------------------------------------------------------
(* A request.                                                              *)

\* resolve_tenant: the tenant of a token that verifies, then the header's if it is trusted.
Resolved(header, token, trust) ==
    IF token # NoTenant THEN token ELSE IF trust THEN header ELSE NoTenant

\* TenantContextMiddleware: a header that does not parse, or differs from the token's tenant,
\* is refused (nothing changes); otherwise the request runs in the scope of its tenant.
Arrive(q, header, token, trust) ==
    /\ reqs[q].state = "idle"
    /\ token # NoTenant /\ header # NoTenant => header = token
    /\ reqs' = [reqs EXCEPT ![q] = [state |-> "open", scope |-> Resolved(header, token, trust)]]
    /\ UNCHANGED <<role, table, bound, inUse, sight, empty, stray>>

\* asyncio.create_task copies the context: the task keeps the tenant when the request is over.
StartTask(q, child) ==
    /\ reqs[q].state = "open" /\ reqs[child].state = "idle"
    /\ reqs' = [reqs EXCEPT ![child] = reqs[q]]
    /\ UNCHANGED <<role, table, bound, inUse, sight, empty, stray>>

Idle0 == {c \in Pool : inUse[c] = NoRequest}
Conn(q) == {c \in Pool : inUse[c] = q}

\* mutant: the setting is the session's, and outlives the transaction.
Unreset(c) == UNCHANGED bound

\* set_config(..., is_local => true): COMMIT and ROLLBACK end the setting.
Reset(c) == bound' = [bound EXCEPT ![c] = NoTenant]

\* A transaction begins: apply_tenant binds it to the task's tenant, if there is one.
Begin(q, c) ==
    /\ reqs[q].state = "open" /\ Conn(q) = {} /\ c \in Idle0
    /\ inUse' = [inUse EXCEPT ![c] = q]
    /\ bound' = IF reqs[q].scope = NoTenant THEN bound ELSE [bound EXCEPT ![c] = reqs[q].scope]
    /\ UNCHANGED <<role, table, reqs, sight, empty, stray>>

\* get_current_user and every other read: no tenant filter of its own.
Select(q, c) ==
    /\ c \in Conn(q)
    /\ sight' = [sight EXCEPT ![q] = @ \union Visible(bound[c])]
    /\ empty' = IF reqs[q].scope \in Tenants \ Visible(bound[c]) THEN empty \union {q} ELSE empty
    /\ UNCHANGED <<role, table, bound, inUse, reqs, stray>>

\* An insert takes app_current_tenant_id() for its tenant_id; without one it violates NOT NULL.
Insert(q, c) ==
    /\ c \in Conn(q) /\ bound[c] \in Tenants \cap Visible(bound[c])
    /\ stray' = (stray \/ bound[c] # reqs[q].scope)
    /\ UNCHANGED <<role, table, bound, inUse, reqs, sight, empty>>

\* COMMIT or ROLLBACK: the connection goes back to the pool; the request may begin again.
EndTransaction(q, c) ==
    /\ c \in Conn(q)
    /\ inUse' = [inUse EXCEPT ![c] = NoRequest]
    /\ Reset(c)
    /\ UNCHANGED <<role, table, reqs, sight, empty, stray>>

\* The end of a request or task, by return, error or cancellation: its session is closed
\* first, then tenant_scope restores the context.
EndWork(q) ==
    /\ reqs[q].state = "open" /\ Conn(q) = {}
    /\ reqs' = [reqs EXCEPT ![q] = FreshRequest]
    /\ sight' = [sight EXCEPT ![q] = {}] /\ empty' = empty \ {q}
    /\ UNCHANGED <<role, table, bound, inUse, stray>>

TenantsNext ==
    \E q \in Requests :
        \/ EndWork(q)
        \/ \E h, t \in AnyTenant, trust \in BOOLEAN : Arrive(q, h, t, trust)
        \/ \E child \in Requests : StartTask(q, child)
        \/ \E c \in Pool : Begin(q, c) \/ Select(q, c) \/ Insert(q, c) \/ EndTransaction(q, c)

TenantsSpec == TenantsInit /\ [][TenantsNext]_tenantVars

-----------------------------------------------------------------------------
(* Properties.                                                             *)

\* Where the isolation report finds no problem, every request and every task it left behind is
\* shown the rows of its own tenant in each of its transactions, and of no other, on whichever
\* pooled connection; and rows are written for it alone.
TenantsAreIsolated ==
    /\ Enforced =>
         \A q \in Requests : sight[q] \subseteq {reqs[q].scope} \ {NoTenant} /\ q \notin empty
    /\ ~stray
=============================================================================
