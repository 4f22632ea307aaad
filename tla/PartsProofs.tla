---------------------------- MODULE PartsProofs -------------------------------
(***************************************************************************)
(* Proofs about components that share no state (MCServices): sessions and    *)
(* tenants, fencing, row locks, key rotation and object storage, payments     *)
(* and webhooks.  Each has an inductive invariant of its own, proved from     *)
(* its actions alone; ServicesProofs puts them together.                      *)
(***************************************************************************)
EXTENDS TLAPS, Sessions, TenantScopes, Fencing, RowLocks, KeyRotation, Objects, Payments,
        Webhooks

-----------------------------------------------------------------------------
(* Sessions: the tokens of a grant.                                        *)

\* What a request carries was issued, and what it knew of its grant is revoked or chosen.
OneSession(q) ==
    /\ IF req[q] \in {"idle", "login"} THEN presented[q] = NoToken ELSE presented[q] \in Issued
    /\ req[q] \notin {"selected", "revoking"} => known[q] = {}
    /\ known[q] \subseteq revoked \cup chosen[q]

SessionsInv == SessionsTypeOK /\ GrantIsRevoked /\ \A q \in AuthRequests : OneSession(q)

\* No request has a token at first.
LEMMA SessionsStart == SessionsInit => SessionsInv
  <1> SUFFICES ASSUME SessionsInit  PROVE SessionsInv
    BY Zenon
  <1>1. Issued = {}
    BY Zenon DEF SessionsInit, Issued
  <1>2. SessionsTypeOK
    BY Zenon, <1>1 DEF SessionsInit, SessionsTypeOK
  <1>3. GrantIsRevoked
    BY Zenon DEF SessionsInit, GrantIsRevoked
  <1>4. ASSUME NEW q \in AuthRequests  PROVE OneSession(q)
    BY Zenon DEF SessionsInit, OneSession
  <1> QED BY Zenon, <1>2, <1>3, <1>4 DEF SessionsInv

\* A new token is new, and the others keep their families.
LEMMA Issues ==
    ASSUME SessionsTypeOK, NEW g \in Grants, Issue(g)
    PROVE  \E k \in Tokens \ Issued :
              /\ Issued' = Issued \cup {k} /\ \A j \in Issued' : tokenGrant'[j] \in Grants
  <1> DEFINE k == CHOOSE j \in Tokens \ Issued : TRUE
  <1>1. k \in Tokens \ Issued
    BY Zenon DEF Issue
  <1>2. tokenGrant' = [j \in Issued \cup {k} |-> IF j = k THEN g ELSE tokenGrant[j]]
    BY Zenon DEF Issue
  <1> HIDE DEF k
  <1>3. Issued' = Issued \cup {k}
    BY Zenon, <1>2 DEF Issued
  <1>4. ASSUME NEW j \in Issued'  PROVE tokenGrant'[j] \in Grants
    BY Zenon, <1>2, <1>3, <1>4 DEF SessionsTypeOK
  <1> QED BY Zenon, <1>1, <1>3, <1>4

\* The end of a request that issued at most one token and revoked what it had chosen, if
\* anything.
LEMMA EndsRequest ==
    ASSUME SessionsInv, NEW q \in AuthRequests, EndRequest(q), active' \in BOOLEAN,
           endedGrants' \subseteq Grants,
           Issued \subseteq Issued', Issued' \subseteq Tokens,
           \A j \in Issued' : tokenGrant'[j] \in Grants,
           revoked' \in {revoked, revoked \cup chosen[q]},
           \/ settled' = settled
           \/ settled' = settled \cup known[q] /\ revoked' = revoked \cup chosen[q]
    PROVE  SessionsInv'
  <1>1. revoked \subseteq revoked' /\ revoked' \subseteq Issued'
    BY Zenon DEF SessionsInv, SessionsTypeOK
  <1>2. /\ req' \in [AuthRequests -> {"idle", "login", "read", "rotating",
                              "selecting", "selected", "revoking"}]
        /\ presented' \in [AuthRequests -> Tokens \cup {NoToken}]
        /\ chosen' \in [AuthRequests -> SUBSET Issued']
        /\ known' \in [AuthRequests -> SUBSET Issued']
    BY Zenon DEF EndRequest, SessionsInv, SessionsTypeOK
  <1>3. settled' \subseteq revoked'
    BY Zenon, <1>1 DEF SessionsInv, SessionsTypeOK, GrantIsRevoked, Live, OneSession
  <1>4. SessionsTypeOK'
    BY Zenon, <1>1, <1>2, <1>3 DEF SessionsTypeOK
  <1>5. GrantIsRevoked'
    BY Zenon, <1>3 DEF GrantIsRevoked, Live
  <1>6. ASSUME NEW p \in AuthRequests  PROVE OneSession(p)'
    <2>1. CASE p = q
      <3>1. req'[q] = "idle" /\ known'[q] = {} /\ presented'[q] = NoToken
        BY Zenon DEF EndRequest, SessionsInv, SessionsTypeOK
      <3> QED BY Zenon, <2>1, <3>1 DEF OneSession
    <2>2. CASE p # q
      <3>1. req'[p] = req[p] /\ presented'[p] = presented[p] /\ chosen'[p] = chosen[p]
            /\ known'[p] = known[p]
        BY Zenon, <2>2 DEF EndRequest, SessionsInv, SessionsTypeOK
      <3> QED BY Zenon, <1>1, <3>1 DEF OneSession, SessionsInv
    <2> QED BY Zenon, <2>1, <2>2
  <1> QED BY Zenon, <1>4, <1>5, <1>6 DEF SessionsInv

\* A request goes on, and nothing is committed.
LEMMA GoesOn ==
    ASSUME SessionsInv, NEW q \in AuthRequests, UNCHANGED <<tokenGrant, revoked, endedGrants, settled>>,
           active' \in BOOLEAN, NEW where \in {"login", "read", "rotating", "selecting", "selected", "revoking"},
           req' = [req EXCEPT ![q] = where],
           NEW k \in Issued \cup {NoToken}, presented' = [presented EXCEPT ![q] = k],
           IF where = "login" THEN k = NoToken ELSE k \in Issued,
           NEW c \in SUBSET Issued, chosen' = [chosen EXCEPT ![q] = c],
           NEW n \in SUBSET Issued, known' = [known EXCEPT ![q] = n],
           n \subseteq revoked \cup c, where \notin {"selected", "revoking"} => n = {}
    PROVE  SessionsInv'
  <1>1. Issued' = Issued
    BY Zenon DEF Issued
  <1>2. SessionsTypeOK'
    BY Zenon, <1>1 DEF SessionsInv, SessionsTypeOK
  <1>3. GrantIsRevoked'
    BY Zenon, <1>1 DEF SessionsInv, GrantIsRevoked, Live
  <1>4. ASSUME NEW p \in AuthRequests  PROVE OneSession(p)'
    <2>1. CASE p = q
      <3>1. req'[q] = where /\ presented'[q] = k /\ chosen'[q] = c /\ known'[q] = n
        BY Zenon DEF SessionsInv, SessionsTypeOK
      <3> QED BY <1>1, <2>1, <3>1 DEF OneSession
    <2>2. CASE p # q
      <3>1. req'[p] = req[p] /\ presented'[p] = presented[p] /\ chosen'[p] = chosen[p]
            /\ known'[p] = known[p]
        BY Zenon, <2>2 DEF SessionsInv, SessionsTypeOK
      <3> QED BY <1>1, <3>1 DEF OneSession, SessionsInv
    <2> QED BY Zenon, <2>1, <2>2
  <1> QED BY Zenon, <1>2, <1>3, <1>4 DEF SessionsInv

\* Every step keeps the invariant.
LEMMA SessionsStep == SessionsInv /\ [SessionsNext]_authVars => SessionsInv'
  <1> SUFFICES ASSUME SessionsInv, [SessionsNext]_authVars  PROVE SessionsInv'
    BY Zenon
  <1>0. /\ Issued \subseteq Tokens /\ \A k \in Issued : tokenGrant[k] \in Grants
        /\ active \in BOOLEAN /\ TRUE \in BOOLEAN /\ FALSE \in BOOLEAN /\ endedGrants \subseteq Grants
    BY Zenon DEF SessionsInv, SessionsTypeOK
  <1>a. ASSUME NEW q \in AuthRequests
        PROVE  /\ presented = [presented EXCEPT ![q] = presented[q]]
               /\ chosen = [chosen EXCEPT ![q] = chosen[q]] /\ known = [known EXCEPT ![q] = known[q]]
               /\ chosen[q] \in SUBSET Issued /\ known[q] \in SUBSET Issued
               /\ OneSession(q) /\ presented[q] \in Issued \cup {NoToken}
               /\ {} \in SUBSET Issued /\ NoToken \in Issued \cup {NoToken}
    <2>1. OneSession(q) /\ chosen[q] \in SUBSET Issued /\ known[q] \in SUBSET Issued
      BY Zenon DEF SessionsInv, SessionsTypeOK
    <2>2. presented = [presented EXCEPT ![q] = presented[q]]
      BY Zenon DEF SessionsInv, SessionsTypeOK
    <2>3. chosen = [chosen EXCEPT ![q] = chosen[q]] /\ known = [known EXCEPT ![q] = known[q]]
      BY Zenon DEF SessionsInv, SessionsTypeOK
    <2> QED BY Zenon, <2>1, <2>2, <2>3 DEF OneSession
  <1>1. CASE UNCHANGED authVars \/ Deactivate
    <2>1. /\ UNCHANGED <<tokenGrant, revoked, req, presented, chosen, endedGrants, known, settled>>
          /\ active' \in BOOLEAN
      BY Zenon, <1>0, <1>1 DEF authVars, Deactivate
    <2>2. Issued' = Issued
      BY Zenon, <2>1 DEF Issued
    <2> QED BY Zenon, <2>1, <2>2 DEF SessionsInv, SessionsTypeOK, GrantIsRevoked, Live, OneSession
  <1>2. ASSUME NEW q \in AuthRequests, BeginLogin(q) \/ OauthLogin(q)  PROVE SessionsInv'
    <2>1. /\ req[q] = "idle" /\ req' = [req EXCEPT ![q] = "login"]
          /\ UNCHANGED <<tokenGrant, revoked, active, presented, chosen, endedGrants, known, settled>>
      BY Zenon, <1>2 DEF BeginLogin, OauthLogin, Step
    <2>2. presented[q] = NoToken /\ known[q] = {}
      BY Zenon, <1>a, <2>1 DEF OneSession
    <2> QED BY Zenon, <1>0, <1>a, <2>1, <2>2, GoesOn
  <1>3. ASSUME NEW q \in AuthRequests, NEW k \in Tokens, BeginRefresh(q, k) \/ BeginLogout(q, k)
        PROVE  SessionsInv'
    <2>1. PICK where \in {"read", "selecting"} :
              /\ req[q] = "idle" /\ k \in Issued /\ req' = [req EXCEPT ![q] = where]
              /\ presented' = [presented EXCEPT ![q] = k]
              /\ UNCHANGED <<tokenGrant, revoked, active, chosen, endedGrants, known, settled>>
      BY Zenon, <1>3 DEF BeginRefresh, BeginLogout
    <2>2. known[q] = {}
      BY Zenon, <1>a, <2>1 DEF OneSession
    <2> QED BY Zenon, <1>0, <1>a, <2>1, <2>2, GoesOn
  <1>4. ASSUME NEW q \in AuthRequests, RevokePresented(q)  PROVE SessionsInv'
    <2>1. /\ req[q] = "read" /\ req' = [req EXCEPT ![q] = "rotating"]
          /\ chosen' = [chosen EXCEPT ![q] = {presented[q]}]
          /\ UNCHANGED <<tokenGrant, revoked, active, presented, endedGrants, known, settled>>
      BY Zenon, <1>4 DEF RevokePresented, Step
    <2>2. known[q] = {} /\ presented[q] \in Issued /\ {presented[q]} \in SUBSET Issued
      BY Zenon, <1>a, <2>1 DEF OneSession
    <2> QED BY Zenon, <1>0, <1>a, <2>1, <2>2, GoesOn
  <1>5. ASSUME NEW q \in AuthRequests, SelectFamily(q)  PROVE SessionsInv'
    <2>1. /\ req[q] = "selecting" /\ req' = [req EXCEPT ![q] = "selected"]
          /\ chosen' = [chosen EXCEPT ![q] = Revocable(q)]
          /\ known' = [known EXCEPT ![q] = Family(tokenGrant[presented[q]])]
          /\ UNCHANGED <<tokenGrant, revoked, active, presented, endedGrants, settled>>
      BY Zenon, <1>5 DEF SelectFamily, Step
    <2>2. presented[q] \in Issued
      BY Zenon, <1>a, <2>1 DEF OneSession
    <2>3. /\ Family(tokenGrant[presented[q]]) \in SUBSET Issued /\ Revocable(q) \in SUBSET Issued
          /\ Family(tokenGrant[presented[q]]) \subseteq revoked \cup Revocable(q)
      BY Zenon DEF Family, Revocable, Live
    <2> QED BY Zenon, <1>0, <1>a, <2>1, <2>2, <2>3, GoesOn
  <1>6. ASSUME NEW q \in AuthRequests, RevokeFamily(q)  PROVE SessionsInv'
    <2>1. /\ req[q] = "selected" /\ req' = [req EXCEPT ![q] = "revoking"]
          /\ UNCHANGED <<tokenGrant, revoked, active, presented, chosen, endedGrants, known, settled>>
      BY Zenon, <1>6 DEF RevokeFamily, Step
    <2>2. presented[q] \in Issued /\ known[q] \subseteq revoked \cup chosen[q]
      BY Zenon, <1>a, <2>1 DEF OneSession
    <2>3. /\ presented' = [presented EXCEPT ![q] = presented[q]] /\ active' \in BOOLEAN
          /\ chosen' = [chosen EXCEPT ![q] = chosen[q]] /\ known' = [known EXCEPT ![q] = known[q]]
          /\ chosen[q] \in SUBSET Issued /\ known[q] \in SUBSET Issued
      BY Zenon, <1>a, <2>1 DEF SessionsInv, SessionsTypeOK, OneSession
    <2> QED BY Zenon, <1>0, <2>1, <2>2, <2>3, GoesOn
  <1>7. ASSUME NEW q \in AuthRequests, CommitLogin(q) \/ CommitRefresh(q)  PROVE SessionsInv'
    <2>1. /\ revoked' \in {revoked, revoked \cup chosen[q]} /\ EndRequest(q)
          /\ UNCHANGED <<active, endedGrants, settled>>
      BY Zenon, <1>7 DEF CommitLogin, CommitRefresh
    <2>2. PICK g \in Grants : Issue(g)
      <3>1. CASE CommitLogin(q)
        BY Zenon, <3>1 DEF CommitLogin
      <3>2. CASE CommitRefresh(q)
        <4>1. req[q] = "rotating" /\ Issue(tokenGrant[presented[q]])
          BY Zenon, <3>2 DEF CommitRefresh
        <4>2. presented[q] \in Issued
          BY Zenon, <1>a, <4>1 DEF OneSession
        <4> QED BY Zenon, <1>0, <4>1, <4>2
      <3> QED BY Zenon, <1>7, <3>1, <3>2
    <2>3. PICK k \in Tokens \ Issued :
              Issued' = Issued \cup {k} /\ \A j \in Issued' : tokenGrant'[j] \in Grants
      BY Zenon, <2>2, Issues DEF SessionsInv
    <2>4. Issued \subseteq Issued' /\ Issued' \subseteq Tokens
      BY Zenon, <1>0, <2>3
    <2> QED BY Zenon, <1>0, <2>1, <2>3, <2>4, EndsRequest
  <1>8. ASSUME NEW q \in AuthRequests, EndGrant(q) \/ FailRequest(q)  PROVE SessionsInv'
    <2>1. /\ EndRequest(q) /\ UNCHANGED <<tokenGrant, active>>
          /\ revoked' \in {revoked, revoked \cup chosen[q]}
          /\ \/ settled' = settled
             \/ settled' = settled \cup known[q] /\ revoked' = revoked \cup chosen[q]
      BY Zenon, <1>8 DEF EndGrant, FailRequest, CommitRevocation
    <2>2. endedGrants' \subseteq Grants
      <3>1. CASE EndGrant(q)
        <4>1. req[q] = "revoking" /\ endedGrants' = endedGrants \cup {tokenGrant[presented[q]]}
          BY Zenon, <3>1 DEF EndGrant
        <4>2. presented[q] \in Issued
          BY Zenon, <1>a, <4>1 DEF OneSession
        <4> QED BY Zenon, <1>0, <4>1, <4>2
      <3>2. CASE FailRequest(q)
        BY Zenon, <1>0, <3>2 DEF FailRequest
      <3> QED BY Zenon, <1>8, <3>1, <3>2
    <2>3. Issued' = Issued
      BY Zenon, <2>1 DEF Issued
    <2> QED BY Zenon, <1>0, <2>1, <2>2, <2>3, EndsRequest
  <1> QED BY Zenon, <1>1, <1>2, <1>3, <1>4, <1>5, <1>6, <1>7, <1>8 DEF SessionsNext

-----------------------------------------------------------------------------
(* Tenants: requests, scopes and pooled connections.                       *)

\* A connection in use is bound to the tenant of the open request that uses it, one in the
\* pool to none.
OneConnection(c) ==
    IF inUse[c] = NoRequest THEN bound[c] = NoTenant
    ELSE reqs[inUse[c]].state = "open" /\ bound[c] = reqs[inUse[c]].scope

\* A request that has not begun has no tenant; where the report is clean, a request was
\* shown what is its own.
OneScope(q) ==
    /\ reqs[q].state = "idle" => reqs[q].scope = NoTenant
    /\ Enforced => sight[q] \subseteq {reqs[q].scope} \ {NoTenant} /\ q \notin empty

TenantsInv ==
    /\ TenantsTypeOK /\ ~stray
    /\ \A c \in Pool : OneConnection(c)
    /\ \A q \in Requests : OneScope(q)

\* At first nothing is bound and nobody was shown anything.
LEMMA TenantsStart == TenantsInit => TenantsInv
  <1> SUFFICES ASSUME TenantsInit  PROVE TenantsInv
    BY Zenon
  <1>1. FreshRequest \in [state : {"idle", "open"}, scope : AnyTenant]
        /\ FreshRequest.state = "idle" /\ FreshRequest.scope = NoTenant
    BY Zenon DEF FreshRequest, AnyTenant
  <1>2. TenantsTypeOK
    BY Zenon, <1>1 DEF TenantsInit, TenantsTypeOK, AnyTenant
  <1>3. ASSUME NEW c \in Pool  PROVE OneConnection(c)
    BY Zenon DEF TenantsInit, OneConnection
  <1>4. ASSUME NEW q \in Requests  PROVE OneScope(q)
    BY Zenon, <1>1 DEF TenantsInit, OneScope
  <1> QED BY Zenon, <1>2, <1>3, <1>4 DEF TenantsInv, TenantsInit

\* Where the report is clean, a transaction sees the tenant it is bound to.
LEMMA SeesItsTenant ==
    ASSUME NEW t, Enforced
    PROVE  Visible(t) = {t} \ {NoTenant}
  BY Zenon DEF Enforced, Visible

\* A request begins or ends: it has no connection before or after.
LEMMA ScopeStep ==
    ASSUME TenantsInv, NEW q \in Requests, Conn(q) = {},
           NEW r \in [state : {"idle", "open"}, scope : AnyTenant],
           r.state = "idle" => r.scope = NoTenant,
           reqs' = [reqs EXCEPT ![q] = r],
           UNCHANGED <<role, table, bound, inUse, stray>>,
           sight' \in [Requests -> SUBSET Tenants], empty' \subseteq empty,
           \A p \in Requests : p # q => sight'[p] = sight[p],
           Enforced => sight'[q] = {}
    PROVE  TenantsInv'
  <1>1. Enforced' = Enforced
    BY Zenon DEF Enforced
  <1>2. TenantsTypeOK'
    BY Zenon DEF TenantsInv, TenantsTypeOK
  <1>3. reqs'[q] = r /\ \A p \in Requests : p # q => reqs'[p] = reqs[p]
    BY Zenon DEF TenantsInv, TenantsTypeOK
  <1>4. ASSUME NEW c \in Pool  PROVE OneConnection(c)'
    <2>1. inUse[c] # q /\ inUse[c] \in Requests \cup {NoRequest}
      BY Zenon DEF Conn, TenantsInv, TenantsTypeOK
    <2>2. inUse'[c] = inUse[c] /\ bound'[c] = bound[c] /\ (inUse[c] # NoRequest => reqs'[inUse[c]] = reqs[inUse[c]])
      BY Zenon, <1>3, <2>1
    <2>3. OneConnection(c)
      BY Zenon DEF TenantsInv
    <2> QED BY Zenon, <2>2, <2>3 DEF OneConnection
  <1>5. ASSUME NEW p \in Requests  PROVE OneScope(p)'
    <2>1. OneScope(p) /\ (Enforced => p \notin empty')
      BY Zenon DEF TenantsInv, OneScope
    <2>2. CASE p = q
      BY Zenon, <1>1, <1>3, <2>1, <2>2 DEF OneScope
    <2>3. CASE p # q
      BY Zenon, <1>1, <1>3, <2>1, <2>3 DEF OneScope
    <2> QED BY Zenon, <2>2, <2>3
  <1> QED BY Zenon, <1>2, <1>4, <1>5 DEF TenantsInv

\* Every step keeps the invariant.
LEMMA TenantsStep == TenantsInv /\ [TenantsNext]_tenantVars => TenantsInv'
  <1> SUFFICES ASSUME TenantsInv, [TenantsNext]_tenantVars  PROVE TenantsInv'
    BY Zenon
  <1>0. ASSUME NEW q \in Requests, reqs[q].state = "idle"
        PROVE  Conn(q) = {} /\ reqs[q].scope = NoTenant /\ (Enforced => sight[q] = {})
    <2>1. ASSUME NEW c \in Pool  PROVE inUse[c] # q
      BY Zenon, <1>0, <2>1, TenantScopesAssumption DEF TenantsInv, OneConnection
    <2>2. OneScope(q)
      BY Zenon DEF TenantsInv
    <2> QED BY Zenon, <1>0, <2>1, <2>2 DEF Conn, OneScope
  <1>1. CASE UNCHANGED tenantVars
    BY Zenon, <1>1 DEF tenantVars, TenantsInv, TenantsTypeOK, OneConnection, OneScope, Enforced
  <1>2. ASSUME NEW q \in Requests, EndWork(q)  PROVE TenantsInv'
    <2>1. /\ Conn(q) = {} /\ reqs' = [reqs EXCEPT ![q] = FreshRequest]
          /\ sight' = [sight EXCEPT ![q] = {}] /\ empty' = empty \ {q}
          /\ UNCHANGED <<role, table, bound, inUse, stray>>
      BY Zenon, <1>2 DEF EndWork
    <2>2. FreshRequest \in [state : {"idle", "open"}, scope : AnyTenant]
          /\ FreshRequest.scope = NoTenant
      BY Zenon DEF FreshRequest, AnyTenant
    <2>3. /\ sight' \in [Requests -> SUBSET Tenants] /\ sight'[q] = {}
          /\ \A p \in Requests : p # q => sight'[p] = sight[p]
      BY Zenon, <2>1 DEF TenantsInv, TenantsTypeOK
    <2>4. empty' \subseteq empty
      BY Zenon, <2>1
    <2> QED BY Zenon, <2>1, <2>2, <2>3, <2>4, ScopeStep
  <1>3. ASSUME NEW q \in Requests, NEW h \in AnyTenant, NEW t \in AnyTenant, NEW trust \in BOOLEAN,
               Arrive(q, h, t, trust)
        PROVE  TenantsInv'
    <2> DEFINE r == [state |-> "open", scope |-> Resolved(h, t, trust)]
    <2>1. /\ reqs[q].state = "idle" /\ reqs' = [reqs EXCEPT ![q] = r]
          /\ UNCHANGED <<role, table, bound, inUse, sight, empty, stray>>
      BY Zenon, <1>3 DEF Arrive
    <2>2. Resolved(h, t, trust) \in AnyTenant
      BY Zenon DEF Resolved, AnyTenant
    <2>3. r \in [state : {"idle", "open"}, scope : AnyTenant] /\ r.state # "idle"
      BY Zenon, <2>2
    <2> HIDE DEF r
    <2>4. sight' \in [Requests -> SUBSET Tenants] /\ empty' \subseteq empty
      BY Zenon, <2>1 DEF TenantsInv, TenantsTypeOK
    <2> QED BY Zenon, <1>0, <2>1, <2>3, <2>4, ScopeStep
  <1>4. ASSUME NEW q \in Requests, NEW child \in Requests, StartTask(q, child)
        PROVE  TenantsInv'
    <2>1. /\ reqs[q].state = "open" /\ reqs[child].state = "idle"
          /\ reqs' = [reqs EXCEPT ![child] = reqs[q]]
          /\ UNCHANGED <<role, table, bound, inUse, sight, empty, stray>>
      BY Zenon, <1>4 DEF StartTask
    <2>2. reqs[q] \in [state : {"idle", "open"}, scope : AnyTenant] /\ reqs[q].state # "idle"
      BY Zenon, <2>1 DEF TenantsInv, TenantsTypeOK
    <2>3. sight' \in [Requests -> SUBSET Tenants] /\ empty' \subseteq empty
      BY Zenon, <2>1 DEF TenantsInv, TenantsTypeOK
    <2> QED BY Zenon, <1>0, <2>1, <2>2, <2>3, ScopeStep
  <1>5. ASSUME NEW q \in Requests, NEW c \in Pool, Begin(q, c) \/ EndTransaction(q, c)
        PROVE  TenantsInv'
    <2>1. UNCHANGED <<role, table, reqs, sight, empty, stray>>
      BY Zenon, <1>5 DEF Begin, EndTransaction
    <2>a. Enforced' = Enforced
      BY Zenon, <2>1 DEF Enforced
    <2>2. reqs[q].scope \in AnyTenant /\ NoTenant \in AnyTenant
      BY Zenon DEF TenantsInv, TenantsTypeOK, AnyTenant
    <2>3. /\ inUse' \in [Pool -> Requests \union {NoRequest}] /\ bound' \in [Pool -> AnyTenant]
          /\ \A d \in Pool : d # c => inUse'[d] = inUse[d] /\ bound'[d] = bound[d]
      <3>1. CASE Begin(q, c)
        BY Zenon, <2>2, <3>1 DEF Begin, TenantsInv, TenantsTypeOK
      <3>2. CASE EndTransaction(q, c)
        BY Zenon, <2>2, <3>2 DEF EndTransaction, Reset, TenantsInv, TenantsTypeOK
      <3> QED BY Zenon, <1>5, <3>1, <3>2
    <2>4. TenantsTypeOK'
      BY Zenon, <2>1, <2>3 DEF TenantsInv, TenantsTypeOK
    <2>5. OneConnection(c)'
      <3>1. CASE Begin(q, c)
        <4>1. reqs[q].state = "open" /\ inUse[c] = NoRequest /\ inUse' = [inUse EXCEPT ![c] = q]
              /\ bound' = IF reqs[q].scope = NoTenant THEN bound ELSE [bound EXCEPT ![c] = reqs[q].scope]
          BY Zenon, <3>1 DEF Begin, Idle0
        <4>2. bound[c] = NoTenant
          BY Zenon, <4>1 DEF TenantsInv, OneConnection
        <4>3. inUse'[c] = q /\ bound'[c] = reqs[q].scope
          BY Zenon, <4>1, <4>2 DEF TenantsInv, TenantsTypeOK
        <4> QED BY Zenon, <2>1, <4>1, <4>3, TenantScopesAssumption DEF OneConnection
      <3>2. CASE EndTransaction(q, c)
        <4>1. inUse'[c] = NoRequest /\ bound'[c] = NoTenant
          BY Zenon, <3>2 DEF EndTransaction, Reset, TenantsInv, TenantsTypeOK
        <4> QED BY Zenon, <4>1 DEF OneConnection
      <3> QED BY Zenon, <1>5, <3>1, <3>2
    <2>6. ASSUME NEW d \in Pool  PROVE OneConnection(d)'
      <3>1. CASE d # c
        BY Zenon, <2>1, <2>3, <3>1 DEF TenantsInv, OneConnection
      <3> QED BY Zenon, <2>5, <3>1
    <2>7. ASSUME NEW p \in Requests  PROVE OneScope(p)'
      BY Zenon, <2>1, <2>a DEF TenantsInv, OneScope
    <2> QED BY Zenon, <2>1, <2>4, <2>6, <2>7 DEF TenantsInv
  <1>6. ASSUME NEW q \in Requests, NEW c \in Pool, Select(q, c) \/ Insert(q, c)
        PROVE  TenantsInv'
    <2>1. inUse[c] = q /\ UNCHANGED <<role, table, bound, inUse, reqs>>
      BY Zenon, <1>6 DEF Select, Insert, Conn
    <2>a. Enforced' = Enforced
      BY Zenon, <2>1 DEF Enforced
    <2>2. bound[c] = reqs[q].scope
      BY Zenon, <2>1, TenantScopesAssumption DEF TenantsInv, OneConnection
    <2>3. ASSUME NEW d \in Pool  PROVE OneConnection(d)'
      BY Zenon, <2>1 DEF TenantsInv, OneConnection
    <2>4. Visible(bound[c]) \subseteq Tenants
      BY Zenon DEF Visible, TenantsInv, TenantsTypeOK, AnyTenant
    <2>5. CASE Select(q, c)
      <3>1. /\ sight' = [sight EXCEPT ![q] = @ \union Visible(bound[c])] /\ UNCHANGED stray
            /\ empty' = IF reqs[q].scope \in Tenants \ Visible(bound[c]) THEN empty \union {q} ELSE empty
        BY Zenon, <2>5 DEF Select
      <3>2. /\ sight'[q] = sight[q] \cup Visible(bound[c])
            /\ \A p \in Requests : p # q => sight'[p] = sight[p]
            /\ sight' \in [Requests -> SUBSET Tenants] /\ empty' \subseteq Requests
        BY Zenon, <2>4, <3>1 DEF TenantsInv, TenantsTypeOK
      <3>3. TenantsTypeOK'
        BY Zenon, <2>1, <3>1, <3>2 DEF TenantsInv, TenantsTypeOK
      <3>4. ASSUME NEW p \in Requests  PROVE OneScope(p)'
        <4>1. OneScope(p)
          BY Zenon DEF TenantsInv
        <4>2. CASE p = q
          <5>1. ASSUME Enforced
                PROVE  sight'[q] \subseteq {reqs[q].scope} \ {NoTenant} /\ q \notin empty'
            <6>1. Visible(bound[c]) = {reqs[q].scope} \ {NoTenant}
              BY Zenon, <2>2, <5>1, SeesItsTenant
            <6>2. reqs[q].scope \notin Tenants \ Visible(bound[c])
              BY Zenon, <6>1, TenantScopesAssumption
            <6>3. empty' = empty
              BY Zenon, <3>1, <6>2
            <6> QED BY Zenon, <3>2, <4>1, <4>2, <5>1, <6>1, <6>3 DEF OneScope
          <5> QED BY Zenon, <2>1, <2>a, <4>1, <4>2, <5>1 DEF OneScope
        <4>3. CASE p # q
          <5>1. sight'[p] = sight[p] /\ (p \in empty' => p \in empty)
            BY Zenon, <3>1, <3>2, <4>3
          <5> QED BY Zenon, <2>1, <2>a, <4>1, <5>1 DEF OneScope
        <4> QED BY Zenon, <4>2, <4>3
      <3> QED BY Zenon, <2>3, <3>1, <3>3, <3>4 DEF TenantsInv
    <2>6. CASE Insert(q, c)
      <3>1. UNCHANGED <<sight, empty>> /\ stray' = FALSE
        BY Zenon, <2>2, <2>6 DEF Insert, TenantsInv
      <3>2. TenantsTypeOK'
        BY Zenon, <2>1, <3>1 DEF TenantsInv, TenantsTypeOK
      <3>3. ASSUME NEW p \in Requests  PROVE OneScope(p)'
        BY Zenon, <2>1, <2>a, <3>1 DEF TenantsInv, OneScope
      <3> QED BY Zenon, <2>3, <3>1, <3>2, <3>3 DEF TenantsInv
    <2> QED BY Zenon, <1>6, <2>5, <2>6
  <1> QED BY Zenon, <1>1, <1>2, <1>3, <1>4, <1>5, <1>6 DEF TenantsNext

-----------------------------------------------------------------------------
(* Fencing: writers whose lease may have run out.                          *)

\* No lease is newer than the counter, which no claim but the newest has.
FenceInv ==
    /\ FenceTypeOK /\ StaleWritersAreFenced
    /\ claim \in {0, minted} /\ \A w \in Writers : lease[w] <= minted

\* Nobody has a token at first.
LEMMA FenceStart == FenceInit => FenceInv
  <1> SUFFICES ASSUME FenceInit  PROVE FenceInv
    BY Zenon
  <1>1. FenceTypeOK
    BY FencingAssumption DEF FenceInit, FenceTypeOK
  <1>2. StaleWritersAreFenced
    BY DEF FenceInit, StaleWritersAreFenced, Inspected
  <1>3. claim \in {0, minted} /\ \A w \in Writers : lease[w] <= minted
    BY DEF FenceInit
  <1> QED BY Zenon, <1>1, <1>2, <1>3 DEF FenceInv

\* A row that takes a token newer than its last has taken tokens in order.
LEMMA RowAdvances ==
    ASSUME FenceInv, NEW w \in Writers, WriteRow(w)
    PROVE  \A i, j \in 1..Len(fenceSeen') : i < j => fenceSeen'[i] <= fenceSeen'[j]
  <1>1. /\ fenceSeen \in Seq(1..MaxToken) /\ lease[w] \in 0..MaxToken
        /\ \A i, j \in 1..Len(fenceSeen) : i < j => fenceSeen[i] <= fenceSeen[j]
    BY Zenon DEF FenceInv, FenceTypeOK, StaleWritersAreFenced
  <1>2. /\ fenceSeen' = Append(fenceSeen, lease[w])
        /\ fenceSeen # <<>> => lease[w] > fenceSeen[Len(fenceSeen)]
    BY Zenon DEF WriteRow, fence_is_current, RowFence
  <1>3. ASSUME NEW i \in 1..Len(fenceSeen)  PROVE fenceSeen[i] <= lease[w]
    <2>1. fenceSeen # <<>> /\ Len(fenceSeen) \in 1..Len(fenceSeen)
      BY <1>1, <1>3
    <2>2. i < Len(fenceSeen) => fenceSeen[i] <= fenceSeen[Len(fenceSeen)]
      BY Zenon, <1>1, <2>1
    <2>3. fenceSeen[i] \in Int /\ fenceSeen[Len(fenceSeen)] \in Int /\ Len(fenceSeen) \in Nat
      BY <1>1, <2>1, <1>3, FencingAssumption
    <2> QED BY <1>1, <1>2, <2>1, <2>2, <2>3, FencingAssumption
  <1>4. Len(fenceSeen') = Len(fenceSeen) + 1 /\ fenceSeen'[Len(fenceSeen) + 1] = lease[w]
        /\ \A i \in 1..Len(fenceSeen) : fenceSeen'[i] = fenceSeen[i]
    BY <1>1, <1>2
  <1>5. Len(fenceSeen) \in Nat
    BY <1>1
  <1> SUFFICES ASSUME NEW i \in 1..Len(fenceSeen'), NEW j \in 1..Len(fenceSeen'), i < j
               PROVE  fenceSeen'[i] <= fenceSeen'[j]
    BY Zenon
  <1>6. i \in 1..Len(fenceSeen)
    BY <1>4, <1>5
  <1>7. CASE j \in 1..Len(fenceSeen)
    BY Zenon, <1>1, <1>4, <1>6, <1>7
  <1>8. CASE j = Len(fenceSeen) + 1
    BY Zenon, <1>3, <1>4, <1>6, <1>8
  <1> QED BY <1>4, <1>5, <1>7, <1>8

\* Every step keeps the invariant.
LEMMA FenceStep == FenceInv /\ [FenceNext]_fenceVars => FenceInv'
  <1> SUFFICES ASSUME FenceInv, [FenceNext]_fenceVars  PROVE FenceInv'
    BY Zenon
  <1> USE FencingAssumption
  <1>0. FenceTypeOK /\ StaleWritersAreFenced
    BY Zenon DEF FenceInv
  <1>1. CASE UNCHANGED fenceVars
    BY Zenon, <1>1 DEF fenceVars, FenceInv, FenceTypeOK, StaleWritersAreFenced, Inspected
  <1>2. ASSUME NEW w \in Writers, TakeLock(w)  PROVE FenceInv'
    <2>1. /\ claim = 0 /\ lease[w] = 0 /\ minted < MaxToken
          /\ minted' = minted + 1 /\ claim' = minted + 1
          /\ lease' = [lease EXCEPT ![w] = minted + 1]
          /\ seenFence' = seenFence /\ fenceSeen' = fenceSeen /\ otherFence' = otherFence
      BY Zenon, <1>2 DEF TakeLock
    <2>2. FenceTypeOK'
      BY <1>0, <2>1 DEF FenceTypeOK
    <2>3. ASSUME NEW v \in Writers  PROVE lease'[v] = (IF v = w THEN minted + 1 ELSE lease[v])
                                          /\ lease[v] <= minted /\ lease[v] \in Int
      BY <1>0, <2>1 DEF FenceTypeOK, FenceInv
    <2>4. minted \in Int
      BY <1>0 DEF FenceTypeOK
    <2>5. \A v \in Writers : lease'[v] <= minted'
      BY <2>1, <2>3, <2>4
    <2>6. \A v, u \in Writers : v # u /\ lease'[v] # 0 => lease'[v] # lease'[u]
      <3> SUFFICES ASSUME NEW v \in Writers, NEW u \in Writers, v # u, lease'[v] # 0
                   PROVE  lease'[v] # lease'[u]
        BY Zenon
      <3>1. lease[v] # 0 => lease[v] # lease[u]
        BY Zenon, <1>0 DEF StaleWritersAreFenced
      <3> QED BY <2>3, <2>4, <3>1
    <2>7. Inspected' \subseteq {minted'}
      BY Zenon, <2>1 DEF Inspected
    <2>8. StaleWritersAreFenced'
      BY Zenon, <1>0, <2>1, <2>6, <2>7 DEF StaleWritersAreFenced
    <2> QED BY Zenon, <2>1, <2>2, <2>5, <2>8 DEF FenceInv
  <1>3. CASE ClaimExpires \/ ClearClaims
    <2>1. claim' = 0 /\ minted' = minted /\ lease' = lease /\ seenFence' = seenFence
          /\ fenceSeen' = fenceSeen /\ otherFence' = otherFence
      BY Zenon, <1>3 DEF ClaimExpires, ClearClaims, CounterKept
    <2>2. FenceTypeOK'
      BY <1>0, <2>1 DEF FenceTypeOK
    <2>3. StaleWritersAreFenced'
      BY Zenon, <1>0, <2>1 DEF StaleWritersAreFenced, Inspected
    <2> QED BY Zenon, <2>1, <2>2, <2>3 DEF FenceInv
  <1>4. ASSUME NEW w \in Writers, ReleaseLock(w)  PROVE FenceInv'
    <2>1. /\ claim' \in {0, claim} /\ lease' = [lease EXCEPT ![w] = 0] /\ minted' = minted
          /\ seenFence' = seenFence /\ fenceSeen' = fenceSeen /\ otherFence' = otherFence
      BY Zenon, <1>4 DEF ReleaseLock
    <2>2. FenceTypeOK'
      BY <1>0, <2>1 DEF FenceTypeOK
    <2>3. ASSUME NEW v \in Writers  PROVE lease'[v] = (IF v = w THEN 0 ELSE lease[v])
      BY Zenon, <1>0, <2>1 DEF FenceTypeOK
    <2>4. \A v \in Writers : lease'[v] <= minted'
      BY <1>0, <2>1, <2>3 DEF FenceTypeOK, FenceInv
    <2>5. \A v, u \in Writers : v # u /\ lease'[v] # 0 => lease'[v] # lease'[u]
      <3> SUFFICES ASSUME NEW v \in Writers, NEW u \in Writers, v # u, lease'[v] # 0
                   PROVE  lease'[v] # lease'[u]
        BY Zenon
      <3>1. lease[v] # 0 => lease[v] # lease[u]
        BY Zenon, <1>0 DEF StaleWritersAreFenced
      <3> QED BY Zenon, <2>3, <3>1
    <2>6. claim' \in {0, minted'} /\ Inspected' \subseteq {minted'}
      BY Zenon, <2>1 DEF Inspected, FenceInv
    <2>7. StaleWritersAreFenced'
      BY Zenon, <1>0, <2>1, <2>5, <2>6 DEF StaleWritersAreFenced
    <2> QED BY Zenon, <2>2, <2>4, <2>6, <2>7 DEF FenceInv
  <1>5. ASSUME NEW w \in Writers, WriteRow(w)  PROVE FenceInv'
    <2>1. /\ lease[w] # 0 /\ Len(fenceSeen) <= MaxToken /\ fenceSeen' = Append(fenceSeen, lease[w])
          /\ claim' = claim /\ minted' = minted /\ lease' = lease /\ seenFence' = seenFence
          /\ otherFence' = otherFence
      BY Zenon, <1>5 DEF WriteRow
    <2>2. lease[w] \in 1..MaxToken /\ fenceSeen \in Seq(1..MaxToken)
      BY <1>0, <2>1 DEF FenceTypeOK
    <2>3. fenceSeen' \in Seq(1..MaxToken) /\ Len(fenceSeen') <= MaxToken + 1
      BY <2>1, <2>2
    <2>4. FenceTypeOK'
      BY Zenon, <1>0, <2>1, <2>3 DEF FenceTypeOK
    <2>5. StaleWritersAreFenced'
      BY Zenon, <1>0, <1>5, <2>1, RowAdvances DEF StaleWritersAreFenced, Inspected
    <2> QED BY Zenon, <2>1, <2>4, <2>5 DEF FenceInv
  <1>6. ASSUME NEW w \in Writers, RequireFence(w) \/ WriteOther(w)  PROVE FenceInv'
    <2>1. /\ claim' = claim /\ minted' = minted /\ lease' = lease /\ fenceSeen' = fenceSeen
          /\ otherFence' \in {otherFence, lease[w]}
          /\ \E s \in {otherFence, -1} : seenFence' = [seenFence EXCEPT ![w] = s]
      BY Zenon, <1>6 DEF RequireFence, WriteOther
    <2>2. otherFence \in -1..MaxToken /\ -1 \in -1..MaxToken
      BY <1>0 DEF FenceTypeOK
    <2>3. FenceTypeOK'
      BY Zenon, <1>0, <2>1, <2>2 DEF FenceTypeOK
    <2>4. StaleWritersAreFenced'
      BY Zenon, <1>0, <2>1 DEF StaleWritersAreFenced, Inspected
    <2> QED BY Zenon, <2>1, <2>3, <2>4 DEF FenceInv
  <1> QED BY Zenon, <1>1, <1>2, <1>3, <1>4, <1>5, <1>6 DEF FenceNext

-----------------------------------------------------------------------------
(* Row locks: updates that wait, deadlock and start over.                  *)

\* What the steps need of the types.
RowsTyped ==
    /\ rowVal \in [Rows -> Int] /\ applied \in [Rows -> Int]
    /\ rowLock \in [Rows -> Workers \cup {NoWorker}]
    /\ version \in Nat
    /\ work \in [Workers -> {"idle", "locking", "backoff", "patching"}]
    /\ plan \in [Workers -> Seq(Rows)]
    /\ seen \in [Workers -> [rows : [Rows -> Int], version : Nat]]
    /\ ifMatch \in [Workers -> Nat]
    /\ accepted \in Seq(Nat)

\* Only a worker that is locking has locks, and its session holds what the rows hold; the
\* If-Match of a patch is the version its session read.
OneWorker(w) ==
    /\ \A r \in Rows : rowLock[r] = w => work[w] = "locking" /\ seen[w].rows[r] = rowVal[r]
    /\ work[w] = "patching" => ifMatch[w] = seen[w].version

\* The i-th accepted patch was made from version i.
RowsInv ==
    /\ RowsTyped /\ rowVal = applied
    /\ version = Len(accepted) + 1 /\ \A i \in 1..Len(accepted) : accepted[i] = i
    /\ \A w \in Workers : OneWorker(w)

\* The invariant is what the updates promise.
LEMMA RowsKept == RowsInv => NoLostUpdate
  <1> SUFFICES ASSUME RowsInv  PROVE NoLostUpdate
    BY Zenon
  <1>1. DOMAIN accepted = 1..Len(accepted)
    BY DEF RowsInv, RowsTyped
  <1>2. IsInjective(accepted)
    BY Zenon, <1>1 DEF IsInjective, RowsInv
  <1>3. ASSUME NEW w \in Workers, work[w] \in {"idle", "backoff", "patching"}  PROVE Locked(w) = {}
    <2>1. work[w] # "locking"
      BY Zenon, <1>3
    <2> QED BY Zenon, <2>1 DEF RowsInv, OneWorker, Locked
  <1> QED BY Zenon, <1>2, <1>3 DEF RowsInv, NoLostUpdate

\* Nothing is locked or accepted at first.
LEMMA RowsStart == RowsInit => RowsInv
  <1> SUFFICES ASSUME RowsInit  PROVE RowsInv
    BY Zenon
  <1>1. RowsTyped
    <2>1. [r \in Rows |-> 0] \in [Rows -> Int] /\ 1 \in Nat /\ <<>> \in Seq(Rows) /\ <<>> \in Seq(Nat)
      OBVIOUS
    <2>2. RowNow \in [rows : [Rows -> Int], version : Nat]
      BY Zenon, <2>1 DEF RowNow, RowsInit
    <2> QED BY Zenon, <2>1, <2>2 DEF RowsInit, RowsTyped
  <1>2. version = Len(accepted) + 1 /\ \A i \in 1..Len(accepted) : accepted[i] = i
    BY DEF RowsInit
  <1>3. ASSUME NEW w \in Workers  PROVE OneWorker(w)
    BY Zenon, RowLocksAssumption DEF RowsInit, OneWorker
  <1> QED BY Zenon, <1>1, <1>2, <1>3 DEF RowsInv, RowsInit

\* What a worker may start from.
LEMMA PlansAreLists == Plans \subseteq Seq(Rows)
  <1> SUFFICES ASSUME NEW p \in Plans  PROVE p \in Seq(Rows)
    BY Zenon
  <1>1. PICK n \in 1..Cardinality(Rows) : p \in [1..n -> Rows]
    BY Zenon DEF Plans
  <1>2. n \in Nat
    BY <1>1
  <1> QED BY <1>1, <1>2

\* A worker that answers gives back its locks; it may have written the rows it had locked, and
\* nobody else's.
LEMMA FinishKeeps ==
    ASSUME RowsInv, NEW w \in Workers, Finish(w), ifMatch' = ifMatch,
           rowVal' \in [Rows -> Int], applied' = rowVal',
           \A r \in Rows : rowLock[r] # w => rowVal'[r] = rowVal[r],
           version' \in Nat, accepted' \in Seq(Nat),
           version' = Len(accepted') + 1, \A i \in 1..Len(accepted') : accepted'[i] = i
    PROVE  RowsInv'
  <1>1. [rows |-> [r \in Rows |-> 0], version |-> 1] \in [rows : [Rows -> Int], version : Nat]
        /\ <<>> \in Seq(Rows)
    OBVIOUS
  <1>2. RowsTyped'
    BY Zenon, <1>1 DEF Finish, ReleaseLocks, RowsInv, RowsTyped
  <1>3. ASSUME NEW v \in Workers  PROVE OneWorker(v)'
    <2>1. OneWorker(v)
      BY Zenon DEF RowsInv
    <2>2. CASE v = w
      <3>1. work'[v] = "idle"
        BY Zenon, <2>2 DEF Finish, RowsInv, RowsTyped
      <3>2. ASSUME NEW r \in Rows  PROVE rowLock'[r] # v
        BY Zenon, <2>2, RowLocksAssumption DEF Finish, ReleaseLocks
      <3> QED BY Zenon, <3>1, <3>2 DEF OneWorker
    <2>3. CASE v # w
      <3>1. work'[v] = work[v] /\ seen'[v] = seen[v]
        BY Zenon, <2>3 DEF Finish, RowsInv, RowsTyped
      <3>2. ASSUME NEW r \in Rows, rowLock'[r] = v  PROVE rowLock[r] = v /\ rowVal'[r] = rowVal[r]
        BY Zenon, <2>3, <3>2, RowLocksAssumption DEF Finish, ReleaseLocks
      <3> QED BY Zenon, <2>1, <3>1, <3>2 DEF OneWorker
    <2> QED BY Zenon, <2>2, <2>3
  <1> QED BY Zenon, <1>2, <1>3 DEF RowsInv

\* A step of a worker that commits nothing and takes no lock.
LEMMA WorkerGoesOn ==
    ASSUME RowsInv, NEW w \in Workers, UNCHANGED <<rowVal, version, applied, accepted>>,
           RowsTyped', \A r \in Rows : rowLock'[r] \in {rowLock[r], NoWorker},
           \A r \in Rows : rowLock'[r] # w,
           \A v \in Workers : v # w =>
              work'[v] = work[v] /\ seen'[v] = seen[v] /\ ifMatch'[v] = ifMatch[v],
           work'[w] = "patching" => ifMatch'[w] = seen'[w].version
    PROVE  RowsInv'
  <1>1. ASSUME NEW v \in Workers  PROVE OneWorker(v)'
    <2>1. OneWorker(v)
      BY Zenon DEF RowsInv
    <2>2. CASE v = w
      BY Zenon, <2>2 DEF OneWorker
    <2>3. CASE v # w
      <3>1. ASSUME NEW r \in Rows, rowLock'[r] = v  PROVE rowLock[r] = v
        BY Zenon, <3>1, RowLocksAssumption
      <3> QED BY Zenon, <2>1, <2>3, <3>1 DEF OneWorker
    <2> QED BY Zenon, <2>2, <2>3
  <1> QED BY Zenon, <1>1 DEF RowsInv

\* Every step keeps the invariant.
LEMMA RowsStep == RowsInv /\ [RowsNext]_rowVars => RowsInv'
  <1> SUFFICES ASSUME RowsInv, [RowsNext]_rowVars  PROVE RowsInv'
    BY Zenon
  <1>0. RowsTyped
    BY Zenon DEF RowsInv
  <1>a. ASSUME NEW w \in Workers, work[w] # "locking", NEW r \in Rows  PROVE rowLock[r] # w
    BY Zenon, <1>a DEF RowsInv, OneWorker
  <1>b. RowNow \in [rows : [Rows -> Int], version : Nat] /\ RowNow.version = version
    BY Zenon, <1>0 DEF RowNow, RowsTyped
  <1>c. ASSUME NEW w \in Workers, Finish(w), ifMatch' = ifMatch, UNCHANGED <<rowVal, applied, version, accepted>>
        PROVE RowsInv'
    BY Zenon, <1>c, FinishKeeps DEF RowsInv, RowsTyped
  <1>1. CASE UNCHANGED rowVars
    <2>1. /\ UNCHANGED <<rowVal, version, applied, accepted, rowLock, work, seen, ifMatch>>
          /\ RowsTyped'
      BY Zenon, <1>0, <1>1 DEF rowVars, RowsTyped
    <2>2. ASSUME NEW w \in Workers  PROVE OneWorker(w)'
      <3>1. OneWorker(w)
        BY Zenon DEF RowsInv
      <3> QED BY Zenon, <1>1, <3>1 DEF rowVars, OneWorker
    <2> QED BY Zenon, <2>1, <2>2 DEF RowsInv
  <1>2. ASSUME NEW w \in Workers, NEW p \in Plans, BeginWork(w, p) \/ RetryWork(w, p)  PROVE RowsInv'
    <2>1. /\ work[w] # "locking" /\ work' = [work EXCEPT ![w] = "locking"]
          /\ plan' = [plan EXCEPT ![w] = p] /\ seen' = [seen EXCEPT ![w] = RowNow]
          /\ UNCHANGED <<rowVal, rowLock, version, ifMatch, applied, accepted>>
      BY Zenon, <1>2 DEF BeginWork, RetryWork
    <2>2. p \in Seq(Rows)
      BY Zenon, PlansAreLists
    <2>3. RowsTyped'
      BY Zenon, <1>0, <1>b, <2>1, <2>2 DEF RowsTyped
    <2>4. /\ \A v \in Workers : v # w => work'[v] = work[v] /\ seen'[v] = seen[v] /\ ifMatch'[v] = ifMatch[v]
          /\ work'[w] # "patching"
      BY Zenon, <1>0, <2>1 DEF RowsTyped
    <2>5. \A r \in Rows : rowLock'[r] \in {rowLock[r], NoWorker} /\ rowLock'[r] # w
      BY Zenon, <1>a, <2>1
    <2> QED BY Zenon, <2>1, <2>3, <2>4, <2>5, WorkerGoesOn
  <1>3. ASSUME NEW w \in Workers, LockRow(w)  PROVE RowsInv'
    <2>1. PICK r : r = Head(plan[w])
      BY Zenon
    <2>2. /\ work[w] = "locking" /\ plan[w] # <<>> /\ rowLock[r] = NoWorker
          /\ rowLock' = [rowLock EXCEPT ![r] = w]
          /\ seen' = [seen EXCEPT ![w].rows[r] = rowVal[r]]
          /\ plan' = [plan EXCEPT ![w] = Tail(@)]
          /\ rowVal' = rowVal /\ version' = version /\ work' = work /\ ifMatch' = ifMatch
          /\ applied' = applied /\ accepted' = accepted
      BY Zenon, <1>3, <2>1 DEF LockRow, Fetched
    <2>3. r \in Rows /\ Tail(plan[w]) \in Seq(Rows)
      BY <1>0, <2>1, <2>2 DEF RowsTyped
    <2>4. rowVal[r] \in Int
      BY Zenon, <1>0, <2>3 DEF RowsTyped
    <2>5. /\ seen' \in [Workers -> [rows : [Rows -> Int], version : Nat]]
          /\ \A v \in Workers : v # w => seen'[v] = seen[v]
          /\ seen'[w].version = seen[w].version
          /\ \A q \in Rows : seen'[w].rows[q] = IF q = r THEN rowVal[r] ELSE seen[w].rows[q]
      BY Zenon, <1>0, <2>2, <2>3, <2>4 DEF RowsTyped
    <2>6. RowsTyped'
      BY Zenon, <1>0, <2>2, <2>3, <2>5 DEF RowsTyped
    <2>7. ASSUME NEW v \in Workers  PROVE OneWorker(v)'
      <3>1. OneWorker(v)
        BY Zenon DEF RowsInv
      <3>2. ASSUME NEW q \in Rows, rowLock'[q] = v
            PROVE  work'[v] = "locking" /\ seen'[v].rows[q] = rowVal'[q]
        <4>1. CASE q = r
          <5>1. v = w
            BY Zenon, <1>0, <2>2, <3>2, <4>1 DEF RowsTyped
          <5> QED BY Zenon, <2>2, <2>5, <4>1, <5>1
        <4>2. CASE q # r
          <5>1. rowLock[q] = v
            BY Zenon, <1>0, <2>2, <3>2, <4>2 DEF RowsTyped
          <5>2. seen'[v].rows[q] = seen[v].rows[q]
            BY Zenon, <2>5, <4>2
          <5> QED BY Zenon, <2>2, <3>1, <5>1, <5>2 DEF OneWorker
        <4> QED BY Zenon, <4>1, <4>2
      <3>3. seen'[v].version = seen[v].version
        BY Zenon, <2>5
      <3> QED BY Zenon, <2>2, <3>1, <3>2, <3>3 DEF OneWorker
    <2> QED BY Zenon, <2>2, <2>6, <2>7 DEF RowsInv
  <1>4. ASSUME NEW w \in Workers, SkipLocked(w)  PROVE RowsInv'
    <2>1. /\ plan[w] # <<>> /\ plan' = [plan EXCEPT ![w] = Tail(@)]
          /\ UNCHANGED <<rowVal, rowLock, version, work, seen, ifMatch, applied, accepted>>
      BY Zenon, <1>4 DEF SkipLocked
    <2>2. Tail(plan[w]) \in Seq(Rows)
      BY <1>0, <2>1 DEF RowsTyped
    <2>3. RowsTyped'
      BY Zenon, <1>0, <2>1, <2>2 DEF RowsTyped
    <2> QED BY Zenon, <2>1, <2>3 DEF RowsInv, OneWorker
  <1>5. ASSUME NEW w \in Workers, LockUnavailable(w) \/ CancelWork(w)  PROVE RowsInv'
    BY Zenon, <1>c, <1>5 DEF LockUnavailable, CancelWork
  <1>6. ASSUME NEW w \in Workers, DeadlockDetected(w) \/ SerializationFailure(w)  PROVE RowsInv'
    <2>1. ConflictRetried(w) /\ UNCHANGED <<rowVal, version, ifMatch, applied, accepted>>
      BY Zenon, <1>6 DEF DeadlockDetected, SerializationFailure
    <2>2. CASE Finish(w)
      BY Zenon, <1>c, <2>1, <2>2
    <2>3. CASE ~Finish(w)
      <3>1. /\ work' = [work EXCEPT ![w] = "backoff"] /\ UNCHANGED <<plan, seen>>
            /\ rowLock' = [r \in Rows |-> IF rowLock[r] = w THEN NoWorker ELSE rowLock[r]]
        BY Zenon, <2>1, <2>3 DEF ConflictRetried, Discard, ReleaseLocks
      <3>2. RowsTyped'
        BY Zenon, <1>0, <2>1, <3>1 DEF RowsTyped
      <3>3. \A r \in Rows : rowLock'[r] \in {rowLock[r], NoWorker} /\ rowLock'[r] # w
        BY Zenon, <3>1, RowLocksAssumption
      <3>4. /\ \A v \in Workers : v # w => work'[v] = work[v] /\ seen'[v] = seen[v] /\ ifMatch'[v] = ifMatch[v]
            /\ work'[w] # "patching"
        BY Zenon, <1>0, <2>1, <3>1 DEF RowsTyped
      <3> QED BY Zenon, <2>1, <3>2, <3>3, <3>4, WorkerGoesOn
    <2> QED BY Zenon, <2>2, <2>3
  <1>7. ASSUME NEW w \in Workers, CommitWork(w)  PROVE RowsInv'
    <2>1. /\ rowVal' = [r \in Rows |-> IF r \in Locked(w) THEN seen[w].rows[r] + 1 ELSE rowVal[r]]
          /\ applied' = [r \in Rows |-> IF r \in Locked(w) THEN applied[r] + 1 ELSE applied[r]]
          /\ Finish(w) /\ UNCHANGED <<version, ifMatch, accepted>>
      BY Zenon, <1>7 DEF CommitWork
    <2>2. ASSUME NEW r \in Locked(w)  PROVE seen[w].rows[r] = applied[r]
      BY Zenon DEF RowsInv, OneWorker, Locked
    <2>3. applied' = rowVal'
      BY Zenon, <2>1, <2>2 DEF RowsInv
    <2>4. rowVal' \in [Rows -> Int]
      BY <1>0, <2>1, <2>2 DEF RowsTyped, Locked
    <2>5. \A r \in Rows : rowLock[r] # w => rowVal'[r] = rowVal[r]
      BY Zenon, <2>1 DEF Locked
    <2> QED BY Zenon, <1>0, <2>1, <2>3, <2>4, <2>5, FinishKeeps DEF RowsInv, RowsTyped
  <1>8. ASSUME NEW w \in Workers, NEW tag \in Versions, BeginPatch(w, tag)  PROVE RowsInv'
    <2>1. /\ work[w] = "idle" /\ tag = version /\ work' = [work EXCEPT ![w] = "patching"]
          /\ seen' = [seen EXCEPT ![w] = RowNow] /\ ifMatch' = [ifMatch EXCEPT ![w] = tag]
          /\ UNCHANGED <<rowVal, rowLock, version, plan, applied, accepted>>
      BY Zenon, <1>8 DEF BeginPatch, require_match
    <2>2. RowsTyped'
      BY Zenon, <1>0, <1>b, <2>1 DEF RowsTyped
    <2>3. /\ \A v \in Workers : v # w => work'[v] = work[v] /\ seen'[v] = seen[v] /\ ifMatch'[v] = ifMatch[v]
          /\ ifMatch'[w] = seen'[w].version
      BY Zenon, <1>0, <1>b, <2>1 DEF RowsTyped
    <2>4. \A r \in Rows : rowLock'[r] \in {rowLock[r], NoWorker} /\ rowLock'[r] # w
      BY Zenon, <1>a, <2>1
    <2> QED BY Zenon, <2>1, <2>2, <2>3, <2>4, WorkerGoesOn
  <1>9. ASSUME NEW w \in Workers, CommitPatch(w)  PROVE RowsInv'
    <2>1. /\ work[w] = "patching" /\ Finish(w) /\ UNCHANGED <<rowVal, ifMatch, applied>>
          /\ \/ /\ seen[w].version = version
                /\ version' = version + 1 /\ accepted' = Append(accepted, ifMatch[w])
             \/ UNCHANGED <<version, accepted>>
      BY Zenon, <1>9 DEF CommitPatch, StillCurrent
    <2>2. ifMatch[w] = seen[w].version /\ ifMatch[w] \in Nat
      BY Zenon, <1>0, <2>1 DEF RowsInv, OneWorker, RowsTyped
    <2>3. /\ version' \in Nat /\ accepted' \in Seq(Nat) /\ version' = Len(accepted') + 1
          /\ \A i \in 1..Len(accepted') : accepted'[i] = i
      <3>1. /\ version \in Nat /\ accepted \in Seq(Nat) /\ version = Len(accepted) + 1
            /\ \A i \in 1..Len(accepted) : accepted[i] = i
        BY Zenon, <1>0 DEF RowsInv, RowsTyped
      <3>2. CASE UNCHANGED <<version, accepted>>
        BY Zenon, <3>1, <3>2
      <3>3. CASE /\ seen[w].version = version /\ version' = version + 1
                 /\ accepted' = Append(accepted, ifMatch[w])
        <4>1. accepted' = Append(accepted, Len(accepted) + 1)
          BY Zenon, <2>2, <3>1, <3>3
        <4>2. accepted' \in Seq(Nat) /\ Len(accepted') = Len(accepted) + 1 /\ version' \in Nat
          BY <3>1, <3>3, <4>1
        <4>3. \A i \in 1..Len(accepted') : accepted'[i] = i
          BY <3>1, <4>1, <4>2
        <4> QED BY Zenon, <3>1, <3>3, <4>2, <4>3
      <3> QED BY Zenon, <2>1, <3>2, <3>3
    <2> QED BY Zenon, <1>0, <2>1, <2>3, FinishKeeps DEF RowsInv, RowsTyped
  <1> QED BY Zenon, <1>1, <1>2, <1>3, <1>4, <1>5, <1>6, <1>7, <1>8, <1>9 DEF RowsNext

-----------------------------------------------------------------------------
(* Key rotation: replicas, rings and sealed cells.                         *)

\* What is sealed at a step of the rotation can be opened at the step and at its neighbours.
SafeAt(c, s) ==
    /\ c \in Cells
    /\ s \in {0, 1} => c.key \in {"none", "old"}
    /\ s = 3 => c.key \in {"none", "new"}

\* A replica is at most one step behind, and has sealed with its settings what it flushed.
OneReplica(r) ==
    /\ at[r] \in {Down, stage, stage - 1}
    /\ edits[r].state # "idle" => at[r] # Down
    /\ edits[r].state # "failed"
    /\ edits[r].state \in {"read", "flushed"} => edits[r].rev <= rowRev
    /\ edits[r].state = "flushed" =>
        /\ edits[r].rev < MaxEdits + 2
        /\ edits[r].out # Null => edits[r].out.key = SealKey(r)

RotationInv ==
    /\ RotationTypeOK /\ SafeAt(cell, stage) /\ cell.text = truth
    /\ \A r \in Replicas : OneReplica(r)

\* The settings of the four steps.
LEMMA StepSettings ==
    /\ Settings[0].keys = {"old"} /\ Settings[0].active = "old"
    /\ Settings[1].keys = {"old", "new"} /\ Settings[1].active = "old"
    /\ Settings[2].keys = {"old", "new"} /\ Settings[2].active = "new"
    /\ Settings[3].keys = {"new"} /\ Settings[3].active = "new"
  BY DEF Settings

\* A value that suits the step being rolled out is read at it and at the one before.
LEMMA SafeIsReadable ==
    ASSUME NEW s \in 0..3, NEW c, SafeAt(c, s), NEW r \in Replicas, at[r] \in {s, s - 1}, at[r] \in 0..3
    PROVE  Readable(r, c)
  <1>1. c = Null \/ c.key \in {"old", "new"}
    BY Zenon DEF SafeAt, Cells
  <1>2. CASE c = Null
    BY Zenon, <1>2 DEF Readable
  <1>3. CASE c.key \in {"old", "new"}
    <2>1. c.key \in Settings[at[r]].keys
      <3>1. CASE s \in {0, 1}
        BY <1>3, <3>1, StepSettings DEF SafeAt
      <3>2. CASE s = 2
        BY <1>3, <3>2, StepSettings DEF SafeAt
      <3>3. CASE s = 3
        BY <1>3, <3>3, StepSettings DEF SafeAt
      <3> QED BY <3>1, <3>2, <3>3
    <2> QED BY Zenon, <2>1 DEF Readable, Opens
  <1> QED BY Zenon, <1>1, <1>2, <1>3

\* The invariant is what the rotation promises.
LEMMA RotationReads == RotationInv => RotationKeepsRows
  <1> SUFFICES ASSUME RotationInv  PROVE RotationKeepsRows
    BY Zenon
  <1>1. ASSUME NEW r \in Replicas, at[r] # Down
        PROVE  Readable(r, cell) /\ edits[r].state # "failed"
    <2>1. at[r] \in {stage, stage - 1} /\ edits[r].state # "failed"
      BY Zenon, <1>1 DEF RotationInv, OneReplica
    <2>2. stage \in 0..3 /\ at[r] \in 0..3 /\ SafeAt(cell, stage)
      BY <1>1 DEF RotationInv, RotationTypeOK, Down
    <2> QED BY Zenon, <2>1, <2>2, SafeIsReadable
  <1> QED BY Zenon, <1>1 DEF RotationInv, RotationKeepsRows

\* The migration sealed the column under the only key.
LEMMA RotationStart == RotationInit => RotationInv
  <1> SUFFICES ASSUME RotationInit  PROVE RotationInv
    BY Zenon
  <1>1. cell \in Cells /\ cell.text = truth /\ cell.key \in {"none", "old"}
    BY StepSettings, RotationAssumption DEF RotationInit, Migrated, Cells, Null
  <1>2. Null \in Cells /\ NoEdit.state = "idle"
        /\ NoEdit \in [state : {"idle", "read", "failed", "flushed"}, text : 0..MaxEdits,
                        rev : 0..(MaxEdits + 2), out : Cells]
    BY RotationAssumption DEF NoEdit, Cells
  <1>3. RotationTypeOK
    BY <1>1, <1>2, RotationAssumption DEF RotationInit, RotationTypeOK, Down
  <1>4. SafeAt(cell, stage)
    BY <1>1 DEF SafeAt, RotationInit
  <1>5. ASSUME NEW r \in Replicas  PROVE OneReplica(r)
    BY Zenon, <1>2 DEF RotationInit, OneReplica
  <1> QED BY Zenon, <1>1, <1>3, <1>4, <1>5 DEF RotationInv

\* A replica that others leave alone.
LEMMA SameReplica ==
    ASSUME NEW r \in Replicas, OneReplica(r), at'[r] = at[r], edits'[r] = edits[r],
           UNCHANGED stage, rowRev' >= rowRev, rowRev \in Int, rowRev' \in Int,
           edits[r].rev \in Int
    PROVE  OneReplica(r)'
  <1>1. SealKey(r)' = SealKey(r)
    BY Zenon DEF SealKey
  <1>2. edits[r].rev <= rowRev => edits[r].rev <= rowRev'
    OBVIOUS
  <1> QED BY Zenon, <1>1, <1>2 DEF OneReplica

\* Every step keeps the invariant.
LEMMA RotationStep == RotationInv /\ [RotationNext]_ringVars => RotationInv'
  <1> SUFFICES ASSUME RotationInv, [RotationNext]_ringVars  PROVE RotationInv'
    BY Zenon
  <1> USE RotationAssumption
  <1>0. /\ stage \in 0..3 /\ rowRev \in 1..(MaxEdits + 2) /\ rowRev \in Int /\ truth \in 0..MaxEdits
        /\ cell \in Cells /\ RotationTypeOK /\ SafeAt(cell, stage) /\ cell.text = truth
        /\ rowRev >= rowRev /\ rowRev + 1 >= rowRev /\ rowRev + 1 \in Int
    BY DEF RotationInv, RotationTypeOK
  <1>a. ASSUME NEW r \in Replicas
        PROVE  /\ OneReplica(r) /\ edits[r].rev \in 0..(MaxEdits + 2) /\ edits[r].rev \in Int
               /\ edits[r].out \in Cells /\ at[r] \in Down..3 /\ edits[r].text \in 0..MaxEdits
               /\ edits[r].state \in {"idle", "read", "failed", "flushed"}
    BY DEF RotationInv, RotationTypeOK
  <1>b. /\ NoEdit.state = "idle" /\ Null \in Cells
        /\ NoEdit \in [state : {"idle", "read", "failed", "flushed"}, text : 0..MaxEdits,
                       rev : 0..(MaxEdits + 2), out : Cells]
    BY DEF NoEdit, Cells
  <1>1. CASE UNCHANGED ringVars
    BY Zenon, <1>1 DEF ringVars, RotationInv, RotationTypeOK, OneReplica, SealKey
  <1>2. CASE NextStep
    <2>1. /\ stage < 3 /\ \A r \in Replicas : at[r] = stage
          /\ stage = 2 => cell.key # "old"
          /\ stage' = stage + 1 /\ at' = at /\ cell' = cell /\ rowRev' = rowRev /\ edits' = edits
          /\ truth' = truth
      BY Zenon, <1>2 DEF NextStep
    <2>2. RotationTypeOK'
      BY <1>0, <2>1 DEF RotationTypeOK
    <2>3. SafeAt(cell, stage)'
      <3>1. cell.key \in {"none", "old", "new"}
        BY <1>0 DEF Cells, Null
      <3> QED BY <1>0, <2>1, <3>1 DEF SafeAt
    <2>4. ASSUME NEW r \in Replicas  PROVE OneReplica(r)'
      <3>1. at'[r] = stage' - 1
        BY <1>0, <2>1
      <3>2. SealKey(r)' = SealKey(r)
        BY Zenon, <2>1 DEF SealKey
      <3>3. OneReplica(r)
        BY Zenon DEF RotationInv
      <3> QED BY Zenon, <2>1, <3>1, <3>2, <3>3 DEF OneReplica
    <2> QED BY Zenon, <1>0, <2>1, <2>2, <2>3, <2>4 DEF RotationInv
  <1>3. ASSUME NEW r \in Replicas, Load(r)  PROVE RotationInv'
    <2> DEFINE e == [state |-> "read", text |-> cell.text, rev |-> rowRev, out |-> Null]
    <2>1. /\ at[r] # Down /\ stage' = stage /\ at' = at /\ cell' = cell /\ rowRev' = rowRev
          /\ truth' = truth
          /\ Readable(r, cell) => edits' = [edits EXCEPT ![r] = e]
      BY Zenon, <1>3 DEF Load
    <2>2. Readable(r, cell)
      BY Zenon, <2>1, RotationReads DEF RotationKeepsRows
    <2>3. /\ e.state = "read" /\ e.rev = rowRev
          /\ e \in [state : {"idle", "read", "failed", "flushed"}, text : 0..MaxEdits,
                       rev : 0..(MaxEdits + 2), out : Cells]
      BY <1>0, <1>b
    <2> HIDE DEF e
    <2>4. edits' = [edits EXCEPT ![r] = e]
      BY Zenon, <2>1, <2>2
    <2>5. RotationTypeOK'
      BY Zenon, <1>0, <2>1, <2>3, <2>4 DEF RotationTypeOK
    <2>6. ASSUME NEW p \in Replicas  PROVE OneReplica(p)'
      <3>1. CASE p = r
        <4>1. edits'[p] = e
          BY Zenon, <1>0, <2>4, <3>1 DEF RotationTypeOK
        <4>2. e.state # "failed" /\ e.state # "flushed" /\ e.rev <= rowRev
          BY Zenon, <1>0, <2>3
        <4> QED BY Zenon, <1>a, <2>1, <3>1, <4>1, <4>2 DEF OneReplica
      <3>2. CASE p # r
        <4>1. edits'[p] = edits[p]
          BY Zenon, <1>0, <2>4, <3>2 DEF RotationTypeOK
        <4> QED BY Zenon, <1>0, <1>a, <2>1, <4>1, SameReplica
      <3> QED BY Zenon, <3>1, <3>2
    <2> QED BY Zenon, <1>0, <2>1, <2>5, <2>6 DEF RotationInv
  <1>4. ASSUME NEW r \in Replicas, NEW text \in 0..MaxEdits, Flush(r, text)  PROVE RotationInv'
    <2>1. /\ edits[r].state = "read" /\ rowRev < MaxEdits + 2
          /\ edits' = [edits EXCEPT ![r].state = "flushed", ![r].out = Encrypt(r, text)]
          /\ stage' = stage /\ at' = at /\ cell' = cell /\ rowRev' = rowRev /\ truth' = truth
      BY Zenon, <1>4 DEF Flush
    <2>2. at[r] \in 0..3
      BY <1>a, <2>1 DEF OneReplica, Down
    <2>3. SealKey(r) \in {"old", "new"}
      BY <2>2, StepSettings DEF SealKey
    <2>4. /\ Encrypt(r, text) \in Cells
          /\ Encrypt(r, text) # Null => Encrypt(r, text).key = SealKey(r)
      BY <2>3 DEF Encrypt, Cells
    <2>5. PICK c \in Cells : c = Encrypt(r, text)
      BY Zenon, <2>4
    <2>6. edits' = [edits EXCEPT ![r].state = "flushed", ![r].out = c]
      BY Zenon, <2>1, <2>5
    <2>7. /\ edits'[r].state = "flushed" /\ edits'[r].out = c /\ edits'[r].rev = edits[r].rev
          /\ \A p \in Replicas : p # r => edits'[p] = edits[p]
          /\ edits' \in [Replicas -> [state : {"idle", "read", "failed", "flushed"}, text : 0..MaxEdits,
                               rev : 0..(MaxEdits + 2), out : Cells]]
      BY Zenon, <1>0, <2>6 DEF RotationTypeOK
    <2>8. RotationTypeOK'
      BY Zenon, <1>0, <2>1, <2>7 DEF RotationTypeOK
    <2>9. ASSUME NEW p \in Replicas  PROVE OneReplica(p)'
      <3>1. CASE p = r
        <4>1. edits[r].rev <= rowRev /\ edits[r].rev < MaxEdits + 2
          <5>1. edits[r].rev <= rowRev
            BY Zenon, <1>a, <2>1 DEF OneReplica
          <5> QED BY <1>0, <1>a, <2>1, <5>1
        <4>2. SealKey(r)' = SealKey(r)
          BY Zenon, <2>1 DEF SealKey
        <4>3. OneReplica(r)
          BY Zenon, <1>a
        <4>4. at'[r] \in {Down, stage', stage' - 1} /\ at'[r] # Down
          BY Zenon, <2>1, <4>3 DEF OneReplica
        <4>5. edits'[r].state # "failed" /\ edits'[r].rev <= rowRev' /\ edits'[r].rev < MaxEdits + 2
          BY Zenon, <2>1, <2>7, <4>1
        <4>6. edits'[r].out # Null => edits'[r].out.key = SealKey(r)'
          BY Zenon, <2>4, <2>5, <2>7, <4>2
        <4> QED BY Zenon, <3>1, <4>4, <4>5, <4>6 DEF OneReplica
      <3>2. CASE p # r
        BY Zenon, <1>0, <1>a, <2>1, <2>7, <3>2, SameReplica
      <3> QED BY Zenon, <3>1, <3>2
    <2> QED BY Zenon, <1>0, <2>1, <2>8, <2>9 DEF RotationInv
  <1>5. ASSUME NEW r \in Replicas, CommitEdit(r)  PROVE RotationInv'
    <2>1. /\ edits[r].state = "flushed" /\ edits' = [edits EXCEPT ![r] = NoEdit]
          /\ stage' = stage /\ at' = at
          /\ \/ edits[r].rev = rowRev /\ cell' = edits[r].out /\ rowRev' = rowRev + 1
                /\ truth' = edits[r].out.text
             \/ cell' = cell /\ rowRev' = rowRev /\ truth' = truth
      BY Zenon, <1>5 DEF CommitEdit
    <2>2. /\ at[r] \in {stage, stage - 1} /\ edits[r].rev < MaxEdits + 2
          /\ edits[r].out # Null => edits[r].out.key = SealKey(r)
      BY Zenon, <1>a, <2>1 DEF OneReplica
    <2>3. at[r] \in 0..3
      BY <1>a, <2>1 DEF OneReplica, Down
    <2>4. SafeAt(edits[r].out, stage) /\ edits[r].out.text \in 0..MaxEdits
      <3>1. edits[r].out \in Cells
        BY Zenon, <1>a
      <3>2. edits[r].out.text \in 0..MaxEdits /\ (edits[r].out = Null => edits[r].out.key = "none")
        BY <3>1 DEF Cells, Null
      <3>3. CASE edits[r].out = Null
        BY Zenon, <3>1, <3>2, <3>3 DEF SafeAt
      <3>4. CASE edits[r].out # Null
        <4>1. edits[r].out.key = Settings[at[r]].active
          BY Zenon, <2>2, <3>4 DEF SealKey
        <4>2. /\ stage \in {0, 1} => Settings[at[r]].active = "old"
              /\ stage = 3 => Settings[at[r]].active = "new"
          BY <1>0, <2>2, <2>3, StepSettings
        <4> QED BY Zenon, <3>1, <3>2, <4>1, <4>2 DEF SafeAt
      <3> QED BY Zenon, <3>3, <3>4
    <2>5. /\ rowRev' \in 1..(MaxEdits + 2) /\ truth' \in 0..MaxEdits
          /\ SafeAt(cell', stage') /\ cell'.text = truth' /\ cell' \in Cells
          /\ rowRev' >= rowRev /\ rowRev' \in Int
      <3>1. CASE cell' = cell /\ rowRev' = rowRev /\ truth' = truth
        BY Zenon, <1>0, <2>1, <3>1
      <3>2. CASE edits[r].rev = rowRev /\ cell' = edits[r].out /\ rowRev' = rowRev + 1
                 /\ truth' = edits[r].out.text
        <4>1. rowRev' \in 1..(MaxEdits + 2) /\ rowRev' >= rowRev /\ rowRev' \in Int
          BY <1>0, <2>2, <3>2
        <4> QED BY Zenon, <1>a, <2>1, <2>4, <3>2, <4>1
      <3> QED BY Zenon, <2>1, <3>1, <3>2
    <2>6. RotationTypeOK'
      BY Zenon, <1>0, <1>b, <2>1, <2>5 DEF RotationTypeOK
    <2>7. ASSUME NEW p \in Replicas  PROVE OneReplica(p)'
      <3>1. CASE p = r
        <4>1. edits'[p].state = "idle"
          BY Zenon, <1>0, <1>b, <2>1, <3>1 DEF RotationTypeOK
        <4>2. "idle" # "read" /\ "idle" # "flushed" /\ "idle" # "failed"
          BY Zenon
        <4> QED BY Zenon, <1>a, <2>1, <4>1, <4>2 DEF OneReplica
      <3>2. CASE p # r
        <4>1. edits'[p] = edits[p]
          BY Zenon, <1>0, <2>1, <3>2 DEF RotationTypeOK
        <4> QED BY Zenon, <1>0, <1>a, <2>1, <2>5, <4>1, SameReplica
      <3> QED BY Zenon, <3>1, <3>2
    <2> QED BY Zenon, <2>5, <2>6, <2>7 DEF RotationInv, SafeAt
  <1>6. ASSUME NEW r \in Replicas, Stop(r)  PROVE RotationInv'
    <2>1. /\ at' = [at EXCEPT ![r] = Down] /\ edits' = [edits EXCEPT ![r] = NoEdit]
          /\ stage' = stage /\ cell' = cell /\ rowRev' = rowRev /\ truth' = truth
      BY Zenon, <1>6 DEF Stop
    <2>2. RotationTypeOK'
      <3>1. Down \in Down..3
        BY DEF Down
      <3> QED BY Zenon, <1>0, <1>b, <2>1, <3>1 DEF RotationTypeOK
    <2>3. ASSUME NEW p \in Replicas  PROVE OneReplica(p)'
      <3>1. CASE p = r
        <4>1. edits'[p].state = "idle" /\ at'[p] = Down
          BY Zenon, <1>0, <1>b, <2>1, <3>1 DEF RotationTypeOK
        <4>2. "idle" # "read" /\ "idle" # "flushed" /\ "idle" # "failed"
          BY Zenon
        <4> QED BY Zenon, <4>1, <4>2 DEF OneReplica
      <3>2. CASE p # r
        <4>1. edits'[p] = edits[p] /\ at'[p] = at[p]
          BY Zenon, <1>0, <2>1, <3>2 DEF RotationTypeOK
        <4> QED BY Zenon, <1>0, <1>a, <2>1, <4>1, SameReplica
      <3> QED BY Zenon, <3>1, <3>2
    <2> QED BY Zenon, <1>0, <2>1, <2>2, <2>3 DEF RotationInv
  <1>7. ASSUME NEW r \in Replicas, Start(r)  PROVE RotationInv'
    <2>1. /\ at[r] = Down /\ at' = [at EXCEPT ![r] = stage] /\ edits' = edits
          /\ stage' = stage /\ cell' = cell /\ rowRev' = rowRev /\ truth' = truth
      BY Zenon, <1>7 DEF Start
    <2>2. RotationTypeOK'
      <3>1. stage \in Down..3
        BY <1>0 DEF Down
      <3> QED BY Zenon, <1>0, <2>1, <3>1 DEF RotationTypeOK
    <2>3. ASSUME NEW p \in Replicas  PROVE OneReplica(p)'
      <3>1. CASE p = r
        <4>1. edits'[p].state = "idle" /\ at'[p] = stage'
          BY Zenon, <1>0, <1>a, <2>1, <3>1 DEF RotationTypeOK, OneReplica
        <4>2. "idle" # "read" /\ "idle" # "flushed" /\ "idle" # "failed"
          BY Zenon
        <4> QED BY Zenon, <4>1, <4>2 DEF OneReplica
      <3>2. CASE p # r
        <4>1. edits'[p] = edits[p] /\ at'[p] = at[p]
          BY Zenon, <1>0, <2>1, <3>2 DEF RotationTypeOK
        <4> QED BY Zenon, <1>0, <1>a, <2>1, <4>1, SameReplica
      <3> QED BY Zenon, <3>1, <3>2
    <2> QED BY Zenon, <1>0, <2>1, <2>2, <2>3 DEF RotationInv
  <1> QED BY Zenon, <1>1, <1>2, <1>3, <1>4, <1>5, <1>6, <1>7 DEF RotationNext

-----------------------------------------------------------------------------
(* Objects: writers, readers and the files beneath.                        *)

\* A thread with a file open is writing it, nothing but its own key's temp file and, after an
\* overlap, its own object is that file; alone, it finds there what it has written.
OneThread(t) ==
    LET th == threads[t]
    IN  /\ th.state \in {"idle", "sent", "head"} => th.fd = 0
        /\ th.state \in {"opened", "half", "written"} => th.fd # 0
        /\ th.state \in {"sent", "opened", "half", "written"} => th.data \in Datas
        /\ th.fd # 0 =>
            /\ \A k \in ObjectKeys : names[k] = th.fd => k = th.key /\ k \in overlapped
            /\ \A k \in ObjectKeys : temps[k] = th.fd => k = th.key
            /\ \A u \in PutThreads : threads[u].fd = th.fd => threads[u].key = th.key
        /\ th.key \notin overlapped =>
            /\ th.state \in {"opened", "half", "written"} => temps[th.key] = th.fd
            /\ th.state \in {"half", "written"} => files[th.fd][1] = th.data
            /\ th.state = "written" => files[th.fd] = <<th.data, th.data>>

\* No object is a temp file, no two temp files are one, and a key has one writer or overlapped.
OneKey(k) ==
    /\ temps[k] # 0 => \A j \in ObjectKeys : names[j] # temps[k] /\ (temps[j] = temps[k] => j = k)
    /\ k \notin overlapped => \A t, u \in Writing(k) : t = u

ObjectsInv ==
    /\ ObjectsTypeOK /\ ObjectsAreWhole
    /\ \A t \in PutThreads : OneThread(t)
    /\ \A k \in ObjectKeys : OneKey(k)

\* Nothing is stored at first.
LEMMA ObjectsStart == ObjectsInit => ObjectsInv
  <1> SUFFICES ASSUME ObjectsInit  PROVE ObjectsInv
    BY Zenon
  <1>1. /\ NoThread \in [state : {"idle", "sent", "opened", "half", "written", "cleanup", "head"},
                         key : ObjectKeys, data : Datas \union {NoData}, fd : {0} \union Inodes]
        /\ NoThread.state = "idle" /\ NoThread.fd = 0
    BY Zenon, ObjectsAssumption DEF NoThread
  <1>2. ObjectsTypeOK
    BY Zenon, <1>1 DEF ObjectsInit, ObjectsTypeOK, Blank
  <1>3. ObjectsAreWhole
    BY Zenon DEF ObjectsInit, ObjectsAreWhole
  <1>4. ASSUME NEW t \in PutThreads  PROVE OneThread(t)
    <2>1. threads[t].state = "idle" /\ threads[t].fd = 0
      BY Zenon, <1>1 DEF ObjectsInit
    <2> QED BY Zenon, <2>1 DEF OneThread
  <1>5. ASSUME NEW k \in ObjectKeys  PROVE OneKey(k)
    <2>1. temps[k] = 0 /\ Writing(k) = {}
      BY Zenon, <1>1 DEF ObjectsInit, Writing
    <2> QED BY Zenon, <2>1 DEF OneKey
  <1> QED BY Zenon, <1>2, <1>3, <1>4, <1>5 DEF ObjectsInv

\* A new inode is nobody's.
LEMMA NewInode ==
    ASSUME ObjectsTypeOK, FreeInodes # {}
    PROVE  /\ FreeInode \in Inodes /\ FreeInode # 0
           /\ \A k \in ObjectKeys : names[k] # FreeInode /\ temps[k] # FreeInode
           /\ \A t \in PutThreads : threads[t].fd # FreeInode
  <1>1. FreeInode \in FreeInodes
    BY Zenon DEF FreeInode
  <1>2. \A i \in Inodes : i # 0
    BY DEF Inodes
  <1> QED BY Zenon, <1>1, <1>2 DEF FreeInodes, Used

\* Threads that change have no file open.
QuietThreads ==
    /\ threads' \in [PutThreads -> [state : {"idle", "sent", "opened", "half", "written", "cleanup", "head"},
                                   key : ObjectKeys, data : Datas \union {NoData}, fd : {0} \union Inodes]]
    /\ \A t \in PutThreads :
        \/ threads'[t] = threads[t]
        \/ /\ threads[t].state \in {"idle", "sent", "head"} /\ threads'[t].state \in {"idle", "sent", "head"}
           /\ threads'[t].fd = 0 /\ (threads'[t].state = "sent" => threads'[t].data \in Datas)

\* An object is stored whole in a new inode, removed, or left as it is, while threads that have
\* no file open change.
LEMMA StoreStep ==
    ASSUME ObjectsInv, QuietThreads, UNCHANGED <<backend, temps, overlapped>>,
           grants' \subseteq [owner : Owners, key : ObjectKeys],
           NEW k \in ObjectKeys, NEW d,
           \/ d \in Datas /\ PublishObject(k, d)
           \/ names' = [names EXCEPT ![k] = 0] /\ kept' = [kept EXCEPT ![k] = NoData] /\ files' = files
           \/ UNCHANGED <<names, files, kept>>
    PROVE  ObjectsInv'
  <1> DEFINE Stores == d \in Datas /\ PublishObject(k, d)
  <1>a. \/ Stores
        \/ names' = [names EXCEPT ![k] = 0] /\ kept' = [kept EXCEPT ![k] = NoData] /\ files' = files
        \/ UNCHANGED <<names, files, kept>>
    BY Zenon
  <1>b. Stores => d \in Datas /\ PublishObject(k, d)
    BY Zenon
  <1> HIDE DEF Stores
  <1>0. ObjectsTypeOK
    BY Zenon DEF ObjectsInv
  <1>1. PICK i : i = FreeInode
    BY Zenon
  <1>2. Stores =>
          /\ i \in Inodes /\ i # 0 /\ \A j \in ObjectKeys : names[j] # i /\ temps[j] # i
          /\ \A t \in PutThreads : threads[t].fd # i
          /\ names' = [names EXCEPT ![k] = i] /\ files' = [files EXCEPT ![i] = <<d, d>>]
          /\ kept' = [kept EXCEPT ![k] = d] /\ d \in Datas
    BY Zenon, <1>0, <1>1, <1>b, NewInode DEF PublishObject
  <1>3. ObjectsTypeOK'
    <2>1. d \in Datas => <<d, d>> \in (Datas \union {NoData}) \X (Datas \union {NoData})
      BY Zenon
    <2>2. /\ names' \in [ObjectKeys -> {0} \union Inodes]
          /\ files' \in [Inodes -> (Datas \union {NoData}) \X (Datas \union {NoData})]
          /\ kept' \in [ObjectKeys -> Datas \union {NoData}]
      <3>1. CASE Stores
        <4>1. /\ names' = [names EXCEPT ![k] = i] /\ files' = [files EXCEPT ![i] = <<d, d>>]
              /\ kept' = [kept EXCEPT ![k] = d] /\ i \in {0} \union Inodes /\ d \in Datas
          BY Zenon, <1>2, <3>1
        <4> QED BY Zenon, <1>0, <2>1, <4>1 DEF ObjectsTypeOK
      <3>2. CASE names' = [names EXCEPT ![k] = 0] /\ kept' = [kept EXCEPT ![k] = NoData] /\ files' = files
        BY Zenon, <1>0, <3>2 DEF ObjectsTypeOK
      <3>3. CASE UNCHANGED <<names, files, kept>>
        BY Zenon, <1>0, <3>3 DEF ObjectsTypeOK
      <3> QED BY Zenon, <1>a, <3>1, <3>2, <3>3
    <2> QED BY Zenon, <1>0, <2>2 DEF ObjectsTypeOK, QuietThreads
  <1>4. ASSUME NEW j \in ObjectKeys
        PROVE  /\ \A e \in Inodes \ {i} : files'[e] = files[e]
               /\ names'[j] \in {names[j], 0} \/ (Stores /\ names'[j] = i)
    BY Zenon, <1>0, <1>2, <1>a DEF ObjectsTypeOK
  <1>5. ASSUME NEW t \in PutThreads, threads'[t] = threads[t], threads[t].fd # 0
        PROVE  /\ \A j \in ObjectKeys : names'[j] = threads[t].fd => names[j] = threads[t].fd
               /\ files'[threads[t].fd] = files[threads[t].fd]
               /\ \A u \in PutThreads : threads'[u].fd = threads[t].fd => threads'[u] = threads[u]
    <2>1. threads[t].fd \in Inodes
      BY Zenon, <1>0, <1>5 DEF ObjectsTypeOK
    <2>2. Stores => threads[t].fd # i
      BY Zenon, <1>2
    <2>3. files'[threads[t].fd] = files[threads[t].fd]
      BY Zenon, <1>0, <1>2, <1>a, <2>1, <2>2 DEF ObjectsTypeOK
    <2>4. ASSUME NEW j \in ObjectKeys, names'[j] = threads[t].fd  PROVE names[j] = threads[t].fd
      BY Zenon, <1>4, <1>5, <2>2, <2>4
    <2> QED BY Zenon, <1>5, <2>3, <2>4 DEF QuietThreads
  <1>6. ASSUME NEW t \in PutThreads  PROVE OneThread(t)'
    <2>1. OneThread(t)
      BY Zenon DEF ObjectsInv
    <2>2. CASE threads'[t] # threads[t]
      <3>1. /\ threads'[t].state \in {"idle", "sent", "head"} /\ threads'[t].fd = 0
            /\ threads'[t].state = "sent" => threads'[t].data \in Datas
        BY Zenon, <2>2 DEF QuietThreads
      <3> QED BY Zenon, <3>1 DEF OneThread
    <2>3. CASE threads'[t] = threads[t] /\ threads[t].fd = 0
      <3>1. threads[t].state \notin {"opened", "half", "written"}
        BY Zenon, <2>1, <2>3 DEF OneThread
      <3> QED BY Zenon, <2>1, <2>3, <3>1 DEF OneThread
    <2>4. CASE threads'[t] = threads[t] /\ threads[t].fd # 0
      <3>1. ASSUME NEW u \in PutThreads, threads'[u].fd = threads[t].fd
            PROVE  threads'[u].key = threads[t].key
        <4>1. threads'[u] = threads[u]
          BY Zenon, <1>5, <2>4, <3>1
        <4> QED BY Zenon, <2>1, <2>4, <3>1, <4>1 DEF OneThread
      <3>2. ASSUME NEW j \in ObjectKeys, names'[j] = threads[t].fd
            PROVE  j = threads[t].key /\ j \in overlapped
        BY Zenon, <1>5, <2>1, <2>4, <3>2 DEF OneThread
      <3>3. files'[threads[t].fd] = files[threads[t].fd]
        BY Zenon, <1>5, <2>4
      <3> QED BY Zenon, <2>1, <2>4, <3>1, <3>2, <3>3 DEF OneThread
    <2> QED BY Zenon, <2>2, <2>3, <2>4
  <1>7. ASSUME NEW j \in ObjectKeys  PROVE OneKey(j)'
    <2>1. OneKey(j)
      BY Zenon DEF ObjectsInv
    <2>2. ASSUME temps[j] # 0, NEW h \in ObjectKeys  PROVE names'[h] # temps[j]
      BY Zenon, <1>2, <1>4, <2>1, <2>2 DEF OneKey
    <2>3. Writing(j)' \subseteq Writing(j)
      <3> SUFFICES ASSUME NEW t \in Writing(j)'  PROVE t \in Writing(j)
        BY Zenon
      <3>1. t \in PutThreads /\ threads'[t].key = j
            /\ threads'[t].state \in {"opened", "half", "written", "cleanup"}
        BY Zenon DEF Writing
      <3>2. threads'[t] = threads[t]
        BY Zenon, <3>1 DEF QuietThreads
      <3> QED BY Zenon, <3>1, <3>2 DEF Writing
    <2> QED BY Zenon, <2>1, <2>2, <2>3 DEF OneKey
  <1>8. ObjectsAreWhole'
    <2> SUFFICES ASSUME NEW j \in ObjectKeys \ overlapped
                 PROVE  IF kept'[j] = NoData THEN names'[j] = 0
                        ELSE names'[j] # 0 /\ files'[names'[j]] = <<kept'[j], kept'[j]>>
      BY Zenon DEF ObjectsAreWhole, Content
    <2>1. IF kept[j] = NoData THEN names[j] = 0
          ELSE names[j] # 0 /\ files[names[j]] = <<kept[j], kept[j]>>
      BY Zenon DEF ObjectsInv, ObjectsAreWhole, Content
    <2>2. CASE Stores
      <3>1. CASE j = k
        <4>1. names'[j] = i /\ kept'[j] = d /\ files'[i] = <<d, d>>
          BY Zenon, <1>0, <1>2, <2>2, <3>1 DEF ObjectsTypeOK
        <4> QED BY Zenon, <1>2, <2>2, <4>1, ObjectsAssumption
      <3>2. CASE j # k
        <4>1. names'[j] = names[j] /\ kept'[j] = kept[j] /\ names[j] # i
          BY Zenon, <1>0, <1>2, <2>2, <3>2 DEF ObjectsTypeOK
        <4>2. names[j] # 0 => files'[names[j]] = files[names[j]]
          BY Zenon, <1>0, <1>2, <2>2, <4>1 DEF ObjectsTypeOK
        <4> QED BY Zenon, <2>1, <4>1, <4>2
      <3> QED BY Zenon, <3>1, <3>2
    <2>3. CASE names' = [names EXCEPT ![k] = 0] /\ kept' = [kept EXCEPT ![k] = NoData] /\ files' = files
      BY Zenon, <1>0, <2>1, <2>3 DEF ObjectsTypeOK
    <2>4. CASE UNCHANGED <<names, files, kept>>
      BY Zenon, <2>1, <2>4
    <2> QED BY Zenon, <1>a, <2>2, <2>3, <2>4
  <1> QED BY Zenon, <1>3, <1>6, <1>7, <1>8 DEF ObjectsInv

\* A step of one writer t, of key k: what it leaves alone.
LEMMA WriterFrame ==
    ASSUME ObjectsInv, NEW t \in PutThreads, NEW u \in PutThreads, u # t, threads'[u] = threads[u],
           \A p \in PutThreads : threads'[p].fd # 0 /\ threads'[p].fd = threads[u].fd => threads'[p].key = threads[u].key,
           overlapped \subseteq overlapped',
           \A j \in ObjectKeys : names'[j] # 0 /\ names'[j] = threads[u].fd => names[j] = threads[u].fd \/ (j = threads[u].key /\ j \in overlapped'),
           \A j \in ObjectKeys : temps'[j] # 0 /\ temps'[j] = threads[u].fd => j = threads[u].key,
           threads[u].state \in {"opened", "half", "written"} /\ threads[u].key \notin overlapped' =>
              temps'[threads[u].key] = temps[threads[u].key] /\ files'[threads[u].fd] = files[threads[u].fd]
    PROVE  OneThread(u)'
  <1>1. OneThread(u)
    BY Zenon DEF ObjectsInv
  <1>2. CASE threads[u].fd = 0
    <2>1. threads[u].state \notin {"opened", "half", "written"}
      BY Zenon, <1>1, <1>2 DEF OneThread
    <2> QED BY Zenon, <1>1, <1>2, <2>1 DEF OneThread
  <1>3. CASE threads[u].fd # 0
    <2>1. ASSUME NEW j \in ObjectKeys, names'[j] = threads[u].fd
          PROVE  j = threads[u].key /\ j \in overlapped'
      BY Zenon, <1>1, <1>3, <2>1 DEF OneThread
    <2>2. ASSUME NEW j \in ObjectKeys, temps'[j] = threads[u].fd  PROVE j = threads[u].key
      BY Zenon, <1>3, <2>2
    <2>3. ASSUME NEW p \in PutThreads, threads'[p].fd = threads[u].fd  PROVE threads'[p].key = threads[u].key
      BY Zenon, <1>3, <2>3
    <2>4. threads[u].state \notin {"idle", "sent", "head"}
      BY Zenon, <1>1, <1>3 DEF OneThread
    <2>5. ASSUME threads[u].key \notin overlapped'
          PROVE  /\ threads[u].state \in {"opened", "half", "written"} => temps'[threads[u].key] = threads[u].fd
                 /\ threads[u].state \in {"half", "written"} => files'[threads[u].fd][1] = threads[u].data
                 /\ threads[u].state = "written" => files'[threads[u].fd] = <<threads[u].data, threads[u].data>>
      <3>1. threads[u].key \notin overlapped
        BY Zenon, <2>5
      <3> QED BY Zenon, <1>1, <2>5, <3>1 DEF OneThread
    <2> QED BY Zenon, <1>1, <1>3, <2>1, <2>2, <2>3, <2>4, <2>5 DEF OneThread
  <1> QED BY Zenon, <1>2, <1>3

\* The temp file that a put opens is nobody's object, and no other key's.
LEMMA TempInode ==
    ASSUME ObjectsInv, NEW k \in ObjectKeys, FreeInodes # {}
    PROVE  /\ OpenTemp(k) \in Inodes /\ OpenTemp(k) # 0
           /\ \A j \in ObjectKeys : names[j] # OpenTemp(k) /\ (temps[j] = OpenTemp(k) => j = k)
           /\ \A u \in PutThreads : threads[u].fd = OpenTemp(k) => threads[u].key = k
  <1>0. ObjectsTypeOK /\ OneKey(k)
    BY Zenon DEF ObjectsInv
  <1>1. CASE temps[k] = 0
    BY Zenon, <1>0, <1>1, NewInode DEF OpenTemp
  <1>2. CASE temps[k] # 0
    <2>1. OpenTemp(k) = temps[k] /\ temps[k] \in Inodes
      BY Zenon, <1>0, <1>2 DEF OpenTemp, ObjectsTypeOK
    <2>2. ASSUME NEW u \in PutThreads, threads[u].fd = temps[k]  PROVE threads[u].key = k
      BY Zenon, <1>2, <2>2 DEF ObjectsInv, OneThread
    <2> QED BY Zenon, <1>0, <1>2, <2>1, <2>2 DEF OneKey
  <1> QED BY Zenon, <1>1, <1>2

\* The thread of a step that changes one.
LEMMA OneThreadChanges ==
    ASSUME ObjectsTypeOK, NEW t \in PutThreads,
           NEW st \in {"idle", "sent", "opened", "half", "written", "cleanup", "head"},
           NEW fd \in {0} \union Inodes,
           threads' = [threads EXCEPT ![t].state = st, ![t].fd = fd]
    PROVE  /\ \A u \in PutThreads : u # t => threads'[u] = threads[u]
           /\ threads'[t].state = st /\ threads'[t].fd = fd /\ threads'[t].key = threads[t].key
           /\ threads'[t].data = threads[t].data
           /\ threads' \in [PutThreads -> [state : {"idle", "sent", "opened", "half", "written", "cleanup", "head"},
                                   key : ObjectKeys, data : Datas \union {NoData}, fd : {0} \union Inodes]]
  <1>1. threads[t] \in [state : {"idle", "sent", "opened", "half", "written", "cleanup", "head"},
                        key : ObjectKeys, data : Datas \union {NoData}, fd : {0} \union Inodes]
    BY Zenon DEF ObjectsTypeOK
  <1>2. PICK th : th = [threads[t] EXCEPT !.state = st, !.fd = fd]
    BY Zenon
  <1>3. threads' = [threads EXCEPT ![t] = th]
    BY Zenon, <1>2 DEF ObjectsTypeOK
  <1>4. /\ th.state = st /\ th.fd = fd /\ th.key = threads[t].key /\ th.data = threads[t].data
        /\ th \in [state : {"idle", "sent", "opened", "half", "written", "cleanup", "head"},
                        key : ObjectKeys, data : Datas \union {NoData}, fd : {0} \union Inodes]
    BY Zenon, <1>1, <1>2
  <1>5. threads'[t] = th /\ \A u \in PutThreads : u # t => threads'[u] = threads[u]
    BY Zenon, <1>3 DEF ObjectsTypeOK
  <1>6. threads' \in [PutThreads -> [state : {"idle", "sent", "opened", "half", "written", "cleanup", "head"},
                                   key : ObjectKeys, data : Datas \union {NoData}, fd : {0} \union Inodes]]
    BY Zenon, <1>3, <1>4 DEF ObjectsTypeOK
  <1> QED BY Zenon, <1>4, <1>5, <1>6

\* A put opens its temp file.
LEMMA OpenStep ==
    ASSUME ObjectsInv, NEW t \in PutThreads, OpenFile(t)
    PROVE  ObjectsInv'
  <1>0. ObjectsTypeOK
    BY Zenon DEF ObjectsInv
  <1>1. PICK k : k = threads[t].key
    BY Zenon
  <1>2. PICK i : i = OpenTemp(k)
    BY Zenon
  <1>3. /\ threads[t].state = "sent" /\ UNCHANGED <<backend, names, grants, kept>>
        /\ overlapped' = IF Writing(k) = {} THEN overlapped ELSE overlapped \union {k}
        /\ \/ /\ FreeInodes # {} /\ threads' = [threads EXCEPT ![t].state = "opened", ![t].fd = i]
              /\ files' = [files EXCEPT ![i] = Blank] /\ temps' = [temps EXCEPT ![k] = i]
           \/ threads' = [threads EXCEPT ![t].state = "cleanup"] /\ UNCHANGED <<files, temps>>
    BY Zenon, <1>1, <1>2 DEF OpenFile
  <1>4. k \in ObjectKeys
    BY Zenon, <1>0, <1>1 DEF ObjectsTypeOK
  <1>5. overlapped \subseteq overlapped' /\ overlapped' \subseteq overlapped \cup {k}
        /\ (Writing(k) # {} => k \in overlapped') /\ overlapped' \subseteq ObjectKeys
    BY Zenon, <1>0, <1>3, <1>4 DEF ObjectsTypeOK
  <1>6. threads[t].fd = 0 /\ threads[t].data \in Datas
    <2>1. OneThread(t)
      BY Zenon DEF ObjectsInv
    <2> QED BY Zenon, <1>3, <2>1 DEF OneThread
  <1>7. ASSUME FreeInodes # {}
        PROVE  /\ i \in Inodes /\ i # 0
               /\ \A j \in ObjectKeys : names[j] # i /\ (temps[j] = i => j = k)
               /\ \A u \in PutThreads : threads[u].fd = i => threads[u].key = k
    BY Zenon, <1>2, <1>4, <1>7, TempInode
  <1>8. /\ \A u \in PutThreads : u # t => threads'[u] = threads[u]
        /\ threads'[t].key = k /\ threads'[t].data = threads[t].data
        /\ threads' \in [PutThreads -> [state : {"idle", "sent", "opened", "half", "written", "cleanup", "head"},
                                   key : ObjectKeys, data : Datas \union {NoData}, fd : {0} \union Inodes]]
        /\ \/ threads'[t].state = "opened" /\ threads'[t].fd = i
           \/ threads'[t].state = "cleanup" /\ threads'[t].fd = 0
    <2>1. CASE FreeInodes # {} /\ threads' = [threads EXCEPT ![t].state = "opened", ![t].fd = i]
      BY Zenon, <1>0, <1>1, <1>7, <2>1, OneThreadChanges
    <2>2. CASE threads' = [threads EXCEPT ![t].state = "cleanup"]
      BY <1>0, <1>1, <1>6, <2>2 DEF ObjectsTypeOK
    <2> QED BY Zenon, <1>3, <2>1, <2>2
  <1>9. ASSUME NEW j \in ObjectKeys, j \notin overlapped'
        PROVE  /\ \A p, q \in Writing(j)' : p = q
               /\ j = k => Writing(k) = {}
    <2>1. OneKey(j) /\ j \notin overlapped
      BY Zenon, <1>5, <1>9 DEF ObjectsInv
    <2>2. CASE j = k
      <3>1. Writing(k) = {}
        BY Zenon, <1>5, <1>9, <2>2
      <3>2. Writing(k)' \subseteq {t}
        BY Zenon, <1>8, <3>1 DEF Writing
      <3> QED BY Zenon, <2>2, <3>1, <3>2
    <2>3. CASE j # k
      <3>1. Writing(j)' \subseteq Writing(j)
        BY Zenon, <1>8, <2>3 DEF Writing
      <3> QED BY Zenon, <2>1, <2>3, <3>1 DEF OneKey
    <2> QED BY Zenon, <2>2, <2>3
  <1>10. ASSUME NEW j \in ObjectKeys  PROVE OneKey(j) /\ (j \in ObjectKeys \ overlapped' => j \in ObjectKeys \ overlapped)
    BY Zenon, <1>5 DEF ObjectsInv
  <1>11. CASE /\ FreeInodes # {} /\ threads'[t].state = "opened" /\ threads'[t].fd = i
              /\ files' = [files EXCEPT ![i] = Blank] /\ temps' = [temps EXCEPT ![k] = i]
    <2>0. /\ i \in Inodes /\ i # 0 /\ \A j \in ObjectKeys : names[j] # i /\ (temps[j] = i => j = k)
          /\ \A u \in PutThreads : threads[u].fd = i => threads[u].key = k
      BY Zenon, <1>7, <1>11
    <2>1. /\ temps'[k] = i /\ \A j \in ObjectKeys : j # k => temps'[j] = temps[j]
          /\ \A e \in Inodes : e # i => files'[e] = files[e]
      BY Zenon, <1>0, <1>4, <1>11 DEF ObjectsTypeOK
    <2>2. ObjectsTypeOK'
      <3>1. Blank \in (Datas \union {NoData}) \X (Datas \union {NoData})
        BY Zenon DEF Blank
      <3>2. /\ temps' \in [ObjectKeys -> {0} \union Inodes]
            /\ files' \in [Inodes -> (Datas \union {NoData}) \X (Datas \union {NoData})]
        BY Zenon, <1>0, <1>4, <1>11, <2>0, <3>1 DEF ObjectsTypeOK
      <3> QED BY Zenon, <1>0, <1>3, <1>5, <1>8, <3>2 DEF ObjectsTypeOK
    <2>3. ASSUME NEW u \in PutThreads, u # t  PROVE OneThread(u)'
      <3>1. OneThread(u) /\ threads'[u] = threads[u]
        BY Zenon, <1>8, <2>3 DEF ObjectsInv
      <3>2. ASSUME NEW p \in PutThreads, threads'[p].fd # 0, threads'[p].fd = threads[u].fd
            PROVE  threads'[p].key = threads[u].key
        <4>1. CASE p = t
          BY Zenon, <1>8, <1>11, <2>0, <3>2, <4>1
        <4>2. CASE p # t
          <5>1. threads'[p] = threads[p]
            BY Zenon, <1>8, <4>2
          <5> QED BY Zenon, <3>1, <3>2, <5>1 DEF OneThread
        <4> QED BY Zenon, <4>1, <4>2
      <3>3. ASSUME NEW j \in ObjectKeys, temps'[j] # 0, temps'[j] = threads[u].fd  PROVE j = threads[u].key
        <4>1. CASE j = k
          BY Zenon, <2>0, <2>1, <3>3, <4>1
        <4>2. CASE j # k
          BY Zenon, <2>1, <3>1, <3>3, <4>2 DEF OneThread
        <4> QED BY Zenon, <4>1, <4>2
      <3>4. ASSUME threads[u].state \in {"opened", "half", "written"}, threads[u].key \notin overlapped'
            PROVE  /\ temps'[threads[u].key] = temps[threads[u].key]
                   /\ files'[threads[u].fd] = files[threads[u].fd]
        <4>1. threads[u].key \in ObjectKeys /\ threads[u].fd # 0 /\ threads[u].fd \in Inodes
          BY Zenon, <1>0, <3>1, <3>4 DEF ObjectsTypeOK, OneThread
        <4>2. u \in Writing(threads[u].key)
          BY Zenon, <3>4 DEF Writing
        <4>3. threads[u].key # k
          BY Zenon, <1>5, <3>4, <4>2
        <4> QED BY Zenon, <2>0, <2>1, <4>1, <4>3
      <3>5. ASSUME NEW j \in ObjectKeys  PROVE names'[j] = names[j]
        BY Zenon, <1>3
      <3> QED BY Zenon, <1>5, <2>3, <3>1, <3>2, <3>3, <3>4, <3>5, WriterFrame
    <2>4. OneThread(t)'
      <3>1. ASSUME NEW j \in ObjectKeys  PROVE names'[j] # i /\ (temps'[j] = i => j = k)
        BY Zenon, <1>3, <2>0, <2>1
      <3>2. ASSUME NEW u \in PutThreads, threads'[u].fd = i  PROVE threads'[u].key = k
        BY Zenon, <1>8, <2>0, <3>2
      <3> QED BY Zenon, <1>6, <1>8, <1>11, <2>0, <2>1, <3>1, <3>2 DEF OneThread
    <2>5. ASSUME NEW j \in ObjectKeys  PROVE OneKey(j)'
      <3>1. ASSUME temps'[j] # 0, NEW h \in ObjectKeys
            PROVE  names'[h] # temps'[j] /\ (temps'[h] = temps'[j] => h = j)
        <4>1. CASE j = k
          BY Zenon, <1>3, <2>0, <2>1, <4>1
        <4>2. CASE j # k
          <5>1. /\ temps'[j] = temps[j] /\ temps[j] # 0 /\ temps[j] # i
                /\ names[h] # temps[j] /\ (temps[h] = temps[j] => h = j)
            BY Zenon, <1>10, <2>0, <2>1, <3>1, <4>2 DEF OneKey
          <5>2. h = k => temps'[h] = i
            BY Zenon, <2>1
          <5>3. h # k => temps'[h] = temps[h]
            BY Zenon, <2>1
          <5> QED BY Zenon, <1>3, <5>1, <5>2, <5>3
        <4> QED BY Zenon, <4>1, <4>2
      <3> QED BY Zenon, <1>9, <3>1 DEF OneKey
    <2>6. ObjectsAreWhole'
      <3>1. ASSUME NEW j \in ObjectKeys, names[j] # 0  PROVE files'[names[j]] = files[names[j]]
        BY Zenon, <1>0, <2>0, <2>1, <3>1 DEF ObjectsTypeOK
      <3> QED BY Zenon, <1>3, <1>10, <3>1 DEF ObjectsInv, ObjectsAreWhole, Content
    <2> QED BY Zenon, <2>2, <2>3, <2>4, <2>5, <2>6 DEF ObjectsInv
  <1>12. CASE /\ threads'[t].state = "cleanup" /\ threads'[t].fd = 0 /\ UNCHANGED <<files, temps>>
    <2>1. ObjectsTypeOK'
      BY Zenon, <1>0, <1>3, <1>5, <1>8, <1>12 DEF ObjectsTypeOK
    <2>2. ASSUME NEW u \in PutThreads, u # t  PROVE OneThread(u)'
      <3>1. OneThread(u) /\ threads'[u] = threads[u]
        BY Zenon, <1>8, <2>2 DEF ObjectsInv
      <3>2. ASSUME NEW p \in PutThreads, threads'[p].fd # 0, threads'[p].fd = threads[u].fd
            PROVE  threads'[p].key = threads[u].key
        <4>1. threads'[p] = threads[p]
          BY Zenon, <1>8, <1>12, <3>2
        <4> QED BY Zenon, <3>1, <3>2, <4>1 DEF OneThread
      <3>3. ASSUME NEW j \in ObjectKeys, temps'[j] # 0, temps'[j] = threads[u].fd  PROVE j = threads[u].key
        BY Zenon, <1>12, <3>1, <3>3 DEF OneThread
      <3>4. ASSUME NEW j \in ObjectKeys  PROVE names'[j] = names[j]
        BY Zenon, <1>3
      <3> QED BY Zenon, <1>5, <1>12, <2>2, <3>1, <3>2, <3>3, <3>4, WriterFrame
    <2>3. OneThread(t)'
      BY Zenon, <1>12 DEF OneThread
    <2>4. ASSUME NEW j \in ObjectKeys  PROVE OneKey(j)'
      BY Zenon, <1>3, <1>9, <1>10, <1>12 DEF OneKey
    <2>5. ObjectsAreWhole'
      BY Zenon, <1>3, <1>10, <1>12 DEF ObjectsInv, ObjectsAreWhole, Content
    <2> QED BY Zenon, <2>1, <2>2, <2>3, <2>4, <2>5 DEF ObjectsInv
  <1>13. ASSUME threads' = [threads EXCEPT ![t].state = "opened", ![t].fd = i]
         PROVE  threads'[t].state = "opened" /\ threads'[t].fd = i
    BY Zenon, <1>0, <1>13 DEF ObjectsTypeOK
  <1>14. ASSUME threads' = [threads EXCEPT ![t].state = "cleanup"]
         PROVE  threads'[t].state = "cleanup" /\ threads'[t].fd = 0
    BY Zenon, <1>0, <1>6, <1>14 DEF ObjectsTypeOK
  <1> QED BY Zenon, <1>3, <1>11, <1>12, <1>13, <1>14

\* Two that write one key overlap.
LEMMA LoneWriter ==
    ASSUME ObjectsInv, NEW t \in PutThreads, NEW u \in PutThreads, u # t,
           threads[t].state \in {"opened", "half", "written", "cleanup"},
           threads[u].state \in {"opened", "half", "written", "cleanup"},
           threads[u].key = threads[t].key
    PROVE  threads[u].key \in overlapped
  <1>1. t \in Writing(threads[u].key) /\ u \in Writing(threads[u].key)
    BY Zenon DEF Writing
  <1>2. threads[u].key \in ObjectKeys
    BY Zenon DEF ObjectsInv, ObjectsTypeOK
  <1> QED BY Zenon, <1>1, <1>2 DEF ObjectsInv, OneKey

\* A thread with a file open is writing.
LEMMA OpenIsWriting ==
    ASSUME ObjectsInv, NEW t \in PutThreads, threads[t].fd # 0
    PROVE  threads[t].state \in {"opened", "half", "written", "cleanup"}
  <1>1. OneThread(t)
    BY Zenon DEF ObjectsInv
  <1>2. threads[t].state \in {"idle", "sent", "opened", "half", "written", "cleanup", "head"}
    BY Zenon DEF ObjectsInv, ObjectsTypeOK
  <1> QED BY Zenon, <1>1, <1>2 DEF OneThread

\* A writer goes on, gives up or ends: nobody else's file, temp file or object changes.
LEMMA WriterStep ==
    ASSUME ObjectsInv, NEW t \in PutThreads, NEW k, k = threads[t].key,
           threads[t].state \in {"opened", "half", "written", "cleanup"},
           UNCHANGED <<backend, grants, overlapped>>, ObjectsTypeOK', OneThread(t)', ObjectsAreWhole',
           \A u \in PutThreads : u # t => threads'[u] = threads[u],
           threads'[t].fd \in {0, threads[t].fd}, threads'[t].fd # 0 => threads'[t].key = k,
           threads'[t].state \in {"opened", "half", "written", "cleanup"} => threads'[t].key = k,
           \A j \in ObjectKeys : j # k => names'[j] = names[j] /\ temps'[j] = temps[j],
           \/ names'[k] = names[k] /\ temps'[k] \in {temps[k], 0}
           \/ names'[k] = temps[k] /\ temps'[k] = 0 /\ temps[k] # 0 /\ threads'[t].fd = 0,
           \A e \in Inodes : e # threads[t].fd => files'[e] = files[e]
    PROVE  ObjectsInv'
  <1>0. ObjectsTypeOK /\ OneThread(t) /\ k \in ObjectKeys
    BY Zenon DEF ObjectsInv, ObjectsTypeOK
  <1>1. ASSUME NEW u \in PutThreads, u # t  PROVE OneThread(u)'
    <2>1. OneThread(u) /\ threads'[u] = threads[u]
      BY Zenon, <1>1 DEF ObjectsInv
    <2>2. ASSUME threads[u].fd # 0, threads[u].key = k  PROVE k \in overlapped
      BY Zenon, <1>1, <2>2, OpenIsWriting, LoneWriter
    <2>3. ASSUME NEW p \in PutThreads, threads'[p].fd # 0, threads'[p].fd = threads[u].fd
          PROVE  threads'[p].key = threads[u].key
      <3>1. CASE p = t
        <4>1. threads[t].fd = threads[u].fd /\ threads[t].fd # 0 /\ threads'[t].key = k
          BY Zenon, <2>3, <3>1
        <4> QED BY Zenon, <1>0, <3>1, <4>1 DEF OneThread
      <3>2. CASE p # t
        <4>1. threads'[p] = threads[p]
          BY Zenon, <3>2
        <4> QED BY Zenon, <2>1, <2>3, <4>1 DEF OneThread
      <3> QED BY Zenon, <3>1, <3>2
    <2>4. ASSUME NEW j \in ObjectKeys, names'[j] # 0, names'[j] = threads[u].fd
          PROVE  names[j] = threads[u].fd \/ (j = threads[u].key /\ j \in overlapped)
      <3>1. CASE names'[j] = names[j]
        BY Zenon, <2>4, <3>1
      <3>2. CASE names'[j] # names[j]
        <4>1. j = k /\ temps[k] = threads[u].fd /\ threads[u].fd # 0
          BY Zenon, <2>4, <3>2
        <4>2. threads[u].key = k
          BY Zenon, <1>0, <2>1, <4>1 DEF OneThread
        <4> QED BY Zenon, <2>2, <4>1, <4>2
      <3> QED BY Zenon, <3>1, <3>2
    <2>5. ASSUME NEW j \in ObjectKeys, temps'[j] # 0, temps'[j] = threads[u].fd  PROVE j = threads[u].key
      <3>1. temps'[j] = temps[j]
        BY Zenon, <2>5
      <3> QED BY Zenon, <2>1, <2>5, <3>1 DEF OneThread
    <2>6. ASSUME threads[u].state \in {"opened", "half", "written"}, threads[u].key \notin overlapped
          PROVE  /\ temps'[threads[u].key] = temps[threads[u].key]
                 /\ files'[threads[u].fd] = files[threads[u].fd]
      <3>1. threads[u].key \in ObjectKeys /\ threads[u].fd # 0 /\ threads[u].fd \in Inodes
        BY Zenon, <1>0, <2>1, <2>6 DEF ObjectsTypeOK, OneThread
      <3>2. threads[u].key # k
        BY Zenon, <2>2, <2>6, <3>1
      <3>3. threads[u].fd # threads[t].fd
        BY Zenon, <1>0, <3>1, <3>2 DEF OneThread
      <3> QED BY Zenon, <3>1, <3>2, <3>3
    <2> QED BY Zenon, <1>1, <2>1, <2>3, <2>4, <2>5, <2>6, WriterFrame
  <1>2. ASSUME NEW j \in ObjectKeys  PROVE OneKey(j)'
    <2>1. OneKey(j)
      BY Zenon DEF ObjectsInv
    <2>2. ASSUME temps'[j] # 0, NEW h \in ObjectKeys
          PROVE  names'[h] # temps'[j] /\ (temps'[h] = temps'[j] => h = j)
      <3>1. temps'[j] = temps[j] /\ temps[j] # 0
        BY Zenon, <2>2
      <3>2. temps'[h] = temps'[j] => temps[h] = temps[j]
        BY Zenon, <2>2, <3>1
      <3>3. names[h] # temps[j] /\ (temps[h] = temps[j] => h = j)
        BY Zenon, <2>1, <3>1 DEF OneKey
      <3>4. names'[h] # names[h] => names'[h] # temps[j]
        <4> SUFFICES ASSUME names'[h] # names[h]  PROVE names'[h] # temps[j]
          BY Zenon
        <4>1. h = k /\ names'[h] = temps[h] /\ temps'[h] = 0
          BY Zenon
        <4> QED BY Zenon, <2>2, <3>1, <3>3, <4>1
      <3> QED BY Zenon, <3>1, <3>2, <3>3, <3>4
    <2>3. Writing(j)' \subseteq Writing(j)
      <3> SUFFICES ASSUME NEW u \in Writing(j)'  PROVE u \in Writing(j)
        BY Zenon
      <3>1. u \in PutThreads /\ threads'[u].key = j
            /\ threads'[u].state \in {"opened", "half", "written", "cleanup"}
        BY Zenon DEF Writing
      <3> QED BY Zenon, <3>1 DEF Writing
    <2> QED BY Zenon, <2>1, <2>2, <2>3 DEF OneKey
  <1> QED BY Zenon, <1>1, <1>2 DEF ObjectsInv

\* A put writes half of its bytes, or fails to.
LEMMA WriteStep ==
    ASSUME ObjectsInv, NEW t \in PutThreads, WriteHalf(t)
    PROVE  ObjectsInv'
  <1>0. ObjectsTypeOK /\ OneThread(t)
    BY Zenon DEF ObjectsInv
  <1>1. PICK fd : fd = threads[t].fd
    BY Zenon
  <1>2. PICK h : h = IF threads[t].state = "opened" THEN 1 ELSE 2
    BY Zenon
  <1>3. PICK k : k = threads[t].key
    BY Zenon
  <1>4. PICK d : d = threads[t].data
    BY Zenon
  <1>5. /\ threads[t].state \in {"opened", "half"}
        /\ UNCHANGED <<backend, names, temps, grants, kept, overlapped>>
        /\ \/ /\ files' = [files EXCEPT ![fd][h] = d]
              /\ threads' = [threads EXCEPT ![t].state = IF h = 1 THEN "half" ELSE "written"]
           \/ UNCHANGED files /\ threads' = [threads EXCEPT ![t].state = "cleanup"]
    BY Zenon, <1>1, <1>2, <1>4 DEF WriteHalf
  <1>6. fd \in Inodes /\ fd # 0 /\ k \in ObjectKeys /\ d \in Datas
    BY Zenon, <1>0, <1>1, <1>3, <1>4, <1>5 DEF ObjectsTypeOK, OneThread
  <1>7. PICK st \in {"half", "written", "cleanup"} :
            /\ threads' = [threads EXCEPT ![t].state = st, ![t].fd = fd]
            /\ st \in {"half", "written"} => files' = [files EXCEPT ![fd][h] = d]
            /\ st = "half" <=> (h = 1 /\ st # "cleanup")
            /\ st = "cleanup" => files' = files
    <2>1. ASSUME NEW st \in {"half", "written", "cleanup"}, threads' = [threads EXCEPT ![t].state = st]
          PROVE  threads' = [threads EXCEPT ![t].state = st, ![t].fd = fd]
      BY Zenon, <1>0, <1>1, <2>1 DEF ObjectsTypeOK
    <2>2. CASE UNCHANGED files /\ threads' = [threads EXCEPT ![t].state = "cleanup"]
      <3>1. threads' = [threads EXCEPT ![t].state = "cleanup", ![t].fd = fd]
        BY Zenon, <2>1, <2>2
      <3> QED BY Zenon, <2>2, <3>1
    <2>3. CASE /\ files' = [files EXCEPT ![fd][h] = d]
               /\ threads' = [threads EXCEPT ![t].state = IF h = 1 THEN "half" ELSE "written"]
      <3>1. CASE h = 1
        <4>1. threads' = [threads EXCEPT ![t].state = "half", ![t].fd = fd]
          BY Zenon, <2>1, <2>3, <3>1
        <4> QED BY Zenon, <2>3, <3>1, <4>1
      <3>2. CASE h # 1
        <4>1. threads' = [threads EXCEPT ![t].state = "written", ![t].fd = fd]
          BY Zenon, <2>1, <2>3, <3>2
        <4> QED BY Zenon, <2>3, <3>2, <4>1
      <3> QED BY Zenon, <3>1, <3>2
    <2> QED BY Zenon, <1>5, <2>2, <2>3
  <1>8. /\ \A u \in PutThreads : u # t => threads'[u] = threads[u]
        /\ threads'[t].state = st /\ threads'[t].fd = fd /\ threads'[t].key = k /\ threads'[t].data = d
        /\ threads' \in [PutThreads -> [state : {"idle", "sent", "opened", "half", "written", "cleanup", "head"},
                                   key : ObjectKeys, data : Datas \union {NoData}, fd : {0} \union Inodes]]
    <2>1. threads' = [threads EXCEPT ![t].state = st, ![t].fd = fd]
      BY Zenon, <1>7
    <2>2. /\ ObjectsTypeOK /\ fd \in {0} \union Inodes
          /\ st \in {"idle", "sent", "opened", "half", "written", "cleanup", "head"}
      BY Zenon, <1>0, <1>6
    <2>3. threads[t].key = k /\ threads[t].data = d
      BY Zenon, <1>3, <1>4
    <2> QED BY Zenon, <2>1, <2>2, <2>3, OneThreadChanges
  <1>9. /\ files' \in [Inodes -> (Datas \union {NoData}) \X (Datas \union {NoData})]
        /\ \A e \in Inodes : e # fd => files'[e] = files[e]
        /\ st # "cleanup" => /\ files'[fd][h] = d
                             /\ h = 2 => files'[fd][1] = files[fd][1]
        /\ files'[fd] = <<files'[fd][1], files'[fd][2]>>
    <2>1. CASE st = "cleanup"
      BY <1>0, <1>6, <1>7, <2>1 DEF ObjectsTypeOK
    <2>2. CASE files' = [files EXCEPT ![fd][h] = d]
      <3>1. h \in {1, 2} /\ files[fd] \in (Datas \union {NoData}) \X (Datas \union {NoData})
        BY Zenon, <1>0, <1>2, <1>6 DEF ObjectsTypeOK
      <3>2. h = 1 => files'[fd] = <<d, files[fd][2]>>
        BY <1>0, <1>6, <2>2, <3>1 DEF ObjectsTypeOK
      <3>3. h = 2 => files'[fd] = <<files[fd][1], d>>
        BY <1>0, <1>6, <2>2, <3>1 DEF ObjectsTypeOK
      <3>4. files'[fd] \in (Datas \union {NoData}) \X (Datas \union {NoData})
        BY <1>6, <3>1, <3>2, <3>3
      <3>5. DOMAIN files' = Inodes /\ files' = [e \in Inodes |-> files'[e]] /\ \A e \in Inodes : e # fd => files'[e] = files[e]
        BY Zenon, <1>0, <2>2 DEF ObjectsTypeOK
      <3>6. files' \in [Inodes -> (Datas \union {NoData}) \X (Datas \union {NoData})]
        BY Zenon, <1>0, <3>4, <3>5 DEF ObjectsTypeOK
      <3> QED BY <3>1, <3>2, <3>3, <3>5, <3>6
    <2> QED BY Zenon, <1>7, <2>1, <2>2
  <1>10. ObjectsTypeOK'
    BY Zenon, <1>0, <1>5, <1>8, <1>9 DEF ObjectsTypeOK
  <1>11. /\ \A j \in ObjectKeys : names[j] = fd => j = k /\ j \in overlapped
         /\ \A j \in ObjectKeys : temps[j] = fd => j = k
         /\ \A u \in PutThreads : threads[u].fd = fd => threads[u].key = k
         /\ k \notin overlapped => temps[k] = fd /\ (threads[t].state = "half" => files[fd][1] = d)
    BY Zenon, <1>0, <1>1, <1>3, <1>4, <1>5, <1>6 DEF OneThread
  <1>12. OneThread(t)'
    <2>1. \A u \in PutThreads : threads'[u].fd = fd => threads'[u].key = k
      BY Zenon, <1>8, <1>11
    <2>2. /\ \A j \in ObjectKeys : names'[j] = fd => j = k /\ j \in overlapped'
          /\ \A j \in ObjectKeys : temps'[j] = fd => j = k
          /\ k \notin overlapped' => temps'[k] = fd
      BY Zenon, <1>5, <1>11
    <2>3. ASSUME k \notin overlapped, st # "cleanup"
          PROVE  files'[fd][1] = d /\ (st = "written" => files'[fd] = <<d, d>>)
      BY Zenon, <1>2, <1>5, <1>7, <1>9, <1>11, <2>3
    <2> QED BY Zenon, <1>5, <1>6, <1>8, <2>1, <2>2, <2>3 DEF OneThread
  <1>13. ObjectsAreWhole'
    <2>1. ASSUME NEW j \in ObjectKeys \ overlapped, names[j] # 0  PROVE files'[names[j]] = files[names[j]]
      BY Zenon, <1>0, <1>9, <1>11, <2>1 DEF ObjectsTypeOK
    <2> QED BY Zenon, <1>5, <2>1 DEF ObjectsInv, ObjectsAreWhole, Content
  <1>14. /\ threads[t].state \in {"opened", "half", "written", "cleanup"}
         /\ threads'[t].fd \in {0, threads[t].fd}
         /\ \A j \in ObjectKeys : names'[j] = names[j] /\ temps'[j] = temps[j]
    BY Zenon, <1>1, <1>5, <1>8
  <1> QED BY Zenon, <1>1, <1>3, <1>5, <1>6, <1>8, <1>9, <1>10, <1>12, <1>13, <1>14, WriterStep

\* The temp file becomes the object.
LEMMA ReplaceStep ==
    ASSUME ObjectsInv, NEW t \in PutThreads, ReplaceFile(t)
    PROVE  ObjectsInv'
  <1>0. ObjectsTypeOK /\ OneThread(t)
    BY Zenon DEF ObjectsInv
  <1>1. PICK k : k = threads[t].key
    BY Zenon
  <1>2. PICK d : d = threads[t].data
    BY Zenon
  <1>3. /\ threads[t].state = "written" /\ threads' = [threads EXCEPT ![t].state = "cleanup", ![t].fd = 0]
        /\ UNCHANGED <<backend, files, grants, overlapped>>
        /\ \/ temps[k] = 0 /\ UNCHANGED <<names, temps, kept>>
           \/ /\ temps[k] # 0 /\ names' = [names EXCEPT ![k] = temps[k]] /\ temps' = [temps EXCEPT ![k] = 0]
              /\ kept' = [kept EXCEPT ![k] = d]
    BY Zenon, <1>1, <1>2 DEF ReplaceFile, Written
  <1>4. k \in ObjectKeys /\ d \in Datas
    BY Zenon, <1>0, <1>1, <1>2, <1>3 DEF ObjectsTypeOK, OneThread
  <1>5. /\ \A u \in PutThreads : u # t => threads'[u] = threads[u]
        /\ threads'[t].state = "cleanup" /\ threads'[t].fd = 0 /\ threads'[t].key = k
        /\ threads' \in [PutThreads -> [state : {"idle", "sent", "opened", "half", "written", "cleanup", "head"},
                                   key : ObjectKeys, data : Datas \union {NoData}, fd : {0} \union Inodes]]
    BY Zenon, <1>0, <1>1, <1>3, OneThreadChanges
  <1>6. OneThread(t)'
    BY Zenon, <1>5 DEF OneThread
  <1>7. threads[t].fd \in Inodes
        /\ (k \notin overlapped => temps[k] = threads[t].fd /\ temps[k] # 0 /\ files[temps[k]] = <<d, d>>)
    BY Zenon, <1>0, <1>1, <1>2, <1>3 DEF OneThread, ObjectsTypeOK
  <1>8. ObjectsTypeOK'
    <2>1. /\ names' \in [ObjectKeys -> {0} \union Inodes] /\ temps' \in [ObjectKeys -> {0} \union Inodes]
          /\ kept' \in [ObjectKeys -> Datas \union {NoData}]
      <3>1. CASE UNCHANGED <<names, temps, kept>>
        BY Zenon, <1>0, <3>1 DEF ObjectsTypeOK
      <3>2. CASE /\ names' = [names EXCEPT ![k] = temps[k]] /\ temps' = [temps EXCEPT ![k] = 0]
                 /\ kept' = [kept EXCEPT ![k] = d]
        BY Zenon, <1>0, <1>4, <3>2 DEF ObjectsTypeOK
      <3> QED BY Zenon, <1>3, <3>1, <3>2
    <2> QED BY Zenon, <1>0, <1>3, <1>5, <2>1 DEF ObjectsTypeOK
  <1>9. /\ \A j \in ObjectKeys : j # k => names'[j] = names[j] /\ temps'[j] = temps[j] /\ kept'[j] = kept[j]
        /\ \/ temps[k] = 0 /\ names'[k] = names[k] /\ temps'[k] = temps[k]
           \/ names'[k] = temps[k] /\ temps'[k] = 0 /\ temps[k] # 0 /\ kept'[k] = d
    BY Zenon, <1>0, <1>3, <1>4 DEF ObjectsTypeOK
  <1>10. ObjectsAreWhole'
    <2> SUFFICES ASSUME NEW j \in ObjectKeys \ overlapped
                 PROVE  IF kept'[j] = NoData THEN names'[j] = 0
                        ELSE names'[j] # 0 /\ files[names'[j]] = <<kept'[j], kept'[j]>>
      BY Zenon, <1>3 DEF ObjectsAreWhole, Content
    <2>1. CASE j = k
      BY Zenon, <1>4, <1>7, <1>9, <2>1, ObjectsAssumption
    <2>2. CASE j # k
      BY Zenon, <1>9, <2>2 DEF ObjectsInv, ObjectsAreWhole, Content
    <2> QED BY Zenon, <2>1, <2>2
  <1>11. threads[t].state \in {"opened", "half", "written", "cleanup"} /\ threads'[t].fd \in {0, threads[t].fd}
         /\ \A e \in Inodes : files'[e] = files[e]
    BY Zenon, <1>3, <1>5
  <1>12. \/ names'[k] = names[k] /\ temps'[k] \in {temps[k], 0}
         \/ names'[k] = temps[k] /\ temps'[k] = 0 /\ temps[k] # 0 /\ threads'[t].fd = 0
    BY Zenon, <1>5, <1>9
  <1>13. UNCHANGED <<backend, grants, overlapped>>
    BY Zenon, <1>3
  <1>14. /\ \A u \in PutThreads : u # t => threads'[u] = threads[u]
         /\ threads'[t].key = k
         /\ \A j \in ObjectKeys : j # k => names'[j] = names[j] /\ temps'[j] = temps[j]
    BY Zenon, <1>5, <1>9
  <1> QED BY Zenon, <1>1, <1>6, <1>8, <1>10, <1>11, <1>12, <1>13, <1>14, WriterStep

\* The temp file is removed.
LEMMA UnlinkStep ==
    ASSUME ObjectsInv, NEW t \in PutThreads, UnlinkTemp(t)
    PROVE  ObjectsInv'
  <1>0. ObjectsTypeOK
    BY Zenon DEF ObjectsInv
  <1>1. PICK k : k = threads[t].key
    BY Zenon
  <1>2. /\ threads[t].state = "cleanup" /\ temps' = [temps EXCEPT ![k] = 0]
        /\ threads' = [threads EXCEPT ![t] = NoThread]
        /\ UNCHANGED <<backend, names, files, grants, kept, overlapped>>
    BY Zenon, <1>1 DEF UnlinkTemp
  <1>3. /\ NoThread \in [state : {"idle", "sent", "opened", "half", "written", "cleanup", "head"},
                         key : ObjectKeys, data : Datas \union {NoData}, fd : {0} \union Inodes]
        /\ NoThread.state = "idle" /\ NoThread.fd = 0
    BY Zenon, ObjectsAssumption DEF NoThread
  <1>4. /\ threads'[t].state = "idle" /\ threads'[t].fd = 0
        /\ \A u \in PutThreads : u # t => threads'[u] = threads[u]
    BY Zenon, <1>0, <1>2, <1>3 DEF ObjectsTypeOK
  <1>5. ObjectsTypeOK'
    BY Zenon, <1>0, <1>2, <1>3 DEF ObjectsTypeOK
  <1>6. OneThread(t)'
    BY Zenon, <1>4 DEF OneThread
  <1>7. ObjectsAreWhole'
    BY Zenon, <1>2 DEF ObjectsInv, ObjectsAreWhole, Content
  <1>8. k \in ObjectKeys
    BY Zenon, <1>0, <1>1 DEF ObjectsTypeOK
  <1>9. /\ threads[t].state \in {"opened", "half", "written", "cleanup"}
        /\ threads'[t].fd \in {0, threads[t].fd}
        /\ threads'[t].state \notin {"opened", "half", "written", "cleanup"}
        /\ \A j \in ObjectKeys : names'[j] = names[j] /\ (j # k => temps'[j] = temps[j])
        /\ temps'[k] = 0 /\ \A e \in Inodes : files'[e] = files[e]
    BY Zenon, <1>0, <1>2, <1>4, <1>8 DEF ObjectsTypeOK
  <1>10. UNCHANGED <<backend, grants, overlapped>> /\ temps'[k] \in {temps[k], 0} /\ names'[k] = names[k]
    BY Zenon, <1>2, <1>8, <1>9
  <1>11. /\ threads'[t].fd # 0 => threads'[t].key = k
         /\ threads'[t].state \in {"opened", "half", "written", "cleanup"} => threads'[t].key = k
    BY Zenon, <1>4
  <1>12. /\ \A j \in ObjectKeys : j # k => names'[j] = names[j] /\ temps'[j] = temps[j]
         /\ \A e \in Inodes : e # threads[t].fd => files'[e] = files[e]
    BY Zenon, <1>9
  <1>13. \A u \in PutThreads : u # t => threads'[u] = threads[u]
    BY Zenon, <1>4
  <1>14. threads[t].state \in {"opened", "half", "written", "cleanup"} /\ threads'[t].fd \in {0, threads[t].fd}
    BY Zenon, <1>9
  <1> QED BY Zenon, <1>1, <1>5, <1>6, <1>7, <1>10, <1>11, <1>12, <1>13, <1>14, WriterStep

\* Every step keeps the invariant.
LEMMA ObjectsStep == ObjectsInv /\ [ObjectsNext]_objectVars => ObjectsInv'
  <1> SUFFICES ASSUME ObjectsInv, [ObjectsNext]_objectVars  PROVE ObjectsInv'
    BY Zenon
  <1>0. ObjectsTypeOK
    BY Zenon DEF ObjectsInv
  <1>a. /\ NoThread \in [state : {"idle", "sent", "opened", "half", "written", "cleanup", "head"},
                         key : ObjectKeys, data : Datas \union {NoData}, fd : {0} \union Inodes]
        /\ NoThread.state = "idle" /\ NoThread.fd = 0
    BY Zenon, ObjectsAssumption DEF NoThread
  <1>b. ASSUME NEW t \in PutThreads, threads[t].state \in {"idle", "sent", "head"},
               NEW th \in [state : {"idle", "sent", "head"}, key : ObjectKeys,
                           data : Datas \union {NoData}, fd : {0}],
               th.state = "sent" => th.data \in Datas, threads' = [threads EXCEPT ![t] = th]
        PROVE  QuietThreads
    <2>1. /\ th \in [state : {"idle", "sent", "opened", "half", "written", "cleanup", "head"},
                         key : ObjectKeys, data : Datas \union {NoData}, fd : {0} \union Inodes]
          /\ th.state \in {"idle", "sent", "head"} /\ th.fd = 0
      BY Zenon, <1>b
    <2> QED BY Zenon, <1>0, <1>b, <2>1 DEF QuietThreads, ObjectsTypeOK
  <1>c. NoThread \in [state : {"idle", "sent", "head"}, key : ObjectKeys, data : Datas \union {NoData}, fd : {0}]
    BY Zenon, ObjectsAssumption DEF NoThread
  <1>d. threads' = threads => QuietThreads
    BY Zenon, <1>0 DEF QuietThreads, ObjectsTypeOK
  <1>1. CASE UNCHANGED objectVars
    <2>1. /\ backend' = backend /\ names' = names /\ temps' = temps /\ files' = files /\ threads' = threads
          /\ grants' = grants /\ kept' = kept /\ overlapped' = overlapped
      BY Zenon, <1>1 DEF objectVars
    <2>2. ObjectsTypeOK' /\ ObjectsAreWhole'
      BY Zenon, <2>1 DEF ObjectsInv, ObjectsTypeOK, ObjectsAreWhole, Content
    <2>3. ASSUME NEW t \in PutThreads  PROVE OneThread(t)'
      BY Zenon, <2>1 DEF ObjectsInv, OneThread
    <2>4. ASSUME NEW k \in ObjectKeys  PROVE OneKey(k)'
      <3>1. Writing(k)' = Writing(k) /\ OneKey(k)
        BY Zenon, <2>1 DEF Writing, ObjectsInv
      <3> QED BY Zenon, <2>1, <3>1 DEF OneKey
    <2> QED BY Zenon, <2>2, <2>3, <2>4 DEF ObjectsInv
  <1>2. ASSUME NEW t \in PutThreads, S3Put(t)  PROVE ObjectsInv'
    <2>1. /\ threads[t].state = "sent" /\ threads' = [threads EXCEPT ![t] = NoThread]
          /\ PublishObject(threads[t].key, threads[t].data) \/ UNCHANGED <<names, files, kept>>
          /\ UNCHANGED <<backend, temps, grants, overlapped>>
      BY Zenon, <1>2 DEF S3Put
    <2>2. threads[t].key \in ObjectKeys /\ threads[t].data \in Datas
      BY Zenon, <1>0, <2>1 DEF ObjectsInv, ObjectsTypeOK, OneThread
    <2>3. QuietThreads
      BY Zenon, <1>a, <1>b, <1>c, <2>1
    <2>4. grants' \subseteq [owner : Owners, key : ObjectKeys]
      BY Zenon, <1>0, <2>1 DEF ObjectsTypeOK
    <2> QED BY Zenon, <2>1, <2>2, <2>3, <2>4, StoreStep
  <1>3. ASSUME NEW t \in PutThreads, S3Delete(t)  PROVE ObjectsInv'
    <2>1. /\ threads[t].state = "head" /\ threads' = [threads EXCEPT ![t] = NoThread]
          /\ \/ /\ names' = [names EXCEPT ![threads[t].key] = 0]
                /\ kept' = [kept EXCEPT ![threads[t].key] = NoData]
             \/ UNCHANGED <<names, kept>>
          /\ UNCHANGED <<backend, temps, files, grants, overlapped>>
      BY Zenon, <1>3 DEF S3Delete
    <2>2. threads[t].key \in ObjectKeys
      BY Zenon, <1>0 DEF ObjectsTypeOK
    <2>3. QuietThreads
      BY Zenon, <1>a, <1>b, <1>c, <2>1
    <2>4. grants' \subseteq [owner : Owners, key : ObjectKeys]
      BY Zenon, <1>0, <2>1 DEF ObjectsTypeOK
    <2> QED BY Zenon, <2>1, <2>2, <2>3, <2>4, StoreStep
  <1>4. ASSUME NEW t \in PutThreads, NEW k \in ObjectKeys, Delete(t, k)  PROVE ObjectsInv'
    <2>1. /\ threads[t].state = "idle"
          /\ \/ /\ threads' = [threads EXCEPT ![t] = [NoThread EXCEPT !.state = "head", !.key = k]]
                /\ UNCHANGED <<names, kept>>
             \/ /\ names' = [names EXCEPT ![k] = 0] /\ kept' = [kept EXCEPT ![k] = NoData]
                /\ UNCHANGED threads
          /\ UNCHANGED <<backend, temps, files, grants, overlapped>>
      BY Zenon, <1>4 DEF Delete
    <2>2. QuietThreads
      <3>1. PICK th : th = [NoThread EXCEPT !.state = "head", !.key = k]
        BY Zenon
      <3>2. th \in [state : {"idle", "sent", "head"}, key : ObjectKeys, data : Datas \union {NoData}, fd : {0}]
            /\ th.state # "sent"
        BY Zenon, <1>c, <3>1
      <3>3. CASE threads' = [threads EXCEPT ![t] = th]
        BY Zenon, <1>b, <2>1, <3>2, <3>3
      <3> QED BY Zenon, <1>d, <2>1, <3>1, <3>3
    <2>3. grants' \subseteq [owner : Owners, key : ObjectKeys]
      BY Zenon, <1>0, <2>1 DEF ObjectsTypeOK
    <2> QED BY Zenon, <2>1, <2>2, <2>3, StoreStep
  <1>5. ASSUME NEW t \in PutThreads, NEW k \in ObjectKeys, NEW d \in Datas, Put(t, k, d)  PROVE ObjectsInv'
    <2> DEFINE th == [state |-> "sent", key |-> k, data |-> d, fd |-> 0]
    <2>1. /\ threads[t].state = "idle"
          /\ \/ PublishObject(k, d) /\ threads' = threads
             \/ threads' = [threads EXCEPT ![t] = th] /\ UNCHANGED <<names, files, kept>>
          /\ UNCHANGED <<backend, temps, grants, overlapped>>
      BY Zenon, <1>5 DEF Put
    <2>2. th \in [state : {"idle", "sent", "head"}, key : ObjectKeys, data : Datas \union {NoData}, fd : {0}]
          /\ th.data \in Datas
      BY Zenon
    <2> HIDE DEF th
    <2>3. QuietThreads
      BY Zenon, <1>b, <1>d, <2>1, <2>2
    <2>4. grants' \subseteq [owner : Owners, key : ObjectKeys]
      BY Zenon, <1>0, <2>1 DEF ObjectsTypeOK
    <2> QED BY Zenon, <2>1, <2>3, <2>4, StoreStep
  <1>6. ASSUME NEW o \in Owners, NEW k \in ObjectKeys, PresignUpload(o, k)  PROVE ObjectsInv'
    <2>1. /\ grants' = grants \union {[owner |-> o, key |-> k]}
          /\ UNCHANGED <<backend, names, temps, files, threads, kept, overlapped>>
      BY Zenon, <1>6 DEF PresignUpload
    <2>2. grants' \subseteq [owner : Owners, key : ObjectKeys]
      BY <1>0, <2>1 DEF ObjectsTypeOK
    <2> QED BY Zenon, <1>d, <2>1, <2>2, StoreStep
  <1>7. ASSUME NEW g \in grants, NEW d \in Datas, PostUpload(g, d)  PROVE ObjectsInv'
    <2>1. /\ PublishObject(g.key, d) /\ grants' \subseteq grants
          /\ UNCHANGED <<backend, temps, threads, overlapped>>
      BY Zenon, <1>7 DEF PostUpload
    <2>2. g.key \in ObjectKeys /\ grants' \subseteq [owner : Owners, key : ObjectKeys]
      BY Zenon, <1>0, <2>1 DEF ObjectsTypeOK
    <2> QED BY Zenon, <1>d, <2>1, <2>2, StoreStep
  <1> QED BY Zenon, <1>1, <1>2, <1>3, <1>4, <1>5, <1>6, <1>7, OpenStep, WriteStep, ReplaceStep, UnlinkStep
          DEF ObjectsNext

-----------------------------------------------------------------------------
(* Payments: callers, the wire and the provider.                           *)

PayRecords == [state : {"idle", "token", "ready", "sent", "answered"}, ask : Operations, attempt : 1..2,
               n : Nat, answer : Answers, amount : Nat]

\* A request has a number of its own, which is that of what it makes.
NumbersInv ==
    /\ sends \in Nat /\ standing \in [Numbers -> Standings]
    /\ \A r \in wire : r.n \in Numbers /\ r.n <= sends
    /\ \A m \in made : m.n \in Numbers /\ m.n <= sends
    /\ \A r \in wire, m \in made : r.n # m.n
    /\ \A a, b \in wire : a.n = b.n => a = b
    /\ \A n \in Numbers : standing[n] # "none" => \E m \in made : m.n = n

\* What was made has its key at the provider, a key that stands for one operation, or the key
\* has lapsed.
ProviderInv ==
    /\ \A r \in wire : r.ask \in Operations /\ r.key = Key(r.ask)
    /\ \A m \in made : m.ask \in Operations /\ m.key = Key(m.ask) /\ (m \in remembered \/ m.key \in lapsed)
    /\ remembered \subseteq made
    /\ \A a, b \in remembered : a.key = b.key => a = b

\* A success was reported of what had settled.
ReportsTrue(p) ==
    p.answer = "succeeded" => HasSettled(p.ask) /\ (p.ask.op # "get" => p.amount = p.ask.size)

\* The request that a caller waits for, if it is still on its way, is its own.
PayersInv ==
    /\ pays \in [Payers -> PayRecords]
    /\ \A c \in Payers :
        /\ pays[c].n <= sends /\ ReportsTrue(pays[c])
        /\ \A r \in wire : pays[c].state = "sent" /\ pays[c].n = r.n => pays[c].ask = r.ask

PaymentsInv == NumbersInv /\ ProviderInv /\ PayersInv

\* The invariant is what the gateway promises.
LEMMA PaidOnce == PaymentsInv => ChargedOnce
  <1> SUFFICES ASSUME PaymentsInv  PROVE ChargedOnce
    BY Zenon
  <1>1. ASSUME NEW a \in made, NEW b \in made, a.ask = b.ask, a # b  PROVE a.key \in lapsed \/ b.key \in lapsed
    BY Zenon, <1>1 DEF PaymentsInv, ProviderInv
  <1>2. ASSUME NEW c \in Payers  PROVE ReportsTrue(pays[c])
    BY Zenon DEF PaymentsInv, PayersInv
  <1> QED BY Zenon, <1>1, <1>2 DEF ChargedOnce, ReportsTrue

\* An operation and its parts.
LEMMA OperationParts ==
    ASSUME NEW o \in Operations
    PROVE  o.op \in {"charge", "get", "refund"} /\ o.size \in Sizes0
  BY Zenon DEF Operations, Sizes0

\* Keys of different operations differ.
LEMMA KeysDiffer ==
    ASSUME NEW o \in Operations, NEW q \in Operations, Key(o) = Key(q)
    PROVE  o = q
  <1>1. o.op = q.op /\ o.of = q.of
    BY Zenon DEF Key
  <1>2. o.op # "charge" => o.size = q.size
    BY Zenon, <1>1 DEF Key
  <1>3. o.op = "charge" => o.size = q.size
    <2>1. \A x \in Operations : x.op = "charge" => x.size = Price
      <3>1. "charge" # "refund" /\ "charge" # "get"
        BY Zenon
      <3> QED BY <3>1 DEF Operations
    <2> QED BY Zenon, <1>1, <2>1
  <1>4. o = [op |-> o.op, of |-> o.of, size |-> o.size] /\ q = [op |-> q.op, of |-> q.of, size |-> q.size]
    BY DEF Operations
  <1> QED BY Zenon, <1>1, <1>2, <1>3, <1>4

\* However the provider writes the amount, it is read as it was sent.
LEMMA AmountReturns ==
    ASSUME NEW z \in Nat \ {0}, NEW d \in Rendered(ToDecimal(z))
    PROVE  FromDecimal(d) = z
  <1>0. d.digits \in Nat /\ d.scale \in 0..(Exponent + 1)
    BY PaymentsAssumption DEF Rendered, ToDecimal
  <1>1. d.digits * 10^(Exponent + 1 - d.scale) = z * 10
    BY Zenon DEF Rendered, ToDecimal
  <1>2. CASE d.scale <= Exponent
    <2>1. PICK n : n = Exponent - d.scale
      BY Zenon
    <2>2. n \in 0..Exponent /\ Exponent + 1 - d.scale = n + 1
      BY <1>0, <1>2, <2>1, PaymentsAssumption
    <2>3. PICK p : p = 10^n
      BY Zenon
    <2>4. p \in Nat /\ 10^(n + 1) = 10 * p
      BY Zenon, <2>2, <2>3, PowersOfTen
    <2>5. d.digits * (10 * p) = z * 10
      BY Zenon, <1>1, <2>2, <2>4
    <2>6. d.digits * p = z
      BY <1>0, <2>4, <2>5, PaymentsAssumption
    <2> QED BY Zenon, <1>2, <2>1, <2>3, <2>6 DEF FromDecimal
  <1>3. CASE d.scale = Exponent + 1
    <2>1. Exponent + 1 - d.scale = 0 /\ d.scale - Exponent = 1 /\ ~(d.scale <= Exponent)
      BY <1>3, PaymentsAssumption
    <2>2. 10^1 = 10 /\ 10^0 = 1
      BY PowersOfTen, PaymentsAssumption
    <2>a. 10^(Exponent + 1 - d.scale) = 1
      BY Zenon, <2>1, <2>2
    <2>b. d.digits * 1 = z * 10
      BY Zenon, <1>1, <2>a
    <2>3. d.digits = z * 10
      BY <1>0, <2>b, PaymentsAssumption
    <2>4. d.digits % 10 = 0 /\ d.digits \div 10 = z
      BY <2>3, PaymentsAssumption
    <2> QED BY Zenon, <2>1, <2>2, <2>4 DEF FromDecimal
  <1>4. d.scale <= Exponent \/ d.scale = Exponent + 1
    BY <1>0, PaymentsAssumption
  <1> QED BY Zenon, <1>2, <1>3, <1>4

\* The amount that is read is the one that was asked for.
LEMMA AmountAsked ==
    ASSUME NEW r, r.ask \in Operations, NEW m \in Amounts(r)
    PROVE  m = r.ask.size /\ m \in Nat
  <1>1. PICK z : z = r.ask.size
    BY Zenon
  <1>2. z \in Sizes0
    BY Zenon, <1>1, OperationParts
  <1>3. z \in Nat /\ 0 \in Nat
    BY <1>2, PaymentsAssumption DEF Sizes0, None
  <1>4. CASE z = None
    BY Zenon, <1>1, <1>3, <1>4 DEF Amounts, None
  <1>5. CASE z # None
    <2>1. z \in Nat \ {0}
      BY Zenon, <1>3, <1>5 DEF None
    <2>2. PICK d \in Rendered(ToDecimal(z)) : m = FromDecimal(d)
      BY Zenon, <1>1, <1>5 DEF Amounts
    <2> QED BY Zenon, <1>1, <1>3, <2>1, <2>2, AmountReturns
  <1> QED BY Zenon, <1>4, <1>5

\* Nothing is charged at first.
LEMMA PaymentsStart == PaymentsInit => PaymentsInv
  <1> SUFFICES ASSUME PaymentsInit  PROVE PaymentsInv
    BY Zenon
  <1>1. PICK o : o = CHOOSE x \in Operations : TRUE
    BY Zenon
  <1>2. o \in Operations
    <2>1. \E x : x \in Operations
      <3>1. PICK q : q \in Orders
        BY Zenon, PaymentsAssumption
      <3>2. [op |-> "charge", of |-> q, size |-> Price] \in Operations
        BY Zenon, <3>1 DEF Operations
      <3> QED BY Zenon, <3>2
    <2> QED BY Zenon, <1>1, <2>1
  <1>3. PICK p : p = [state |-> "idle", ask |-> o, attempt |-> 1, n |-> 0, answer |-> "none", amount |-> 0]
    BY Zenon
  <1>4. p \in PayRecords /\ p.n = 0 /\ p.answer = "none" /\ p.state = "idle"
    BY <1>2, <1>3 DEF PayRecords, Answers
  <1>5. pays = [c \in Payers |-> p]
    BY Zenon, <1>1, <1>3 DEF PaymentsInit
  <1>6. sends = 0 /\ wire = {} /\ made = {} /\ remembered = {} /\ 0 \in Nat /\ 0 <= 0
    BY DEF PaymentsInit
  <1>7. NumbersInv /\ ProviderInv
    BY Zenon, <1>6 DEF PaymentsInit, NumbersInv, ProviderInv, Standings
  <1>8. ASSUME NEW c \in Payers  PROVE pays[c] = p /\ ReportsTrue(pays[c])
    BY Zenon, <1>4, <1>5 DEF ReportsTrue
  <1>9. PayersInv
    BY Zenon, <1>4, <1>5, <1>6, <1>8 DEF PayersInv
  <1> QED BY Zenon, <1>7, <1>9 DEF PaymentsInv

\* What was made stays, and what has settled stays so.
MadeKept == made \subseteq made' /\ \A m \in made : standing[m.n] = "settled" => standing'[m.n] = "settled"

\* A report of a success stays true.
LEMMA ReportsStay ==
    ASSUME MadeKept, NEW p, ReportsTrue(p)
    PROVE  ReportsTrue(p)'
  <1>1. ASSUME HasSettled(p.ask)  PROVE HasSettled(p.ask)'
    <2>1. PICK m \in made : /\ standing[m.n] = "settled"
                            /\ IF p.ask.op = "get" THEN m.ask.op = "charge" /\ m.n = p.ask.of ELSE m.ask = p.ask
      BY Zenon, <1>1 DEF HasSettled
    <2>2. m \in made' /\ standing'[m.n] = "settled"
      BY Zenon, <2>1 DEF MadeKept
    <2> QED BY Zenon, <2>1, <2>2 DEF HasSettled
  <1> QED BY Zenon, <1>1 DEF ReportsTrue

\* One caller changes, and not to waiting.
LEMMA PayerStep ==
    ASSUME PayersInv, MadeKept, wire' \subseteq wire, sends' = sends, NEW c \in Payers, NEW p \in PayRecords,
           pays' = [pays EXCEPT ![c] = p], p.n <= sends, p.state # "sent", ReportsTrue(p)'
    PROVE  PayersInv'
  <1>1. pays' \in [Payers -> PayRecords] /\ pays'[c] = p /\ \A b \in Payers : b # c => pays'[b] = pays[b]
    BY Zenon DEF PayersInv
  <1>2. ASSUME NEW b \in Payers
        PROVE  /\ pays'[b].n <= sends' /\ ReportsTrue(pays[b])'
               /\ \A r \in wire' : pays'[b].state = "sent" /\ pays'[b].n = r.n => pays'[b].ask = r.ask
    <2>1. CASE b = c
      BY Zenon, <1>1, <2>1 DEF ReportsTrue
    <2>2. CASE b # c
      <3>1. pays'[b] = pays[b] /\ pays[b] \in PayRecords
        BY Zenon, <1>1, <2>2 DEF PayersInv
      <3>2. ReportsTrue(pays[b]) /\ pays[b].n <= sends
            /\ \A r \in wire : pays[b].state = "sent" /\ pays[b].n = r.n => pays[b].ask = r.ask
        BY Zenon DEF PayersInv
      <3>3. ReportsTrue(pays[b])'
        <4>1. PICK q : q = pays[b]
          BY Zenon
        <4>2. ReportsTrue(q)'
          BY Zenon, <3>1, <3>2, <4>1, ReportsStay
        <4> QED BY Zenon, <3>1, <4>1, <4>2
      <3> QED BY Zenon, <3>1, <3>2, <3>3
    <2> QED BY Zenon, <2>1, <2>2
  <1> QED BY Zenon, <1>1, <1>2 DEF PayersInv

\* The answer to a request is given to the caller that waits for it, if any.
LEMMA ResponseStep ==
    ASSUME PayersInv, sends \in Nat, MadeKept, wire' \subseteq wire, sends' = sends, NEW r \in wire,
           NEW a \in Answers, NEW m \in Nat, Respond(r, a, m),
           a = "succeeded" => HasSettled(r.ask)' /\ (r.ask.op # "get" => m = r.ask.size)
    PROVE  PayersInv'
  <1>1. CASE Waiting0(r) = {}
    <2>1. pays' = pays
      BY Zenon, <1>1 DEF Respond
    <2>2. ASSUME NEW c \in Payers  PROVE ReportsTrue(pays[c])'
      <3>1. PICK q : q = pays[c]
        BY Zenon
      <3>2. q \in PayRecords /\ ReportsTrue(q)
        BY Zenon, <3>1 DEF PayersInv
      <3>3. ReportsTrue(q)'
        BY Zenon, <3>2, ReportsStay
      <3> QED BY Zenon, <2>1, <3>1, <3>3
    <2> QED BY Zenon, <2>1, <2>2 DEF PayersInv
  <1>2. CASE Waiting0(r) # {}
    <2>1. PICK c : c = CHOOSE b \in Waiting0(r) : TRUE
      BY Zenon
    <2>2. /\ c \in Payers /\ pays[c].state = "sent" /\ pays[c].n = r.n
          /\ pays' = [pays EXCEPT ![c] = [@ EXCEPT !.state = "answered", !.attempt = 1, !.n = 0,
                                                !.answer = a, !.amount = m]]
      BY Zenon, <1>2, <2>1 DEF Waiting0, Respond, AnswerPay
    <2>3. pays[c] \in PayRecords /\ pays[c].ask = r.ask
      BY Zenon, <2>2 DEF PayersInv
    <2>4. PICK p : p = [pays[c] EXCEPT !.state = "answered", !.attempt = 1, !.n = 0, !.answer = a, !.amount = m]
      BY Zenon
    <2>5. /\ p \in PayRecords /\ p.state # "sent" /\ p.n <= sends /\ p.ask = r.ask
          /\ p.answer = a /\ p.amount = m
      <3>1. p = [state |-> "answered", ask |-> pays[c].ask, attempt |-> 1, n |-> 0, answer |-> a, amount |-> m]
        BY Zenon, <2>3, <2>4 DEF PayRecords
      <3>2. pays[c].ask \in Operations
        BY Zenon, <2>3 DEF PayRecords
      <3>3. p \in PayRecords
        BY <3>1, <3>2 DEF PayRecords
      <3>4. 0 <= sends
        BY ONLY sends \in Nat, SMT
      <3> QED BY Zenon, <2>3, <3>1, <3>3, <3>4
    <2>6. pays' = [pays EXCEPT ![c] = p]
      BY Zenon, <2>2, <2>4 DEF PayersInv
    <2>7. ReportsTrue(p)'
      BY Zenon, <2>5 DEF ReportsTrue
    <2> QED BY Zenon, <2>2, <2>3, <2>5, <2>6, <2>7, PayerStep
  <1> QED BY Zenon, <1>1, <1>2

\* A success is read only from the word for a settled payment.
LEMMA SuccessWord ==
    ASSUME NEW s \in Standings, NEW w \in Words(s)
    PROVE  StatusOf(w) \in Answers /\ (StatusOf(w) = "succeeded" => s = "settled")
  BY Zenon DEF Words, StatusOf, Answers, Statuses, Standings

\* The provider does nothing, or a request is gone.
LEMMA ProviderSame ==
    ASSUME NumbersInv, ProviderInv, wire' \subseteq wire, UNCHANGED <<sends, made, standing, remembered, lapsed>>
    PROVE  NumbersInv' /\ ProviderInv' /\ MadeKept
  <1>1. NumbersInv'
    BY Zenon DEF NumbersInv
  <1>2. ProviderInv' /\ MadeKept
    BY Zenon DEF ProviderInv, MadeKept
  <1> QED BY Zenon, <1>1, <1>2

\* A request is carried out, under a key that is not known.
LEMMA MakeStep ==
    ASSUME PaymentsInv, NEW r \in wire, r.ask.op # "get", Make(r), wire' = wire \ {r},
           sends' = sends, lapsed' = lapsed
    PROVE  PaymentsInv'
  <1>0. NumbersInv /\ ProviderInv /\ PayersInv
    BY Zenon DEF PaymentsInv
  <1>1. /\ r.n \in Numbers /\ r.n <= sends /\ r.ask \in Operations /\ r.key = Key(r.ask)
        /\ standing \in [Numbers -> Standings] /\ wire' \subseteq wire /\ sends \in Nat
    BY Zenon, <1>0 DEF NumbersInv, ProviderInv
  <1>2. PICK s \in {"processing", "settled", "voided"} : \E w \in Words(s), m \in Amounts(r) :
             standing' = [standing EXCEPT ![r.n] = s] /\ Respond(r, StatusOf(w), m)
    BY Zenon DEF Make
  <1>3. PICK w \in Words(s), m \in Amounts(r) :
             standing' = [standing EXCEPT ![r.n] = s] /\ Respond(r, StatusOf(w), m)
    BY Zenon, <1>2
  <1>4. s \in Standings
    BY Zenon, <1>2 DEF Standings
  <1>5. /\ standing' \in [Numbers -> Standings] /\ standing'[r.n] = s
        /\ \A n \in Numbers : n # r.n => standing'[n] = standing[n]
    BY Zenon, <1>1, <1>3, <1>4
  <1>6. made' = made \union {r} /\ remembered' = remembered \union {r} /\ \A x \in remembered : x.key # r.key
    BY Zenon DEF Make, NewKey
  <1>7. MadeKept
    BY Zenon, <1>0, <1>5, <1>6 DEF NumbersInv, MadeKept
  <1>8. NumbersInv'
    <2>1. \A x \in made' : x.n \in Numbers /\ x.n <= sends'
      BY Zenon, <1>0, <1>1, <1>6 DEF NumbersInv
    <2>2. ASSUME NEW x \in wire', NEW y \in made'  PROVE x.n # y.n
      <3>1. x \in wire /\ x # r
        BY Zenon
      <3>2. CASE y \in made
        BY Zenon, <1>0, <3>1, <3>2 DEF NumbersInv
      <3>3. CASE y = r
        BY Zenon, <1>0, <3>1, <3>3 DEF NumbersInv
      <3> QED BY Zenon, <1>6, <3>2, <3>3
    <2>3. ASSUME NEW n \in Numbers, standing'[n] # "none"  PROVE \E x \in made' : x.n = n
      <3>1. CASE n = r.n
        BY Zenon, <1>6, <3>1
      <3>2. CASE n # r.n
        BY Zenon, <1>0, <1>5, <1>6, <2>3, <3>2 DEF NumbersInv
      <3> QED BY Zenon, <3>1, <3>2
    <2>4. (\A x \in wire' : x.n \in Numbers /\ x.n <= sends') /\ (\A x, y \in wire' : x.n = y.n => x = y)
      BY Zenon, <1>0, <1>1 DEF NumbersInv
    <2> QED BY Zenon, <1>1, <1>5, <2>1, <2>2, <2>3, <2>4 DEF NumbersInv
  <1>9. ProviderInv'
    <2>1. ASSUME NEW x \in made'
          PROVE  x.ask \in Operations /\ x.key = Key(x.ask) /\ (x \in remembered' \/ x.key \in lapsed')
      BY Zenon, <1>0, <1>1, <1>6 DEF ProviderInv
    <2>2. ASSUME NEW x \in remembered', NEW y \in remembered', x.key = y.key  PROVE x = y
      BY Zenon, <1>0, <1>6, <2>2 DEF ProviderInv
    <2>3. remembered' \subseteq made' /\ \A x \in wire' : x.ask \in Operations /\ x.key = Key(x.ask)
      BY Zenon, <1>0, <1>1, <1>6 DEF ProviderInv
    <2> QED BY Zenon, <2>1, <2>2, <2>3 DEF ProviderInv
  <1>10. PayersInv'
    <2>1. StatusOf(w) \in Answers /\ (StatusOf(w) = "succeeded" => s = "settled")
      BY Zenon, <1>3, <1>4, SuccessWord
    <2>2. m = r.ask.size /\ m \in Nat
      BY Zenon, <1>1, <1>3, AmountAsked
    <2>3. s = "settled" => HasSettled(r.ask)'
      BY Zenon, <1>5, <1>6 DEF HasSettled
    <2> QED BY Zenon, <1>0, <1>1, <1>3, <1>7, <2>1, <2>2, <2>3, ResponseStep
  <1> QED BY Zenon, <1>8, <1>9, <1>10 DEF PaymentsInv

\* Nothing happens at the provider and a request is answered, with a success only of what has
\* settled.
LEMMA OnlyAnswers ==
    ASSUME PaymentsInv, wire' \subseteq wire, UNCHANGED <<sends, made, standing, remembered, lapsed>>,
           NEW r \in wire, NEW a \in Answers, NEW m \in Nat, Respond(r, a, m),
           a = "succeeded" => HasSettled(r.ask) /\ (r.ask.op # "get" => m = r.ask.size)
    PROVE  PaymentsInv'
  <1>0. NumbersInv /\ ProviderInv /\ PayersInv /\ sends \in Nat
    BY Zenon DEF PaymentsInv, NumbersInv
  <1>1. NumbersInv' /\ ProviderInv' /\ MadeKept
    BY Zenon, <1>0, ProviderSame
  <1>2. HasSettled(r.ask) => HasSettled(r.ask)'
    BY Zenon DEF HasSettled
  <1>3. PayersInv'
    BY Zenon, <1>0, <1>1, <1>2, ResponseStep
  <1> QED BY Zenon, <1>1, <1>3 DEF PaymentsInv

\* A known key is answered for the operation it was made for.
LEMMA ReplayStep ==
    ASSUME PaymentsInv, NEW r \in wire, r.ask.op # "get", Replay(r), wire' \subseteq wire,
           sends' = sends, lapsed' = lapsed
    PROVE  PaymentsInv'
  <1>0. NumbersInv /\ ProviderInv
    BY Zenon DEF PaymentsInv
  <1>1. PICK k \in remembered :
             /\ k.key = r.key
             /\ \E w \in Words(standing[k.n]) \union Words("processing"), m \in Amounts(r) :
                  Respond(r, StatusOf(w), m)
    BY Zenon DEF Replay
  <1>2. PICK w \in Words(standing[k.n]) \union Words("processing"), m \in Amounts(r) : Respond(r, StatusOf(w), m)
    BY Zenon, <1>1
  <1>3. k \in made /\ k.ask \in Operations /\ r.ask \in Operations /\ k.ask = r.ask
    <2>1. k \in made /\ k.ask \in Operations /\ r.ask \in Operations /\ Key(k.ask) = Key(r.ask)
      BY Zenon, <1>0, <1>1 DEF ProviderInv
    <2> QED BY Zenon, <2>1, KeysDiffer
  <1>4. standing[k.n] \in Standings /\ "processing" \in Standings /\ "processing" # "settled"
    BY Zenon, <1>0, <1>3 DEF NumbersInv, Standings
  <1>5. StatusOf(w) \in Answers /\ (StatusOf(w) = "succeeded" => standing[k.n] = "settled")
    <2>1. CASE w \in Words(standing[k.n])
      BY Zenon, <1>4, <2>1, SuccessWord
    <2>2. CASE w \in Words("processing")
      BY Zenon, <1>4, <2>2, SuccessWord
    <2> QED BY Zenon, <1>2, <2>1, <2>2
  <1>6. standing[k.n] = "settled" => HasSettled(r.ask)
    BY Zenon, <1>3 DEF HasSettled
  <1>7. m = r.ask.size /\ m \in Nat
    BY Zenon, <1>2, <1>3, AmountAsked
  <1>8. made' = made /\ standing' = standing /\ remembered' = remembered
    BY Zenon DEF Replay
  <1> QED BY Zenon, <1>2, <1>5, <1>6, <1>7, <1>8, OnlyAnswers

\* A request is refused.
LEMMA RefuseStep ==
    ASSUME PaymentsInv, NEW r \in wire, NEW a \in {"declined", "not_found", "error"}, RefusePay(r, a),
           wire' \subseteq wire, sends' = sends, lapsed' = lapsed
    PROVE  PaymentsInv'
  <1>1. a \in Answers /\ a # "succeeded" /\ 0 \in Nat
    BY DEF Answers
  <1>2. Respond(r, a, 0) /\ made' = made /\ standing' = standing /\ remembered' = remembered
    BY Zenon DEF RefusePay, raise_for_error
  <1> QED BY Zenon, <1>1, <1>2, OnlyAnswers

\* A charge is executed, once while its key is known.
LEMMA ChargeStep ==
    ASSUME PaymentsInv, NEW r \in wire, HandleCharge(r)
    PROVE  PaymentsInv'
  <1>1. /\ wire' = wire \ {r} /\ wire' \subseteq wire /\ sends' = sends /\ lapsed' = lapsed
        /\ r.ask.op = "charge" /\ "charge" # "get"
    BY Zenon DEF HandleCharge, Executes
  <1>2. Make(r) \/ RefusePay(r, "declined") \/ Replay(r)
    BY Zenon DEF HandleCharge
  <1>3. r.ask.op # "get"
    BY Zenon, <1>1
  <1> QED BY Zenon, <1>1, <1>2, <1>3, MakeStep, RefuseStep, ReplayStep

\* A refund is made, once while its key is known.
LEMMA RefundStep ==
    ASSUME PaymentsInv, NEW r \in wire, HandleRefund(r)
    PROVE  PaymentsInv'
  <1>1. /\ wire' = wire \ {r} /\ wire' \subseteq wire /\ sends' = sends /\ lapsed' = lapsed
        /\ r.ask.op = "refund" /\ "refund" # "get"
    BY Zenon DEF HandleRefund, Executes
  <1>2. Make(r) \/ RefusePay(r, "not_found") \/ RefusePay(r, "error") \/ Replay(r)
    BY Zenon DEF HandleRefund
  <1>3. r.ask.op # "get"
    BY Zenon, <1>1
  <1> QED BY Zenon, <1>1, <1>2, <1>3, MakeStep, RefuseStep, ReplayStep

\* A payment is looked up.
LEMMA GetStep ==
    ASSUME PaymentsInv, NEW r \in wire, HandleGet(r)
    PROVE  PaymentsInv'
  <1>0. NumbersInv
    BY Zenon DEF PaymentsInv
  <1>1. /\ wire' \subseteq wire /\ sends' = sends /\ made' = made /\ standing' = standing
        /\ remembered' = remembered /\ lapsed' = lapsed /\ r.ask.op = "get"
    BY Zenon DEF HandleGet, Executes
  <1>2. "not_found" \in Answers /\ "not_found" # "succeeded" /\ 0 \in Nat /\ Price \in Nat
    BY Zenon, PaymentsAssumption DEF Answers
  <1>3. CASE Respond(r, "not_found", 0)
    BY Zenon, <1>1, <1>2, <1>3, OnlyAnswers
  <1>4. CASE /\ r.ask.of \in Handles \ {0}
             /\ \E w \in Words(standing[r.ask.of]) : Respond(r, StatusOf(w), Price)
    <2>1. PICK m \in made : m.ask.op = "charge" /\ m.n = r.ask.of
      BY Zenon, <1>4 DEF Handles
    <2>2. standing[r.ask.of] \in Standings
      BY Zenon, <1>0, <2>1 DEF NumbersInv
    <2>3. PICK w \in Words(standing[r.ask.of]) : Respond(r, StatusOf(w), Price)
      BY Zenon, <1>4
    <2>4. StatusOf(w) \in Answers /\ (StatusOf(w) = "succeeded" => standing[r.ask.of] = "settled")
      BY Zenon, <2>2, <2>3, SuccessWord
    <2>5. standing[r.ask.of] = "settled" => HasSettled(r.ask)
      BY Zenon, <1>1, <2>1 DEF HasSettled
    <2> QED BY Zenon, <1>1, <1>2, <2>3, <2>4, <2>5, OnlyAnswers
  <1> QED BY Zenon, <1>3, <1>4 DEF HandleGet, raise_for_error

\* A caller changes, not to waiting, and without a success.
LEMMA CallerStep ==
    ASSUME PaymentsInv, wire' \subseteq wire, UNCHANGED <<sends, made, standing, remembered, lapsed>>,
           NEW c \in Payers, NEW p \in PayRecords, pays' = [pays EXCEPT ![c] = p], p.n <= sends,
           p.state # "sent", p.answer = pays[c].answer \/ p.answer # "succeeded",
           p.answer = "succeeded" => p.ask = pays[c].ask /\ p.amount = pays[c].amount
    PROVE  PaymentsInv'
  <1>0. NumbersInv /\ ProviderInv /\ PayersInv
    BY Zenon DEF PaymentsInv
  <1>1. NumbersInv' /\ ProviderInv' /\ MadeKept
    BY Zenon, <1>0, ProviderSame
  <1>2. ReportsTrue(pays[c])
    BY Zenon, <1>0 DEF PayersInv
  <1>3. ReportsTrue(p)
    BY Zenon, <1>2 DEF ReportsTrue
  <1>4. ReportsTrue(p)'
    BY Zenon, <1>1, <1>3, ReportsStay
  <1>5. PayersInv'
    BY Zenon, <1>0, <1>1, <1>4, PayerStep
  <1> QED BY Zenon, <1>1, <1>5 DEF PaymentsInv

\* What a caller is left with that is told of a failure.
LEMMA AnsweredRecord ==
    ASSUME sends \in Nat, NEW q \in PayRecords, NEW a \in {"unavailable", "error"}, NEW p,
           p = [q EXCEPT !.state = "answered", !.attempt = 1, !.n = 0, !.answer = a, !.amount = 0]
    PROVE  p \in PayRecords /\ p.n <= sends /\ p.state # "sent" /\ p.answer # "succeeded"
  <1>1. p = [state |-> "answered", ask |-> q.ask, attempt |-> 1, n |-> 0, answer |-> a, amount |-> 0]
    BY Zenon DEF PayRecords
  <1>2. q.ask \in Operations /\ a \in Answers /\ a # "succeeded"
    BY Zenon DEF PayRecords, Answers
  <1>3. p \in PayRecords
    BY <1>1, <1>2 DEF PayRecords
  <1>4. 0 <= sends
    BY ONLY sends \in Nat, SMT
  <1> QED BY Zenon, <1>1, <1>2, <1>3, <1>4

\* An operation begins, gets its token, or is given up as lost.
LEMMA CallersStep ==
    ASSUME PaymentsInv, NEW c \in Payers,
           Charge(c) \/ Refund(c) \/ GetPayment(c) \/ GetToken(c) \/ LosePay(c)
    PROVE  PaymentsInv'
  <1>0. pays \in [Payers -> PayRecords] /\ pays[c] \in PayRecords /\ pays[c].n <= sends /\ sends \in Nat
    BY Zenon DEF PaymentsInv, PayersInv, NumbersInv
  <1>1. ASSUME NEW o \in Operations, StartPay(c, o)  PROVE PaymentsInv'
    <2>1. PICK p : p = [pays[c] EXCEPT !.state = First, !.ask = o, !.attempt = 1,
                                       !.n = 0, !.answer = "none", !.amount = 0]
      BY Zenon
    <2>a. First \in {"token", "ready"}
      BY Zenon DEF First
    <2>2. p \in PayRecords /\ p.n = 0 /\ p.state # "sent" /\ p.answer # "succeeded"
      <3>1. p = [state |-> First, ask |-> o, attempt |-> 1, n |-> 0, answer |-> "none", amount |-> 0]
        BY Zenon, <1>0, <2>1 DEF PayRecords
      <3> QED BY <2>a, <3>1 DEF PayRecords, Answers
    <2>3. pays' = [pays EXCEPT ![c] = p]
      BY Zenon, <2>1, <1>1 DEF StartPay
    <2>4. p.n <= sends
      BY <1>0, <2>2
    <2>5. /\ wire' \subseteq wire /\ sends' = sends /\ made' = made /\ standing' = standing
          /\ remembered' = remembered /\ lapsed' = lapsed
      BY Zenon, <1>1 DEF StartPay
    <2> QED BY Zenon, <2>2, <2>3, <2>4, <2>5, CallerStep
  <1>2. ASSUME NEW a \in {"unavailable", "error"}, AnswerPay(c, a, 0),
               UNCHANGED <<wire, sends, made, standing, remembered, lapsed>>
        PROVE  PaymentsInv'
    <2>1. PICK p : p = [pays[c] EXCEPT !.state = "answered", !.attempt = 1, !.n = 0, !.answer = a, !.amount = 0]
      BY Zenon
    <2>2. p \in PayRecords /\ p.n <= sends /\ p.state # "sent" /\ p.answer # "succeeded"
      BY Zenon, <1>0, <2>1, AnsweredRecord
    <2>3. pays' = [pays EXCEPT ![c] = p]
      BY Zenon, <1>0, <1>2, <2>1 DEF AnswerPay
    <2> QED BY Zenon, <1>0, <1>2, <2>2, <2>3, CallerStep
  <1>3. CASE GetToken(c) /\ pays' = [pays EXCEPT ![c].state = "ready"]
    <2>1. PICK p : p = [pays[c] EXCEPT !.state = "ready"]
      BY Zenon
    <2>2. /\ p \in PayRecords /\ p.n = pays[c].n /\ p.state # "sent" /\ p.answer = pays[c].answer
          /\ p.ask = pays[c].ask /\ p.amount = pays[c].amount
      BY Zenon, <1>0, <2>1 DEF PayRecords
    <2>3. pays' = [pays EXCEPT ![c] = p]
      BY Zenon, <1>0, <1>3, <2>1
    <2>4. /\ wire' \subseteq wire /\ sends' = sends /\ made' = made /\ standing' = standing
          /\ remembered' = remembered /\ lapsed' = lapsed
      BY Zenon, <1>3 DEF GetToken
    <2> QED BY Zenon, <1>0, <2>2, <2>3, <2>4, CallerStep
  <1>4. CASE GetToken(c) /\ \E a \in {"unavailable", "error"} : AnswerPay(c, a, 0)
    BY Zenon, <1>2, <1>4 DEF GetToken
  <1>5. CASE LosePay(c)
    BY Zenon, <1>2, <1>5 DEF LosePay
  <1>6. GetToken(c) => \/ pays' = [pays EXCEPT ![c].state = "ready"]
                       \/ \E a \in {"unavailable", "error"} : AnswerPay(c, a, 0)
    BY Zenon DEF GetToken
  <1> QED BY Zenon, <1>1, <1>3, <1>4, <1>5, <1>6 DEF Charge, Refund, GetPayment

\* A request is sent, with a number of its own.
LEMMA SendStep ==
    ASSUME PaymentsInv, NEW c \in Payers, SendPay(c)
    PROVE  PaymentsInv'
  <1>0. NumbersInv /\ ProviderInv /\ PayersInv
    BY Zenon DEF PaymentsInv
  <1>1. pays \in [Payers -> PayRecords] /\ pays[c] \in PayRecords /\ sends \in Nat
    BY Zenon, <1>0 DEF PayersInv, NumbersInv
  <1>2. PICK w : w = [n |-> sends + 1, ask |-> pays[c].ask, key |-> RequestKey(pays[c].ask)]
    BY Zenon
  <1>3. w.n = sends + 1 /\ w.ask = pays[c].ask /\ w.key = Key(w.ask) /\ w.ask \in Operations /\ wire' = wire \union {w}
    BY Zenon, <1>1, <1>2 DEF SendPay, RequestKey, PayRecords
  <1>4. /\ sends' = sends + 1 /\ made' = made /\ standing' = standing
        /\ remembered' = remembered /\ lapsed' = lapsed /\ sends < MaxSends
    BY Zenon DEF SendPay
  <1>a. \A n \in Numbers : n <= sends => n <= sends + 1 /\ n # sends + 1
    BY <1>1, PaymentsAssumption DEF Numbers
  <1>b. sends + 1 \in Nat /\ sends + 1 \in Numbers /\ sends + 1 <= sends + 1
    BY <1>1, <1>4, PaymentsAssumption DEF Numbers
  <1>5. NumbersInv'
    <2>1. \A r \in wire : r.n \in Numbers /\ r.n <= sends + 1 /\ r.n # sends + 1
      BY Zenon, <1>0, <1>a DEF NumbersInv
    <2>2. \A m \in made : m.n \in Numbers /\ m.n <= sends + 1 /\ m.n # sends + 1
      BY Zenon, <1>0, <1>a DEF NumbersInv
    <2>3. \A r \in wire' : r.n \in Numbers /\ r.n <= sends'
      BY Zenon, <1>3, <1>4, <1>b, <2>1
    <2>4. \A r \in wire', m \in made' : r.n # m.n
      BY Zenon, <1>0, <1>3, <1>4, <2>2 DEF NumbersInv
    <2>5. \A a, b \in wire' : a.n = b.n => a = b
      BY Zenon, <1>0, <1>3, <2>1 DEF NumbersInv
    <2>6. \A m \in made' : m.n \in Numbers /\ m.n <= sends'
      BY Zenon, <1>4, <2>2
    <2>7. sends' \in Nat /\ standing' \in [Numbers -> Standings]
          /\ \A n \in Numbers : standing'[n] # "none" => \E m \in made' : m.n = n
      BY Zenon, <1>0, <1>4, <1>b DEF NumbersInv
    <2> QED BY Zenon, <2>3, <2>4, <2>5, <2>6, <2>7 DEF NumbersInv
  <1>6. ProviderInv'
    BY Zenon, <1>0, <1>3, <1>4 DEF ProviderInv
  <1>7. PICK p : p = [pays[c] EXCEPT !.state = "sent", !.n = sends + 1]
    BY Zenon
  <1>8. /\ p \in PayRecords /\ p.n = sends + 1 /\ p.ask = pays[c].ask /\ p.answer = pays[c].answer
        /\ p.amount = pays[c].amount /\ p.state = "sent"
    <2>1. p = [state |-> "sent", ask |-> pays[c].ask, attempt |-> pays[c].attempt, n |-> sends + 1,
               answer |-> pays[c].answer, amount |-> pays[c].amount]
      BY Zenon, <1>1, <1>7 DEF PayRecords
    <2>2. /\ pays[c].ask \in Operations /\ pays[c].attempt \in 1..2 /\ pays[c].answer \in Answers
          /\ pays[c].amount \in Nat /\ sends + 1 \in Nat
      BY Zenon, <1>1, <1>b DEF PayRecords
    <2> QED BY Zenon, <2>1, <2>2 DEF PayRecords
  <1>9. pays' = [pays EXCEPT ![c] = p]
    BY Zenon, <1>1, <1>7 DEF SendPay
  <1>10. pays' \in [Payers -> PayRecords] /\ pays'[c] = p /\ \A b \in Payers : b # c => pays'[b] = pays[b]
    BY Zenon, <1>1, <1>8, <1>9
  <1>12. ASSUME NEW b \in Payers
         PROVE  /\ pays'[b].n <= sends' /\ ReportsTrue(pays[b])'
                /\ \A r \in wire' : pays'[b].state = "sent" /\ pays'[b].n = r.n => pays'[b].ask = r.ask
    <2>1. pays[b] \in PayRecords /\ pays[b].n \in Nat /\ pays[b].n <= sends /\ ReportsTrue(pays[b])
      BY Zenon, <1>0 DEF PayersInv, PayRecords
    <2>2. pays[b].n <= sends + 1 /\ pays[b].n # sends + 1
      BY <1>1, <2>1
    <2>3. \A r \in wire : r.n # sends + 1
      BY Zenon, <1>0, <1>a DEF NumbersInv
    <2>4. CASE b = c
      <3>1. HasSettled(pays[b].ask)' <=> HasSettled(pays[b].ask)
        <4>1. pays'[b].ask = pays[b].ask
          BY Zenon, <1>8, <1>10, <2>4
        <4> QED BY Zenon, <1>4, <4>1 DEF HasSettled
      <3>2. ReportsTrue(pays[b])'
        BY Zenon, <1>8, <1>10, <2>1, <2>4, <3>1 DEF ReportsTrue
      <3>3. ASSUME NEW r \in wire', pays'[b].n = r.n  PROVE pays'[b].ask = r.ask
        BY Zenon, <1>3, <1>8, <1>10, <2>3, <2>4, <3>3
      <3> QED BY Zenon, <1>4, <1>8, <1>10, <1>b, <2>4, <3>2, <3>3
    <2>5. CASE b # c
      <3>1. HasSettled(pays[b].ask)' <=> HasSettled(pays[b].ask)
        BY Zenon, <1>4, <1>10, <2>5 DEF HasSettled
      <3>2. ReportsTrue(pays[b])'
        BY Zenon, <1>10, <2>1, <2>5, <3>1 DEF ReportsTrue
      <3>3. \A r \in wire : pays[b].state = "sent" /\ pays[b].n = r.n => pays[b].ask = r.ask
        BY Zenon, <1>0 DEF PayersInv
      <3> QED BY Zenon, <1>3, <1>4, <1>10, <2>2, <2>5, <3>2, <3>3
    <2> QED BY Zenon, <2>4, <2>5
  <1>13. PayersInv'
    BY Zenon, <1>10, <1>12 DEF PayersInv
  <1> QED BY Zenon, <1>5, <1>6, <1>13 DEF PaymentsInv

\* A request is refused for its token.
LEMMA RefusedStep ==
    ASSUME PaymentsInv, NEW r \in wire, Unauthorized(r)
    PROVE  PaymentsInv'
  <1>0. NumbersInv /\ ProviderInv /\ PayersInv /\ sends \in Nat
    BY Zenon DEF PaymentsInv, NumbersInv
  <1>1. /\ wire' \subseteq wire /\ sends' = sends /\ made' = made /\ standing' = standing
        /\ remembered' = remembered /\ lapsed' = lapsed
    BY Zenon DEF Unauthorized
  <1>2. CASE Waiting0(r) = {}
    <2>1. pays' = pays
      BY Zenon, <1>2 DEF Unauthorized
    <2>2. NumbersInv' /\ ProviderInv'
      BY Zenon, <1>0, <1>1, ProviderSame
    <2>3. PayersInv'
      BY Zenon, <1>0, <1>1, <2>1 DEF PayersInv, ReportsTrue, HasSettled
    <2> QED BY Zenon, <2>2, <2>3 DEF PaymentsInv
  <1>3. CASE Waiting0(r) # {}
    <2>1. PICK c : c = CHOOSE b \in Waiting0(r) : TRUE
      BY Zenon
    <2>2. c \in Payers
      BY Zenon, <1>3, <2>1 DEF Waiting0
    <2>3. \/ pays' = [pays EXCEPT ![c] = [@ EXCEPT !.state = "token", !.attempt = 2, !.n = 0]]
          \/ AnswerPay(c, "error", 0)
      BY Zenon, <1>3, <2>1 DEF Unauthorized
    <2>4. pays \in [Payers -> PayRecords] /\ pays[c] \in PayRecords /\ pays[c].n <= sends
      BY Zenon, <1>0, <2>2 DEF PayersInv
    <2>5. CASE pays' = [pays EXCEPT ![c] = [@ EXCEPT !.state = "token", !.attempt = 2, !.n = 0]]
      <3>1. PICK p : p = [pays[c] EXCEPT !.state = "token", !.attempt = 2, !.n = 0]
        BY Zenon
      <3>2. /\ p \in PayRecords /\ p.n <= sends /\ p.state # "sent" /\ p.answer = pays[c].answer
            /\ p.ask = pays[c].ask /\ p.amount = pays[c].amount
        <4>1. p = [state |-> "token", ask |-> pays[c].ask, attempt |-> 2, n |-> 0,
                   answer |-> pays[c].answer, amount |-> pays[c].amount]
          BY Zenon, <2>4, <3>1 DEF PayRecords
        <4>2. /\ pays[c].ask \in Operations /\ pays[c].answer \in Answers
              /\ pays[c].amount \in Nat
          BY Zenon, <2>4 DEF PayRecords
        <4>3. p \in PayRecords
          BY <4>1, <4>2 DEF PayRecords
        <4>4. 0 <= sends
          BY <1>0
        <4> QED BY Zenon, <4>1, <4>3, <4>4
      <3>3. pays' = [pays EXCEPT ![c] = p]
        BY Zenon, <2>4, <2>5, <3>1
      <3> QED BY Zenon, <1>1, <2>2, <2>4, <3>2, <3>3, CallerStep
    <2>6. CASE AnswerPay(c, "error", 0)
      <3>1. PICK p : p = [pays[c] EXCEPT !.state = "answered", !.attempt = 1, !.n = 0, !.answer = "error", !.amount = 0]
        BY Zenon
      <3>2. p \in PayRecords /\ p.n <= sends /\ p.state # "sent" /\ p.answer # "succeeded"
        BY Zenon, <1>0, <2>4, <3>1, AnsweredRecord
      <3>3. pays' = [pays EXCEPT ![c] = p]
        BY Zenon, <2>4, <2>6, <3>1 DEF AnswerPay
      <3> QED BY Zenon, <1>1, <2>2, <2>4, <3>2, <3>3, CallerStep
    <2> QED BY Zenon, <2>3, <2>5, <2>6
  <1> QED BY Zenon, <1>2, <1>3

\* The provider settles or voids what was processing, or forgets a key.
LEMMA SettlementStep ==
    ASSUME PaymentsInv, ProviderActs
    PROVE  PaymentsInv'
  <1>0. NumbersInv /\ ProviderInv /\ PayersInv
    BY Zenon DEF PaymentsInv
  <1>1. wire' = wire /\ sends' = sends /\ made' = made /\ pays' = pays
    BY Zenon DEF ProviderActs
  <1>2. CASE UNCHANGED <<standing, remembered, lapsed>>
    BY Zenon, <1>0, <1>1, <1>2 DEF PaymentsInv, NumbersInv, ProviderInv, PayersInv, ReportsTrue, HasSettled
  <1>3. ASSUME NEW m \in remembered, remembered' = remembered \ {m}, lapsed' = lapsed \union {m.key}, standing' = standing
        PROVE  PaymentsInv'
    <2>1. NumbersInv'
      BY Zenon, <1>0, <1>1, <1>3 DEF NumbersInv
    <2>2. \A x \in made : x \in remembered' \/ x.key \in lapsed'
      BY Zenon, <1>0, <1>3 DEF ProviderInv
    <2>3. ProviderInv'
      BY Zenon, <1>0, <1>1, <1>3, <2>2 DEF ProviderInv
    <2>4. PayersInv'
      BY Zenon, <1>0, <1>1, <1>3 DEF PayersInv, ReportsTrue, HasSettled
    <2> QED BY Zenon, <2>1, <2>3, <2>4 DEF PaymentsInv
  <1>4. ASSUME NEW n \in Numbers, NEW s \in {"settled", "voided"}, standing[n] = "processing",
               standing' = [standing EXCEPT ![n] = s], remembered' = remembered, lapsed' = lapsed
        PROVE  PaymentsInv'
    <2>1. "processing" # "none" /\ "processing" # "settled" /\ s \in Standings
      BY Zenon, <1>4 DEF Standings
    <2>2. standing' \in [Numbers -> Standings] /\ \A q \in Numbers : q # n => standing'[q] = standing[q]
      BY Zenon, <1>0, <1>4, <2>1 DEF NumbersInv
    <2>3. MadeKept
      BY Zenon, <1>0, <1>1, <1>4, <2>1, <2>2 DEF NumbersInv, MadeKept
    <2>4. ASSUME NEW q \in Numbers, standing'[q] # "none"  PROVE \E m \in made' : m.n = q
      <3>1. standing[q] # "none"
        BY Zenon, <1>4, <2>1, <2>2, <2>4
      <3> QED BY Zenon, <1>0, <1>1, <3>1 DEF NumbersInv
    <2>5. NumbersInv'
      BY Zenon, <1>0, <1>1, <2>2, <2>4 DEF NumbersInv
    <2>6. ProviderInv'
      BY Zenon, <1>0, <1>1, <1>4 DEF ProviderInv
    <2>7. ASSUME NEW c \in Payers  PROVE ReportsTrue(pays[c])'
      <3>1. PICK p : p = pays[c]
        BY Zenon
      <3>2. ReportsTrue(p)
        BY Zenon, <1>0, <3>1 DEF PayersInv
      <3>3. ReportsTrue(p)'
        BY Zenon, <2>3, <3>2, ReportsStay
      <3> QED BY Zenon, <1>1, <3>1, <3>3
    <2>8. PayersInv'
      BY Zenon, <1>0, <1>1, <2>7 DEF PayersInv
    <2> QED BY Zenon, <2>5, <2>6, <2>8 DEF PaymentsInv
  <1> QED BY Zenon, <1>2, <1>3, <1>4 DEF ProviderActs

\* Every step of callers and provider keeps the invariant.
LEMMA PaymentsStep == PaymentsInv /\ [PaymentsNext]_payVars => PaymentsInv'
  <1> SUFFICES ASSUME PaymentsInv, [PaymentsNext]_payVars  PROVE PaymentsInv'
    BY Zenon
  <1>1. CASE payVars' = payVars
    <2>1. /\ wire' = wire /\ sends' = sends /\ made' = made /\ standing' = standing
          /\ remembered' = remembered /\ lapsed' = lapsed /\ pays' = pays
      BY Zenon, <1>1 DEF payVars
    <2> QED BY Zenon, <2>1 DEF PaymentsInv, NumbersInv, ProviderInv, PayersInv, ReportsTrue, HasSettled
  <1>2. CASE PaymentsNext
    BY Zenon, <1>2, SettlementStep, CallersStep, SendStep, RefusedStep, ChargeStep, RefundStep, GetStep DEF PaymentsNext
  <1> QED BY Zenon, <1>1, <1>2

-----------------------------------------------------------------------------
(* Webhooks: sender, receivers and the replay guard.                       *)

SendRecords == [state : {"ready", "sent", "backoff", "delivered", "failed"}, attempt : Nat, ts : Stamps]
PacketRecords == [ts : Stamps, key : Secrets]
VerifyRecords == [state : {"idle", "checked"}, packet : PacketRecords, since : Nat]

WebTyped ==
    /\ webNow \in Nat /\ webNow <= MaxWebTime /\ skew \in -1..1 /\ signer \in Secrets
    /\ sending \in SendRecords /\ packets \subseteq PacketRecords
    /\ verifying \in [Receivers -> VerifyRecords]
    /\ claims \in [Stamps -> Nat] /\ taken \in [Stamps -> {0, 1, 2}]

\* What was let through to the guard was fresh then, and that was not long ago.
OneCheck(v) ==
    v.state = "checked" => /\ v.since - v.packet.ts <= Tolerance /\ v.packet.ts - v.since <= Tolerance
                           /\ v.since <= webNow /\ webNow <= v.since + ClaimLatency

\* An accepted delivery is remembered past the last time at which it could be claimed again.
OneStamp(t) ==
    ~excused => taken[t] = 0 \/ (taken[t] = 1 /\ claims[t] > t + Tolerance + ClaimLatency)

WebhooksInv ==
    /\ WebTyped
    /\ guard = "none" => excused
    /\ \A r \in Receivers : OneCheck(verifying[r])
    /\ \A t \in Stamps : OneStamp(t)
    /\ sending.state = "delivered" => \E t \in Stamps : taken[t] # 0

\* The guard remembers for longer than the window is wide and a claim may take.
ClaimsOutlast == GuardTtl > required_ttl + ClaimLatency

\* The invariant is what the receiver promises.
LEMMA DeliveredOnce == WebhooksInv => AcceptedOnce
  <1> SUFFICES ASSUME WebhooksInv  PROVE AcceptedOnce
    BY Zenon
  <1>1. ASSUME NEW t \in Stamps, ~excused  PROVE taken[t] <= 1
    <2>1. taken[t] = 0 \/ taken[t] = 1
      BY Zenon, <1>1 DEF WebhooksInv, OneStamp
    <2> QED BY <2>1
  <1>2. ASSUME NEW t \in Stamps, taken[t] # 0  PROVE taken[t] > 0
    <2>1. taken[t] \in {0, 1, 2}
      BY Zenon DEF WebhooksInv, WebTyped
    <2> QED BY <1>2, <2>1
  <1> QED BY Zenon, <1>1, <1>2 DEF WebhooksInv, AcceptedOnce

\* Nothing is sent at first.
LEMMA WebhooksStart == WebhooksInit => WebhooksInv
  <1> SUFFICES ASSUME WebhooksInit  PROVE WebhooksInv
    BY Zenon
  <1>1. 0 \in Stamps /\ 0 <= MaxWebTime
    BY WebhooksAssumption DEF Stamps
  <1>2. PICK v : v = [state |-> "idle", packet |-> NoPacket, since |-> 0]
    BY Zenon
  <1>3. v \in VerifyRecords /\ v.state = "idle"
    BY Zenon, <1>1, <1>2 DEF VerifyRecords, PacketRecords, NoPacket, Secrets
  <1>4. verifying = [r \in Receivers |-> v]
    BY Zenon, <1>2 DEF WebhooksInit
  <1>5. sending \in SendRecords /\ sending.state # "delivered"
    BY Zenon, <1>1 DEF WebhooksInit, SendRecords
  <1>6. verifying \in [Receivers -> VerifyRecords] /\ \A r \in Receivers : OneCheck(verifying[r])
    BY Zenon, <1>3, <1>4 DEF OneCheck
  <1>7. claims \in [Stamps -> Nat] /\ taken \in [Stamps -> {0, 1, 2}] /\ \A t \in Stamps : OneStamp(t)
    BY Zenon DEF WebhooksInit, OneStamp
  <1>8. /\ webNow \in Nat /\ webNow <= MaxWebTime /\ skew \in -1..1 /\ signer \in Secrets
        /\ packets \subseteq PacketRecords /\ (guard = "none" => excused)
    BY Zenon, <1>1 DEF WebhooksInit, Secrets
  <1> QED BY Zenon, <1>5, <1>6, <1>7, <1>8 DEF WebhooksInv, WebTyped

\* A reply is taken for a delivery only if it is one.
LEMMA ReplyKeeps ==
    ASSUME NEW p, NEW reply, sending \in SendRecords, Reply(p, reply)
    PROVE  /\ sending' \in SendRecords
           /\ sending'.state = "delivered" => reply = "ok" \/ sending.state = "delivered"
  <1>1. CASE sending' = sending
    BY Zenon, <1>1
  <1>2. CASE sending' = Answered0(reply)
    <2>1. ASSUME NEW x \in {"backoff", "failed", "delivered"}
          PROVE  [sending EXCEPT !.state = x] \in SendRecords /\ [sending EXCEPT !.state = x].state = x
      BY Zenon DEF SendRecords
    <2>2. \/ reply = "ok" /\ sending' = [sending EXCEPT !.state = "delivered"]
          \/ sending' = [sending EXCEPT !.state = "backoff"]
          \/ sending' = [sending EXCEPT !.state = "failed"]
      BY Zenon, <1>2 DEF Answered0
    <2> QED BY Zenon, <2>1, <2>2
  <1> QED BY Zenon, <1>1, <1>2 DEF Reply

\* The receivers, the guard and what was accepted stay; the sender goes on.
LEMMA SenderStep ==
    ASSUME WebhooksInv, UNCHANGED <<guard, skew, webNow, verifying, claims, taken, excused>>,
           signer' \in Secrets, packets' \subseteq PacketRecords,
           sending' \in SendRecords, sending'.state = "delivered" => sending.state = "delivered"
    PROVE  WebhooksInv'
  BY Zenon DEF WebhooksInv, WebTyped, OneCheck, OneStamp

\* A webhook is signed and sent.
LEMMA SendWebhookStep ==
    ASSUME WebhooksInv, SendWebhook
    PROVE  WebhooksInv'
  <1>1. webNow + skew \in Stamps
    BY WebhooksAssumption DEF WebhooksInv, WebTyped, SendWebhook, Stamps
  <1>2. sign(webNow + skew) \in PacketRecords
    BY Zenon, <1>1 DEF sign, PacketRecords, WebhooksInv, WebTyped
  <1>3. PICK k : k = IF sending.state = "backoff" THEN sending.attempt + 1 ELSE 1
    BY Zenon
  <1>4. k \in Nat
    BY <1>3 DEF WebhooksInv, WebTyped, SendRecords
  <1>5. sending' = [state |-> "sent", ts |-> webNow + skew, attempt |-> k]
    BY Zenon, <1>3 DEF SendWebhook
  <1>6. sending' \in SendRecords /\ sending'.state # "delivered"
    BY Zenon, <1>1, <1>4, <1>5 DEF SendRecords
  <1>7. packets' \subseteq PacketRecords /\ signer' \in Secrets
    BY Zenon, <1>2 DEF SendWebhook, WebhooksInv, WebTyped
  <1>8. UNCHANGED <<guard, skew, webNow, verifying, claims, taken, excused>>
    BY Zenon DEF SendWebhook
  <1> QED BY Zenon, <1>6, <1>7, <1>8, SenderStep

\* No reply comes.
LEMMA NoReplyStep ==
    ASSUME WebhooksInv, NoReply
    PROVE  WebhooksInv'
  <1>1. sending \in SendRecords /\ packets' \subseteq PacketRecords /\ signer' \in Secrets
    BY Zenon DEF NoReply, WebhooksInv, WebTyped
  <1>2. sending' = [sending EXCEPT !.state = "backoff"] \/ sending' = [sending EXCEPT !.state = "failed"]
    BY Zenon DEF NoReply, Answered0
  <1>3. sending' \in SendRecords /\ sending'.state # "delivered"
    BY Zenon, <1>1, <1>2 DEF SendRecords
  <1>4. UNCHANGED <<guard, skew, webNow, verifying, claims, taken, excused>>
    BY Zenon DEF NoReply
  <1> QED BY Zenon, <1>1, <1>3, <1>4, SenderStep

\* The secrets change; a guard in memory forgets, which is known.
LEMMA RotateStep ==
    ASSUME WebhooksInv, Rotate
    PROVE  WebhooksInv'
  <1>1. /\ guard' = guard /\ skew' = skew /\ webNow' = webNow /\ sending' = sending /\ packets' = packets
        /\ verifying' = verifying /\ taken' = taken
    BY Zenon DEF Rotate
  <1>2. signer' \in Secrets
    BY Zenon DEF Rotate, WebhooksInv, WebTyped, Secrets
  <1>3. \/ claims' = claims /\ excused' = excused
        \/ claims' = [t \in Stamps |-> 0] /\ excused'
    BY Zenon DEF Rotate
  <1>4. claims' \in [Stamps -> Nat]
    BY <1>3 DEF WebhooksInv, WebTyped
  <1>5. WebTyped'
    BY Zenon, <1>1, <1>2, <1>4 DEF WebhooksInv, WebTyped
  <1>6. (guard' = "none" => excused') /\ \A t \in Stamps : OneStamp(t)'
    BY Zenon, <1>1, <1>3 DEF WebhooksInv, OneStamp
  <1> QED BY Zenon, <1>1, <1>5, <1>6 DEF WebhooksInv, OneCheck

\* Time passes, but not past what a claim may take.
LEMMA WebTickStep ==
    ASSUME WebhooksInv, WebTick
    PROVE  WebhooksInv'
  <1>1. /\ guard' = guard /\ skew' = skew /\ signer' = signer /\ sending' = sending /\ packets' = packets
        /\ verifying' = verifying /\ taken' = taken /\ claims' = claims /\ excused' = excused
    BY Zenon DEF WebTick
  <1>2. webNow' \in Nat /\ webNow' <= MaxWebTime /\ webNow' = webNow + 1 /\ webNow \in Nat
    BY WebhooksAssumption DEF WebTick, WebhooksInv, WebTyped
  <1>3. WebTyped'
    BY Zenon, <1>1, <1>2 DEF WebhooksInv, WebTyped
  <1>4. ASSUME NEW r \in Receivers  PROVE OneCheck(verifying[r])'
    <2>1. PICK v : v = verifying[r]
      BY Zenon
    <2>2. v \in VerifyRecords /\ OneCheck(v) /\ (v.state = "checked" => webNow < v.since + ClaimLatency)
      BY Zenon, <2>1 DEF WebhooksInv, WebTyped, WebTick
    <2>3. OneCheck(v)'
      BY <1>2, <2>2, WebhooksAssumption DEF OneCheck, VerifyRecords
    <2> QED BY Zenon, <1>1, <2>1, <2>3
  <1> QED BY Zenon, <1>1, <1>3, <1>4 DEF WebhooksInv, OneStamp

\* A request ends.
LEMMA RequestDone ==
    ASSUME WebhooksInv, NEW r \in Receivers, Done(r), webNow' = webNow
    PROVE  verifying' \in [Receivers -> VerifyRecords] /\ \A q \in Receivers : OneCheck(verifying[q])'
  <1>1. PICK v : v = [state |-> "idle", packet |-> NoPacket, since |-> 0]
    BY Zenon
  <1>2. v \in VerifyRecords /\ v.state # "checked"
    <2>1. 0 \in Stamps
      BY WebhooksAssumption DEF Stamps
    <2> QED BY Zenon, <1>1, <2>1 DEF VerifyRecords, PacketRecords, NoPacket, Secrets
  <1>3. verifying' = [verifying EXCEPT ![r] = v] /\ verifying \in [Receivers -> VerifyRecords]
    BY Zenon, <1>1 DEF Done, WebhooksInv, WebTyped
  <1>4. verifying' \in [Receivers -> VerifyRecords] /\ verifying'[r] = v /\ \A q \in Receivers : q # r => verifying'[q] = verifying[q]
    BY Zenon, <1>2, <1>3
  <1> QED BY Zenon, <1>2, <1>4 DEF OneCheck, WebhooksInv

\* A delivery is let through to the guard while it is fresh, or refused.
LEMMA VerifyStep ==
    ASSUME WebhooksInv, NEW r \in Receivers, NEW p \in packets, Verify(r, p)
    PROVE  WebhooksInv'
  <1>1. /\ guard' = guard /\ skew' = skew /\ webNow' = webNow /\ signer' = signer /\ packets' = packets
        /\ claims' = claims /\ taken' = taken /\ excused' = excused
    BY Zenon DEF Verify
  <1>2. CASE Reply(p, "refused") /\ verifying' = verifying
    <2>1. "refused" # "ok" /\ sending \in SendRecords
      BY Zenon DEF WebhooksInv, WebTyped
    <2>2. sending' \in SendRecords /\ (sending'.state = "delivered" => sending.state = "delivered")
      BY Zenon, <1>2, <2>1, ReplyKeeps
    <2>3. signer' \in Secrets /\ packets' \subseteq PacketRecords
      BY Zenon, <1>1 DEF WebhooksInv, WebTyped
    <2> QED BY Zenon, <1>1, <1>2, <2>2, <2>3, SenderStep
  <1>3. CASE /\ Fresh0(p.ts) /\ sending' = sending
             /\ verifying' = [verifying EXCEPT ![r] = [state |-> "checked", packet |-> p, since |-> webNow]]
    <2>1. PICK v : v = [state |-> "checked", packet |-> p, since |-> webNow]
      BY Zenon
    <2>2. p \in PacketRecords /\ webNow \in Nat
      BY Zenon DEF WebhooksInv, WebTyped
    <2>3. v \in VerifyRecords /\ v.since = webNow /\ v.packet.ts = p.ts
      BY Zenon, <2>1, <2>2 DEF VerifyRecords
    <2>4. OneCheck(v)
      BY <1>3, <2>2, <2>3, WebhooksAssumption DEF OneCheck, Fresh0
    <2>5. verifying' = [verifying EXCEPT ![r] = v] /\ verifying \in [Receivers -> VerifyRecords]
      BY Zenon, <1>3, <2>1 DEF WebhooksInv, WebTyped
    <2>6. verifying' \in [Receivers -> VerifyRecords] /\ verifying'[r] = v /\ \A q \in Receivers : q # r => verifying'[q] = verifying[q]
      BY Zenon, <2>3, <2>5
    <2>7. WebTyped'
      BY Zenon, <1>1, <1>3, <2>6 DEF WebhooksInv, WebTyped
    <2>8. \A q \in Receivers : OneCheck(verifying[q])'
      BY Zenon, <1>1, <2>4, <2>6 DEF WebhooksInv, OneCheck
    <2> QED BY Zenon, <1>1, <1>3, <2>7, <2>8 DEF WebhooksInv, OneStamp
  <1> QED BY Zenon, <1>2, <1>3 DEF Verify

\* A delivery is accepted: its count goes up.
LEMMA TookStep ==
    ASSUME WebhooksInv, NEW t \in Stamps, taken' = Took(t)
    PROVE  /\ taken' \in [Stamps -> {0, 1, 2}] /\ taken'[t] # 0
           /\ taken[t] = 0 => taken'[t] = 1
           /\ \A s \in Stamps : s # t => taken'[s] = taken[s]
  BY DEF Took, WebhooksInv, WebTyped

\* A delivery that can still be claimed was not accepted, or its claim is still there.
LEMMA FirstClaim ==
    ASSUME WebhooksInv, ~excused, NEW r \in Receivers, verifying[r].state = "checked",
           ~(claims[verifying[r].packet.ts] > webNow)
    PROVE  taken[verifying[r].packet.ts] = 0
  <1>1. PICK v : v = verifying[r]
    BY Zenon
  <1>2. PICK t : t = v.packet.ts
    BY Zenon
  <1>3. v \in VerifyRecords /\ OneCheck(v) /\ v.state = "checked" /\ webNow \in Nat /\ claims \in [Stamps -> Nat]
    BY Zenon, <1>1 DEF WebhooksInv, WebTyped
  <1>4. t \in Stamps /\ t \in Nat /\ v.since \in Nat /\ claims[t] \in Nat
    BY <1>2, <1>3, WebhooksAssumption DEF VerifyRecords, PacketRecords, Stamps
  <1>5. webNow <= t + Tolerance + ClaimLatency
    BY <1>2, <1>3, <1>4, WebhooksAssumption DEF OneCheck
  <1>6. OneStamp(t) /\ ~(claims[t] > webNow)
    BY Zenon, <1>1, <1>2, <1>4 DEF WebhooksInv
  <1>7. ~(claims[t] > t + Tolerance + ClaimLatency)
    BY <1>3, <1>4, <1>5, <1>6, WebhooksAssumption
  <1> QED BY Zenon, <1>1, <1>2, <1>6, <1>7 DEF OneStamp

\* The claim of what was let through outlasts every later claim of it.
LEMMA ClaimLasts ==
    ASSUME WebhooksInv, ClaimsOutlast, NEW r \in Receivers, verifying[r].state = "checked"
    PROVE  ClaimEnds(verifying[r].packet.ts) > verifying[r].packet.ts + Tolerance + ClaimLatency
           /\ ClaimEnds(verifying[r].packet.ts) \in Nat
  <1>1. PICK v : v = verifying[r]
    BY Zenon
  <1>2. PICK t : t = v.packet.ts
    BY Zenon
  <1>3. v \in VerifyRecords /\ OneCheck(v) /\ v.state = "checked" /\ webNow \in Nat
    BY Zenon, <1>1 DEF WebhooksInv, WebTyped
  <1>4. t \in Nat /\ v.since \in Nat
    BY <1>2, <1>3, WebhooksAssumption DEF VerifyRecords, PacketRecords, Stamps
  <1>5. webNow + GuardTtl > t + Tolerance + ClaimLatency /\ webNow + GuardTtl \in Nat
    BY <1>2, <1>3, <1>4, WebhooksAssumption DEF OneCheck, ClaimsOutlast, required_ttl
  <1> QED BY Zenon, <1>1, <1>2, <1>5 DEF ClaimEnds

\* The guard decides.
LEMMA ClaimStep ==
    ASSUME WebhooksInv, ClaimsOutlast, NEW r \in Receivers, Claim(r)
    PROVE  WebhooksInv'
  <1>1. PICK p : p = verifying[r].packet
    BY Zenon
  <1>2. PICK t : t = p.ts
    BY Zenon
  <1>3. t \in Stamps
    BY Zenon, <1>1, <1>2 DEF WebhooksInv, WebTyped, VerifyRecords, PacketRecords
  <1>4. /\ guard' = guard /\ skew' = skew /\ webNow' = webNow /\ signer' = signer /\ packets' = packets
        /\ excused' = excused /\ Done(r) /\ verifying[r].state = "checked"
    BY Zenon DEF Claim
  <1>5. verifying' \in [Receivers -> VerifyRecords] /\ \A q \in Receivers : OneCheck(verifying[q])'
    BY Zenon, <1>4, RequestDone
  <1>6. sending \in SendRecords /\ claims \in [Stamps -> Nat] /\ taken \in [Stamps -> {0, 1, 2}]
    BY Zenon DEF WebhooksInv, WebTyped
  <1>7. ASSUME sending' \in SendRecords, claims' \in [Stamps -> Nat], taken' \in [Stamps -> {0, 1, 2}],
               \A s \in Stamps : OneStamp(s)',
               sending'.state = "delivered" => \E s \in Stamps : taken'[s] # 0
        PROVE  WebhooksInv'
    <2>1. WebTyped'
      BY Zenon, <1>4, <1>5, <1>7 DEF WebhooksInv, WebTyped
    <2> QED BY Zenon, <1>4, <1>5, <1>7, <2>1 DEF WebhooksInv
  <1>8. CASE Reply(p, "refused") /\ UNCHANGED <<claims, taken>>
    <2>1. "refused" # "ok"
      BY Zenon
    <2>2. sending' \in SendRecords /\ (sending'.state = "delivered" => sending.state = "delivered")
      BY Zenon, <1>6, <1>8, <2>1, ReplyKeeps
    <2>3. \A s \in Stamps : OneStamp(s)'
      BY Zenon, <1>4, <1>8 DEF WebhooksInv, OneStamp
    <2>4. sending'.state = "delivered" => \E s \in Stamps : taken'[s] # 0
      BY Zenon, <1>8, <2>2 DEF WebhooksInv
    <2> QED BY Zenon, <1>6, <1>7, <1>8, <2>2, <2>3, <2>4
  <1>9. ASSUME ~(guard # "none" /\ claims[t] > webNow),
               claims' = IF guard = "none" THEN claims ELSE [claims EXCEPT ![t] = ClaimEnds(t)],
               \/ taken' = Took(t) /\ \E reply \in {"ok", "retry"} : Reply(p, reply)
               \/ guard # "none" /\ UNCHANGED <<taken, sending>>
        PROVE  WebhooksInv'
    <2>1. PICK e : e = ClaimEnds(t)
      BY Zenon
    <2>2. e > t + Tolerance + ClaimLatency /\ e \in Nat
      BY Zenon, <1>1, <1>2, <1>4, <2>1, ClaimLasts
    <2>3. /\ claims' \in [Stamps -> Nat]
          /\ guard # "none" => claims'[t] = e /\ \A s \in Stamps : s # t => claims'[s] = claims[s]
      BY Zenon, <1>3, <1>6, <1>9, <2>1, <2>2
    <2>4. guard = "none" => excused'
      BY Zenon, <1>4 DEF WebhooksInv
    <2>5. guard # "none" /\ ~excused => taken[t] = 0
      BY Zenon, <1>1, <1>2, <1>4, <1>9, FirstClaim
    <2>6. CASE taken' = Took(t) /\ \E reply \in {"ok", "retry"} : Reply(p, reply)
      <3>1. /\ taken' \in [Stamps -> {0, 1, 2}] /\ taken'[t] # 0
            /\ taken[t] = 0 => taken'[t] = 1
            /\ \A s \in Stamps : s # t => taken'[s] = taken[s]
        BY Zenon, <1>3, <2>6, TookStep
      <3>2. sending' \in SendRecords
        BY Zenon, <1>6, <2>6, ReplyKeeps
      <3>3. ASSUME NEW s \in Stamps  PROVE OneStamp(s)'
        <4>1. CASE s = t
          BY Zenon, <1>4, <2>2, <2>3, <2>4, <2>5, <3>1, <4>1 DEF OneStamp
        <4>2. CASE s # t
          BY Zenon, <1>4, <2>3, <2>4, <3>1, <4>2 DEF WebhooksInv, OneStamp
        <4> QED BY Zenon, <4>1, <4>2
      <3> QED BY Zenon, <1>3, <1>7, <2>3, <3>1, <3>2, <3>3
    <2>7. CASE guard # "none" /\ UNCHANGED <<taken, sending>>
      <3>1. ASSUME NEW s \in Stamps  PROVE OneStamp(s)'
        <4>1. CASE s = t
          BY Zenon, <1>4, <2>5, <2>7, <4>1 DEF OneStamp
        <4>2. CASE s # t
          BY Zenon, <1>4, <2>3, <2>7, <4>2 DEF WebhooksInv, OneStamp
        <4> QED BY Zenon, <4>1, <4>2
      <3>2. sending'.state = "delivered" => \E s \in Stamps : taken'[s] # 0
        BY Zenon, <2>7 DEF WebhooksInv
      <3> QED BY Zenon, <1>6, <1>7, <2>3, <2>7, <3>1, <3>2
    <2> QED BY Zenon, <1>9, <2>6, <2>7
  <1>10. \/ Reply(p, "refused") /\ UNCHANGED <<claims, taken>>
         \/ /\ ~(guard # "none" /\ claims[t] > webNow)
            /\ claims' = IF guard = "none" THEN claims ELSE [claims EXCEPT ![t] = ClaimEnds(t)]
            /\ \/ taken' = Took(t) /\ \E reply \in {"ok", "retry"} : Reply(p, reply)
               \/ guard # "none" /\ UNCHANGED <<taken, sending>>
    BY Zenon, <1>1, <1>2 DEF Claim, delivery_fingerprint
  <1> QED BY Zenon, <1>8, <1>9, <1>10

\* The guard cannot be asked.
LEMMA GuardlessStep ==
    ASSUME WebhooksInv, NEW r \in Receivers, GuardUnavailable(r)
    PROVE  WebhooksInv'
  <1>1. PICK p : p = verifying[r].packet
    BY Zenon
  <1>2. PICK t : t = p.ts
    BY Zenon
  <1>3. t \in Stamps
    BY Zenon, <1>1, <1>2 DEF WebhooksInv, WebTyped, VerifyRecords, PacketRecords
  <1>4. /\ guard' = guard /\ skew' = skew /\ webNow' = webNow /\ signer' = signer /\ packets' = packets
        /\ claims' = claims /\ Done(r)
    BY Zenon DEF GuardUnavailable
  <1>5. verifying' \in [Receivers -> VerifyRecords] /\ \A q \in Receivers : OneCheck(verifying[q])'
    BY Zenon, <1>4, RequestDone
  <1>6. sending \in SendRecords
    BY Zenon DEF WebhooksInv, WebTyped
  <1>7. CASE taken' = Took(t) /\ excused' /\ Reply(p, "ok")
    <2>1. taken' \in [Stamps -> {0, 1, 2}] /\ taken'[t] # 0
      BY Zenon, <1>3, <1>7, TookStep
    <2>2. sending' \in SendRecords
      BY Zenon, <1>6, <1>7, ReplyKeeps
    <2>3. WebTyped'
      BY Zenon, <1>4, <1>5, <2>1, <2>2 DEF WebhooksInv, WebTyped
    <2> QED BY Zenon, <1>3, <1>5, <1>7, <2>1, <2>3 DEF WebhooksInv, OneStamp
  <1>8. CASE Reply(p, "retry") /\ UNCHANGED <<taken, excused>>
    <2>1. "retry" # "ok"
      BY Zenon
    <2>2. sending' \in SendRecords /\ (sending'.state = "delivered" => sending.state = "delivered")
      BY Zenon, <1>6, <1>8, <2>1, ReplyKeeps
    <2>3. WebTyped'
      BY Zenon, <1>4, <1>5, <1>8, <2>2 DEF WebhooksInv, WebTyped
    <2> QED BY Zenon, <1>4, <1>5, <1>8, <2>2, <2>3 DEF WebhooksInv, OneStamp
  <1> QED BY Zenon, <1>1, <1>2, <1>7, <1>8 DEF GuardUnavailable, LetThrough

\* Every step of sender, receivers and guard keeps the invariant.
LEMMA WebhooksStep == ClaimsOutlast /\ WebhooksInv /\ [WebhooksNext]_webVars => WebhooksInv'
  <1> SUFFICES ASSUME ClaimsOutlast, WebhooksInv, [WebhooksNext]_webVars  PROVE WebhooksInv'
    BY Zenon
  <1>1. CASE webVars' = webVars
    <2>1. /\ UNCHANGED <<guard, skew, webNow, verifying, claims, taken, excused>>
          /\ signer' = signer /\ packets' = packets /\ sending' = sending
      BY Zenon, <1>1 DEF webVars
    <2> QED BY Zenon, <2>1, SenderStep DEF WebhooksInv, WebTyped
  <1>2. CASE WebhooksNext
    BY Zenon, <1>2, SendWebhookStep, NoReplyStep, RotateStep, WebTickStep, ClaimStep, GuardlessStep, VerifyStep DEF WebhooksNext
  <1> QED BY Zenon, <1>1, <1>2
=============================================================================
