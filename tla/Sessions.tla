------------------------------- MODULE Sessions -------------------------------
(***************************************************************************)
(* Grants and their refresh tokens: AuthService (src/auth/service.py) over   *)
(* RefreshTokenRepository (src/repositories/refresh_token.py).  A grant is   *)
(* the family of tokens descended from one login.                            *)
(*                                                                          *)
(* A request is one transaction at READ COMMITTED: it reads what is          *)
(* committed, an UPDATE locks its rows until the commit, and nothing it      *)
(* wrote is seen before.  refresh_tokens has no version column: an UPDATE    *)
(* that waited for a lock is applied.                                        *)
(***************************************************************************)
EXTENDS Integers

CONSTANTS
    Grants,       \* family_id
    AuthRequests, \* concurrent requests; an answered one makes room for the next
    MaxTokens     \* bound: tokens issued

VARIABLES
    tokenGrant,  \* the family of each issued token: the committed rows
    revoked,     \* committed RefreshToken.revoked
    active,      \* User.is_active
    req,         \* the state of a request
    presented,   \* the token a request carries
    chosen,      \* the rows a request has updated, or is about to: its UPDATEs
    endedGrants, \* history: grants a logout or a detected reuse has answered for
    known,       \* history: the tokens of the grant there were when a request selected
    settled      \* history: those of the requests that have been answered

authVars == <<tokenGrant, revoked, active, req, presented, chosen, endedGrants, known, settled>>

Tokens == 1..MaxTokens
NoToken == 0
Issued == DOMAIN tokenGrant
Live == Issued \ revoked
Family(g) == {k \in Issued : tokenGrant[k] = g}

SessionsTypeOK ==
    /\ Issued \subseteq Tokens /\ \A k \in Issued : tokenGrant[k] \in Grants
    /\ revoked \subseteq Issued /\ active \in BOOLEAN
    /\ req \in [AuthRequests -> {"idle", "login", "read", "rotating",
                              "selecting", "selected", "revoking"}]
    /\ presented \in [AuthRequests -> Tokens \cup {NoToken}]
    /\ chosen \in [AuthRequests -> SUBSET Issued]
    /\ endedGrants \subseteq Grants
    /\ known \in [AuthRequests -> SUBSET Issued] /\ settled \subseteq Issued

SessionsInit ==
    /\ tokenGrant = [k \in {} |-> k] /\ revoked = {} /\ active = TRUE
    /\ req = [q \in AuthRequests |-> "idle"]
    /\ presented = [q \in AuthRequests |-> NoToken]
    /\ chosen = [q \in AuthRequests |-> {}]
    /\ endedGrants = {} /\ settled = {}
    /\ known = [q \in AuthRequests |-> {}]

\* A row an open transaction has updated.
RowLocked(k, q) == \E p \in AuthRequests \ {q} : req[p] \in {"rotating", "revoking"} /\ k \in chosen[p]

\* The transaction ends; session.close rolls back what was not committed.
EndRequest(q) ==
    /\ req' = [req EXCEPT ![q] = "idle"]
    /\ presented' = [presented EXCEPT ![q] = NoToken]
    /\ chosen' = [chosen EXCEPT ![q] = {}]
    /\ known' = [known EXCEPT ![q] = {}]

Step(q, where) == req' = [req EXCEPT ![q] = where] /\ UNCHANGED presented

\* create_refresh_token and RefreshTokenStore.create, at the commit.
Issue(g) ==
    /\ Tokens \ Issued # {}
    /\ LET k == CHOOSE j \in Tokens \ Issued : TRUE
       IN tokenGrant' = [j \in Issued \cup {k} |-> IF j = k THEN g ELSE tokenGrant[j]]

-----------------------------------------------------------------------------
(* login and oauth_login.                                                  *)

\* The credentials are good and the account active.
BeginLogin(q) ==
    /\ req[q] = "idle" /\ active
    /\ Step(q, "login")
    /\ UNCHANGED <<tokenGrant, revoked, active, chosen, endedGrants, known, settled>>

\* The provider vouches for the user: found by its id, linked by email or created, and active.
OauthLogin(q) == BeginLogin(q)

\* _issue_tokens with a family of its own.
CommitLogin(q) ==
    /\ req[q] = "login"
    /\ \E g \in Grants : Family(g) = {} /\ Issue(g)
    /\ EndRequest(q)
    /\ UNCHANGED <<revoked, active, endedGrants, settled>>

-----------------------------------------------------------------------------
(* refresh.                                                                *)

\* get_by_token: a live token is rotated, a revoked one answered as reuse.
BeginRefresh(q, k) ==
    /\ req[q] = "idle" /\ k \in Issued
    /\ req' = [req EXCEPT ![q] = IF k \in revoked THEN "selecting" ELSE "read"]
    /\ presented' = [presented EXCEPT ![q] = k]
    /\ UNCHANGED <<tokenGrant, revoked, active, chosen, endedGrants, known, settled>>

\* tokens.revoke(reason="rotated"): the UPDATE waits for the row's lock.
RevokePresented(q) ==
    /\ req[q] = "read" /\ ~RowLocked(presented[q], q)
    /\ Step(q, "rotating")
    /\ chosen' = [chosen EXCEPT ![q] = {presented[q]}]
    /\ UNCHANGED <<tokenGrant, revoked, active, endedGrants, known, settled>>

\* The account is active: the successor is issued in the same family and both are committed.
CommitRefresh(q) ==
    /\ req[q] = "rotating" /\ active
    /\ Issue(tokenGrant[presented[q]])
    /\ revoked' = revoked \cup chosen[q]
    /\ EndRequest(q)
    /\ UNCHANGED <<active, endedGrants, settled>>

-----------------------------------------------------------------------------
(* logout, and _handle_reuse of a refresh: revoke_family.                   *)

BeginLogout(q, k) ==
    /\ req[q] = "idle" /\ k \in Issued
    /\ req' = [req EXCEPT ![q] = "selecting"]
    /\ presented' = [presented EXCEPT ![q] = k]
    /\ UNCHANGED <<tokenGrant, revoked, active, chosen, endedGrants, known, settled>>

\* mutant: only the token that was presented.
PresentedOnly(q) == {presented[q]} \cap Live

\* The live rows of the family.
Revocable(q) == Family(tokenGrant[presented[q]]) \cap Live

\* revoke_family selects them ...
SelectFamily(q) ==
    /\ req[q] = "selecting"
    /\ Step(q, "selected")
    /\ chosen' = [chosen EXCEPT ![q] = Revocable(q)]
    /\ known' = [known EXCEPT ![q] = Family(tokenGrant[presented[q]])]
    /\ UNCHANGED <<tokenGrant, revoked, active, endedGrants, settled>>

\* ... and updates each, waiting for its lock.
RevokeFamily(q) ==
    /\ req[q] = "selected" /\ \A k \in chosen[q] : ~RowLocked(k, q)
    /\ Step(q, "revoking")
    /\ UNCHANGED <<tokenGrant, revoked, active, chosen, endedGrants, known, settled>>

\* mutant: the revocation is left for the caller to commit, and the refusal rolls it back.
RolledBack(q) == UNCHANGED revoked

\* uow.commit, before the reuse is refused.
CommitRevocation(q) == revoked' = revoked \cup chosen[q]

EndGrant(q) ==
    /\ req[q] = "revoking"
    /\ CommitRevocation(q)
    /\ endedGrants' = endedGrants \cup {tokenGrant[presented[q]]}
    /\ settled' = settled \cup known[q]
    /\ EndRequest(q)
    /\ UNCHANGED <<tokenGrant, active>>

-----------------------------------------------------------------------------

\* A refusal after the read (unknown user, inactive account), an error or a crash.
FailRequest(q) ==
    /\ req[q] # "idle"
    /\ EndRequest(q)
    /\ UNCHANGED <<tokenGrant, revoked, active, endedGrants, settled>>

\* deactivate.
Deactivate ==
    /\ active /\ active' = FALSE
    /\ UNCHANGED <<tokenGrant, revoked, req, presented, chosen, endedGrants, known, settled>>

SessionsNext ==
    \/ Deactivate
    \/ \E q \in AuthRequests :
          \/ BeginLogin(q) \/ OauthLogin(q) \/ CommitLogin(q) \/ RevokePresented(q) \/ CommitRefresh(q)
          \/ SelectFamily(q) \/ RevokeFamily(q) \/ EndGrant(q) \/ FailRequest(q)
          \/ \E k \in Tokens : BeginRefresh(q, k) \/ BeginLogout(q, k)

SessionsSpec == SessionsInit /\ [][SessionsNext]_authVars

-----------------------------------------------------------------------------
(* Properties.                                                             *)

\* When a logout or a detected reuse has been answered, every token the grant had when its
\* family was selected is revoked for good, whatever raced it, was refused or rolled back: the
\* commit comes before the refusal.  A token that a refresh commits later is not among them.
GrantIsRevoked == settled \cap Live = {}

\* Ending a grant leaves no working session behind, "if a refresh had raced the logout"
\* included: revoking the family is "the correct answer for the racing one".
EndedGrantIsDead == \A g \in endedGrants : Family(g) \cap Live = {}
=============================================================================
