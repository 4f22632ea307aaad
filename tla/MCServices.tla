------------------------------ MODULE MCServices ------------------------------
(***************************************************************************)
(* The components that share no state, for TLC, in one run: a behaviour      *)
(* chooses its part and is a behaviour of that component, while the          *)
(* variables of the others stay as they began.                               *)
(***************************************************************************)
EXTENDS Rooms, RateLimits, EventStreams, Exports, TaskScopes, Protection, CpuPool, CachedCalls,
        Readiness, RowLocks, Fencing, Sessions, TenantScopes, Payments, Webhooks, Objects,
        KeyRotation, Lifecycle, Mail

VARIABLE part  \* constant: the component that runs

servicesVars ==
    <<part, roomsVars, limitVars, sseVars, exportVars, scopeVars, protectVars, poolVars, cacheVars,
      healthVars, rowVars, fenceVars, authVars, tenantVars, payVars, webVars, objectVars, ringVars,
      lifeVars, mailVars>>

Parts == {"rooms", "limits", "events", "exports", "scopes", "protect", "cpu", "cache", "health",
          "rows", "fencing", "sessions", "tenants", "payments", "webhooks", "objects", "keys",
          "life", "mail"}

\* Every choice of a component's settings is made where the component runs, and one elsewhere;
\* failOpen is read with the Redis guard alone.
ServicesInit ==
    /\ part \in Parts
    /\ part = "scopes" \/ groupMode = "wait"
    /\ part = "protect" \/ helper = "protect"
    /\ part = "cpu" \/ enforced = TRUE
    /\ part = "tenants" \/ (/\ role = [superuser |-> FALSE, bypass |-> FALSE, owner |-> FALSE]
                            /\ table = [enabled |-> TRUE, forced |-> TRUE, policy |-> TRUE])
    /\ part = "payments" \/ gateway = "stripe"
    /\ part = "webhooks" \/ (guard = "none" /\ failOpen = FALSE /\ skew = 0)
    /\ guard = "redis" \/ failOpen = FALSE
    /\ part = "objects" \/ backend = "memory"
    /\ part = "keys" \/ truth = 0
    /\ RoomsInit /\ LimitInit /\ SseInit /\ ExportsInit /\ ScopesInit /\ ProtectInit /\ PoolInit
    /\ CacheInit /\ ReadinessInit /\ RowsInit /\ FenceInit /\ SessionsInit /\ TenantsInit
    /\ PaymentsInit /\ WebhooksInit /\ ObjectsInit /\ RotationInit /\ LifeInit /\ MailInit

\* A step of one part leaves the others alone.
OthersUnchanged ==
    /\ part' = part
    /\ IF part = "rooms" THEN TRUE ELSE UNCHANGED roomsVars
    /\ IF part = "limits" THEN TRUE ELSE UNCHANGED limitVars
    /\ IF part = "events" THEN TRUE ELSE UNCHANGED sseVars
    /\ IF part = "exports" THEN TRUE ELSE UNCHANGED exportVars
    /\ IF part = "scopes" THEN TRUE ELSE UNCHANGED scopeVars
    /\ IF part = "protect" THEN TRUE ELSE UNCHANGED protectVars
    /\ IF part = "cpu" THEN TRUE ELSE UNCHANGED poolVars
    /\ IF part = "cache" THEN TRUE ELSE UNCHANGED cacheVars
    /\ IF part = "health" THEN TRUE ELSE UNCHANGED healthVars
    /\ IF part = "rows" THEN TRUE ELSE UNCHANGED rowVars
    /\ IF part = "fencing" THEN TRUE ELSE UNCHANGED fenceVars
    /\ IF part = "sessions" THEN TRUE ELSE UNCHANGED authVars
    /\ IF part = "tenants" THEN TRUE ELSE UNCHANGED tenantVars
    /\ IF part = "payments" THEN TRUE ELSE UNCHANGED payVars
    /\ IF part = "webhooks" THEN TRUE ELSE UNCHANGED webVars
    /\ IF part = "objects" THEN TRUE ELSE UNCHANGED objectVars
    /\ IF part = "keys" THEN TRUE ELSE UNCHANGED ringVars
    /\ IF part = "life" THEN TRUE ELSE UNCHANGED lifeVars
    /\ IF part = "mail" THEN TRUE ELSE UNCHANGED mailVars

ServicesNext ==
    \/ part = "rooms" /\ RoomsNext /\ OthersUnchanged
    \/ part = "limits" /\ LimitNext /\ OthersUnchanged
    \/ part = "events" /\ SseNext /\ OthersUnchanged
    \/ part = "exports" /\ ExportsNext /\ OthersUnchanged
    \/ part = "scopes" /\ ScopesNext /\ OthersUnchanged
    \/ part = "protect" /\ ProtectNext /\ OthersUnchanged
    \/ part = "cpu" /\ PoolNext /\ OthersUnchanged
    \/ part = "cache" /\ CacheNext /\ OthersUnchanged
    \/ part = "health" /\ ReadinessNext /\ OthersUnchanged
    \/ part = "rows" /\ RowsNext /\ OthersUnchanged
    \/ part = "fencing" /\ FenceNext /\ OthersUnchanged
    \/ part = "sessions" /\ SessionsNext /\ OthersUnchanged
    \/ part = "tenants" /\ TenantsNext /\ OthersUnchanged
    \/ part = "payments" /\ PaymentsNext /\ OthersUnchanged
    \/ part = "webhooks" /\ WebhooksNext /\ OthersUnchanged
    \/ part = "objects" /\ ObjectsNext /\ OthersUnchanged
    \/ part = "keys" /\ RotationNext /\ OthersUnchanged
    \/ part = "life" /\ LifeNext /\ OthersUnchanged
    \/ part = "mail" /\ MailNext /\ OthersUnchanged

ServicesSpec == ServicesInit /\ [][ServicesNext]_servicesVars

\* A required database and an optional Redis; one object key and its owner.
TwoServers == {[server |-> "db", required |-> TRUE], [server |-> "redis", required |-> FALSE]}
OneOwner == [k \in ObjectKeys |-> "u"]

-----------------------------------------------------------------------------
(* Properties: those of the components, by what they are about.  The variables of the parts   *)
(* that do not run keep an initial value, so each is asked where its part runs.              *)

\* Every component's variables keep their types.
ServicesTypeOK ==
    /\ part \in Parts
    /\ part = "rooms" => RoomsTypeOK
    /\ part = "limits" => LimitTypeOK
    /\ part = "events" => SseTypeOK
    /\ part = "exports" => ExportsTypeOK
    /\ part = "scopes" => ScopesTypeOK
    /\ part = "protect" => ProtectTypeOK
    /\ part = "cpu" => PoolTypeOK
    /\ part = "cache" => CacheTypeOK
    /\ part = "health" => ReadinessTypeOK
    /\ part = "rows" => RowsTypeOK
    /\ part = "fencing" => FenceTypeOK
    /\ part = "sessions" => SessionsTypeOK
    /\ part = "tenants" => TenantsTypeOK
    /\ part = "payments" => PaymentsTypeOK
    /\ part = "webhooks" => WebhooksTypeOK
    /\ part = "objects" => ObjectsTypeOK
    /\ part = "keys" => RotationTypeOK
    /\ part = "life" => LifeTypeOK
    /\ part = "mail" => MailTypeOK

\* A client is never left believing it has received everything when it has not: rooms and
\* connections agree on who is where, a connection or an event stream that was not given a
\* message is ended, and an export that was cut does not end as complete (src/ws/rooms.py,
\* src/ws/connection.py, src/sse/hub.py, src/streaming).
DeliveryIsHonest ==
    /\ part = "rooms" => RoomIndexesAgree /\ NoSilentGap
    /\ part = "events" => StreamIsHonest
    /\ part = "exports" => ExportIsHonest

\* What was written stays as it was committed: no update is lost or applied twice, under row
\* locks with deadlock retries and the version of PATCH /users/me (src/locking,
\* src/users/service.py); no write of an older holder of a lock follows one of a newer holder
\* (src/distributed_lock/base.py); a stored object is whole through failed writes (src/storage),
\* and every replica that reads an encrypted row can open it through a key rotation
\* (src/encryption).
DataIsKept ==
    /\ part = "rows" => NoLostUpdate
    /\ part = "fencing" => StaleWritersAreFenced
    /\ part = "objects" => ObjectsAreWhole
    /\ part = "keys" => RotationKeepsRows

\* Revoking a grant revokes every token of it that was there when its family was selected, not
\* one that a refresh commits later (src/auth/service.py), and no
\* request, task or pooled connection sees or writes a tenant's rows for another (src/tenancy).
AccessIsBounded ==
    /\ part = "sessions" => GrantIsRevoked
    /\ part = "tenants" => TenantsAreIsolated

\* Work started in a scope, behind a protection or in the process pool has an owner until it
\* ends: none outlives its scope, no cleanup is cut short, and no slot or executor is lost
\* (src/structured, src/parallel).
WorkIsOwned ==
    /\ part = "scopes" => NothingOutlivesItsScope
    /\ part = "protect" => CleanupFinishes
    /\ part = "cpu" => PoolRecovers

\* A cached answer is no older than it says: concurrent misses collapse into one call
\* (src/decorators/cache.py), a readiness report is recent (src/health), and a client that waits
\* as long as it was told is admitted (src/ws/ratelimit.py).
AnswersAreRecent ==
    /\ part = "cache" => MissesCollapse
    /\ part = "health" => ReadinessIsRecent
    /\ part = "limits" => AdviceSuffices

\* However often it is sent, a charge or refund is made once for as long as the provider
\* remembers its key (src/payments) and a signed delivery accepted once (src/webhooks).
EffectsHappenOnce ==
    /\ part = "payments" => ChargedOnce
    /\ part = "webhooks" => AcceptedOnce

\* No event is taken off the outbox by a process that has no subscribers any more, and shutdown
\* leaves nothing open but the database engine's pool (src/main.py); a welcome mail is queued
\* until it was sent, tried often enough or lost with a killed worker child, and a
\* notification is sent or reported unsent (src/tasks, src/notifications, src/worker.py).
EventsSurvive ==
    /\ part = "life" => NoEventIntoAnEmptyBus /\ OrderlyShutdown
    /\ part = "mail" => WelcomeIsKept /\ NotificationIsHonest
=============================================================================
