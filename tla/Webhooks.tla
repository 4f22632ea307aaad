-------------------------------- MODULE Webhooks --------------------------------
(***************************************************************************)
(* A notification sent as a signed webhook to a receiver that verifies it:   *)
(* WebhookNotificationStrategy (src/notifications/webhook.py), the signature *)
(* scheme, the secret ring, WebhookVerifier and its replay guards            *)
(* (src/webhooks/).                                                          *)
(*                                                                          *)
(* There is one body, so a delivery is told by its signed timestamp and the  *)
(* secret it was signed with.  A delivery that was sent may arrive late,     *)
(* more than once, or never.                                                 *)
(***************************************************************************)
EXTENDS Integers, FiniteSets

CONSTANTS
    Tolerance,    \* WEBHOOK_TOLERANCE_SECONDS
    GuardTtl,     \* WEBHOOK_REPLAY_TTL_SECONDS
    SendAttempts, \* max_attempts of the strategy
    ClaimLatency, \* bound: ticks between the window check and the claim
    Receivers,    \* requests being verified at once
    MaxWebTime    \* bound: clock ticks

\* WebhookVerifier.__init__ refuses a guard that forgets sooner.
required_ttl == Tolerance * 2

ASSUME WebhooksAssumption ==
    /\ Tolerance \in Nat \ {0} /\ GuardTtl \in Nat /\ GuardTtl >= required_ttl
    /\ SendAttempts \in Nat \ {0} /\ ClaimLatency \in Nat /\ MaxWebTime \in Nat

VARIABLES
    guard,     \* constant: redis, memory or none
    failOpen,  \* constant: WEBHOOK_REPLAY_FAIL_OPEN
    skew,      \* constant: the sender's clock minus the receiver's
    webNow,    \* the receiver's clock
    ring,      \* secrets the verifier has
    signer,    \* the secret the sender signs with
    sending,   \* the strategy: state, attempt, timestamp of the attempt
    packets,   \* deliveries sent: timestamp and secret
    verifying, \* each request: the delivery it verifies, since when, or state idle
    claims,    \* the guard: when each fingerprint's claim ends, 0 for none
    taken,     \* history: how often each timestamp was accepted: never, once, or more (2)
    excused    \* history: the guard was bypassed, absent or lost

webVars == <<guard, failOpen, skew, webNow, ring, signer, sending, packets, verifying, claims, taken, excused>>

Secrets == {"old", "new"}
Stamps == 0..(MaxWebTime + 1)
NoPacket == [ts |-> 0, key |-> "old"]

WebhooksTypeOK ==
    /\ guard \in {"redis", "memory", "none"} /\ failOpen \in BOOLEAN /\ skew \in -1..1
    /\ webNow \in 0..MaxWebTime /\ ring \in (SUBSET Secrets) \ {{}} /\ signer \in Secrets
    /\ sending \in [state : {"ready", "sent", "backoff", "delivered", "failed"},
                    attempt : 1..SendAttempts, ts : Stamps]
    /\ packets \subseteq [ts : Stamps, key : Secrets]
    /\ verifying \in [Receivers -> [state : {"idle", "checked"}, packet : [ts : Stamps, key : Secrets],
                                    since : 0..MaxWebTime]]
    /\ claims \in [Stamps -> 0..(MaxWebTime + GuardTtl)]
    /\ taken \in [Stamps -> 0..2] /\ excused \in BOOLEAN

WebhooksInit ==
    /\ guard \in {"redis", "memory", "none"} /\ failOpen \in BOOLEAN /\ skew \in -1..1
    /\ webNow = 0 /\ ring = {"old"} /\ signer = "old"
    /\ sending = [state |-> "ready", attempt |-> 1, ts |-> 0]
    /\ packets = {} /\ verifying = [r \in Receivers |-> [state |-> "idle", packet |-> NoPacket, since |-> 0]]
    /\ claims = [t \in Stamps |-> 0] /\ taken = [t \in Stamps |-> 0]
    /\ excused = (guard = "none")

-----------------------------------------------------------------------------
(* The sender.                                                             *)

sign(t) == [ts |-> t, key |-> signer]

\* build_headers: every attempt is signed anew, with the sender's clock in whole seconds.
SendWebhook ==
    /\ sending.state \in {"ready", "backoff"} /\ webNow + skew >= 0
    /\ sending' = [state |-> "sent", ts |-> webNow + skew,
                   attempt |-> IF sending.state = "backoff" THEN sending.attempt + 1 ELSE 1]
    /\ packets' = packets \union {sign(webNow + skew)}
    /\ UNCHANGED <<guard, failOpen, skew, webNow, ring, signer, verifying, claims, taken, excused>>

\* A transport error, 429 or 5xx is retried; any other refusal is final.
Answered0(reply) ==
    CASE reply = "ok" -> [sending EXCEPT !.state = "delivered"]
      [] reply = "retry" /\ sending.attempt < SendAttempts -> [sending EXCEPT !.state = "backoff"]
      [] OTHER -> [sending EXCEPT !.state = "failed"]

\* The reply to a delivery reaches the sender, if it is of the attempt it waits for, or is lost.
Reply(p, reply) ==
    \/ sending' = sending
    \/ sending.state = "sent" /\ sending.ts = p.ts /\ sending' = Answered0(reply)

NoReply ==
    /\ sending.state = "sent"
    /\ sending' = Answered0("retry")
    /\ UNCHANGED <<guard, failOpen, skew, webNow, ring, signer, packets, verifying, claims, taken, excused>>

-----------------------------------------------------------------------------
(* WebhookVerifier.verify.                                                 *)

Fresh0(t) == webNow - t <= Tolerance /\ t - webNow <= Tolerance

\* The digest of some secret of the ring is the one the header carries.
digest_matches(p) == \E s \in ring : p.key = s

\* The name the guard knows a delivery by, whichever secret signed it.
delivery_fingerprint(p) == p.ts

\* The header is read, the window checked, and the digest compared with every secret's; a
\* delivery that passes goes on to the guard.
Verify(r, p) ==
    /\ p \in packets /\ verifying[r].state = "idle"
    /\ IF Fresh0(p.ts) /\ digest_matches(p)
       THEN /\ verifying' = [verifying EXCEPT ![r] = [state |-> "checked", packet |-> p, since |-> webNow]]
            /\ UNCHANGED sending
       ELSE Reply(p, "refused") /\ UNCHANGED verifying
    /\ UNCHANGED <<guard, failOpen, skew, webNow, ring, signer, packets, claims, taken, excused>>

\* mutant: the claim is remembered only for as long as the window is wide on one side.
ShortClaim(t) == webNow + Tolerance

\* SET NX EX, or the dictionary of InMemoryReplayGuard.
ClaimEnds(t) == webNow + GuardTtl

Took(t) == [taken EXCEPT ![t] = IF @ = 0 THEN 1 ELSE 2]
Done(r) == verifying' = [verifying EXCEPT ![r] = [state |-> "idle", packet |-> NoPacket, since |-> 0]]

\* _claim: the first to claim the fingerprint is accepted, and its handler may then fail; or
\* the request was cancelled meanwhile, and only the claim stays.
Claim(r) ==
    /\ verifying[r].state = "checked" /\ Done(r)
    /\ LET p == verifying[r].packet
           f == delivery_fingerprint(p)
       IN IF guard # "none" /\ claims[f] > webNow
          THEN Reply(p, "refused") /\ UNCHANGED <<claims, taken>>
          ELSE /\ claims' = IF guard = "none" THEN claims ELSE [claims EXCEPT ![f] = ClaimEnds(f)]
               /\ \/ /\ taken' = Took(p.ts)
                     /\ \E reply \in {"ok", "retry"} : Reply(p, reply)
                  \/ guard # "none" /\ UNCHANGED <<taken, sending>>
    /\ UNCHANGED <<guard, failOpen, skew, webNow, ring, signer, packets, excused>>

\* mutant: a delivery is let through whenever the guard cannot answer.
AlwaysOpen == TRUE

LetThrough == failOpen

\* Redis cannot be reached: refused with 503, or let through when the settings say so.
GuardUnavailable(r) ==
    /\ verifying[r].state = "checked" /\ guard = "redis" /\ Done(r)
    /\ LET p == verifying[r].packet
       IN IF LetThrough
          THEN /\ taken' = Took(p.ts) /\ excused' = (excused \/ failOpen)
               /\ Reply(p, "ok")
          ELSE Reply(p, "retry") /\ UNCHANGED <<taken, excused>>
    /\ UNCHANGED <<guard, failOpen, skew, webNow, ring, signer, packets, claims>>

-----------------------------------------------------------------------------
(* The world.                                                              *)

\* Rotation: the ring takes the new secret, the sender changes over, the old one goes.  The
\* receiver restarts with a new ring, and a guard in memory forgets.
Rotate ==
    /\ \/ /\ ring = {"old"} /\ ring' = Secrets /\ UNCHANGED signer
       \/ /\ ring = Secrets /\ signer = "old" /\ signer' = "new" /\ UNCHANGED ring
       \/ /\ ring = Secrets /\ signer = "new" /\ ring' = {"new"} /\ UNCHANGED signer
    /\ IF ring' # ring /\ guard = "memory"
       THEN claims' = [t \in Stamps |-> 0] /\ excused' = TRUE
       ELSE UNCHANGED <<claims, excused>>
    /\ UNCHANGED <<guard, failOpen, skew, webNow, sending, packets, verifying, taken>>

WebTick ==
    /\ webNow < MaxWebTime
    /\ \A r \in Receivers : verifying[r].state = "checked" => webNow < verifying[r].since + ClaimLatency
    /\ webNow' = webNow + 1
    /\ UNCHANGED <<guard, failOpen, skew, ring, signer, sending, packets, verifying, claims, taken, excused>>

WebhooksNext ==
    \/ SendWebhook \/ NoReply \/ Rotate \/ WebTick
    \/ \E r \in Receivers : Claim(r) \/ GuardUnavailable(r) \/ \E p \in packets : Verify(r, p)

WebhooksSpec == WebhooksInit /\ [][WebhooksNext]_webVars

-----------------------------------------------------------------------------
(* Properties.                                                             *)

\* A signed delivery is accepted at most once, however late or often it arrives and whichever
\* secret verifies it, unless the guard is absent, was bypassed by the settings or lost its
\* memory; and the sender reports a notification delivered only if it was accepted.
AcceptedOnce ==
    /\ ~excused => \A t \in Stamps : taken[t] <= 1
    /\ sending.state = "delivered" => \E t \in Stamps : taken[t] > 0
=============================================================================
