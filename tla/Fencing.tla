-------------------------------- MODULE Fencing --------------------------------
(***************************************************************************)
(* Fencing tokens: the lock store that mints them (InMemoryLockBackend; the  *)
(* Redis scripts do the same), writers that may be paused past the end of    *)
(* their lease, and the resource that checks tokens.                         *)
(*                                                                          *)
(* Two resources: a row whose UPDATE checks the fence in its WHERE clause,   *)
(* and one checked by require_fence before a write of its own.  A lease ends *)
(* at any time; DistributedLock says when.                                   *)
(***************************************************************************)
EXTENDS Integers, Sequences

CONSTANTS
    Writers,   \* tasks that take the lock
    MaxToken   \* bound: tokens minted

ASSUME FencingAssumption == MaxToken \in Nat

VARIABLES
    claim,     \* the token of the live claim, 0 for none
    minted,    \* the counter of the lock's name
    lease,     \* the token of the lease each writer goes by, 0 for none
    seenFence, \* what a writer read of the second resource's fence, -1 before it reads
    fenceSeen, \* tokens the row has taken, oldest first; its fence is the last
    otherFence \* the fence of the second resource

fenceVars == <<claim, minted, lease, seenFence, fenceSeen, otherFence>>

FenceTypeOK ==
    /\ claim \in 0..MaxToken /\ minted \in 0..MaxToken /\ otherFence \in 0..MaxToken
    /\ lease \in [Writers -> 0..MaxToken] /\ seenFence \in [Writers -> -1..MaxToken]
    /\ fenceSeen \in Seq(1..MaxToken) /\ Len(fenceSeen) <= MaxToken + 1

FenceInit ==
    /\ claim = 0 /\ minted = 0 /\ otherFence = 0 /\ fenceSeen = <<>>
    /\ lease = [w \in Writers |-> 0] /\ seenFence = [w \in Writers |-> -1]

-----------------------------------------------------------------------------
(* The lock store.                                                         *)

TakeLock(w) ==
    /\ claim = 0 /\ lease[w] = 0 /\ minted < MaxToken
    /\ minted' = minted + 1 /\ claim' = minted + 1
    /\ lease' = [lease EXCEPT ![w] = minted + 1]
    /\ UNCHANGED <<seenFence, fenceSeen, otherFence>>

\* mutant: the counter goes with the claim.
CounterExpires == 0

\* The counter outlives every claim.
CounterKept == minted

\* The claim expires, while its writer goes on.
ClaimExpires ==
    /\ claim # 0 /\ claim' = 0 /\ minted' = CounterKept
    /\ UNCHANGED <<lease, seenFence, fenceSeen, otherFence>>

\* release(): by token; a claim that is gone or another's is left alone.
ReleaseLock(w) ==
    /\ lease[w] # 0 /\ seenFence[w] = -1
    /\ claim' = IF claim = lease[w] THEN 0 ELSE claim
    /\ lease' = [lease EXCEPT ![w] = 0]
    /\ UNCHANGED <<minted, seenFence, fenceSeen, otherFence>>

\* clear(): the claims go, the counters stay.
ClearClaims ==
    /\ claim' = 0 /\ minted' = CounterKept
    /\ UNCHANGED <<lease, seenFence, fenceSeen, otherFence>>

\* inspect(): the live claim's token.  One that reads it does not go by it.
Inspected == IF claim = 0 THEN {} ELSE {claim}

-----------------------------------------------------------------------------
(* The resources.                                                          *)

\* mutant: whatever token a write carries.
AnyFence(token, last) == TRUE

\* Strictly newer: the second write of one hold is refused like an older holder's.
fence_is_current(token, last) == token > last

RowFence == IF fenceSeen = <<>> THEN 0 ELSE fenceSeen[Len(fenceSeen)]

\* UPDATE ... SET fence = :token WHERE id = :id AND fence < :token
WriteRow(w) ==
    /\ lease[w] # 0 /\ fence_is_current(lease[w], RowFence)
    /\ Len(fenceSeen) <= MaxToken
    /\ fenceSeen' = Append(fenceSeen, lease[w])
    /\ UNCHANGED <<claim, minted, lease, seenFence, otherFence>>

\* require_fence: the fence is read and compared,
RequireFence(w) ==
    /\ lease[w] # 0 /\ seenFence[w] = -1 /\ fence_is_current(lease[w], otherFence)
    /\ seenFence' = [seenFence EXCEPT ![w] = otherFence]
    /\ UNCHANGED <<claim, minted, lease, fenceSeen, otherFence>>

\* and the write follows.
WriteOther(w) ==
    /\ seenFence[w] # -1
    /\ otherFence' = lease[w] /\ seenFence' = [seenFence EXCEPT ![w] = -1]
    /\ UNCHANGED <<claim, minted, lease, fenceSeen>>

FenceNext ==
    \/ \E w \in Writers : \/ TakeLock(w) \/ ReleaseLock(w) \/ WriteRow(w)
                          \/ RequireFence(w) \/ WriteOther(w)
    \/ ClaimExpires \/ ClearClaims

FenceSpec == FenceInit /\ [][FenceNext]_fenceVars

-----------------------------------------------------------------------------
(* Properties.                                                             *)

\* However long a writer is paused and whoever took the lock meanwhile: once the row has taken
\* a write of a newer holder it takes none of an older one; no two writers go by one token; the
\* live claim is the newest.  Nothing is said of the writes a hold makes after its first: the
\* comparison refuses them, and HoldKeepsWriting does not hold.
StaleWritersAreFenced ==
    /\ \A i, j \in 1..Len(fenceSeen) : i < j => fenceSeen[i] <= fenceSeen[j]
    /\ \A v, w \in Writers : v # w /\ lease[v] # 0 => lease[v] # lease[w]
    /\ Inspected \subseteq {minted}

\* "a resource that has accepted a write under this token keeps accepting writes from the same
\* uninterrupted hold" (Lease.renewed_for, src/distributed_lock/base.py)
HoldKeepsWriting ==
    \A w \in Writers : lease[w] # 0 /\ claim = lease[w] /\ RowFence = lease[w] =>
        fence_is_current(lease[w], RowFence)
=============================================================================
