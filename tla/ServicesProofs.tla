---------------------------- MODULE ServicesProofs ----------------------------
(***************************************************************************)
(* The services together (MCServices): the invariants of the components      *)
(* (PartsProofs) hold side by side, for a step of one leaves the others       *)
(* alone, and give the properties that the run of MCServices checks.         *)
(***************************************************************************)
EXTENDS PartsProofs, MCServices

\* A step of the services is, for each of these components, its own or none.
LEMMA PartSteps ==
    ASSUME [ServicesNext]_servicesVars
    PROVE  /\ [SessionsNext]_authVars
           /\ [TenantsNext]_tenantVars
           /\ [FenceNext]_fenceVars
           /\ [RowsNext]_rowVars
           /\ [RotationNext]_ringVars
           /\ [ObjectsNext]_objectVars
           /\ [PaymentsNext]_payVars
           /\ [WebhooksNext]_webVars
  <1>1. CASE ServicesNext
    <2>1. OthersUnchanged
      BY Zenon, <1>1 DEF ServicesNext
    <2>2. [SessionsNext]_authVars
      <3>1. CASE part = "sessions"
        BY Zenon, <1>1, <3>1 DEF ServicesNext
      <3>2. CASE part # "sessions"
        BY Zenon, <2>1, <3>2 DEF OthersUnchanged
      <3> QED BY Zenon, <3>1, <3>2
    <2>3. [TenantsNext]_tenantVars
      <3>1. CASE part = "tenants"
        BY Zenon, <1>1, <3>1 DEF ServicesNext
      <3>2. CASE part # "tenants"
        BY Zenon, <2>1, <3>2 DEF OthersUnchanged
      <3> QED BY Zenon, <3>1, <3>2
    <2>4. [FenceNext]_fenceVars
      <3>1. CASE part = "fencing"
        BY Zenon, <1>1, <3>1 DEF ServicesNext
      <3>2. CASE part # "fencing"
        BY Zenon, <2>1, <3>2 DEF OthersUnchanged
      <3> QED BY Zenon, <3>1, <3>2
    <2>5. [RowsNext]_rowVars
      <3>1. CASE part = "rows"
        BY Zenon, <1>1, <3>1 DEF ServicesNext
      <3>2. CASE part # "rows"
        BY Zenon, <2>1, <3>2 DEF OthersUnchanged
      <3> QED BY Zenon, <3>1, <3>2
    <2>6. [RotationNext]_ringVars
      <3>1. CASE part = "keys"
        BY Zenon, <1>1, <3>1 DEF ServicesNext
      <3>2. CASE part # "keys"
        BY Zenon, <2>1, <3>2 DEF OthersUnchanged
      <3> QED BY Zenon, <3>1, <3>2
    <2>7. [ObjectsNext]_objectVars
      <3>1. CASE part = "objects"
        BY Zenon, <1>1, <3>1 DEF ServicesNext
      <3>2. CASE part # "objects"
        BY Zenon, <2>1, <3>2 DEF OthersUnchanged
      <3> QED BY Zenon, <3>1, <3>2
    <2>8. [PaymentsNext]_payVars
      <3>1. CASE part = "payments"
        BY Zenon, <1>1, <3>1 DEF ServicesNext
      <3>2. CASE part # "payments"
        BY Zenon, <2>1, <3>2 DEF OthersUnchanged
      <3> QED BY Zenon, <3>1, <3>2
    <2>9. [WebhooksNext]_webVars
      <3>1. CASE part = "webhooks"
        BY Zenon, <1>1, <3>1 DEF ServicesNext
      <3>2. CASE part # "webhooks"
        BY Zenon, <2>1, <3>2 DEF OthersUnchanged
      <3> QED BY Zenon, <3>1, <3>2
    <2> QED BY Zenon, <2>2, <2>3, <2>4, <2>5, <2>6, <2>7, <2>8, <2>9
  <1>2. CASE servicesVars' = servicesVars
    BY Zenon, <1>2 DEF servicesVars
  <1> QED BY Zenon, <1>1, <1>2

\* Revoking a grant revokes every token of it that was there when its family was selected, and
\* no request, task or connection sees or writes a tenant's rows for another
\* (src/auth/service.py, src/tenancy).
THEOREM AccessBounded == ServicesSpec => []AccessIsBounded
  <1>1. ServicesInit => SessionsInv /\ TenantsInv
    BY Zenon, SessionsStart, TenantsStart DEF ServicesInit
  <1>2. SessionsInv /\ TenantsInv /\ [ServicesNext]_servicesVars => SessionsInv' /\ TenantsInv'
    BY Zenon, PartSteps, SessionsStep, TenantsStep
  <1>3. SessionsInv /\ TenantsInv => AccessIsBounded
    BY Zenon DEF SessionsInv, TenantsInv, OneScope, TenantsAreIsolated, AccessIsBounded
  <1> QED BY <1>1, <1>2, <1>3, PTL DEF ServicesSpec

\* No update is lost or applied twice under row locks and versions, no write of an older holder
\* of a lock follows one of a newer holder, a stored object is whole, and every replica can open
\* every row through a key rotation (src/locking, src/distributed_lock, src/storage,
\* src/encryption).
THEOREM DataKept == ServicesSpec => []DataIsKept
  <1> DEFINE I == FenceInv /\ RowsInv /\ RotationInv /\ ObjectsInv
  <1>1. ServicesInit => I
    BY Zenon, FenceStart, RowsStart, RotationStart, ObjectsStart DEF ServicesInit
  <1>2. I /\ [ServicesNext]_servicesVars => I'
    BY Zenon, PartSteps, FenceStep, RowsStep, RotationStep, ObjectsStep
  <1>3. I => DataIsKept
    BY Zenon, RowsKept, RotationReads DEF FenceInv, ObjectsInv, DataIsKept
  <1> HIDE DEF I
  <1> QED BY <1>1, <1>2, <1>3, PTL DEF ServicesSpec

\* However often it is sent, a charge or refund is made once for as long as the provider
\* remembers its key, which it may forget at any time after it was used (src/payments), and a
\* signed delivery is accepted once where the guard remembers for longer than the window and a
\* claim together (src/webhooks).
THEOREM EffectsOnce == ClaimsOutlast => (ServicesSpec => []EffectsHappenOnce)
  <1> SUFFICES ASSUME ClaimsOutlast  PROVE ServicesSpec => []EffectsHappenOnce
    BY Zenon
  <1>1. ServicesInit => PaymentsInv /\ WebhooksInv
    BY Zenon, PaymentsStart, WebhooksStart DEF ServicesInit
  <1>2. PaymentsInv /\ WebhooksInv /\ [ServicesNext]_servicesVars => PaymentsInv' /\ WebhooksInv'
    BY Zenon, PartSteps, PaymentsStep, WebhooksStep
  <1>3. PaymentsInv /\ WebhooksInv => EffectsHappenOnce
    BY Zenon, PaidOnce, DeliveredOnce DEF EffectsHappenOnce
  <1> QED BY <1>1, <1>2, <1>3, PTL DEF ServicesSpec
=============================================================================
