-------------------------------- MODULE Payments --------------------------------
(***************************************************************************)
(* The payment adapters over an unreliable network: StripeGateway and        *)
(* PayPalGateway (src/payments/stripe.py, paypal.py), Money (base.py).       *)
(*                                                                          *)
(* The provider is external: it executes a keyed request once and, for as    *)
(* long as it remembers the key (Stripe: 24 hours), replays its answer to    *)
(* every later request with the key; after that it executes the request      *)
(* again.  A request whose answer is lost, or that is slow, may still be     *)
(* executed after the caller was told the provider is unavailable and has    *)
(* asked again.  What a request brought about, a payment or a refund, is     *)
(* known by the number of that request.                                      *)
(***************************************************************************)
EXTENDS Integers, FiniteSets

CONSTANTS
    Payers,    \* tasks that use the gateway
    Orders,    \* charge references
    Price,     \* amount_minor of a charge
    Part,      \* amount_minor of a partial refund
    Exponent,  \* decimals of the currency
    MaxSends   \* bound: requests sent

\* Money accepts positive amounts only.
ASSUME PaymentsAssumption ==
    /\ Orders # {} /\ Price \in Nat \ {0} /\ Part \in 1..Price /\ Exponent \in Nat
    /\ MaxSends \in Nat

\* The powers of ten that the currency's decimals need; arithmetic, which no prover here has.
ASSUME PowersOfTen ==
    10^0 = 1 /\ \A n \in 0..Exponent : 10^n \in Nat \ {0} /\ 10^(n + 1) = 10 * 10^n

VARIABLES
    gateway,    \* constant: stripe or paypal
    token,      \* _token is held
    tokenGood,  \* the provider accepts the token last issued
    wire,       \* requests on their way: number, operation, key
    sends,      \* requests sent so far
    made,       \* at the provider: the requests that made a payment or a refund
    standing,   \* at the provider: what each of them has come to, by its number
    remembered, \* at the provider: those whose key it still knows
    lapsed,     \* history: keys that the provider has forgotten
    pays        \* each caller: state, operation, attempt, number of its request, answer

payVars == <<gateway, token, tokenGood, wire, sends, made, standing, remembered, lapsed, pays>>

None == 0  \* refund without an amount: the whole remaining balance
Sizes0 == {None, Part, Price}
Numbers == 1..MaxSends

\* A charge is of an order; a refund and a get are of a payment, 0 being one nobody made.
Operations == [op : {"charge"}, of : Orders, size : {Price}]
                \union [op : {"refund"}, of : {0} \union Numbers, size : Sizes0]
                \union [op : {"get"}, of : {0} \union Numbers, size : {None}]
Standings == {"none", "processing", "settled", "voided"}
Statuses == {"succeeded", "pending", "failed"}
Answers == {"none", "declined", "not_found", "unavailable", "error"} \union Statuses

\* What tells operations apart: the reference of a charge; of a refund the payment, and its
\* amount or that it has none.
Key(o) == IF o.op = "charge" THEN <<o.op, o.of>> ELSE <<o.op, o.of, o.size>>

\* mutant: every request has a key of its own.
KeyPerSend(o) == <<o.op, o.of, sends>>

\* The Idempotency-Key or PayPal-Request-Id header.
RequestKey(o) == Key(o)

PaymentsTypeOK ==
    /\ gateway \in {"stripe", "paypal"} /\ token \in BOOLEAN /\ tokenGood \in BOOLEAN
    /\ sends \in 0..MaxSends /\ standing \in [Numbers -> Standings]
    /\ \A r \in wire \union made : r.n \in Numbers /\ r.ask \in Operations
    /\ remembered \subseteq made /\ lapsed \subseteq {r.key : r \in made}
    /\ pays \in [Payers -> [state : {"idle", "token", "ready", "sent", "answered"},
                            ask : Operations, attempt : 1..2, n : 0..MaxSends,
                            answer : Answers, amount : 0..Price]]

PaymentsInit ==
    /\ gateway \in {"stripe", "paypal"} /\ token = FALSE /\ tokenGood = FALSE
    /\ wire = {} /\ sends = 0
    /\ made = {} /\ standing = [n \in Numbers |-> "none"] /\ remembered = {} /\ lapsed = {}
    /\ pays = [c \in Payers |-> [state |-> "idle", ask |-> CHOOSE o \in Operations : TRUE,
                                 attempt |-> 1, n |-> 0, answer |-> "none", amount |-> 0]]

-----------------------------------------------------------------------------
(* Money as PayPal writes it: digits and a scale.                          *)

\* to_decimal_string: exactly the currency's decimals.
ToDecimal(m) == [digits |-> m, scale |-> Exponent]

\* from_decimal_string: more precision than the currency settles in is refused (as 0).
FromDecimal(d) ==
    IF d.scale <= Exponent THEN d.digits * 10^(Exponent - d.scale)
    ELSE IF d.digits % 10^(d.scale - Exponent) = 0 THEN d.digits \div 10^(d.scale - Exponent) ELSE 0

\* The provider may write the same value with fewer or more decimals.
Rendered(d) == {e \in [digits : 1..(10 * d.digits), scale : 0..(d.scale + 1)] :
                  e.digits * 10^(d.scale + 1 - e.scale) = d.digits * 10}

-----------------------------------------------------------------------------
(* charge, refund, get_payment.                                            *)

AnswerPay(c, a, m) ==
    pays' = [pays EXCEPT ![c] = [@ EXCEPT !.state = "answered", !.attempt = 1, !.n = 0,
                                          !.answer = a, !.amount = m]]

First == IF gateway = "paypal" THEN "token" ELSE "ready"

\* A new operation; or the same one again, by a caller told the provider is unavailable.
StartPay(c, o) ==
    /\ pays[c].state \in {"idle", "answered"}
    /\ pays' = [pays EXCEPT ![c] = [@ EXCEPT !.state = First, !.ask = o, !.attempt = 1,
                                             !.n = 0, !.answer = "none", !.amount = 0]]
    /\ UNCHANGED <<gateway, token, tokenGood, wire, sends, made, standing, remembered, lapsed>>

\* provider_payment_id: of a payment that was made, or of none.
Handles == {0} \union {m.n : m \in {x \in made : x.ask.op = "charge"}}

Charge(c) == \E o \in Operations : o.op = "charge" /\ StartPay(c, o)
Refund(c) == \E o \in Operations : o.op = "refund" /\ o.of \in Handles /\ StartPay(c, o)
GetPayment(c) == \E o \in Operations : o.op = "get" /\ o.of \in Handles /\ StartPay(c, o)

\* _get_token: the cached token, or, when there is none or its time is up, _fetch_token, which
\* may fail or be refused.
GetToken(c) ==
    /\ pays[c].state = "token"
    /\ \/ /\ token' = TRUE /\ tokenGood' \in {TRUE} \union (IF token THEN {tokenGood} ELSE {})
          /\ pays' = [pays EXCEPT ![c].state = "ready"]
       \/ /\ \E a \in {"unavailable", "error"} : AnswerPay(c, a, 0)
          /\ UNCHANGED <<token, tokenGood>>
    /\ UNCHANGED <<gateway, wire, sends, made, standing, remembered, lapsed>>

\* _request: one HTTP request, with the token read before.
SendPay(c) ==
    /\ pays[c].state = "ready" /\ sends < MaxSends
    /\ sends' = sends + 1
    /\ wire' = wire \union {[n |-> sends + 1, ask |-> pays[c].ask, key |-> RequestKey(pays[c].ask)]}
    /\ pays' = [pays EXCEPT ![c].state = "sent", ![c].n = sends + 1]
    /\ UNCHANGED <<gateway, token, tokenGood, made, standing, remembered, lapsed>>

\* TransportError, 429 or 5xx: unavailable, and nothing is known of the request.
LosePay(c) ==
    /\ pays[c].state = "sent"
    /\ AnswerPay(c, "unavailable", 0)
    /\ UNCHANGED <<gateway, token, tokenGood, wire, sends, made, standing, remembered, lapsed>>

Waiting0(r) == {c \in Payers : pays[c].state = "sent" /\ pays[c].n = r.n}

\* A 401: once, the token is dropped and fetched again; a second one is an error.
Unauthorized(r) ==
    /\ r \in wire /\ gateway = "paypal" /\ ~tokenGood
    /\ wire' = wire \ {r}
    /\ IF Waiting0(r) = {} THEN UNCHANGED <<pays, token>>
       ELSE LET c == CHOOSE c \in Waiting0(r) : TRUE
            IN IF pays[c].attempt = 1
               THEN /\ token' = FALSE
                    /\ pays' = [pays EXCEPT ![c] = [@ EXCEPT !.state = "token", !.attempt = 2, !.n = 0]]
               ELSE AnswerPay(c, "error", 0) /\ UNCHANGED token
    /\ UNCHANGED <<gateway, tokenGood, sends, made, standing, remembered, lapsed>>

\* mutant: a status word the adapter does not know counts as paid.
TrustWord(word) == IF word = "settled" \/ word = "new" THEN "succeeded"
                   ELSE IF word = "voided" THEN "failed" ELSE "pending"

\* _INTENT_STATUS, _CAPTURE_STATUS, _ORDER_STATUS, _REFUND_STATUS: an unknown word is pending.
StatusOf(word) == IF word = "settled" THEN "succeeded" ELSE IF word = "voided" THEN "failed" ELSE "pending"

\* The words for what a payment or a refund has come to; "new" is one the adapter does not know.
Words(s) == IF s = "processing" THEN {"processing", "new"} ELSE {s}

\* The answer to request r is given to whoever still waits for it.
Respond(r, a, m) ==
    IF Waiting0(r) = {} THEN UNCHANGED pays ELSE AnswerPay(CHOOSE c \in Waiting0(r) : TRUE, a, m)

\* _raise_for_error: declined, not found, or an error.
raise_for_error(r, a) == Respond(r, a, 0)

Executes(r) == r \in wire /\ (gateway = "stripe" \/ tokenGood) /\ wire' = wire \ {r}

(* The provider executes a request and the adapter reads its answer.        *)

NewKey(r) == \A m \in remembered : m.key # r.key

\* The amount as it comes back; that of a refund without one is the provider's business.
Amounts(r) == IF r.ask.size = None THEN {0}
              ELSE {FromDecimal(d) : d \in Rendered(ToDecimal(r.ask.size))}

\* The request is carried out: what it makes is under way, done, or has failed.
Make(r) ==
    /\ NewKey(r)
    /\ made' = made \union {r} /\ remembered' = remembered \union {r}
    /\ \E s \in {"processing", "settled", "voided"} : \E w \in Words(s), m \in Amounts(r) :
         standing' = [standing EXCEPT ![r.n] = s] /\ Respond(r, StatusOf(w), m)

\* The key is known: the first answer as it was kept, when all may have been under way, or how
\* things stand now.
Replay(r) ==
    /\ \E k \in remembered :
         /\ k.key = r.key
         /\ \E w \in Words(standing[k.n]) \union Words("processing"), m \in Amounts(r) :
              Respond(r, StatusOf(w), m)
    /\ UNCHANGED <<made, standing, remembered>>

RefusePay(r, a) == raise_for_error(r, a) /\ UNCHANGED <<made, standing, remembered>>

\* charge: captured, declined, or the answer of the first request with the key.
HandleCharge(r) ==
    /\ Executes(r) /\ r.ask.op = "charge"
    /\ Make(r) \/ (NewKey(r) /\ RefusePay(r, "declined")) \/ Replay(r)
    /\ UNCHANGED <<gateway, token, tokenGood, sends, lapsed>>

\* refund: made if the payment has settled, refused (as it is when the balance does not allow
\* it), or the answer of the first request with the key.
HandleRefund(r) ==
    /\ Executes(r) /\ r.ask.op = "refund"
    /\ \/ r.ask.of \notin Handles \ {0} /\ RefusePay(r, "not_found")
       \/ r.ask.of \in Handles \ {0} /\ NewKey(r) /\ RefusePay(r, "error")
       \/ r.ask.of \in Handles \ {0} /\ standing[r.ask.of] = "settled" /\ Make(r)
       \/ Replay(r)
    /\ UNCHANGED <<gateway, token, tokenGood, sends, lapsed>>

\* get_payment.
HandleGet(r) ==
    /\ Executes(r) /\ r.ask.op = "get"
    /\ IF r.ask.of \notin Handles \ {0} THEN raise_for_error(r, "not_found")
       ELSE \E w \in Words(standing[r.ask.of]) : Respond(r, StatusOf(w), Price)
    /\ UNCHANGED <<gateway, token, tokenGood, sends, made, standing, remembered, lapsed>>

\* The provider settles or voids what was under way, revokes the token, or forgets a key.
ProviderActs ==
    /\ \/ /\ \E n \in Numbers, s \in {"settled", "voided"} :
                /\ standing[n] = "processing"
                /\ standing' = [standing EXCEPT ![n] = s]
          /\ UNCHANGED <<tokenGood, remembered, lapsed>>
       \/ tokenGood /\ tokenGood' = FALSE /\ UNCHANGED <<standing, remembered, lapsed>>
       \/ /\ \E m \in remembered : remembered' = remembered \ {m} /\ lapsed' = lapsed \union {m.key}
          /\ UNCHANGED <<tokenGood, standing>>
    /\ UNCHANGED <<gateway, token, wire, sends, made, pays>>

PaymentsNext ==
    \/ ProviderActs
    \/ \E c \in Payers : Charge(c) \/ Refund(c) \/ GetPayment(c) \/ GetToken(c) \/ SendPay(c) \/ LosePay(c)
    \/ \E r \in wire : Unauthorized(r) \/ HandleCharge(r) \/ HandleRefund(r) \/ HandleGet(r)

PaymentsSpec == PaymentsInit /\ [][PaymentsNext]_payVars

-----------------------------------------------------------------------------
(* Properties.                                                             *)

\* What was asked has settled at the provider: a charge or refund under the same reference or
\* for the same payment and amount, or the payment that was looked up.
HasSettled(o) ==
    \E m \in made : /\ standing[m.n] = "settled"
                    /\ IF o.op = "get" THEN m.ask.op = "charge" /\ m.n = o.of ELSE m.ask = o

\* However often a caller repeats what was lost or late, a reference is charged once and a
\* refund of one payment made once, as long as the provider remembers the key: what was done
\* twice had a key that lapsed in between.  A charge or refund reported as succeeded has
\* settled at the provider, under that reference or for that payment and amount, and an
\* amount comes back through the decimal strings as it was sent.
ChargedOnce ==
    /\ \A a, b \in made : a.ask = b.ask /\ a # b => a.key \in lapsed \/ b.key \in lapsed
    /\ \A c \in Payers : pays[c].answer = "succeeded" =>
          /\ HasSettled(pays[c].ask)
          /\ pays[c].ask.op # "get" => pays[c].amount = pays[c].ask.size
=============================================================================
