------------------------------ MODULE RateLimits ------------------------------
(***************************************************************************)
(* The inbound budget of a WebSocket connection: RateLimiter and its two     *)
(* token buckets (src/ws/ratelimit.py), and what _admit                      *)
(* (src/ws/connection.py) does with a refusal.  A tick is the time in which  *)
(* one message token comes back; a bucket is refilled as the clock moves     *)
(* instead of when it is read, which is the same function of time.           *)
(***************************************************************************)
EXTENDS Integers

CONSTANTS
    MessageBurst, \* WS_MESSAGE_BURST
    ByteBurst,    \* WS_BYTE_BURST
    ByteRate,     \* bytes a tick brings back
    MaxViolations \* WS_MAX_CONSECUTIVE_VIOLATIONS

\* TokenBucket.__init__ and RateLimiter.__init__.
ASSUME RateLimitsAssumption ==
    \A n \in {MessageBurst, ByteBurst, ByteRate, MaxViolations} : n \in Nat \ {0}

VARIABLES
    messageTokens, byteTokens, \* the buckets
    violations,   \* consecutive refusals
    advice        \* history: the size last refused and the rest of its wait, or NoAdvice

limitVars == <<messageTokens, byteTokens, violations, advice>>

NoAdvice == [size |-> -1, wait |-> 0]
Sizes == 0..(ByteBurst + 1)
Lower(a, b) == IF a < b THEN a ELSE b
Higher(a, b) == IF a < b THEN b ELSE a
Hopeless == ByteBurst + 1 \* a wait of float("inf"): a message larger than its bucket

LimitTypeOK ==
    /\ messageTokens \in 0..MessageBurst /\ byteTokens \in 0..ByteBurst
    /\ violations \in 0..MaxViolations
    /\ advice \in [size : Sizes \cup {-1}, wait : 0..Higher(Hopeless, MessageBurst)]

LimitInit ==
    /\ messageTokens = MessageBurst /\ byteTokens = ByteBurst /\ violations = 0
    /\ advice = NoAdvice

\* TokenBucket.retry_after, in ticks rounded up.
RetryAfter(capacity, tokens, rate, cost) ==
    IF cost > capacity THEN Hopeless
    ELSE IF cost <= tokens THEN 0 ELSE (cost - tokens + rate - 1) \div rate

\* mutant: the wait of the budget that comes back first.
ShorterWait(size) == Lower(RetryAfter(MessageBurst, messageTokens, 1, 1),
                           RetryAfter(ByteBurst, byteTokens, ByteRate, size))

\* RateLimiter.offer looks at both budgets before it spends either.
Wait(size) == Higher(RetryAfter(MessageBurst, messageTokens, 1, 1),
                     RetryAfter(ByteBurst, byteTokens, ByteRate, size))

\* offer of a message that fits both budgets.
Admit(size) ==
    /\ Wait(size) = 0
    /\ messageTokens' = messageTokens - 1 /\ byteTokens' = byteTokens - size
    /\ violations' = 0
    /\ advice' = NoAdvice

\* offer refuses: nothing is spent.  _admit tells the client how long to wait, or ends the
\* connection, whose successor has a limiter of its own.
Refuse(size) ==
    /\ Wait(size) > 0
    /\ IF violations + 1 >= MaxViolations THEN
            /\ messageTokens' = MessageBurst /\ byteTokens' = ByteBurst /\ violations' = 0
            /\ advice' = NoAdvice
       ELSE /\ violations' = violations + 1
            /\ advice' = [size |-> size, wait |-> Wait(size)]
            /\ UNCHANGED <<messageTokens, byteTokens>>

\* TokenBucket._refill.
Refill(tokens, capacity, rate) == Lower(capacity, tokens + rate)

\* Time passes.
LimitTick ==
    /\ messageTokens' = Refill(messageTokens, MessageBurst, 1)
    /\ byteTokens' = Refill(byteTokens, ByteBurst, ByteRate)
    /\ advice' = [advice EXCEPT !.wait = IF @ = Hopeless /\ advice.size > ByteBurst THEN @
                                         ELSE Higher(0, @ - 1)]
    /\ UNCHANGED violations

LimitNext == LimitTick \/ \E size \in Sizes : Admit(size) \/ Refuse(size)

LimitSpec == LimitInit /\ [][LimitNext]_limitVars

\* The wait the client was told is enough for the message that was refused, however the two
\* budgets refill and whatever was refused since; a message larger than its bucket is never
\* told a wait that would end.
AdviceSuffices ==
    advice # NoAdvice /\ advice.wait = 0 => Wait(advice.size) = 0 /\ advice.size <= ByteBurst
=============================================================================
