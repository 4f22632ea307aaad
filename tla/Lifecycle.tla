------------------------------- MODULE Lifecycle -------------------------------
(***************************************************************************)
(* The life of a process: the lifespan of src/main.py, with the event bus,   *)
(* the outbox relay, the message publisher, the connection pools, the worker *)
(* processes and telemetry it starts and stops.                              *)
(*                                                                          *)
(* The relay runs in a task of its own and moves whenever the lifespan       *)
(* awaits.  Statements with no await between them are one step.  The rows of *)
(* the outbox outlive the process.                                           *)
(***************************************************************************)
EXTENDS Integers, Sequences, FiniteSets

CONSTANTS
    EventRows,  \* outbox rows requests may write
    NoRow,      \* not a row
    MaxBoots    \* bound: processes started, one after the other

ASSUME EventRowsAssumption == NoRow \notin EventRows

VARIABLES
    life,       \* where the process is
    features,   \* its settings: KAFKA_ENABLED, OUTBOX_RELAY_ENABLED, OTEL_ENABLED
    boots,      \* processes started so far
    toStop,     \* shutdown steps still to run
    subscribed, \* whether the bus has subscribers
    relay,      \* the relay's task, and the row it has claimed
    rows,       \* each row of the outbox
    observed,   \* history: rows whose event reached the subscribers
    publisher,  \* the publisher, and whether a record waits in its memory
    open,       \* pools, streams and workers in use
    telemetry   \* the pipeline; records that wait in it; history: records it never took or sent

lifeVars == <<life, features, boots, toStop, subscribed, relay, rows, observed,
              publisher, open, telemetry>>

Pools == {"idempotency", "guard", "locks", "health"}  \* the pools the lifespan closes
Engine == "database"                                  \* the engine's, which it does not
Features == [kafka : BOOLEAN, relay : BOOLEAN, otel : BOOLEAN]
Nothing == [kafka |-> FALSE, relay |-> FALSE, otel |-> FALSE]
RelayOff == [state |-> "off", row |-> NoRow]
NoTelemetry == [bound |-> FALSE, queued |-> FALSE, missed |-> FALSE]

LifeTypeOK ==
    /\ life \in {"down", "starting", "serving", "stopping", "stopped", "failed"}
    /\ features \in Features /\ boots \in 0..MaxBoots
    /\ toStop \in Seq(Pools \union {"publisher", "relay", "hubs", "workers", "telemetry"})
    /\ subscribed \in BOOLEAN
    /\ relay \in [state : {"off", "idle", "claimed", "delivered"}, row : EventRows \union {NoRow}]
    /\ rows \in [EventRows -> {"none", "pending", "deleted"}] /\ observed \subseteq EventRows
    /\ publisher \in [up : BOOLEAN, waiting : BOOLEAN]
    /\ open \subseteq Pools \union {Engine, "streams", "workers"}
    /\ telemetry \in [bound : BOOLEAN, queued : BOOLEAN, missed : BOOLEAN]

LifeInit ==
    /\ life = "down" /\ features = Nothing /\ boots = 0 /\ toStop = <<>>
    /\ subscribed = FALSE /\ relay = RelayOff
    /\ rows = [w \in EventRows |-> "none"] /\ observed = {}
    /\ publisher = [up |-> FALSE, waiting |-> FALSE] /\ open = {}
    /\ telemetry = NoTelemetry

\* A line logged by the lifespan: LogForwarder queues it while it is bound.
Logged(t) == IF t.bound THEN [t EXCEPT !.queued = TRUE] ELSE [t EXCEPT !.missed = features.otel]

-----------------------------------------------------------------------------
(* Start-up.                                                               *)

\* The module is imported: configure_observability builds the pipeline.
Import(f) ==
    /\ life = "down" /\ boots < MaxBoots
    /\ life' = "starting" /\ features' = f /\ boots' = boots + 1
    /\ telemetry' = [NoTelemetry EXCEPT !.bound = f.otel]
    /\ UNCHANGED <<toStop, subscribed, relay, rows, observed, publisher, open>>

\* Up to the first await: keys, subscribers, the executor, the relay's task.  Bad keys end it.
StartUp(keysAreGood) ==
    /\ life = "starting" /\ relay.state = "off" /\ ~subscribed
    /\ IF keysAreGood
       THEN /\ subscribed' = TRUE
            /\ relay' = [RelayOff EXCEPT !.state = IF features.relay THEN "idle" ELSE "off"]
            /\ open' = open \union {"workers"}
            /\ life' = IF features.kafka THEN "starting" ELSE "serving"
       ELSE life' = "failed" /\ UNCHANGED <<subscribed, relay, open>>
    /\ telemetry' = Logged(telemetry)
    /\ UNCHANGED <<features, boots, toStop, rows, observed, publisher>>

\* publisher.start(): it reaches the cluster, or the start-up fails.
StartPublisher(reached) ==
    /\ life = "starting" /\ subscribed
    /\ IF reached THEN publisher' = [publisher EXCEPT !.up = TRUE] /\ life' = "serving"
                  ELSE life' = "failed" /\ UNCHANGED publisher
    /\ telemetry' = Logged(telemetry)
    /\ UNCHANGED <<features, boots, toStop, subscribed, relay, rows, observed, open>>

-----------------------------------------------------------------------------
(* While it serves.                                                        *)

\* A request commits an event to the outbox, on a connection of the engine's pool.
CommitEvent(w) ==
    /\ life = "serving" /\ rows[w] = "none"
    /\ rows' = [rows EXCEPT ![w] = "pending"] /\ open' = open \union {Engine}
    /\ UNCHANGED <<life, features, boots, toStop, subscribed, relay, observed, publisher, telemetry>>

\* A request uses a pool or opens a stream; it logs.
UseResource(p) ==
    /\ life = "serving" /\ p \in (Pools \union {Engine, "streams"}) \ open
    /\ open' = open \union {p} /\ telemetry' = Logged(telemetry)
    /\ UNCHANGED <<life, features, boots, toStop, subscribed, relay, rows, observed, publisher>>

\* A record is handed to the producer, which keeps it in memory until its batch is sent.
PublishRecord ==
    /\ life = "serving" /\ publisher.up /\ ~publisher.waiting
    /\ publisher' = [publisher EXCEPT !.waiting = TRUE]
    /\ UNCHANGED <<life, features, boots, toStop, subscribed, relay, rows, observed, open, telemetry>>

\* The driver sends its batch; the telemetry processors export theirs.
SendBatch ==
    /\ publisher.waiting /\ publisher' = [publisher EXCEPT !.waiting = FALSE]
    /\ UNCHANGED <<life, features, boots, toStop, subscribed, relay, rows, observed, open, telemetry>>
ExportBatch ==
    /\ telemetry.queued /\ telemetry' = [telemetry EXCEPT !.queued = FALSE]
    /\ UNCHANGED <<life, features, boots, toStop, subscribed, relay, rows, observed, publisher, open>>

\* The relay: a pass claims a row,
RelayClaim(w) ==
    /\ relay.state = "idle" /\ rows[w] = "pending"
    /\ relay' = [state |-> "claimed", row |-> w] /\ open' = open \union {Engine}
    /\ UNCHANGED <<life, features, boots, toStop, subscribed, rows, observed, publisher, telemetry>>

\* publishes it on the bus, where no subscriber at all is a success and a failed one is not,
RelayDeliver(succeeds) ==
    /\ relay.state = "claimed"
    /\ IF ~subscribed \/ succeeds THEN relay' = [relay EXCEPT !.state = "delivered"]
                                  ELSE relay' = [RelayOff EXCEPT !.state = "idle"]
    /\ observed' = IF subscribed /\ succeeds THEN observed \union {relay.row} ELSE observed
    /\ UNCHANGED <<life, features, boots, toStop, subscribed, rows, publisher, open, telemetry>>

\* and deletes the row in the transaction that claimed it.
RelaySettle ==
    /\ relay.state = "delivered"
    /\ rows' = [rows EXCEPT ![relay.row] = "deleted"] /\ relay' = [RelayOff EXCEPT !.state = "idle"]
    /\ UNCHANGED <<life, features, boots, toStop, subscribed, observed, publisher, open, telemetry>>

-----------------------------------------------------------------------------
(* Shutdown.                                                               *)

\* mutant: the bus is emptied while the relay still runs.
BusFirst == <<"publisher", "hubs", "relay", "idempotency", "guard", "locks", "health",
              "workers", "telemetry">>

\* mutant: telemetry is closed before the workers are.
TelemetryEarly == <<"publisher", "relay", "hubs", "idempotency", "guard", "locks", "health",
                    "telemetry", "workers">>

\* What follows the yield, in order.
ShutdownSteps == <<"publisher", "relay", "hubs", "idempotency", "guard", "locks", "health",
                   "workers", "telemetry">>

\* The server has stopped taking requests and asks the lifespan to end.
Terminate ==
    /\ life = "serving" /\ life' = "stopping" /\ toStop' = ShutdownSteps
    /\ UNCHANGED <<features, boots, subscribed, relay, rows, observed, publisher, open, telemetry>>

StopStep(s) ==
    /\ life = "stopping" /\ toStop # <<>> /\ Head(toStop) = s
    /\ toStop' = Tail(toStop)
    /\ life' = IF Len(toStop) = 1 THEN "stopped" ELSE life
    /\ UNCHANGED <<features, boots, rows, observed>>

\* publisher.stop() forgets the producer and flushes it.
StopPublisher ==
    /\ StopStep("publisher")
    /\ publisher' = [up |-> FALSE, waiting |-> FALSE] /\ telemetry' = Logged(telemetry)
    /\ UNCHANGED <<subscribed, relay, open>>

\* The flush raises: nothing after it in the lifespan runs.
StopPublisherFails ==
    /\ life = "stopping" /\ toStop # <<>> /\ Head(toStop) = "publisher" /\ publisher.up
    /\ life' = "failed" /\ toStop' = <<>> /\ publisher' = [publisher EXCEPT !.up = FALSE]
    /\ UNCHANGED <<features, boots, subscribed, relay, rows, observed, open, telemetry>>

\* relay.stop() cancels the task and waits while its transaction is rolled back.
StopRelay ==
    /\ StopStep("relay")
    /\ relay' = RelayOff /\ telemetry' = Logged(telemetry)
    /\ UNCHANGED <<subscribed, publisher, open>>

\* event_bus.clear(), event_stream_hub.close(), room_registry.close(): no await between them.
CloseHubs ==
    /\ StopStep("hubs")
    /\ subscribed' = FALSE /\ open' = open \ {"streams"} /\ telemetry' = Logged(telemetry)
    /\ UNCHANGED <<relay, publisher>>

\* Each pool is closed; a server that is gone is logged, not raised.
ClosePool(p) ==
    /\ StopStep(p)
    /\ open' = open \ {p} /\ telemetry' = Logged(telemetry)
    /\ UNCHANGED <<subscribed, relay, publisher>>

StopWorkers ==
    /\ StopStep("workers")
    /\ open' = open \ {"workers"} /\ telemetry' = Logged(telemetry)
    /\ UNCHANGED <<subscribed, relay, publisher>>

\* shutdown_observability unbinds the forwarder and flushes; past the timeout the queue is lost.
StopTelemetry(inTime) ==
    /\ StopStep("telemetry")
    /\ telemetry' = [telemetry EXCEPT !.bound = FALSE, !.queued = telemetry.queued /\ ~inTime]
    /\ UNCHANGED <<subscribed, relay, publisher, open>>

\* The process ends, orderly or not, and everything in its memory goes with it.
ProcessEnds ==
    /\ life # "down"
    /\ life' = "down" /\ features' = Nothing /\ toStop' = <<>> /\ subscribed' = FALSE
    /\ relay' = RelayOff /\ publisher' = [up |-> FALSE, waiting |-> FALSE]
    /\ open' = {} /\ telemetry' = NoTelemetry
    /\ UNCHANGED <<boots, rows, observed>>

LifeNext ==
    \/ \E f \in Features : Import(f)
    \/ \E b \in BOOLEAN : StartUp(b) \/ StartPublisher(b) \/ RelayDeliver(b) \/ StopTelemetry(b)
    \/ \E w \in EventRows : CommitEvent(w) \/ RelayClaim(w)
    \/ \E p \in Pools \union {Engine, "streams"} : UseResource(p)
    \/ PublishRecord \/ SendBatch \/ ExportBatch \/ RelaySettle
    \/ Terminate \/ StopPublisher \/ StopPublisherFails \/ StopRelay \/ CloseHubs
    \/ \E p \in Pools : ClosePool(p)
    \/ StopWorkers \/ ProcessEnds

LifeSpec == LifeInit /\ [][LifeNext]_lifeVars

-----------------------------------------------------------------------------
(* Properties.                                                             *)

\* Start, stop, failure and death of the process never lose an event: a row the relay has
\* deleted reached the subscribers, though a bus without subscribers counts as delivery.
NoEventIntoAnEmptyBus == \A w \in EventRows : rows[w] = "deleted" => w \in observed

\* A lifespan that ran to its end leaves no relay, producer, stream or worker behind, no record
\* in the producer's memory, no line that telemetry was closed too early to take, and of the
\* pools only the database engine's, which nothing disposes of before the process ends.
OrderlyShutdown ==
    life = "stopped" => /\ relay = RelayOff /\ open \subseteq {Engine} /\ ~publisher.up
                        /\ ~publisher.waiting /\ ~telemetry.missed
=============================================================================
