-------------------------------- MODULE Exports --------------------------------
(***************************************************************************)
(* A streamed export: stream_ndjson_export (src/streaming/export.py) over    *)
(* chunk_records (ndjson.py) and with_readahead (backpressure.py), as        *)
(* GET /exports/users (src/api/v1/exports.py) serves it.                     *)
(*                                                                          *)
(* The producer task reads the cursor, fills a chunk, counts it and puts it  *)
(* on a bounded queue; the response body takes chunks from the queue.  A     *)
(* chunk is the number of records in it.                                     *)
(***************************************************************************)
EXTENDS Integers, Sequences

CONSTANTS
    ExportRows,   \* records the table has
    ChunkRecords, \* records that reach chunk_bytes
    Readahead     \* EXPORT_READAHEAD_CHUNKS

\* chunk_records and with_readahead refuse others.
ASSUME ExportsAssumption == ExportRows \in Nat /\ ChunkRecords \in Nat \ {0} /\ Readahead \in Nat \ {0}

VARIABLES
    rowsRead,   \* records the cursor has produced
    cursor,     \* open, failed (it raised), ended, or closed by closing_iterator
    buffered,   \* records encoded into the chunk being filled
    emitted,    \* RecordCount.emitted
    chunk,      \* the chunk the producer is putting, or 0
    producer,   \* pump, finish (putting _Finished), done
    failure,    \* what _Finished carries: none, source, budget
    chunkQueue, \* the queue; 0 is _Finished
    body,       \* streaming, ended (terminal record written), gone (client left)
    delivered,  \* history: records in the body
    terminal    \* the terminal record: its kind and count

exportVars == <<rowsRead, cursor, buffered, emitted, chunk, producer, failure, chunkQueue, body,
                delivered, terminal>>

Rows0 == 0..ExportRows

ExportsTypeOK ==
    /\ rowsRead \in Rows0 /\ buffered \in 0..ChunkRecords /\ emitted \in Rows0
    /\ cursor \in {"open", "failed", "ended", "closed"}
    /\ chunk \in 0..ChunkRecords /\ delivered \in Rows0
    /\ producer \in {"pump", "finish", "done"} /\ failure \in {"none", "source", "budget"}
    /\ chunkQueue \in Seq(0..ChunkRecords) /\ Len(chunkQueue) <= Readahead
    /\ body \in {"streaming", "ended", "gone"}
    /\ terminal \in [kind : {"none", "complete", "failed"}, records : Rows0]

ExportsInit ==
    /\ rowsRead = 0 /\ cursor = "open" /\ buffered = 0 /\ emitted = 0 /\ chunk = 0
    /\ producer = "pump" /\ failure = "none" /\ chunkQueue = <<>>
    /\ body = "streaming" /\ delivered = 0
    /\ terminal = [kind |-> "none", records |-> 0]

-----------------------------------------------------------------------------
(* The producer.                                                           *)

Pumping == producer = "pump" /\ chunk = 0

\* _take: the chunk is counted as it is yielded.
Take(n) == chunk' = n /\ emitted' = emitted + n /\ buffered' = 0

\* A record is read and encoded; the one that reaches the threshold flushes the chunk.
ReadRecord ==
    /\ Pumping /\ cursor = "open" /\ rowsRead < ExportRows
    /\ rowsRead' = rowsRead + 1
    /\ IF buffered + 1 >= ChunkRecords THEN Take(buffered + 1)
       ELSE buffered' = buffered + 1 /\ UNCHANGED <<chunk, emitted>>
    /\ UNCHANGED <<cursor, producer, failure, chunkQueue, body, delivered, terminal>>

\* mutant: what is buffered is dropped.
ForgetRest == buffered' = 0 /\ UNCHANGED <<chunk, emitted>>

\* What is buffered is handed on before the end, or the error, is let through.
FlushRest == Take(buffered)

\* The cursor has no more rows, or raises.
CursorStops ==
    /\ Pumping /\ cursor = "open"
    /\ \/ cursor' = "ended" /\ rowsRead = ExportRows
       \/ cursor' = "failed"
    /\ FlushRest
    /\ UNCHANGED <<rowsRead, producer, failure, chunkQueue, body, delivered, terminal>>

\* queue.put of a chunk: backpressure.
PutChunk ==
    /\ producer = "pump" /\ chunk > 0 /\ Len(chunkQueue) < Readahead
    /\ chunkQueue' = Append(chunkQueue, chunk) /\ chunk' = 0
    /\ UNCHANGED <<rowsRead, cursor, buffered, emitted, producer, failure, body, delivered, terminal>>

\* _pump returns or raises: _Finished goes behind what is queued.
PumpEnds ==
    /\ Pumping /\ cursor \in {"ended", "failed"}
    /\ producer' = "finish"
    /\ failure' = IF cursor = "failed" THEN "source" ELSE "none"
    /\ cursor' = "closed"
    /\ UNCHANGED <<rowsRead, buffered, emitted, chunk, chunkQueue, body, delivered, terminal>>

\* deadline(budget) fires at the await the producer is suspended in: the read, or the put on
\* a full queue, whose chunk is then put nowhere.  A cancellation is no Exception, so nothing
\* is flushed.
BudgetExpires ==
    /\ producer = "pump"
    /\ \/ chunk = 0 /\ cursor = "open"
       \/ chunk > 0 /\ Len(chunkQueue) = Readahead
    /\ producer' = "finish" /\ failure' = "budget" /\ cursor' = "closed"
    /\ chunk' = 0 /\ buffered' = 0
    /\ UNCHANGED <<rowsRead, emitted, chunkQueue, body, delivered, terminal>>

PutFinished ==
    /\ producer = "finish" /\ Len(chunkQueue) < Readahead
    /\ chunkQueue' = Append(chunkQueue, 0) /\ producer' = "done"
    /\ UNCHANGED <<rowsRead, cursor, buffered, emitted, chunk, failure, body, delivered, terminal>>

-----------------------------------------------------------------------------
(* The response body.                                                      *)

SendChunk ==
    /\ body = "streaming" /\ chunkQueue # <<>> /\ Head(chunkQueue) > 0
    /\ delivered' = delivered + Head(chunkQueue)
    /\ chunkQueue' = Tail(chunkQueue)
    /\ UNCHANGED <<rowsRead, cursor, buffered, emitted, chunk, producer, failure, body, terminal>>

\* completion_record or failure_record, with the count so far.
TerminalRecord == [kind |-> IF failure = "none" THEN "complete" ELSE "failed", records |-> emitted]

\* _Finished: the scope is left, and the terminal record written.
SendTerminal ==
    /\ body = "streaming" /\ chunkQueue # <<>> /\ Head(chunkQueue) = 0
    /\ body' = "ended" /\ chunkQueue' = <<>>
    /\ terminal' = TerminalRecord
    /\ UNCHANGED <<rowsRead, cursor, buffered, emitted, chunk, producer, failure, delivered>>

\* mutant: the generator is left for the garbage collector.
LeaveProducer == UNCHANGED <<producer, cursor>>

\* aclosing and TaskScope with CANCEL: the producer has ended before the body is closed.
StopProducer == producer' = "done" /\ cursor' = "closed"

\* The client leaves: nothing more is written.
ClientLeaves ==
    /\ body = "streaming"
    /\ body' = "gone" /\ chunkQueue' = <<>> /\ chunk' = 0 /\ buffered' = 0
    /\ StopProducer
    /\ UNCHANGED <<rowsRead, emitted, failure, delivered, terminal>>

ExportsNext ==
    \/ ReadRecord \/ CursorStops \/ PutChunk \/ PumpEnds \/ BudgetExpires \/ PutFinished
    \/ SendChunk \/ SendTerminal \/ ClientLeaves

ExportsSpec == ExportsInit /\ [][ExportsNext]_exportVars

-----------------------------------------------------------------------------
(* Properties.                                                             *)

\* A body that ends in `complete` has every row, one that ends in `failed` because the
\* source raised has every row that was read, and each says so; no producer or cursor
\* outlives the body, and what is in memory is at most the queue (the `readahead` items of
\* src/streaming/backpressure.py) and, besides it, a chunk on its way into the queue and the
\* chunk being filled.
ExportIsHonest ==
    /\ terminal.kind = "complete" => delivered = ExportRows /\ terminal.records = delivered
    /\ terminal.kind = "failed" /\ failure = "source" =>
          delivered = rowsRead /\ terminal.records = delivered
    /\ body \in {"ended", "gone"} => producer = "done" /\ cursor = "closed"
    /\ body = "streaming" /\ failure # "budget" =>
          rowsRead - delivered <= (Readahead + 1) * ChunkRecords + buffered

\* "`records` describes the body above it exactly" (docs/streaming.md).
TerminalCountsBody == terminal.kind # "none" => terminal.records = delivered
=============================================================================
