----------------------------- MODULE StreamTail -----------------------------
(***************************************************************************)
(* The tail loop of src/examples/*/go/main.go: a single goroutine that     *)
(* repeatedly calls XREAD on one Redis stream from `lastID`, COUNT 10,     *)
(* BLOCK 0, then walks the returned entries in order, setting `lastID` to   *)
(* each entry's id and running the demultiplexer (module Demux) on it.     *)
(* Every error ends the process with log.Fatal; a process restart starts   *)
(* again from lastID = "0".  The producer (XADD by the ChirpStack server)  *)
(* runs concurrently with the loop.                                        *)
(*                                                                         *)
(* Entry ids are abstracted to integers: Redis assigns strictly increasing *)
(* ids on XADD, "0" is below every id, and XREAD returns the entries whose *)
(* id is greater than the one given.                                       *)
(***************************************************************************)
EXTENDS Demux, Naturals, Sequences, FiniteSets

CONSTANTS
    RecordValues,   \* the entry values a producer may add
    MaxRecords,     \* bound on the stream length
    MaxId,          \* bound on entry ids
    MaxRestarts,    \* bound on process restarts
    Count           \* XReadArgs.Count: at most this many entries per read

VARIABLES
    stream,  \* the Redis stream: a sequence of [id, values], ids increasing
    lastID,  \* the cursor of the running process; 0 stands for "0"
    batch,   \* resp[0].Messages not yet walked by the range loop
    pc,      \* "running" or "dead" (after log.Fatal)
    fatal,   \* why the current process died: "none", "broker" or "decode"
    sink,    \* everything printed, as <<run, id, kind>> triples
    run      \* number of the current process run

vars == <<stream, lastID, batch, pc, fatal, sink, run>>

Entry == [id : 1..MaxId, values : RecordValues]

TypeOK ==
    /\ stream \in Seq(Entry) /\ Len(stream) <= MaxRecords
    /\ lastID \in 0..MaxId
    /\ batch \in Seq(Entry) /\ Len(batch) <= Count
    /\ pc \in {"running", "dead"}
    /\ fatal \in {"none", "broker", "decode"}
    /\ run \in 0..MaxRestarts
    /\ \A k \in DOMAIN sink :
         sink[k] \in (0..MaxRestarts) \X (1..MaxId) \X {Fields[i] : i \in DOMAIN Fields}

\* Mutant: COUNT is not sent, XREAD returns every newer entry.
XReadResultUncapped(c) == SelectSeq(stream, LAMBDA e : e.id > c)

\* Mutant: the read includes the entry at the cursor (XRANGE semantics).
XReadResultInclusive(c) ==
    LET newer == SelectSeq(stream, LAMBDA e : e.id >= c)
    IN  SubSeq(newer, 1, IF Len(newer) < Count THEN Len(newer) ELSE Count)

\* The entries XREAD returns for cursor c: those with a greater id, oldest
\* first, at most Count of them.
XReadResult(c) ==
    LET newer == SelectSeq(stream, LAMBDA e : e.id > c)
    IN  SubSeq(newer, 1, IF Len(newer) < Count THEN Len(newer) ELSE Count)

\* The lines printed for entry e by process run r.
Printed(r, e) == [k \in 1..Len(Emits(e.values)) |-> <<r, e.id, Emits(e.values)[k]>>]

Init ==
    /\ stream = <<>>
    /\ lastID = 0
    /\ batch = <<>>
    /\ pc = "running"
    /\ fatal = "none"
    /\ sink = <<>>
    /\ run = 0

\* XADD with an auto-generated id (the ChirpStack server, not in src/).
XAdd ==
    /\ Len(stream) < MaxRecords
    /\ \E id \in 1..MaxId, v \in RecordValues :
         /\ \A i \in DOMAIN stream : stream[i].id < id
         /\ stream' = Append(stream, [id |-> id, values |-> v])
    /\ UNCHANGED <<lastID, batch, pc, fatal, sink, run>>

\* Mutant: the read starts one past the cursor (an off-by-one in the id).
XReadSkipsNext ==
    /\ pc = "running"
    /\ batch = <<>>
    /\ XReadResult(lastID + 1) # <<>>
    /\ batch' = XReadResult(lastID + 1)
    /\ UNCHANGED <<stream, lastID, pc, fatal, sink, run>>

\* rdb.XRead with Block 0: waits until some entry is newer than lastID, then
\* returns exactly one stream holding up to Count entries.
XRead ==
    /\ pc = "running"
    /\ batch = <<>>
    /\ XReadResult(lastID) # <<>>
    /\ batch' = XReadResult(lastID)
    /\ UNCHANGED <<stream, lastID, pc, fatal, sink, run>>

\* XRead returns an error, or a response without exactly one stream:
\* log.Fatal.
XReadFails ==
    /\ pc = "running"
    /\ batch = <<>>
    /\ pc' = "dead"
    /\ fatal' = "broker"
    /\ UNCHANGED <<stream, lastID, batch, sink, run>>

\* One iteration of `for _, msg := range resp[0].Messages`: lastID = msg.ID,
\* then the field blocks; a failing Unmarshal is log.Fatal.
ProcessMessage ==
    /\ pc = "running"
    /\ batch # <<>>
    /\ LET msg == Head(batch) IN
         /\ lastID' = msg.id
         /\ sink' = sink \o Printed(run, msg)
         /\ batch' = Tail(batch)
         /\ IF DecodeFails(msg.values)
              THEN pc' = "dead" /\ fatal' = "decode"
              ELSE UNCHANGED <<pc, fatal>>
    /\ UNCHANGED <<stream, run>>

\* The process is stopped (log.Fatal, or an external kill between two
\* steps of the model) and started again: main() begins with lastID := "0".
\* A kill in the middle of one entry's prints is not modelled; it would
\* only cut that entry's prints short.
Restart ==
    /\ run < MaxRestarts
    /\ run' = run + 1
    /\ lastID' = 0
    /\ batch' = <<>>
    /\ pc' = "running"
    /\ fatal' = "none"
    /\ UNCHANGED <<stream, sink>>

Next ==
    \/ XAdd
    \/ XRead
    \/ XReadFails
    \/ ProcessMessage
    \/ Restart

\* The loop is one goroutine that only ever blocks inside XREAD, and Redis
\* answers a BLOCK 0 read as soon as a newer entry exists: both steps of the
\* loop are weakly fair.  The producer, broker failures and restarts are not.
Spec ==
    /\ Init /\ [][Next]_vars
    /\ WF_vars(XRead)
    /\ WF_vars(ProcessMessage)

-----------------------------------------------------------------------------
(* Refinement: the tail loop implements StreamConsumer.  The abstract      *)
(* position is the number of stream entries at or below the cursor.        *)

Consumed == Cardinality({i \in DOMAIN stream : stream[i].id <= lastID})

Abstract == INSTANCE StreamConsumer
              WITH log <- stream, pos <- Consumed, out <- sink,
                   alive <- (pc = "running")

\* Batching, the id cursor, and the walk of each batch together consume
\* the stream exactly as a one-entry-at-a-time reader from the start would:
\* no entry is skipped, none is printed twice in one run, and a restart
\* replays the stream from the beginning.
ImplementsStreamConsumer == Abstract!ASpec

\* Every entry added to the stream is eventually walked by the running
\* process, unless the process dies: the blocking read wakes up for new
\* entries and the range loop drains every batch.
EveryEntryConsumed ==
    \A n \in 1..MaxRecords :
        (Len(stream) >= n /\ pc = "running")
            ~> (pc = "dead" \/ (Len(stream) >= n /\ lastID >= stream[n].id))

\* While the process runs, the part of the last XREAD reply not yet walked
\* is exactly the next entries after lastID, oldest first, and at most
\* COUNT of them: XADDs that arrive while a batch is walked, and restarts,
\* never leave a gap or a repeat between the cursor and the batch.
BatchIsNextSlice ==
    pc = "running" =>
        LET newer == SelectSeq(stream, LAMBDA e : e.id > lastID)
        IN  /\ Len(batch) <= Count
            /\ batch = SubSeq(newer, 1, Len(batch))

-----------------------------------------------------------------------------
(* Claims of spec.md the code is checked against.                           *)

\* spec.md 4.2 and 7: a payload that fails to decode is scoped to its own
\* entry; it is logged, the cursor moves past it and the loop goes on.  So
\* the process only ever dies of a broker error.
DecodeErrorIsScoped == pc = "dead" => fatal = "broker"

\* spec.md 4.2 and 8: the demultiplexer dispatches on the first known field
\* in priority order, so each entry is printed at most once per run (an
\* entry with both "up" and "join" prints only "up").
AtMostOnePrintPerEntry ==
    \A i, j \in DOMAIN sink :
        i < j /\ sink[i][1] = sink[j][1] => sink[i][2] # sink[j][2]

=============================================================================
