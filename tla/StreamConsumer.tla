--------------------------- MODULE StreamConsumer ---------------------------
(***************************************************************************)
(* What a stream tailer promises, without batches or cursors: each run of  *)
(* the process consumes the stream front to back, one entry at a time,    *)
(* printing the kinds the demultiplexer selects for that entry.  A run may *)
(* halt (log.Fatal); a new run starts again at the beginning of the        *)
(* stream, since nothing is persisted.                                     *)
(***************************************************************************)
EXTENDS Demux, Naturals, Sequences

CONSTANTS
    RecordValues,   \* the entry values a producer may add
    MaxRecords,     \* bound on the stream length
    MaxId,          \* bound on entry ids
    MaxRestarts     \* bound on process restarts

VARIABLES
    log,    \* the stream: a sequence of [id, values], ids increasing
    pos,    \* how many entries the current run has consumed
    out,    \* everything printed, as <<run, id, kind>> triples
    alive,  \* the current run has not halted
    run     \* number of the current run

avars == <<log, pos, out, alive, run>>

\* The printed lines for entry e in run r.
Printed(r, e) == [k \in 1..Len(Emits(e.values)) |-> <<r, e.id, Emits(e.values)[k]>>]

AInit ==
    /\ log = <<>>
    /\ pos = 0
    /\ out = <<>>
    /\ alive = TRUE
    /\ run = 0

Produce ==
    /\ Len(log) < MaxRecords
    /\ \E id \in 1..MaxId, v \in RecordValues :
         /\ \A i \in DOMAIN log : log[i].id < id
         /\ log' = Append(log, [id |-> id, values |-> v])
    /\ UNCHANGED <<pos, out, alive, run>>

Consume ==
    /\ alive
    /\ pos < Len(log)
    /\ pos' = pos + 1
    /\ out' = out \o Printed(run, log[pos + 1])
    /\ alive' = ~DecodeFails(log[pos + 1].values)
    /\ UNCHANGED <<log, run>>

Halt ==
    /\ alive
    /\ alive' = FALSE
    /\ UNCHANGED <<log, pos, out, run>>

Restart ==
    /\ run < MaxRestarts
    /\ run' = run + 1
    /\ pos' = 0
    /\ alive' = TRUE
    /\ UNCHANGED <<log, out>>

ANext == Produce \/ Consume \/ Halt \/ Restart

ASpec == AInit /\ [][ANext]_avars

=============================================================================
