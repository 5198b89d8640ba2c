------------------------------- MODULE Demux -------------------------------
(***************************************************************************)
(* The record demultiplexer of the stream tailers in src/examples: the     *)
(* chain of `if b, ok := msg.Values["<field>"].(string); ok { ... }` blocks  *)
(* that every tailer runs on one stream entry.                             *)
(*                                                                         *)
(* A stream entry's values are a function from the field names present in  *)
(* the entry to a payload.  The payload is abstracted to whether           *)
(* proto.Unmarshal accepts it (Valid) or returns an error (Corrupt).  The  *)
(* go-redis client always returns field values as Go strings, so the type  *)
(* assertion `.(string)` succeeds exactly when the field is present.       *)
(***************************************************************************)
EXTENDS Sequences, SequencesExt, Naturals

CONSTANTS
    Fields,     \* the known field names, in the order the code tests them
    Valid,      \* a payload proto.Unmarshal decodes
    Corrupt     \* a payload proto.Unmarshal rejects

Payload == {Valid, Corrupt}

\* A known field the entry carries whose bytes fail to unmarshal.
FailsOn(values, f) == f \in DOMAIN values /\ values[f] = Corrupt

\* Index in Fields of the first block whose Unmarshal fails (0 if none):
\* that block calls log.Fatal and no later block runs.
FailIndex(values) == SelectInSeq(Fields, LAMBDA f : FailsOn(values, f))

DecodeFails(values) == FailIndex(values) # 0

\* The blocks that run before the process stops (all of them if none fails).
Reached(values) ==
    IF DecodeFails(values) THEN SubSeq(Fields, 1, FailIndex(values) - 1)
                           ELSE Fields

\* The kinds printed for one entry, in print order: every present field of
\* a block that runs is unmarshalled and printed; the blocks are independent
\* `if`s, not an `else if` chain, so an entry carrying several known
\* fields prints one banner for each of them.
Emits(values) == SelectSeq(Reached(values), LAMBDA f : f \in DOMAIN values)

=============================================================================
