---------------------------- MODULE MCStreamTail ----------------------------
(* The event_log tailer instantiated for TLC. *)
EXTENDS StreamTail, Specializations, TLC

MCFields == EventLogFields

\* Entries a producer adds: one known field, two known fields (both
\* decodable, or the second corrupt), a corrupt field, and a field no block
\* tests.  Redis entries always carry at least one field.
MCRecordValues ==
    { "up" :> Valid,
      "up" :> Valid @@ "join" :> Valid,
      "up" :> Valid @@ "join" :> Corrupt,
      "status" :> Corrupt,
      "foo" :> Valid }

=============================================================================
