---------------------------- MODULE MCRequestLog ----------------------------
(* The request_log tailer instantiated for TLC: one known field, "request". *)
EXTENDS StreamTail, Specializations, TLC

MCFields == RequestLogFields

\* A request entry, a corrupt one, and an entry of a field no block tests.
MCRecordValues ==
    { "request" :> Valid,
      "request" :> Corrupt,
      "other" :> Valid }

\* The request_log main(): the same loop as event_log with one field block.
RequestLogInit == Init

RequestLogNext == Next

RequestLogSpec ==
    /\ RequestLogInit /\ [][RequestLogNext]_vars
    /\ WF_vars(XRead)
    /\ WF_vars(ProcessMessage)

=============================================================================
