--------------------------- MODULE Specializations ---------------------------
(***************************************************************************)
(* The three tailers of src/examples differ only in their default stream   *)
(* key, the known field names and the order of their `if` blocks.          *)
(***************************************************************************)

\* event_log: device events from "device:stream:event".
EventLogFields ==
    <<"up", "join", "ack", "txack", "log", "status", "location", "integration">>

\* meta_log: uplink and downlink meta-data from "stream:meta".
MetaLogFields == <<"up", "down">>

\* request_log: API request log from "api:stream:request".
RequestLogFields == <<"request">>

=============================================================================
