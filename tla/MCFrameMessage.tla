--------------------------- MODULE MCFrameMessage ---------------------------
(* Two goroutines sharing one message of each type.                        *)
EXTENDS FrameMessage, TLC

CONSTANTS p1, p2, up, down

MCMsgType == up :> "UplinkFrameLog" @@ down :> "DownlinkFrameLog"

=============================================================================
