\* Two goroutines, one UplinkFrameLog and one DownlinkFrameLog, three calls
\* per goroutine: enough for both goroutines to race through ProtoReflect on
\* the same message, with Resets and Descriptor calls in between.
\* Here a Reset may race with any other call on the same message.
CONSTANTS
    p1 = p1
    p2 = p2
    up = up
    down = down
    Procs = {p1, p2}
    Msgs = {up, down}
    MsgType <- MCMsgType
    Nil = Nil
    MaxCalls = 3
    RacyReset = TRUE

SPECIFICATION Spec

PROPERTY BindingSurvivesReset

\* The program stops once every goroutine has made its calls.
CHECK_DEADLOCK FALSE
