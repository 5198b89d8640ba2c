---------------------------- MODULE FrameMessage ----------------------------
(* The generated runtime glue of stream/frame.pb.go, shared by concurrent   *)
(* goroutines: the package init that builds the file descriptor and fills  *)
(* the MessageInfo table, the lazy MessageInfo store of ProtoReflect, the   *)
(* Reset that re-stores it, and the gzip'd raw descriptor computed under a  *)
(* sync.Once by Descriptor().                                               *)
(*                                                                          *)
(* A *MessageInfo is represented by its index in msgTypes (0 is nil).  The  *)
(* MessageState's info pointer is read and written atomically by protoimpl  *)
(* (LoadMessageInfo, StoreMessageInfo), so a load and a store are single    *)
(* steps; the check-then-store of ProtoReflect is two.                      *)
EXTENDS Naturals, FiniteSets, Sequences

CONSTANTS
    Procs,      \* goroutines of the program using the messages
    Msgs,       \* message objects
    MsgType,    \* the Go type of each message object
    Nil,        \* a nil *UplinkFrameLog or *DownlinkFrameLog
    MaxCalls,   \* bound on the calls one goroutine makes
    RacyReset   \* whether a Reset may race with other uses of the message

\* The message types of the file, in msgTypes order.
TypeNames == <<"UplinkFrameLog", "DownlinkFrameLog">>

\* The struct fields of the two messages in field-number order, with the
\* kind of their Go type and, for a message or enum field, the type named.
Fields == <<
    [msg |-> "UplinkFrameLog", name |-> "phy_payload", kind |-> "bytes", type |-> ""],
    [msg |-> "UplinkFrameLog", name |-> "tx_info", kind |-> "message", type |-> "gw.UplinkTxInfo"],
    [msg |-> "UplinkFrameLog", name |-> "rx_info", kind |-> "repeated", type |-> "gw.UplinkRxInfo"],
    [msg |-> "UplinkFrameLog", name |-> "f_type", kind |-> "enum", type |-> "common.FType"],
    [msg |-> "UplinkFrameLog", name |-> "dev_addr", kind |-> "string", type |-> ""],
    [msg |-> "UplinkFrameLog", name |-> "dev_eui", kind |-> "string", type |-> ""],
    [msg |-> "UplinkFrameLog", name |-> "time", kind |-> "message", type |-> "google.protobuf.Timestamp"],
    [msg |-> "UplinkFrameLog", name |-> "plaintext_f_opts", kind |-> "bool", type |-> ""],
    [msg |-> "UplinkFrameLog", name |-> "plaintext_frm_payload", kind |-> "bool", type |-> ""],
    [msg |-> "DownlinkFrameLog", name |-> "time", kind |-> "message", type |-> "google.protobuf.Timestamp"],
    [msg |-> "DownlinkFrameLog", name |-> "phy_payload", kind |-> "bytes", type |-> ""],
    [msg |-> "DownlinkFrameLog", name |-> "tx_info", kind |-> "message", type |-> "gw.DownlinkTxInfo"],
    [msg |-> "DownlinkFrameLog", name |-> "downlink_id", kind |-> "uint32", type |-> ""],
    [msg |-> "DownlinkFrameLog", name |-> "gateway_id", kind |-> "string", type |-> ""],
    [msg |-> "DownlinkFrameLog", name |-> "f_type", kind |-> "enum", type |-> "common.FType"],
    [msg |-> "DownlinkFrameLog", name |-> "dev_addr", kind |-> "string", type |-> ""],
    [msg |-> "DownlinkFrameLog", name |-> "dev_eui", kind |-> "string", type |-> ""],
    [msg |-> "DownlinkFrameLog", name |-> "plaintext_f_opts", kind |-> "bool", type |-> ""],
    [msg |-> "DownlinkFrameLog", name |-> "plaintext_frm_payload", kind |-> "bool", type |-> ""] >>

\* What each UplinkFrameLog.Get<Field>() returns on a nil receiver.
UplinkGetterNilDefault ==
    [phy_payload |-> "nil", tx_info |-> "nil", rx_info |-> "nil",
     f_type |-> "0", dev_addr |-> "empty", dev_eui |-> "empty",
     time |-> "nil", plaintext_f_opts |-> "false",
     plaintext_frm_payload |-> "false"]

\* Mutant: GetDownlinkId returning 1 on a nil receiver.
DownlinkGetterNilDefaultIdOne ==
    [time |-> "nil", phy_payload |-> "nil", tx_info |-> "nil",
     downlink_id |-> "1", gateway_id |-> "empty", f_type |-> "0",
     dev_addr |-> "empty", dev_eui |-> "empty",
     plaintext_f_opts |-> "false", plaintext_frm_payload |-> "false"]

\* What each DownlinkFrameLog.Get<Field>() returns on a nil receiver.
DownlinkGetterNilDefault ==
    [time |-> "nil", phy_payload |-> "nil", tx_info |-> "nil",
     downlink_id |-> "0", gateway_id |-> "empty", f_type |-> "0",
     dev_addr |-> "empty", dev_eui |-> "empty",
     plaintext_f_opts |-> "false", plaintext_frm_payload |-> "false"]

GetterNilDefault ==
    [UplinkFrameLog |-> UplinkGetterNilDefault,
     DownlinkFrameLog |-> DownlinkGetterNilDefault]

\* The Go zero value of a field of each kind: what `*x = T{}` in Reset leaves.
ZeroValue(kind) ==
    CASE kind \in {"bytes", "message", "repeated"} -> "nil"
      [] kind \in {"enum", "uint32"} -> "0"
      [] kind = "string" -> "empty"
      [] kind = "bool" -> "false"

\* The fields whose type Build resolves through depIdxs, in order.
TypedFields == SelectSeq(Fields, LAMBDA f : f.type # "")

\* file_stream_frame_proto_goTypes.
GoTypes == <<"stream.UplinkFrameLog", "stream.DownlinkFrameLog", "gw.UplinkTxInfo",
             "gw.UplinkRxInfo", "common.FType", "google.protobuf.Timestamp",
             "gw.DownlinkTxInfo">>

\* Mutant: the DownlinkFrameLog time and tx_info entries swapped.
DepIdxsSwapped == <<2, 3, 4, 5, 6, 5, 4, 7, 7, 7, 7, 0>>

\* file_stream_frame_proto_depIdxs: the goTypes index of each typed field,
\* then the starts of the five sub-lists, last one first.
DepIdxs == <<2, 3, 4, 5, 5, 6, 4, 7, 7, 7, 7, 0>>

\* The field type_name sub-list is depIdxs[start:end], with start its last
\* entry and end the one before it.
FieldDepStart == DepIdxs[Len(DepIdxs)]
FieldDepEnd == DepIdxs[Len(DepIdxs) - 1]

\* The Go type Build binds to the k-th typed field.
ResolvedType(k) == GoTypes[DepIdxs[FieldDepStart + k] + 1]

VARIABLES
    initDone,   \* package init has run (goroutines start only after it)
    file,       \* File_stream_frame_proto != nil
    goTypes,    \* file_stream_frame_proto_goTypes still holds its table
    msgTypes,   \* file_stream_frame_proto_msgTypes: the type each MessageInfo describes
    fieldTypes, \* the Go type each MessageInfo binds to each typed field
    info,       \* each message's MessageState info pointer, an index or 0
    pc,         \* each goroutine's place in a call
    target,     \* the message a goroutine's ProtoReflect works on
    calls,      \* calls made by each goroutine
    rawDescData \* file_stream_frame_proto_rawDescData: "nil" or "gz"

vars == <<initDone, file, goTypes, msgTypes, fieldTypes, info, pc, target, calls,
          rawDescData>>

PCs == {"idle", "pr_store", "holding", "reset_store"}

TypeOK ==
    /\ initDone \in BOOLEAN /\ file \in BOOLEAN /\ goTypes \in BOOLEAN
    /\ msgTypes \in [1..2 -> {"zero"} \cup {TypeNames[i] : i \in 1..2}]
    /\ fieldTypes \in [1..Len(TypedFields) -> {"none"} \cup {GoTypes[i] : i \in 1..Len(GoTypes)}]
    /\ info \in [Msgs -> 0..2]
    /\ pc \in [Procs -> PCs]
    /\ target \in [Procs -> Msgs \cup {Nil}]
    /\ calls \in [Procs -> 0..MaxCalls]
    /\ rawDescData \in {"nil", "gz"}

\* The index ProtoReflect and Reset of a message's type take into msgTypes:
\* &file_stream_frame_proto_msgTypes[0] for UplinkFrameLog, [1] for
\* DownlinkFrameLog (1 and 2 here).
TypeIndex(x) == IF MsgType[x] = "UplinkFrameLog" THEN 1 ELSE 2

Init ==
    /\ initDone = FALSE /\ file = FALSE /\ goTypes = TRUE
    /\ msgTypes = [i \in 1..2 |-> "zero"]
    /\ fieldTypes = [k \in 1..Len(TypedFields) |-> "none"]
    /\ info = [x \in Msgs |-> 0]
    /\ pc = [p \in Procs |-> "idle"]
    /\ target = [p \in Procs |-> Nil]
    /\ calls = [p \in Procs |-> 0]
    /\ rawDescData = "nil"

\* init() -> file_stream_frame_proto_init(): return if the file is already
\* built; otherwise TypeBuilder.Build() registers the descriptor and fills
\* every MessageInfo from goTypes, and the two tables are dropped.
FileInit ==
    /\ ~initDone
    /\ initDone' = TRUE
    /\ IF file
         THEN UNCHANGED <<file, goTypes, msgTypes, fieldTypes>>
         ELSE /\ goTypes
              /\ msgTypes' = [i \in 1..2 |-> TypeNames[i]]
              /\ fieldTypes' = [k \in 1..Len(TypedFields) |-> ResolvedType(k)]
              /\ file' = TRUE
              /\ goTypes' = FALSE
    /\ UNCHANGED <<info, pc, target, calls, rawDescData>>

\* A goroutine starts a call: after package init, below its bound, idle.
Starts(p) == initDone /\ pc[p] = "idle" /\ calls[p] < MaxCalls

\* Some goroutine is between the two steps of a Reset of x.
ResetRunning(x) == \E q \in Procs : pc[q] = "reset_store" /\ target[q] = x

\* ProtoReflect on x: on a nil receiver mi.MessageOf(x) returns a wrapper
\* and touches no state; otherwise MessageStateOf(x) and LoadMessageInfo().
ProtoReflect(p, x) ==
    /\ Starts(p)
    /\ x # Nil => RacyReset \/ ~ResetRunning(x)
    /\ calls' = [calls EXCEPT ![p] = @ + 1]
    /\ IF x = Nil
         THEN UNCHANGED <<pc, target>>
         ELSE /\ target' = [target EXCEPT ![p] = x]
              /\ pc' = [pc EXCEPT ![p] = IF info[x] = 0 THEN "pr_store" ELSE "holding"]
    /\ UNCHANGED <<initDone, file, goTypes, msgTypes, fieldTypes, info, rawDescData>>

\* Mutant: the message's ProtoReflect stores the other type's MessageInfo.
ProtoReflectStoreWrongIndex(p) ==
    /\ pc[p] = "pr_store"
    /\ info' = [info EXCEPT ![target[p]] = 3 - TypeIndex(target[p])]
    /\ pc' = [pc EXCEPT ![p] = "holding"]
    /\ UNCHANGED <<initDone, file, goTypes, msgTypes, fieldTypes, target, calls, rawDescData>>

\* The load saw nil: StoreMessageInfo(mi), then return ms.  Another
\* goroutine may have stored in between; it stored the same mi.
ProtoReflectStore(p) ==
    /\ pc[p] = "pr_store"
    /\ info' = [info EXCEPT ![target[p]] = TypeIndex(target[p])]
    /\ pc' = [pc EXCEPT ![p] = "holding"]
    /\ UNCHANGED <<initDone, file, goTypes, msgTypes, fieldTypes, target, calls, rawDescData>>

\* The caller is done with the returned protoreflect.Message.
Release(p) ==
    /\ pc[p] = "holding"
    /\ pc' = [pc EXCEPT ![p] = "idle"]
    /\ target' = [target EXCEPT ![p] = Nil]
    /\ UNCHANGED <<initDone, file, goTypes, msgTypes, fieldTypes, info, calls, rawDescData>>

\* No goroutine other than p is working on x.  The protobuf API requires it
\* of a Reset and of anything done to x while one runs; with RacyReset the
\* program breaks that rule and the two race.
Exclusive(p, x) ==
    RacyReset \/ \A q \in Procs \ {p} : pc[q] = "idle" \/ target[q] # x

\* Reset on x, first step: *x = T{} overwrites the struct, the
\* MessageState's info pointer included, with its zero value.
Reset(p, x) ==
    /\ Starts(p)
    /\ Exclusive(p, x)
    /\ calls' = [calls EXCEPT ![p] = @ + 1]
    /\ target' = [target EXCEPT ![p] = x]
    /\ info' = [info EXCEPT ![x] = 0]
    /\ pc' = [pc EXCEPT ![p] = "reset_store"]
    /\ UNCHANGED <<initDone, file, goTypes, msgTypes, fieldTypes, rawDescData>>

\* Mutant: a Reset that zeroes the struct but does not re-store mi.
ResetStoreSkipped(p) ==
    /\ pc[p] = "reset_store"
    /\ pc' = [pc EXCEPT ![p] = "idle"]
    /\ target' = [target EXCEPT ![p] = Nil]
    /\ UNCHANGED <<initDone, file, goTypes, msgTypes, fieldTypes, info, calls, rawDescData>>

\* Reset, second step: MessageStateOf(x).StoreMessageInfo(mi).
ResetStore(p) ==
    /\ pc[p] = "reset_store"
    /\ info' = [info EXCEPT ![target[p]] = TypeIndex(target[p])]
    /\ pc' = [pc EXCEPT ![p] = "idle"]
    /\ target' = [target EXCEPT ![p] = Nil]
    /\ UNCHANGED <<initDone, file, goTypes, msgTypes, fieldTypes, calls, rawDescData>>

\* Descriptor() -> file_stream_frame_proto_rawDescGZIP(): rawDescOnce.Do
\* compresses the raw descriptor on the first call only, and sync.Once
\* returns from Do only after that has completed, so a call is one step
\* that leaves rawDescData holding the compressed descriptor.
Descriptor(p) ==
    /\ Starts(p)
    /\ calls' = [calls EXCEPT ![p] = @ + 1]
    /\ rawDescData' = "gz"
    /\ UNCHANGED <<initDone, file, goTypes, msgTypes, fieldTypes, info, pc, target>>

Next ==
    \/ FileInit
    \/ \E p \in Procs :
         \/ \E x \in Msgs \cup {Nil} : ProtoReflect(p, x)
         \/ ProtoReflectStore(p)
         \/ Release(p)
         \/ \E x \in Msgs : Reset(p, x)
         \/ ResetStore(p)
         \/ Descriptor(p)

\* The Go scheduler is preemptive, so every goroutine's next step is
\* weakly fair; starting a call
\* is up to the program and is not.
Spec ==
    /\ Init /\ [][Next]_vars
    /\ WF_vars(FileInit)
    /\ \A p \in Procs :
         /\ WF_vars(ProtoReflectStore(p)) /\ WF_vars(Release(p))
         /\ WF_vars(ResetStore(p))

-----------------------------------------------------------------------------

\* Every protoreflect.Message that ProtoReflect hands out carries a
\* MessageInfo built by package init for the message's own Go type, even
\* when two goroutines race through the load-then-store on the same
\* message or a Reset re-stores it in between calls.
HeldStateDescribesItsType ==
    \A p \in Procs : pc[p] = "holding" =>
        /\ info[target[p]] # 0
        /\ msgTypes[info[target[p]]] = MsgType[target[p]]

AllIdle == \A p \in Procs : pc[p] = "idle"

\* Once a message is bound to its type's MessageInfo, it is bound to it
\* again whenever every goroutine is between calls, however Resets race with
\* ProtoReflect and with each other on it: a racing reader may see nil in
\* the middle of a Reset, but every writer stores the same mi and the last
\* write is never the zeroing one.
BindingSurvivesReset ==
    \A x \in Msgs :
        [](info[x] = TypeIndex(x) => [](AllIdle => info[x] = TypeIndex(x)))

\* After package init, every message or enum field of the two messages is
\* bound to the Go type its struct field declares: the generated depIdxs
\* table, read through its sub-list markers into goTypes, agrees with the
\* struct declarations.
BuildBindsDeclaredTypes ==
    file =>
        /\ FieldDepEnd - FieldDepStart = Len(TypedFields)
        /\ \A k \in 1..Len(TypedFields) : fieldTypes[k] = TypedFields[k].type

\* A getter called on a nil message returns exactly what it returns on a
\* message just Reset, the zero value of the field's Go type, so proto3
\* code cannot tell a nil message from an empty one through its getters
\* (from package init on, when the program can first call them).
NilGettersMatchReset ==
    initDone => \A i \in DOMAIN Fields :
        GetterNilDefault[Fields[i].msg][Fields[i].name] = ZeroValue(Fields[i].kind)

=============================================================================
