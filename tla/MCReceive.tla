----------------------------- MODULE MCReceive -----------------------------
(***************************************************************************)
(* What the server does with the bytes it receives, in its two halves that *)
(* touch in nothing but the payload of a frame.  In the half STREAM        *)
(* on_data cuts streams of small bytes into frames; in the half PAYLOAD    *)
(* payloads are walked over and decoded: the frames of the server, each    *)
(* with arguments at the ends of their ranges, the messages of a client,   *)
(* written with the same writer, and short byte strings.                   *)
(***************************************************************************)
EXTENDS MsgTransfer, Framing

CONSTANT MaxLen     \* bound on the short byte strings

VARIABLE half

U16s == {0, 1, 19, BYTE * BYTE - 1}
U32s == {0, 1, BYTE, BYTE * BYTE * BYTE * BYTE - 1}
U64s == {0, BYTE * BYTE * BYTE * BYTE, 7 * BYTE * BYTE * BYTE * BYTE * BYTE + 1}
RingIds == {[node_id |-> n, seq |-> s] : n \in U32s, s \in U64s}
NodeInfoSet == [node_id : {1, BYTE + 1}, data_center_id : {0, BYTE}, state : {0, 3}]
NodeLists == UNION {[1 .. n -> NodeInfoSet] : n \in 0 .. 1}
               \cup [1 .. 2 -> {[node_id |-> 1, data_center_id |-> 0, state |-> 0],
                                [node_id |-> 2, data_center_id |-> 1, state |-> 3]}]
               \cup [1 .. 3 -> {[node_id |-> 5, data_center_id |-> 0, state |-> 0]}]

Empty == [t \in {} |-> 0]
SeqField(set, seq) == IF set THEN TlvOpt.MSG_SEQ_NUMBER :> seq ELSE Empty
If(set, f) == IF set THEN f ELSE Empty
Message(frame, type, out) == [frame |-> frame, type |-> type, out |-> out @@ Defaults, nodes |-> <<>>,
                              codes |-> Empty]

ServerFrames ==
  {Message(build_preinit_reply(b, s, t, c), MsgType.PREINIT_REPLY,
           SeqField(b, s) @@ TlvOpt.TLS_SUPPORTED :> t @@ TlvOpt.TLS_CLIENT_CERT_REQUIRED :> c) :
     b \in BOOLEAN, s \in U32s, t \in 0 .. 2, c \in 0 .. 1}
  \cup {[Message(build_server_error(b, s, e), MsgType.SERVER_ERROR, SeqField(b, s))
           EXCEPT !.codes = TlvOpt.REPLY_ERROR_CODE :> e] :
          b \in BOOLEAN, s \in U32s, e \in U16s}
  \cup {[Message(build_init_reply(TRUE, s, e, m, o, 5, 6), MsgType.INIT_REPLY,
                 SeqField(TRUE, s) @@ If(m, TlvOpt.SUPPORTED_MESSAGES :> TRUE)
                   @@ If(o, TlvOpt.SUPPORTED_OPTIONS :> TRUE))
           EXCEPT !.codes = TlvOpt.REPLY_ERROR_CODE :> e
                              @@ TlvOpt.SUPPORTED_DECISION_ALGORITHMS :> 1] :
          s \in U32s, e \in {0, 17}, m \in BOOLEAN, o \in BOOLEAN}
  \cup {Message(build_set_option_reply(b, 1, x, h, y, k), MsgType.SET_OPTION_REPLY,
                SeqField(b, 1) @@ If(x, TlvOpt.HEARTBEAT_INTERVAL :> h)
                  @@ If(y, TlvOpt.KEEP_ACTIVE_PARTITION_TIE_BREAKER :> k)) :
          b \in BOOLEAN, x \in BOOLEAN, h \in U32s, y \in BOOLEAN, k \in 0 .. 1}
  \cup {Message(build_node_list_reply(s, t, g, v), MsgType.NODE_LIST_REPLY,
                SeqField(TRUE, s) @@ TlvOpt.NODE_LIST_TYPE :> t @@ TlvOpt.RING_ID :> g
                  @@ TlvOpt.VOTE :> v) :
          s \in {1, BYTE}, t \in 0 .. 3, g \in RingIds, v \in {1, 2, 5}}
  \cup {Message(build_vote_info(s, g, v), MsgType.VOTE_INFO,
                SeqField(TRUE, s) @@ TlvOpt.RING_ID :> g @@ TlvOpt.VOTE :> v) :
          s \in U32s, g \in RingIds, v \in 1 .. 2}
  \cup {Message(build_heuristics_change_reply(b, s, v), MsgType.HEURISTICS_CHANGE_REPLY,
                SeqField(b, s) @@ TlvOpt.VOTE :> v) :
          b \in BOOLEAN, s \in U32s, v \in 0 .. 5}

PreinitOf(name) ==
  end_frame(MsgType.PREINIT, seq_option(TRUE, 1) \o add(TlvOpt.CLUSTER_NAME, name))
InitOf(n, h, g, tb) ==
  end_frame(MsgType.INIT,
            seq_option(TRUE, 2) \o add_u16(TlvOpt.DECISION_ALGORITHM, 1)
              \o add_u32(TlvOpt.HEARTBEAT_INTERVAL, h) \o add_tie_breaker(tb)
              \o add_u32(TlvOpt.NODE_ID, n) \o add_ring_id(g))
ListBytes(nodes) ==
  LET bytes[n \in 0 .. Len(nodes)] == IF n = 0 THEN <<>> ELSE bytes[n - 1] \o add_node_info(nodes[n])
  IN  bytes[Len(nodes)]
NodeListOf(t, v, g, nodes) ==
  end_frame(MsgType.NODE_LIST,
            seq_option(TRUE, 3) \o add_u8(TlvOpt.NODE_LIST_TYPE, t)
              \o add_u64(TlvOpt.CONFIG_VERSION, v) \o add_ring_id(g) \o ListBytes(nodes)
              \o add_u8(TlvOpt.HEURISTICS, 2) \o add_u8(TlvOpt.QUORATE, 1))

ClientFrames ==
  {Message(PreinitOf(n), MsgType.PREINIT, SeqField(TRUE, 1) @@ TlvOpt.CLUSTER_NAME :> n) :
     n \in {<<1>>, <<1, 2, 3>>}}
  \cup {Message(InitOf(n, h, [node_id |-> n, seq |-> 4], [mode |-> m, node_id |-> n]), MsgType.INIT,
                SeqField(TRUE, 2) @@ TlvOpt.DECISION_ALGORITHM :> 1
                  @@ TlvOpt.HEARTBEAT_INTERVAL :> h @@ TlvOpt.NODE_ID :> n
                  @@ TlvOpt.RING_ID :> [node_id |-> n, seq |-> 4]
                  @@ TlvOpt.TIE_BREAKER :> [mode |-> m, node_id |-> IF m = 3 THEN n ELSE 0]) :
          n \in U32s, h \in U32s, m \in 1 .. 3}
  \cup {[Message(NodeListOf(t, v, [node_id |-> 1, seq |-> v], l), MsgType.NODE_LIST,
                 SeqField(TRUE, 3) @@ TlvOpt.NODE_LIST_TYPE :> t @@ TlvOpt.CONFIG_VERSION :> v
                   @@ TlvOpt.RING_ID :> [node_id |-> 1, seq |-> v]
                   @@ TlvOpt.HEURISTICS :> 2 @@ TlvOpt.QUORATE :> 1)
           EXCEPT !.nodes = l] :
          t \in 0 .. 3, v \in U64s, l \in NodeLists}

EchoFrames ==
  {[m EXCEPT !.frame = build_echo_reply(be_put16(MsgType.ECHO_REQUEST) \o SubSeq(m.frame, 3, Len(m.frame))),
             !.type = MsgType.ECHO_REPLY] : m \in {c \in ClientFrames : c.type = MsgType.PREINIT}}

AllFrames == ServerFrames \cup ClientFrames \cup EchoFrames
Later == {[type |-> 24, data |-> <<>>], [type |-> BYTE * BYTE - 1, data |-> <<1, 0, 2>>]}

\* All strings of at most MaxLen bytes of which only one value is not 0.
ShortPayloads == UNION {[1 .. n -> {0, b}] : n \in 0 .. MaxLen, b \in 1 .. 3}

-----------------------------------------------------------------------------
ReceiveInit ==
  /\ RxInit
  /\ \/ half = "STREAM" /\ Constructed /\ sent = NoMessage /\ p_ = <<>> /\ change = "NOT_BUILT"
     \/ half = "PAYLOAD" /\ TransferInit

ReceiveNext ==
  \/ half = "STREAM" /\ RxNext /\ UNCHANGED <<transferVars, half>>
  \/ half = "PAYLOAD" /\ TransferNext /\ UNCHANGED <<rx_vars, half>>

ReceiveSpec == ReceiveInit /\ [][ReceiveNext]_<<rx_vars, transferVars, half>>

Symmetry == Permutations(Slots)
=============================================================================
