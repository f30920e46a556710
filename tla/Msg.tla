-------------------------------- MODULE Msg --------------------------------
(***************************************************************************)
(* The message codec (msg.cpp, with the structured options of TlvWriter):  *)
(* frames are built from fields and payloads are decoded into fields.  A   *)
(* decoded message is the function out from the options that are present   *)
(* to their values, and the sequence of its node infos; the flags *_set    *)
(* and *_present of MsgDecoded say which options are in the domain of out. *)
(* A cluster name and heuristics have no flag but a default.               *)
(***************************************************************************)
EXTENDS Wire, FiniteSets, TLC

CONSTANT MAX_NODES_PER_LIST

ASSUME NodesAssumption == MAX_NODES_PER_LIST \in Nat

MsgType == [PREINIT |-> 0, PREINIT_REPLY |-> 1, INIT |-> 3, INIT_REPLY |-> 4, SERVER_ERROR |-> 5,
            SET_OPTION |-> 6, SET_OPTION_REPLY |-> 7, ECHO_REQUEST |-> 8, ECHO_REPLY |-> 9,
            NODE_LIST |-> 10, NODE_LIST_REPLY |-> 11, VOTE_INFO |-> 14, VOTE_INFO_REPLY |-> 15,
            HEURISTICS_CHANGE |-> 16, HEURISTICS_CHANGE_REPLY |-> 17]

TlvOpt == [MSG_SEQ_NUMBER |-> 0, CLUSTER_NAME |-> 1, TLS_SUPPORTED |-> 2,
           TLS_CLIENT_CERT_REQUIRED |-> 3, SUPPORTED_MESSAGES |-> 4, SUPPORTED_OPTIONS |-> 5,
           REPLY_ERROR_CODE |-> 6, SERVER_MAXIMUM_REQUEST_SIZE |-> 7,
           SERVER_MAXIMUM_REPLY_SIZE |-> 8, NODE_ID |-> 9,
           SUPPORTED_DECISION_ALGORITHMS |-> 10, DECISION_ALGORITHM |-> 11,
           HEARTBEAT_INTERVAL |-> 12, RING_ID |-> 13, CONFIG_VERSION |-> 14,
           DATA_CENTER_ID |-> 15, NODE_STATE |-> 16, NODE_INFO |-> 17, NODE_LIST_TYPE |-> 18,
           VOTE |-> 19, QUORATE |-> 20, TIE_BREAKER |-> 21, HEURISTICS |-> 22,
           KEEP_ACTIVE_PARTITION_TIE_BREAKER |-> 23]

-----------------------------------------------------------------------------
(***************************************************************************)
(* Decoding.                                                               *)
(***************************************************************************)

\* The options of a payload in order (TlvIterator), if it is well-formed.  In
\* the faulty variant the last one may be shorter than its length says.
options_unchecked(p) ==
  LET end(k) == k + 4 + be_get16(p, k + 2)
      from[k \in Nat] ==
        IF k >= Len(p) THEN [ok |-> TRUE, opts |-> <<>>]
        ELSE IF k + 4 > Len(p) THEN [ok |-> FALSE, opts |-> <<>>]
        ELSE [from[end(k)] EXCEPT
                !.opts = <<[type |-> be_get16(p, k),
                            data |-> SubSeq(p, k + 5, IF end(k) > Len(p) THEN Len(p) ELSE end(k))]>>
                           \o @]
  IN  from[0]

options(p) ==
  LET end(k) == k + 4 + be_get16(p, k + 2)
      from[k \in 0 .. Len(p)] ==
        IF k = Len(p) THEN [ok |-> TRUE, opts |-> <<>>]
        ELSE IF k + 4 > Len(p) THEN [ok |-> FALSE, opts |-> <<>>]
        ELSE IF end(k) > Len(p) THEN [ok |-> FALSE, opts |-> <<>>]
        ELSE [from[end(k)] EXCEPT
                !.opts = <<[type |-> be_get16(p, k), data |-> SubSeq(p, k + 5, end(k))]>> \o @]
  IN  from[0]

With(opts, T) == {k \in DOMAIN opts : opts[k].type \in T}

\* The last option of a type counts.
LastData(opts, t) == opts[CHOOSE k \in With(opts, {t}) : \A j \in With(opts, {t}) : j <= k].data

\* A number that may be missing, with its default.
number_or_0(opts, t, width) ==
  IF With(opts, {t}) = {} THEN 0
  ELSE IF width = 1 THEN LastData(opts, t)[1] ELSE be_get32(LastData(opts, t), 0)

\* The nested options of a node info.
decode_node_info(d) ==
  LET it == options(d)
  IN  [ok |-> /\ it.ok
              /\ With(it.opts, {TlvOpt.NODE_ID}) # {}
              /\ \A k \in With(it.opts, {TlvOpt.NODE_ID, TlvOpt.DATA_CENTER_ID}) :
                   Len(it.opts[k].data) = 4
              /\ \A k \in With(it.opts, {TlvOpt.NODE_STATE}) : Len(it.opts[k].data) = 1,
       info |-> [node_id |-> number_or_0(it.opts, TlvOpt.NODE_ID, 4),
                 data_center_id |-> number_or_0(it.opts, TlvOpt.DATA_CENTER_ID, 4),
                 state |-> number_or_0(it.opts, TlvOpt.NODE_STATE, 1)]]

\* Options of a fixed length, and the values their first byte may have.
Width ==
  [t \in {TlvOpt.TLS_SUPPORTED, TlvOpt.TLS_CLIENT_CERT_REQUIRED, TlvOpt.NODE_LIST_TYPE,
          TlvOpt.VOTE, TlvOpt.QUORATE, TlvOpt.HEURISTICS,
          TlvOpt.KEEP_ACTIVE_PARTITION_TIE_BREAKER} |-> 1]
  @@ [t \in {TlvOpt.MSG_SEQ_NUMBER, TlvOpt.NODE_ID, TlvOpt.HEARTBEAT_INTERVAL} |-> 4]
  @@ TlvOpt.DECISION_ALGORITHM :> 2 @@ TlvOpt.RING_ID :> 12
  @@ TlvOpt.CONFIG_VERSION :> 8 @@ TlvOpt.TIE_BREAKER :> 5

FirstByte ==
  TlvOpt.TLS_SUPPORTED :> 0 .. 2 @@ TlvOpt.NODE_LIST_TYPE :> 0 .. 3 @@ TlvOpt.VOTE :> 0 .. 5
  @@ TlvOpt.QUORATE :> 0 .. 1 @@ TlvOpt.TIE_BREAKER :> 1 .. 3 @@ TlvOpt.HEURISTICS :> 0 .. 2

acceptable(o) ==
  /\ o.type \in DOMAIN Width => Len(o.data) = Width[o.type]
  /\ o.type \in DOMAIN FirstByte => o.data[1] \in FirstByte[o.type]
  /\ o.type \in {TlvOpt.SUPPORTED_MESSAGES, TlvOpt.SUPPORTED_OPTIONS} => Len(o.data) % 2 = 0
  /\ o.type = TlvOpt.NODE_INFO => decode_node_info(o.data).ok

\* The options that become fields of a MsgDecoded, and their values; of the
\* lists of supported messages and options only the presence is kept.
Fields == DOMAIN Width \cup {TlvOpt.CLUSTER_NAME, TlvOpt.SUPPORTED_MESSAGES,
                             TlvOpt.SUPPORTED_OPTIONS}

value(t, d) ==
  CASE t = TlvOpt.RING_ID -> [node_id |-> be_get32(d, 0), seq |-> be_get64(d, 4)]
    [] t = TlvOpt.TIE_BREAKER -> [mode |-> d[1], node_id |-> be_get32(d, 1)]
    [] t = TlvOpt.CLUSTER_NAME -> d
    [] t \in {TlvOpt.SUPPORTED_MESSAGES, TlvOpt.SUPPORTED_OPTIONS} -> TRUE
    [] OTHER -> CASE Width[t] = 1 -> d[1]
                  [] Width[t] = 2 -> be_get16(d, 0)
                  [] Width[t] = 4 -> be_get32(d, 0)
                  [] Width[t] = 8 -> be_get64(d, 0)

\* Faulty variants: one node too many; an unknown option is an error.
options_ok_nodes(opts) ==
  /\ \A k \in DOMAIN opts : acceptable(opts[k])
  /\ Cardinality(With(opts, {TlvOpt.NODE_INFO})) <= MAX_NODES_PER_LIST + 1

options_ok_known(opts) ==
  /\ \A k \in DOMAIN opts : acceptable(opts[k]) /\ opts[k].type <= 23
  /\ Cardinality(With(opts, {TlvOpt.NODE_INFO})) <= MAX_NODES_PER_LIST

options_ok(opts) ==
  /\ \A k \in DOMAIN opts : acceptable(opts[k])
  /\ Cardinality(With(opts, {TlvOpt.NODE_INFO})) <= MAX_NODES_PER_LIST

Defaults == TlvOpt.CLUSTER_NAME :> <<>> @@ TlvOpt.HEURISTICS :> 0

NodeInfos(opts) ==
  LET infos == SelectSeq(opts, LAMBDA o : o.type = TlvOpt.NODE_INFO)
  IN  [k \in DOMAIN infos |-> decode_node_info(infos[k].data).info]

msg_decode(p) ==
  LET it == options(p)
  IN  IF ~it.ok \/ ~options_ok(it.opts) THEN [ok |-> FALSE]
      ELSE [ok |-> TRUE,
            out |-> [t \in {it.opts[k].type : k \in With(it.opts, Fields)} |->
                       value(t, LastData(it.opts, t))] @@ Defaults,
            nodes |-> NodeInfos(it.opts)]

-----------------------------------------------------------------------------
(***************************************************************************)
(* Building.                                                               *)
(***************************************************************************)
add_u16_array(opt, arr) ==
  LET bytes[n \in 0 .. Len(arr)] == IF n = 0 THEN <<>> ELSE bytes[n - 1] \o be_put16(arr[n])
  IN  be_put16(opt) \o be_put16(2 * Len(arr)) \o bytes[Len(arr)]

add_ring_id(r) == add(TlvOpt.RING_ID, be_put32(r.node_id) \o be_put64(r.seq))

add_tie_breaker(tb) ==
  add(TlvOpt.TIE_BREAKER, <<tb.mode>> \o be_put32(IF tb.mode = 3 THEN tb.node_id ELSE 0))

add_node_info(ni) ==
  add(TlvOpt.NODE_INFO,
      add_u32(TlvOpt.NODE_ID, ni.node_id)
        \o (IF ni.data_center_id = 0 THEN <<>> ELSE add_u32(TlvOpt.DATA_CENTER_ID, ni.data_center_id))
        \o (IF ni.state = 0 THEN <<>> ELSE add_u8(TlvOpt.NODE_STATE, ni.state)))

\* begin_frame and end_frame; in the faulty variant the length covers the header.
end_frame_with_header(type, payload) == be_put16(type) \o be_put32(Len(payload) + 6) \o payload

end_frame(type, payload) == be_put16(type) \o be_put32(Len(payload)) \o payload

\* if (set) ... of the builders.
optional(set, bytes) == IF set THEN bytes ELSE <<>>
seq_option(set, seq) == optional(set, add_u32(TlvOpt.MSG_SEQ_NUMBER, seq))

build_preinit_reply(seq_set, seq, tls, cert_required) ==
  end_frame(MsgType.PREINIT_REPLY,
            seq_option(seq_set, seq)
              \o add_u8(TlvOpt.TLS_SUPPORTED, tls)
              \o add_u8(TlvOpt.TLS_CLIENT_CERT_REQUIRED, cert_required))

build_server_error(seq_set, seq, code) ==
  end_frame(MsgType.SERVER_ERROR,
            seq_option(seq_set, seq) \o add_u16(TlvOpt.REPLY_ERROR_CODE, code))

build_init_reply(seq_set, seq, code, with_messages, with_options, max_request, max_reply) ==
  end_frame(MsgType.INIT_REPLY,
            seq_option(seq_set, seq)
              \o add_u16(TlvOpt.REPLY_ERROR_CODE, code)
              \o optional(with_messages,
                          add_u16_array(TlvOpt.SUPPORTED_MESSAGES, [n \in 1 .. 18 |-> n - 1]))
              \o optional(with_options,
                          add_u16_array(TlvOpt.SUPPORTED_OPTIONS, [n \in 1 .. 24 |-> n - 1]))
              \o add_u32(TlvOpt.SERVER_MAXIMUM_REQUEST_SIZE, max_request)
              \o add_u32(TlvOpt.SERVER_MAXIMUM_REPLY_SIZE, max_reply)
              \o add_u16_array(TlvOpt.SUPPORTED_DECISION_ALGORITHMS, <<1>>))

build_set_option_reply(seq_set, seq, hb_set, hb, kaptb_set, kaptb) ==
  end_frame(MsgType.SET_OPTION_REPLY,
            seq_option(seq_set, seq)
              \o optional(hb_set, add_u32(TlvOpt.HEARTBEAT_INTERVAL, hb))
              \o optional(kaptb_set, add_u8(TlvOpt.KEEP_ACTIVE_PARTITION_TIE_BREAKER, kaptb)))

build_echo_reply(request) == be_put16(MsgType.ECHO_REPLY) \o SubSeq(request, 3, Len(request))

build_node_list_reply(seq, type, ring, vote) ==
  end_frame(MsgType.NODE_LIST_REPLY,
            add_u32(TlvOpt.MSG_SEQ_NUMBER, seq) \o add_u8(TlvOpt.NODE_LIST_TYPE, type)
              \o add_ring_id(ring) \o add_u8(TlvOpt.VOTE, vote))

build_vote_info(seq, ring, vote) ==
  end_frame(MsgType.VOTE_INFO,
            add_u32(TlvOpt.MSG_SEQ_NUMBER, seq) \o add_u8(TlvOpt.VOTE, vote) \o add_ring_id(ring))

build_heuristics_change_reply(seq_set, seq, vote) ==
  end_frame(MsgType.HEURISTICS_CHANGE_REPLY,
            seq_option(seq_set, seq) \o add_u8(TlvOpt.VOTE, vote))
=============================================================================
