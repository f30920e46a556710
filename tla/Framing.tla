------------------------------ MODULE Framing ------------------------------
(***************************************************************************)
(* The receive path of the server: on_data() cuts the bytes of a           *)
(* connection into frames, and connections are closed by way of            *)
(* pending_close_, which is emptied only when no handler is running.       *)
(* A byte is a number; a frame is a type, a length and that many bytes.    *)
(* In the code the type has two bytes and the length four.                 *)
(***************************************************************************)
EXTENDS Integers, Sequences, SequencesExt

CONSTANTS
  Slots,
  Bytes,           \* the values of a byte that are sent
  Malformed,       \* types whose frames do not decode, for msg_decode
  max_rx_frame_,   \* limit on the length of a payload
  MaxStream        \* bound on the bytes of a connection

HEADER_LEN == 2

ASSUME FramingAssumption ==
  Bytes \subseteq Nat /\ Malformed \subseteq Bytes /\ max_rx_frame_ \in Nat /\ MaxStream \in Nat

VARIABLES
  sessions,        \* open (not FREE), schedule_disconnect and rx of each slot
  pending_close_,
  processing_,
  pc,              \* IDLE, or where on_data is: LOOP, ERASE (after the handler), DRAIN
  slot,            \* the slot that on_data is called for
  frame_len,       \* the length of the frame that its handler was called with
  stream,          \* history: the bytes received on the current connection
  handled          \* history: the frames of it that were handled

rx_vars == <<sessions, pending_close_, processing_, pc, slot, frame_len, stream, handled>>

\* Session::reset; in the faulty variant the buffer survives.
reset_keeps_rx(s) == [open |-> FALSE, schedule_disconnect |-> FALSE, rx |-> s.rx]

reset(s) == [open |-> FALSE, schedule_disconnect |-> FALSE, rx |-> <<>>]

RxInit ==
  /\ sessions = [i \in Slots |-> [open |-> FALSE, schedule_disconnect |-> FALSE, rx |-> <<>>]]
  /\ pending_close_ = <<>> /\ processing_ = FALSE
  /\ pc = "IDLE" /\ slot \in Slots /\ frame_len = 0
  /\ stream = [i \in Slots |-> <<>>]
  /\ handled = [i \in Slots |-> <<>>]

-----------------------------------------------------------------------------
(***************************************************************************)
(* Closing.                                                                *)
(***************************************************************************)
drained(ss, closes) ==
  [i \in Slots |-> IF i \in ToSet(closes) /\ ss[i].open THEN reset(ss[i]) ELSE ss[i]]

scheduled(i) == [sessions EXCEPT ![i].schedule_disconnect = TRUE]

\* In the faulty variant the connection is closed although a handler runs.
disconnect_client_now(i) ==
  /\ sessions' = drained(scheduled(i), Append(pending_close_, i))
  /\ pending_close_' = <<>>

disconnect_client(i) ==
  IF ~sessions[i].open \/ sessions[i].schedule_disconnect
  THEN UNCHANGED <<sessions, pending_close_>>
  ELSE IF processing_
       THEN /\ sessions' = scheduled(i)
            /\ pending_close_' = Append(pending_close_, i)
       ELSE /\ sessions' = drained(scheduled(i), Append(pending_close_, i))
            /\ pending_close_' = <<>>

on_connect(i) ==
  /\ pc = "IDLE" /\ ~sessions[i].open
  /\ sessions' = [sessions EXCEPT ![i] = [reset(@) EXCEPT !.open = TRUE]]
  /\ stream' = [stream EXCEPT ![i] = <<>>]
  /\ handled' = [handled EXCEPT ![i] = <<>>]
  /\ UNCHANGED <<pending_close_, processing_, pc, slot, frame_len>>

on_disconnected(i) ==
  /\ pc = "IDLE" /\ sessions[i].open
  /\ sessions' = drained([sessions EXCEPT ![i] = reset(@)], pending_close_)
  /\ pending_close_' = <<>>
  /\ UNCHANGED <<processing_, pc, slot, frame_len, stream, handled>>

\* tick() finds the deadline of a slot passed.
Expire(i) ==
  /\ pc = "IDLE" /\ sessions[i].open /\ ~sessions[i].schedule_disconnect
  /\ disconnect_client(i)
  /\ UNCHANGED <<processing_, pc, slot, frame_len, stream, handled>>

-----------------------------------------------------------------------------
(***************************************************************************)
(* on_data.                                                                *)
(***************************************************************************)
on_data(i, chunk) ==
  /\ pc = "IDLE" /\ sessions[i].open /\ ~sessions[i].schedule_disconnect
  /\ sessions' = [sessions EXCEPT ![i].rx = @ \o chunk]
  /\ stream' = [stream EXCEPT ![i] = @ \o chunk]
  /\ processing_' = TRUE
  /\ pc' = "LOOP" /\ slot' = i /\ frame_len' = 0
  /\ UNCHANGED <<pending_close_, handled>>

rx == sessions[slot].rx

\* The condition of the loop; in the faulty variant a scheduled disconnect does
\* not end it.
receiving_regardless == pc = "LOOP" /\ sessions[slot].open

Receiving == pc = "LOOP" /\ sessions[slot].open /\ ~sessions[slot].schedule_disconnect

HeaderIn(b) == Len(b) >= HEADER_LEN
plen(b) == b[2]

TooLong ==
  /\ Receiving /\ HeaderIn(rx) /\ plen(rx) > max_rx_frame_
  /\ disconnect_client(slot)
  /\ pc' = "DRAIN"
  /\ UNCHANGED <<processing_, slot, frame_len, stream, handled>>

complete(b) == HeaderIn(b) /\ plen(b) <= max_rx_frame_ /\ Len(b) >= HEADER_LEN + plen(b)

\* A frame that does not decode costs the client its connection.
handle_frame ==
  /\ Receiving /\ complete(rx)
  /\ frame_len' = HEADER_LEN + plen(rx)
  /\ handled' = [handled EXCEPT ![slot] = Append(@, SubSeq(rx, 1, frame_len'))]
  /\ IF rx[1] \in Malformed THEN disconnect_client(slot)
     ELSE UNCHANGED <<sessions, pending_close_>>
  /\ pc' = "ERASE"
  /\ UNCHANGED <<processing_, slot, stream>>

\* rx.erase, and where the loop goes on; in the faulty variant it handles one
\* frame per call.
after_one_frame == "DRAIN"

after_frame == "LOOP"

EraseFrame ==
  /\ pc = "ERASE"
  /\ sessions' = [sessions EXCEPT ![slot].rx = SubSeq(@, frame_len + 1, Len(@))]
  /\ pc' = after_frame
  /\ UNCHANGED <<pending_close_, processing_, slot, frame_len, stream, handled>>

LoopEnds ==
  /\ pc = "LOOP"
  /\ Receiving /\ HeaderIn(rx) => plen(rx) <= max_rx_frame_ /\ ~complete(rx)
  /\ pc' = "DRAIN"
  /\ UNCHANGED <<sessions, pending_close_, processing_, slot, frame_len, stream, handled>>

drain_closes ==
  /\ pc = "DRAIN"
  /\ sessions' = drained(sessions, pending_close_)
  /\ pending_close_' = <<>>
  /\ processing_' = FALSE
  /\ pc' = "IDLE"
  /\ UNCHANGED <<slot, frame_len, stream, handled>>

RxNext ==
  \/ TooLong \/ handle_frame \/ EraseFrame \/ LoopEnds \/ drain_closes
  \/ \E i \in Slots :
       \/ on_connect(i) \/ on_disconnected(i) \/ Expire(i)
       \/ \E n \in 1 .. MaxStream - Len(stream[i]) : \E chunk \in [1 .. n -> Bytes] : on_data(i, chunk)

RxSpec == RxInit /\ [][RxNext]_rx_vars

-----------------------------------------------------------------------------
(***************************************************************************)
(* Properties.                                                             *)
(***************************************************************************)

\* However the network cuts the bytes of a connection: what was handled and what
\* waits in rx is what was received, in order, on this connection and no other.
NothingLostOrMixed ==
  pc # "ERASE" => \A i \in Slots : sessions[i].open => stream[i] = FlattenSeq(handled[i]) \o sessions[i].rx

\* Between calls, what waits in rx is the beginning of one frame within the
\* limit: no complete frame waits for more bytes to arrive, no frame that is too
\* long, and rx stays bounded.
RestIsIncomplete ==
  pc = "IDLE" => \A i \in Slots : sessions[i].open =>
    \/ ~HeaderIn(sessions[i].rx)
    \/ /\ plen(sessions[i].rx) <= max_rx_frame_
       /\ Len(sessions[i].rx) < HEADER_LEN + plen(sessions[i].rx)

\* "rx is still valid" after a handler (comment in on_data): it begins with the
\* frame that was handled, so that erase() stays inside it.
RxStillValid ==
  pc = "ERASE" => /\ sessions[slot].open
                  /\ frame_len <= Len(rx)
                  /\ SubSeq(rx, 1, frame_len) = Last(handled[slot])

\* After a frame that does not decode nothing more is handled, though more may
\* have arrived with it, and the connection is closed before the call returns.
MalformedIsLast ==
  \A i \in Slots : sessions[i].open =>
    \A k \in DOMAIN handled[i] : handled[i][k][1] \in Malformed =>
      k = Len(handled[i]) /\ sessions[i].schedule_disconnect /\ pc # "IDLE"
=============================================================================
