---------------------------- MODULE MsgTransfer ----------------------------
(***************************************************************************)
(* A frame on its way from builder to decoder, which walks over its        *)
(* payload with TlvIterator.  The payload arrives as it was built, with an *)
(* option that the decoder does not know (the sender speaks a later        *)
(* version of the protocol), or without its last byte; or it is any byte   *)
(* string of Payloads.                                                     *)
(***************************************************************************)
EXTENDS Msg, TlvIterator

CONSTANTS
  Messages,        \* frames with the fields and nodes they were built from
  UnknownOptions   \* options of a later version

VARIABLES
  sent,    \* the message
  change   \* what happened to its payload on the way

transferVars == <<vars, sent, change>>

Header(frame) == [type |-> be_get16(frame, 0), len |-> be_get32(frame, 2)]
PayloadOf(frame) == SubSeq(frame, 7, Len(frame))

NoMessage == [frame |-> <<>>]

TransferInit ==
  /\ Constructed
  /\ \/ sent \in Messages /\ p_ = PayloadOf(sent.frame) /\ change = "NONE"
     \/ sent = NoMessage /\ p_ \in Payloads /\ change = "NOT_BUILT"

\* An unknown option stands before the k-th option, or at the end.
ExtraOption(k, o) ==
  LET opts == options(p_).opts
      at[n \in 0 .. Len(opts)] == IF n = 0 THEN 0 ELSE at[n - 1] + 4 + Len(opts[n].data)
  IN  /\ change = "NONE" /\ first_
      /\ k \in DOMAIN at
      /\ p_' = SubSeq(p_, 1, at[k]) \o add(o.type, o.data) \o SubSeq(p_, at[k] + 1, Len(p_))
      /\ change' = "EXTRA_OPTION"
      /\ UNCHANGED <<pos_, cur_type_, cur_len_, first_, r, walked, sent>>

CutShort ==
  /\ change = "NONE" /\ first_ /\ p_ # <<>>
  /\ p_' = SubSeq(p_, 1, Len(p_) - 1)
  /\ change' = "CUT_SHORT"
  /\ UNCHANGED <<pos_, cur_type_, cur_len_, first_, r, walked, sent>>

TransferNext ==
  \/ \E k \in 0 .. 8, o \in UnknownOptions : ExtraOption(k, o)
  \/ CutShort
  \/ next /\ UNCHANGED <<sent, change>>

TransferSpec == TransferInit /\ [][TransferNext]_transferVars

-----------------------------------------------------------------------------
(***************************************************************************)
(* Properties.                                                             *)
(***************************************************************************)

\* A node list of more than MAX_NODES_PER_LIST nodes is refused as a whole and
\* never truncated; any other message that was not cut decodes, also at the
\* limit (msg_decode).
ListLimit ==
  change \in {"NONE", "EXTRA_OPTION"} => (msg_decode(p_).ok <=> Len(sent.nodes) <= MAX_NODES_PER_LIST)

\* What a frame was built from is what its decoder finds: the type and the
\* length in its header, every field, every node in order, and the numbers in
\* the options that only the other side decodes.
RoundTrip ==
  change = "NONE" /\ msg_decode(p_).ok =>
    /\ Header(sent.frame) = [type |-> sent.type, len |-> Len(p_)]
    /\ msg_decode(p_).out = sent.out
    /\ msg_decode(p_).nodes = sent.nodes
    /\ \A t \in DOMAIN sent.codes : LastData(options(p_).opts, t) = be_put16(sent.codes[t])

\* "Unknown options are skipped" (msg.h): wherever one stands, the message
\* decodes to the same fields and nodes.
UnknownSkipped ==
  change = "EXTRA_OPTION" /\ Len(sent.nodes) <= MAX_NODES_PER_LIST =>
    msg_decode(p_) = msg_decode(PayloadOf(sent.frame))

\* A payload that lacks its last byte is refused, never taken for a shorter
\* message.
CutIsRefused == change = "CUT_SHORT" => ~msg_decode(p_).ok
=============================================================================
