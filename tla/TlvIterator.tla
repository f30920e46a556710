---------------------------- MODULE TlvIterator ----------------------------
(***************************************************************************)
(* TlvIterator (tlv.h): walks over the options of a payload that a client  *)
(* sent.  One action, next(), taken for as long as it returns 1, which is  *)
(* how msg_decode and decode_node_info use it.                             *)
(***************************************************************************)
EXTENDS Wire

CONSTANT Payloads     \* the payloads that may arrive

ASSUME PayloadsAssumption == Payloads \subseteq Seq(Byte)

VARIABLES
  p_,         \* the payload
  pos_,       \* offset of the current option
  cur_type_,  \* its type
  cur_len_,   \* the length of its data
  first_,     \* has next() not been called yet
  r,          \* what next() returned last, 1 before the first call
  walked      \* history: the options that next() positioned the iterator on

vars == <<p_, pos_, cur_type_, cur_len_, first_, r, walked>>

Constructed ==
  /\ pos_ = 0 /\ cur_type_ = 0 /\ cur_len_ = 0 /\ first_ = TRUE
  /\ r = 1
  /\ walked = <<>>

Init == p_ \in Payloads /\ Constructed

data(k, len) == SubSeq(p_, k + 5, k + 4 + len)

\* Faulty variants: the constructor's state is taken for a first option; the
\* header of the current option is not skipped; a trailing option without data
\* is refused; the length of the data is not checked.
next_pos_not_first == pos_ + 4 + cur_len_

next_pos_no_header == IF first_ THEN 0 ELSE pos_ + cur_len_

header_fits_strictly(k) == k + 4 < Len(p_)

data_fits_unchecked(k, len) == TRUE

next_pos == IF first_ THEN 0 ELSE pos_ + 4 + cur_len_

header_fits(k) == k + 4 <= Len(p_)

data_fits(k, len) == k + 4 + len <= Len(p_)

CleanEnd ==
  /\ next_pos = Len(p_)
  /\ r' = 0
  /\ UNCHANGED <<pos_, cur_type_, cur_len_, walked>>

Truncated ==
  /\ next_pos # Len(p_) /\ ~header_fits(next_pos)
  /\ r' = -1
  /\ UNCHANGED <<pos_, cur_type_, cur_len_, walked>>

Positioned ==
  /\ next_pos # Len(p_) /\ header_fits(next_pos)
  /\ pos_' = next_pos
  /\ cur_type_' = be_get16(p_, pos_')
  /\ cur_len_' = be_get16(p_, pos_' + 2)
  /\ r' = IF data_fits(pos_', cur_len_') THEN 1 ELSE -1
  /\ walked' = IF r' = 1 THEN Append(walked, [type |-> cur_type_', pos |-> pos_', len |-> cur_len_'])
                          ELSE walked

next ==
  /\ r = 1
  /\ CleanEnd \/ Truncated \/ Positioned
  /\ first_' = FALSE
  /\ UNCHANGED p_

Spec == Init /\ [][next]_vars

-----------------------------------------------------------------------------
(***************************************************************************)
(* Properties.                                                             *)
(***************************************************************************)

\* While the iterator is positioned on an option, its header and its data lie
\* inside the payload, whatever the lengths say: what type(), length() and
\* data() hand out can be read (TlvIterator::next).
OptionInside == r = 1 /\ ~first_ => pos_ + 4 + cur_len_ <= Len(p_)

\* next() returns 1 at most once for every four bytes of the payload, also when
\* all lengths are 0: the loops of msg_decode and decode_node_info end.
WalkBounded == 4 * Len(walked) <= Len(p_)

\* The bytes of the options walked over so far.
Encoded[k \in 0 .. Len(walked)] ==
  IF k = 0 THEN <<>> ELSE Encoded[k - 1] \o add(walked[k].type, data(walked[k].pos, walked[k].len))

\* A payload that is walked to a clean end is what TlvWriter::add produces from
\* the options walked over: nothing is skipped, repeated or cut.
WalkedIsWritten == r = 0 => Encoded[Len(walked)] = p_

\* A payload is refused only if what follows the options walked over is not
\* empty and does not begin with a whole option.
RefusedIsMalformed ==
  r = -1 =>
    LET whole == Encoded[Len(walked)]
        rest  == SubSeq(p_, Len(whole) + 1, Len(p_))
    IN  /\ whole \o rest = p_ /\ rest # <<>>
        /\ Len(rest) < 4 \/ Len(rest) < 4 + be_get16(rest, 2)
=============================================================================
