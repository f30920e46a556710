-------------------------------- MODULE Wire --------------------------------
(***************************************************************************)
(* Bytes on the wire (tlv.h): big-endian integers and the TLV writer.  A   *)
(* byte string is a sequence; a byte is a number below BYTE, which is 256  *)
(* in the code and smaller when every string of a length is enumerated.    *)
(* An option is a two-byte type, a two-byte length and the data.           *)
(***************************************************************************)
EXTENDS Integers, Sequences

CONSTANT BYTE      \* number of values of a byte

ASSUME ByteAssumption == BYTE \in Nat \ {0, 1}

Byte == 0 .. BYTE - 1

be_put16(v) == <<(v \div BYTE) % BYTE, v % BYTE>>
be_put32(v) == be_put16(v \div (BYTE * BYTE)) \o be_put16(v)
be_put64(v) == be_put32(v \div (BYTE * BYTE * BYTE * BYTE)) \o be_put32(v)

\* The integer at offset k of b.
be_get16(b, k) == b[k + 1] * BYTE + b[k + 2]
be_get32(b, k) == be_get16(b, k) * BYTE * BYTE + be_get16(b, k + 2)
be_get64(b, k) == be_get32(b, k) * BYTE * BYTE * BYTE * BYTE + be_get32(b, k + 4)

\* TlvWriter::add; len is a uint16_t.
add(opt, data) ==
  LET len == Len(data) % (BYTE * BYTE)
  IN  be_put16(opt) \o be_put16(len) \o SubSeq(data, 1, len)

add_u8(opt, v) == add(opt, <<v % BYTE>>)
add_u16(opt, v) == add(opt, be_put16(v))
add_u32(opt, v) == add(opt, be_put32(v))
add_u64(opt, v) == add(opt, be_put64(v))
=============================================================================
