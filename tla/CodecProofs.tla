---------------------------- MODULE CodecProofs ----------------------------
(***************************************************************************)
(* Theorems about TlvIterator, for every payload and every byte size.      *)
(***************************************************************************)
EXTENDS TlvIterator, TLAPS

\* The types of the iterator's fields, with OptionInside.
IterInv ==
  /\ p_ \in Seq(Byte)
  /\ pos_ \in Nat /\ cur_len_ \in Nat
  /\ r \in {-1, 0, 1}
  /\ OptionInside

\* A two-byte integer that lies inside a byte string is a natural number.
LEMMA Get16 ==
  ASSUME NEW b \in Seq(Byte), NEW k \in Nat, k + 2 <= Len(b)
  PROVE  be_get16(b, k) \in Nat
<1>1. b[k + 1] \in Nat /\ b[k + 2] \in Nat
  BY ByteAssumption DEF Byte
<1>2. \A x, y \in Nat : x * y \in Nat
  OBVIOUS
<1> QED
  BY <1>1, <1>2, ByteAssumption DEF be_get16

\* Initially the iterator stands before the first option.
LEMMA IterInit == Init => IterInv
BY PayloadsAssumption DEF Init, Constructed, IterInv, OptionInside

\* next() keeps the invariant, one case per outcome.
LEMMA IterStep == IterInv /\ [next]_vars => IterInv'
<1> SUFFICES ASSUME IterInv, [next]_vars PROVE IterInv'
  OBVIOUS
<1>1. CASE UNCHANGED vars
  BY <1>1 DEF vars, IterInv, OptionInside
<1>2. CASE next
  <2>1. p_' = p_ /\ first_' = FALSE
    BY <1>2 DEF next
  <2>2. CASE CleanEnd
    BY <2>1, <2>2 DEF CleanEnd, IterInv, OptionInside
  <2>3. CASE Truncated
    BY <2>1, <2>3 DEF Truncated, IterInv, OptionInside
  <2>4. CASE Positioned
    <3>1. pos_' \in Nat /\ pos_' + 4 <= Len(p_)
      BY <2>4 DEF Positioned, next_pos, header_fits, IterInv
    <3>2. cur_len_' \in Nat
      BY <2>4, <3>1, Get16 DEF Positioned, IterInv
    <3>3. r' = IF pos_' + 4 + cur_len_' <= Len(p_) THEN 1 ELSE -1
      BY <2>4 DEF Positioned, data_fits
    <3> QED
      BY <2>1, <3>1, <3>2, <3>3 DEF IterInv, OptionInside
  <2> QED
    BY <1>2, <2>2, <2>3, <2>4 DEF next
<1> QED
  BY <1>1, <1>2

\* The option that the iterator is positioned on lies inside the payload, for
\* payloads of any length and content.
THEOREM OptionInsideCorrect == Spec => []OptionInside
<1>1. IterInv => OptionInside
  BY DEF IterInv
<1> QED
  BY <1>1, IterInit, IterStep, PTL DEF Spec

-----------------------------------------------------------------------------
(***************************************************************************)
(* Integers on the wire.                                                   *)
(***************************************************************************)

\* Different multiples of BYTE are at least BYTE apart.
LEMMA Multiples ==
  ASSUME NEW q \in Int, NEW k \in Int, q > k
  PROVE  BYTE * q >= BYTE * k + BYTE
<1>1. PICK d \in Nat : q = k + 1 + d
  <2>1. q - k - 1 \in Nat /\ q = k + 1 + (q - k - 1)
    OBVIOUS
  <2> QED BY <2>1
<1>2. BYTE * d \in Nat
  BY ByteAssumption
<1>3. BYTE * q = BYTE * k + BYTE + BYTE * d
  BY <1>1, ByteAssumption
<1> QED
  BY <1>2, <1>3, ByteAssumption

\* What a division leaves.
LEMMA DivFacts ==
  ASSUME NEW v \in Nat
  PROVE  v % BYTE \in Byte /\ v \div BYTE \in Nat /\ v = BYTE * (v \div BYTE) + (v % BYTE)
<1>1. v % BYTE \in Byte
  BY ByteAssumption DEF Byte
<1>2. v \div BYTE \in Nat
  BY ByteAssumption
<1>3. v = BYTE * (v \div BYTE) + (v % BYTE)
  BY ByteAssumption
<1> QED
  BY <1>1, <1>2, <1>3

\* A quotient and a remainder in range are those of the division.
LEMMA DivMod ==
  ASSUME NEW q \in Nat, NEW m \in Byte, NEW v \in Nat, v = q * BYTE + m
  PROVE  v \div BYTE = q /\ v % BYTE = m
<1>1. PICK q2 \in Nat, m2 \in Byte : q2 = v \div BYTE /\ m2 = v % BYTE /\ v = BYTE * q2 + m2
  BY DivFacts, Zenon
<1>2. BYTE * q \in Int /\ BYTE * q2 \in Int /\ q * BYTE = BYTE * q
  BY ByteAssumption
<1>3. m \in Int /\ m2 \in Int /\ 0 <= m /\ m < BYTE /\ 0 <= m2 /\ m2 < BYTE
  BY ByteAssumption DEF Byte
<1>4. ~(q > q2)
  <2>1. q > q2 => BYTE * q >= BYTE * q2 + BYTE
    BY Multiples
  <2> QED BY <1>1, <1>2, <1>3, <2>1, ByteAssumption
<1>5. ~(q2 > q)
  <2>1. q2 > q => BYTE * q2 >= BYTE * q + BYTE
    BY Multiples
  <2> QED BY <1>1, <1>2, <1>3, <2>1, ByteAssumption
<1>6. q = q2
  BY <1>4, <1>5
<1> QED
  BY <1>1, <1>2, <1>3, <1>6

\* Writing an integer that was read gives the bytes it was read from.
LEMMA PutGet ==
  ASSUME NEW b \in Seq(Byte), NEW k \in Nat, k + 2 <= Len(b)
  PROVE  /\ be_get16(b, k) \in Nat /\ be_get16(b, k) < BYTE * BYTE
         /\ be_put16(be_get16(b, k)) = <<b[k + 1], b[k + 2]>>
<1>1. PICK x \in Byte, y \in Byte : x = b[k + 1] /\ y = b[k + 2]
  OBVIOUS
<1>2. PICK v \in Nat : v = x * BYTE + y
  BY ByteAssumption DEF Byte
<1>3. v \div BYTE = x /\ v % BYTE = y
  <2>1. x \in Nat
    BY ByteAssumption DEF Byte
  <2> QED BY <1>2, <2>1, DivMod
<1>4. x % BYTE = x
  BY ByteAssumption, SMTT(60) DEF Byte
<1>5. v < BYTE * BYTE
  <2>1. x \in Int /\ y \in Int /\ y < BYTE /\ BYTE > x /\ BYTE \in Int
    BY ByteAssumption DEF Byte
  <2>2. BYTE * BYTE >= BYTE * x + BYTE
    BY <2>1, Multiples
  <2>3. BYTE * x = x * BYTE /\ x * BYTE \in Int /\ BYTE * BYTE \in Int
    BY <2>1
  <2> QED BY <1>2, <2>1, <2>2, <2>3
<1>6. be_get16(b, k) = v
  BY <1>1, <1>2 DEF be_get16
<1> QED
  BY <1>1, <1>3, <1>4, <1>5, <1>6 DEF be_put16

\* A part of a byte string.
LEMMA PartOf ==
  ASSUME NEW b \in Seq(Byte), NEW m \in Nat, NEW n \in Nat, 1 <= m, n <= Len(b), m <= n + 1
  PROVE  /\ SubSeq(b, m, n) \in Seq(Byte) /\ Len(SubSeq(b, m, n)) = n - m + 1
         /\ \A i \in 1 .. n - m + 1 : SubSeq(b, m, n)[i] = b[m + i - 1]
BY SMTT(60)

\* Byte strings of one length that agree at every index are one.
LEMMA SameBytes ==
  ASSUME NEW s \in Seq(Byte), NEW t \in Seq(Byte), Len(s) = Len(t),
         \A i \in 1 .. Len(s) : s[i] = t[i]
  PROVE  s = t
BY SMTT(60)

\* A byte string is the part of itself from its first byte to its last.
LEMMA AllOf ==
  ASSUME NEW b \in Seq(Byte)
  PROVE  SubSeq(b, 1, Len(b)) = b
<1>1. PICK s \in Seq(Byte) : /\ s = SubSeq(b, 1, Len(b)) /\ Len(s) = Len(b)
                             /\ \A i \in 1 .. Len(s) : s[i] = b[i]
  BY SMTT(60)
<1> QED
  BY <1>1, SameBytes, Zenon

\* One byte string behind another.
LEMMA Joined ==
  ASSUME NEW s \in Seq(Byte), NEW t \in Seq(Byte)
  PROVE  /\ s \o t \in Seq(Byte) /\ Len(s \o t) = Len(s) + Len(t)
         /\ \A i \in 1 .. Len(s) + Len(t) : (s \o t)[i] = IF i <= Len(s) THEN s[i] ELSE t[i - Len(s)]
BY SMTT(60)

\* Two parts of a byte string that lie one behind the other.
LEMMA Adjacent ==
  ASSUME NEW b \in Seq(Byte), NEW m \in 1 .. Len(b) + 1, NEW k \in m - 1 .. Len(b), NEW n \in k .. Len(b)
  PROVE  SubSeq(b, m, k) \o SubSeq(b, k + 1, n) = SubSeq(b, m, n)
<1>1. /\ Len(b) \in Nat /\ m \in Nat /\ k \in Nat /\ n \in Nat
      /\ 1 <= m /\ m <= k + 1 /\ k <= n /\ n <= Len(b)
  OBVIOUS
<1>2. PICK s \in Seq(Byte) : /\ s = SubSeq(b, m, k) /\ Len(s) = k - m + 1
                             /\ \A i \in 1 .. k - m + 1 : s[i] = b[m + i - 1]
  <2>1. k <= Len(b)
    BY <1>1
  <2>2. /\ SubSeq(b, m, k) \in Seq(Byte) /\ Len(SubSeq(b, m, k)) = k - m + 1
        /\ \A i \in 1 .. k - m + 1 : SubSeq(b, m, k)[i] = b[m + i - 1]
    BY <1>1, <2>1, PartOf, Zenon
  <2> QED BY <2>2, Zenon
<1>3. PICK t \in Seq(Byte) : /\ t = SubSeq(b, k + 1, n) /\ Len(t) = n - k
                             /\ \A i \in 1 .. n - k : t[i] = b[k + i]
  <2>1. n - (k + 1) + 1 = n - k /\ \A i \in 1 .. n - k : (k + 1) + i - 1 = k + i
    BY <1>1
  <2>2. k + 1 \in Nat /\ 1 <= k + 1 /\ k + 1 <= n + 1
    BY <1>1
  <2>3. /\ SubSeq(b, k + 1, n) \in Seq(Byte) /\ Len(SubSeq(b, k + 1, n)) = n - (k + 1) + 1
        /\ \A i \in 1 .. n - (k + 1) + 1 : SubSeq(b, k + 1, n)[i] = b[(k + 1) + i - 1]
    BY <1>1, <2>2, PartOf, Zenon
  <2>4. /\ Len(SubSeq(b, k + 1, n)) = n - k
        /\ \A i \in 1 .. n - k : SubSeq(b, k + 1, n)[i] = b[(k + 1) + i - 1]
    BY <2>1, <2>3, Zenon
  <2>5. \A i \in 1 .. n - k : SubSeq(b, k + 1, n)[i] = b[k + i]
    BY <2>1, <2>4, Zenon
  <2> QED BY <2>3, <2>4, <2>5, Zenon
<1>4. PICK u \in Seq(Byte) : /\ u = SubSeq(b, m, n) /\ Len(u) = n - m + 1
                             /\ \A i \in 1 .. n - m + 1 : u[i] = b[m + i - 1]
  <2>1. m <= n + 1
    BY <1>1
  <2>2. /\ SubSeq(b, m, n) \in Seq(Byte) /\ Len(SubSeq(b, m, n)) = n - m + 1
        /\ \A i \in 1 .. n - m + 1 : SubSeq(b, m, n)[i] = b[m + i - 1]
    BY <1>1, <2>1, PartOf, ZenonT(60)
  <2> QED BY <2>2, Zenon
<1>5. PICK v \in Seq(Byte) : /\ v = s \o t /\ Len(v) = Len(s) + Len(t)
                             /\ \A i \in 1 .. Len(s) + Len(t) : v[i] = IF i <= Len(s) THEN s[i] ELSE t[i - Len(s)]
  BY Joined, Zenon
<1>6. Len(v) = Len(u) /\ \A i \in 1 .. Len(v) : v[i] = u[i]
  <2>1. Len(v) = n - m + 1 /\ Len(v) = Len(u)
    BY <1>1, <1>2, <1>3, <1>4, <1>5
  <2>2. ASSUME NEW i \in 1 .. n - m + 1 PROVE v[i] = b[m + i - 1]
    <3>1. CASE i <= k - m + 1
      <4>1. i \in 1 .. k - m + 1 /\ i \in 1 .. Len(s) + Len(t) /\ i <= Len(s)
        BY <1>1, <1>2, <1>3, <3>1, SMTT(60)
      <4> QED BY <1>2, <1>5, <4>1, Zenon
    <3>2. CASE ~(i <= k - m + 1)
      <4>1. i - (k - m + 1) \in 1 .. n - k /\ k + (i - (k - m + 1)) = m + i - 1
        BY <1>1, <3>2
      <4>2. i \in 1 .. Len(s) + Len(t) /\ ~(i <= Len(s))
        BY <1>1, <1>2, <1>3, <3>2, SMTT(60)
      <4>3. v[i] = t[i - (k - m + 1)]
        BY <1>2, <1>5, <4>2, Zenon
      <4> QED BY <1>3, <4>1, <4>3, Zenon
    <3> QED BY <3>1, <3>2, Zenon
  <2> QED BY <1>4, <2>1, <2>2, Zenon
<1>7. v = u
  BY <1>6, SameBytes, Zenon
<1> QED
  BY <1>2, <1>3, <1>4, <1>5, <1>7, Zenon

\* Two bytes of a byte string.
LEMMA TwoBytes ==
  ASSUME NEW b \in Seq(Byte), NEW i \in Nat, i + 2 <= Len(b)
  PROVE  <<b[i + 1], b[i + 2]>> = SubSeq(b, i + 1, i + 2)
<1>1. PICK x \in Byte, y \in Byte : x = b[i + 1] /\ y = b[i + 2]
  OBVIOUS
<1>2. PICK s \in Seq(Byte) : s = SubSeq(b, i + 1, i + 2) /\ Len(s) = 2 /\ s[1] = x /\ s[2] = y
  <2>1. i + 1 \in Nat /\ i + 2 \in Nat /\ 1 <= i + 1 /\ i + 1 <= (i + 2) + 1
    OBVIOUS
  <2>2. /\ SubSeq(b, i + 1, i + 2) \in Seq(Byte)
        /\ Len(SubSeq(b, i + 1, i + 2)) = (i + 2) - (i + 1) + 1
        /\ \A j \in 1 .. (i + 2) - (i + 1) + 1 : SubSeq(b, i + 1, i + 2)[j] = b[i + 1 + j - 1]
    BY <2>1, PartOf, SMTT(60)
  <2>3. (i + 2) - (i + 1) + 1 = 2 /\ i + 1 + 1 - 1 = i + 1 /\ i + 1 + 2 - 1 = i + 2 /\ 1 \in 1 .. 2 /\ 2 \in 1 .. 2
    OBVIOUS
  <2>4. \A j \in 1 .. 2 : SubSeq(b, i + 1, i + 2)[j] = b[i + 1 + j - 1]
    BY <2>2, <2>3, Zenon
  <2>5. SubSeq(b, i + 1, i + 2)[1] = b[i + 1 + 1 - 1] /\ SubSeq(b, i + 1, i + 2)[2] = b[i + 1 + 2 - 1]
    BY <2>3, <2>4, Zenon
  <2> QED BY <1>1, <2>2, <2>3, <2>5, Zenon
<1>3. PICK t \in Seq(Byte) : t = <<x, y>> /\ Len(t) = 2 /\ t[1] = x /\ t[2] = y
  <2>1. <<x, y>> \in Seq(Byte) /\ Len(<<x, y>>) = 2
    OBVIOUS
  <2> QED BY <2>1, Zenon
<1>4. s = t
  <2>1. Len(s) = Len(t) /\ \A j \in 1 .. Len(s) : s[j] = t[j]
    BY <1>2, <1>3
  <2> QED BY <2>1, SameBytes, Zenon
<1> QED
  BY <1>1, <1>2, <1>3, <1>4, Zenon

\* What the writer makes of the type and the data of an option in a payload is
\* that part of the payload.
LEMMA AddGet ==
  ASSUME NEW b \in Seq(Byte), NEW k \in Nat, NEW len \in Nat,
         k + 4 <= Len(b), len = be_get16(b, k + 2), k + 4 + len <= Len(b)
  PROVE  add(be_get16(b, k), SubSeq(b, k + 5, k + 4 + len)) = SubSeq(b, k + 1, k + 4 + len)
<1>1. Len(b) \in Nat
  OBVIOUS
<1>2. PICK d \in Seq(Byte) : d = SubSeq(b, k + 5, k + 4 + len) /\ Len(d) = len
  <2>1. k + 5 \in Nat /\ k + 4 + len \in Nat /\ 1 <= k + 5 /\ k + 5 <= (k + 4 + len) + 1
    OBVIOUS
  <2>2. /\ SubSeq(b, k + 5, k + 4 + len) \in Seq(Byte)
        /\ Len(SubSeq(b, k + 5, k + 4 + len)) = (k + 4 + len) - (k + 5) + 1
    BY <2>1, PartOf
  <2>3. (k + 4 + len) - (k + 5) + 1 = len
    OBVIOUS
  <2> QED BY <2>2, <2>3, Zenon
<1>3. Len(d) = len
  BY <1>2
<1>4. len < BYTE * BYTE /\ be_put16(len) = <<b[k + 3], b[k + 4]>>
  <2>1. k + 2 \in Nat /\ (k + 2) + 2 <= Len(b) /\ (k + 2) + 1 = k + 3 /\ (k + 2) + 2 = k + 4
    OBVIOUS
  <2> QED BY <2>1, PutGet
<1>5. be_put16(be_get16(b, k)) = <<b[k + 1], b[k + 2]>>
  BY PutGet
<1>6. Len(d) % (BYTE * BYTE) = len
  <2>1. PICK m \in Nat : m = BYTE * BYTE
    BY ByteAssumption
  <2>2. \A x \in Nat : x < m => x % m = x
    OBVIOUS
  <2> QED BY <1>3, <1>4, <2>1, <2>2
<1>7. SubSeq(d, 1, len) = d
  BY <1>2, AllOf, Zenon
<1>8. add(be_get16(b, k), d) = <<b[k + 1], b[k + 2]>> \o <<b[k + 3], b[k + 4]>> \o d
  BY <1>4, <1>5, <1>6, <1>7, Zenon DEF add
<1>9. <<b[k + 1], b[k + 2]>> = SubSeq(b, k + 1, k + 2) /\ <<b[k + 3], b[k + 4]>> = SubSeq(b, k + 3, k + 4)
  <2>1. k + 2 \in Nat /\ (k + 2) + 2 <= Len(b) /\ (k + 2) + 1 = k + 3 /\ (k + 2) + 2 = k + 4
    OBVIOUS
  <2>2. k + 2 <= Len(b)
    BY <1>1
  <2>3. <<b[k + 1], b[k + 2]>> = SubSeq(b, k + 1, k + 2)
    BY <2>2, TwoBytes
  <2>4. <<b[(k + 2) + 1], b[(k + 2) + 2]>> = SubSeq(b, (k + 2) + 1, (k + 2) + 2)
    BY <2>1, TwoBytes, SMTT(60)
  <2> QED BY <2>1, <2>3, <2>4, Zenon
<1>10. SubSeq(b, k + 1, k + 2) \o SubSeq(b, k + 3, k + 4) = SubSeq(b, k + 1, k + 4)
  <2>1. /\ k + 1 \in 1 .. Len(b) + 1 /\ k + 2 \in (k + 1) - 1 .. Len(b) /\ k + 4 \in k + 2 .. Len(b)
        /\ (k + 2) + 1 = k + 3
    BY <1>1
  <2>2. SubSeq(b, k + 1, k + 2) \o SubSeq(b, (k + 2) + 1, k + 4) = SubSeq(b, k + 1, k + 4)
    BY <2>1, Adjacent, Zenon
  <2> QED BY <2>1, <2>2, Zenon
<1>11. SubSeq(b, k + 1, k + 4) \o SubSeq(b, k + 5, k + 4 + len) = SubSeq(b, k + 1, k + 4 + len)
  <2>1. k + 1 \in 1 .. Len(b) + 1 /\ k + 4 \in (k + 1) - 1 .. Len(b) /\ k + 4 + len \in k + 4 .. Len(b)
    BY <1>1
  <2>2. (k + 4) + 1 = k + 5
    OBVIOUS
  <2>3. SubSeq(b, k + 1, k + 4) \o SubSeq(b, (k + 4) + 1, k + 4 + len) = SubSeq(b, k + 1, k + 4 + len)
    BY <2>1, Adjacent, Zenon
  <2> QED BY <2>2, <2>3, Zenon
<1> QED
  BY <1>2, <1>8, <1>9, <1>10, <1>11, Zenon

-----------------------------------------------------------------------------
(***************************************************************************)
(* The options walked over lie one behind the other from the start of the  *)
(* payload, so what TlvWriter::add makes of them is that part of it.       *)
(***************************************************************************)
Option == [type : Nat, pos : Nat, len : Nat]

\* Where the k-th option of w ends.
EndOf(w, k) == IF k = 0 THEN 0 ELSE w[k].pos + 4 + w[k].len

\* The k-th option of w is the one that b holds behind the option before it.
Whole(b, w, k) ==
  /\ w[k].pos = EndOf(w, k - 1)
  /\ EndOf(w, k) <= Len(b)
  /\ w[k].type = be_get16(b, w[k].pos)
  /\ w[k].len = be_get16(b, w[k].pos + 2)

\* b does not hold a whole option at offset e, and does not end there.
Malformed(b, e) ==
  /\ e < Len(b)
  /\ e + 4 > Len(b) \/ e + 4 + be_get16(b, e + 2) > Len(b)

\* The inductive invariant, with IterInv.
WalkInv ==
  /\ walked \in Seq(Option)
  /\ \A k \in 1 .. Len(walked) : Whole(p_, walked, k)
  /\ r = 1 => next_pos = EndOf(walked, Len(walked))
  /\ r = 0 => EndOf(walked, Len(walked)) = Len(p_)
  /\ r = -1 => Malformed(p_, EndOf(walked, Len(walked)))

\* A walk that goes on by an option of the payload.
LEMMA ExtendWalk ==
  ASSUME NEW b \in Seq(Byte), NEW w \in Seq(Option), \A k \in 1 .. Len(w) : Whole(b, w, k),
         NEW o \in Option, o.pos = EndOf(w, Len(w)), o.pos + 4 + o.len <= Len(b),
         o.type = be_get16(b, o.pos), o.len = be_get16(b, o.pos + 2)
  PROVE  /\ Append(w, o) \in Seq(Option)
         /\ EndOf(Append(w, o), Len(Append(w, o))) = o.pos + 4 + o.len
         /\ \A k \in 1 .. Len(Append(w, o)) : Whole(b, Append(w, o), k)
<1>1. PICK n \in Nat : n = Len(w)
  OBVIOUS
<1>2. PICK v \in Seq(Option) : /\ v = Append(w, o) /\ Len(v) = n + 1 /\ v[n + 1] = o
                               /\ \A k \in 1 .. n : v[k] = w[k]
  <2>1. /\ Append(w, o) \in Seq(Option) /\ Len(Append(w, o)) = Len(w) + 1
        /\ \A k \in 1 .. Len(w) : Append(w, o)[k] = w[k]
        /\ Append(w, o)[Len(w) + 1] = o
    BY SMTT(60)
  <2> QED BY <1>1, <2>1, Zenon
<1>3. ASSUME NEW k \in 0 .. n PROVE EndOf(v, k) = EndOf(w, k)
  BY <1>2, <1>3 DEF EndOf
<1>4. EndOf(v, n + 1) = o.pos + 4 + o.len
  BY <1>2 DEF EndOf
<1>5. ASSUME NEW k \in 1 .. n PROVE Whole(b, v, k)
  <2>1. Whole(b, w, k) /\ v[k] = w[k]
    BY <1>1, <1>2
  <2>2. EndOf(v, k) = EndOf(w, k) /\ EndOf(v, k - 1) = EndOf(w, k - 1)
    BY <1>3
  <2> QED BY <2>1, <2>2, Zenon DEF Whole
<1>6. Whole(b, v, n + 1)
  <2>1. n + 1 - 1 = n /\ EndOf(v, n) = EndOf(w, n)
    BY <1>3
  <2> QED BY <1>1, <1>2, <1>4, <2>1 DEF Whole
<1>7. \A k \in 1 .. n + 1 : k \in 1 .. n \/ k = n + 1
  OBVIOUS
<1> QED
  BY <1>2, <1>4, <1>5, <1>6, <1>7, Zenon

\* Where the walk stands lies inside the payload.
LEMMA EndInside ==
  ASSUME NEW b \in Seq(Byte), NEW w \in Seq(Option), \A k \in 1 .. Len(w) : Whole(b, w, k),
         NEW k \in 0 .. Len(w)
  PROVE  EndOf(w, k) \in Nat /\ EndOf(w, k) <= Len(b)
<1>1. CASE k = 0
  BY <1>1 DEF EndOf
<1>2. CASE k # 0
  <2>1. k \in 1 .. Len(w)
    BY <1>2
  <2>2. w[k] \in Option /\ Whole(b, w, k)
    BY <2>1
  <2>3. PICK x \in Nat, y \in Nat : x = w[k].pos /\ y = w[k].len
    BY <2>2, SMTT(60) DEF Option
  <2>4. EndOf(w, k) = x + 4 + y
    BY <1>2, <2>3, Zenon DEF EndOf
  <2>5. x + 4 + y \in Nat
    OBVIOUS
  <2> QED BY <2>2, <2>4, <2>5, Zenon DEF Whole
<1> QED
  BY <1>1, <1>2

\* Nothing is walked over before the first call.
LEMMA WalkInit == Init => WalkInv
BY DEF Init, Constructed, WalkInv, next_pos, EndOf, Option

\* next() keeps the invariant, one case per outcome.
LEMMA WalkStep == IterInv /\ WalkInv /\ [next]_vars => WalkInv'
<1> SUFFICES ASSUME IterInv, WalkInv, [next]_vars PROVE WalkInv'
  OBVIOUS
<1>1. CASE UNCHANGED vars
  BY <1>1, Zenon DEF vars, WalkInv, next_pos
<1>2. CASE next
  <2>1. PICK b \in Seq(Byte), w \in Seq(Option) : b = p_ /\ b = p_' /\ w = walked
    BY <1>2 DEF next, IterInv, WalkInv
  <2>2. \A k \in 1 .. Len(w) : Whole(b, w, k)
    BY <2>1, Zenon DEF WalkInv
  <2>3. PICK e \in Nat : e = EndOf(w, Len(w)) /\ e <= Len(b) /\ e = next_pos
    <3>1. Len(w) \in 0 .. Len(w)
      OBVIOUS
    <3>2. EndOf(w, Len(w)) \in Nat /\ EndOf(w, Len(w)) <= Len(b)
      BY <2>2, <3>1, EndInside, Zenon
    <3>3. next_pos = EndOf(w, Len(w))
      BY <1>2, <2>1, Zenon DEF WalkInv, next
    <3> QED BY <3>2, <3>3, Zenon
  <2>4. first_' = FALSE
    BY <1>2 DEF next
  <2>5. CASE CleanEnd
    <3>1. walked' = w /\ r' = 0 /\ e = Len(b)
      BY <2>1, <2>3, <2>5, Zenon DEF CleanEnd
    <3>2. 0 # 1 /\ 0 # -1
      OBVIOUS
    <3> QED BY <2>1, <2>2, <2>3, <3>1, <3>2, Zenon DEF WalkInv
  <2>6. CASE Truncated
    <3>1. walked' = w /\ r' = -1 /\ e # Len(b) /\ ~(e + 4 <= Len(b))
      BY <2>1, <2>3, <2>6 DEF Truncated, header_fits
    <3>2. Malformed(b, e)
      BY <2>3, <3>1 DEF Malformed
    <3>3. -1 # 1 /\ -1 # 0
      OBVIOUS
    <3> QED BY <2>1, <2>2, <2>3, <3>1, <3>2, <3>3, Zenon DEF WalkInv
  <2>7. CASE Positioned
    <3>1. e # Len(b) /\ e + 4 <= Len(b) /\ pos_' = e
      BY <2>1, <2>3, <2>7 DEF Positioned, header_fits
    <3>2. PICK t \in Nat, len \in Nat : /\ t = be_get16(b, e) /\ len = be_get16(b, e + 2)
                                        /\ cur_type_' = t /\ cur_len_' = len
      <4>1. e + 2 \in Nat /\ e + 2 <= Len(b) /\ (e + 2) + 2 <= Len(b)
        BY <3>1
      <4>2. be_get16(b, e) \in Nat /\ be_get16(b, e + 2) \in Nat
        BY <4>1, Get16
      <4> QED BY <2>1, <2>7, <3>1, <4>2, Zenon DEF Positioned
    <3>3. CASE e + 4 + len <= Len(b)
      <4>1. PICK o : o = [type |-> t, pos |-> e, len |-> len]
        BY Zenon
      <4>2. r' = 1 /\ walked' = Append(w, o)
        BY <2>1, <2>7, <3>1, <3>2, <3>3, <4>1, Zenon DEF Positioned, data_fits
      <4>3. o \in Option /\ o.pos = e /\ o.len = len /\ o.type = t
        BY <4>1 DEF Option
      <4>4. PICK v \in Seq(Option) : /\ v = walked' /\ EndOf(v, Len(v)) = e + 4 + len
                                     /\ \A k \in 1 .. Len(v) : Whole(b, v, k)
        BY <2>2, <2>3, <3>2, <3>3, <4>2, <4>3, ExtendWalk, Zenon
      <4>5. next_pos' = e + 4 + len
        BY <2>4, <3>1, <3>2 DEF next_pos
      <4>6. 1 # 0 /\ 1 # -1
        OBVIOUS
      <4> QED BY <2>1, <4>2, <4>4, <4>5, <4>6, Zenon DEF WalkInv
    <3>4. CASE ~(e + 4 + len <= Len(b))
      <4>1. r' = -1 /\ walked' = w
        <5>1. ~data_fits(pos_', cur_len_')
          BY <2>1, <3>1, <3>2, <3>4 DEF data_fits
        <5>2. r' = -1
          BY <2>7, <5>1, Zenon DEF Positioned
        <5>3. r' # 1
          BY <5>2
        <5> QED BY <2>1, <2>7, <5>2, <5>3, Zenon DEF Positioned
      <4>2. Malformed(b, e)
        BY <2>3, <3>1, <3>2, <3>4 DEF Malformed
      <4>3. -1 # 1 /\ -1 # 0
        OBVIOUS
      <4> QED BY <2>1, <2>2, <2>3, <4>1, <4>2, <4>3, Zenon DEF WalkInv
    <3> QED BY <3>3, <3>4
  <2> QED
    BY <1>2, <2>5, <2>6, <2>7 DEF next
<1> QED
  BY <1>1, <1>2

-----------------------------------------------------------------------------
\* Every option walked over took its header of four bytes.
CountInv ==
  /\ 4 * Len(walked) <= Len(p_)
  /\ r = 1 => 4 * Len(walked) <= next_pos

LEMMA CountStep == IterInv /\ WalkInv /\ CountInv /\ [next]_vars => CountInv'
<1> SUFFICES ASSUME IterInv, WalkInv, CountInv, [next]_vars PROVE CountInv'
  OBVIOUS
<1>1. CASE UNCHANGED vars
  BY <1>1, Zenon DEF vars, CountInv, next_pos
<1>2. CASE next
  <2>1. p_' = p_ /\ first_' = FALSE /\ r = 1
    BY <1>2 DEF next
  <2>2. PICK n \in Nat : n = Len(walked) /\ 4 * n <= Len(p_) /\ 4 * n <= next_pos
    BY <2>1 DEF WalkInv, CountInv
  <2>3. CASE CleanEnd \/ Truncated
    <3>1. walked' = walked /\ r' # 1
      BY <2>3 DEF CleanEnd, Truncated
    <3> QED BY <2>1, <2>2, <3>1, Zenon DEF CountInv
  <2>4. CASE Positioned
    <3>1. pos_' = next_pos /\ pos_' \in Nat /\ pos_' + 4 <= Len(p_)
      BY <2>4 DEF Positioned, next_pos, header_fits, IterInv
    <3>2. cur_len_' \in Nat
      BY <2>4, <3>1, Get16 DEF Positioned, IterInv
    <3>3. next_pos' = pos_' + 4 + cur_len_'
      BY <2>1, Zenon DEF next_pos
    <3>4. CASE r' = 1
      <4>1. pos_' + 4 + cur_len_' <= Len(p_)
        BY <2>4, <3>4 DEF Positioned, data_fits
      <4>2. Len(walked') = n + 1
        <5>1. walked' = Append(walked, [type |-> cur_type_', pos |-> pos_', len |-> cur_len_'])
          BY <2>4, <3>4, Zenon DEF Positioned
        <5> QED BY <2>2, <5>1 DEF WalkInv
      <4>3. Len(p_) \in Nat
        BY DEF IterInv
      <4>4. 4 * (n + 1) <= pos_' + 4 + cur_len_' /\ 4 * (n + 1) <= Len(p_)
        BY <2>2, <3>1, <3>2, <4>1, <4>3
      <4> QED BY <2>1, <3>3, <4>2, <4>4, Zenon DEF CountInv
    <3>5. CASE r' # 1
      <4>1. walked' = walked
        BY <2>4, <3>5, Zenon DEF Positioned
      <4> QED BY <2>1, <2>2, <3>5, <4>1, Zenon DEF CountInv
    <3> QED BY <3>4, <3>5
  <2> QED
    BY <1>2, <2>3, <2>4 DEF next
<1> QED
  BY <1>1, <1>2

\* next() positions the iterator on at most n/4 options of a payload of n bytes,
\* whatever the lengths in it say: every walk ends.
THEOREM WalkIsBounded == Spec => []WalkBounded
<1>1. Init => CountInv
  BY PayloadsAssumption DEF Init, Constructed, CountInv, next_pos
<1>2. CountInv => WalkBounded
  BY DEF CountInv, WalkBounded
<1> QED
  BY <1>1, <1>2, IterInit, IterStep, WalkInit, WalkStep, CountStep, PTL DEF Spec

-----------------------------------------------------------------------------
INSTANCE WellFoundedInduction

\* A non-empty set of natural numbers has a least element.
LEMMA LeastOffset ==
  ASSUME NEW T, T \subseteq Nat, T # {}
  PROVE  \E x \in T : \A y \in T : x <= y
<1> DEFINE R == {ss \in Nat \X Nat : ss[1] < ss[2]}
<1>1. IsWellFoundedOn(R, Nat)
  BY NatLessThanWellFounded, Zenon DEF OpToRel
<1> HIDE DEF R
<1>2. PICK x \in T : \A y \in T : ~(<<y, x>> \in R)
  BY <1>1, WFMin, Zenon
<1>3. \A y \in T : ~(y < x)
  BY <1>2, Zenon DEF R
<1> QED
  BY <1>3

\* One more option written, one more option of the payload covered.
LEMMA WriteOption ==
  ASSUME NEW b \in Seq(Byte), NEW w \in Seq(Option), \A k \in 1 .. Len(w) : Whole(b, w, k),
         NEW k \in 1 .. Len(w)
  PROVE  SubSeq(b, 1, EndOf(w, k - 1))
           \o add(w[k].type, SubSeq(b, w[k].pos + 5, w[k].pos + 4 + w[k].len))
         = SubSeq(b, 1, EndOf(w, k))
<1>1. w[k] \in Option /\ Whole(b, w, k)
  OBVIOUS
<1>2. PICK t \in Nat, q \in Nat, len \in Nat : t = w[k].type /\ q = w[k].pos /\ len = w[k].len
  BY <1>1, Zenon DEF Option
<1>3. EndOf(w, k) = q + 4 + len /\ EndOf(w, k - 1) = q
  BY <1>1, <1>2 DEF EndOf, Whole
<1>4. q + 4 + len <= Len(b) /\ t = be_get16(b, q) /\ len = be_get16(b, q + 2)
  BY <1>1, <1>2, <1>3, Zenon DEF Whole
<1>5. q + 4 <= Len(b)
  BY <1>4
<1>6. add(t, SubSeq(b, q + 5, q + 4 + len)) = SubSeq(b, q + 1, q + 4 + len)
  BY <1>4, <1>5, AddGet, Zenon
<1>7. 1 \in 1 .. Len(b) + 1 /\ q \in 1 - 1 .. Len(b) /\ q + 4 + len \in q .. Len(b)
  BY <1>4
<1>8. SubSeq(b, 1, q) \o SubSeq(b, q + 1, q + 4 + len) = SubSeq(b, 1, q + 4 + len)
  BY <1>7, Adjacent, Zenon
<1> QED
  BY <1>2, <1>3, <1>6, <1>8, Zenon

\* The options walked over, written again, are the payload up to the end of the
\* last one.  Encoded is a recursive function: the prefixes of the payload solve
\* its equation, so it has a solution, and the first k at which the two differ
\* would contradict WriteOption.
LEMMA EncodedIsPrefix ==
  ASSUME IterInv, WalkInv
  PROVE  Encoded[Len(walked)] = SubSeq(p_, 1, EndOf(walked, Len(walked)))
<1>1. PICK b \in Seq(Byte), w \in Seq(Option) : b = p_ /\ w = walked
  BY DEF IterInv, WalkInv
<1>2. \A k \in 1 .. Len(w) : Whole(b, w, k)
  BY <1>1, Zenon DEF WalkInv
<1>3. PICK n \in Nat : n = Len(w)
  OBVIOUS
<1> DEFINE part(k) == add(w[k].type, SubSeq(b, w[k].pos + 5, w[k].pos + 4 + w[k].len))
           body(f) == [k \in 0 .. n |-> IF k = 0 THEN <<>> ELSE f[k - 1] \o part(k)]
           enc == CHOOSE f : f = body(f)
           prefix(k) == SubSeq(b, 1, EndOf(w, k))
           g == [k \in 0 .. n |-> prefix(k)]
<1>4. Encoded = enc
  BY <1>1, <1>3, ZenonT(60) DEF Encoded, data
<1>5. prefix(0) = <<>>
  <2>1. EndOf(w, 0) = 0
    BY DEF EndOf
  <2>2. SubSeq(b, 1, 0) = <<>>
    BY SMTT(60)
  <2> QED BY <2>1, <2>2, Zenon
<1>6. \A k \in 1 .. n : prefix(k - 1) \o part(k) = prefix(k)
  BY <1>2, <1>3, WriteOption, Zenon
<1> HIDE DEF part, prefix
<1>7. g = body(g)
  <2>1. \A k \in 0 .. n : k # 0 => k - 1 \in 0 .. n /\ k \in 1 .. n
    OBVIOUS
  <2>2. ASSUME NEW k \in 0 .. n PROVE prefix(k) = IF k = 0 THEN <<>> ELSE g[k - 1] \o part(k)
    <3>1. CASE k = 0
      BY <1>5, <3>1, Zenon
    <3>2. CASE k # 0
      <4>1. g[k - 1] = prefix(k - 1)
        BY <2>1, <3>2, Zenon
      <4> QED BY <1>6, <2>1, <3>2, <4>1, Zenon
    <3> QED BY <3>1, <3>2, Zenon
  <2> QED BY <2>2, Zenon
<1>8. enc = body(enc)
  <2> HIDE DEF body, g
  <2> QED BY <1>7, Zenon
<1> HIDE DEF enc
<1>9. \A k \in 0 .. n : enc[k] = IF k = 0 THEN <<>> ELSE enc[k - 1] \o part(k)
  BY <1>8, Zenon
<1> DEFINE Bad == {k \in 0 .. n : enc[k] # prefix(k)}
<1>10. ASSUME NEW k \in Bad, \A y \in Bad : k <= y PROVE FALSE
  <2>1. k \in 0 .. n /\ enc[k] # prefix(k)
    OBVIOUS
  <2>2. k # 0
    BY <1>5, <1>9, <2>1, Zenon
  <2>3. k \in 1 .. n /\ k - 1 \in 0 .. n /\ ~(k <= k - 1)
    BY <2>1, <2>2
  <2>4. enc[k - 1] = prefix(k - 1)
    BY <1>10, <2>3, Zenon
  <2> QED BY <1>6, <1>9, <2>1, <2>2, <2>3, <2>4, Zenon
<1>11. Bad \subseteq Nat /\ n \in 0 .. n
  OBVIOUS
<1>12. Bad = {}
  <2> HIDE DEF Bad
  <2> QED BY <1>10, <1>11, LeastOffset, Zenon
<1>13. enc[n] = prefix(n)
  BY <1>11, <1>12, Zenon
<1> QED
  BY <1>1, <1>3, <1>4, <1>13, Zenon DEF prefix

\* A payload walked to its clean end is exactly what TlvWriter::add makes of the
\* options walked over, for payloads of any length and content: the reader
\* inverts the writer, and skips, repeats and cuts nothing.
THEOREM WalkIsWritten == Spec => []WalkedIsWritten
<1>1. ASSUME IterInv, WalkInv, r = 0 PROVE Encoded[Len(walked)] = p_
  <2>1. p_ \in Seq(Byte) /\ EndOf(walked, Len(walked)) = Len(p_)
    BY <1>1, Zenon DEF IterInv, WalkInv
  <2>2. SubSeq(p_, 1, Len(p_)) = p_
    BY <2>1, AllOf, Zenon
  <2> QED BY <1>1, <2>1, <2>2, EncodedIsPrefix, Zenon
<1>2. IterInv /\ WalkInv => WalkedIsWritten
  BY <1>1, Zenon DEF WalkedIsWritten
<1> QED
  BY <1>2, IterInit, IterStep, WalkInit, WalkStep, PTL DEF Spec

\* A payload is refused only where, behind the options walked over, there is
\* something that is not a whole option.
THEOREM RefusalsAreDue == Spec => []RefusedIsMalformed
<1>1. ASSUME IterInv, WalkInv, r = -1 PROVE RefusedIsMalformed
  <2>1. PICK b \in Seq(Byte), w \in Seq(Option) : b = p_ /\ w = walked
    BY <1>1 DEF IterInv, WalkInv
  <2>2. PICK e \in Nat : e = EndOf(w, Len(w)) /\ Malformed(b, e)
    <3>1. \A k \in 1 .. Len(w) : Whole(b, w, k)
      BY <1>1, <2>1, Zenon DEF WalkInv
    <3>2. Len(w) \in 0 .. Len(w)
      OBVIOUS
    <3>3. EndOf(w, Len(w)) \in Nat
      BY <3>1, <3>2, EndInside, Zenon
    <3> QED BY <1>1, <2>1, <3>3, Zenon DEF WalkInv
  <2>3. e < Len(b) /\ Len(b) \in Nat
    BY <2>2 DEF Malformed
  <2>4. PICK whole \in Seq(Byte) : whole = Encoded[Len(walked)] /\ whole = SubSeq(b, 1, e) /\ Len(whole) = e
    <3>1. 1 <= 1 /\ 1 <= e + 1 /\ e <= Len(b) /\ e - 1 + 1 = e /\ 1 \in Nat
      BY <2>3
    <3>2. SubSeq(b, 1, e) \in Seq(Byte) /\ Len(SubSeq(b, 1, e)) = e - 1 + 1
      BY <3>1, PartOf, Zenon
    <3>3. Encoded[Len(walked)] = SubSeq(b, 1, e)
      BY <1>1, <2>1, <2>2, EncodedIsPrefix, Zenon
    <3> QED BY <3>1, <3>2, <3>3, Zenon
  <2>5. PICK rest \in Seq(Byte) : /\ rest = SubSeq(b, e + 1, Len(b)) /\ Len(rest) = Len(b) - e
                                  /\ \A i \in 1 .. Len(b) - e : rest[i] = b[e + i]
    <3>1. e + 1 \in Nat /\ 1 <= e + 1 /\ e + 1 <= Len(b) + 1 /\ Len(b) <= Len(b)
      BY <2>3
    <3>2. /\ SubSeq(b, e + 1, Len(b)) \in Seq(Byte)
          /\ Len(SubSeq(b, e + 1, Len(b))) = Len(b) - (e + 1) + 1
          /\ \A i \in 1 .. Len(b) - (e + 1) + 1 : SubSeq(b, e + 1, Len(b))[i] = b[e + 1 + i - 1]
      BY <2>3, <3>1, PartOf, ZenonT(60)
    <3>3. Len(b) - (e + 1) + 1 = Len(b) - e /\ \A i \in 1 .. Len(b) - e : e + 1 + i - 1 = e + i
      BY <2>3
    <3>4. /\ Len(SubSeq(b, e + 1, Len(b))) = Len(b) - e
          /\ \A i \in 1 .. Len(b) - e : SubSeq(b, e + 1, Len(b))[i] = b[e + 1 + i - 1]
      BY <3>2, <3>3, Zenon
    <3>5. \A i \in 1 .. Len(b) - e : SubSeq(b, e + 1, Len(b))[i] = b[e + i]
      BY <3>3, <3>4, Zenon
    <3> QED BY <3>2, <3>4, <3>5, Zenon
  <2>6. whole \o rest = b
    <3>1. 1 \in 1 .. Len(b) + 1 /\ e \in 1 - 1 .. Len(b) /\ Len(b) \in e .. Len(b)
      BY <2>3
    <3>2. SubSeq(b, 1, e) \o SubSeq(b, e + 1, Len(b)) = SubSeq(b, 1, Len(b))
      BY <3>1, Adjacent, Zenon
    <3>3. SubSeq(b, 1, Len(b)) = b
      BY AllOf, Zenon
    <3> QED BY <2>4, <2>5, <3>2, <3>3, Zenon
  <2>7. rest # <<>>
    <3>1. Len(rest) # 0 /\ Len(<<>>) = 0
      BY <2>3, <2>5
    <3> QED BY <3>1, Zenon
  <2>8. Len(rest) < 4 \/ Len(rest) < 4 + be_get16(rest, 2)
    <3>1. CASE e + 4 > Len(b)
      BY <2>3, <2>5, <3>1
    <3>2. CASE e + 4 <= Len(b)
      <4>1. e + 4 + be_get16(b, e + 2) > Len(b)
        BY <2>2, <2>3, <3>2 DEF Malformed
      <4>2. rest[3] = b[e + 3] /\ rest[4] = b[e + 4]
        BY <2>3, <2>5, <3>2
      <4>3. 2 + 1 = 3 /\ 2 + 2 = 4 /\ (e + 2) + 1 = e + 3 /\ (e + 2) + 2 = e + 4
        OBVIOUS
      <4>4. be_get16(rest, 2) = be_get16(b, e + 2)
        BY <4>2, <4>3, Zenon DEF be_get16
      <4>5. PICK len \in Nat : len = be_get16(b, e + 2)
        <5>1. e + 2 \in Nat /\ (e + 2) + 2 <= Len(b)
          BY <2>3, <3>2
        <5> QED BY <5>1, Get16
      <4>6. Len(b) - e < 4 + len
        BY <2>3, <4>1, <4>5
      <4> QED BY <2>5, <4>4, <4>5, <4>6, Zenon
    <3> QED BY <2>3, <3>1, <3>2
  <2>9. rest = SubSeq(p_, Len(whole) + 1, Len(p_))
    BY <2>1, <2>4, <2>5, Zenon
  <2> QED BY <2>1, <2>4, <2>6, <2>7, <2>8, <2>9, Zenon DEF RefusedIsMalformed
<1>2. IterInv /\ WalkInv => RefusedIsMalformed
  BY <1>1, Zenon DEF RefusedIsMalformed
<1> QED
  BY <1>2, IterInit, IterStep, WalkInit, WalkStep, PTL DEF Spec
=============================================================================
