---------------------------- MODULE StreamProofs ----------------------------
(***************************************************************************)
(* The streams of the connections of the ESPHome component, for any number *)
(* of slots and connections and any size of a frame and of a socket: the   *)
(* inductive invariant, and that a call of the server keeps it.            *)
(*                                                                         *)
(* The argument is about the stream of each connection: what its peer has  *)
(* received, what is in its socket and what waits in tx, put one after the *)
(* other, are the units 1, 2, 3, ... of that connection up to the last one *)
(* that was sent.                                                          *)
(***************************************************************************)
EXTENDS QnetdComponent, TLAPS

Units == Conns \X Int
States == {"NEW", "QUEUED", "UP", "EOF", "BROKEN", "CLOSED"}

TypeInv ==
  /\ conns_ \in [Slots -> [sock : Conns \cup {NONE}, tx : Seq(Units)]]
  /\ session \in [Slots -> Conns \cup {NONE}]
  /\ net \in [Conns -> [state : States, in : Int, left : Int, out : Seq(Units)]]
  /\ sent \in [Conns -> Nat]
  /\ got \in [Conns -> Seq(Units)]
  /\ cur \in Slots

\* Two slots never hold the same connection, and a connection that is held is open.
Holders ==
  \A i \in Slots : conns_[i].sock # NONE =>
    /\ net[conns_[i].sock].state \in {"UP", "EOF", "BROKEN"}
    /\ \A j \in Slots : conns_[j].sock = conns_[i].sock => i = j

\* s holds the units of connection c that follow the n-th.
Consecutive(c, n, s) == \A k \in 1 .. Len(s) : s[k] = <<c, n + k>>

InFlight(c) == Len(net[c].out)
Passed(c) == Len(got[c]) + InFlight(c)

\* What is in the socket follows what was received.
Stream(c) ==
  /\ Consecutive(c, Len(got[c]), net[c].out)
  /\ InFlight(c) <= SOCKET_ROOM
  /\ Passed(c) <= sent[c]
  /\ net[c].state \in {"NEW", "QUEUED"} => Passed(c) = sent[c]
  /\ net[c].state = "BROKEN" => net[c].out = <<>>

\* What waits in tx follows what is in the socket, up to the last unit sent.
Buffered(c, tx) ==
  net[c].state # "BROKEN" => Consecutive(c, Passed(c), tx) /\ Passed(c) + Len(tx) = sent[c]

Streams ==
  /\ \A c \in Conns : Stream(c)
  /\ \A i \in Slots : conns_[i].sock # NONE => Buffered(conns_[i].sock, conns_[i].tx)

IInv == TypeInv /\ SlotsAgree /\ Holders /\ Streams

USE SocketsAssumption

-----------------------------------------------------------------------------
(***************************************************************************)
(* Sequences of consecutive units.                                         *)
(***************************************************************************)

\* Two runs of units, the second of which begins where the first ends, make one.
LEMMA ConsecutiveConcat ==
  ASSUME NEW c, NEW n \in Nat, NEW s \in Seq(Units), NEW t \in Seq(Units),
         Consecutive(c, n, s), Consecutive(c, n + Len(s), t)
  PROVE  /\ s \o t \in Seq(Units)
         /\ Len(s \o t) = Len(s) + Len(t)
         /\ Consecutive(c, n, s \o t)
<1>1. /\ s \o t \in Seq(Units)
      /\ Len(s \o t) = Len(s) + Len(t)
      /\ \A k \in 1 .. Len(s) + Len(t) : (s \o t)[k] = IF k <= Len(s) THEN s[k] ELSE t[k - Len(s)]
  BY SMTT(90)
<1>2. Len(s) \in Nat /\ Len(t) \in Nat
  OBVIOUS
<1>3. SUFFICES ASSUME NEW k \in 1 .. Len(s) + Len(t)
               PROVE  (s \o t)[k] = <<c, n + k>>
  BY <1>1, ZenonT(90) DEF Consecutive
<1>4. CASE k <= Len(s)
  <2>1. s[k] = <<c, n + k>>
    BY <1>2, <1>4 DEF Consecutive
  <2>2. QED
    BY <1>1, <1>4, <2>1
<1>5. CASE ~(k <= Len(s))
  <2>1. k - Len(s) \in 1 .. Len(t)
    BY <1>2, <1>5
  <2>2. t[k - Len(s)] = <<c, (n + Len(s)) + (k - Len(s))>>
    BY <2>1 DEF Consecutive
  <2>3. (n + Len(s)) + (k - Len(s)) = n + k
    BY <1>2
  <2>4. QED
    BY <1>1, <1>5, <2>2, <2>3
<1>6. QED
  BY <1>4, <1>5, SMTT(90)

\* A run of units that is cut in two makes two runs.
LEMMA ConsecutiveCut ==
  ASSUME NEW c, NEW n \in Nat, NEW s \in Seq(Units), NEW m \in 0 .. Len(s),
         Consecutive(c, n, s)
  PROVE  /\ SubSeq(s, 1, m) \in Seq(Units) /\ SubSeq(s, m + 1, Len(s)) \in Seq(Units)
         /\ Len(SubSeq(s, 1, m)) = m /\ Len(SubSeq(s, m + 1, Len(s))) = Len(s) - m
         /\ Consecutive(c, n, SubSeq(s, 1, m))
         /\ Consecutive(c, n + m, SubSeq(s, m + 1, Len(s)))
<1>1. Len(s) \in Nat /\ m \in Nat /\ m <= Len(s)
  OBVIOUS
<1>2. \A k \in 1 .. Len(s) : s[k] \in Units
  OBVIOUS
<1>3. /\ SubSeq(s, 1, m) \in Seq(Units)
      /\ Len(SubSeq(s, 1, m)) = IF 1 <= m THEN m - 1 + 1 ELSE 0
      /\ \A k \in 1 .. m - 1 + 1 : SubSeq(s, 1, m)[k] = s[1 + k - 1]
  <2>1. \A k \in 1 .. m : s[k] \in Units
    BY <1>1, <1>2
  <2>2. QED
    BY <1>1, <2>1, SMTT(90)
<1>4. /\ SubSeq(s, m + 1, Len(s)) \in Seq(Units)
      /\ Len(SubSeq(s, m + 1, Len(s))) = IF m + 1 <= Len(s) THEN Len(s) - (m + 1) + 1 ELSE 0
      /\ \A k \in 1 .. Len(s) - (m + 1) + 1 : SubSeq(s, m + 1, Len(s))[k] = s[(m + 1) + k - 1]
  <2>1. \A k \in m + 1 .. Len(s) : s[k] \in Units
    BY <1>1, <1>2
  <2>2. QED
    BY <1>1, <2>1, SMTT(90)
<1>5. Len(SubSeq(s, 1, m)) = m /\ Len(SubSeq(s, m + 1, Len(s))) = Len(s) - m
  BY <1>1, <1>3, <1>4
<1>6. Consecutive(c, n, SubSeq(s, 1, m))
  <2>1. SUFFICES ASSUME NEW k \in 1 .. m PROVE SubSeq(s, 1, m)[k] = <<c, n + k>>
    BY <1>5 DEF Consecutive
  <2>2. SubSeq(s, 1, m)[k] = s[k]
    BY <1>1, <1>3
  <2>3. QED
    BY <1>1, <2>2 DEF Consecutive
<1>7. Consecutive(c, n + m, SubSeq(s, m + 1, Len(s)))
  <2>1. SUFFICES ASSUME NEW k \in 1 .. Len(s) - m
                 PROVE  SubSeq(s, m + 1, Len(s))[k] = <<c, (n + m) + k>>
    BY <1>5 DEF Consecutive
  <2>2. SubSeq(s, m + 1, Len(s))[k] = s[m + k]
    BY <1>1, <1>4, SMTT(90)
  <2>3. m + k \in 1 .. Len(s) /\ n + (m + k) = (n + m) + k
    BY <1>1
  <2>4. QED
    BY <2>2, <2>3 DEF Consecutive
<1>8. QED
  BY <1>3, <1>4, <1>5, <1>6, <1>7

-----------------------------------------------------------------------------
(***************************************************************************)
(* A frame is sent, and tx is flushed.                                     *)
(***************************************************************************)


\* The counters of a connection are numbers.
LEMMA Counters ==
  ASSUME TypeInv, NEW c \in Conns
  PROVE  /\ net[c].out \in Seq(Units) /\ got[c] \in Seq(Units)
         /\ Len(got[c]) \in Nat /\ InFlight(c) \in Nat /\ Passed(c) \in Nat /\ sent[c] \in Nat
<1>1. net[c].out \in Seq(Units) /\ got[c] \in Seq(Units) /\ sent[c] \in Nat
  BY DEF TypeInv
<1>2. Len(got[c]) \in Nat /\ InFlight(c) \in Nat
  BY DEF TypeInv, InFlight
<1>3. QED
  BY <1>1, <1>2 DEF Passed

\* A write takes no more than there is, and no more than fits.
LEMMA TakenFits ==
  ASSUME TypeInv, NEW c \in Conns, Stream(c), NEW len \in Nat
  PROVE  /\ taken(c, len) \in 0 .. len
         /\ InFlight(c) + taken(c, len) <= SOCKET_ROOM
         /\ net[c].state = "BROKEN" => taken(c, len) = 0
<1>1. InFlight(c) \in Nat /\ InFlight(c) <= SOCKET_ROOM
  BY Counters DEF Stream
<1>2. taken(c, len) = IF net[c].state = "BROKEN" THEN 0
                      ELSE IF len < SOCKET_ROOM - InFlight(c) THEN len ELSE SOCKET_ROOM - InFlight(c)
  BY DEF taken, InFlight
<1>3. QED
  BY <1>1, <1>2

\* A frame carries the units that follow the last one sent.
LEMMA FrameUnits ==
  ASSUME TypeInv, NEW c \in Conns
  PROVE  /\ Frame(c) \in Seq(Units) /\ Len(Frame(c)) = FRAME
         /\ Consecutive(c, sent[c], Frame(c))
<1>1. sent[c] \in Nat
  BY DEF TypeInv
<1>2. \A k \in 1 .. FRAME : <<c, sent[c] + k>> \in Units
  BY <1>1 DEF Units
<1>3. Frame(c) \in [1 .. FRAME -> Units]
  BY <1>2 DEF Frame
<1>4. Frame(c) \in Seq(Units) /\ Len(Frame(c)) = FRAME
  BY <1>3
<1>5. QED
  BY <1>4 DEF Consecutive, Frame

\* Connection c after out was written to it and its tx became tx: its stream goes
\* on to unit n.
Extends(c, out, tx, n) ==
  /\ out \in Seq(Units) /\ tx \in Seq(Units)
  /\ InFlight(c) + Len(out) <= SOCKET_ROOM
  /\ IF net[c].state = "BROKEN" THEN out = <<>>
     ELSE /\ Consecutive(c, Passed(c), out)
          /\ Consecutive(c, Passed(c) + Len(out), tx)
          /\ Passed(c) + Len(out) + Len(tx) = n

\* send_frame extends the stream of the slot's connection by a frame.
LEMMA SendFrameExtends ==
  ASSUME IInv, NEW i \in Slots, NEW c \in Conns, conns_[i].sock = c
  PROVE  Extends(c, send_frame(i).out, send_frame(i).tx, sent[c] + FRAME)
<1>1. PICK tx \in Seq(Units) : tx = conns_[i].tx
  BY DEF IInv, TypeInv
<1>2. session[i] = c /\ Stream(c) /\ Buffered(c, tx)
  BY <1>1 DEF IInv, Streams, SlotsAgree
<1>3. Passed(c) \in Nat /\ InFlight(c) \in Nat /\ Len(tx) \in Nat /\ sent[c] \in Nat
  BY Counters DEF IInv
<1>4. PICK n \in 0 .. FRAME :
        /\ n = taken(c, FRAME) /\ InFlight(c) + n <= SOCKET_ROOM
        /\ net[c].state = "BROKEN" => n = 0
  BY <1>2, TakenFits, SMTT(90) DEF IInv
<1>5. PICK f \in Seq(Units) : f = Frame(c) /\ Len(f) = FRAME /\ Consecutive(c, sent[c], f)
  BY FrameUnits DEF IInv
<1>6. /\ SubSeq(f, 1, n) \in Seq(Units) /\ SubSeq(f, n + 1, FRAME) \in Seq(Units)
      /\ Len(SubSeq(f, 1, n)) = n /\ Len(SubSeq(f, n + 1, FRAME)) = FRAME - n
      /\ Consecutive(c, sent[c], SubSeq(f, 1, n))
      /\ Consecutive(c, sent[c] + n, SubSeq(f, n + 1, FRAME))
  <2>1. n \in 0 .. Len(f)
    BY <1>4, <1>5
  <2>2. /\ SubSeq(f, 1, n) \in Seq(Units) /\ SubSeq(f, n + 1, Len(f)) \in Seq(Units)
        /\ Len(SubSeq(f, 1, n)) = n /\ Len(SubSeq(f, n + 1, Len(f))) = Len(f) - n
        /\ Consecutive(c, sent[c], SubSeq(f, 1, n))
        /\ Consecutive(c, sent[c] + n, SubSeq(f, n + 1, Len(f)))
    <3>1. sent[c] \in Nat /\ f \in Seq(Units) /\ Consecutive(c, sent[c], f)
      BY <1>3, <1>5
    <3>2. SubSeq(f, 1, n) \in Seq(Units) /\ SubSeq(f, n + 1, Len(f)) \in Seq(Units)
      BY <2>1, <3>1, ConsecutiveCut
    <3>3. Len(SubSeq(f, 1, n)) = n /\ Len(SubSeq(f, n + 1, Len(f))) = Len(f) - n
      BY <2>1, <3>1, ConsecutiveCut
    <3>4. Consecutive(c, sent[c], SubSeq(f, 1, n))
      BY <2>1, <3>1, ConsecutiveCut
    <3>5. Consecutive(c, sent[c] + n, SubSeq(f, n + 1, Len(f)))
      BY <2>1, <3>1, ConsecutiveCut, ZenonT(90)
    <3>6. QED
      BY <3>2, <3>3, <3>4, <3>5, SMTT(90)
  <2>3. QED
    BY <1>5, <2>2
<1>7. /\ send_frame(i).out = IF tx # <<>> THEN <<>> ELSE SubSeq(f, 1, n)
      /\ send_frame(i).tx = IF tx # <<>> THEN tx \o f
                            ELSE IF net[c].state = "BROKEN" THEN <<>> ELSE SubSeq(f, n + 1, FRAME)
  BY <1>1, <1>2, <1>4, <1>5 DEF send_frame
<1>8. PICK out, rest : out = send_frame(i).out /\ rest = send_frame(i).tx
  OBVIOUS
<1>9. CASE tx # <<>>
  <2>1. out = <<>> /\ rest = tx \o f
    BY <1>7, <1>8, <1>9
  <2>2. rest \in Seq(Units)
    BY <2>1
  <2>3. out \in Seq(Units) /\ Len(out) = 0 /\ Consecutive(c, Passed(c), out)
    BY <2>1 DEF Consecutive
  <2>4. InFlight(c) + Len(out) <= SOCKET_ROOM /\ Passed(c) + Len(out) = Passed(c)
    BY <1>2, <1>3, <2>3 DEF Stream
  <2>5. ASSUME net[c].state # "BROKEN"
        PROVE  Consecutive(c, Passed(c), rest) /\ Passed(c) + Len(rest) = sent[c] + FRAME
    <3>1. Consecutive(c, Passed(c), tx) /\ Passed(c) + Len(tx) = sent[c]
      BY <1>2, <2>5 DEF Buffered
    <3>2. Len(tx \o f) = Len(tx) + FRAME /\ Consecutive(c, Passed(c), tx \o f)
      BY <1>3, <1>5, <3>1, ConsecutiveConcat, SMTT(90)
    <3>3. QED
      BY <1>3, <2>1, <3>1, <3>2, SMTT(90)
  <2>6. QED
    BY <1>8, <2>1, <2>2, <2>3, <2>4, <2>5, SMTT(90) DEF Extends
<1>10. CASE tx = <<>>
  <2>1. /\ out = SubSeq(f, 1, n)
        /\ rest = IF net[c].state = "BROKEN" THEN <<>> ELSE SubSeq(f, n + 1, FRAME)
    BY <1>7, <1>8, <1>10
  <2>2. out \in Seq(Units) /\ rest \in Seq(Units) /\ Len(out) = n
    BY <1>6, <2>1
  <2>3. CASE net[c].state = "BROKEN"
    <3>1. out = <<>> /\ InFlight(c) + Len(out) <= SOCKET_ROOM
      BY <1>4, <2>2, <2>3, SMTT(90)
    <3>2. QED
      BY <1>8, <2>2, <2>3, <3>1, SMTT(90) DEF Extends
  <2>4. CASE net[c].state # "BROKEN"
    <3>1. Passed(c) = sent[c]
      BY <1>2, <1>3, <1>10, <2>4, SMTT(90) DEF Buffered
    <3>2. rest = SubSeq(f, n + 1, FRAME) /\ Len(rest) = FRAME - n
      BY <1>6, <2>1, <2>4, ZenonT(90)
    <3>3. Passed(c) + Len(out) + Len(rest) = sent[c] + FRAME
      BY <1>3, <2>2, <3>1, <3>2
    <3>4. Consecutive(c, Passed(c), out) /\ Consecutive(c, Passed(c) + Len(out), rest)
      BY <1>6, <2>1, <2>2, <3>1, <3>2, ZenonT(90)
    <3>5. QED
      BY <1>4, <1>8, <2>2, <2>4, <3>3, <3>4, SMTT(90) DEF Extends
  <2>5. QED
    BY <2>3, <2>4
<1>11. QED
  BY <1>9, <1>10

\* The stream of a connection after a write that extends it.
LEMMA StreamExtends ==
  ASSUME TypeInv, TypeInv', NEW c \in Conns, Stream(c),
         NEW out, NEW tx, NEW n \in Nat, Extends(c, out, tx, n),
         net'[c].out = net[c].out \o out, got'[c] = got[c],
         net'[c].state = net[c].state \/ net'[c].state = "CLOSED",
         net[c].state \notin {"NEW", "QUEUED"},
         sent'[c] = n, sent[c] <= n
  PROVE  Stream(c)' /\ (net'[c].state = net[c].state => Buffered(c, tx)')
<1>1. /\ net[c].out \in Seq(Units) /\ Len(got[c]) \in Nat /\ InFlight(c) \in Nat
      /\ Passed(c) \in Nat /\ sent[c] \in Nat
  BY Counters, SMTT(90)
<1>2. out \in Seq(Units) /\ tx \in Seq(Units) /\ Len(out) \in Nat /\ Len(tx) \in Nat
  BY DEF Extends
<1>3. PICK o \in Seq(Units) : o = net[c].out /\ Len(o) = InFlight(c)
  BY <1>1, SMTT(90) DEF InFlight
<1>4. Len(o \o out) = Len(o) + Len(out)
  BY <1>2, SMTT(90)
<1>5. InFlight(c)' = InFlight(c) + Len(out)
  BY <1>3, <1>4, SMTT(90) DEF InFlight
<1>6. Passed(c)' = Passed(c) + Len(out) /\ Passed(c) = Len(got[c]) + InFlight(c)
  BY <1>1, <1>2, <1>5, SMTT(90) DEF Passed
<1>7. Consecutive(c, Len(got[c]), o) /\ Passed(c) <= sent[c] /\ (net[c].state = "BROKEN" => o = <<>>)
  BY <1>3, SMTT(90) DEF Stream
<1>8. CASE net[c].state = "BROKEN"
  <2>1. out = <<>> /\ o = <<>> /\ Len(out) = 0 /\ o \o out = <<>>
    BY <1>7, <1>8, SMTT(90) DEF Extends
  <2>2. Consecutive(c, Len(got[c]), o \o out)
    BY <1>7, <2>1, SMTT(90)
  <2>3. Passed(c)' <= sent'[c] /\ InFlight(c)' <= SOCKET_ROOM
    BY <1>1, <1>5, <1>6, <1>7, <2>1, SMTT(90) DEF Stream
  <2>4. Stream(c)'
    BY <1>3, <1>8, <2>1, <2>2, <2>3, SMTT(90) DEF Stream
  <2>5. net'[c].state = net[c].state => Buffered(c, tx)'
    BY <1>8, SMTT(90) DEF Buffered
  <2>6. QED
    BY <2>4, <2>5, SMTT(90)
<1>9. CASE net[c].state # "BROKEN"
  <2>1. /\ Consecutive(c, Passed(c), out) /\ Consecutive(c, Passed(c) + Len(out), tx)
        /\ Passed(c) + Len(out) + Len(tx) = n /\ InFlight(c) + Len(out) <= SOCKET_ROOM
    BY <1>9 DEF Extends
  <2>2. Consecutive(c, Len(got[c]), o \o out)
    <3>1. Consecutive(c, Len(got[c]) + Len(o), out)
      BY <1>3, <1>6, <2>1, SMTT(90)
    <3>2. QED
      BY <1>1, <1>2, <1>7, <3>1, ConsecutiveConcat, ZenonT(90)
  <2>3. Passed(c)' <= sent'[c] /\ InFlight(c)' <= SOCKET_ROOM /\ Passed(c)' + Len(tx) = sent'[c]
    BY <1>1, <1>2, <1>5, <1>6, <2>1, SMTT(90)
  <2>4. Stream(c)'
    BY <1>3, <1>9, <2>2, <2>3 DEF Stream
  <2>5. Consecutive(c, Passed(c)', tx)
    BY <1>6, <2>1
  <2>6. Buffered(c, tx)'
    BY <2>3, <2>5, SMTT(90) DEF Buffered, Consecutive
  <2>7. QED
    BY <2>4, <2>6, SMTT(90)
<1>10. QED
  BY <1>8, <1>9

\* The stream of a connection that a step does not touch.
LEMMA StreamKept ==
  ASSUME NEW c, Stream(c), net'[c].out = net[c].out, got'[c] = got[c], sent'[c] = sent[c],
         net[c].state = "BROKEN" \/ net'[c].state # "BROKEN",
         net'[c].state \in {"NEW", "QUEUED"} => net[c].state \in {"NEW", "QUEUED"}
  PROVE  Stream(c)' /\ Passed(c)' = Passed(c)
BY ZenonT(90) DEF Stream, Passed, InFlight, Consecutive

\* The streams of all connections, from those of each.
LEMMA BufferedAll ==
  ASSUME TypeInv', \A c \in Conns : Stream(c)',
         \A i \in Slots : \A c \in Conns : \A tx :
           c = conns_'[i].sock /\ tx = conns_'[i].tx => Buffered(c, tx)'
  PROVE  Streams'
<1>1. ASSUME NEW i \in Slots, conns_'[i].sock # NONE
      PROVE  Buffered(conns_[i].sock, conns_[i].tx)'
  <2>1. PICK c \in Conns : c = conns_'[i].sock
    BY <1>1 DEF TypeInv
  <2>2. PICK tx : tx = conns_'[i].tx
    OBVIOUS
  <2>3. Buffered(c, tx)'
    BY <2>1, <2>2
  <2>4. QED
    BY <2>1, <2>2, <2>3 DEF Buffered
<1>2. QED
  BY <1>1 DEF Streams

-----------------------------------------------------------------------------
(***************************************************************************)
(* A call of the server.                                                   *)
(***************************************************************************)

\* What a call does to a connection that it sends a frame on: the slot that holds
\* it is the only one, so that what is written is that slot's frame.
LEMMA CallSends ==
  ASSUME IInv, NEW T \in SUBSET Slots, NEW C, NEW r, Call(T, C, r),
         NEW i \in T, NEW c \in Conns, conns_[i].sock = c
  PROVE  written(T, c) = send_frame(i).out /\ sent'[c] = sent[c] + FRAME
<1>1. c # NONE /\ session[i] = c
  BY DEF IInv, SlotsAgree
<1>2. \A j \in T : conns_[j].sock = c => j = i
  BY <1>1 DEF IInv, Holders
<1>3. (CHOOSE j \in T : conns_[j].sock = c) = i
  BY <1>2
<1>4. written(T, c) = send_frame(i).out
  BY <1>3, ZenonT(90) DEF written
<1>5. sent'[c] = sent[c] + FRAME
  BY <1>1 DEF Call
<1>6. QED
  BY <1>4, <1>5

\* What it does to the others.
LEMMA CallSkips ==
  ASSUME IInv, NEW T \in SUBSET Slots, NEW C, NEW r, Call(T, C, r),
         NEW c \in Conns, \A i \in T : conns_[i].sock # c
  PROVE  /\ written(T, c) = <<>> /\ sent'[c] = sent[c]
         /\ net'[c].out = net[c].out
<1>1. written(T, c) = <<>>
  BY DEF written
<1>2. sent'[c] = sent[c]
  BY DEF Call, IInv, SlotsAgree
<1>3. net[c].out \in Seq(Units)
  BY Counters DEF IInv
<1>4. net'[c].out = net[c].out \o <<>>
  BY <1>1 DEF Call
<1>5. QED
  BY <1>1, <1>2, <1>3, <1>4, SMTT(90)

\* A call keeps the types of the state.
LEMMA CallTypes ==
  ASSUME IInv, NEW T \in SUBSET Slots, NEW C \in SUBSET Slots, NEW r, Call(T, C, r),
         UNCHANGED got, cur' \in Slots
  PROVE  TypeInv'
<1>1. session' \in [Slots -> Conns \cup {NONE}]
  BY DEF Call, IInv, TypeInv
<1>2. sent' \in [Conns -> Nat]
  <2>1. sent \in [Conns -> Nat] /\ FRAME \in Nat
    BY DEF IInv, TypeInv
  <2>2. sent' = [c \in Conns |-> IF \E i \in T : session[i] = c THEN sent[c] + FRAME ELSE sent[c]]
    BY DEF Call
  <2>3. \A c \in Conns : sent[c] \in Nat /\ sent[c] + FRAME \in Nat
    BY <2>1
  <2>4. QED
    BY <2>2, <2>3, ZenonT(90)
<1>3. ASSUME NEW i \in Slots
      PROVE  conns_'[i] \in [sock : Conns \cup {NONE}, tx : Seq(Units)]
  <2>1. conns_[i] \in [sock : Conns \cup {NONE}, tx : Seq(Units)]
    BY DEF IInv, TypeInv
  <2>2. Closed \in [sock : Conns \cup {NONE}, tx : Seq(Units)]
    BY DEF Closed
  <2>3. ASSUME conns_[i].sock # NONE
        PROVE  [conns_[i] EXCEPT !.tx = send_frame(i).tx] \in [sock : Conns \cup {NONE}, tx : Seq(Units)]
    <3>1. PICK c \in Conns : conns_[i].sock = c
      BY <2>1, <2>3
    <3>2. send_frame(i).tx \in Seq(Units)
      BY <3>1, SendFrameExtends, SMTT(90) DEF Extends
    <3>3. QED
      BY <2>1, <3>2, SMTT(90)
  <2>4. conns_'[i] = IF i \in C THEN Closed
                     ELSE IF i \in T /\ conns_[i].sock # NONE THEN [conns_[i] EXCEPT !.tx = send_frame(i).tx]
                     ELSE conns_[i]
    BY DEF Call, closed
  <2>5. QED
    BY <2>1, <2>2, <2>3, <2>4, SMTT(90)
<1>4. conns_' \in [Slots -> [sock : Conns \cup {NONE}, tx : Seq(Units)]]
  <2>1. conns_' = [i \in Slots |-> conns_'[i]]
    BY SMTT(90) DEF Call
  <2>2. QED
    BY <1>3, <2>1, SMTT(90)
<1>5. ASSUME NEW c \in Conns
      PROVE  net'[c] \in [state : States, in : Int, left : Int, out : Seq(Units)]
  <2>1. net[c] \in [state : States, in : Int, left : Int, out : Seq(Units)]
    BY DEF IInv, TypeInv
  <2>2. written(T, c) \in Seq(Units)
    <3>1. ASSUME NEW i \in T, conns_[i].sock = c
          PROVE  written(T, c) \in Seq(Units)
      BY <3>1, CallSends, SendFrameExtends DEF Extends
    <3>2. CASE \A i \in T : conns_[i].sock # c
      <4>1. written(T, c) = <<>>
        BY <3>2 DEF written
      <4>2. QED
        BY <4>1
    <3>3. QED
      BY <3>1, <3>2, SMTT(90)
  <2>3. net[c].out \o written(T, c) \in Seq(Units)
    BY <2>1, <2>2, SMTT(90)
  <2>4. net'[c] = [state |-> IF \E i \in C : conns_[i].sock = c THEN "CLOSED" ELSE net[c].state,
                   in |-> IF c = r THEN net[c].in - 1 ELSE net[c].in,
                   left |-> net[c].left,
                   out |-> net[c].out \o written(T, c)]
    BY DEF Call, closed
  <2>5. QED
    BY <2>1, <2>3, <2>4, SMTT(90) DEF States
<1>6. net' \in [Conns -> [state : States, in : Int, left : Int, out : Seq(Units)]]
  <2>1. net' = [c \in Conns |-> net'[c]]
    BY DEF Call
  <2>2. QED
    BY <1>5, <2>1, SMTT(90)
<1>7. QED
  BY <1>1, <1>2, <1>4, <1>6, SMTT(90) DEF TypeInv, IInv

\* A call keeps the invariant.
LEMMA CallKeeps ==
  ASSUME IInv, NEW T \in SUBSET Slots, NEW C \in SUBSET Slots, NEW r, Call(T, C, r),
         UNCHANGED got, cur' \in Slots
  PROVE  IInv'
<1>1. TypeInv'
  BY CallTypes, SMTT(90)
<1>2. \A i \in Slots : /\ i \in C => conns_'[i].sock = NONE /\ session'[i] = NONE
                       /\ i \notin C => conns_'[i].sock = conns_[i].sock /\ session'[i] = session[i]
  BY DEF Call, closed, Closed, IInv, TypeInv
<1>3. SlotsAgree'
  BY <1>2, SMTT(90) DEF SlotsAgree, IInv
<1>4. \A c \in Conns :
        net'[c].state = IF \E i \in C : conns_[i].sock = c THEN "CLOSED" ELSE net[c].state
  BY SMTT(90) DEF Call, closed
<1>5. ASSUME NEW i \in Slots, conns_'[i].sock # NONE
      PROVE  /\ i \notin C /\ conns_'[i].sock = conns_[i].sock /\ conns_[i].sock \in Conns
             /\ net'[conns_[i].sock].state = net[conns_[i].sock].state
  <2>1. i \notin C /\ conns_'[i].sock = conns_[i].sock
    BY <1>2, <1>5, SMTT(90)
  <2>2. PICK c \in Conns : c = conns_[i].sock
    BY <1>5, <2>1, SMTT(90) DEF IInv, TypeInv
  <2>3. \A j \in C : conns_[j].sock # c
    BY <2>1, <2>2, SMTT(90) DEF IInv, Holders
  <2>4. net'[c].state = net[c].state
    BY <1>4, <2>3, SMTT(90)
  <2>5. QED
    BY <2>1, <2>2, <2>4, SMTT(90)
<1>6. Holders'
  BY <1>2, <1>5, SMTT(90) DEF Holders, IInv
<1>7. ASSUME NEW c \in Conns, \A i \in T : conns_[i].sock # c
      PROVE  Stream(c)' /\ Passed(c)' = Passed(c) /\ sent'[c] = sent[c]
  <2>1. net'[c].out = net[c].out /\ sent'[c] = sent[c] /\ got'[c] = got[c]
    BY <1>7, CallSkips, ZenonT(90)
  <2>2. Stream(c)
    BY DEF IInv, Streams
  <2>3. net'[c].state = net[c].state \/ net'[c].state = "CLOSED"
    BY <1>4
  <2>4. QED
    BY <2>1, <2>2, <2>3, StreamKept, SMTT(90)
<1>8. ASSUME NEW i \in T, NEW c \in Conns, conns_[i].sock = c
      PROVE  /\ Stream(c)'
             /\ \A tx : tx = send_frame(i).tx /\ net'[c].state = net[c].state => Buffered(c, tx)'
  <2>1. PICK out, tx : out = send_frame(i).out /\ tx = send_frame(i).tx
    OBVIOUS
  <2>2. PICK n : n = sent[c] + FRAME
    OBVIOUS
  <2>3. sent[c] \in Nat /\ n \in Nat /\ sent[c] <= n
    BY <2>2, Counters DEF IInv
  <2>4. Extends(c, out, tx, n) /\ sent'[c] = n /\ written(T, c) = out
    BY <1>8, <2>1, <2>2, SendFrameExtends, CallSends
  <2>5. net'[c].out = net[c].out \o out
    BY <2>4, ZenonT(90) DEF Call
  <2>6. net'[c].state = net[c].state \/ net'[c].state = "CLOSED"
    BY <1>4
  <2>7. net[c].state \notin {"NEW", "QUEUED"}
    BY <1>8 DEF IInv, Holders
  <2>8. got'[c] = got[c] /\ Stream(c)
    BY DEF IInv, Streams
  <2>9. Stream(c)' /\ (net'[c].state = net[c].state => Buffered(c, tx)')
    <3>1. TypeInv
      BY DEF IInv
    <3>2. QED
      BY <1>1, <2>3, <2>4, <2>5, <2>6, <2>7, <2>8, <3>1, StreamExtends, ZenonT(90)
  <2>10. QED
    BY <2>1, <2>9
<1>9. \A c \in Conns : Stream(c)'
  BY <1>7, <1>8
<1>10. ASSUME NEW i \in Slots, NEW c \in Conns, NEW tx, c = conns_'[i].sock, tx = conns_'[i].tx
       PROVE  Buffered(c, tx)'
  <2>1. c # NONE
    BY SMTT(90)
  <2>2. i \notin C /\ c = conns_[i].sock /\ net'[c].state = net[c].state
    BY <1>5, <1>10, <2>1, SMTT(90)
  <2>3. CASE i \in T
    <3>1. tx = send_frame(i).tx
      BY <1>10, <2>1, <2>2, <2>3, SMTT(90) DEF Call, closed, IInv, TypeInv
    <3>2. QED
      BY <1>8, <2>2, <2>3, <3>1, SMTT(90)
  <2>4. CASE i \notin T
    <3>1. tx = conns_[i].tx
      BY <1>10, <2>2, <2>4, SMTT(90) DEF Call, closed
    <3>2. \A j \in T : conns_[j].sock # c
      BY <2>1, <2>2, <2>4, SMTT(90) DEF IInv, Holders
    <3>3. Passed(c)' = Passed(c) /\ sent'[c] = sent[c]
      BY <1>7, <3>2, SMTT(90)
    <3>4. Buffered(c, tx)
      BY <2>1, <2>2, <3>1, SMTT(90) DEF IInv, Streams
    <3>5. QED
      BY <2>2, <3>3, <3>4, SMTT(90) DEF Buffered, Consecutive
  <2>5. QED
    BY <2>3, <2>4
<1>11. Streams'
  BY <1>1, <1>9, <1>10, BufferedAll
<1>12. QED
  BY <1>1, <1>3, <1>6, <1>11, SMTT(90) DEF IInv
=============================================================================
