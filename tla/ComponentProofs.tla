-------------------------- MODULE ComponentProofs --------------------------
(***************************************************************************)
(* Proofs about the ESPHome component: its steps keep the streams of its   *)
(* connections, it implements the channels that the server relies on, its  *)
(* slots agree with the sessions of the server, and its sensors are        *)
(* current.                                                                *)
(***************************************************************************)
EXTENDS StreamProofs

USE SocketsAssumption

-----------------------------------------------------------------------------
(***************************************************************************)
(* The other steps.                                                        *)
(***************************************************************************)

\* There is a slot to begin with.
LEMMA FirstSlot == 1 \in Slots
BY DEF Slots

\* The loop goes through the slots.
LEMMA CurIsSlot ==
  ASSUME cur \in Slots, NextConn \/ NextTick
  PROVE  cur' \in Slots
BY DEF NextConn, NextTick, Goto, Slots

\* Steps of the loop that touch neither sockets nor buffers.
LEMMA QuietKeeps ==
  ASSUME IInv, UNCHANGED <<conns_, net, sent, session, got>>, cur' \in Slots
  PROVE  IInv'
<1>1. TypeInv' /\ SlotsAgree' /\ Holders'
  BY DEF IInv, TypeInv, SlotsAgree, Holders
<1>2. \A c \in Conns : Stream(c)' /\ Passed(c)' = Passed(c)
  BY ZenonT(90) DEF IInv, Streams, Stream, Passed, InFlight, Consecutive
<1>3. \A i \in Slots : \A c \in Conns : \A tx :
        c = conns_'[i].sock /\ tx = conns_'[i].tx => Buffered(c, tx)'
  BY <1>2 DEF IInv, Streams, Buffered, Consecutive
<1>4. QED
  BY <1>1, <1>2, <1>3, BufferedAll DEF IInv

\* A step that changes the socket of one connection, and of its stream nothing.
LEMMA SocketKeeps ==
  ASSUME IInv, UNCHANGED <<conns_, session, sent, got, cur>>, NEW c \in Conns,
         NEW s \in [state : States, in : Int, left : Int, out : Seq(Units)],
         net' = [net EXCEPT ![c] = s],
         s.out = net[c].out \/ (s.state = "BROKEN" /\ s.out = <<>>),
         s.state \in {"NEW", "QUEUED"} => net[c].state \in {"NEW", "QUEUED"},
         net[c].state = "BROKEN" => s.state = "BROKEN",
         s.state = "BROKEN" => s.out = <<>>,
         net[c].state \in {"UP", "EOF", "BROKEN"} => s.state \in {"UP", "EOF", "BROKEN"}
  PROVE  IInv'
<1>1. net'[c] = s /\ \A d \in Conns \ {c} : net'[d] = net[d]
  BY DEF IInv, TypeInv
<1>2. TypeInv'
  BY DEF IInv, TypeInv
<1>3. SlotsAgree' /\ Holders'
  BY <1>1, SMTT(90) DEF IInv, SlotsAgree, Holders, TypeInv
<1>4. Stream(c) /\ \A d \in Conns : Stream(d)
  BY DEF IInv, Streams
<1>5. CASE s.out = net[c].out
  <2>1. \A d \in Conns : net'[d].out = net[d].out
    BY <1>1, <1>5
  <2>2. \A d \in Conns : Passed(d)' = Passed(d)
    BY <2>1, ZenonT(90) DEF Passed, InFlight
  <2>3. \A d \in Conns : Stream(d)'
    BY <1>1, <1>4, <2>1, <2>2 DEF Stream, InFlight, Consecutive
  <2>4. \A i \in Slots : \A d \in Conns : \A tx :
          d = conns_'[i].sock /\ tx = conns_'[i].tx => Buffered(d, tx)'
    BY <1>1, <2>2, SMTT(90) DEF IInv, Streams, Buffered, Consecutive
  <2>5. QED
    BY <1>2, <1>3, <2>3, <2>4, BufferedAll DEF IInv
<1>6. CASE s.state = "BROKEN" /\ s.out = <<>>
  <2>1. Len(got[c]) \in Nat /\ InFlight(c) \in Nat /\ sent[c] \in Nat
    BY Counters, SMTT(90) DEF IInv
  <2>2. InFlight(c)' = 0 /\ Passed(c)' = Len(got[c]) /\ Passed(c) = Len(got[c]) + InFlight(c)
    <3>1. InFlight(c)' = 0
      BY <1>1, <1>6, SMTT(90) DEF InFlight
    <3>2. QED
      BY <2>1, <3>1, SMTT(90) DEF Passed
  <2>3. Stream(c)'
    BY <1>1, <1>4, <1>6, <2>1, <2>2, SMTT(90) DEF Stream, Consecutive
  <2>4. \A d \in Conns \ {c} : Passed(d)' = Passed(d)
    BY <1>1, SMTT(90) DEF Passed, InFlight
  <2>5. \A d \in Conns \ {c} : Stream(d)'
    BY <1>1, <1>4, <2>4, SMTT(90) DEF Stream, InFlight, Consecutive
  <2>6. \A i \in Slots : \A d \in Conns : \A tx :
          d = conns_'[i].sock /\ tx = conns_'[i].tx => Buffered(d, tx)'
    BY <1>1, <1>6, <2>4, SMTT(90) DEF IInv, Streams, Buffered, Consecutive
  <2>7. QED
    BY <1>2, <1>3, <2>3, <2>5, <2>6, BufferedAll, SMTT(90) DEF IInv
<1>7. QED
  BY <1>5, <1>6

\* What is flushed goes from the front of tx to the end of the socket.
LEMMA FlushKeeps ==
  ASSUME IInv, Flush
  PROVE  IInv'
<1>1. cur \in Slots /\ cur' \in Slots /\ UNCHANGED <<session, sent, got>>
  BY SMTT(90) DEF Flush, Goto, IInv, TypeInv
<1>2. PICK c \in Conns, tx \in Seq(Units) : c = conns_[cur].sock /\ tx = conns_[cur].tx
  BY <1>1, SMTT(90) DEF Flush, IInv, TypeInv
<1>3. Stream(c) /\ Buffered(c, tx) /\ \A d \in Conns : Stream(d)
  BY <1>1, <1>2 DEF IInv, Streams
<1>4. Passed(c) \in Nat /\ InFlight(c) \in Nat /\ Len(tx) \in Nat /\ sent[c] \in Nat
  BY Counters DEF IInv
<1>5. PICK n \in 0 .. Len(tx) :
        /\ n = taken(c, Len(tx)) /\ InFlight(c) + n <= SOCKET_ROOM
        /\ net[c].state = "BROKEN" => n = 0
  BY <1>3, <1>4, TakenFits, SMTT(90) DEF IInv
<1>6. PICK out, rest : out = SubSeq(tx, 1, n) /\ rest = SubSeq(tx, n + 1, Len(tx))
  BY ZenonT(90)
<1>7. /\ net' = [net EXCEPT ![c].out = @ \o out]
      /\ conns_' = [conns_ EXCEPT ![cur].tx = rest]
  BY <1>2, <1>5, <1>6 DEF Flush, flushed
<1>8. Extends(c, out, rest, sent[c])
  <2>1. CASE net[c].state = "BROKEN"
    <3>1. out = <<>> /\ rest = tx
      BY <1>5, <1>6, <2>1, SMTT(90)
    <3>2. QED
      BY <1>3, <1>4, <2>1, <3>1, SMTT(90) DEF Extends, Stream
  <2>2. CASE net[c].state # "BROKEN"
    <3>1. Consecutive(c, Passed(c), tx) /\ Passed(c) + Len(tx) = sent[c]
      BY <1>3, <2>2, SMTT(90) DEF Buffered
    <3>2. /\ out \in Seq(Units) /\ rest \in Seq(Units) /\ Len(out) = n /\ Len(rest) = Len(tx) - n
          /\ Consecutive(c, Passed(c), out)
      BY <1>4, <1>6, <3>1, ConsecutiveCut, SMTT(90)
    <3>3. Consecutive(c, Passed(c) + n, rest)
      BY <1>4, <1>6, <3>1, ConsecutiveCut, ZenonT(90)
    <3>4. Passed(c) + Len(out) + Len(rest) = sent[c] /\ InFlight(c) + Len(out) <= SOCKET_ROOM
      BY <1>4, <1>5, <3>1, <3>2
    <3>5. QED
      BY <2>2, <3>2, <3>3, <3>4, SMTT(90) DEF Extends
  <2>3. QED
    BY <2>1, <2>2, SMTT(90)
<1>9. /\ net'[c].out = net[c].out \o out /\ net'[c].state = net[c].state
      /\ \A d \in Conns \ {c} : net'[d] = net[d]
      /\ conns_'[cur].sock = c /\ conns_'[cur].tx = rest
      /\ \A j \in Slots \ {cur} : conns_'[j] = conns_[j]
  <2>1. /\ net'[c].out = net[c].out \o out /\ net'[c].state = net[c].state
        /\ \A d \in Conns \ {c} : net'[d] = net[d]
    BY <1>7, SMTT(90) DEF IInv, TypeInv
  <2>2. /\ conns_'[cur].sock = conns_[cur].sock /\ conns_'[cur].tx = rest
        /\ \A j \in Slots \ {cur} : conns_'[j] = conns_[j]
    BY <1>1, <1>7 DEF IInv, TypeInv
  <2>3. QED
    BY <1>2, <2>1, <2>2, ZenonT(90)
<1>10. TypeInv'
  <2>1. out \in Seq(Units) /\ rest \in Seq(Units) /\ net[c].out \in Seq(Units)
    BY <1>8, Counters, SMTT(90) DEF Extends, IInv
  <2>2. net[c].out \o out \in Seq(Units)
    BY <2>1, SMTT(90)
  <2>3. QED
    <3>1. net' \in [Conns -> [state : States, in : Int, left : Int, out : Seq(Units)]]
      <4>1. PICK o \in Seq(Units) : o = net[c].out \o out
        BY <2>2, ZenonT(90)
      <4>2. net' = [net EXCEPT ![c].out = o]
        BY <1>7, <4>1, SMTT(90)
      <4>3. QED
        BY <4>2, ZenonT(90) DEF IInv, TypeInv
    <3>2. conns_' \in [Slots -> [sock : Conns \cup {NONE}, tx : Seq(Units)]]
      <4>1. PICK t \in Seq(Units) : t = rest
        BY <2>1
      <4>2. conns_' = [conns_ EXCEPT ![cur].tx = t]
        BY <1>7, <4>1
      <4>3. [conns_[cur] EXCEPT !.tx = t] \in [sock : Conns \cup {NONE}, tx : Seq(Units)]
        <5>1. conns_[cur] \in [sock : Conns \cup {NONE}, tx : Seq(Units)]
          BY <1>1 DEF IInv, TypeInv
        <5>2. QED
          BY <5>1, ZenonT(90)
      <4>4. conns_' = [conns_ EXCEPT ![cur] = [conns_[cur] EXCEPT !.tx = t]]
        BY <4>2
      <4>5. conns_ \in [Slots -> [sock : Conns \cup {NONE}, tx : Seq(Units)]]
        BY DEF IInv, TypeInv
      <4>6. QED
        BY <4>3, <4>4, <4>5, ZenonT(90)
    <3>3. QED
      BY <1>1, <3>1, <3>2, ZenonT(90) DEF IInv, TypeInv
<1>11. SlotsAgree' /\ Holders'
  <2>1. \A j \in Slots : conns_'[j].sock = conns_[j].sock
    BY <1>1, <1>2, <1>9, ZenonT(90)
  <2>2. \A d \in Conns : net'[d].state = net[d].state
    BY <1>9, SMTT(90)
  <2>3. \A j \in Slots : conns_[j].sock # NONE => conns_[j].sock \in Conns
    BY DEF IInv, TypeInv
  <2>4. QED
    BY <1>1, <2>1, <2>2, <2>3, SMTT(90) DEF IInv, SlotsAgree, Holders
<1>12. Stream(c)' /\ Buffered(c, rest)'
  <2>1. net[c].state \notin {"NEW", "QUEUED"}
    BY <1>1, <1>2, SMTT(90) DEF IInv, Holders
  <2>2. TypeInv /\ sent'[c] = sent[c] /\ sent[c] <= sent[c] /\ got'[c] = got[c] /\ sent[c] \in Nat
    BY <1>1, <1>4, SMTT(90) DEF IInv
  <2>3. QED
    BY <1>3, <1>8, <1>9, <1>10, <2>1, <2>2, StreamExtends, ZenonT(90)
<1>13. \A d \in Conns \ {c} : Stream(d)' /\ Passed(d)' = Passed(d)
  <2>1. SUFFICES ASSUME NEW d \in Conns \ {c} PROVE Stream(d)' /\ Passed(d)' = Passed(d)
    BY SMTT(90)
  <2>2. net'[d] = net[d] /\ Stream(d) /\ got'[d] = got[d] /\ sent'[d] = sent[d]
    BY <1>1, <1>3, <1>9, SMTT(90)
  <2>3. QED
    BY <2>2, StreamKept, SMTT(90)
<1>14. ASSUME NEW j \in Slots, NEW d \in Conns, NEW t, d = conns_'[j].sock, t = conns_'[j].tx
       PROVE  Buffered(d, t)'
  <2>1. CASE j = cur
    BY <1>9, <1>12, <1>14, <2>1, SMTT(90)
  <2>2. CASE j # cur
    <3>1. d = conns_[j].sock /\ t = conns_[j].tx /\ d # c
      <4>1. d = conns_[j].sock /\ t = conns_[j].tx
        BY <1>9, <1>14, <2>2, ZenonT(90)
      <4>2. d # c
        BY <1>1, <1>2, <2>2, <4>1, SMTT(90) DEF IInv, Holders
      <4>3. QED
        BY <4>1, <4>2, ZenonT(90)
    <3>2. Buffered(d, t)
      BY <3>1, SMTT(90) DEF IInv, Streams
    <3>3. QED
      BY <1>1, <1>9, <1>13, <3>1, <3>2, SMTT(90) DEF Buffered, Consecutive
  <2>3. QED
    BY <2>1, <2>2, SMTT(90)
<1>15. QED
  BY <1>10, <1>11, <1>12, <1>13, <1>14, BufferedAll, SMTT(90) DEF IInv

\* A peer reads the first unit in its socket; it is the next one of its stream.
LEMMA PeerReadsKeeps ==
  ASSUME IInv, NEW c \in Conns, PeerReads(c), UNCHANGED host_vars
  PROVE  /\ IInv'
         /\ Len(got[c]) < sent[c]
         /\ got' = [got EXCEPT ![c] = Append(@, <<c, Len(@) + 1>>)]
<1>1. PICK o \in Seq(Units), g \in Seq(Units) : o = net[c].out /\ g = got[c]
  BY Counters DEF IInv
<1>2. Stream(c) /\ \A d \in Conns : Stream(d)
  BY DEF IInv, Streams
<1>3. o # <<>> /\ Len(o) \in Nat /\ Len(o) > 0 /\ Len(g) \in Nat /\ sent[c] \in Nat
  BY <1>1, Counters, SMTT(90) DEF PeerReads, IInv
<1>4. InFlight(c) = Len(o) /\ Passed(c) = Len(g) + Len(o)
  BY <1>1 DEF InFlight, Passed
<1>5. Consecutive(c, Len(g), o) /\ Passed(c) <= sent[c] /\ Len(o) <= SOCKET_ROOM
  BY <1>1, <1>2, <1>4, ZenonT(90) DEF Stream
<1>6. Len(g) < sent[c]
  BY <1>3, <1>4, <1>5
<1>7. Head(o) = <<c, Len(g) + 1>>
  <2>1. Head(o) = o[1]
    OBVIOUS
  <2>2. QED
    BY <1>3, <1>5, <2>1 DEF Consecutive
<1>8. PICK h, rest : h = Append(g, <<c, Len(g) + 1>>) /\ rest = Tail(o)
  BY ZenonT(90)
<1>9. got' = [got EXCEPT ![c] = h] /\ net' = [net EXCEPT ![c].out = rest]
  BY <1>1, <1>7, <1>8, ZenonT(90) DEF PeerReads
<1>10. h \in Seq(Units) /\ Len(h) = Len(g) + 1
  <2>1. <<c, Len(g) + 1>> \in Units
    BY <1>3, SMTT(90) DEF Units
  <2>2. QED
    BY <1>8, <2>1
<1>11. /\ rest \in Seq(Units) /\ Len(rest) = Len(o) - 1
       /\ \A k \in 1 .. Len(rest) : rest[k] = o[k + 1]
  BY <1>3, <1>8, SMTT(90)
<1>12. Consecutive(c, Len(h), rest)
  <2>1. SUFFICES ASSUME NEW k \in 1 .. Len(rest) PROVE rest[k] = <<c, Len(h) + k>>
    BY DEF Consecutive
  <2>2. k + 1 \in 1 .. Len(o) /\ Len(g) + (k + 1) = Len(h) + k
    BY <1>3, <1>10, <1>11, SMTT(90)
  <2>3. o[k + 1] = <<c, Len(g) + (k + 1)>>
    BY <1>5, <2>2, SMTT(90) DEF Consecutive
  <2>4. QED
    BY <1>11, <2>2, <2>3, SMTT(90)
<1>13. /\ got'[c] = h /\ net'[c].out = rest /\ net'[c].state = net[c].state
       /\ \A d \in Conns \ {c} : got'[d] = got[d] /\ net'[d] = net[d]
  BY <1>9 DEF IInv, TypeInv
<1>14. UNCHANGED <<conns_, session, cur, sent>>
  BY DEF host_vars, PeerReads
<1>15. TypeInv'
  <2>1. net' \in [Conns -> [state : States, in : Int, left : Int, out : Seq(Units)]]
    BY <1>9, <1>11, ZenonT(90) DEF IInv, TypeInv
  <2>2. got' \in [Conns -> Seq(Units)]
    BY <1>9, <1>10 DEF IInv, TypeInv
  <2>3. QED
    BY <1>14, <2>1, <2>2, SMTT(90) DEF IInv, TypeInv
<1>16. SlotsAgree' /\ Holders'
  <2>1. \A d \in Conns : net'[d].state = net[d].state
    BY <1>13
  <2>2. \A j \in Slots : conns_[j].sock # NONE => conns_[j].sock \in Conns
    BY DEF IInv, TypeInv
  <2>3. QED
    BY <1>14, <2>1, <2>2 DEF IInv, SlotsAgree, Holders
<1>17. \A d \in Conns \ {c} : Stream(d)' /\ Passed(d)' = Passed(d)
  <2>1. SUFFICES ASSUME NEW d \in Conns \ {c} PROVE Stream(d)' /\ Passed(d)' = Passed(d)
    OBVIOUS
  <2>2. net'[d] = net[d] /\ Stream(d) /\ got'[d] = got[d] /\ sent'[d] = sent[d]
    BY <1>2, <1>13, <1>14
  <2>3. QED
    BY <2>2, StreamKept
<1>18. InFlight(c)' = Len(rest) /\ Passed(c)' = Passed(c)
  <2>1. InFlight(c)' = Len(rest)
    BY <1>13, SMTT(90) DEF InFlight
  <2>2. Passed(c)' = Len(h) + Len(rest)
    BY <1>13, <2>1, SMTT(90) DEF Passed
  <2>3. QED
    BY <1>3, <1>4, <1>10, <1>11, <2>1, <2>2, SMTT(90)
<1>19. Stream(c)'
  <2>1. net[c].state # "BROKEN"
    BY <1>1, <1>2, <1>3, SMTT(90) DEF Stream
  <2>2. InFlight(c)' <= SOCKET_ROOM
    BY <1>3, <1>5, <1>11, <1>18, SMTT(90)
  <2>3. Consecutive(c, Len(got[c]), net[c].out)'
    BY <1>12, <1>13, SMTT(90) DEF Consecutive
  <2>4. net[c].state \in {"NEW", "QUEUED"} => Passed(c) = sent[c]
    BY <1>2, SMTT(90) DEF Stream
  <2>5. QED
    BY <1>5, <1>13, <1>14, <1>18, <2>1, <2>2, <2>3, <2>4, SMTT(90) DEF Stream
<1>20. ASSUME NEW j \in Slots, NEW d \in Conns, NEW tx, d = conns_'[j].sock, tx = conns_'[j].tx
       PROVE  Buffered(d, tx)'
  <2>1. Buffered(d, tx)
    BY <1>14, <1>20, SMTT(90) DEF IInv, Streams
  <2>2. Passed(d)' = Passed(d) /\ net'[d].state = net[d].state /\ sent'[d] = sent[d]
    BY <1>13, <1>14, <1>17, <1>18, SMTT(90)
  <2>3. QED
    BY <2>1, <2>2, SMTT(90) DEF Buffered, Consecutive
<1>21. IInv'
  BY <1>15, <1>16, <1>17, <1>19, <1>20, BufferedAll, SMTT(90) DEF IInv
<1>22. QED
  BY <1>1, <1>6, <1>8, <1>9, <1>21, SMTT(90)

\* What else happens to a socket at its other end.
PeerStep(c) == Connect(c) \/ PeerSends(c) \/ PeerShutsDown(c) \/ Breaks(c)

\* It keeps the invariant and closes nothing.
LEMMA PeerStepKeeps ==
  ASSUME IInv, NEW c \in Conns, PeerStep(c), UNCHANGED host_vars
  PROVE  IInv' /\ \A d \in Conns : net'[d].state = "CLOSED" <=> net[d].state = "CLOSED"
<1> DEFINE Socks == [state : States, in : Int, left : Int, out : Seq(Units)]
           Allowed(s) == /\ s.out = net[c].out \/ (s.state = "BROKEN" /\ s.out = <<>>)
                         /\ s.state \in {"NEW", "QUEUED"} => net[c].state \in {"NEW", "QUEUED"}
                         /\ net[c].state = "BROKEN" => s.state = "BROKEN"
                         /\ s.state = "BROKEN" => s.out = <<>>
                         /\ net[c].state \in {"UP", "EOF", "BROKEN"} => s.state \in {"UP", "EOF", "BROKEN"}
                         /\ s.state # "CLOSED" /\ net[c].state # "CLOSED"
<1>1. net \in [Conns -> Socks] /\ net[c] \in Socks
  BY DEF IInv, TypeInv
<1>2. UNCHANGED <<conns_, session, sent, got, cur>>
  BY DEF PeerStep, Connect, PeerSends, PeerShutsDown, Breaks, host_vars
<1>3. net[c].state = "BROKEN" => net[c].out = <<>>
  BY DEF IInv, Streams, Stream
<1>4. \E s \in Socks : net' = [net EXCEPT ![c] = s] /\ Allowed(s)
  <2>1. CASE Connect(c)
    <3>1. PICK s : s = [net[c] EXCEPT !.state = "QUEUED"]
      BY ZenonT(90)
    <3>2. s \in Socks /\ s.state = "QUEUED" /\ s.out = net[c].out
      BY <1>1, <3>1, ZenonT(90) DEF States
    <3>3. net' = [net EXCEPT ![c] = s] /\ net[c].state = "NEW"
      BY <2>1, <3>1 DEF Connect
    <3>4. Allowed(s)
      BY <1>3, <3>2, <3>3
    <3> HIDE DEF Socks, Allowed
    <3>5. QED
      BY <3>2, <3>3, <3>4, ZenonT(90)
  <2>2. CASE PeerSends(c)
    <3>1. PICK s : s = [net[c] EXCEPT !.in = net[c].in + 1, !.left = net[c].left - 1]
      OBVIOUS
    <3>2. s \in Socks /\ s.state = net[c].state /\ s.out = net[c].out
      <4>1. net[c].in + 1 \in Int /\ net[c].left - 1 \in Int
        BY <1>1
      <4>2. QED
        BY <1>1, <3>1, <4>1, ZenonT(90)
    <3>3. net' = [net EXCEPT ![c] = s] /\ net[c].state = "UP"
      BY <1>1, <2>2, <3>1, SMTT(90) DEF PeerSends
    <3>4. Allowed(s)
      BY <1>3, <3>2, <3>3, SMTT(90)
    <3> HIDE DEF Socks, Allowed
    <3>5. QED
      BY <3>2, <3>3, <3>4, ZenonT(90)
  <2>3. CASE PeerShutsDown(c)
    <3>1. PICK s : s = [net[c] EXCEPT !.state = "EOF", !.left = 0]
      OBVIOUS
    <3>2. s \in Socks /\ s.state = "EOF" /\ s.out = net[c].out
      <4>1. "EOF" \in States /\ 0 \in Int
        BY DEF States
      <4>2. QED
        BY <1>1, <3>1, <4>1, ZenonT(90)
    <3>3. net' = [net EXCEPT ![c] = s] /\ net[c].state = "UP"
      BY <1>1, <2>3, <3>1, ZenonT(90) DEF PeerShutsDown
    <3>4. Allowed(s)
      BY <1>3, <3>2, <3>3
    <3> HIDE DEF Socks, Allowed
    <3>5. QED
      BY <3>2, <3>3, <3>4, ZenonT(90)
  <2>4. CASE Breaks(c)
    <3>1. PICK s : s = [state |-> "BROKEN", in |-> 0, left |-> 0, out |-> <<>>]
      BY ZenonT(90)
    <3>2. s \in Socks /\ s.state = "BROKEN" /\ s.out = <<>>
      BY <3>1 DEF States
    <3>3. net' = [net EXCEPT ![c] = s] /\ net[c].state \in {"UP", "EOF"}
      BY <2>4, <3>1 DEF Breaks
    <3>4. Allowed(s)
      BY <1>3, <3>2, <3>3, SMTT(90)
    <3> HIDE DEF Socks, Allowed
    <3>5. QED
      BY <3>2, <3>3, <3>4, ZenonT(90)
  <2>5. QED
    BY <2>1, <2>2, <2>3, <2>4, SMTT(90) DEF PeerStep
<1>5. QED
  BY <1>1, <1>2, <1>4, SocketKeeps, ZenonT(90)

-----------------------------------------------------------------------------
(***************************************************************************)
(* The channels.                                                           *)
(***************************************************************************)

\* A step that sends nothing, delivers nothing and closes nothing is a stutter
\* of the channels.
LEMMA ChannelStutters ==
  ASSUME UNCHANGED <<sent, got>>,
         \A c \in Conns : net'[c].state = "CLOSED" <=> net[c].state = "CLOSED"
  PROVE  UNCHANGED Channel!vars
BY SMTT(90) DEF Channel!vars

\* A step that sends a frame on the connections S and closes the connections X is
\* a call.
LEMMA ChannelCalls ==
  ASSUME NEW S \in SUBSET Conns, NEW X \in SUBSET Conns, UNCHANGED got,
         \A c \in S : net[c].state # "CLOSED",
         sent' = [c \in Conns |-> IF c \in S THEN sent[c] + FRAME ELSE sent[c]],
         \A c \in Conns : net'[c].state = "CLOSED" <=> net[c].state = "CLOSED" \/ c \in X
  PROVE  Channel!Next
<1>1. \A c \in S : ~[d \in Conns |-> net[d].state = "CLOSED"][c]
  BY ZenonT(90)
<1>2. [c \in Conns |-> net[c].state = "CLOSED"]'
        = [c \in Conns |-> [d \in Conns |-> net[d].state = "CLOSED"][c] \/ c \in X]
  BY ZenonT(90)
<1>3. Channel!Call(S, X)
  BY <1>1, <1>2, SMTT(90) DEF Channel!Call
<1>4. QED
  BY <1>3, SMTT(90) DEF Channel!Next

-----------------------------------------------------------------------------
(***************************************************************************)
(* A new peer is accepted.                                                 *)
(***************************************************************************)
INSTANCE WellFoundedInduction

\* A set of slots that is not empty has a first one.
LEMMA LeastElement ==
  ASSUME NEW S \in SUBSET Nat, S # {}
  PROVE  \E i \in S : \A j \in S : i <= j
<1> DEFINE R == OpToRel(<, Nat)
<1>1. IsWellFoundedOn(R, Nat)
  BY NatLessThanWellFounded, ZenonT(90)
<1>2. \A i, j \in Nat : j < i => <<j, i>> \in R
  BY DEF OpToRel
<1> HIDE DEF R
<1>3. PICK i \in S : \A j \in S : ~(<<j, i>> \in R)
  BY <1>1, WFMin, ZenonT(90)
<1>4. ASSUME NEW j \in S PROVE i <= j
  <2>1. i \in Nat /\ j \in Nat
    OBVIOUS
  <2>2. ~(j < i)
    BY <1>2, <1>3, <2>1, ZenonT(90)
  <2>3. QED
    BY <2>1, <2>2
<1>5. QED
  BY <1>4

\* A connection is refused or takes a free slot; the sessions that are open keep theirs.
LEMMA AcceptKeeps ==
  ASSUME IInv, NEW c \in Conns, accept(c)
  PROVE  IInv'
<1>1. net[c].state = "QUEUED" /\ UNCHANGED <<cur, sent, got>>
  BY SMTT(90) DEF accept
<1>2. \A i \in Slots : conns_[i].sock # c
  BY <1>1 DEF IInv, Holders
<1>3. Stream(c) /\ \A d \in Conns : Stream(d)
  BY DEF IInv, Streams
<1>4. PICK st \in {"CLOSED", "UP"} : net' = [net EXCEPT ![c].state = st]
  BY DEF accept
<1>5. /\ net'[c].state = st /\ net'[c].out = net[c].out
      /\ \A d \in Conns \ {c} : net'[d] = net[d]
  BY <1>4, SMTT(90) DEF IInv, TypeInv
<1>6. net' \in [Conns -> [state : States, in : Int, left : Int, out : Seq(Units)]]
  BY <1>4, ZenonT(90) DEF IInv, TypeInv, States
<1>7. \A d \in Conns : Passed(d)' = Passed(d)
  BY <1>1, <1>5, ZenonT(90) DEF Passed, InFlight
<1>8. \A d \in Conns : Stream(d)'
  BY <1>1, <1>3, <1>5, <1>7, SMTT(90) DEF Stream, InFlight, Consecutive
<1>9. CASE OpenSlots = Slots
  <2>1. UNCHANGED <<conns_, session>>
    BY <1>9 DEF accept
  <2>2. TypeInv'
    BY <1>1, <1>6, <2>1, SMTT(90) DEF IInv, TypeInv
  <2>3. SlotsAgree' /\ Holders'
    BY <1>2, <1>5, <2>1, SMTT(90) DEF IInv, SlotsAgree, Holders, TypeInv
  <2>4. \A i \in Slots : \A d \in Conns : \A tx :
          d = conns_'[i].sock /\ tx = conns_'[i].tx => Buffered(d, tx)'
    BY <1>1, <1>2, <1>5, <1>7, <2>1, SMTT(90) DEF IInv, Streams, Buffered, Consecutive
  <2>5. QED
    BY <1>8, <2>2, <2>3, <2>4, BufferedAll DEF IInv
<1>10. CASE OpenSlots # Slots
  <2>1. PICK i : i = CHOOSE k \in Slots \ OpenSlots : \A j \in Slots \ OpenSlots : k <= j
    OBVIOUS
  <2>2. i \in Slots
    <3>1. \E k \in Slots \ OpenSlots : \A j \in Slots \ OpenSlots : k <= j
      <4>1. PICK S : S = Slots \ OpenSlots
        BY ZenonT(90)
      <4>2. S \in SUBSET Nat /\ S # {}
        BY <1>10, <4>1 DEF OpenSlots, Slots
      <4>3. QED
        BY <4>1, <4>2, LeastElement, SMTT(90)
    <3>2. QED
      BY <2>1, <3>1
  <2>3. /\ session' = [session EXCEPT ![i] = c]
        /\ conns_' = [conns_ EXCEPT ![i] = [sock |-> c, tx |-> <<>>]]
        /\ net' = [net EXCEPT ![c].state = "UP"]
    BY <1>10, <2>1 DEF accept
  <2>4. net'[c].state = "UP"
    BY <2>3 DEF IInv, TypeInv
  <2>5. /\ conns_'[i].sock = c /\ conns_'[i].tx = <<>> /\ session'[i] = c
        /\ \A j \in Slots \ {i} : conns_'[j] = conns_[j] /\ session'[j] = session[j]
    BY <2>2, <2>3 DEF IInv, TypeInv
  <2>6. TypeInv'
    <3>1. [sock |-> c, tx |-> <<>>] \in [sock : Conns \cup {NONE}, tx : Seq(Units)]
      OBVIOUS
    <3>2. conns_' \in [Slots -> [sock : Conns \cup {NONE}, tx : Seq(Units)]]
      BY <2>2, <2>3, <3>1, SMTT(90) DEF IInv, TypeInv
    <3>3. session' \in [Slots -> Conns \cup {NONE}]
      BY <2>2, <2>3, SMTT(90) DEF IInv, TypeInv
    <3>4. QED
      BY <1>1, <1>6, <3>2, <3>3, SMTT(90) DEF IInv, TypeInv
  <2>7. SlotsAgree'
    BY <2>5, SMTT(90) DEF IInv, SlotsAgree
  <2>8. Holders'
    <3>1. \A j \in Slots \ {i} : conns_[j].sock # NONE => conns_[j].sock \in Conns \ {c}
      BY <1>2, SMTT(90) DEF IInv, TypeInv
    <3>2. ASSUME NEW j \in Slots, conns_'[j].sock # NONE
          PROVE  net'[conns_'[j].sock].state \in {"UP", "EOF", "BROKEN"}
      <4>1. CASE j = i
        BY <2>4, <2>5, <4>1, SMTT(90)
      <4>2. CASE j # i
        BY <1>5, <2>5, <3>1, <3>2, <4>2, SMTT(90) DEF IInv, Holders
      <4>3. QED
        BY <4>1, <4>2, SMTT(90)
    <3>3. \A j, k \in Slots : conns_'[j].sock # NONE /\ conns_'[k].sock = conns_'[j].sock => j = k
      BY <1>2, <2>5, SMTT(90) DEF IInv, Holders
    <3>4. QED
      BY <3>2, <3>3, SMTT(90) DEF Holders
  <2>9. Passed(c) = sent[c] /\ Passed(c) \in Nat
    BY <1>1, <1>3, Counters, SMTT(90) DEF Stream, IInv
  <2>10. \A tx : tx = <<>> => Buffered(c, tx)'
    BY <1>1, <1>7, <2>9, SMTT(90) DEF Buffered, Consecutive
  <2>11. \A j \in Slots : \A d \in Conns : \A tx :
           d = conns_'[j].sock /\ tx = conns_'[j].tx => Buffered(d, tx)'
    <3>1. ASSUME NEW j \in Slots \ {i}, NEW d \in Conns, NEW tx, d = conns_'[j].sock, tx = conns_'[j].tx
          PROVE  Buffered(d, tx)'
      <4>1. d # c /\ d = conns_[j].sock /\ tx = conns_[j].tx
        BY <1>2, <2>5, <3>1, SMTT(90)
      <4>2. Buffered(d, tx)
        BY <4>1, SMTT(90) DEF IInv, Streams
      <4>3. QED
        BY <1>1, <1>5, <1>7, <4>1, <4>2, SMTT(90) DEF Buffered, Consecutive
    <3>2. QED
      BY <2>5, <2>10, <3>1, SMTT(90)
  <2>12. QED
    BY <1>8, <2>6, <2>7, <2>8, <2>11, BufferedAll, SMTT(90) DEF IInv
<1>11. QED
  BY <1>9, <1>10, SMTT(90)

-----------------------------------------------------------------------------
(***************************************************************************)
(* Theorems.                                                               *)
(***************************************************************************)

\* The component starts with no connection and empty streams.
LEMMA ComponentInit ==
  ASSUME Init
  PROVE  IInv /\ Channel!Init
<1>1. /\ conns_ = [i \in Slots |-> Closed] /\ session = [i \in Slots |-> NONE] /\ cur = 1
      /\ net = [c \in Conns |-> [state |-> "NEW", in |-> 0, left |-> MaxChunks, out |-> <<>>]]
      /\ sent = [c \in Conns |-> 0] /\ got = [c \in Conns |-> <<>>]
  BY DEF Init, SocketsInit
<1>2. TypeInv
  <2>1. Closed \in [sock : Conns \cup {NONE}, tx : Seq(Units)]
    BY SMTT(90) DEF Closed
  <2>2. cur \in Slots
    BY <1>1, SMTT(90) DEF Slots
  <2>3. [state |-> "NEW", in |-> 0, left |-> MaxChunks, out |-> <<>>]
          \in [state : States, in : Int, left : Int, out : Seq(Units)]
    BY SMTT(90) DEF States
  <2>4. QED
    BY <1>1, <2>1, <2>2, <2>3, SMTT(90) DEF TypeInv
<1>3. SlotsAgree /\ Holders
  BY <1>1, SMTT(90) DEF SlotsAgree, Holders, Closed
<1>4. ASSUME NEW c \in Conns PROVE Stream(c)
  <2>1. net[c].out = <<>> /\ got[c] = <<>> /\ sent[c] = 0 /\ net[c].state = "NEW"
    BY <1>1, SMTT(90)
  <2>2. InFlight(c) = 0 /\ Len(got[c]) = 0
    BY <2>1, SMTT(90) DEF InFlight
  <2>3. Passed(c) = 0
    BY <2>2, SMTT(90) DEF Passed
  <2>4. QED
    BY <2>1, <2>2, <2>3, SMTT(90) DEF Stream, Consecutive
<1>5. Streams
  BY <1>1, <1>4, SMTT(90) DEF Streams, Closed
<1>6. Channel!Init
  BY <1>1, ZenonT(90) DEF Channel!Init
<1>7. QED
  BY <1>2, <1>3, <1>5, <1>6 DEF IInv

\* A call of the server is a call of the channels.
LEMMA CallIsChannelCall ==
  ASSUME IInv, NEW T \in SUBSET Slots, NEW C \in SUBSET Slots, NEW r, Call(T, C, r), UNCHANGED got
  PROVE  Channel!Next
<1>1. PICK S, X : /\ S = {c \in Conns : \E i \in T : conns_[i].sock = c}
                  /\ X = {c \in Conns : \E i \in C : conns_[i].sock = c}
  BY ZenonT(90)
<1>2. \A i \in Slots : session[i] = conns_[i].sock
  BY DEF IInv, SlotsAgree
<1>3. \A c \in S : net[c].state # "CLOSED"
  BY <1>1 DEF IInv, Holders
<1>4. sent' = [c \in Conns |-> IF c \in S THEN sent[c] + FRAME ELSE sent[c]]
  BY <1>1, <1>2, ZenonT(90) DEF Call
<1>5. \A c \in Conns : net'[c].state = "CLOSED" <=> net[c].state = "CLOSED" \/ c \in X
  BY <1>1 DEF Call, closed
<1>6. S \in SUBSET Conns /\ X \in SUBSET Conns
  BY <1>1
<1>7. QED
  BY <1>3, <1>4, <1>5, <1>6, ChannelCalls, ZenonT(90)

\* Every step keeps the invariant and is a step of the channels or a stutter.
LEMMA ComponentStep ==
  ASSUME IInv, [Next]_vars
  PROVE  IInv' /\ [Channel!Next]_(Channel!vars)
<1>1. cur \in Slots
  BY SMTT(90) DEF IInv, TypeInv
<1>2. ASSUME NEW T \in SUBSET Slots, NEW C \in SUBSET Slots, NEW r, Call(T, C, r),
             UNCHANGED got, cur' \in Slots
      PROVE  IInv' /\ [Channel!Next]_(Channel!vars)
  BY <1>2, CallKeeps, CallIsChannelCall, SMTT(90)
<1>3. ASSUME UNCHANGED <<conns_, net, sent, session, got>>, cur' \in Slots
      PROVE  IInv' /\ [Channel!Next]_(Channel!vars)
  BY <1>3, QuietKeeps, ChannelStutters, SMTT(90)
<1>4. CASE NothingToAccept
  <2>1. UNCHANGED <<conns_, net, sent, session, got>> /\ cur' = 1
    BY <1>4, SMTT(90) DEF NothingToAccept, Goto
  <2>2. QED
    BY <1>3, <2>1, FirstSlot, SMTT(90)
<1>5. CASE NotUsed
  BY <1>1, <1>3, <1>5, CurIsSlot, SMTT(90) DEF NotUsed
<1>6. CASE Flush
  <2>1. \A c \in Conns : net'[c].state = "CLOSED" <=> net[c].state = "CLOSED"
    BY <1>6, ZenonT(90) DEF Flush, IInv, TypeInv
  <2>2. UNCHANGED <<sent, got>>
    BY <1>6 DEF Flush
  <2>3. QED
    BY <1>6, <2>1, <2>2, FlushKeeps, ChannelStutters, SMTT(90)
<1>7. CASE ReadDone
  BY <1>1, <1>3, <1>7, CurIsSlot DEF ReadDone
<1>8. CASE NotExpired
  BY <1>1, <1>3, <1>8, CurIsSlot DEF NotExpired
<1>9. CASE Publish
  <2>1. UNCHANGED <<conns_, net, sent, session, got>> /\ cur' = 1
    BY <1>9 DEF Publish, Goto
  <2>2. QED
    BY <1>3, <2>1, FirstSlot
<1>10. ASSUME NEW c \in Conns, accept(c)
       PROVE  IInv' /\ [Channel!Next]_(Channel!vars)
  <2>1. IInv'
    BY <1>10, AcceptKeeps
  <2>2. net[c].state = "QUEUED" /\ UNCHANGED <<sent, got>>
    BY <1>10 DEF accept
  <2>3. CASE net' = [net EXCEPT ![c].state = "UP"]
    <3>1. \A d \in Conns : net'[d].state = "CLOSED" <=> net[d].state = "CLOSED"
      BY <2>2, <2>3, SMTT(90) DEF IInv, TypeInv
    <3>2. QED
      BY <2>1, <2>2, <3>1, ChannelStutters
  <2>4. CASE net' = [net EXCEPT ![c].state = "CLOSED"]
    <3>1. PICK S, X : S = {} /\ X = {c}
      BY ZenonT(90)
    <3>2. S \in SUBSET Conns /\ X \in SUBSET Conns /\ \A d \in S : net[d].state # "CLOSED"
      BY <3>1
    <3>3. \A d \in Conns : net'[d].state = "CLOSED" <=> net[d].state = "CLOSED" \/ d \in X
      BY <2>4, <3>1 DEF IInv, TypeInv
    <3>4. sent' = [d \in Conns |-> IF d \in S THEN sent[d] + FRAME ELSE sent[d]]
      BY <2>2, <3>1, SMTT(90) DEF IInv, TypeInv
    <3>5. QED
      BY <2>1, <2>2, <3>2, <3>3, <3>4, ChannelCalls, ZenonT(90)
  <2>5. QED
    BY <1>10, <2>3, <2>4 DEF accept
<1>11. ASSUME NEW T \in SUBSET Slots, NEW st \in Statuses, NEW C \in SUBSET {cur}, on_data(T, C, st)
       PROVE  IInv' /\ [Channel!Next]_(Channel!vars)
  BY <1>1, <1>2, <1>11, SMTT(90) DEF on_data
<1>12. ASSUME NEW T \in SUBSET Slots, NEW st \in Statuses, on_disconnected(T, st)
       PROVE  IInv' /\ [Channel!Next]_(Channel!vars)
  BY <1>1, <1>2, <1>12, CurIsSlot, SMTT(90) DEF on_disconnected
<1>13. ASSUME NEW T \in SUBSET Slots, NEW st \in Statuses, Expire(T, st)
       PROVE  IInv' /\ [Channel!Next]_(Channel!vars)
  BY <1>1, <1>2, <1>13, CurIsSlot, SMTT(90) DEF Expire
<1>14. ASSUME NEW c \in Conns, PeerStep(c), UNCHANGED host_vars
       PROVE  IInv' /\ [Channel!Next]_(Channel!vars)
  <2>1. UNCHANGED <<sent, got>>
    BY <1>14, SMTT(90) DEF PeerStep, Connect, PeerSends, PeerShutsDown, Breaks
  <2>2. QED
    BY <1>14, <2>1, PeerStepKeeps, ChannelStutters, SMTT(90)
<1>15. ASSUME NEW c \in Conns, PeerReads(c), UNCHANGED host_vars
       PROVE  IInv' /\ [Channel!Next]_(Channel!vars)
  <2>1. /\ IInv' /\ Len(got[c]) < sent[c]
        /\ got' = [got EXCEPT ![c] = Append(@, <<c, Len(@) + 1>>)]
    BY <1>15, PeerReadsKeeps
  <2>2. UNCHANGED sent /\ \A d \in Conns : net'[d].state = "CLOSED" <=> net[d].state = "CLOSED"
    <3>1. PICK rest : rest = Tail(net[c].out)
      BY ZenonT(90)
    <3>2. UNCHANGED sent /\ net' = [net EXCEPT ![c].out = rest]
      BY <1>15, <3>1 DEF PeerReads
    <3>3. QED
      BY <3>2, SMTT(90) DEF IInv, TypeInv
  <2>3. UNCHANGED [d \in Conns |-> net[d].state = "CLOSED"]
    BY <2>2, SMTT(90)
  <2>4. Channel!Deliver(c)
    BY <2>1, <2>2, <2>3, SMTT(90) DEF Channel!Deliver
  <2>5. QED
    BY <2>1, <2>4, SMTT(90) DEF Channel!Next
<1>16. CASE UNCHANGED vars
  BY <1>1, <1>3, <1>16, SMTT(90) DEF vars, host_vars
<1>17. QED
  BY <1>4, <1>5, <1>6, <1>7, <1>8, <1>9, <1>10, <1>11, <1>12, <1>13, <1>14, <1>15, <1>16
     DEF Next, Loop, PeerStep

\* The component implements the channels that the server relies on: whatever the
\* sizes of frames and sockets, and however slots are reused, each peer receives
\* the units that were sent to its session, in order, none twice and none of another's.
THEOREM ChannelImplemented == Spec => ImplementsChannel
<1>1. Init => IInv /\ Channel!Init
  BY ComponentInit, SMTT(90)
<1>2. IInv /\ [Next]_vars => IInv' /\ [Channel!Next]_(Channel!vars)
  BY ComponentStep
<1>3. QED
  BY <1>1, <1>2, PTL DEF Spec, ImplementsChannel, Channel!Spec

\* A slot holds exactly the socket of its session, and no socket is held twice.
THEOREM SlotsCorrect == Spec => [](SlotsAgree /\ Holders)
<1>1. Init => IInv
  BY ComponentInit
<1>2. IInv /\ [Next]_vars => IInv'
  BY ComponentStep
<1>3. IInv => SlotsAgree /\ Holders
  BY DEF IInv
<1>4. QED
  BY <1>1, <1>2, <1>3, PTL DEF Spec

\* What the sensors show is current, or the component knows that it is not: where
\* a pass ends dirty_ has been looked at after the last call of the server.
SensorsInv ==
  /\ dirty_ \/ published = status
  /\ PublishedIsCurrent

\* At the end of each pass of loop() the sensors show what the server reports.
THEOREM SensorsCorrect == Spec => []PublishedIsCurrent
<1>1. Init => SensorsInv
  BY SMTT(90) DEF Init, SensorsInv, PublishedIsCurrent
<1>2. SensorsInv /\ [Next]_vars => SensorsInv'
  <2>1. SUFFICES ASSUME SensorsInv, [Next]_vars PROVE SensorsInv'
    OBVIOUS
  <2>2. ASSUME NextConn PROVE pc' # "ACCEPT"
    BY <2>2 DEF NextConn, Goto, following
  <2>3. ASSUME NextTick PROVE pc' # "ACCEPT"
    BY <2>3, SMTT(90) DEF NextTick, Goto, following
  <2>4. CASE NothingToAccept
    BY <2>1, <2>4, SMTT(90) DEF NothingToAccept, Goto, SensorsInv, PublishedIsCurrent
  <2>5. CASE NotUsed
    BY <2>1, <2>2, <2>5, SMTT(90) DEF NotUsed, SensorsInv, PublishedIsCurrent
  <2>6. CASE Flush
    BY <2>1, <2>6, SMTT(90) DEF Flush, Goto, SensorsInv, PublishedIsCurrent
  <2>7. CASE ReadDone
    BY <2>1, <2>2, <2>7, SMTT(90) DEF ReadDone, SensorsInv, PublishedIsCurrent
  <2>8. CASE NotExpired
    BY <2>1, <2>3, <2>8, SMTT(90) DEF NotExpired, SensorsInv, PublishedIsCurrent
  <2>9. CASE Publish
    BY <2>1, <2>9, SMTT(90) DEF Publish, SensorsInv, PublishedIsCurrent
  <2>10. ASSUME NEW c \in Conns, accept(c) PROVE SensorsInv'
    BY <2>1, <2>10, SMTT(90) DEF accept, SensorsInv, PublishedIsCurrent
  <2>11. ASSUME NEW T, NEW C, NEW st, on_data(T, C, st) PROVE SensorsInv'
    BY <2>11, SMTT(90) DEF on_data, SensorsInv, PublishedIsCurrent
  <2>12. ASSUME NEW T, NEW st, on_disconnected(T, st) PROVE SensorsInv'
    BY <2>2, <2>12, SMTT(90) DEF on_disconnected, SensorsInv, PublishedIsCurrent
  <2>13. ASSUME NEW T, NEW st, Expire(T, st) PROVE SensorsInv'
    BY <2>3, <2>13, SMTT(90) DEF Expire, SensorsInv, PublishedIsCurrent
  <2>14. CASE UNCHANGED host_vars
    BY <2>1, <2>14, SMTT(90) DEF host_vars, SensorsInv, PublishedIsCurrent
  <2>15. QED
    BY <2>1, <2>4, <2>5, <2>6, <2>7, <2>8, <2>9, <2>10, <2>11, <2>12, <2>13, <2>14, SMTT(90)
       DEF Next, Loop, vars
<1>3. SensorsInv => PublishedIsCurrent
  BY DEF SensorsInv
<1>4. QED
  BY <1>1, <1>2, <1>3, PTL DEF Spec
=============================================================================
