--------------------------- MODULE QnetdComponent ---------------------------
(***************************************************************************)
(* The ESPHome component: the table of connections with their transmit     *)
(* buffers, the passes of loop(), and the sensors.  The server is seen     *)
(* through its interface: a call may send a frame on the connections of    *)
(* some sessions, may end the session it was called for, and may change    *)
(* what the sensors show.  All that a call sends on a connection counts as *)
(* one frame: two writes in a row leave what one write of both leaves.     *)
(* on_data always ends in drain_closes, so that it always calls notify().  *)
(***************************************************************************)
EXTENDS Sockets

VARIABLES
  conns_,     \* sock and tx of each slot; used is sock # NONE
  session,    \* the connection that the session of a slot was opened for, or NONE
  pc, cur,    \* where loop() is: ACCEPT, FLUSH, READ, TICK, PUBLISH; and its slot
  status,     \* what the server reports to the sensors
  dirty_,
  published   \* what the sensors show

host_vars == <<conns_, session, pc, cur, status, dirty_, published>>
vars == <<host_vars, net, sent, got>>

Statuses == 0 .. 1
Closed == [sock |-> NONE, tx |-> <<>>]

Init ==
  /\ conns_ = [i \in Slots |-> Closed]
  /\ session = [i \in Slots |-> NONE]
  /\ pc = "ACCEPT" /\ cur = 1
  /\ SocketsInit
  /\ status = 0 /\ dirty_ = FALSE /\ published = 0

OpenSlots == {i \in Slots : session[i] # NONE}

-----------------------------------------------------------------------------
(***************************************************************************)
(* Transport.                                                              *)
(***************************************************************************)
\* Faulty variant: a frame is written although older ones wait in tx.
send_frame_overtaking(i) ==
  LET c == conns_[i].sock
      n == taken(c, FRAME)
  IN  [out |-> SubSeq(Frame(session[i]), 1, n),
       tx |-> IF net[c].state = "BROKEN" THEN conns_[i].tx
              ELSE conns_[i].tx \o SubSeq(Frame(session[i]), n + 1, FRAME)]

\* send_frame for a slot in use: the units that go into the socket and tx after
\* it.  On a broken socket a frame is dropped, unless others wait before it.
send_frame(i) ==
  LET c == conns_[i].sock
      n == taken(c, FRAME)
  IN  IF conns_[i].tx # <<>>
      THEN [out |-> <<>>, tx |-> conns_[i].tx \o Frame(session[i])]
      ELSE [out |-> SubSeq(Frame(session[i]), 1, n),
            tx |-> IF net[c].state = "BROKEN" THEN <<>>
                   ELSE SubSeq(Frame(session[i]), n + 1, FRAME)]

\* What a call of the server writes to a connection when it sends to the slots T.
written(T, c) ==
  IF \E i \in T : conns_[i].sock = c THEN send_frame(CHOOSE i \in T : conns_[i].sock = c).out
  ELSE <<>>

\* close_connection for the slots that a call closes; the faulty variant forgets it.
closed_never(C) == {}

closed(C) == C

\* A call of the server: it sends a frame to the sessions in T and then closes
\* the slots in C; before it, a chunk of connection r was read.
Call(T, C, r) ==
  /\ T \subseteq OpenSlots
  /\ \A i \in T : sent[session[i]] < MaxFrames * FRAME
  /\ sent' = [c \in Conns |-> IF \E i \in T : session[i] = c THEN sent[c] + FRAME ELSE sent[c]]
  /\ session' = [i \in Slots |-> IF i \in C THEN NONE ELSE session[i]]
  /\ conns_' = [i \in Slots |->
       IF i \in closed(C) THEN Closed
       ELSE IF i \in T /\ conns_[i].sock # NONE THEN [conns_[i] EXCEPT !.tx = send_frame(i).tx]
       ELSE conns_[i]]
  /\ net' = [c \in Conns |->
       [state |-> IF \E i \in closed(C) : conns_[i].sock = c THEN "CLOSED" ELSE net[c].state,
        in |-> IF c = r THEN net[c].in - 1 ELSE net[c].in,
        left |-> net[c].left,
        out |-> net[c].out \o written(T, c)]]

-----------------------------------------------------------------------------
(***************************************************************************)
(* loop().                                                                 *)
(***************************************************************************)
accept(c) ==
  /\ pc = "ACCEPT" /\ net[c].state = "QUEUED"
  /\ IF OpenSlots = Slots
     THEN /\ net' = [net EXCEPT ![c].state = "CLOSED"]
          /\ UNCHANGED <<conns_, session, dirty_>>
     ELSE LET i == CHOOSE i \in Slots \ OpenSlots : \A j \in Slots \ OpenSlots : i <= j
          IN  /\ session' = [session EXCEPT ![i] = c]
              /\ conns_' = [conns_ EXCEPT ![i] = [sock |-> c, tx |-> <<>>]]
              /\ net' = [net EXCEPT ![c].state = "UP"]
              /\ dirty_' = TRUE
  /\ UNCHANGED <<pc, cur, sent, got, status, published>>

\* The order of the parts of a pass; in the faulty variant sensors are published
\* before tick().
publish_first(part) == CASE part = "READ" -> "PUBLISH" [] part = "PUBLISH" -> "TICK" [] part = "TICK" -> "ACCEPT"

following(part) == CASE part = "READ" -> "TICK" [] part = "TICK" -> "PUBLISH" [] part = "PUBLISH" -> "ACCEPT"

Goto(part, i) == pc' = part /\ cur' = i

\* The next slot, in the same part of the pass or in the one that follows.
NextConn == IF cur < MAX_CLIENTS THEN Goto("FLUSH", cur + 1) ELSE Goto(following("READ"), 1)
NextTick == IF cur < MAX_CLIENTS THEN Goto("TICK", cur + 1) ELSE Goto(following("TICK"), 1)

NothingToAccept ==
  /\ pc = "ACCEPT" /\ \A c \in Conns : net[c].state # "QUEUED"
  /\ Goto("FLUSH", 1)
  /\ UNCHANGED <<conns_, net, sent, session, got, status, dirty_, published>>

NotUsed ==
  /\ pc = "FLUSH" /\ conns_[cur].sock = NONE
  /\ NextConn
  /\ UNCHANGED <<conns_, net, sent, session, got, status, dirty_, published>>

\* What write() takes of tx; in the faulty variant tx is never flushed.
flushed_never(c, tx) == 0

flushed(c, tx) == taken(c, Len(tx))

Flush ==
  /\ pc = "FLUSH" /\ conns_[cur].sock # NONE
  /\ LET c == conns_[cur].sock
         n == flushed(c, conns_[cur].tx)
     IN  /\ net' = [net EXCEPT ![c].out = @ \o SubSeq(conns_[cur].tx, 1, n)]
         /\ conns_' = [conns_ EXCEPT ![cur].tx = SubSeq(@, n + 1, Len(@))]
  /\ Goto("READ", cur)
  /\ UNCHANGED <<session, sent, got, status, dirty_, published>>

InUse == conns_[cur].sock # NONE
Socket == net[conns_[cur].sock]

\* read() returns data; the server may end the session of the slot.
on_data(T, C, st) ==
  /\ pc = "READ" /\ InUse /\ Socket.in > 0
  /\ C \subseteq {cur}
  /\ Call(T, C, conns_[cur].sock)
  /\ status' = st /\ dirty_' = TRUE
  /\ UNCHANGED <<pc, cur, got, published>>

\* read() returns 0 or an error other than EWOULDBLOCK: close_connection, then
\* on_disconnected, which may inform the other sessions.
on_disconnected(T, st) ==
  /\ pc = "READ" /\ InUse /\ Socket.in = 0 /\ Socket.state \in {"EOF", "BROKEN"}
  /\ cur \notin T
  /\ Call(T, {cur}, NONE)
  /\ status' = st /\ dirty_' = TRUE
  /\ NextConn
  /\ UNCHANGED <<got, published>>

ReadDone ==
  /\ pc = "READ"
  /\ InUse => Socket.in = 0 /\ Socket.state = "UP"
  /\ NextConn
  /\ UNCHANGED <<conns_, net, sent, session, got, status, dirty_, published>>

\* tick(): the session of a slot expires, or does not.
Expire(T, st) ==
  /\ pc = "TICK" /\ session[cur] # NONE
  /\ cur \notin T
  /\ Call(T, {cur}, NONE)
  /\ status' = st /\ dirty_' = TRUE
  /\ NextTick
  /\ UNCHANGED <<got, published>>

NotExpired ==
  /\ pc = "TICK"
  /\ NextTick
  /\ UNCHANGED <<conns_, net, sent, session, got, status, dirty_, published>>

Publish ==
  /\ pc = "PUBLISH"
  /\ published' = IF dirty_ THEN status ELSE published
  /\ dirty_' = FALSE
  /\ Goto(following("PUBLISH"), 1)
  /\ UNCHANGED <<conns_, net, sent, session, got, status>>

Loop ==
  \/ NothingToAccept \/ NotUsed \/ Flush \/ ReadDone \/ NotExpired \/ Publish
  \/ \E c \in Conns : accept(c)
  \/ \E T \in SUBSET Slots, st \in Statuses :
       \/ \E C \in SUBSET {cur} : on_data(T, C, st)
       \/ on_disconnected(T, st)
       \/ Expire(T, st)

Next ==
  \/ Loop
  \/ \E c \in Conns :
       \/ Connect(c) /\ UNCHANGED host_vars
       \/ PeerSends(c) /\ UNCHANGED host_vars
       \/ PeerReads(c) /\ UNCHANGED host_vars
       \/ PeerShutsDown(c) /\ UNCHANGED host_vars
       \/ Breaks(c) /\ UNCHANGED host_vars

Spec == Init /\ [][Next]_vars

\* The loop keeps running, and a peer reads what has reached it.
FairSpec == Spec /\ WF_vars(Loop) /\ \A c \in Conns : WF_vars(PeerReads(c) /\ UNCHANGED host_vars)

-----------------------------------------------------------------------------
(***************************************************************************)
(* Properties.                                                             *)
(***************************************************************************)

\* A slot of the component holds a socket exactly as long as the server has a
\* session for it, and it is the socket of that session: no connection outlives
\* its session, and none is used for another's.
SlotsAgree == \A i \in Slots : conns_[i].sock = session[i]

\* The component implements the channels that the server relies on: through
\* partial writes, full sockets, reused slots and closes from inside a call,
\* each peer receives what was sent to its session, in order.
ImplementsChannel == Channel!Spec

\* At the end of each pass the sensors show what the server reports.
PublishedIsCurrent == pc = "ACCEPT" => published = status

\* What the server sends to a session reaches its peer, unless the connection
\* ends: nothing stays in tx.
FramesArrive ==
  \A c \in Conns : \A n \in 1 .. MaxFrames :
    sent[c] = n * FRAME ~> Len(got[c]) >= n * FRAME \/ net[c].state # "UP"
=============================================================================
