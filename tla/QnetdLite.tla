----------------------------- MODULE QnetdLite -----------------------------
(***************************************************************************)
(* The POSIX host (host/qnetd_lite.cpp): a select() loop with blocking     *)
(* sockets.  A frame is sent in a loop that waits while the socket is      *)
(* full, so that a call of the server takes as long as its slowest peer;   *)
(* here it is the part SEND of a pass.                                     *)
(***************************************************************************)
EXTENDS Sockets

VARIABLES
  fds,        \* PosixTransport::fds; -1 is NONE
  session,    \* the connection that the session of a slot was opened for, or NONE
  pc, cur,    \* where the loop is: SELECT, ACCEPT, IO, TICK, SEND; and its slot; DEAD
              \* when a signal has ended the process
  rfds,       \* the connections that select() found readable, and LISTEN
  call        \* the call of the server that is running: slots still to send to, what is
              \* left of the frame that is being sent, session to end, where it returns

host_vars == <<fds, session, pc, cur, rfds, call>>
vars == <<host_vars, net, sent, got>>

NoCall == [todo |-> {}, frame |-> <<>>, ends |-> {}, back |-> <<"SELECT", 1>>]

Init ==
  /\ fds = [i \in Slots |-> NONE]
  /\ session = [i \in Slots |-> NONE]
  /\ pc = "SELECT" /\ cur = 1 /\ rfds = {} /\ call = NoCall
  /\ SocketsInit

OpenSlots == {i \in Slots : session[i] # NONE}
LeastOf(S) == CHOOSE i \in S : \A j \in S : i <= j

-----------------------------------------------------------------------------
(***************************************************************************)
(* Transport.                                                              *)
(***************************************************************************)

\* close_connection; the faulty variant forgets the descriptor.
closed_kept(i) == fds

closed(i) == [fds EXCEPT ![i] = NONE]

\* The server is called; it will send a frame to the sessions in T and then end
\* the sessions in E.
Call(T, E, back) ==
  /\ T \subseteq OpenSlots
  /\ \A i \in T : sent[session[i]] < MaxFrames * FRAME
  /\ call' = [todo |-> T, frame |-> <<>>, ends |-> E, back |-> back]
  /\ pc' = "SEND"
  /\ UNCHANGED <<session, cur, rfds, sent, got>>

\* send_frame for the next slot.
BeginFrame ==
  /\ pc = "SEND" /\ call.frame = <<>> /\ call.todo # {}
  /\ LET i == LeastOf(call.todo)
     IN  /\ sent' = [sent EXCEPT ![session[i]] = @ + FRAME]
         /\ call' = IF fds[i] = NONE THEN [call EXCEPT !.todo = @ \ {i}]
                    ELSE [call EXCEPT !.frame = Frame(session[i])]
  /\ UNCHANGED <<fds, session, pc, cur, rfds, net, got>>

\* Faulty variant: a short write is taken for the whole frame.
unsent_none(frame, n) == <<>>

unsent(frame, n) == SubSeq(frame, n + 1, Len(frame))

\* The connection of the frame that is being sent.
Target == fds[LeastOf(call.todo)]
Sending == pc = "SEND" /\ call.frame # <<>>

\* send() takes at least one unit; while the socket is full it blocks.
Send ==
  /\ Sending /\ net[Target].state # "BROKEN"
  /\ LET n == taken(Target, Len(call.frame))
         rest == unsent(call.frame, n)
     IN  /\ n > 0
         /\ net' = [net EXCEPT ![Target].out = @ \o SubSeq(call.frame, 1, n)]
         /\ call' = [call EXCEPT !.frame = rest,
                                !.todo = IF rest = <<>> THEN @ \ {LeastOf(@)} ELSE @]
  /\ UNCHANGED <<fds, session, pc, cur, rfds, sent, got>>

\* On a broken connection send() fails, and the rest of the frame is given up.
SendFails ==
  /\ Sending /\ net[Target].state = "BROKEN"
  /\ call' = [call EXCEPT !.frame = <<>>, !.todo = @ \ {LeastOf(@)}]
  /\ UNCHANGED <<fds, session, pc, cur, rfds, net, sent, got>>

\* Or it raises SIGPIPE, since its flags are 0.  Nothing handles or ignores the
\* signal: the process ends, and with it all its connections.
Killed ==
  /\ Sending /\ net[Target].state = "BROKEN"
  /\ pc' = "DEAD" /\ cur' = 1 /\ rfds' = {} /\ call' = NoCall
  /\ fds' = [i \in Slots |-> NONE] /\ session' = [i \in Slots |-> NONE]
  /\ net' = [c \in Conns |-> IF net[c].state = "NEW" THEN net[c]
                             ELSE [net[c] EXCEPT !.state = "CLOSED", !.in = 0, !.left = 0]]
  /\ UNCHANGED <<sent, got>>

\* The call returns; before, it resets the session that it ends and closes its
\* connection, if the host has not done so.
Return ==
  /\ pc = "SEND" /\ call.todo = {}
  /\ session' = [i \in Slots |-> IF i \in call.ends THEN NONE ELSE session[i]]
  /\ fds' = IF call.ends = {} THEN fds ELSE closed(LeastOf(call.ends))
  /\ net' = [c \in Conns |-> IF \E i \in call.ends : fds[i] = c THEN [net[c] EXCEPT !.state = "CLOSED"]
                             ELSE net[c]]
  /\ pc' = call.back[1] /\ cur' = call.back[2]
  /\ call' = NoCall
  /\ UNCHANGED <<rfds, sent, got>>

-----------------------------------------------------------------------------
(***************************************************************************)
(* main().                                                                 *)
(***************************************************************************)
Goto(place) == pc' = place[1] /\ cur' = place[2]
AfterIo == IF cur < MAX_CLIENTS THEN <<"IO", cur + 1>> ELSE <<"TICK", 1>>
AfterTick == IF cur < MAX_CLIENTS THEN <<"TICK", cur + 1>> ELSE <<"SELECT", 1>>

Readable(c) == net[c].in > 0 \/ net[c].state \in {"EOF", "BROKEN"}
Waiting == {c \in Conns : net[c].state = "QUEUED"}

select ==
  /\ pc = "SELECT"
  /\ rfds' = {c \in Conns : Readable(c) /\ \E i \in Slots : fds[i] = c}
               \cup (IF Waiting = {} THEN {} ELSE {"LISTEN"})
  /\ Goto(<<"ACCEPT", 1>>)
  /\ UNCHANGED <<fds, session, call, net, sent, got>>

\* At most one connection is accepted in a pass; on_connect sends nothing.
accept(c) ==
  /\ pc = "ACCEPT" /\ "LISTEN" \in rfds /\ c \in Waiting
  /\ IF OpenSlots = Slots
     THEN /\ net' = [net EXCEPT ![c].state = "CLOSED"]
          /\ UNCHANGED <<fds, session>>
     ELSE /\ net' = [net EXCEPT ![c].state = "UP"]
          /\ session' = [session EXCEPT ![LeastOf(Slots \ OpenSlots)] = c]
          /\ fds' = [fds EXCEPT ![LeastOf(Slots \ OpenSlots)] = c]
  /\ Goto(<<"IO", 1>>)
  /\ UNCHANGED <<rfds, call, sent, got>>

NothingToAccept ==
  /\ pc = "ACCEPT" /\ "LISTEN" \notin rfds
  /\ Goto(<<"IO", 1>>)
  /\ UNCHANGED <<fds, session, rfds, call, net, sent, got>>

\* FD_ISSET; in the faulty variant it is not asked, and recv() blocks.
is_set_always(c) == c # NONE

is_set(c) == c \in rfds

NotReadable ==
  /\ pc = "IO" /\ ~is_set(fds[cur])
  /\ Goto(AfterIo)
  /\ UNCHANGED <<fds, session, rfds, call, net, sent, got>>

on_data(T, E) ==
  /\ pc = "IO" /\ is_set(fds[cur]) /\ net[fds[cur]].in > 0
  /\ E \subseteq {cur}
  /\ Call(T, E, AfterIo)
  /\ net' = [net EXCEPT ![fds[cur]].in = @ - 1]
  /\ UNCHANGED fds

on_disconnected(T) ==
  /\ pc = "IO" /\ is_set(fds[cur])
  /\ net[fds[cur]].in = 0 /\ net[fds[cur]].state \in {"EOF", "BROKEN"}
  /\ cur \notin T
  /\ fds' = closed(cur)
  /\ net' = [net EXCEPT ![fds[cur]].state = "CLOSED"]
  /\ Call(T, {cur}, AfterIo)

Expire(T) ==
  /\ pc = "TICK" /\ session[cur] # NONE
  /\ cur \notin T
  /\ Call(T, {cur}, AfterTick)
  /\ UNCHANGED <<fds, net>>

NotExpired ==
  /\ pc = "TICK"
  /\ Goto(AfterTick)
  /\ UNCHANGED <<fds, session, rfds, call, net, sent, got>>

Loop ==
  \/ BeginFrame \/ Send \/ SendFails \/ Killed \/ Return \/ select \/ NothingToAccept \/ NotReadable \/ NotExpired
  \/ \E c \in Conns : accept(c)
  \/ \E T \in SUBSET Slots :
       \/ \E E \in SUBSET {cur} : on_data(T, E)
       \/ on_disconnected(T)
       \/ Expire(T)

Next ==
  \/ Loop
  \/ \E c \in Conns :
       \/ pc # "DEAD" /\ Connect(c) /\ UNCHANGED host_vars
       \/ PeerSends(c) /\ UNCHANGED host_vars
       \/ PeerReads(c) /\ UNCHANGED host_vars
       \/ PeerShutsDown(c) /\ UNCHANGED host_vars
       \/ Breaks(c) /\ UNCHANGED host_vars

Spec == Init /\ [][Next]_vars

\* The process runs.  Nothing is assumed of the peers.
FairSpec == Spec /\ WF_vars(Loop)

-----------------------------------------------------------------------------
(***************************************************************************)
(* Properties.                                                             *)
(***************************************************************************)

\* The host implements the channels that the server relies on: short writes are
\* continued, and nothing is sent on a descriptor that belongs to another
\* session or to none.
ImplementsChannel == Channel!Spec

\* Between calls a descriptor is held exactly for the sessions of the server.
DescriptorsAgree == pc # "SEND" => fds = session

\* send() waits for a peer that does not read.
Waits == Sending /\ net[Target].state # "BROKEN" /\ taken(Target, Len(call.frame)) = 0

\* The loop comes back to select(), and with it tick() is called again, unless
\* it stops in a send(): for good at a full socket, or by the signal of a broken
\* one.  In accept() and recv() it never stops, although the set that select()
\* filled is used after slots have been opened and closed.
StopsOnlyInSend == []<>(pc = "SELECT") \/ <>[]Waits \/ <>[](pc = "DEAD")
=============================================================================
