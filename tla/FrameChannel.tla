---------------------------- MODULE FrameChannel ----------------------------
(***************************************************************************)
(* What the server relies on when it calls Transport::send_frame: each     *)
(* connection is a channel that delivers what was sent on it, in order,    *)
(* nothing twice and nothing from another connection, up to some point     *)
(* after which it delivers no more.  A frame is FRAME units; the k-th unit *)
(* that is sent on connection c is <<c, k>>.                               *)
(***************************************************************************)
EXTENDS Integers, Sequences

CONSTANTS Conns, FRAME

VARIABLES
  sent,     \* number of units sent on a connection
  got,      \* the units that its peer received
  over      \* the server has closed the connection or knows that it is gone

vars == <<sent, got, over>>

Init ==
  /\ sent = [c \in Conns |-> 0]
  /\ got = [c \in Conns |-> <<>>]
  /\ over = [c \in Conns |-> FALSE]

\* One call of the server sends on some connections, all of it one frame, and
\* may end others.  Nothing is sent on a connection that is over.
Call(T, C) ==
  /\ \A c \in T : ~over[c]
  /\ sent' = [c \in Conns |-> IF c \in T THEN sent[c] + FRAME ELSE sent[c]]
  /\ over' = [c \in Conns |-> over[c] \/ c \in C]
  /\ UNCHANGED got

Deliver(c) ==
  /\ Len(got[c]) < sent[c]
  /\ got' = [got EXCEPT ![c] = Append(@, <<c, Len(@) + 1>>)]
  /\ UNCHANGED <<sent, over>>

Next ==
  \/ \E T, C \in SUBSET Conns : Call(T, C)
  \/ \E c \in Conns : Deliver(c)

Spec == Init /\ [][Next]_vars
=============================================================================
