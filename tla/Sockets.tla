------------------------------ MODULE Sockets ------------------------------
(***************************************************************************)
(* TCP connections as the hosts of the server see them, and the peers at   *)
(* their other ends (external).  A socket takes units until it is full; a  *)
(* connection may be shut down by its peer, or break and lose what is in   *)
(* flight.  Units are numbered per connection, FRAME of them to a frame.   *)
(***************************************************************************)
EXTENDS Integers, Sequences

CONSTANTS
  MAX_CLIENTS,
  Conns,         \* connections that peers may open
  NONE,          \* no connection
  FRAME,         \* units of a frame
  SOCKET_ROOM,   \* units that a socket holds until its peer reads them
  MaxFrames,     \* bound on the frames of a connection
  MaxChunks      \* bound on the chunks that a peer sends

ASSUME SocketsAssumption ==
  /\ MAX_CLIENTS \in Nat \ {0} /\ FRAME \in Nat \ {0} /\ SOCKET_ROOM \in Nat \ {0}
  /\ MaxFrames \in Nat /\ MaxChunks \in Nat /\ NONE \notin Conns

VARIABLES
  net,        \* each socket: its state, chunks to read, chunks that its peer may
              \* still send, units in flight to the peer
  sent, got   \* units sent on a connection, and those its peer has received

Slots == 1 .. MAX_CLIENTS

SocketsInit ==
  /\ net = [c \in Conns |-> [state |-> "NEW", in |-> 0, left |-> MaxChunks, out |-> <<>>]]
  /\ sent = [c \in Conns |-> 0]
  /\ got = [c \in Conns |-> <<>>]

\* The next frame for a connection.
Frame(c) == [k \in 1 .. FRAME |-> <<c, sent[c] + k>>]

\* Units that a write takes: what fits.
taken(c, len) == IF net[c].state = "BROKEN" THEN 0
                 ELSE LET room == SOCKET_ROOM - Len(net[c].out)
                      IN  IF len < room THEN len ELSE room

Connect(c) ==
  /\ net[c].state = "NEW"
  /\ net' = [net EXCEPT ![c].state = "QUEUED"]
  /\ UNCHANGED <<sent, got>>

PeerSends(c) ==
  /\ net[c].state = "UP" /\ net[c].left > 0
  /\ net' = [net EXCEPT ![c].in = @ + 1, ![c].left = @ - 1]
  /\ UNCHANGED <<sent, got>>

PeerReads(c) ==
  /\ net[c].out # <<>>
  /\ net' = [net EXCEPT ![c].out = Tail(@)]
  /\ got' = [got EXCEPT ![c] = Append(@, Head(net[c].out))]
  /\ UNCHANGED sent

PeerShutsDown(c) ==
  /\ net[c].state = "UP"
  /\ net' = [net EXCEPT ![c].state = "EOF", ![c].left = 0]
  /\ UNCHANGED <<sent, got>>

Breaks(c) ==
  /\ net[c].state \in {"UP", "EOF"}
  /\ net' = [net EXCEPT ![c] = [state |-> "BROKEN", in |-> 0, left |-> 0, out |-> <<>>]]
  /\ UNCHANGED <<sent, got>>

\* The channels that the server relies on; a connection that the host has closed
\* is over.
Channel == INSTANCE FrameChannel WITH over <- [c \in Conns |-> net[c].state = "CLOSED"]
=============================================================================
