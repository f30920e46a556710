---------------------------- MODULE QnetdSystem ----------------------------
(***************************************************************************)
(* The arbiter and the nodes it arbitrates: the server of QnetdServer, one *)
(* qdevice client per node of one cluster, a TCP connection per session    *)
(* and a network that partitions the nodes.                                *)
(*                                                                         *)
(* The clients are external to this repository.  They are modelled from    *)
(* what the server relies on: a client sends INIT once, then its           *)
(* configuration, its membership and every change of it; it answers each   *)
(* VOTE_INFO with a VOTE_INFO_REPLY of the same number, in order; an ACK   *)
(* counts only for the ring it names and only while the ring is the node's *)
(* current one and the TCP session lives.                                  *)
(*                                                                         *)
(* The requests of the handshake are answered one at a time, so nothing    *)
(* else is in flight on the connection and they are modelled as one step   *)
(* with their handler.  Everything later goes through up and down.         *)
(***************************************************************************)
EXTENDS QnetdServer, Sequences

CONSTANTS
  MaxRings,       \* bound: times the network forms rings, the first included
  MaxDrops,       \* bound: sessions of live clients that die
  MaxFlips,       \* bound: heuristics results that change
  MaxReboots,     \* bound: restarts of the arbiter
  InstantDrop     \* TRUE if a client sees at once that the server ended its session

VARIABLES
  partition,  \* the blocks the network is split into
  epoch,      \* number of ring formations
  ring,       \* node -> its current ring
  members,    \* node -> the members of that ring
  heuristics, \* node -> its latest heuristics result
  conn,       \* node -> slot of its session, NoSlot, or Dead
  held,       \* node -> does it hold an ACK for its current ring
  up,         \* slot -> frames from the client, not yet handled
  down,       \* slot -> VOTE_INFO frames to the client, not yet handled
  faults      \* drops, flips and reboots so far

serverVars == vars
netVars == <<partition, epoch, ring, members>>
clientVars == <<heuristics, conn, held>>
wires == <<up, down>>
sysVars == <<sessions, views, ballots, clusters, partition, epoch, ring, members,
             heuristics, conn, held, up, down, faults>>

ASSUME BoundsAssumption ==
  /\ MaxRings \in Nat \ {0} /\ MaxDrops \in Nat /\ MaxFlips \in Nat /\ MaxReboots \in Nat
  /\ InstantDrop \in BOOLEAN

Dead == -1      \* the session is gone and the client has not noticed yet
TheName == CHOOSE n \in Names : TRUE

RingOf(B, e) == [node_id |-> CHOOSE n \in B : \A k \in B : n <= k, seq |-> e]
BlockOf(n) == CHOOSE B \in partition : n \in B
Partitions == {P \in SUBSET (SUBSET NodeIds \ {{}}) :
                 /\ UNION P = NodeIds
                 /\ \A A, B \in P : A # B => A \cap B = {}}

InitOf(n) == CHOOSE m \in InitMsgs : m.node_id = n
ConfigFrame == [type |-> "CONFIG"]
MembershipFrame(r, S, h) == [type |-> "MEMBERSHIP",
                             msg |-> [ring_id |-> r, nodes |-> S, heuristics |-> h]]
HeuristicsFrame(h) == [type |-> "HEURISTICS", heuristics |-> h]
ReplyFrame(seq) == [type |-> "REPLY", seq_number |-> seq]

Owner(i) == {n \in NodeIds : conn[n] = i}
Joined(n) == conn[n] \in Slots /\ Active(conn[n])

SysInit ==
  /\ Init
  /\ partition = {NodeIds} /\ epoch = 1
  /\ ring = [n \in NodeIds |-> RingOf(NodeIds, 1)]
  /\ members = [n \in NodeIds |-> NodeIds]
  /\ heuristics = [n \in NodeIds |-> "UNDEFINED"]
  /\ conn = [n \in NodeIds |-> NoSlot]
  /\ held = [n \in NodeIds |-> FALSE]
  /\ up = [i \in Slots |-> <<>>] /\ down = [i \in Slots |-> <<>>]
  /\ faults = [drops |-> 0, flips |-> 0, reboots |-> 0]

-----------------------------------------------------------------------------
(***************************************************************************)
(* The network of the cluster nodes.                                       *)
(***************************************************************************)
Repartition(P) ==
  /\ epoch < MaxRings
  /\ P # partition
  /\ partition' = P /\ epoch' = epoch + 1
  /\ UNCHANGED <<serverVars, ring, members, clientVars, wires, faults>>

\* Node n installs the ring of its block and reports it.
FormRing(n) ==
  LET r == RingOf(BlockOf(n), epoch)
  IN  /\ ring[n].seq < epoch
      /\ ring' = [ring EXCEPT ![n] = r]
      /\ members' = [members EXCEPT ![n] = BlockOf(n)]
      /\ held' = [held EXCEPT ![n] = FALSE]
      /\ up' = IF Joined(n)
               THEN [up EXCEPT ![conn[n]] =
                       Append(@, MembershipFrame(r, BlockOf(n), heuristics[n]))]
               ELSE up
      /\ UNCHANGED <<serverVars, partition, epoch, heuristics, conn, down, faults>>

\* The heuristics of node n give another result.
Flip(n, h) ==
  /\ faults.flips < MaxFlips
  /\ h # heuristics[n]
  /\ faults' = [faults EXCEPT !.flips = @ + 1]
  /\ heuristics' = [heuristics EXCEPT ![n] = h]
  /\ up' = IF Joined(n) THEN [up EXCEPT ![conn[n]] = Append(@, HeuristicsFrame(h))] ELSE up
  /\ UNCHANGED <<serverVars, netVars, conn, held, down>>

-----------------------------------------------------------------------------
(***************************************************************************)
(* Sessions.                                                               *)
(***************************************************************************)

\* What the server's step writes to the sockets of live clients.
SentVotes ==
  [i \in Slots |->
     IF /\ Owner(i) # {} /\ Active(i) /\ Active(i)'
        /\ ballots'[i].vote_info_seq # ballots[i].vote_info_seq
     THEN Append(down[i], build_vote_info(i)')
     ELSE down[i]]

Connect(n) ==
  /\ conn[n] = NoSlot
  /\ \E i \in Slots : on_connect(i) /\ conn' = [conn EXCEPT ![n] = i]
  /\ UNCHANGED <<netVars, heuristics, held, wires, faults>>

Hello(n) ==
  /\ conn[n] \in Slots
  /\ handle_preinit(conn[n], TheName)
  /\ UNCHANGED <<netVars, clientVars, wires, faults>>

\* An accepted client reports its lists; a refused one closes the connection.
Join(n) ==
  LET i == conn[n]
  IN  /\ i \in Slots
      /\ handle_init(i, InitOf(n))
      /\ IF sessions'[i].phase = "ACTIVE"
         THEN /\ up' = [up EXCEPT ![i] =
                          <<ConfigFrame, MembershipFrame(ring[n], members[n], heuristics[n])>>]
              /\ UNCHANGED conn
         ELSE /\ conn' = [conn EXCEPT ![n] = NoSlot]
              /\ UNCHANGED up
      /\ UNCHANGED <<netVars, heuristics, held, down, faults>>

\* The session of node n dies on its side, and with it the vote it holds; what
\* it sent may still reach the server.
Drop(n) ==
  /\ conn[n] \in Slots
  /\ faults.drops < MaxDrops
  /\ faults' = [faults EXCEPT !.drops = @ + 1]
  /\ conn' = [conn EXCEPT ![n] = NoSlot]
  /\ held' = [held EXCEPT ![n] = FALSE]
  /\ down' = [down EXCEPT ![conn[n]] = <<>>]
  /\ UNCHANGED <<serverVars, netVars, heuristics, up>>

\* The server finds out, by EOF or by dead peer detection.
Expire(i) ==
  /\ Owner(i) = {}
  /\ on_disconnected(i) \/ disconnect_client(i)
  /\ up' = [up EXCEPT ![i] = <<>>]
  /\ down' = SentVotes
  /\ UNCHANGED <<netVars, clientVars, faults>>

\* Dead peer detection ends a session whose client is alive but was not heard
\* in time.
Evict(n) ==
  /\ Joined(n)
  /\ faults.drops < MaxDrops
  /\ faults' = [faults EXCEPT !.drops = @ + 1]
  /\ disconnect_client(conn[n])
  /\ conn' = [conn EXCEPT ![n] = IF InstantDrop THEN NoSlot ELSE Dead]
  /\ held' = [held EXCEPT ![n] = @ /\ ~InstantDrop]
  /\ up' = [up EXCEPT ![conn[n]] = <<>>]
  /\ down' = [SentVotes EXCEPT ![conn[n]] = <<>>]
  /\ UNCHANGED <<netVars, heuristics>>

\* The arbiter restarts with empty tables.
Reboot ==
  /\ faults.reboots < MaxReboots
  /\ faults' = [faults EXCEPT !.reboots = @ + 1]
  /\ sessions' = [i \in Slots |-> NewSession] /\ views' = [i \in Slots |-> NewView]
  /\ ballots' = [i \in Slots |-> NewBallot] /\ clusters' = [c \in ClusterIds |-> NewCluster]
  /\ up' = [i \in Slots |-> <<>>] /\ down' = [i \in Slots |-> <<>>]
  /\ conn' = [n \in NodeIds |-> IF conn[n] = NoSlot \/ InstantDrop THEN NoSlot ELSE Dead]
  /\ held' = [n \in NodeIds |-> held[n] /\ ~InstantDrop]
  /\ UNCHANGED <<netVars, heuristics>>

\* Node n notices that the server has ended its session.
Notice(n) ==
  /\ conn[n] = Dead
  /\ conn' = [conn EXCEPT ![n] = NoSlot]
  /\ held' = [held EXCEPT ![n] = FALSE]
  /\ UNCHANGED <<serverVars, netVars, heuristics, wires, faults>>

-----------------------------------------------------------------------------
(***************************************************************************)
(* Messages.                                                               *)
(***************************************************************************)
ServerReads(i) ==
  LET m == Head(up[i])
  IN  /\ up[i] # <<>>
      /\ \/ m.type = "CONFIG" /\ handle_config_list(i, TRUE, NodeIds)
         \/ m.type = "MEMBERSHIP" /\ handle_membership_list(i, m.msg)
         \/ m.type = "HEURISTICS" /\ handle_heuristics_change(i, m.heuristics)
         \/ m.type = "REPLY" /\ handle_vote_info_reply(i, m.seq_number)
         \/ /\ m.type = "REPLY" /\ ~reply_is_current(i, m.seq_number)
            /\ UNCHANGED serverVars
      /\ up' = [up EXCEPT ![i] = Tail(@)]
      /\ down' = SentVotes
      /\ UNCHANGED <<netVars, clientVars, faults>>

\* The vote counts if it is for the node's current ring; the reply goes out
\* in any case.
ClientReads(n) ==
  LET i == conn[n]
      m == Head(down[i])
  IN  /\ Joined(n) /\ down[i] # <<>>
      /\ held' = [held EXCEPT ![n] = IF m.ring_id = ring[n] THEN m.vote = "ACK" ELSE @]
      /\ down' = [down EXCEPT ![i] = Tail(@)]
      /\ up' = [up EXCEPT ![i] = Append(@, ReplyFrame(m.seq_number))]
      /\ UNCHANGED <<serverVars, netVars, heuristics, conn, faults>>

-----------------------------------------------------------------------------
\* Every step but the handling of a frame by the server.
OtherSteps ==
  \/ \E P \in Partitions : Repartition(P)
  \/ \E n \in NodeIds : \/ FormRing(n) \/ Connect(n) \/ Hello(n) \/ Join(n)
                        \/ Drop(n) \/ Evict(n) \/ Notice(n) \/ ClientReads(n)
                        \/ \E h \in HeuristicsChanges : Flip(n, h)
  \/ \E i \in Slots : Expire(i)
  \/ Reboot

SysNext == OtherSteps \/ \E i \in Slots : ServerReads(i)

SysSpec == SysInit /\ [][SysNext]_sysVars

\* ServerReads and Expire, without the handlers' effects elsewhere: they are
\* enabled in the same states.
FrameTaken(i) == up[i] # <<>> /\ up' = [up EXCEPT ![i] = Tail(@)]
SlotFreed(i) == /\ Owner(i) = {} /\ sessions[i].phase # "FREE"
                /\ sessions' = [sessions EXCEPT ![i] = NewSession]

\* Faults and repartitions may stop; everything else goes on: rings form,
\* clients reconnect, frames in flight arrive, dead sessions are found.
Fairness ==
  /\ \A n \in NodeIds : /\ WF_sysVars(FormRing(n)) /\ WF_sysVars(Connect(n))
                        /\ WF_sysVars(Hello(n)) /\ WF_sysVars(Join(n))
                        /\ WF_sysVars(Notice(n)) /\ WF_sysVars(ClientReads(n))
  /\ \A i \in Slots : WF_up(FrameTaken(i)) /\ WF_sessions(SlotFreed(i))

\* A reply clears the SENDING_ACK of a client whose ACK has not been sent yet:
\* it answers a VOTE_INFO of an earlier decision.
LateReply ==
  \E i \in Slots :
    /\ Active(i) /\ Active(i)'
    /\ clusters[sessions[i].cluster].state = "SENDING_NACKS"
    /\ ballots[i].ff_state = "SENDING_ACK"
    /\ ballots'[i].ff_state = "WAITING_FOR_CHANGE"

\* The fair behaviours in which no reply comes that late; only ServerReads
\* handles replies.
TimelyNext == OtherSteps \/ \E i \in Slots : ServerReads(i) /\ ~LateReply
TimelySpec == SysInit /\ [][TimelyNext]_sysVars /\ Fairness

-----------------------------------------------------------------------------
(***************************************************************************)
(* Properties.                                                             *)
(***************************************************************************)

\* Nodes, connections and frames have values of their types; a connection
\* belongs to at most one client.
SysTypeOK ==
  /\ TypeOK
  /\ ring \in [NodeIds -> RingIds] /\ members \in [NodeIds -> SUBSET NodeIds]
  /\ heuristics \in [NodeIds -> Heuristics]
  /\ conn \in [NodeIds -> Slots \cup {NoSlot, Dead}]
  /\ held \in [NodeIds -> BOOLEAN]
  /\ \A i \in Slots : \A k \in DOMAIN down[i] :
       down[i][k] \in [seq_number : 0 .. SEQ_MOD - 1, ring_id : RingIds, vote : {"ACK", "NACK"}]
  /\ \A i \in Slots : Cardinality(Owner(i)) <= 1

\* Two nodes that have both left each other's partition never hold an ACK for
\* their current rings at the same time, whatever is in flight.
NoSplitBrain ==
  \A n, k \in NodeIds : held[n] /\ held[k] => n \in members[k] \/ k \in members[n]

\* A node that holds an ACK for its current ring is in a ring of at least half
\* of the nodes: no decision grants the vote to a node that has already left the
\* partition it was granted to (ffsplit_is_stable).
HoldersHaveHalf ==
  \A n \in NodeIds : held[n] => 2 * Cardinality(members[n]) >= Cardinality(NodeIds)

\* The client of n holds an ACK, or one is on its way.
MayHold(n) ==
  /\ Joined(n)
  /\ held[n] \/ \E k \in DOMAIN down[conn[n]] : down[conn[n]][k].vote = "ACK"

\* Once the server has moved on to the ACKs of a decision, no client outside
\* the chosen partition holds an ACK or has one in flight: the replies that it
\* counted really were answers to the decision's NACKs.
NacksTookEffect ==
  \A n \in NodeIds :
    MayHold(n) =>
      LET cl == clusters[sessions[conn[n]].cluster]
      IN  cl.state \in {"SENDING_ACKS", "WAITING_FOR_CHANGE"} => n \in cl.quorate_partition

\* When the last NACK of a decision is acknowledged, every client of the chosen
\* partition that has reported its lists is sent its ACK: the cluster does not
\* go back to WAITING_FOR_CHANGE with a winner left out.
AckFollowsLastNack ==
  [][\A i \in Slots :
       LET c == sessions[i].cluster
       IN  /\ Active(i) /\ Active(i)'
           /\ clusters[c].state = "SENDING_NACKS"
           /\ clusters'[c].state \in {"SENDING_ACKS", "WAITING_FOR_CHANGE"}
           /\ sessions[i].node_id \in clusters'[c].quorate_partition
           /\ views[i].config_list # {} /\ views[i].membership_list # {}
           => VoteInfoSent(i, "ACK")]_sysVars

\* When the network and the sessions have come to rest, exactly the nodes of
\* one block hold the vote, and keep it.
OneBlockSettles ==
  <>[](\E B \in partition : \A n \in NodeIds : held[n] <=> n \in B)

\* By then the status the server shows is what the nodes hold, although it is
\* made of the votes sent and not of the votes received: exactly the holders are
\* listed with an ACK, and any_ack says whether there is one.
StatusSettles ==
  <>[](/\ any_ack <=> \E n \in NodeIds : held[n]
       /\ \A n \in NodeIds :
            held[n] <=> \E s \in status_string : s.node_id = n /\ s.vote = "ACK")
=============================================================================
