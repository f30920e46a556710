---------------------------- MODULE QnetdServer ----------------------------
(***************************************************************************)
(* The qnetd server core (class Server): the session table, the cluster    *)
(* table and the message handlers.  One action per entry point or handler, *)
(* run to completion as in the single-threaded code: a request that the    *)
(* code answers with an error and no state change is no step, and a        *)
(* disconnect scheduled while a frame is being handled is carried out      *)
(* before the entry point returns.  A tick() that expires several sessions *)
(* and an on_data() that holds several frames are as many steps, since the *)
(* code finishes one session, or one frame, before it looks at the next.   *)
(*                                                                         *)
(* A Session is kept in three parts: sessions (identity and options),      *)
(* views (what its client reported) and ballots (the vote transfer).  The  *)
(* fields that no code reads back (last_sent_vote, quorum_list,            *)
(* config_version, peer) and the counter decisions_ are left out; timers   *)
(* are abstracted to "any session may expire".                             *)
(***************************************************************************)
EXTENDS Ffsplit

CONSTANTS
  MAX_CLUSTERS,       \* size of the cluster table
  Names,              \* cluster names
  InitMsgs,           \* INIT messages the clients send
  ConfigLists,        \* configuration node lists the clients send
  MembershipMsgs,     \* MEMBERSHIP messages the clients send
  HeuristicsChanges,  \* results HEURISTICS_CHANGE messages carry
  KeepActiveOptions,  \* values SET_OPTION gives keep_active_partition_tb
  ReInit              \* TRUE if a client may send INIT again once ACTIVE

VARIABLES
  sessions,  \* slot -> phase, cluster, node id and options
  views,     \* slot -> lists, ring and heuristics its client reported
  ballots,   \* slot -> state of the vote transfer
  clusters   \* cluster index -> name, member count, ffsplit state

vars == <<sessions, views, ballots, clusters>>

ClusterIds == 1 .. MAX_CLUSTERS
NoCluster == 0
NoName == ""
NoTieBreaker == [mode |-> "ABSENT", node_id |-> NoNode]

TieBreaker == [mode : {"LOWEST", "HIGHEST", "NODE_ID"}, node_id : NodeIds \cup {NoNode}]

Session == [phase : {"FREE", "WAIT_PREINIT", "WAIT_INIT", "ACTIVE"},
            cluster_name : Names \cup {NoName},
            cluster : ClusterIds \cup {NoCluster},
            node_id : NodeIds \cup {NoNode},
            tie_breaker : TieBreaker,
            keep_active_partition_tb : BOOLEAN]

Cluster == [used : BOOLEAN,
            name : Names \cup {NoName},
            members : 0 .. MAX_CLIENTS,
            state : FfClusterState,
            quorate_partition : SUBSET NodeIds]

\* An INIT message; NoNode, NoRing, NoTieBreaker and "ABSENT" are options that
\* the message does not carry.
InitMsg == [node_id : NodeIds \cup {NoNode},
            ring_id : RingIds \cup {NoRing},
            heartbeat_interval : {"ABSENT", "OUT_OF_RANGE", "IN_RANGE"},
            tie_breaker : TieBreaker \cup {NoTieBreaker},
            decision_algorithm : {"ABSENT", "FFSPLIT", "OTHER"}]

MembershipMsg == [ring_id : RingIds, nodes : SUBSET NodeIds, heuristics : Heuristics]

ASSUME ClustersAssumption == MAX_CLUSTERS \in Nat \ {0}
ASSUME NamesAssumption == NoName \notin Names
ASSUME InputsAssumption ==
  /\ InitMsgs \subseteq InitMsg
  /\ ConfigLists \subseteq SUBSET NodeIds
  /\ MembershipMsgs \subseteq MembershipMsg
  /\ HeuristicsChanges \subseteq Heuristics \ {"UNDEFINED"}
  /\ KeepActiveOptions \subseteq BOOLEAN
  /\ ReInit \in BOOLEAN

\* Default-constructed structs.
NewSession == [phase |-> "FREE", cluster_name |-> NoName, cluster |-> NoCluster,
               node_id |-> NoNode, tie_breaker |-> [mode |-> "LOWEST", node_id |-> NoNode],
               keep_active_partition_tb |-> TRUE]
NewView == [last_ring_id |-> NoRing, config_list |-> {}, membership_list |-> {},
            last_heuristics |-> "UNDEFINED"]
NewBallot == [ff_state |-> "WAITING_FOR_CHANGE", vote_info_seq |-> 0,
              last_ack_nack |-> "UNDEFINED"]
NewCluster == [used |-> FALSE, name |-> NoName, members |-> 0,
               state |-> "WAITING_FOR_CHANGE", quorate_partition |-> {}]

Init ==
  /\ sessions = [i \in Slots |-> NewSession]
  /\ views = [i \in Slots |-> NewView]
  /\ ballots = [i \in Slots |-> NewBallot]
  /\ clusters = [c \in ClusterIds |-> NewCluster]

-----------------------------------------------------------------------------
(***************************************************************************)
(* Helpers.                                                                *)
(***************************************************************************)
Active(i) == sessions[i].phase = "ACTIVE"
ClientsOf(c) == {i \in Slots : Active(i) /\ sessions[i].cluster = c}

skip_in_cluster_walk(i, slot, leaving) ==
  leaving /\ sessions[i].node_id = sessions[slot].node_id

\* The poll that slot triggers, with the view v it sends.
Poll(slot, leaving, v) ==
  LET c == sessions[slot].cluster
  IN  [sess   |-> sessions,
       active |-> ClientsOf(c),
       walked |-> {i \in ClientsOf(c) : ~skip_in_cluster_walk(i, slot, leaving)},
       stored |-> views,
       eff    |-> IF leaving THEN views ELSE [views EXCEPT ![slot] = v],
       prev   |-> clusters[c].quorate_partition]

Decision(slot, leaving, v) ==
  ffsplit_do(Poll(slot, leaving, v), ballots, clusters[sessions[slot].cluster])

\* The cluster entry of that name, else the first unused one, else none.
find_or_create_cluster(name) ==
  LET named  == {c \in ClusterIds : clusters[c].used /\ clusters[c].name = name}
      unused == {c \in ClusterIds : ~clusters[c].used}
  IN  First(IF named # {} THEN named ELSE unused)

\* TieBreaker::operator==
same_tie_breaker(a, b) == a.mode = b.mode /\ (a.mode = "NODE_ID" => a.node_id = b.node_id)

\* Faulty variants: a check is left out.
fits_cluster_any_tie_breaker(i, s) ==
  \A o \in Slots \ {i} :
    Active(o) /\ sessions[o].cluster_name = s.cluster_name
      => s.node_id # sessions[o].node_id

fits_cluster_any_node(i, s) ==
  \A o \in Slots \ {i} :
    Active(o) /\ sessions[o].cluster_name = s.cluster_name
      => same_tie_breaker(s.tie_breaker, sessions[o].tie_breaker)

\* The consistency check of handle_init against the cluster's members.
fits_cluster(i, s) ==
  \A o \in Slots \ {i} :
    Active(o) /\ sessions[o].cluster_name = s.cluster_name
      => /\ same_tie_breaker(s.tie_breaker, sessions[o].tie_breaker)
         /\ s.node_id # sessions[o].node_id

-----------------------------------------------------------------------------
(***************************************************************************)
(* Connections.                                                            *)
(***************************************************************************)
\* Faulty variant: a slot whose handshake is not finished counts as free.
on_connect_not_active(i) ==
  /\ i \in First({j \in Slots : sessions[j].phase # "ACTIVE"})
  /\ sessions' = [sessions EXCEPT ![i] = [NewSession EXCEPT !.phase = "WAIT_PREINIT"]]
  /\ views' = [views EXCEPT ![i] = NewView]
  /\ ballots' = [ballots EXCEPT ![i] = NewBallot]
  /\ UNCHANGED clusters

on_connect(i) ==
  /\ i \in First({j \in Slots : sessions[j].phase = "FREE"})
  /\ sessions' = [sessions EXCEPT ![i] = [NewSession EXCEPT !.phase = "WAIT_PREINIT"]]
  /\ views' = [views EXCEPT ![i] = NewView]
  /\ ballots' = [ballots EXCEPT ![i] = NewBallot]
  /\ UNCHANGED clusters

\* Faulty variants: the member count is not lowered; ffsplit is not re-run.
leave_cluster_uncounted(i) ==
  LET d == Decision(i, TRUE, views[i])
  IN  IF Active(i) /\ sessions[i].cluster # NoCluster
      THEN /\ ballots' = [d.ballots EXCEPT ![i] = NewBallot]
           /\ clusters' = [clusters EXCEPT ![sessions[i].cluster] = d.cluster]
      ELSE /\ ballots' = [ballots EXCEPT ![i] = NewBallot]
           /\ UNCHANGED clusters

leave_cluster_undecided(i) ==
  /\ ballots' = [ballots EXCEPT ![i] = NewBallot]
  /\ IF Active(i) /\ sessions[i].cluster # NoCluster
     THEN clusters' = [clusters EXCEPT ![sessions[i].cluster] =
                         IF @.members <= 1 THEN NewCluster ELSE [@ EXCEPT !.members = @ - 1]]
     ELSE UNCHANGED clusters

\* An ACTIVE session first leaves its cluster, which re-runs ffsplit without it.
leave_cluster(i) ==
  LET c  == sessions[i].cluster
      d  == Decision(i, TRUE, views[i])
      cl == d.cluster
  IN  IF Active(i) /\ c # NoCluster
      THEN /\ ballots' = [d.ballots EXCEPT ![i] = NewBallot]
           /\ clusters' = [clusters EXCEPT ![c] =
                IF cl.members <= 1 THEN NewCluster ELSE [cl EXCEPT !.members = @ - 1]]
      ELSE /\ ballots' = [ballots EXCEPT ![i] = NewBallot]
           /\ UNCHANGED clusters

\* Leave and reset the slot.
EndSession(i) ==
  /\ sessions[i].phase # "FREE"
  /\ leave_cluster(i)
  /\ sessions' = [sessions EXCEPT ![i] = NewSession]
  /\ views' = [views EXCEPT ![i] = NewView]

\* The transport saw the connection end.
on_disconnected(i) == EndSession(i)

\* The server ends the connection: a dead peer or a frame it cannot accept.
disconnect_client(i) == EndSession(i)

-----------------------------------------------------------------------------
(***************************************************************************)
(* Handshake and options.                                                  *)
(***************************************************************************)
handle_preinit(i, name) ==
  /\ sessions[i].phase = "WAIT_PREINIT"
  /\ sessions' = [sessions EXCEPT ![i].cluster_name = name, ![i].phase = "WAIT_INIT"]
  /\ UNCHANGED <<views, ballots, clusters>>

\* Options are checked in the order of the code; the node id and the ring id
\* are stored unless they are the first thing found wrong, so an INIT that is
\* refused for another reason has stored them.
has_node_id(i, m)   == sessions[i].phase = "WAIT_INIT" /\ m.node_id # NoNode
has_ring_id(i, m)   == has_node_id(i, m) /\ m.ring_id # NoRing
has_tie_breaker(i, m) == /\ has_ring_id(i, m)
                         /\ m.heartbeat_interval = "IN_RANGE"
                         /\ m.tie_breaker # NoTieBreaker

init_stores(i, m) ==
  [sessions[i] EXCEPT
     !.node_id = IF sessions[i].phase = "WAIT_INIT" /\ ~has_node_id(i, m) THEN @ ELSE m.node_id,
     !.tie_breaker = IF has_tie_breaker(i, m) THEN m.tie_breaker ELSE @]

init_stores_ring(i, m) ==
  IF has_node_id(i, m) /\ ~has_ring_id(i, m) THEN views[i].last_ring_id ELSE m.ring_id

\* The clusters an acceptable INIT can join: at most one, none when the INIT is
\* refused or the cluster table is full.
init_joins(i, m) ==
  IF /\ has_tie_breaker(i, m)
     /\ m.decision_algorithm = "FFSPLIT"
     /\ fits_cluster(i, init_stores(i, m))
  THEN find_or_create_cluster(sessions[i].cluster_name)
  ELSE {}

joined(cl, name) ==
  IF cl.used /\ cl.members > 0
  THEN [cl EXCEPT !.members = @ + 1]
  ELSE [NewCluster EXCEPT !.used = TRUE, !.name = name, !.members = 1]

handle_init(i, m) ==
  /\ \/ sessions[i].phase = "WAIT_INIT"
     \/ ReInit /\ Active(i)
  /\ views' = [views EXCEPT ![i].last_ring_id = init_stores_ring(i, m)]
  /\ \/ /\ init_joins(i, m) = {}
        /\ sessions' = [sessions EXCEPT ![i] = init_stores(i, m)]
        /\ UNCHANGED clusters
     \/ \E c \in init_joins(i, m) :
          /\ sessions' = [sessions EXCEPT ![i] =
                            [init_stores(i, m) EXCEPT !.phase = "ACTIVE", !.cluster = c]]
          /\ clusters' = [clusters EXCEPT ![c] = joined(@, sessions[i].cluster_name)]
  /\ UNCHANGED ballots

handle_set_option(i, keep) ==
  /\ Active(i)
  /\ sessions' = [sessions EXCEPT ![i].keep_active_partition_tb = keep]
  /\ UNCHANGED <<views, ballots, clusters>>

-----------------------------------------------------------------------------
(***************************************************************************)
(* Reports.  The lists are stored after the algorithm ran.                 *)
(***************************************************************************)
RunFfsplit(i, v) ==
  LET d == Decision(i, FALSE, v)
  IN  /\ ballots' = d.ballots
      /\ clusters' = [clusters EXCEPT ![sessions[i].cluster] = d.cluster]

\* INITIAL_CONFIG (initial) and CHANGED_CONFIG lists.
handle_config_list(i, initial, nodes) ==
  LET v == [views[i] EXCEPT !.config_list = nodes]
  IN  /\ Active(i)
      /\ sessions[i].node_id \in nodes
      /\ views' = [views EXCEPT ![i] = v]
      /\ IF initial \/ views[i].membership_list = {}
         THEN UNCHANGED <<ballots, clusters>>
         ELSE RunFfsplit(i, v)
      /\ UNCHANGED sessions

handle_membership_list(i, m) ==
  LET v == [views[i] EXCEPT !.last_ring_id = m.ring_id,
                            !.membership_list = m.nodes,
                            !.last_heuristics = m.heuristics]
  IN  /\ Active(i)
      /\ sessions[i].node_id \in m.nodes
      /\ views' = [views EXCEPT ![i] = v]
      /\ IF views[i].config_list = {}
         THEN UNCHANGED <<ballots, clusters>>
         ELSE RunFfsplit(i, v)
      /\ UNCHANGED sessions

handle_heuristics_change(i, h) ==
  LET v == [views[i] EXCEPT !.last_heuristics = h]
  IN  /\ Active(i)
      /\ views' = [views EXCEPT ![i] = v]
      /\ IF views[i].config_list = {} \/ views[i].membership_list = {}
         THEN UNCHANGED <<ballots, clusters>>
         ELSE RunFfsplit(i, v)
      /\ UNCHANGED sessions

-----------------------------------------------------------------------------
(***************************************************************************)
(* Vote transfer.                                                          *)
(***************************************************************************)
\* Faulty variant: stale replies count.
reply_is_current_always(i, seq) == TRUE

\* Faulty variant: sequence numbers are compared by size.
reply_is_current_or_older(i, seq) == seq <= ballots[i].vote_info_seq

reply_is_current(i, seq) == seq = ballots[i].vote_info_seq

ffsplit_count_state(c, b, st) == Cardinality(In_state(ClientsOf(c), b, st))

handle_vote_info_reply(i, seq) ==
  LET c    == sessions[i].cluster
      p    == Poll(i, FALSE, views[i])
      b    == [ballots EXCEPT ![i].ff_state = "WAITING_FOR_CHANGE"]
      acks == In_state(ClientsOf(c), b, "SENDING_ACK")
      nacks_done == /\ clusters[c].state = "SENDING_NACKS"
                    /\ ffsplit_count_state(c, b, "SENDING_NACK") = 0
      acks_done  == /\ clusters[c].state = "SENDING_ACKS"
                    /\ ffsplit_count_state(c, b, "SENDING_ACK") = 0
  IN  /\ Active(i)
      /\ reply_is_current(i, seq)
      /\ ballots' = IF nacks_done THEN ffsplit_send_votes(p, b, "ACK") ELSE b
      /\ clusters' = [clusters EXCEPT ![c].state =
           IF nacks_done /\ acks # {} THEN "SENDING_ACKS"
           ELSE IF nacks_done \/ acks_done THEN "WAITING_FOR_CHANGE"
           ELSE @]
      /\ UNCHANGED <<sessions, views>>

\* Faulty variant: the number is incremented after the frame is built.
build_vote_info_post_increment(i) ==
  [seq_number |-> (ballots[i].vote_info_seq + SEQ_MOD - 1) % SEQ_MOD,
   ring_id |-> views[i].last_ring_id,
   vote |-> ballots[i].last_ack_nack]

\* The VOTE_INFO frame that send_votes writes to slot i.
build_vote_info(i) == [seq_number |-> ballots[i].vote_info_seq,
                       ring_id |-> views[i].last_ring_id,
                       vote |-> ballots[i].last_ack_nack]

-----------------------------------------------------------------------------
(***************************************************************************)
(* Status.                                                                 *)
(***************************************************************************)
any_ack == \E i \in Slots : Active(i) /\ ballots[i].last_ack_nack = "ACK"

\* Faulty variant: the vote that is due is shown, not the one that was sent.
status_string_due ==
  {[cluster |-> sessions[i].cluster, node_id |-> sessions[i].node_id,
    vote |-> IF ballots[i].ff_state = "SENDING_ACK" THEN "ACK" ELSE "NACK"]
   : i \in {j \in Slots : Active(j)}}

status_string ==
  {[cluster |-> sessions[i].cluster, node_id |-> sessions[i].node_id,
    vote |-> ballots[i].last_ack_nack]
   : i \in {j \in Slots : Active(j)}}

-----------------------------------------------------------------------------
Receive(i) ==
  \/ \E n \in Names : handle_preinit(i, n)
  \/ \E m \in InitMsgs : handle_init(i, m)
  \/ \E k \in KeepActiveOptions : handle_set_option(i, k)
  \/ \E initial \in BOOLEAN, l \in ConfigLists : handle_config_list(i, initial, l)
  \/ \E m \in MembershipMsgs : handle_membership_list(i, m)
  \/ \E h \in HeuristicsChanges : handle_heuristics_change(i, h)
  \/ \E q \in 0 .. SEQ_MOD - 1 : handle_vote_info_reply(i, q)

Next ==
  \E i \in Slots : \/ on_connect(i)
                   \/ on_disconnected(i)
                   \/ disconnect_client(i)
                   \/ Receive(i)

Spec == Init /\ [][Next]_vars

-----------------------------------------------------------------------------
(***************************************************************************)
(* Properties.                                                             *)
(***************************************************************************)

\* Every field has a value of its type; the member counts stay in range.
TypeOK ==
  /\ sessions \in [Slots -> Session]
  /\ views \in [Slots -> View]
  /\ ballots \in [Slots -> Ballot]
  /\ clusters \in [ClusterIds -> Cluster]

\* The cluster table and the session table agree after any sequence of joins,
\* refused INITs and leaves: a session is in a cluster exactly while it is
\* ACTIVE, under the name it announced; a cluster counts its ACTIVE sessions
\* and its entry is in use exactly while it has some; two entries in use have
\* different names (find_or_create_cluster, handle_init, leave_cluster).
TablesAgree ==
  /\ \A i \in Slots :
       IF Active(i)
       THEN /\ sessions[i].cluster \in ClusterIds
            /\ clusters[sessions[i].cluster].name = sessions[i].cluster_name
       ELSE sessions[i].cluster = NoCluster
  /\ \A c \in ClusterIds :
       /\ clusters[c].members = Cardinality(ClientsOf(c))
       /\ clusters[c].used <=> clusters[c].members > 0
  /\ \A c, d \in ClusterIds :
       clusters[c].used /\ clusters[d].used /\ clusters[c].name = clusters[d].name => c = d

\* No two members of a cluster have the same node id (the DUPLICATE_NODE_ID
\* check of handle_init): skip_in_cluster_walk and the lookups by node id rely
\* on it.
UniqueNodeIds ==
  \A i, j \in Slots :
    /\ Active(i) /\ Active(j)
    /\ sessions[i].cluster = sessions[j].cluster
    /\ sessions[i].node_id = sessions[j].node_id
    => i = j

\* The members of a cluster break ties the same way, so the outcome of a 50:50
\* split does not depend on whose tie breaker is consulted (handle_init).
TieBreakersAgree ==
  \A i, j \in Slots :
    Active(i) /\ Active(j) /\ sessions[i].cluster = sessions[j].cluster
      => same_tie_breaker(sessions[i].tie_breaker, sessions[j].tie_breaker)

\* A client whose last VOTE_INFO was an ACK is in the partition that its
\* cluster's latest decision made quorate: whatever the order of reports,
\* joins, leaves and replies, no decision leaves an ACK standing outside it.
AcksInsideQuoratePartition ==
  \A i \in Slots :
    Active(i) /\ ballots[i].last_ack_nack = "ACK"
      => sessions[i].node_id \in clusters[sessions[i].cluster].quorate_partition

\* A cluster that waits for acknowledgements waits for somebody: in
\* SENDING_NACKS some member still owes the reply to its NACK, in SENDING_ACKS
\* no NACK is outstanding and some member still owes the reply to its ACK.
\* Otherwise the transfer could never complete (handle_vote_info_reply).
TransferHasDebtor ==
  \A c \in ClusterIds :
    /\ clusters[c].state = "SENDING_NACKS"
         => In_state(ClientsOf(c), ballots, "SENDING_NACK") # {}
    /\ clusters[c].state = "SENDING_ACKS"
         => /\ In_state(ClientsOf(c), ballots, "SENDING_ACK") # {}
            /\ In_state(ClientsOf(c), ballots, "SENDING_NACK") = {}

\* A step sends slot i a VOTE_INFO.
VoteInfoSent(i, vote) ==
  /\ Active(i) /\ Active(i)'
  /\ ballots'[i].vote_info_seq # ballots[i].vote_info_seq
  /\ ballots'[i].last_ack_nack = vote

\* A step that sends an ACK leaves no member of the cluster in SENDING_NACK and
\* sends it no NACK.
NacksDone ==
  \A i, j \in Slots :
    /\ VoteInfoSent(i, "ACK")
    /\ Active(j)' /\ sessions'[j].cluster = sessions'[i].cluster
    => ballots'[j].ff_state # "SENDING_NACK" /\ ~VoteInfoSent(j, "NACK")

\* An ACK is sent only when every member of the cluster that the decision
\* excludes has acknowledged its NACK (ffsplit_do, handle_vote_info_reply).
AcksFollowNacks == [][NacksDone]_vars

\* A partition that becomes quorate was reported by a connected client and
\* has at least half of that client's configured nodes, more than half when
\* their number is odd (ffsplit_partition_better).
QuorateIsHalf ==
  [][\A c \in ClusterIds :
       LET q == clusters'[c].quorate_partition
       IN  q # clusters[c].quorate_partition /\ q # {}
             => \E i \in Slots :
                  /\ Active(i)' /\ sessions'[i].cluster = c
                  /\ views'[i].membership_list = q
                  /\ 2 * Cardinality(q) >= Cardinality(views'[i].config_list)]_vars

\* The server's tables, read as a hand-over of the vote: a client's seat is its
\* session once it is ACTIVE, its vote the last one sent to it, and it owes an
\* answer while it is in SENDING_NACK.
Handover == INSTANCE VoteHandover
  WITH Clusters <- ClusterIds, Nodes <- NodeIds,
       cluster <- [i \in Slots |-> sessions[i].cluster],
       node <- [i \in Slots |-> IF Active(i) THEN sessions[i].node_id ELSE NoNode],
       chosen <- [c \in ClusterIds |-> clusters[c].quorate_partition],
       acked <- {i \in Slots : Active(i) /\ ballots[i].last_ack_nack = "ACK"},
       owing <- {i \in Slots : Active(i) /\ ballots[i].ff_state = "SENDING_NACK"}

\* Whatever the clients report and in whatever order they join, leave and
\* answer, the handlers together hand the vote over in the two phases of
\* VoteHandover.
ImplementsHandover == Handover!Spec
=============================================================================
