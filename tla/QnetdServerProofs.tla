------------------------- MODULE QnetdServerProofs -------------------------
(***************************************************************************)
(* The session table and the cluster table of QnetdServer agree, for any   *)
(* table sizes, cluster names and messages.  TypeOK and TablesAgree are    *)
(* inductive together: the member count of a cluster stays in range        *)
(* because it is the number of its sessions.  The vote transfer matters to *)
(* the tables only through Decided, which says all that later proofs need  *)
(* to know of a decision.                                                  *)
(***************************************************************************)
EXTENDS QnetdServer, FiniteSetTheorems, TLAPS

-----------------------------------------------------------------------------
(***************************************************************************)
(* The operators of Ffsplit.                                               *)
(***************************************************************************)

\* The selected partition is a set of nodes.
LEMMA SelectType ==
  ASSUME NEW p, p.eff \in [Slots -> View]
  PROVE  ffsplit_select_partition(p) \in SUBSET NodeIds
BY DEF ffsplit_select_partition, View

\* Every client a decision visits is due an ACK or a NACK, by its place inside
\* or outside the winning partition; nobody else's ballot changes.
LEMMA UpdateStates ==
  ASSUME NEW p, NEW b \in [Slots -> Ballot], NEW winner
  PROVE  LET u == ffsplit_update_states(p, b, winner)
         IN  /\ u \in [Slots -> Ballot]
             /\ \A i \in Slots \ p.active : u[i] = b[i]
             /\ \A i \in Slots : /\ u[i].vote_info_seq = b[i].vote_info_seq
                                 /\ u[i].last_ack_nack = b[i].last_ack_nack
             /\ \A i \in Slots : i \in p.active /\ i \in p.walked =>
                  u[i].ff_state = IF p.sess[i].node_id \in winner THEN "SENDING_ACK"
                                  ELSE "SENDING_NACK"
             /\ \A i \in Slots : i \in p.active /\ i \notin p.walked =>
                  u[i].ff_state = "WAITING_FOR_CHANGE"
BY SMTT(90) DEF ffsplit_update_states, Ballot, FfClientState

\* Sending votes records them with the clients that were due one, and changes
\* nobody's ff_state.
LEMMA SendVotes ==
  ASSUME NEW p, NEW b \in [Slots -> Ballot], NEW vote \in {"ACK", "NACK"}
  PROVE  LET s  == ffsplit_send_votes(p, b, vote)
             st == IF vote = "ACK" THEN "SENDING_ACK" ELSE "SENDING_NACK"
         IN  /\ s \in [Slots -> Ballot]
             /\ \A i \in Slots : s[i].ff_state = b[i].ff_state
             /\ \A i \in Slots : i \in p.walked /\ b[i].ff_state = st =>
                  s[i].last_ack_nack = vote
             /\ \A i \in Slots : ~(i \in p.walked /\ b[i].ff_state = st) => s[i] = b[i]
<1>1. \A n \in 0 .. SEQ_MOD - 1 : (n + 1) % SEQ_MOD \in 0 .. SEQ_MOD - 1
  BY SeqAssumption
<1> QED
  BY <1>1, ZenonT(90) DEF ffsplit_send_votes, In_state, Ballot, FfClientState

\* What a decision d does to the ballots b and the entry cl of a cluster with
\* the clients A, of which it visits W: nothing but note the instability, or
\* NACK everybody outside the new quorate partition before anybody is ACKed.
Decided(sess, A, W, b, cl, d) ==
  LET q == d.cluster.quorate_partition
  IN  /\ d.ballots \in [Slots -> Ballot]
      /\ d.cluster \in Cluster
      /\ d.cluster.used = cl.used
      /\ d.cluster.name = cl.name
      /\ d.cluster.members = cl.members
      /\ \A i \in Slots \ A : d.ballots[i] = b[i]
      /\ \/ /\ d.ballots = b
            /\ q = cl.quorate_partition
            /\ d.cluster.state = "WAITING_FOR_STABLE_MEMBERSHIP"
         \/ /\ \A i \in W : IF sess[i].node_id \in q
                            THEN d.ballots[i].ff_state = "SENDING_ACK"
                            ELSE /\ d.ballots[i].ff_state = "SENDING_NACK"
                                 /\ d.ballots[i].last_ack_nack = "NACK"
            /\ \A i \in W : sess[i].node_id \in q =>
                 d.ballots[i].last_ack_nack =
                   IF d.cluster.state = "SENDING_NACKS" THEN b[i].last_ack_nack ELSE "ACK"
            /\ \A i \in A \ W : /\ d.ballots[i].ff_state = "WAITING_FOR_CHANGE"
                                /\ d.ballots[i].last_ack_nack = b[i].last_ack_nack
            /\ d.cluster.state \in {"SENDING_NACKS", "SENDING_ACKS", "WAITING_FOR_CHANGE"}
            /\ d.cluster.state = "SENDING_NACKS"
                 <=> \E i \in W : d.ballots[i].ff_state = "SENDING_NACK"
            /\ d.cluster.state = "SENDING_ACKS"
                 => \E i \in W : d.ballots[i].ff_state = "SENDING_ACK"
            /\ \A i \in A :
                 d.ballots[i].vote_info_seq # b[i].vote_info_seq
                   => d.ballots[i].last_ack_nack =
                        IF d.cluster.state = "SENDING_NACKS" THEN "NACK" ELSE "ACK"

\* ffsplit_do decides as Decided says.
LEMMA FfsplitDo ==
  ASSUME NEW p, NEW b \in [Slots -> Ballot], NEW cl \in Cluster,
         p.eff \in [Slots -> View], p.active \in SUBSET Slots, p.walked \in SUBSET p.active
  PROVE  Decided(p.sess, p.active, p.walked, b, cl, ffsplit_do(p, b, cl))
<1> DEFINE winner == ffsplit_select_partition(p)
           u == ffsplit_update_states(p, b, winner)
           nacked == In_state(p.walked, u, "SENDING_NACK")
           acked == In_state(p.walked, u, "SENDING_ACK")
           vote == IF nacked # {} THEN "NACK" ELSE "ACK"
           s == ffsplit_send_votes(p, u, vote)
           st == IF nacked # {} THEN "SENDING_NACKS"
                 ELSE IF acked # {} THEN "SENDING_ACKS" ELSE "WAITING_FOR_CHANGE"
           d == ffsplit_do(p, b, cl)
<1>1. winner \in SUBSET NodeIds
  BY SelectType
<1>2. CASE ~ffsplit_is_stable(p)
  <2>1. d = [ballots |-> b,
             cluster |-> [cl EXCEPT !.state = "WAITING_FOR_STABLE_MEMBERSHIP"]]
    BY <1>2 DEF ffsplit_do
  <2>2. /\ d.ballots = b
        /\ d.cluster \in Cluster
        /\ d.cluster.used = cl.used /\ d.cluster.name = cl.name
        /\ d.cluster.members = cl.members
        /\ d.cluster.quorate_partition = cl.quorate_partition
        /\ d.cluster.state = "WAITING_FOR_STABLE_MEMBERSHIP"
    <3>1. "WAITING_FOR_STABLE_MEMBERSHIP" \in FfClusterState
      BY DEF FfClusterState
    <3>2. d.ballots = b
      BY <2>1
    <3>3. d.cluster = [cl EXCEPT !.state = "WAITING_FOR_STABLE_MEMBERSHIP"]
      BY <2>1, SMTT(90)
    <3> HIDE DEF d
    <3> QED BY <3>1, <3>2, <3>3 DEF Cluster
  <2> HIDE DEF d
  <2> QED
    BY <2>2 DEF d, Decided
<1>3. CASE ffsplit_is_stable(p)
  <2>1. d = [ballots |-> s,
             cluster |-> [[cl EXCEPT !.quorate_partition = winner] EXCEPT !.state = st]]
    BY <1>3 DEF ffsplit_do, first_votes
  <2>2. /\ d.ballots = s
        /\ d.cluster \in Cluster
        /\ d.cluster.used = cl.used /\ d.cluster.name = cl.name
        /\ d.cluster.members = cl.members
        /\ d.cluster.quorate_partition = winner
        /\ d.cluster.state = st
    <3>1. st \in FfClusterState
      BY DEF FfClusterState
    <3> HIDE DEF winner, s, st
    <3>2. d.ballots = s
      BY <2>1
    <3>3. d.cluster = [[cl EXCEPT !.quorate_partition = winner] EXCEPT !.state = st]
      BY <2>1
    <3> HIDE DEF d
    <3> QED BY <3>1, <3>2, <3>3, <1>1, ZenonT(90) DEF Cluster
  <2> HIDE DEF d, winner
  <2>3. /\ u \in [Slots -> Ballot]
        /\ \A i \in Slots \ p.active : u[i] = b[i]
        /\ \A i \in Slots : /\ u[i].vote_info_seq = b[i].vote_info_seq
                            /\ u[i].last_ack_nack = b[i].last_ack_nack
        /\ \A i \in p.walked :
             u[i].ff_state = IF p.sess[i].node_id \in winner THEN "SENDING_ACK"
                             ELSE "SENDING_NACK"
        /\ \A i \in p.active \ p.walked : u[i].ff_state = "WAITING_FOR_CHANGE"
    BY UpdateStates
  <2> HIDE DEF u
  <2>4. vote \in {"ACK", "NACK"}
    OBVIOUS
  <2>5. LET x == IF vote = "ACK" THEN "SENDING_ACK" ELSE "SENDING_NACK"
        IN  /\ s \in [Slots -> Ballot]
            /\ \A i \in Slots : s[i].ff_state = u[i].ff_state
            /\ \A i \in Slots : i \in p.walked /\ u[i].ff_state = x =>
                  s[i].last_ack_nack = vote
            /\ \A i \in Slots : ~(i \in p.walked /\ u[i].ff_state = x) => s[i] = u[i]
    <3> HIDE DEF vote
    <3> QED BY <2>3, <2>4, SendVotes
  <2> HIDE DEF s
  <2>6. \A i \in p.walked : p.sess[i].node_id \notin winner => nacked # {}
    BY <2>3 DEF In_state
  <2>7. nacked # {} <=> \E i \in p.walked : s[i].ff_state = "SENDING_NACK"
    BY <2>5 DEF In_state
  <2>8. acked # {} => \E i \in p.walked : s[i].ff_state = "SENDING_ACK"
    BY <2>5 DEF In_state
  <2> HIDE DEF nacked, acked
  <2>9. \A i \in p.walked :
          IF p.sess[i].node_id \in winner
          THEN s[i].ff_state = "SENDING_ACK"
          ELSE s[i].ff_state = "SENDING_NACK" /\ s[i].last_ack_nack = "NACK"
    BY <2>3, <2>5, <2>6
  <2>10. \A i \in p.active \ p.walked : /\ s[i].ff_state = "WAITING_FOR_CHANGE"
                                        /\ s[i].last_ack_nack = b[i].last_ack_nack
    BY <2>3, <2>5
  <2>11. \A i \in Slots \ p.active : s[i] = b[i]
    BY <2>3, <2>5
  <2>12. \A i \in p.active :
           s[i].vote_info_seq # b[i].vote_info_seq
             => s[i].last_ack_nack = IF st = "SENDING_NACKS" THEN "NACK" ELSE "ACK"
    BY <2>3, <2>5
  <2>13. \A i \in p.walked :
           p.sess[i].node_id \in winner =>
             s[i].last_ack_nack = IF st = "SENDING_NACKS" THEN b[i].last_ack_nack ELSE "ACK"
    BY <2>3, <2>5, SMTT(90)
  <2> QED
    BY <2>2, <2>5, <2>7, <2>8, <2>9, <2>10, <2>11, <2>12, <2>13, SMTT(90) DEF d, Decided
<1> QED
  BY <1>2, <1>3

-----------------------------------------------------------------------------
(***************************************************************************)
(* The tables.                                                             *)
(***************************************************************************)

\* Sets of slots are finite and no larger than the session table.
LEMMA SlotSets ==
  ASSUME NEW S \in SUBSET Slots
  PROVE  IsFiniteSet(S) /\ Cardinality(S) \in 0 .. MAX_CLIENTS
<1>1. IsFiniteSet(Slots) /\ Cardinality(Slots) = MAX_CLIENTS
  BY FS_Interval, ClientsAssumption DEF Slots
<1>2. IsFiniteSet(S) /\ Cardinality(S) <= MAX_CLIENTS
  BY <1>1, FS_Subset
<1> QED
  BY <1>2, FS_CardinalityType, ClientsAssumption

\* The clients that a decision triggered by slot i visits.
Walked(i, leaving) ==
  {j \in ClientsOf(sessions[i].cluster) : ~skip_in_cluster_walk(j, i, leaving)}

\* The decision a member triggers, by a report or by leaving, is one that
\* Decided describes.
LEMMA DecisionFacts ==
  ASSUME TypeOK, TablesAgree, NEW i \in Slots, Active(i), NEW leaving \in BOOLEAN, NEW v \in View
  PROVE  LET c == sessions[i].cluster
         IN  Decided(sessions, ClientsOf(c), Walked(i, leaving), ballots, clusters[c],
                     Decision(i, leaving, v))
<1> DEFINE c == sessions[i].cluster
           p == Poll(i, leaving, v)
<1>1. c \in ClusterIds /\ clusters[c] \in Cluster /\ ballots \in [Slots -> Ballot]
  BY DEF TypeOK, TablesAgree
<1>2. /\ p.sess = sessions
      /\ p.active = ClientsOf(c)
      /\ p.walked = Walked(i, leaving)
      /\ p.eff = IF leaving THEN views ELSE [views EXCEPT ![i] = v]
  BY DEF Poll, Walked
<1>3. p.eff \in [Slots -> View]
  BY <1>2 DEF TypeOK
<1>4. p.active \in SUBSET Slots /\ p.walked \in SUBSET p.active
  BY <1>2 DEF ClientsOf, Walked
<1>5. Decision(i, leaving, v) = ffsplit_do(p, ballots, clusters[c])
  BY DEF Decision
<1> HIDE DEF p, c
<1>6. Decided(p.sess, p.active, p.walked, ballots, clusters[c], ffsplit_do(p, ballots, clusters[c]))
  BY <1>1, <1>3, <1>4, FfsplitDo, ZenonT(90)
<1> QED
  BY <1>2, <1>5, <1>6, SMTT(90) DEF c

\* Steps that move no session into or out of a cluster.
LEMMA SameTables ==
  ASSUME TypeOK, TablesAgree,
         \A j \in Slots :
           /\ Active(j)' <=> Active(j)
           /\ sessions'[j].cluster = sessions[j].cluster
           /\ Active(j) => sessions'[j].cluster_name = sessions[j].cluster_name,
         \A c \in ClusterIds :
           /\ clusters'[c].used = clusters[c].used
           /\ clusters'[c].name = clusters[c].name
           /\ clusters'[c].members = clusters[c].members
  PROVE  TablesAgree' /\ \A c \in ClusterIds : ClientsOf(c)' = ClientsOf(c)
<1>1. \A c \in ClusterIds : ClientsOf(c)' = ClientsOf(c)
  BY DEF ClientsOf, Active
<1> QED
  BY <1>1 DEF TablesAgree, Active

\* A report that runs ffsplit keeps the tables in order.
LEMMA RunFfsplitTables ==
  ASSUME TypeOK, TablesAgree, NEW i \in Slots, Active(i), NEW v \in View,
         RunFfsplit(i, v), UNCHANGED sessions, views' = [views EXCEPT ![i] = v]
  PROVE  TypeOK' /\ TablesAgree'
<1> DEFINE c == sessions[i].cluster
           d == Decision(i, FALSE, v)
<1>1. c \in ClusterIds
  BY DEF TablesAgree
<1>2. ballots' = d.ballots /\ clusters' = [clusters EXCEPT ![c] = d.cluster]
  BY DEF RunFfsplit
<1>3. Decided(sessions, ClientsOf(c), Walked(i, FALSE), ballots, clusters[c], d)
  BY DecisionFacts, ZenonT(90)
<1> HIDE DEF c, d
<1>4. /\ d.ballots \in [Slots -> Ballot] /\ d.cluster \in Cluster
      /\ d.cluster.used = clusters[c].used
      /\ d.cluster.name = clusters[c].name
      /\ d.cluster.members = clusters[c].members
  BY <1>3 DEF Decided
<1>5. TypeOK'
  BY <1>1, <1>2, <1>4 DEF TypeOK
<1>6. TablesAgree'
  BY <1>1, <1>2, <1>4, SameTables DEF TypeOK, Active
<1> QED
  BY <1>5, <1>6

\* A session that joins cluster c under its own name.
LEMMA JoinTables ==
  ASSUME TypeOK, TablesAgree, NEW i \in Slots, ~Active(i),
         NEW c \in find_or_create_cluster(sessions[i].cluster_name),
         NEW s \in Session, s.phase = "ACTIVE", s.cluster = c,
         s.cluster_name = sessions[i].cluster_name,
         sessions' = [sessions EXCEPT ![i] = s],
         clusters' = [clusters EXCEPT ![c] = joined(clusters[c], sessions[i].cluster_name)],
         UNCHANGED ballots, views' \in [Slots -> View]
  PROVE  TypeOK' /\ TablesAgree'
<1> DEFINE name == sessions[i].cluster_name
           cl == joined(clusters[c], name)
<1>1. /\ c \in ClusterIds
      /\ clusters[c].used => clusters[c].name = name
      /\ ~clusters[c].used => \A e \in ClusterIds : clusters[e].used => clusters[e].name # name
  BY SMTT(90) DEF find_or_create_cluster, First
<1>2. /\ ClientsOf(c)' = ClientsOf(c) \cup {i}
      /\ i \notin ClientsOf(c)
      /\ \A e \in ClusterIds \ {c} : ClientsOf(e)' = ClientsOf(e)
  BY <1>1, SMTT(90) DEF ClientsOf, Active, TypeOK, TablesAgree
<1>3. /\ ClientsOf(c) \in SUBSET Slots /\ ClientsOf(c)' \in SUBSET Slots
      /\ IsFiniteSet(ClientsOf(c))
  BY SlotSets, SMTT(90) DEF ClientsOf
<1>4. /\ Cardinality(ClientsOf(c)') = Cardinality(ClientsOf(c)) + 1
      /\ Cardinality(ClientsOf(c)) \in Nat
      /\ Cardinality(ClientsOf(c)') \in 0 .. MAX_CLIENTS
  BY <1>2, <1>3, SlotSets, FS_AddElement, FS_CardinalityType, SMTT(90)
<1>5. /\ cl.used /\ cl.name = name
      /\ cl.members = Cardinality(ClientsOf(c)')
      /\ cl \in Cluster
  <2>1. /\ clusters[c] \in Cluster /\ name \in Names \cup {NoName}
        /\ clusters[c].members = Cardinality(ClientsOf(c))
        /\ clusters[c].used <=> clusters[c].members > 0
    BY <1>1 DEF TypeOK, TablesAgree, Session
  <2>2. CASE clusters[c].used /\ clusters[c].members > 0
    <3>1. cl = [clusters[c] EXCEPT !.members = clusters[c].members + 1]
      BY <2>2 DEF joined
    <3> HIDE DEF cl
    <3> QED
      BY <1>1, <1>4, <2>1, <2>2, <3>1, SMTT(90) DEF Cluster
  <2>3. CASE ~(clusters[c].used /\ clusters[c].members > 0)
    <3>1. cl = [NewCluster EXCEPT !.used = TRUE, !.name = name, !.members = 1]
      BY <2>3 DEF joined
    <3>2. Cardinality(ClientsOf(c)') = 1
      BY <1>4, <2>1, <2>3
    <3> HIDE DEF cl
    <3> QED
      BY <1>4, <2>1, <3>1, <3>2, ZenonT(90) DEF Cluster, NewCluster, FfClusterState
  <2> QED
    BY <2>2, <2>3, SMTT(90)
<1> HIDE DEF cl, name
<1>6. TypeOK'
  BY <1>1, <1>5, ZenonT(90) DEF TypeOK, cl, name
<1>7. \A e \in ClusterIds : clusters'[e] = IF e = c THEN cl ELSE clusters[e]
  BY <1>1 DEF TypeOK, cl, name
<1>8. \A e \in ClusterIds : /\ clusters'[e].members = Cardinality(ClientsOf(e)')
                            /\ clusters'[e].used <=> clusters'[e].members > 0
  <2> TAKE e \in ClusterIds
  <2>1. CASE e = c
    BY <1>4, <1>5, <1>7, <2>1, SMTT(90)
  <2>2. CASE e # c
    <3>1. clusters'[e] = clusters[e] /\ ClientsOf(e)' = ClientsOf(e)
      BY <1>2, <1>7, <2>2, SMTT(90)
    <3> QED
      BY <3>1 DEF TablesAgree
  <2> QED
    BY <2>1, <2>2
<1>9. \A j \in Slots : IF Active(j)'
                       THEN /\ sessions'[j].cluster \in ClusterIds
                            /\ clusters'[sessions'[j].cluster].name = sessions'[j].cluster_name
                       ELSE sessions'[j].cluster = NoCluster
  <2> TAKE j \in Slots
  <2>1. CASE j = i
    BY <2>1, <1>1, <1>5, <1>7, SMTT(90) DEF TypeOK, Active, name
  <2>2. CASE j # i
    <3>1. sessions'[j] = sessions[j]
      BY <2>2, SMTT(90) DEF TypeOK
    <3>0. /\ Active(j)' <=> Active(j)
          /\ IF Active(j) THEN /\ sessions[j].cluster \in ClusterIds
                               /\ clusters[sessions[j].cluster].name = sessions[j].cluster_name
                          ELSE sessions[j].cluster = NoCluster
      BY <3>1, ZenonT(90) DEF TablesAgree, Active
    <3>2. CASE Active(j) /\ sessions[j].cluster = c
      <4>1. j \in ClientsOf(c)
        BY <3>2, SMTT(90) DEF ClientsOf
      <4>2. clusters[c].used /\ clusters[c].members > 0
        BY <1>1, <1>3, <1>4, <4>1, FS_EmptySet, SMTT(90) DEF TablesAgree
      <4> QED
        BY <1>1, <1>5, <1>7, <3>0, <3>1, <3>2, <4>2, SMTT(90) DEF name
    <3>3. CASE ~(Active(j) /\ sessions[j].cluster = c)
      BY <1>7, <3>0, <3>1, <3>3, ZenonT(90)
    <3> QED
      BY <3>2, <3>3
  <2> QED
    BY <2>1, <2>2, SMTT(90)
<1>10. \A e, f \in ClusterIds :
         clusters'[e].used /\ clusters'[f].used /\ clusters'[e].name = clusters'[f].name => e = f
  <2>1. \A e, f \in ClusterIds :
          clusters[e].used /\ clusters[f].used /\ clusters[e].name = clusters[f].name => e = f
    BY ZenonT(90) DEF TablesAgree
  <2> QED
    BY <1>1, <1>5, <1>7, <2>1, SMTT(90) DEF name
<1> QED
  BY <1>6, <1>8, <1>9, <1>10, ZenonT(90) DEF TablesAgree

\* Default-constructed structs have values of their types.
LEMMA NewTypes ==
  /\ NewSession \in Session /\ NewView \in View /\ NewBallot \in Ballot /\ NewCluster \in Cluster
BY ClientsAssumption, SeqAssumption
   DEF NewSession, NewView, NewBallot, NewCluster, Session, View, Ballot, Cluster, TieBreaker,
       Heuristics, FfClientState, FfClusterState

\* A session that leaves its cluster: its entry keeps name and state of the
\* decision d that the leaving triggers, or is cleared.
LEMMA LeaveTables ==
  ASSUME TypeOK, TablesAgree, NEW i \in Slots, EndSession(i)
  PROVE  TypeOK' /\ TablesAgree'
<1> USE DEF EndSession
<1>1. /\ NewSession \in Session /\ NewView \in View /\ NewBallot \in Ballot
      /\ NewCluster \in Cluster
  BY NewTypes
<1>2. sessions' \in [Slots -> Session] /\ views' \in [Slots -> View]
  BY <1>1 DEF TypeOK
<1>3. CASE ~Active(i)
  <2>1. ballots' = [ballots EXCEPT ![i] = NewBallot] /\ UNCHANGED clusters
    BY <1>3 DEF leave_cluster
  <2>2. TypeOK'
    BY <1>1, <1>2, <2>1, SMTT(90) DEF TypeOK
  <2>3. TablesAgree'
    BY <1>3, <2>1, SameTables, SMTT(90) DEF TypeOK, TablesAgree, Active, NewSession
  <2> QED
    BY <2>2, <2>3
<1>4. CASE Active(i)
  <2>1. PICK c \in ClusterIds : c = sessions[i].cluster /\ c # NoCluster
    BY <1>4, SMTT(90) DEF TablesAgree, ClusterIds, NoCluster
  <2> DEFINE d == Decision(i, TRUE, views[i])
             cl == IF d.cluster.members <= 1 THEN NewCluster
                   ELSE [d.cluster EXCEPT !.members = d.cluster.members - 1]
  <2>2. /\ ballots' = [d.ballots EXCEPT ![i] = NewBallot]
        /\ clusters' = [clusters EXCEPT ![c] = cl]
    BY <1>4, <2>1, ZenonT(90) DEF leave_cluster
  <2>3. Decided(sessions, ClientsOf(c), Walked(i, TRUE), ballots, clusters[c], d)
    BY <1>4, <2>1, DecisionFacts, ZenonT(90) DEF TypeOK
  <2> HIDE DEF d
  <2>4. /\ d.ballots \in [Slots -> Ballot] /\ d.cluster \in Cluster
        /\ d.cluster.used = clusters[c].used
        /\ d.cluster.name = clusters[c].name
        /\ d.cluster.members = clusters[c].members
    BY <2>3 DEF Decided
  <2>5. /\ i \in ClientsOf(c)
        /\ ClientsOf(c)' = ClientsOf(c) \ {i}
        /\ \A e \in ClusterIds \ {c} : ClientsOf(e)' = ClientsOf(e)
    <3>1. \A j \in Slots : sessions'[j] = IF j = i THEN NewSession ELSE sessions[j]
      BY SMTT(90) DEF TypeOK
    <3>2. NewSession.phase # "ACTIVE"
      BY DEF NewSession
    <3>3. QED
      <4>1. i \in ClientsOf(c)
        BY <1>4, <2>1, SMTT(90) DEF ClientsOf
      <4>2. \A e \in ClusterIds : ClientsOf(e)' = ClientsOf(e) \ {i}
        BY <3>1, <3>2, SMTT(90) DEF ClientsOf, Active
      <4>3. \A e \in ClusterIds \ {c} : i \notin ClientsOf(e)
        BY <2>1 DEF ClientsOf
      <4> QED
        BY <2>1, <4>1, <4>2, <4>3, SMTT(90)
  <2>6. ClientsOf(c) \in SUBSET Slots /\ IsFiniteSet(ClientsOf(c))
    BY SlotSets, SMTT(90) DEF ClientsOf
  <2>7. /\ Cardinality(ClientsOf(c)') = Cardinality(ClientsOf(c)) - 1
        /\ Cardinality(ClientsOf(c)) \in 1 .. MAX_CLIENTS
    BY <2>5, <2>6, SlotSets, FS_RemoveElement, FS_EmptySet, SMTT(90)
  <2>8. clusters[c].members = Cardinality(ClientsOf(c)) /\ clusters[c].used
    BY <2>1, <2>7, SMTT(90) DEF TablesAgree
  <2>9. /\ cl \in Cluster
        /\ cl.members = Cardinality(ClientsOf(c)')
        /\ cl.used <=> cl.members > 0
        /\ cl.used => cl.name = clusters[c].name
    <3>1. CASE d.cluster.members <= 1
      BY <1>1, <2>4, <2>7, <2>8, <3>1, SMTT(90) DEF NewCluster
    <3>2. CASE ~(d.cluster.members <= 1)
      <4>1. cl = [d.cluster EXCEPT !.members = d.cluster.members - 1]
        BY <3>2, SMTT(90)
      <4> HIDE DEF cl
      <4> QED
        <5>1. cl.members = clusters[c].members - 1 /\ cl.used = clusters[c].used
          BY <2>4, <4>1, SMTT(90) DEF Cluster
        <5>2. cl.members \in 1 .. MAX_CLIENTS
          BY <2>4, <2>7, <2>8, <3>2, <5>1, ClientsAssumption, SMTT(90)
        <5>3. cl \in Cluster /\ cl.name = clusters[c].name
          <6>1. d.cluster.members - 1 \in 0 .. MAX_CLIENTS
            BY <2>4, <2>7, <2>8, <3>2, ClientsAssumption, SMTT(90)
          <6> QED
            BY <2>4, <4>1, <6>1, SMTT(90) DEF Cluster
        <5> QED
          BY <2>7, <2>8, <5>1, <5>2, <5>3, ClientsAssumption, SMTT(90)
    <3> QED
      BY <3>1, <3>2
  <2> HIDE DEF cl
  <2>10. TypeOK'
    BY <1>1, <1>2, <2>1, <2>2, <2>4, <2>9, SMTT(90) DEF TypeOK
  <2>11. \A e \in ClusterIds : clusters'[e] = IF e = c THEN cl ELSE clusters[e]
    BY <2>1, <2>2, SMTT(90) DEF TypeOK
  <2>12. \A e \in ClusterIds : /\ clusters'[e].members = Cardinality(ClientsOf(e)')
                               /\ clusters'[e].used <=> clusters'[e].members > 0
    <3> TAKE e \in ClusterIds
    <3>1. CASE e = c
      BY <2>9, <2>11, <3>1, SMTT(90)
    <3>2. CASE e # c
      <4>1. clusters'[e] = clusters[e] /\ ClientsOf(e)' = ClientsOf(e)
        BY <2>5, <2>11, <3>2, SMTT(90)
      <4>2. /\ clusters[e].members = Cardinality(ClientsOf(e))
            /\ clusters[e].used <=> clusters[e].members > 0
        BY SMTT(90) DEF TablesAgree
      <4> QED
        BY <4>1, <4>2, SMTT(90)
    <3> QED
      BY <3>1, <3>2, SMTT(90)
  <2>13. \A j \in Slots : IF Active(j)'
                          THEN /\ sessions'[j].cluster \in ClusterIds
                               /\ clusters'[sessions'[j].cluster].name = sessions'[j].cluster_name
                          ELSE sessions'[j].cluster = NoCluster
    <3> TAKE j \in Slots
    <3>1. CASE j = i
      BY <3>1, SMTT(90) DEF TypeOK, Active, NewSession
    <3>2. CASE j # i
      <4>1. sessions'[j] = sessions[j]
        BY <3>2, SMTT(90) DEF TypeOK
      <4>0. /\ Active(j)' <=> Active(j)
            /\ IF Active(j) THEN /\ sessions[j].cluster \in ClusterIds
                                 /\ clusters[sessions[j].cluster].name = sessions[j].cluster_name
                            ELSE sessions[j].cluster = NoCluster
        BY <4>1, ZenonT(90) DEF TablesAgree, Active
      <4>2. CASE Active(j) /\ sessions[j].cluster = c
        <5>1. j \in ClientsOf(c)'
          BY <2>5, <3>2, <4>2, SMTT(90) DEF ClientsOf
        <5>2. Cardinality(ClientsOf(c)') > 0
          BY <2>5, <2>6, <2>7, <5>1, FS_EmptySet, FS_Subset, SMTT(90)
        <5> QED
          BY <2>1, <2>9, <2>11, <4>0, <4>1, <4>2, <5>2, SMTT(90)
      <4>3. CASE ~(Active(j) /\ sessions[j].cluster = c)
        BY <2>11, <4>0, <4>1, <4>3, ZenonT(90)
      <4> QED
        BY <4>2, <4>3, SMTT(90)
    <3> QED
      BY <3>1, <3>2, SMTT(90)
  <2>14. \A e, f \in ClusterIds :
           clusters'[e].used /\ clusters'[f].used /\ clusters'[e].name = clusters'[f].name => e = f
    <3>1. \A e, f \in ClusterIds :
            clusters[e].used /\ clusters[f].used /\ clusters[e].name = clusters[f].name => e = f
      BY ZenonT(90) DEF TablesAgree
    <3> QED
      BY <2>1, <2>8, <2>9, <2>11, <3>1, SMTT(90)
  <2> QED
    BY <2>10, <2>12, <2>13, <2>14, ZenonT(90) DEF TablesAgree
<1> QED
  BY <1>3, <1>4

\* What handle_init stores in the session is a session in the same phase, with
\* the same name and cluster.
LEMMA InitStores ==
  ASSUME TypeOK, NEW i \in Slots, NEW m \in InitMsgs
  PROVE  LET s == init_stores(i, m)
         IN  /\ s \in Session
             /\ s.phase = sessions[i].phase
             /\ s.cluster = sessions[i].cluster
             /\ s.cluster_name = sessions[i].cluster_name
             /\ init_stores_ring(i, m) \in RingIds \cup {NoRing}
<1>1. /\ m.node_id \in NodeIds \cup {NoNode}
      /\ m.ring_id \in RingIds \cup {NoRing}
      /\ m.tie_breaker \in TieBreaker \cup {NoTieBreaker}
  BY InputsAssumption DEF InitMsg
<1>2. has_tie_breaker(i, m) => m.tie_breaker \in TieBreaker
  BY <1>1 DEF has_tie_breaker
<1>3. sessions[i] \in Session /\ views[i].last_ring_id \in RingIds \cup {NoRing}
  BY DEF TypeOK, View
<1> QED
  BY <1>1, <1>2, <1>3, ZenonT(90) DEF init_stores, init_stores_ring, Session

\* An INIT, accepted or refused, first or repeated, keeps the tables in order.
LEMMA InitTables ==
  ASSUME TypeOK, TablesAgree, NEW i \in Slots, NEW m \in InitMsgs, handle_init(i, m)
  PROVE  TypeOK' /\ TablesAgree'
<1> DEFINE s == init_stores(i, m)
<1>1. /\ s \in Session
      /\ s.phase = sessions[i].phase /\ s.cluster = sessions[i].cluster
      /\ s.cluster_name = sessions[i].cluster_name
      /\ init_stores_ring(i, m) \in RingIds \cup {NoRing}
  BY InitStores
<1>2. views' \in [Slots -> View] /\ UNCHANGED ballots
  <2>1. views' = [views EXCEPT ![i].last_ring_id = init_stores_ring(i, m)] /\ UNCHANGED ballots
    BY ZenonT(90) DEF handle_init
  <2> QED
    BY <1>1, <2>1, SMTT(90) DEF TypeOK, View
<1> HIDE DEF s
<1>3. CASE sessions' = [sessions EXCEPT ![i] = s] /\ UNCHANGED clusters
  <2>1. TypeOK'
    BY <1>1, <1>2, <1>3, SMTT(90) DEF TypeOK
  <2>2. TablesAgree'
    BY <1>1, <1>3, SameTables, SMTT(90) DEF TypeOK, Active
  <2> QED
    BY <2>1, <2>2, SMTT(90)
<1>4. ASSUME NEW c \in init_joins(i, m),
             sessions' = [sessions EXCEPT ![i] = [s EXCEPT !.phase = "ACTIVE", !.cluster = c]],
             clusters' = [clusters EXCEPT ![c] = joined(clusters[c], sessions[i].cluster_name)]
      PROVE  TypeOK' /\ TablesAgree'
  <2>1. c \in find_or_create_cluster(sessions[i].cluster_name) /\ ~Active(i)
    BY <1>4 DEF init_joins, has_tie_breaker, has_ring_id, has_node_id, Active
  <2>2. c \in ClusterIds
    BY <2>1 DEF find_or_create_cluster, First
  <2> DEFINE t == [s EXCEPT !.phase = "ACTIVE", !.cluster = c]
  <2>3. /\ t \in Session /\ t.phase = "ACTIVE" /\ t.cluster = c
        /\ t.cluster_name = sessions[i].cluster_name
    BY <1>1, <2>2, ZenonT(90) DEF Session
  <2>4. sessions' = [sessions EXCEPT ![i] = t]
    BY <1>4
  <2> HIDE DEF t
  <2> QED
    BY <1>2, <1>4, <2>1, <2>3, <2>4, JoinTables, ZenonT(90)
<1> QED
  BY <1>3, <1>4, ZenonT(90) DEF handle_init, s

\* The empty tables are in order.
LEMMA TablesInit == Init => TypeOK /\ TablesAgree
<1> SUFFICES ASSUME Init PROVE TypeOK /\ TablesAgree
  OBVIOUS
<1>1. TypeOK
  BY NewTypes DEF Init, TypeOK
<1>2. \A c \in ClusterIds : ClientsOf(c) = {}
  BY DEF Init, ClientsOf, Active, NewSession
<1>3. TablesAgree
  <2>1. \A i \in Slots : ~Active(i) /\ sessions[i].cluster = NoCluster
    BY SMTT(90) DEF Init, Active, NewSession
  <2>2. \A c \in ClusterIds : ~clusters[c].used /\ clusters[c].members = 0
    BY SMTT(90) DEF Init, NewCluster
  <2> QED
    BY <1>2, <2>1, <2>2, FS_EmptySet, SMTT(90) DEF TablesAgree
<1> QED
  BY <1>1, <1>3

\* Every step keeps them in order, one case per action.
LEMMA TablesStep == TypeOK /\ TablesAgree /\ [Next]_vars => TypeOK' /\ TablesAgree'
<1> SUFFICES ASSUME TypeOK, TablesAgree, [Next]_vars PROVE TypeOK' /\ TablesAgree'
  OBVIOUS
<1>1. CASE UNCHANGED vars
  <2>1. TypeOK'
    BY <1>1, SMTT(90) DEF vars, TypeOK
  <2>2. TablesAgree'
    BY <1>1, SameTables, SMTT(90) DEF vars, Active
  <2> QED
    BY <2>1, <2>2, SMTT(90)
<1>2. ASSUME NEW i \in Slots, on_connect(i) PROVE TypeOK' /\ TablesAgree'
  <2>1. /\ sessions[i].phase = "FREE"
        /\ sessions' = [sessions EXCEPT ![i] = [NewSession EXCEPT !.phase = "WAIT_PREINIT"]]
        /\ views' = [views EXCEPT ![i] = NewView]
        /\ ballots' = [ballots EXCEPT ![i] = NewBallot]
        /\ UNCHANGED clusters
    BY <1>2 DEF on_connect, First
  <2>2. [NewSession EXCEPT !.phase = "WAIT_PREINIT"] \in Session
    BY NewTypes DEF Session
  <2>3. TypeOK'
    BY <2>1, <2>2, NewTypes, SMTT(90) DEF TypeOK
  <2>4. TablesAgree'
    BY <2>1, SameTables DEF TypeOK, TablesAgree, Active, NewSession
  <2> QED
    BY <2>3, <2>4
<1>3. ASSUME NEW i \in Slots, EndSession(i) PROVE TypeOK' /\ TablesAgree'
  BY <1>3, LeaveTables
<1>4. ASSUME NEW i \in Slots, NEW n \in Names, handle_preinit(i, n)
      PROVE  TypeOK' /\ TablesAgree'
  <2>1. TypeOK'
    BY <1>4 DEF handle_preinit, TypeOK, Session
  <2>2. TablesAgree'
    BY <1>4, SameTables, SMTT(90) DEF handle_preinit, TypeOK, Session, Active
  <2> QED
    BY <2>1, <2>2
<1>5. ASSUME NEW i \in Slots, NEW m \in InitMsgs, handle_init(i, m)
      PROVE  TypeOK' /\ TablesAgree'
  BY <1>5, InitTables, SMTT(90)
<1>6. ASSUME NEW i \in Slots, NEW k \in KeepActiveOptions, handle_set_option(i, k)
      PROVE  TypeOK' /\ TablesAgree'
  <2>1. TypeOK'
    BY <1>6, InputsAssumption, SMTT(90) DEF handle_set_option, TypeOK, Session
  <2>2. TablesAgree'
    BY <1>6, SameTables DEF handle_set_option, TypeOK, Session, Active
  <2> QED
    BY <2>1, <2>2
<1>7. ASSUME NEW i \in Slots, Active(i), NEW v \in View, views' = [views EXCEPT ![i] = v],
             UNCHANGED sessions, RunFfsplit(i, v) \/ UNCHANGED <<ballots, clusters>>
      PROVE  TypeOK' /\ TablesAgree'
  <2>1. CASE RunFfsplit(i, v)
    BY <1>7, <2>1, RunFfsplitTables, ZenonT(90)
  <2>2. CASE UNCHANGED <<ballots, clusters>>
    <3>1. TypeOK'
      BY <1>7, <2>2 DEF TypeOK
    <3>2. TablesAgree'
      BY <1>7, <2>2, SameTables DEF Active
    <3> QED
      BY <3>1, <3>2
  <2> QED
    BY <1>7, <2>1, <2>2, SMTT(90)
<1>8. ASSUME NEW i \in Slots, NEW initial \in BOOLEAN, NEW l \in ConfigLists,
             handle_config_list(i, initial, l)
      PROVE  TypeOK' /\ TablesAgree'
  <2>1. [views[i] EXCEPT !.config_list = l] \in View
    BY InputsAssumption DEF TypeOK, View
  <2> QED
    BY <1>7, <1>8, <2>1, ZenonT(90) DEF handle_config_list
<1>9. ASSUME NEW i \in Slots, NEW m \in MembershipMsgs, handle_membership_list(i, m)
      PROVE  TypeOK' /\ TablesAgree'
  <2>1. [views[i] EXCEPT !.last_ring_id = m.ring_id, !.membership_list = m.nodes,
                         !.last_heuristics = m.heuristics] \in View
    <3>1. m.ring_id \in RingIds /\ m.nodes \in SUBSET NodeIds /\ m.heuristics \in Heuristics
      BY InputsAssumption DEF MembershipMsg
    <3>2. views[i] \in View
      BY DEF TypeOK
    <3> QED
      BY <3>1, <3>2, ZenonT(90) DEF View
  <2> QED
    BY <1>7, <1>9, <2>1, ZenonT(90) DEF handle_membership_list
<1>10. ASSUME NEW i \in Slots, NEW h \in HeuristicsChanges, handle_heuristics_change(i, h)
       PROVE  TypeOK' /\ TablesAgree'
  <2>1. [views[i] EXCEPT !.last_heuristics = h] \in View
    BY InputsAssumption DEF TypeOK, View
  <2> QED
    BY <1>7, <1>10, <2>1, ZenonT(90) DEF handle_heuristics_change
<1>11. ASSUME NEW i \in Slots, NEW q \in 0 .. SEQ_MOD - 1, handle_vote_info_reply(i, q)
       PROVE  TypeOK' /\ TablesAgree'
  <2> DEFINE c == sessions[i].cluster
             b == [ballots EXCEPT ![i].ff_state = "WAITING_FOR_CHANGE"]
             s == ffsplit_send_votes(Poll(i, FALSE, views[i]), b, "ACK")
  <2>1. c \in ClusterIds /\ UNCHANGED <<sessions, views>>
    BY <1>11 DEF handle_vote_info_reply, TablesAgree
  <2>2. b \in [Slots -> Ballot]
    BY DEF TypeOK, Ballot, FfClientState
  <2>3. s \in [Slots -> Ballot]
    <3> HIDE DEF b
    <3> QED BY <2>2, SendVotes, ZenonT(90)
  <2>4. ballots' = b \/ ballots' = s
    BY <1>11, ZenonT(90) DEF handle_vote_info_reply
  <2>5. \E st \in FfClusterState : clusters' = [clusters EXCEPT ![c].state = st]
    BY <1>11, <2>1, ZenonT(90) DEF handle_vote_info_reply, TypeOK, Cluster, FfClusterState
  <2> HIDE DEF b, s, c
  <2>6. TypeOK'
    BY <2>1, <2>2, <2>3, <2>4, <2>5, SMTT(90) DEF TypeOK, Cluster
  <2>7. TablesAgree'
    BY <2>1, <2>5, SameTables DEF TypeOK, Active, Cluster
  <2> QED
    BY <2>6, <2>7
<1> QED
  BY <1>1, <1>2, <1>3, <1>4, <1>5, <1>6, <1>8, <1>9, <1>10, <1>11, SMTT(90)
     DEF Next, Receive, on_disconnected, disconnect_client

\* Every field keeps a value of its type and every member count stays within
\* the session table, for any table sizes, names and messages.
THEOREM TypeCorrect == Spec => []TypeOK
<1>1. Spec => [](TypeOK /\ TablesAgree)
  BY TablesInit, TablesStep, PTL DEF Spec
<1> QED
  BY <1>1, PTL

\* The session table and the cluster table never disagree: no sequence of
\* joins, refused INITs (repeated ones included) and leaves strands a cluster
\* entry, miscounts its members or gives one name two entries.
THEOREM TablesCorrect == Spec => []TablesAgree
<1>1. Spec => [](TypeOK /\ TablesAgree)
  BY TablesInit, TablesStep, PTL DEF Spec
<1> QED
  BY <1>1, PTL

-----------------------------------------------------------------------------
(***************************************************************************)
(* The tie breakers.                                                       *)
(***************************************************************************)

\* Steps that let nobody join and change no member's tie breaker.
LEMMA SameTieBreakers ==
  ASSUME TieBreakersAgree,
         \A j \in Slots : Active(j)' => /\ Active(j)
                                        /\ sessions'[j].cluster = sessions[j].cluster
                                        /\ sessions'[j].tie_breaker = sessions[j].tie_breaker
  PROVE  TieBreakersAgree'
BY DEF TieBreakersAgree, same_tie_breaker

\* A client that joins has the tie breaker of the members it finds: they are
\* ACTIVE under the name it announced, so handle_init has compared them.
LEMMA JoinTieBreakers ==
  ASSUME TypeOK, TablesAgree, TieBreakersAgree, NEW i \in Slots, NEW m \in InitMsgs,
         NEW c \in init_joins(i, m),
         sessions' = [sessions EXCEPT ![i] =
                        [init_stores(i, m) EXCEPT !.phase = "ACTIVE", !.cluster = c]]
  PROVE  TieBreakersAgree'
<1> DEFINE s == init_stores(i, m)
           name == sessions[i].cluster_name
<1>1. /\ s \in Session /\ s.phase = sessions[i].phase /\ s.cluster_name = name
      /\ has_tie_breaker(i, m) /\ fits_cluster(i, s)
      /\ c \in find_or_create_cluster(name)
  BY InitStores DEF init_joins
<1>2. c \in ClusterIds /\ (clusters[c].used => clusters[c].name = name)
  BY <1>1 DEF find_or_create_cluster, First
<1>3. ASSUME NEW j \in Slots, j # i, Active(j), sessions[j].cluster = c
      PROVE  same_tie_breaker(s.tie_breaker, sessions[j].tie_breaker)
  <2>1. clusters[c].name = sessions[j].cluster_name
    BY <1>3 DEF TablesAgree
  <2>2. j \in ClientsOf(c)
    BY <1>3 DEF ClientsOf
  <2>3. clusters[c].used
    <3>1. IsFiniteSet(ClientsOf(c)) /\ Cardinality(ClientsOf(c)) \in Nat
      BY SlotSets, FS_CardinalityType DEF ClientsOf
    <3>2. Cardinality(ClientsOf(c)) # 0
      BY <2>2, <3>1, FS_EmptySet
    <3> QED
      BY <1>2, <3>1, <3>2, SMTT(90) DEF TablesAgree
  <2> QED
    BY <1>1, <1>2, <1>3, <2>1, <2>3, SMTT(90) DEF fits_cluster
<1>4. /\ sessions'[i].cluster = c /\ sessions'[i].tie_breaker = s.tie_breaker
      /\ \A j \in Slots \ {i} : sessions'[j] = sessions[j]
  <2>1. sessions'[i] = [s EXCEPT !.phase = "ACTIVE", !.cluster = c]
    BY DEF TypeOK
  <2> HIDE DEF s
  <2> DEFINE t == [s EXCEPT !.phase = "ACTIVE", !.cluster = c]
  <2>2. s \in Session
    BY <1>1
  <2>3. t.cluster = c /\ t.tie_breaker = s.tie_breaker
    BY <2>2 DEF Session
  <2>4. sessions'[i] = t
    BY <2>1
  <2> HIDE DEF t
  <2>5. sessions'[i].cluster = c /\ sessions'[i].tie_breaker = s.tie_breaker
    BY <2>3, <2>4, ZenonT(90)
  <2> QED
    BY <2>5 DEF TypeOK
<1> HIDE DEF s
<1>5. SUFFICES ASSUME NEW j \in Slots, NEW k \in Slots, Active(j)', Active(k)',
                      sessions'[j].cluster = sessions'[k].cluster
               PROVE  same_tie_breaker(sessions'[j].tie_breaker, sessions'[k].tie_breaker)
  BY DEF TieBreakersAgree, same_tie_breaker
<1>6. CASE j # i /\ k # i
  BY <1>4, <1>5, <1>6 DEF TieBreakersAgree, Active
<1>7. CASE j = i /\ k = i
  BY <1>7 DEF same_tie_breaker
<1>8. CASE j = i /\ k # i
  BY <1>3, <1>4, <1>5, <1>8 DEF Active
<1>9. CASE j # i /\ k = i
  <2>1. same_tie_breaker(s.tie_breaker, sessions[j].tie_breaker)
    BY <1>3, <1>4, <1>5, <1>9 DEF Active
  <2> QED
    BY <1>4, <1>9, <2>1 DEF same_tie_breaker
<1> QED
  BY <1>6, <1>7, <1>8, <1>9, SMTT(90)

\* Every step preserves the agreement; a repeated INIT, which is refused, is the
\* case that could disturb a member.
LEMMA TieBreakersStep ==
  TypeOK /\ TablesAgree /\ TieBreakersAgree /\ [Next]_vars => TieBreakersAgree'
<1> SUFFICES ASSUME TypeOK, TablesAgree, TieBreakersAgree, [Next]_vars PROVE TieBreakersAgree'
  OBVIOUS
<1>1. CASE UNCHANGED sessions
  BY <1>1, SameTieBreakers, SMTT(90) DEF Active
<1>2. ASSUME NEW i \in Slots, on_connect(i) \/ EndSession(i) PROVE TieBreakersAgree'
  <2>1. \/ sessions' = [sessions EXCEPT ![i] = [NewSession EXCEPT !.phase = "WAIT_PREINIT"]]
        \/ sessions' = [sessions EXCEPT ![i] = NewSession]
    BY <1>2 DEF on_connect, EndSession
  <2>2. ~Active(i)' /\ \A j \in Slots \ {i} : sessions'[j] = sessions[j]
    BY <2>1, SMTT(90) DEF TypeOK, Active, NewSession
  <2> QED
    BY <2>2, SameTieBreakers DEF Active
<1>3. ASSUME NEW i \in Slots, NEW n \in Names, handle_preinit(i, n) PROVE TieBreakersAgree'
  <2>1. ~Active(i)' /\ \A j \in Slots \ {i} : sessions'[j] = sessions[j]
    BY <1>3, SMTT(90) DEF handle_preinit, TypeOK, Session, Active
  <2> QED
    BY <2>1, SameTieBreakers DEF Active
<1>4. ASSUME NEW i \in Slots, NEW m \in InitMsgs, handle_init(i, m) PROVE TieBreakersAgree'
  <2>1. CASE sessions' = [sessions EXCEPT ![i] = init_stores(i, m)]
    <3>1. init_stores(i, m).phase = sessions[i].phase
          /\ init_stores(i, m).cluster = sessions[i].cluster
      BY InitStores
    <3>2. Active(i) => init_stores(i, m).tie_breaker = sessions[i].tie_breaker
      BY DEF init_stores, Active, has_tie_breaker, has_ring_id, has_node_id, TypeOK, Session
    <3>3. sessions'[i] = init_stores(i, m) /\ \A j \in Slots \ {i} : sessions'[j] = sessions[j]
      BY <2>1, SMTT(90) DEF TypeOK
    <3> QED
      BY <3>1, <3>2, <3>3, SameTieBreakers, SMTT(90) DEF Active
  <2>2. CASE \E c \in init_joins(i, m) :
               sessions' = [sessions EXCEPT ![i] =
                              [init_stores(i, m) EXCEPT !.phase = "ACTIVE", !.cluster = c]]
    BY <2>2, JoinTieBreakers, ZenonT(90)
  <2> QED
    BY <1>4, <2>1, <2>2, ZenonT(90) DEF handle_init
<1>5. ASSUME NEW i \in Slots, NEW k \in KeepActiveOptions, handle_set_option(i, k)
      PROVE  TieBreakersAgree'
  <2>1. /\ sessions'[i].phase = sessions[i].phase /\ sessions'[i].cluster = sessions[i].cluster
        /\ sessions'[i].tie_breaker = sessions[i].tie_breaker
        /\ \A j \in Slots \ {i} : sessions'[j] = sessions[j]
    BY <1>5 DEF handle_set_option, TypeOK, Session
  <2> QED
    BY <2>1, SameTieBreakers DEF Active
<1> QED
  BY <1>1, <1>2, <1>3, <1>4, <1>5, ZenonT(90)
     DEF Next, Receive, vars, on_disconnected, disconnect_client, handle_config_list,
         handle_membership_list, handle_heuristics_change, handle_vote_info_reply

\* The members of a cluster break ties the same way, repeated INITs included:
\* what a refused INIT overwrites is never the tie breaker of a member.
THEOREM TieBreakersCorrect == Spec => []TieBreakersAgree
<1>1. Init => TieBreakersAgree
  BY DEF Init, TieBreakersAgree, Active, NewSession
<1>2. Spec => [](TypeOK /\ TablesAgree)
  BY TablesInit, TablesStep, PTL DEF Spec
<1> QED
  BY <1>1, <1>2, TieBreakersStep, PTL DEF Spec
=============================================================================
