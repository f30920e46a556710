------------------------ MODULE VoteTransferProofs ------------------------
(***************************************************************************)
(* The vote transfer of QnetdServer is safe for any number of clients,     *)
(* clusters, nodes and rings, as long as no client repeats its INIT.       *)
(***************************************************************************)
EXTENDS QnetdServerProofs

\* A session that is not in a cluster has a fresh ballot.
IdleBallots == \A i \in Slots : ~Active(i) => ballots[i] = NewBallot

\* An ACK that waits to be sent goes to a member of the quorate partition.
PendingInsideQuoratePartition ==
  \A i \in Slots :
    Active(i) /\ ballots[i].ff_state = "SENDING_ACK"
      => sessions[i].node_id \in clusters[sessions[i].cluster].quorate_partition

\* The inductive invariant.
VoteInv ==
  /\ IdleBallots
  /\ UniqueNodeIds
  /\ PendingInsideQuoratePartition
  /\ AcksInsideQuoratePartition
  /\ TransferHasDebtor

-----------------------------------------------------------------------------
\* A decision leaves no ACK, sent or due, outside the partition it makes quorate,
\* and never waits for replies that no visited client owes.
LEMMA DecisionSound ==
  ASSUME TypeOK, TablesAgree, VoteInv, NEW c \in ClusterIds, NEW W \in SUBSET ClientsOf(c), NEW d,
         Decided(sessions, ClientsOf(c), W, ballots, clusters[c], d)
  PROVE  /\ \A j \in W :
              d.ballots[j].ff_state = "SENDING_ACK" \/ d.ballots[j].last_ack_nack = "ACK"
                => sessions[j].node_id \in d.cluster.quorate_partition
         /\ d.cluster.state = "SENDING_NACKS"
              => \E j \in W : d.ballots[j].ff_state = "SENDING_NACK"
         /\ d.cluster.state = "SENDING_ACKS"
              => /\ \E j \in W : d.ballots[j].ff_state = "SENDING_ACK"
                 /\ \A j \in W : d.ballots[j].ff_state # "SENDING_NACK"
<1>1. CASE /\ d.ballots = ballots
           /\ d.cluster.quorate_partition = clusters[c].quorate_partition
           /\ d.cluster.state = "WAITING_FOR_STABLE_MEMBERSHIP"
  <2>1. \A j \in W : j \in Slots /\ Active(j) /\ sessions[j].cluster = c
    BY SMTT(90) DEF ClientsOf
  <2> QED
    BY <1>1, <2>1 DEF VoteInv, PendingInsideQuoratePartition, AcksInsideQuoratePartition
<1>2. CASE ~(/\ d.ballots = ballots
             /\ d.cluster.quorate_partition = clusters[c].quorate_partition
             /\ d.cluster.state = "WAITING_FOR_STABLE_MEMBERSHIP")
  BY <1>2, SMTT(90) DEF Decided
<1> QED
  BY <1>1, <1>2, SMTT(90)

\* A step that applies a decision d to cluster c, whose clients are W from then
\* on, and leaves every other cluster alone.
LEMMA DecisionStep ==
  ASSUME TypeOK, TablesAgree, VoteInv, NEW c \in ClusterIds, NEW W \in SUBSET ClientsOf(c), NEW d,
         Decided(sessions, ClientsOf(c), W, ballots, clusters[c], d),
         \A j \in Slots : Active(j)' => /\ Active(j)
                                        /\ sessions'[j].cluster = sessions[j].cluster
                                        /\ sessions'[j].node_id = sessions[j].node_id
                                        /\ ballots'[j] = d.ballots[j],
         \A j \in Slots : ~Active(j)' => ballots'[j] = NewBallot,
         \A j \in Slots : Active(j) /\ sessions[j].cluster # c => Active(j)',
         ClientsOf(c)' = W,
         \A e \in ClusterIds \ {c} : clusters'[e] = clusters[e],
         \/ /\ clusters'[c].state = d.cluster.state
            /\ clusters'[c].quorate_partition = d.cluster.quorate_partition
         \/ W = {} /\ clusters'[c].state = "WAITING_FOR_CHANGE"
  PROVE  VoteInv'
<1>1. \A j \in Slots : sessions[j].cluster # c => d.ballots[j] = ballots[j]
  BY SMTT(90) DEF Decided, ClientsOf
<1>2. \A j \in Slots : Active(j)' /\ sessions'[j].cluster = c => j \in W
  BY DEF ClientsOf
<1>3. \A j \in W : j \in Slots /\ Active(j)' /\ sessions'[j].cluster = c /\ ballots'[j] = d.ballots[j]
  BY SMTT(90) DEF ClientsOf
<1>4. \A j \in Slots : Active(j) => sessions[j].cluster \in ClusterIds
  BY SMTT(90) DEF TablesAgree
<1>5. IdleBallots'
  BY SMTT(90) DEF IdleBallots
<1>6. UniqueNodeIds'
  BY SMTT(90) DEF VoteInv, UniqueNodeIds
<1>7. \A j \in Slots :
        /\ Active(j)'
        /\ ballots'[j].ff_state = "SENDING_ACK" \/ ballots'[j].last_ack_nack = "ACK"
        => sessions'[j].node_id \in clusters'[sessions'[j].cluster].quorate_partition
  <2> SUFFICES ASSUME NEW j \in Slots, Active(j)',
                      ballots'[j].ff_state = "SENDING_ACK" \/ ballots'[j].last_ack_nack = "ACK"
               PROVE  sessions'[j].node_id \in clusters'[sessions'[j].cluster].quorate_partition
    BY SMTT(90)
  <2>1. CASE sessions'[j].cluster = c
    BY <1>2, <2>1, DecisionSound, SMTT(90)
  <2>2. CASE sessions'[j].cluster # c
    BY <1>1, <1>4, <2>2, SMTT(90) DEF VoteInv, PendingInsideQuoratePartition, AcksInsideQuoratePartition
  <2> QED
    BY <2>1, <2>2, SMTT(90)
<1>8. TransferHasDebtor'
  <2> SUFFICES ASSUME NEW e \in ClusterIds
               PROVE  /\ clusters'[e].state = "SENDING_NACKS"
                           => In_state(ClientsOf(e)', ballots', "SENDING_NACK") # {}
                      /\ clusters'[e].state = "SENDING_ACKS"
                           => /\ In_state(ClientsOf(e)', ballots', "SENDING_ACK") # {}
                              /\ In_state(ClientsOf(e)', ballots', "SENDING_NACK") = {}
    BY SMTT(90) DEF TransferHasDebtor, In_state
  <2>1. CASE e = c
    BY <1>3, <2>1, DecisionSound, SMTT(90) DEF In_state
  <2>2. CASE e # c
    <3>1. ClientsOf(e)' = ClientsOf(e)
      BY <2>2, SMTT(90) DEF ClientsOf
    <3>2. \A j \in ClientsOf(e) : ballots'[j] = ballots[j]
      BY <1>1, <2>2, SMTT(90) DEF ClientsOf
    <3>3. \A st : In_state(ClientsOf(e)', ballots', st) = In_state(ClientsOf(e), ballots, st)
      BY <3>1, <3>2, SMTT(90) DEF In_state
    <3> QED
      BY <2>2, <3>3 DEF VoteInv, TransferHasDebtor
  <2> QED
    BY <2>1, <2>2, SMTT(90)
<1> QED
  BY <1>5, <1>6, <1>7, <1>8, SMTT(90)
     DEF VoteInv, PendingInsideQuoratePartition, AcksInsideQuoratePartition

\* A report that runs ffsplit preserves the invariant.
LEMMA RunFfsplitVotes ==
  ASSUME TypeOK, TablesAgree, VoteInv, NEW i \in Slots, Active(i), NEW v \in View,
         RunFfsplit(i, v), UNCHANGED sessions
  PROVE  VoteInv'
<1>1. PICK c \in ClusterIds : c = sessions[i].cluster
  BY DEF TablesAgree
<1> DEFINE d == Decision(i, FALSE, v)
<1>2. ballots' = d.ballots /\ clusters' = [clusters EXCEPT ![c] = d.cluster]
  BY <1>1 DEF RunFfsplit
<1>3. Walked(i, FALSE) = ClientsOf(c)
  BY <1>1 DEF Walked, skip_in_cluster_walk
<1>4. Decided(sessions, ClientsOf(c), ClientsOf(c), ballots, clusters[c], d)
  BY <1>1, <1>3, DecisionFacts, ZenonT(90)
<1> HIDE DEF d
<1>5. ClientsOf(c)' = ClientsOf(c) /\ \A j \in Slots : Active(j)' <=> Active(j)
  BY SMTT(90) DEF ClientsOf, Active
<1>6. \A j \in Slots : ~Active(j) => ballots'[j] = NewBallot
  BY <1>2, <1>4, SMTT(90) DEF Decided, ClientsOf, VoteInv, IdleBallots
<1>7. \A e \in ClusterIds : clusters'[e] = IF e = c THEN d.cluster ELSE clusters[e]
  BY <1>2, SMTT(90) DEF TypeOK
<1> QED
  BY <1>2, <1>4, <1>5, <1>6, <1>7, DecisionStep, SMTT(90)

\* So does a member that leaves, with the decision its leaving triggers.
LEMMA EndSessionVotes ==
  ASSUME TypeOK, TablesAgree, VoteInv, NEW i \in Slots, EndSession(i), Active(i)
  PROVE  VoteInv'
<1>1. PICK c \in ClusterIds : c = sessions[i].cluster /\ c # NoCluster
  BY DEF TablesAgree, ClusterIds, NoCluster
<1> DEFINE d == Decision(i, TRUE, views[i])
           W == ClientsOf(c) \ {i}
           cl == IF d.cluster.members <= 1 THEN NewCluster
                 ELSE [d.cluster EXCEPT !.members = d.cluster.members - 1]
<1>2. /\ sessions' = [sessions EXCEPT ![i] = NewSession]
      /\ ballots' = [d.ballots EXCEPT ![i] = NewBallot]
      /\ clusters' = [clusters EXCEPT ![c] = cl]
  BY <1>1, ZenonT(90) DEF EndSession, leave_cluster
<1>3. Walked(i, TRUE) = W
  BY <1>1 DEF Walked, skip_in_cluster_walk, ClientsOf, VoteInv, UniqueNodeIds
<1>4. Decided(sessions, ClientsOf(c), W, ballots, clusters[c], d)
  <2>1. views[i] \in View
    BY DEF TypeOK
  <2> QED
    BY <1>1, <1>3, <2>1, DecisionFacts, ZenonT(90)
<1> HIDE DEF d
<1>5. \A j \in Slots : sessions'[j] = IF j = i THEN NewSession ELSE sessions[j]
  BY <1>2, SMTT(90) DEF TypeOK
<1>6. NewSession.phase # "ACTIVE"
  BY DEF NewSession
<1>7. \A j \in Slots : Active(j)' <=> Active(j) /\ j # i
  BY <1>5, <1>6, SMTT(90) DEF Active
<1>8. ClientsOf(c)' = W
  BY <1>5, <1>7, SMTT(90) DEF ClientsOf
<1>9. d.ballots \in [Slots -> Ballot] /\ \A j \in Slots \ ClientsOf(c) : d.ballots[j] = ballots[j]
  BY <1>4 DEF Decided
<1>10. \A j \in Slots : ballots'[j] = IF j = i THEN NewBallot ELSE d.ballots[j]
  BY <1>2, <1>9, SMTT(90)
<1>11. \A j \in Slots : ~Active(j)' => ballots'[j] = NewBallot
  BY <1>7, <1>9, <1>10, SMTT(90) DEF ClientsOf, VoteInv, IdleBallots
<1>12. \A e \in ClusterIds : clusters'[e] = IF e = c THEN cl ELSE clusters[e]
  BY <1>2, SMTT(90) DEF TypeOK
<1>13. d.cluster.members <= 1 => W = {}
  <2>1. d.cluster.members = Cardinality(ClientsOf(c))
    BY <1>4, SMTT(90) DEF Decided, TablesAgree
  <2>2. /\ IsFiniteSet(ClientsOf(c)) /\ Cardinality(ClientsOf(c)) \in Nat
        /\ i \in ClientsOf(c) /\ IsFiniteSet(W)
    BY <1>1, SlotSets, FS_CardinalityType, SMTT(90) DEF ClientsOf
  <2>3. Cardinality(W) = Cardinality(ClientsOf(c)) - 1 /\ Cardinality(W) \in Nat
    BY <2>2, FS_RemoveElement, FS_CardinalityType, SMTT(90)
  <2> QED
    BY <2>1, <2>2, <2>3, FS_EmptySet, SMTT(90)
<1>14. \/ /\ clusters'[c].state = d.cluster.state
          /\ clusters'[c].quorate_partition = d.cluster.quorate_partition
       \/ W = {} /\ clusters'[c].state = "WAITING_FOR_CHANGE"
  <2>1. CASE d.cluster.members <= 1
    BY <1>12, <1>13, <2>1, SMTT(90) DEF NewCluster
  <2>2. CASE ~(d.cluster.members <= 1)
    <3>1. clusters'[c] = [d.cluster EXCEPT !.members = d.cluster.members - 1]
      BY <1>12, <2>2, SMTT(90)
    <3>2. d.cluster \in Cluster
      BY <1>4 DEF Decided
    <3> QED
      BY <3>1, <3>2 DEF Cluster
  <2> QED
    BY <2>1, <2>2, SMTT(90)
<1> HIDE DEF cl, W
<1>15. W \in SUBSET ClientsOf(c)
  BY SMTT(90) DEF W
<1>16. \A j \in Slots : Active(j)' => /\ Active(j)
                                      /\ sessions'[j].cluster = sessions[j].cluster
                                      /\ sessions'[j].node_id = sessions[j].node_id
                                      /\ ballots'[j] = d.ballots[j]
  BY <1>5, <1>7, <1>10, SMTT(90)
<1>17. \A j \in Slots : Active(j) /\ sessions[j].cluster # c => Active(j)'
  BY <1>1, <1>7, SMTT(90)
<1> QED
  BY <1>4, <1>8, <1>11, <1>12, <1>14, <1>15, <1>16, <1>17, DecisionStep, SMTT(90)

\* Steps that send no vote and move no session into or out of a cluster.
LEMMA QuietVotes ==
  ASSUME TypeOK, TablesAgree, VoteInv,
         \A j \in Slots : /\ Active(j)' <=> Active(j)
                          /\ ballots'[j] = IF Active(j) THEN ballots[j] ELSE NewBallot
                          /\ Active(j) => /\ sessions'[j].cluster = sessions[j].cluster
                                          /\ sessions'[j].node_id = sessions[j].node_id,
         UNCHANGED clusters
  PROVE  VoteInv'
<1>1. \A e \in ClusterIds : ClientsOf(e)' = ClientsOf(e)
  BY SMTT(90) DEF ClientsOf
<1>2. \A e \in ClusterIds, st \in FfClientState :
        In_state(ClientsOf(e)', ballots', st) = In_state(ClientsOf(e), ballots, st)
  BY <1>1, SMTT(90) DEF In_state, ClientsOf
<1>3. TransferHasDebtor'
  BY <1>2, SMTT(90) DEF VoteInv, TransferHasDebtor, FfClientState
<1>4. IdleBallots' /\ UniqueNodeIds'
  BY SMTT(90) DEF VoteInv, IdleBallots, UniqueNodeIds
<1>5. PendingInsideQuoratePartition' /\ AcksInsideQuoratePartition'
  BY SMTT(90) DEF VoteInv, PendingInsideQuoratePartition, AcksInsideQuoratePartition
<1> QED
  BY <1>3, <1>4, <1>5, SMTT(90) DEF VoteInv

\* What an INIT that is accepted does: a slot that was not ACTIVE joins cluster c
\* with a node id that none of the members has; an empty cluster starts afresh.
Joins(i, c) ==
  /\ c \in ClusterIds /\ ~Active(i)
  /\ Active(i)' /\ sessions'[i].cluster = c /\ sessions'[i].node_id \in NodeIds
  /\ \A j \in Slots \ {i} : sessions'[j] = sessions[j]
  /\ \A j \in ClientsOf(c) : sessions[j].node_id # sessions'[i].node_id
  /\ \A e \in ClusterIds \ {c} : clusters'[e] = clusters[e]
  /\ IF ClientsOf(c) = {}
     THEN /\ clusters'[c].state = "WAITING_FOR_CHANGE"
          /\ clusters'[c].quorate_partition = {}
     ELSE /\ clusters'[c].state = clusters[c].state
          /\ clusters'[c].quorate_partition = clusters[c].quorate_partition
  /\ UNCHANGED ballots

\* handle_init, past its checks, does just that.
LEMMA JoinFacts ==
  ASSUME TypeOK, TablesAgree, NEW i \in Slots, NEW m \in InitMsgs, NEW c \in init_joins(i, m),
         sessions' = [sessions EXCEPT ![i] =
                        [init_stores(i, m) EXCEPT !.phase = "ACTIVE", !.cluster = c]],
         clusters' = [clusters EXCEPT ![c] = joined(clusters[c], sessions[i].cluster_name)],
         UNCHANGED ballots
  PROVE  Joins(i, c)
<1> DEFINE s == init_stores(i, m)
           name == sessions[i].cluster_name
<1>1. /\ c \in find_or_create_cluster(name) /\ fits_cluster(i, s) /\ ~Active(i)
  BY DEF init_joins, has_tie_breaker, has_ring_id, has_node_id, Active
<1>2. s \in Session /\ s.cluster_name = name
  BY InitStores, SMTT(90)
<1>3. /\ c \in ClusterIds
      /\ clusters[c].used => clusters[c].name = name
  BY <1>1 DEF find_or_create_cluster, First
<1>4. s.node_id \in NodeIds
  <2>1. has_tie_breaker(i, m)
    BY DEF init_joins
  <2>2. sessions[i].phase = "WAIT_INIT" /\ m.node_id # NoNode
    BY <2>1 DEF has_tie_breaker, has_ring_id, has_node_id
  <2>3. m.node_id \in NodeIds
    BY <2>2, InputsAssumption, SMTT(90) DEF InitMsg
  <2>4. sessions[i] \in Session
    BY DEF TypeOK
  <2>5. s.node_id = m.node_id
    BY <2>2, <2>4, SMTT(90) DEF init_stores, has_node_id, Session
  <2> QED
    BY <2>3, <2>5
<1> HIDE DEF s
<1>5. /\ sessions'[i].phase = "ACTIVE" /\ sessions'[i].cluster = c
      /\ sessions'[i].node_id = s.node_id
  <2>1. sessions'[i] = [s EXCEPT !.phase = "ACTIVE", !.cluster = c]
    BY DEF TypeOK, s
  <2> DEFINE t == [s EXCEPT !.phase = "ACTIVE", !.cluster = c]
  <2>2. s \in Session
    BY <1>2
  <2>3. t.phase = "ACTIVE" /\ t.cluster = c /\ t.node_id = s.node_id
    BY <2>2 DEF Session
  <2>4. sessions'[i] = t
    BY <2>1
  <2> HIDE DEF t
  <2> QED
    BY <2>3, <2>4, ZenonT(90)
<1>6. \A j \in Slots \ {i} : sessions'[j] = sessions[j]
  BY DEF TypeOK
<1>7. \A j \in ClientsOf(c) : j \in Slots \ {i} /\ Active(j) /\ sessions[j].cluster = c
  BY <1>1, SMTT(90) DEF ClientsOf
<1>8. /\ clusters[c].used <=> ClientsOf(c) # {}
      /\ clusters[c].used => clusters[c].members > 0
  <2>1. IsFiniteSet(ClientsOf(c)) /\ Cardinality(ClientsOf(c)) \in Nat
    BY SlotSets, FS_CardinalityType, SMTT(90) DEF ClientsOf
  <2>2. clusters[c].members = Cardinality(ClientsOf(c)) /\ (clusters[c].used <=> clusters[c].members > 0)
    BY <1>3 DEF TablesAgree
  <2> QED
    BY <2>1, <2>2, FS_EmptySet, SMTT(90)
<1>9. \A j \in ClientsOf(c) : sessions[j].node_id # s.node_id
  <2> SUFFICES ASSUME NEW j \in ClientsOf(c) PROVE sessions[j].node_id # s.node_id
    OBVIOUS
  <2>1. sessions[j].cluster_name = name
    BY <1>3, <1>7, <1>8, SMTT(90) DEF TablesAgree
  <2> QED
    BY <1>1, <1>2, <1>7, <2>1, SMTT(90) DEF fits_cluster
<1>10. \A e \in ClusterIds \ {c} : clusters'[e] = clusters[e]
  BY SMTT(90) DEF TypeOK
<1>11. IF ClientsOf(c) = {}
       THEN /\ clusters'[c].state = "WAITING_FOR_CHANGE"
            /\ clusters'[c].quorate_partition = {}
       ELSE /\ clusters'[c].state = clusters[c].state
            /\ clusters'[c].quorate_partition = clusters[c].quorate_partition
  <2>1. clusters'[c] = joined(clusters[c], name) /\ clusters[c] \in Cluster
    BY <1>3 DEF TypeOK
  <2>2. CASE ClientsOf(c) # {}
    <3>1. clusters'[c] = [clusters[c] EXCEPT !.members = clusters[c].members + 1]
      BY <1>8, <2>1, <2>2, SMTT(90) DEF joined
    <3> QED
      BY <2>1, <2>2, <3>1, SMTT(90) DEF Cluster
  <2>3. CASE ClientsOf(c) = {}
    <3>1. clusters'[c] = [NewCluster EXCEPT !.used = TRUE, !.name = name, !.members = 1]
      BY <1>8, <2>1, <2>3, SMTT(90) DEF joined
    <3>2. clusters'[c].state = "WAITING_FOR_CHANGE" /\ clusters'[c].quorate_partition = {}
      BY <3>1, ZenonT(90) DEF NewCluster
    <3> QED
      BY <2>3, <3>2, SMTT(90)
  <2> QED
    BY <2>2, <2>3
<1> QED
  BY <1>1, <1>3, <1>4, <1>5, <1>6, <1>9, <1>10, <1>11, ZenonT(90) DEF Joins, Active

\* So does a client that joins: its fresh ballot owes nothing, and handle_init
\* has compared its node id with those of the members.
LEMMA JoinVotes ==
  ASSUME TypeOK, TablesAgree, VoteInv, NEW i \in Slots, NEW c, Joins(i, c)
  PROVE  VoteInv'
<1>1. c \in ClusterIds /\ ~Active(i) /\ UNCHANGED ballots
  BY ZenonT(90) DEF Joins
<1>2. Active(i)' /\ sessions'[i].cluster = c
  BY ZenonT(90) DEF Joins
<1>3. \A j \in Slots \ {i} : sessions'[j] = sessions[j]
  BY ZenonT(90) DEF Joins
<1>4. \A j \in Slots : Active(j)' <=> Active(j) \/ j = i
  BY <1>2, <1>3 DEF Active
<1>5. ballots[i] = NewBallot
  BY <1>1 DEF VoteInv, IdleBallots
<1>6. /\ ClientsOf(c)' = ClientsOf(c) \cup {i}
      /\ \A e \in ClusterIds \ {c} : ClientsOf(e)' = ClientsOf(e)
  BY <1>1, <1>2, <1>3, <1>4, SMTT(90) DEF ClientsOf
<1>7. \A e \in ClusterIds \ {c} : clusters'[e] = clusters[e]
  BY ZenonT(90) DEF Joins
<1>8. \/ /\ clusters'[c].state = clusters[c].state
         /\ clusters'[c].quorate_partition = clusters[c].quorate_partition
      \/ ClientsOf(c) = {} /\ clusters'[c].state = "WAITING_FOR_CHANGE"
  BY ZenonT(90) DEF Joins
<1>9. IdleBallots'
  BY <1>1, <1>4 DEF VoteInv, IdleBallots
<1>10. UniqueNodeIds'
  <2>1. \A j \in Slots \ {i} :
          Active(j) /\ sessions[j].cluster = c => sessions[j].node_id # sessions'[i].node_id
    BY SMTT(90) DEF Joins, ClientsOf
  <2> QED
    BY <1>2, <1>3, <1>4, <2>1, SMTT(90) DEF VoteInv, UniqueNodeIds
<1>11. \A j \in Slots :
         /\ Active(j)'
         /\ ballots'[j].ff_state = "SENDING_ACK" \/ ballots'[j].last_ack_nack = "ACK"
         => sessions'[j].node_id \in clusters'[sessions'[j].cluster].quorate_partition
  <2> SUFFICES ASSUME NEW j \in Slots, Active(j)',
                      ballots'[j].ff_state = "SENDING_ACK" \/ ballots'[j].last_ack_nack = "ACK"
               PROVE  sessions'[j].node_id \in clusters'[sessions'[j].cluster].quorate_partition
    OBVIOUS
  <2>1. j # i
    BY <1>1, <1>5 DEF NewBallot
  <2>2. Active(j) /\ sessions'[j] = sessions[j] /\ sessions[j].cluster \in ClusterIds
    BY <1>3, <1>4, <2>1, SMTT(90) DEF TablesAgree
  <2>3. sessions[j].node_id \in clusters[sessions[j].cluster].quorate_partition
    BY <1>1, <2>2 DEF VoteInv, PendingInsideQuoratePartition, AcksInsideQuoratePartition
  <2>4. sessions[j].cluster = c => j \in ClientsOf(c)
    BY <2>2, SMTT(90) DEF ClientsOf
  <2> QED
    BY <1>7, <1>8, <2>2, <2>3, <2>4, ZenonT(90)
<1>12. TransferHasDebtor'
  <2>1. \A e \in ClusterIds, st \in {"SENDING_NACK", "SENDING_ACK"} :
          In_state(ClientsOf(e)', ballots', st) = In_state(ClientsOf(e), ballots, st)
    BY <1>1, <1>5, <1>6, SMTT(90) DEF In_state, NewBallot
  <2>2. \A e \in ClusterIds : \/ clusters'[e].state = clusters[e].state
                              \/ clusters'[e].state = "WAITING_FOR_CHANGE"
    BY <1>7, <1>8, SMTT(90)
  <2> QED
    BY <2>1, <2>2 DEF VoteInv, TransferHasDebtor
<1> QED
  BY <1>9, <1>10, <1>11, <1>12, SMTT(90)
     DEF VoteInv, PendingInsideQuoratePartition, AcksInsideQuoratePartition

\* ffsplit_count_state is 0 when no member is in the state.
LEMMA CountState ==
  ASSUME NEW c, NEW b, NEW st
  PROVE  ffsplit_count_state(c, b, st) = 0 <=> In_state(ClientsOf(c), b, st) = {}
<1>1. In_state(ClientsOf(c), b, st) \in SUBSET Slots
  BY DEF In_state, ClientsOf
<1>2. IsFiniteSet(In_state(ClientsOf(c), b, st))
  BY <1>1, SlotSets, SMTT(90)
<1> QED
  BY <1>2, FS_EmptySet, SMTT(90) DEF ffsplit_count_state

\* What a reply that is accepted does: it settles the ballot of its sender, and
\* the last reply to the NACKs of a decision lets the ACKs go out.
Replied(i, c) ==
  /\ Active(i) /\ c \in ClusterIds
  /\ \A j \in Slots : ballots'[j].ff_state =
                        IF j = i THEN "WAITING_FOR_CHANGE" ELSE ballots[j].ff_state
  /\ \A j \in Slots \ ClientsOf(c) : ballots'[j] = ballots[j]
  /\ \A j \in ClientsOf(c) :
       \/ /\ ballots'[j].last_ack_nack = ballots[j].last_ack_nack
          /\ ballots'[j].vote_info_seq = ballots[j].vote_info_seq
       \/ /\ ballots'[j].last_ack_nack = "ACK"
          /\ ballots'[j].ff_state = "SENDING_ACK"
          /\ In_state(ClientsOf(c), ballots', "SENDING_NACK") = {}
          /\ clusters[c].state = "SENDING_NACKS"
  /\ \A e \in ClusterIds \ {c} : clusters'[e] = clusters[e]
  /\ clusters'[c].quorate_partition = clusters[c].quorate_partition
  /\ clusters'[c].state = "SENDING_NACKS"
       => In_state(ClientsOf(c), ballots', "SENDING_NACK") # {}
  /\ clusters'[c].state = "SENDING_ACKS"
       => /\ In_state(ClientsOf(c), ballots', "SENDING_ACK") # {}
          /\ \/ In_state(ClientsOf(c), ballots', "SENDING_NACK") = {}
             \/ clusters[c].state = "SENDING_ACKS"
  /\ UNCHANGED <<sessions, views>>

\* handle_vote_info_reply, past its guards, does just that.
LEMMA ReplyFacts ==
  ASSUME TypeOK, TablesAgree, NEW i \in Slots, NEW seq, handle_vote_info_reply(i, seq)
  PROVE  Replied(i, sessions[i].cluster)
<1> DEFINE c == sessions[i].cluster
           p == Poll(i, FALSE, views[i])
           b == [ballots EXCEPT ![i].ff_state = "WAITING_FOR_CHANGE"]
           s == ffsplit_send_votes(p, b, "ACK")
           nacks_done == /\ clusters[c].state = "SENDING_NACKS"
                         /\ ffsplit_count_state(c, b, "SENDING_NACK") = 0
           acks_done == /\ clusters[c].state = "SENDING_ACKS"
                        /\ ffsplit_count_state(c, b, "SENDING_ACK") = 0
           acks == In_state(ClientsOf(c), b, "SENDING_ACK")
           st == IF nacks_done /\ acks # {} THEN "SENDING_ACKS"
                 ELSE IF nacks_done \/ acks_done THEN "WAITING_FOR_CHANGE"
                 ELSE clusters[c].state
<1>1. Active(i) /\ c \in ClusterIds /\ clusters[c] \in Cluster /\ UNCHANGED <<sessions, views>>
  BY SMTT(90) DEF handle_vote_info_reply, TablesAgree, TypeOK
<1>2. /\ ballots' = IF nacks_done THEN s ELSE b
      /\ clusters' = [clusters EXCEPT ![c].state = st]
  BY DEF handle_vote_info_reply
<1>3. /\ b \in [Slots -> Ballot]
      /\ \A j \in Slots : /\ b[j].ff_state = IF j = i THEN "WAITING_FOR_CHANGE" ELSE ballots[j].ff_state
                          /\ b[j].last_ack_nack = ballots[j].last_ack_nack
                          /\ b[j].vote_info_seq = ballots[j].vote_info_seq
      /\ \A j \in Slots \ {i} : b[j] = ballots[j]
  BY DEF TypeOK, Ballot, FfClientState
<1>4. p.walked = ClientsOf(c)
  BY SMTT(90) DEF Poll, skip_in_cluster_walk
<1> HIDE DEF b, p
<1>5. /\ \A j \in Slots : s[j].ff_state = b[j].ff_state
      /\ \A j \in Slots : j \in p.walked /\ b[j].ff_state = "SENDING_ACK" => s[j].last_ack_nack = "ACK"
      /\ \A j \in Slots : ~(j \in p.walked /\ b[j].ff_state = "SENDING_ACK") => s[j] = b[j]
  BY <1>3, SendVotes, SMTT(90)
<1>6. /\ nacks_done => In_state(ClientsOf(c), b, "SENDING_NACK") = {}
      /\ clusters[c].state = "SENDING_NACKS" /\ ~nacks_done
           => In_state(ClientsOf(c), b, "SENDING_NACK") # {}
      /\ clusters[c].state = "SENDING_ACKS" /\ ~acks_done
           => In_state(ClientsOf(c), b, "SENDING_ACK") # {}
  BY CountState, SMTT(90)
<1> HIDE DEF s, nacks_done, acks_done
<1>7. \A j \in Slots : ballots'[j].ff_state = b[j].ff_state
  BY <1>2, <1>5, SMTT(90)
<1>8. \A x : In_state(ClientsOf(c), ballots', x) = In_state(ClientsOf(c), b, x)
  BY <1>7 DEF In_state, ClientsOf
<1>9. /\ \A e \in ClusterIds \ {c} : clusters'[e] = clusters[e]
      /\ clusters'[c].quorate_partition = clusters[c].quorate_partition
      /\ clusters'[c].state = st
  <2> HIDE DEF st, c
  <2> QED BY <1>1, <1>2, SMTT(90) DEF TypeOK, Cluster
<1>10. i \in ClientsOf(c)
  BY <1>1, SMTT(90) DEF ClientsOf
<1>11. \A j \in Slots \ ClientsOf(c) : ballots'[j] = ballots[j]
  BY <1>2, <1>3, <1>4, <1>5, <1>10, SMTT(90)
<1>12. \A j \in ClientsOf(c) :
         \/ /\ ballots'[j].last_ack_nack = ballots[j].last_ack_nack
            /\ ballots'[j].vote_info_seq = ballots[j].vote_info_seq
         \/ /\ ballots'[j].last_ack_nack = "ACK"
            /\ ballots'[j].ff_state = "SENDING_ACK"
            /\ In_state(ClientsOf(c), ballots', "SENDING_NACK") = {}
            /\ clusters[c].state = "SENDING_NACKS"
  <2>1. \A j \in ClientsOf(c) : j \in Slots
    BY SMTT(90) DEF ClientsOf
  <2>2. CASE ~nacks_done
    BY <1>2, <1>3, <2>1, <2>2, SMTT(90)
  <2>3. CASE nacks_done
    <3>1. clusters[c].state = "SENDING_NACKS"
      BY <2>3 DEF nacks_done
    <3> QED
      BY <1>2, <1>3, <1>4, <1>5, <1>6, <1>8, <2>1, <2>3, <3>1, SMTT(90)
  <2> QED
    BY <2>2, <2>3, SMTT(90)
<1>13. /\ clusters'[c].state = "SENDING_NACKS"
            => In_state(ClientsOf(c), ballots', "SENDING_NACK") # {}
       /\ clusters'[c].state = "SENDING_ACKS"
            => /\ In_state(ClientsOf(c), ballots', "SENDING_ACK") # {}
               /\ \/ In_state(ClientsOf(c), ballots', "SENDING_NACK") = {}
                  \/ clusters[c].state = "SENDING_ACKS"
  <2>1. PICK N, A, x, y : /\ N = In_state(ClientsOf(c), b, "SENDING_NACK")
                          /\ A = In_state(ClientsOf(c), b, "SENDING_ACK")
                          /\ x = clusters[c].state /\ y = clusters'[c].state
    BY ZenonT(90)
  <2>2. /\ nacks_done => x = "SENDING_NACKS" /\ N = {}
        /\ x = "SENDING_NACKS" /\ ~nacks_done => N # {}
        /\ x = "SENDING_ACKS" /\ ~acks_done => A # {}
    BY <1>6, <2>1, ZenonT(90) DEF nacks_done
  <2>3. y = IF nacks_done /\ A # {} THEN "SENDING_ACKS"
            ELSE IF nacks_done \/ acks_done THEN "WAITING_FOR_CHANGE" ELSE x
    BY <1>9, <2>1, ZenonT(90)
  <2>4. /\ y = "SENDING_NACKS" => N # {}
        /\ y = "SENDING_ACKS" => A # {} /\ (N = {} \/ x = "SENDING_ACKS")
    <3>1. CASE nacks_done
      BY <2>2, <2>3, <3>1, SMTT(90)
    <3>2. CASE ~nacks_done
      BY <2>2, <2>3, <3>2, SMTT(90)
    <3> QED
      BY <3>1, <3>2, ZenonT(90)
  <2> QED
    BY <1>8, <2>1, <2>4, ZenonT(90)
<1>14. \A j \in Slots : ballots'[j].ff_state =
                          IF j = i THEN "WAITING_FOR_CHANGE" ELSE ballots[j].ff_state
  BY <1>3, <1>7, SMTT(90)
<1> HIDE DEF acks, st
<1> QED
  BY <1>1, <1>9, <1>11, <1>12, <1>13, <1>14, ZenonT(90) DEF Replied

\* An accepted VOTE_INFO_REPLY preserves the invariant: the ACKs that the last
\* reply releases were due inside the quorate partition.
LEMMA ReplyVotes ==
  ASSUME TypeOK, TablesAgree, VoteInv, NEW i \in Slots, NEW seq, handle_vote_info_reply(i, seq)
  PROVE  VoteInv'
<1>0. Replied(i, sessions[i].cluster)
  BY ReplyFacts, ZenonT(90)
<1>1. PICK c \in ClusterIds : c = sessions[i].cluster /\ Replied(i, c)
  BY <1>0, ZenonT(90) DEF Replied
<1>2. UNCHANGED sessions /\ Active(i)
  BY <1>0, ZenonT(90) DEF Replied
<1>3. /\ \A j \in Slots : Active(j)' <=> Active(j)
      /\ \A e \in ClusterIds : ClientsOf(e)' = ClientsOf(e)
  BY <1>2, SMTT(90) DEF ClientsOf, Active
<1>4. /\ \A j \in Slots : ballots'[j].ff_state =
                            IF j = i THEN "WAITING_FOR_CHANGE" ELSE ballots[j].ff_state
      /\ \A j \in Slots \ ClientsOf(c) : ballots'[j] = ballots[j]
      /\ \A j \in ClientsOf(c) : \/ ballots'[j].last_ack_nack = ballots[j].last_ack_nack
                                 \/ ballots'[j].ff_state = "SENDING_ACK"
      /\ \A e \in ClusterIds \ {c} : clusters'[e] = clusters[e]
      /\ clusters'[c].quorate_partition = clusters[c].quorate_partition
      /\ clusters'[c].state = "SENDING_NACKS"
           => In_state(ClientsOf(c), ballots', "SENDING_NACK") # {}
      /\ clusters'[c].state = "SENDING_ACKS"
           => /\ In_state(ClientsOf(c), ballots', "SENDING_ACK") # {}
              /\ \/ In_state(ClientsOf(c), ballots', "SENDING_NACK") = {}
                 \/ clusters[c].state = "SENDING_ACKS"
  BY <1>1, SMTT(90) DEF Replied
<1>5. IdleBallots'
  BY <1>2, <1>3, <1>4, SMTT(90) DEF VoteInv, IdleBallots, ClientsOf
<1>6. UniqueNodeIds'
  BY <1>2, <1>3, SMTT(90) DEF VoteInv, UniqueNodeIds
<1>7. \A j \in Slots : Active(j) => sessions[j].cluster \in ClusterIds
  BY SMTT(90) DEF TablesAgree
<1>8. PendingInsideQuoratePartition'
  <2>1. \A e \in ClusterIds : clusters'[e].quorate_partition = clusters[e].quorate_partition
    BY <1>4, SMTT(90)
  <2>2. \A j \in Slots : ballots'[j].ff_state = "SENDING_ACK" => ballots[j].ff_state = "SENDING_ACK"
    BY <1>4, SMTT(90)
  <2> QED
    BY <1>2, <1>3, <1>7, <2>1, <2>2, SMTT(90) DEF VoteInv, PendingInsideQuoratePartition
<1>9. AcksInsideQuoratePartition'
  <2> SUFFICES ASSUME NEW j \in Slots, Active(j), ballots'[j].last_ack_nack = "ACK"
               PROVE  sessions[j].node_id \in clusters'[sessions[j].cluster].quorate_partition
    BY <1>2, <1>3, SMTT(90) DEF AcksInsideQuoratePartition
  <2>1. clusters'[sessions[j].cluster].quorate_partition = clusters[sessions[j].cluster].quorate_partition
    BY <1>4, <1>7, SMTT(90)
  <2>2. ballots[j].last_ack_nack = "ACK" \/ ballots[j].ff_state = "SENDING_ACK"
    BY <1>4, SMTT(90)
  <2> QED
    BY <2>1, <2>2, SMTT(90) DEF VoteInv, PendingInsideQuoratePartition, AcksInsideQuoratePartition
<1>10. TransferHasDebtor'
  <2> SUFFICES ASSUME NEW e \in ClusterIds
               PROVE  /\ clusters'[e].state = "SENDING_NACKS"
                           => In_state(ClientsOf(e), ballots', "SENDING_NACK") # {}
                      /\ clusters'[e].state = "SENDING_ACKS"
                           => /\ In_state(ClientsOf(e), ballots', "SENDING_ACK") # {}
                              /\ In_state(ClientsOf(e), ballots', "SENDING_NACK") = {}
    BY <1>3, SMTT(90) DEF TransferHasDebtor, In_state
  <2>1. CASE e = c
    <3>1. In_state(ClientsOf(c), ballots', "SENDING_NACK")
            \subseteq In_state(ClientsOf(c), ballots, "SENDING_NACK")
      BY <1>4, SMTT(90) DEF In_state, ClientsOf
    <3> QED
      BY <1>4, <2>1, <3>1, SMTT(90) DEF VoteInv, TransferHasDebtor
  <2>2. CASE e # c
    <3>1. \A j \in ClientsOf(e) : ballots'[j] = ballots[j]
      BY <1>4, <2>2, SMTT(90) DEF ClientsOf
    <3>2. \A st : In_state(ClientsOf(e), ballots', st) = In_state(ClientsOf(e), ballots, st)
      BY <3>1, SMTT(90) DEF In_state
    <3> QED
      BY <1>4, <2>2, <3>2, SMTT(90) DEF VoteInv, TransferHasDebtor
  <2> QED
    BY <2>1, <2>2, SMTT(90)
<1> QED
  BY <1>5, <1>6, <1>8, <1>9, <1>10, SMTT(90) DEF VoteInv

\* The invariant holds of the empty tables.
LEMMA VoteInit == Init => VoteInv
<1> SUFFICES ASSUME Init PROVE VoteInv
  BY SMTT(90)
<1>1. \A i \in Slots : ~Active(i) /\ ballots[i] = NewBallot
  BY SMTT(90) DEF Init, Active, NewSession
<1>2. \A c \in ClusterIds : clusters[c].state = "WAITING_FOR_CHANGE"
  BY SMTT(90) DEF Init, NewCluster
<1> QED
  BY <1>1, <1>2, SMTT(90) DEF VoteInv, IdleBallots, UniqueNodeIds, PendingInsideQuoratePartition,
                    AcksInsideQuoratePartition, TransferHasDebtor

\* Every step preserves it, one case per action.
LEMMA VoteStep ==
  ASSUME ~ReInit
  PROVE  TypeOK /\ TablesAgree /\ VoteInv /\ [Next]_vars => VoteInv'
<1> SUFFICES ASSUME TypeOK, TablesAgree, VoteInv, [Next]_vars PROVE VoteInv'
  OBVIOUS
<1>0. \A j \in Slots : ballots[j] = IF Active(j) THEN ballots[j] ELSE NewBallot
  BY SMTT(90) DEF VoteInv, IdleBallots
<1>1. CASE UNCHANGED vars
  BY <1>0, <1>1, QuietVotes, SMTT(90) DEF vars, Active
<1>2. ASSUME NEW i \in Slots, on_connect(i) PROVE VoteInv'
  <2>1. /\ sessions[i].phase = "FREE"
        /\ sessions' = [sessions EXCEPT ![i] = [NewSession EXCEPT !.phase = "WAIT_PREINIT"]]
        /\ ballots' = [ballots EXCEPT ![i] = NewBallot]
        /\ UNCHANGED clusters
    BY <1>2, SMTT(90) DEF on_connect, First
  <2>2. ~Active(i) /\ sessions'[i].phase = "WAIT_PREINIT"
    BY <2>1, SMTT(90) DEF Active, NewSession, TypeOK
  <2>3. \A j \in Slots \ {i} : sessions'[j] = sessions[j] /\ ballots'[j] = ballots[j]
    BY <2>1 DEF TypeOK
  <2>4. ballots'[i] = NewBallot
    BY <2>1, SMTT(90) DEF TypeOK
  <2> QED
    BY <1>0, <2>1, <2>2, <2>3, <2>4, QuietVotes, SMTT(90) DEF Active
<1>3. ASSUME NEW i \in Slots, EndSession(i) PROVE VoteInv'
  <2>1. CASE Active(i)
    BY <1>3, <2>1, EndSessionVotes, SMTT(90)
  <2>2. CASE ~Active(i)
    <3>1. /\ sessions' = [sessions EXCEPT ![i] = NewSession]
          /\ ballots' = [ballots EXCEPT ![i] = NewBallot]
          /\ UNCHANGED clusters
      BY <1>3, <2>2, SMTT(90) DEF EndSession, leave_cluster
    <3>2. sessions'[i].phase = "FREE" /\ ballots'[i] = NewBallot
      BY <3>1, SMTT(90) DEF TypeOK, NewSession
    <3>3. \A j \in Slots \ {i} : sessions'[j] = sessions[j] /\ ballots'[j] = ballots[j]
      BY <3>1, SMTT(90) DEF TypeOK
    <3> QED
      BY <1>0, <2>2, <3>1, <3>2, <3>3, QuietVotes, SMTT(90) DEF Active
  <2> QED
    BY <2>1, <2>2, SMTT(90)
<1>4. ASSUME NEW i \in Slots, NEW n \in Names, handle_preinit(i, n) PROVE VoteInv'
  <2>1. /\ sessions[i].phase = "WAIT_PREINIT" /\ sessions'[i].phase = "WAIT_INIT"
        /\ \A j \in Slots \ {i} : sessions'[j] = sessions[j]
        /\ UNCHANGED <<ballots, clusters>>
    BY <1>4, SMTT(90) DEF handle_preinit, TypeOK, Session
  <2> QED
    BY <1>0, <2>1, QuietVotes, SMTT(90) DEF Active
<1>5. ASSUME NEW i \in Slots, NEW m \in InitMsgs, handle_init(i, m) PROVE VoteInv'
  <2>1. UNCHANGED ballots /\ ~Active(i)
    BY <1>5, ZenonT(90) DEF handle_init, Active
  <2>2. CASE sessions' = [sessions EXCEPT ![i] = init_stores(i, m)] /\ UNCHANGED clusters
    <3>1. sessions'[i].phase # "ACTIVE"
      BY <2>1, <2>2, InitStores, SMTT(90) DEF TypeOK, Active
    <3>2. \A j \in Slots \ {i} : sessions'[j] = sessions[j]
      BY <2>2, SMTT(90) DEF TypeOK
    <3> QED
      BY <1>0, <2>1, <2>2, <3>1, <3>2, QuietVotes, SMTT(90) DEF Active
  <2>3. ASSUME NEW c \in init_joins(i, m),
               sessions' = [sessions EXCEPT ![i] =
                              [init_stores(i, m) EXCEPT !.phase = "ACTIVE", !.cluster = c]],
               clusters' = [clusters EXCEPT ![c] = joined(clusters[c], sessions[i].cluster_name)]
        PROVE  VoteInv'
    <3>1. Joins(i, c)
      BY <2>1, <2>3, JoinFacts, ZenonT(90)
    <3> QED
      BY <3>1, JoinVotes, ZenonT(90)
  <2> QED
    BY <1>5, <2>2, <2>3, ZenonT(90) DEF handle_init
<1>6. ASSUME NEW i \in Slots, NEW k \in KeepActiveOptions, handle_set_option(i, k) PROVE VoteInv'
  <2>1. /\ UNCHANGED <<ballots, clusters>>
        /\ \A j \in Slots : /\ sessions'[j].phase = sessions[j].phase
                            /\ sessions'[j].cluster = sessions[j].cluster
                            /\ sessions'[j].node_id = sessions[j].node_id
    BY <1>6, SMTT(90) DEF handle_set_option, TypeOK, Session
  <2> QED
    BY <1>0, <2>1, QuietVotes, SMTT(90) DEF Active
<1>7. ASSUME NEW i \in Slots, Active(i), NEW v \in View, UNCHANGED sessions,
             RunFfsplit(i, v) \/ UNCHANGED <<ballots, clusters>>
      PROVE  VoteInv'
  <2>1. CASE RunFfsplit(i, v)
    BY <1>7, <2>1, RunFfsplitVotes, SMTT(90)
  <2>2. CASE UNCHANGED <<ballots, clusters>>
    BY <1>0, <1>7, <2>2, QuietVotes, SMTT(90) DEF Active
  <2> QED
    BY <1>7, <2>1, <2>2, SMTT(90)
<1>8. ASSUME NEW i \in Slots, NEW initial \in BOOLEAN, NEW l \in ConfigLists,
             handle_config_list(i, initial, l)
      PROVE  VoteInv'
  <2>1. [views[i] EXCEPT !.config_list = l] \in View
    BY InputsAssumption, SMTT(90) DEF TypeOK, View
  <2> QED
    BY <1>7, <1>8, <2>1, SMTT(90) DEF handle_config_list
<1>9. ASSUME NEW i \in Slots, NEW m \in MembershipMsgs, handle_membership_list(i, m) PROVE VoteInv'
  <2>1. [views[i] EXCEPT !.last_ring_id = m.ring_id, !.membership_list = m.nodes,
                         !.last_heuristics = m.heuristics] \in View
    <3>1. m.ring_id \in RingIds /\ m.nodes \in SUBSET NodeIds /\ m.heuristics \in Heuristics
      BY InputsAssumption DEF MembershipMsg
    <3>2. views[i] \in View
      BY DEF TypeOK
    <3> QED
      BY <3>1, <3>2, ZenonT(90) DEF View
  <2> QED
    BY <1>7, <1>9, <2>1 DEF handle_membership_list
<1>10. ASSUME NEW i \in Slots, NEW h \in HeuristicsChanges, handle_heuristics_change(i, h)
       PROVE  VoteInv'
  <2>1. [views[i] EXCEPT !.last_heuristics = h] \in View
    BY InputsAssumption, SMTT(90) DEF TypeOK, View
  <2> QED
    BY <1>7, <1>10, <2>1, SMTT(90) DEF handle_heuristics_change
<1>11. ASSUME NEW i \in Slots, NEW q \in 0 .. SEQ_MOD - 1, handle_vote_info_reply(i, q)
       PROVE  VoteInv'
  BY <1>11, ReplyVotes
<1> QED
  BY <1>1, <1>2, <1>3, <1>4, <1>5, <1>6, <1>8, <1>9, <1>10, <1>11, SMTT(90)
     DEF Next, Receive, on_disconnected, disconnect_client

\* The invariant always holds, together with those of the tables.
LEMMA Invariants == ASSUME ~ReInit PROVE Spec => [](TypeOK /\ TablesAgree /\ VoteInv)
<1>1. Init => TypeOK /\ TablesAgree /\ VoteInv
  BY TablesInit, VoteInit, SMTT(90)
<1>2. TypeOK /\ TablesAgree /\ VoteInv /\ [Next]_vars => (TypeOK /\ TablesAgree /\ VoteInv)'
  BY TablesStep, VoteStep, SMTT(90)
<1> QED
  BY <1>1, <1>2, PTL DEF Spec

-----------------------------------------------------------------------------
(***************************************************************************)
(* The theorems.                                                           *)
(***************************************************************************)

\* Members of one cluster have different node ids.
THEOREM UniqueNodeIdsCorrect == ASSUME ~ReInit PROVE Spec => []UniqueNodeIds
<1>1. VoteInv => UniqueNodeIds
  BY SMTT(90) DEF VoteInv
<1> QED
  BY <1>1, Invariants, PTL

\* Whatever the order of reports, joins, leaves and replies, a client whose
\* last VOTE_INFO was an ACK is in the partition its cluster chose last.
THEOREM AcksInside == ASSUME ~ReInit PROVE Spec => []AcksInsideQuoratePartition
<1>1. VoteInv => AcksInsideQuoratePartition
  BY SMTT(90) DEF VoteInv
<1> QED
  BY <1>1, Invariants, PTL

\* A cluster never waits for acknowledgements that nobody owes.
THEOREM TransferNeverStuck == ASSUME ~ReInit PROVE Spec => []TransferHasDebtor
<1>1. VoteInv => TransferHasDebtor
  BY SMTT(90) DEF VoteInv
<1> QED
  BY <1>1, Invariants, PTL

-----------------------------------------------------------------------------
(***************************************************************************)
(* NACK before ACK, as a property of the steps.                            *)
(***************************************************************************)

\* Steps that change no vote_info_seq of a member send nothing.
LEMMA SilentStep ==
  ASSUME \A j \in Slots : Active(j) /\ Active(j)' => ballots'[j].vote_info_seq = ballots[j].vote_info_seq
  PROVE  NacksDone
BY SMTT(90) DEF NacksDone, VoteInfoSent

\* A decision sends ACKs only when it has nobody to NACK.
LEMMA DecisionNacksDone ==
  ASSUME TypeOK, TablesAgree, NEW c \in ClusterIds, NEW W \in SUBSET ClientsOf(c), NEW d,
         Decided(sessions, ClientsOf(c), W, ballots, clusters[c], d),
         \A j \in Slots : Active(j)' => /\ Active(j)
                                        /\ sessions'[j].cluster = sessions[j].cluster
                                        /\ ballots'[j] = d.ballots[j],
         ClientsOf(c)' = W
  PROVE  NacksDone
<1> SUFFICES ASSUME NEW i \in Slots, NEW j \in Slots, VoteInfoSent(i, "ACK"), Active(j)',
                    sessions'[j].cluster = sessions'[i].cluster
             PROVE  ballots'[j].ff_state # "SENDING_NACK" /\ ~VoteInfoSent(j, "NACK")
  BY SMTT(90) DEF NacksDone
<1>1. /\ Active(i)' /\ ballots'[i] = d.ballots[i]
      /\ d.ballots[i].vote_info_seq # ballots[i].vote_info_seq
      /\ d.ballots[i].last_ack_nack = "ACK"
  BY SMTT(90) DEF VoteInfoSent
<1>2. sessions'[i].cluster = c
  <2>1. \A k \in Slots \ ClientsOf(c) : d.ballots[k] = ballots[k]
    BY ZenonT(90) DEF Decided
  <2>2. i \in ClientsOf(c)
    BY <1>1, <2>1, ZenonT(90)
  <2> QED
    BY <1>1, <2>2, SMTT(90) DEF ClientsOf
<1>3. i \in W /\ j \in W /\ i \in ClientsOf(c) /\ j \in ClientsOf(c)
  <2>1. i \in ClientsOf(c)' /\ j \in ClientsOf(c)'
    BY <1>1, <1>2, SMTT(90) DEF ClientsOf
  <2> QED
    BY <2>1, ZenonT(90)
<1>4. /\ d.cluster.state # "SENDING_NACKS"
      /\ \A k \in W : d.ballots[k].ff_state # "SENDING_NACK"
      /\ d.ballots[j].vote_info_seq # ballots[j].vote_info_seq => d.ballots[j].last_ack_nack = "ACK"
  <2>1. d.ballots # ballots
    BY <1>1, ZenonT(90)
  <2>2. /\ d.cluster.state = "SENDING_NACKS" <=> \E k \in W : d.ballots[k].ff_state = "SENDING_NACK"
        /\ \A k \in ClientsOf(c) :
             d.ballots[k].vote_info_seq # ballots[k].vote_info_seq
               => d.ballots[k].last_ack_nack = IF d.cluster.state = "SENDING_NACKS" THEN "NACK" ELSE "ACK"
    BY <2>1, ZenonT(90) DEF Decided
  <2>3. d.cluster.state # "SENDING_NACKS"
    BY <1>1, <1>3, <2>2, SMTT(90)
  <2> QED
    BY <1>3, <2>2, <2>3, ZenonT(90)
<1> QED
  BY <1>3, <1>4, SMTT(90) DEF VoteInfoSent

\* Every step respects the order of NACKs and ACKs, one case per action.
LEMMA NacksDoneStep ==
  ASSUME ~ReInit
  PROVE  TypeOK /\ TablesAgree /\ VoteInv /\ [Next]_vars => [NacksDone]_vars
<1> SUFFICES ASSUME TypeOK, TablesAgree, VoteInv, Next PROVE NacksDone
  BY SMTT(90) DEF vars
<1>1. ASSUME NEW i \in Slots, on_connect(i) PROVE NacksDone
  <2>1. ~Active(i) /\ \A j \in Slots \ {i} : ballots'[j] = ballots[j]
    BY <1>1 DEF on_connect, First, Active, TypeOK
  <2> QED
    BY <2>1, SilentStep, SMTT(90)
<1>2. ASSUME NEW i \in Slots, EndSession(i) PROVE NacksDone
  <2>1. /\ sessions' = [sessions EXCEPT ![i] = NewSession]
        /\ \A j \in Slots : sessions'[j] = IF j = i THEN NewSession ELSE sessions[j]
    BY <1>2, SMTT(90) DEF EndSession, TypeOK
  <2>2. \A j \in Slots : Active(j)' <=> Active(j) /\ j # i
    BY <2>1, SMTT(90) DEF Active, NewSession
  <2>3. CASE ~Active(i)
    <3>1. ballots' = [ballots EXCEPT ![i] = NewBallot]
      BY <1>2, <2>3, SMTT(90) DEF EndSession, leave_cluster
    <3>2. \A j \in Slots \ {i} : ballots'[j] = ballots[j]
      BY <3>1, SMTT(90) DEF TypeOK
    <3> QED
      BY <2>2, <3>2, SilentStep, SMTT(90)
  <2>4. CASE Active(i)
    <3>1. PICK c \in ClusterIds : c = sessions[i].cluster /\ c # NoCluster
      BY <2>4, SMTT(90) DEF TablesAgree, ClusterIds, NoCluster
    <3> DEFINE d == Decision(i, TRUE, views[i])
               W == ClientsOf(c) \ {i}
    <3>2. ballots' = [d.ballots EXCEPT ![i] = NewBallot]
      BY <1>2, <2>4, <3>1, ZenonT(90) DEF EndSession, leave_cluster
    <3>3. Walked(i, TRUE) = W
      BY <2>4, <3>1, SMTT(90) DEF Walked, skip_in_cluster_walk, ClientsOf, VoteInv, UniqueNodeIds
    <3>4. views[i] \in View
      BY DEF TypeOK
    <3>5. Decided(sessions, ClientsOf(c), W, ballots, clusters[c], d)
      BY <2>4, <3>1, <3>3, <3>4, DecisionFacts, ZenonT(90)
    <3> HIDE DEF d
    <3>6. \A j \in Slots \ {i} : ballots'[j] = d.ballots[j]
      BY <3>2, <3>5, SMTT(90) DEF Decided
    <3>7. ClientsOf(c)' = W
      BY <2>1, <2>2, SMTT(90) DEF ClientsOf
    <3> HIDE DEF W
    <3>8. W \in SUBSET ClientsOf(c)
      BY DEF W
    <3> QED
      BY <2>1, <2>2, <3>5, <3>6, <3>7, <3>8, DecisionNacksDone, SMTT(90)
  <2> QED
    BY <2>3, <2>4, SMTT(90)
<1>3. ASSUME NEW i \in Slots, UNCHANGED ballots PROVE NacksDone
  BY <1>3, SilentStep, SMTT(90)
<1>4. ASSUME NEW i \in Slots, Active(i), NEW v \in View, UNCHANGED sessions,
             RunFfsplit(i, v) \/ UNCHANGED <<ballots, clusters>>
      PROVE  NacksDone
  <2>1. CASE RunFfsplit(i, v)
    <3>1. PICK c \in ClusterIds : c = sessions[i].cluster
      BY <1>4, SMTT(90) DEF TablesAgree
    <3> DEFINE d == Decision(i, FALSE, v)
    <3>2. Walked(i, FALSE) = ClientsOf(c)
      BY <3>1, SMTT(90) DEF Walked, skip_in_cluster_walk
    <3>3. Decided(sessions, ClientsOf(c), ClientsOf(c), ballots, clusters[c], d)
      BY <1>4, <3>1, <3>2, DecisionFacts, ZenonT(90)
    <3>4. ballots' = d.ballots
      BY <2>1, SMTT(90) DEF RunFfsplit
    <3>5. ClientsOf(c)' = ClientsOf(c) /\ \A j \in Slots : Active(j)' <=> Active(j)
      BY <1>4 DEF ClientsOf, Active
    <3> HIDE DEF d
    <3> QED
      BY <1>4, <3>3, <3>4, <3>5, DecisionNacksDone, SMTT(90)
  <2>2. CASE UNCHANGED <<ballots, clusters>>
    BY <2>2, <1>3, <1>4, SMTT(90)
  <2> QED
    BY <1>4, <2>1, <2>2, SMTT(90)
<1>5. ASSUME NEW i \in Slots, NEW initial \in BOOLEAN, NEW l \in ConfigLists,
             handle_config_list(i, initial, l)
      PROVE  NacksDone
  <2>1. [views[i] EXCEPT !.config_list = l] \in View
    BY InputsAssumption, SMTT(90) DEF TypeOK, View
  <2> QED
    BY <1>4, <1>5, <2>1, SMTT(90) DEF handle_config_list
<1>6. ASSUME NEW i \in Slots, NEW m \in MembershipMsgs, handle_membership_list(i, m)
      PROVE  NacksDone
  <2>1. [views[i] EXCEPT !.last_ring_id = m.ring_id, !.membership_list = m.nodes,
                         !.last_heuristics = m.heuristics] \in View
    <3>1. m.ring_id \in RingIds /\ m.nodes \in SUBSET NodeIds /\ m.heuristics \in Heuristics
      BY InputsAssumption DEF MembershipMsg
    <3>2. views[i] \in View
      BY DEF TypeOK
    <3> QED
      BY <3>1, <3>2, ZenonT(90) DEF View
  <2> QED
    BY <1>4, <1>6, <2>1 DEF handle_membership_list
<1>7. ASSUME NEW i \in Slots, NEW h \in HeuristicsChanges, handle_heuristics_change(i, h)
      PROVE  NacksDone
  <2>1. [views[i] EXCEPT !.last_heuristics = h] \in View
    BY InputsAssumption, SMTT(90) DEF TypeOK, View
  <2> QED
    BY <1>4, <1>7, <2>1, SMTT(90) DEF handle_heuristics_change
<1>8. ASSUME NEW i \in Slots, NEW q \in 0 .. SEQ_MOD - 1, handle_vote_info_reply(i, q)
      PROVE  NacksDone
  <2> SUFFICES ASSUME NEW x \in Slots, NEW y \in Slots, VoteInfoSent(x, "ACK"), Active(y)',
                      sessions'[y].cluster = sessions'[x].cluster
               PROVE  ballots'[y].ff_state # "SENDING_NACK" /\ ~VoteInfoSent(y, "NACK")
    BY SMTT(90) DEF NacksDone
  <2>0. Replied(i, sessions[i].cluster)
    BY <1>8, ReplyFacts, ZenonT(90)
  <2>1. PICK c \in ClusterIds : Replied(i, c)
    BY <2>0, ZenonT(90) DEF Replied
  <2>2. /\ UNCHANGED sessions
        /\ \A j \in Slots \ ClientsOf(c) : ballots'[j] = ballots[j]
        /\ \A j \in ClientsOf(c) :
             \/ /\ ballots'[j].last_ack_nack = ballots[j].last_ack_nack
                /\ ballots'[j].vote_info_seq = ballots[j].vote_info_seq
             \/ /\ ballots'[j].last_ack_nack = "ACK"
                /\ In_state(ClientsOf(c), ballots', "SENDING_NACK") = {}
    BY <2>1, SMTT(90) DEF Replied
  <2>3. x \in ClientsOf(c) /\ In_state(ClientsOf(c), ballots', "SENDING_NACK") = {}
    BY <2>2, SMTT(90) DEF VoteInfoSent
  <2>4. y \in ClientsOf(c)
    BY <2>2, <2>3, SMTT(90) DEF ClientsOf, Active
  <2>5. ballots'[y].ff_state # "SENDING_NACK"
    BY <2>3, <2>4, SMTT(90) DEF In_state
  <2>6. ~VoteInfoSent(y, "NACK")
    BY <2>2, <2>4 DEF VoteInfoSent
  <2> QED
    BY <2>5, <2>6, SMTT(90)
<1> QED
  BY <1>1, <1>2, <1>3, <1>5, <1>6, <1>7, <1>8, ZenonT(90)
     DEF Next, Receive, on_disconnected, disconnect_client, handle_preinit, handle_init, handle_set_option

\* The server never sends an ACK while a client that the decision excludes has
\* yet to acknowledge its NACK, for any number of clients and clusters.
THEOREM NackBeforeAck == ASSUME ~ReInit PROVE Spec => AcksFollowNacks
<1>1. Spec => [][Next]_vars
  BY PTL DEF Spec
<1> QED
  BY <1>1, Invariants, NacksDoneStep, PTL DEF AcksFollowNacks
=============================================================================
