--------------------------- MODULE HandoverProofs ---------------------------
(***************************************************************************)
(* The server implements VoteHandover for any number of clients, clusters, *)
(* nodes and rings, as long as no client repeats its INIT.  Each handler   *)
(* is mapped to one step of the abstract specification, or to none; the    *)
(* invariants of VoteTransferProofs give the facts that the mapping needs. *)
(***************************************************************************)
EXTENDS VoteTransferProofs

\* What the abstract variables are mapped to.
Node(i) == IF Active(i) THEN sessions[i].node_id ELSE NoNode
Acked == {i \in Slots : Active(i) /\ ballots[i].last_ack_nack = "ACK"}
Owing == {i \in Slots : Active(i) /\ ballots[i].ff_state = "SENDING_NACK"}

\* The members of a cluster are its ACTIVE clients.
LEMMA MembersAreClients ==
  ASSUME TablesAgree, NEW c \in ClusterIds
  PROVE  Handover!Members(c) = ClientsOf(c)
<1>1. c # NoCluster
  BY DEF ClusterIds, NoCluster
<1> QED
  BY <1>1, SMTT(90) DEF Handover!Members, ClientsOf, TablesAgree

\* A step that changes neither the seats nor the votes is no step.
LEMMA QuietHandover ==
  ASSUME \A j \in Slots : /\ sessions'[j].cluster = sessions[j].cluster
                          /\ Node(j)' = Node(j),
         Acked' = Acked, Owing' = Owing,
         \A e \in ClusterIds : clusters'[e].quorate_partition = clusters[e].quorate_partition
  PROVE  UNCHANGED Handover!vars
<1>1. [i \in Slots |-> sessions'[i].cluster] = [i \in Slots |-> sessions[i].cluster]
  BY SMTT(90)
<1>2. [i \in Slots |-> Node(i)'] = [i \in Slots |-> Node(i)]
  BY SMTT(90)
<1>3. [c \in ClusterIds |-> clusters'[c].quorate_partition]
        = [c \in ClusterIds |-> clusters[c].quorate_partition]
  BY SMTT(90)
<1> QED
  BY <1>1, <1>2, <1>3, ZenonT(90) DEF Handover!vars, Node, Acked, Owing

\* What a decision d for the partition q does to the clients in W: those outside
\* q owe an answer and hold no ACK, those inside owe none and get a new ACK only
\* if nobody is outside.
Decides(W, q, d) ==
  \A j \in W :
    /\ d.ballots[j].ff_state = "SENDING_NACK" <=> sessions[j].node_id \notin q
    /\ d.ballots[j].last_ack_nack = "ACK"
         <=> /\ sessions[j].node_id \in q
             /\ \/ \A k \in W : sessions[k].node_id \in q
                \/ ballots[j].last_ack_nack = "ACK"

\* A decision that is not put off does this to the clients that stay.
LEMMA DecidedVotes ==
  ASSUME NEW c \in ClusterIds, NEW W \in SUBSET ClientsOf(c), NEW d,
         Decided(sessions, ClientsOf(c), W, ballots, clusters[c], d),
         d.cluster.state # "WAITING_FOR_STABLE_MEMBERSHIP"
  PROVE  Decides(W, d.cluster.quorate_partition, d)
<1> DEFINE q == d.cluster.quorate_partition
<1>1. /\ \A i \in W : IF sessions[i].node_id \in q
                      THEN d.ballots[i].ff_state = "SENDING_ACK"
                      ELSE /\ d.ballots[i].ff_state = "SENDING_NACK"
                           /\ d.ballots[i].last_ack_nack = "NACK"
      /\ \A i \in W : sessions[i].node_id \in q =>
           d.ballots[i].last_ack_nack =
             IF d.cluster.state = "SENDING_NACKS" THEN ballots[i].last_ack_nack ELSE "ACK"
      /\ d.cluster.state = "SENDING_NACKS" <=> \E i \in W : d.ballots[i].ff_state = "SENDING_NACK"
  BY SMTT(90) DEF Decided
<1> HIDE DEF q
<1>2. Decides(W, q, d)
  BY <1>1, SMTT(90) DEF Decides
<1> QED
  BY <1>2 DEF q

\* A step that applies the decision d to cluster c, where the clients in W stay.
Applied(c, W, d) ==
  /\ \A j \in W : /\ Active(j)' /\ sessions'[j].cluster = c
                  /\ sessions'[j].node_id = sessions[j].node_id
                  /\ ballots'[j] = d.ballots[j]
  /\ \A j \in ClientsOf(c) \ W : ~Active(j)' /\ sessions'[j].cluster = NoCluster
  /\ \A j \in Slots \ ClientsOf(c) : /\ Active(j)' <=> Active(j)
                                     /\ sessions'[j].cluster = sessions[j].cluster
                                     /\ Node(j)' = Node(j)
                                     /\ Active(j) => ballots'[j] = ballots[j]
  /\ \A e \in ClusterIds \ {c} : clusters'[e].quorate_partition = clusters[e].quorate_partition
  /\ W # {} => clusters'[c].quorate_partition = d.cluster.quorate_partition

\* If the decision is not put off, or the cluster is empty then, it is a Decide.
LEMMA DecideHandover ==
  ASSUME TypeOK', TablesAgree, NEW c \in ClusterIds, NEW W \in SUBSET ClientsOf(c), NEW d,
         Decided(sessions, ClientsOf(c), W, ballots, clusters[c], d), Applied(c, W, d),
         W = {} \/ d.cluster.state # "WAITING_FOR_STABLE_MEMBERSHIP",
         W = ClientsOf(c) \/ \E i \in ClientsOf(c) : W = ClientsOf(c) \ {i}
  PROVE  Handover!Next
<1> USE DEF Applied
<1> DEFINE P       == clusters'[c].quorate_partition
           gone    == ClientsOf(c) \ W
           inside  == {i \in W : Node(i) \in P}
           outside == W \ inside
<1>1. \A j \in ClientsOf(c) : j \in Slots /\ Active(j) /\ sessions[j].cluster = c
  BY SMTT(90) DEF ClientsOf
<1>2. \A j \in W : Node(j) = sessions[j].node_id /\ Node(j)' = Node(j)
  BY <1>1, SMTT(90) DEF Node
<1>3. \A j \in gone : Node(j)' = NoNode
  BY <1>1, SMTT(90) DEF Node
<1>4. Handover!Members(c) = ClientsOf(c) /\ ClientsOf(c) \ gone = W
  BY MembersAreClients, SMTT(90)
<1>5. \A j \in W : /\ j \in Owing' <=> j \in outside
                   /\ j \in Acked' <=> j \in inside /\ (outside = {} \/ j \in Acked)
  <2>1. CASE W = {}
    BY <2>1
  <2>2. CASE W # {}
    <3>1. /\ P = d.cluster.quorate_partition
          /\ d.cluster.state # "WAITING_FOR_STABLE_MEMBERSHIP"
      BY <2>2
    <3>2. Decides(W, P, d)
      BY <3>1, DecidedVotes, ZenonT(90)
    <3> HIDE DEF P
    <3>3. /\ \A j \in W : j \in inside <=> sessions[j].node_id \in P
          /\ outside = {} <=> \A k \in W : sessions[k].node_id \in P
      BY <1>2, SMTT(90)
    <3> HIDE DEF inside
    <3> QED
      BY <1>1, <3>2, <3>3, SMTT(90) DEF Owing, Acked, Decides
  <2> QED
    BY <2>1, <2>2
<1>6. \A j \in gone : j \notin Owing' /\ j \notin Acked'
  BY SMTT(90) DEF Owing, Acked
<1>7. \A j \in Slots \ ClientsOf(c) : (j \in Owing' <=> j \in Owing) /\ (j \in Acked' <=> j \in Acked)
  BY SMTT(90) DEF Owing, Acked
<1>8. Owing \in SUBSET Slots /\ Owing' \in SUBSET Slots /\ Acked \in SUBSET Slots /\ Acked' \in SUBSET Slots
  BY DEF Owing, Acked
<1> HIDE DEF inside
<1>9. Owing' = (Owing \ ClientsOf(c)) \cup outside
  BY <1>1, <1>5, <1>6, <1>7, <1>8, SMTT(90)
<1>10. Acked' = (Acked \ ClientsOf(c)) \cup (IF outside = {} THEN inside ELSE inside \cap Acked)
  <2>1. inside \in SUBSET W
    BY DEF inside
  <2> HIDE DEF outside
  <2> QED
    BY <1>1, <1>5, <1>6, <1>7, <1>8, <2>1, SMTT(90)
<1>11. /\ \A j \in Slots : sessions'[j].cluster = IF j \in gone THEN NoCluster ELSE sessions[j].cluster
       /\ \A j \in Slots : Node(j)' = IF j \in gone THEN NoNode ELSE Node(j)
  BY <1>1, <1>2, <1>3, SMTT(90)
<1> DEFINE cluster == [i \in Slots |-> sessions[i].cluster]
           node == [i \in Slots |-> Node(i)]
           chosen == [e \in ClusterIds |-> clusters[e].quorate_partition]
<1>12. /\ [i \in Slots |-> sessions'[i].cluster] = [i \in Slots |-> IF i \in gone THEN NoCluster ELSE cluster[i]]
       /\ [i \in Slots |-> Node(i)'] = [i \in Slots |-> IF i \in gone THEN NoNode ELSE node[i]]
  <2> HIDE DEF gone
  <2> QED BY <1>11, SMTT(90)
<1>13. [e \in ClusterIds |-> clusters'[e].quorate_partition] = [chosen EXCEPT ![c] = P]
  <2>1. \A e \in ClusterIds : clusters'[e].quorate_partition = IF e = c THEN P ELSE chosen[e]
    BY SMTT(90)
  <2> DEFINE Q == [e \in ClusterIds |-> clusters'[e].quorate_partition]
  <2>2. \A e \in ClusterIds : Q[e] = IF e = c THEN P ELSE chosen[e]
    BY <2>1
  <2>3. Q = [e \in ClusterIds |-> Q[e]] /\ chosen = [e \in ClusterIds |-> chosen[e]]
    BY SMTT(90)
  <2> HIDE DEF chosen, P, Q
  <2>4. Q = [chosen EXCEPT ![c] = P]
    BY <2>2, <2>3, SMTT(90)
  <2> QED
    BY <2>4 DEF Q
<1>14. inside = {i \in W : node[i] \in P}
  BY <1>1, SMTT(90) DEF inside
<1>15. P \in SUBSET NodeIds
  <2>1. clusters'[c] \in Cluster
    BY SMTT(90) DEF TypeOK
  <2> QED
    BY <2>1, SMTT(90) DEF Cluster
<1>16. gone = {} \/ \E i \in Handover!Members(c) : gone = {i}
  BY <1>4, SMTT(90)
<1> HIDE DEF P
<1>17. CASE gone = {}
  <2>1. Handover!Decide(c, P, {})
    <3> HIDE DEF gone
    <3> QED BY <1>4, <1>9, <1>10, <1>12, <1>13, <1>14, <1>17, ZenonT(90)
               DEF Handover!Decide, Handover!Vacate, Node, Acked, Owing
  <2> QED
    BY <1>15, <2>1, ZenonT(90) DEF Handover!Next
<1>18. ASSUME NEW i \in Handover!Members(c), gone = {i} PROVE Handover!Next
  <2>1. Handover!Decide(c, P, {i})
    <3> HIDE DEF gone
    <3> QED BY <1>4, <1>9, <1>10, <1>12, <1>13, <1>14, <1>18, ZenonT(90)
               DEF Handover!Decide, Handover!Vacate, Node, Acked, Owing
  <2> QED
    BY <1>15, <1>18, <2>1, ZenonT(90) DEF Handover!Next
<1> QED
  BY <1>16, <1>17, <1>18

\* A step that only takes an ACTIVE client out of its cluster is a Leave.
LEMMA LeaveHandover ==
  ASSUME TablesAgree, NEW i \in Slots, Active(i), ~Active(i)', sessions'[i].cluster = NoCluster,
         \A j \in Slots \ {i} : /\ Active(j)' <=> Active(j)
                                /\ sessions'[j].cluster = sessions[j].cluster
                                /\ Node(j)' = Node(j)
                                /\ Active(j) => ballots'[j] = ballots[j],
         \A e \in ClusterIds : clusters'[e].quorate_partition = clusters[e].quorate_partition
  PROVE  Handover!Leave(i)
<1>1. sessions[i].cluster # NoCluster
  BY SMTT(90) DEF TablesAgree, ClusterIds, NoCluster
<1>2. Owing' = Owing \ {i} /\ Acked' = Acked \ {i}
  BY SMTT(90) DEF Owing, Acked
<1>3. Node(i)' = NoNode
  BY SMTT(90) DEF Node
<1> DEFINE cluster == [j \in Slots |-> sessions[j].cluster]
           node == [j \in Slots |-> Node(j)]
<1>4. /\ [j \in Slots |-> sessions'[j].cluster] = [j \in Slots |-> IF j \in {i} THEN NoCluster ELSE cluster[j]]
      /\ [j \in Slots |-> Node(j)'] = [j \in Slots |-> IF j \in {i} THEN NoNode ELSE node[j]]
      /\ cluster[i] # NoCluster
  BY <1>1, <1>3, SMTT(90)
<1>5. [e \in ClusterIds |-> clusters'[e].quorate_partition]
        = [e \in ClusterIds |-> clusters[e].quorate_partition]
  BY SMTT(90)
<1> QED
  BY <1>2, <1>4, <1>5, ZenonT(90) DEF Handover!Leave, Handover!Vacate, Node, Acked, Owing

\* A report that runs ffsplit is a Decide, or no step if the decision is put off.
LEMMA RunFfsplitHandover ==
  ASSUME TypeOK, TypeOK', TablesAgree, NEW i \in Slots, Active(i), NEW v \in View,
         RunFfsplit(i, v), UNCHANGED sessions
  PROVE  [Handover!Next]_(Handover!vars)
<1>1. PICK c \in ClusterIds : c = sessions[i].cluster
  BY DEF TablesAgree
<1> DEFINE d == Decision(i, FALSE, v)
<1>2. ballots' = d.ballots /\ clusters' = [clusters EXCEPT ![c] = d.cluster]
  BY <1>1 DEF RunFfsplit
<1>3. Walked(i, FALSE) = ClientsOf(c)
  BY <1>1 DEF Walked, skip_in_cluster_walk
<1>4. Decided(sessions, ClientsOf(c), ClientsOf(c), ballots, clusters[c], d)
  BY <1>1, <1>3, DecisionFacts, ZenonT(90)
<1> HIDE DEF d
<1>5. \A j \in Slots : (Active(j)' <=> Active(j)) /\ Node(j)' = Node(j)
  BY SMTT(90) DEF Active, Node
<1>6. \A e \in ClusterIds : clusters'[e] = IF e = c THEN d.cluster ELSE clusters[e]
  BY <1>2, SMTT(90) DEF TypeOK
<1>7. CASE d.cluster.state = "WAITING_FOR_STABLE_MEMBERSHIP"
  <2>1. ballots' = ballots /\ d.cluster.quorate_partition = clusters[c].quorate_partition
    BY <1>2, <1>4, <1>7, SMTT(90) DEF Decided
  <2>2. Acked' = Acked /\ Owing' = Owing
    BY <1>5, <2>1 DEF Acked, Owing
  <2>3. UNCHANGED Handover!vars
    BY <1>5, <1>6, <2>1, <2>2, QuietHandover, SMTT(90)
  <2> QED
    BY <2>3
<1>8. CASE d.cluster.state # "WAITING_FOR_STABLE_MEMBERSHIP"
  <2>1. \A j \in ClientsOf(c) : j \in Slots /\ Active(j) /\ sessions[j].cluster = c
    BY SMTT(90) DEF ClientsOf
  <2>2. \A j \in Slots \ ClientsOf(c) : ballots'[j] = ballots[j]
    BY <1>2, <1>4, SMTT(90) DEF Decided
  <2>3. Applied(c, ClientsOf(c), d)
    BY <1>2, <1>5, <1>6, <2>1, <2>2, SMTT(90) DEF Applied
  <2>4. Handover!Next
    BY <1>4, <1>8, <2>3, DecideHandover, ZenonT(90)
  <2> QED
    BY <2>4
<1> QED
  BY <1>7, <1>8

\* A member that leaves, with the decision its leaving triggers, is a Decide, or
\* a Leave if the decision is put off.
LEMMA EndSessionHandover ==
  ASSUME TypeOK, TypeOK', TablesAgree, VoteInv, NEW i \in Slots, EndSession(i), Active(i)
  PROVE  Handover!Next
<1>1. PICK c \in ClusterIds : c = sessions[i].cluster /\ c # NoCluster
  BY DEF TablesAgree, ClusterIds, NoCluster
<1> DEFINE d == Decision(i, TRUE, views[i])
           W == ClientsOf(c) \ {i}
           cl == IF d.cluster.members <= 1 THEN NewCluster
                 ELSE [d.cluster EXCEPT !.members = d.cluster.members - 1]
<1>2. /\ sessions' = [sessions EXCEPT ![i] = NewSession]
      /\ ballots' = [d.ballots EXCEPT ![i] = NewBallot]
      /\ clusters' = [clusters EXCEPT ![c] = cl]
  BY <1>1, ZenonT(90) DEF EndSession, leave_cluster
<1>3. Walked(i, TRUE) = W
  BY <1>1 DEF Walked, skip_in_cluster_walk, ClientsOf, VoteInv, UniqueNodeIds
<1>4. Decided(sessions, ClientsOf(c), W, ballots, clusters[c], d)
  <2>1. views[i] \in View
    BY DEF TypeOK
  <2> QED
    BY <1>1, <1>3, <2>1, DecisionFacts, ZenonT(90)
<1> HIDE DEF d
<1>5. \A j \in Slots : sessions'[j] = IF j = i THEN NewSession ELSE sessions[j]
  BY <1>2, SMTT(90) DEF TypeOK
<1>6. NewSession.phase = "FREE" /\ NewSession.cluster = NoCluster
  BY DEF NewSession
<1>7. \A j \in Slots : Active(j)' <=> Active(j) /\ j # i
  BY <1>5, <1>6, SMTT(90) DEF Active
<1>8. \A j \in Slots \ {i} : Node(j)' = Node(j)
  BY <1>5, <1>7, SMTT(90) DEF Node
<1>9. /\ d.ballots \in [Slots -> Ballot] /\ d.cluster \in Cluster
      /\ d.cluster.members = clusters[c].members
      /\ \A j \in Slots \ ClientsOf(c) : d.ballots[j] = ballots[j]
  BY <1>4 DEF Decided
<1>10. \A j \in Slots \ {i} : ballots'[j] = d.ballots[j]
  BY <1>2, <1>9, SMTT(90)
<1>11. \A e \in ClusterIds : clusters'[e] = IF e = c THEN cl ELSE clusters[e]
  BY <1>2, SMTT(90) DEF TypeOK
<1>12. i \in ClientsOf(c) /\ \A j \in ClientsOf(c) : j \in Slots /\ Active(j) /\ sessions[j].cluster = c
  BY <1>1, SMTT(90) DEF ClientsOf
<1>13. W # {} => d.cluster.members > 1
  <2>1. clusters[c].members = Cardinality(ClientsOf(c))
    BY SMTT(90) DEF TablesAgree
  <2>2. IsFiniteSet(ClientsOf(c)) /\ Cardinality(ClientsOf(c)) \in Nat /\ IsFiniteSet(W)
    BY <1>12, SlotSets, FS_CardinalityType, SMTT(90)
  <2>3. Cardinality(W) = Cardinality(ClientsOf(c)) - 1 /\ Cardinality(W) \in Nat
    BY <1>12, <2>2, FS_RemoveElement, FS_CardinalityType, SMTT(90)
  <2> QED
    BY <1>9, <2>1, <2>2, <2>3, FS_EmptySet, SMTT(90)
<1>14. W # {} => clusters'[c].quorate_partition = d.cluster.quorate_partition
  <2> SUFFICES ASSUME W # {} PROVE clusters'[c].quorate_partition = d.cluster.quorate_partition
    OBVIOUS
  <2>1. d.cluster.members \in Nat
    BY <1>9, ClientsAssumption, SMTT(90) DEF Cluster
  <2>2. clusters'[c] = [d.cluster EXCEPT !.members = d.cluster.members - 1]
    BY <1>11, <1>13, <2>1, SMTT(90)
  <2> QED
    BY <1>9, <2>2, SMTT(90) DEF Cluster
<1> HIDE DEF cl
<1>15. CASE W = {} \/ d.cluster.state # "WAITING_FOR_STABLE_MEMBERSHIP"
  <2>1. Applied(c, W, d)
    BY <1>5, <1>6, <1>7, <1>8, <1>9, <1>10, <1>11, <1>12, <1>14, SMTT(90) DEF Applied
  <2>2. W \in SUBSET ClientsOf(c) /\ \E k \in ClientsOf(c) : W = ClientsOf(c) \ {k}
    BY <1>12, SMTT(90)
  <2> HIDE DEF W
  <2> QED
    BY <1>4, <1>15, <2>1, <2>2, DecideHandover, ZenonT(90)
<1>16. CASE W # {} /\ d.cluster.state = "WAITING_FOR_STABLE_MEMBERSHIP"
  <2>1. d.ballots = ballots /\ d.cluster.quorate_partition = clusters[c].quorate_partition
    BY <1>4, <1>16, SMTT(90) DEF Decided
  <2>2. \A e \in ClusterIds : clusters'[e].quorate_partition = clusters[e].quorate_partition
    BY <1>11, <1>14, <1>16, <2>1, SMTT(90)
  <2>3. ~Active(i)' /\ sessions'[i].cluster = NoCluster
    BY <1>5, <1>6, <1>7, SMTT(90)
  <2>4. \A j \in Slots \ {i} : /\ Active(j)' <=> Active(j)
                               /\ sessions'[j].cluster = sessions[j].cluster
                               /\ Node(j)' = Node(j)
                               /\ Active(j) => ballots'[j] = ballots[j]
    BY <1>5, <1>7, <1>8, <1>10, <2>1, SMTT(90)
  <2>5. Handover!Leave(i)
    BY <2>2, <2>3, <2>4, LeaveHandover, ZenonT(90)
  <2> QED
    BY <2>5, ZenonT(90) DEF Handover!Next
<1> QED
  BY <1>15, <1>16

\* An INIT that is accepted is a Join.
LEMMA JoinHandover ==
  ASSUME TypeOK, TablesAgree, VoteInv, NEW i \in Slots, NEW c, Joins(i, c)
  PROVE  Handover!Next
<1>0. PICK n \in NodeIds : n = sessions'[i].node_id
  BY ZenonT(90) DEF Joins
<1> DEFINE cluster == [j \in Slots |-> sessions[j].cluster]
           node == [j \in Slots |-> Node(j)]
           chosen == [e \in ClusterIds |-> clusters[e].quorate_partition]
<1>1. /\ c \in ClusterIds /\ ~Active(i) /\ UNCHANGED ballots
      /\ Active(i)' /\ sessions'[i].cluster = c
      /\ \A j \in Slots \ {i} : sessions'[j] = sessions[j]
  BY ZenonT(90) DEF Joins
<1>2. /\ \A j \in ClientsOf(c) : sessions[j].node_id # n
      /\ \A e \in ClusterIds \ {c} : clusters'[e] = clusters[e]
      /\ ClientsOf(c) = {} => clusters'[c].quorate_partition = {}
      /\ ClientsOf(c) # {} => clusters'[c].quorate_partition = clusters[c].quorate_partition
  BY <1>0, ZenonT(90) DEF Joins
<1>3. \A j \in Slots \ {i} : (Active(j)' <=> Active(j)) /\ Node(j)' = Node(j)
  BY <1>1, SMTT(90) DEF Active, Node
<1>4. Node(i)' = n
  BY <1>0, <1>1 DEF Node
<1>5. Acked' = Acked /\ Owing' = Owing
  <2>1. ballots[i] = NewBallot
    BY <1>1 DEF VoteInv, IdleBallots
  <2>2. ballots[i].last_ack_nack # "ACK" /\ ballots[i].ff_state # "SENDING_NACK"
    BY <2>1 DEF NewBallot
  <2> QED
    BY <1>1, <1>3, <2>2, SMTT(90) DEF Acked, Owing
<1>6. Handover!Members(c) = ClientsOf(c)
  BY <1>1, MembersAreClients, SMTT(90)
<1>7. cluster[i] = NoCluster
  BY <1>1, SMTT(90) DEF TablesAgree
<1>8. \A j \in ClientsOf(c) : node[j] # n
  BY <1>2, SMTT(90) DEF Node, ClientsOf
<1>9. [j \in Slots |-> sessions'[j].cluster] = [cluster EXCEPT ![i] = c]
  <2> DEFINE Q == [j \in Slots |-> sessions'[j].cluster]
  <2>1. \A j \in Slots : Q[j] = IF j = i THEN c ELSE cluster[j]
    BY <1>1, SMTT(90)
  <2>2. Q = [j \in Slots |-> Q[j]] /\ cluster = [j \in Slots |-> cluster[j]]
    BY SMTT(90)
  <2> HIDE DEF Q, cluster
  <2>3. Q = [cluster EXCEPT ![i] = c]
    BY <2>1, <2>2, SMTT(90)
  <2> QED
    BY <2>3 DEF Q
<1>10. [j \in Slots |-> Node(j)'] = [node EXCEPT ![i] = n]
  <2> DEFINE Q == [j \in Slots |-> Node(j)']
  <2>1. \A j \in Slots : Q[j] = IF j = i THEN n ELSE node[j]
    BY <1>3, <1>4, SMTT(90)
  <2>2. Q = [j \in Slots |-> Q[j]] /\ node = [j \in Slots |-> node[j]]
    BY SMTT(90)
  <2> HIDE DEF Q, node
  <2>3. Q = [node EXCEPT ![i] = n]
    BY <2>1, <2>2, SMTT(90)
  <2> QED
    BY <2>3 DEF Q
<1>11. [e \in ClusterIds |-> clusters'[e].quorate_partition]
         = [chosen EXCEPT ![c] = IF ClientsOf(c) = {} THEN {} ELSE chosen[c]]
  <2> DEFINE Q == [e \in ClusterIds |-> clusters'[e].quorate_partition]
             P == IF ClientsOf(c) = {} THEN {} ELSE chosen[c]
  <2>1. \A e \in ClusterIds : Q[e] = IF e = c THEN P ELSE chosen[e]
    BY <1>1, <1>2, SMTT(90)
  <2>2. Q = [e \in ClusterIds |-> Q[e]] /\ chosen = [e \in ClusterIds |-> chosen[e]]
    BY SMTT(90)
  <2> HIDE DEF Q, P, chosen
  <2>3. Q = [chosen EXCEPT ![c] = P]
    BY <1>1, <2>1, <2>2, SMTT(90)
  <2> QED
    BY <2>3 DEF Q, P
<1>12. Handover!Join(i, c, n)
  BY <1>5, <1>6, <1>7, <1>8, <1>9, <1>10, <1>11, ZenonT(90)
     DEF Handover!Join, Node, Acked, Owing
<1>13. c \in ClusterIds
  BY <1>1
<1> QED
  BY <1>12, <1>13, ZenonT(90) DEF Handover!Next

\* A reply that is accepted is an Answer, or no step if it does not answer a NACK.
LEMMA ReplyHandover ==
  ASSUME TypeOK, TablesAgree, VoteInv, NEW i \in Slots, NEW c, c = sessions[i].cluster, Replied(i, c)
  PROVE  [Handover!Next]_(Handover!vars)
<1>1. /\ Active(i) /\ c \in ClusterIds /\ UNCHANGED sessions
      /\ \A j \in Slots : ballots'[j].ff_state =
                            IF j = i THEN "WAITING_FOR_CHANGE" ELSE ballots[j].ff_state
      /\ \A j \in Slots \ ClientsOf(c) : ballots'[j] = ballots[j]
      /\ \A j \in ClientsOf(c) :
           \/ ballots'[j].last_ack_nack = ballots[j].last_ack_nack
           \/ /\ ballots'[j].last_ack_nack = "ACK"
              /\ ballots'[j].ff_state = "SENDING_ACK"
              /\ In_state(ClientsOf(c), ballots', "SENDING_NACK") = {}
              /\ clusters[c].state = "SENDING_NACKS"
      /\ \A e \in ClusterIds : clusters'[e].quorate_partition = clusters[e].quorate_partition
  BY SMTT(90) DEF Replied
<1>2. \A j \in Slots : (Active(j)' <=> Active(j)) /\ Node(j)' = Node(j)
  BY <1>1, SMTT(90) DEF Active, Node
<1>3. Owing' = Owing \ {i}
  BY <1>1, <1>2, SMTT(90) DEF Owing
<1>4. \A j \in ClientsOf(c) : j \in Slots /\ Active(j) /\ sessions[j].cluster = c
  BY SMTT(90) DEF ClientsOf
<1>5. i \in ClientsOf(c)
  BY <1>1, SMTT(90) DEF ClientsOf
<1>6. Acked \subseteq Acked' /\ \A j \in Acked' \ Acked :
        /\ j \in ClientsOf(c) /\ ballots[j].ff_state = "SENDING_ACK"
        /\ In_state(ClientsOf(c), ballots', "SENDING_NACK") = {}
        /\ clusters[c].state = "SENDING_NACKS"
  BY <1>1, <1>2, SMTT(90) DEF Acked
<1>7. CASE Acked' = Acked /\ i \notin Owing
  <2>1. Owing' = Owing
    BY <1>3, <1>7, SMTT(90)
  <2>2. \A j \in Slots : sessions'[j].cluster = sessions[j].cluster
    BY <1>1
  <2>3. UNCHANGED Handover!vars
    BY <1>1, <1>2, <1>7, <2>1, <2>2, QuietHandover, SMTT(90)
  <2> QED
    BY <2>3
<1>8. CASE Acked' # Acked \/ i \in Owing
  <2>1. i \in Owing
    <3>1. CASE Acked' # Acked
      <4>0. \E k : k \in Acked' \ Acked
        BY <1>6, <3>1
      <4>1. /\ In_state(ClientsOf(c), ballots', "SENDING_NACK") = {}
            /\ clusters[c].state = "SENDING_NACKS"
        BY <1>6, <4>0, ZenonT(90)
      <4>2. PICK j \in ClientsOf(c) : ballots[j].ff_state = "SENDING_NACK"
        BY <1>1, <4>1, SMTT(90) DEF VoteInv, TransferHasDebtor, In_state
      <4>3. j = i
        BY <1>1, <1>4, <4>1, <4>2, SMTT(90) DEF In_state
      <4> QED
        BY <1>1, <4>2, <4>3, SMTT(90) DEF Owing
    <3> QED
      BY <1>8, <3>1
  <2> DEFINE cluster == [j \in Slots |-> sessions[j].cluster]
             node == [j \in Slots |-> Node(j)]
             chosen == [e \in ClusterIds |-> clusters[e].quorate_partition]
             T == {j \in ClientsOf(c) : node[j] \in chosen[c]}
  <2>2. /\ [j \in Slots |-> sessions'[j].cluster] = cluster
        /\ [j \in Slots |-> Node(j)'] = node
        /\ [e \in ClusterIds |-> clusters'[e].quorate_partition] = chosen
    BY <1>1, <1>2, SMTT(90)
  <2>3. /\ Handover!Members(cluster[i]) = ClientsOf(c)
        /\ {j \in Handover!Members(cluster[i]) : node[j] \in chosen[cluster[i]]} = T
    <3>1. cluster[i] = c
      OBVIOUS
    <3>2. Handover!Members(cluster[i]) = ClientsOf(c)
      BY <1>1, <3>1, SMTT(90) DEF Handover!Members, ClientsOf, TablesAgree, ClusterIds, NoCluster
    <3> QED
      BY <3>1, <3>2, ZenonT(90)
  <2>4. \/ Acked' = Acked
        \/ /\ Owing' \cap ClientsOf(c) = {}
           /\ \E S \in SUBSET T : Acked' = Acked \cup S
    <3> SUFFICES ASSUME Acked' # Acked
                 PROVE  /\ Owing' \cap ClientsOf(c) = {}
                        /\ \E S \in SUBSET T : Acked' = Acked \cup S
      OBVIOUS
    <3>0. \E k : k \in Acked' \ Acked
      BY <1>6
    <3>1. In_state(ClientsOf(c), ballots', "SENDING_NACK") = {}
      BY <1>6, <3>0, ZenonT(90)
    <3>2. Owing' \cap ClientsOf(c) = {}
      BY <3>1, SMTT(90) DEF Owing, In_state
    <3>3. \A j \in ClientsOf(c) : ballots[j].ff_state = "SENDING_ACK" => j \in T
      BY <1>1, <1>4, SMTT(90) DEF VoteInv, PendingInsideQuoratePartition, Node
    <3> HIDE DEF T
    <3>4. (Acked' \ Acked) \in SUBSET T /\ Acked' = Acked \cup (Acked' \ Acked)
      BY <1>6, <3>3, SMTT(90)
    <3> QED
      BY <3>2, <3>4
  <2> HIDE DEF T
  <2>5. Handover!Answer(i)
    BY <1>3, <2>1, <2>2, <2>3, <2>4, ZenonT(90) DEF Handover!Answer, Node, Acked, Owing
  <2> QED
    BY <2>5, ZenonT(90) DEF Handover!Next
<1> QED
  BY <1>7, <1>8

-----------------------------------------------------------------------------
\* The empty tables are mapped to the initial state of the hand-over.
LEMMA HandoverInit == Init => Handover!Init
<1> SUFFICES ASSUME Init PROVE Handover!Init
  OBVIOUS
<1>1. \A i \in Slots : sessions[i].cluster = NoCluster /\ ~Active(i)
  BY SMTT(90) DEF Init, NewSession, Active
<1>2. \A c \in ClusterIds : clusters[c].quorate_partition = {}
  BY SMTT(90) DEF Init, NewCluster
<1>3. /\ [i \in Slots |-> sessions[i].cluster] = [i \in Slots |-> NoCluster]
      /\ [i \in Slots |-> Node(i)] = [i \in Slots |-> NoNode]
      /\ [c \in ClusterIds |-> clusters[c].quorate_partition] = [c \in ClusterIds |-> {}]
  BY <1>1, <1>2, SMTT(90) DEF Node
<1>4. Acked = {} /\ Owing = {}
  BY <1>1, SMTT(90) DEF Acked, Owing
<1> QED
  BY <1>3, <1>4, ZenonT(90) DEF Handover!Init, Node, Acked, Owing

\* A step that sends no vote and moves no session into or out of a cluster.
LEMMA NoVoteHandover ==
  ASSUME TablesAgree,
         \A j \in Slots : /\ Active(j)' <=> Active(j)
                          /\ sessions'[j].cluster = sessions[j].cluster
                          /\ Active(j) => /\ sessions'[j].node_id = sessions[j].node_id
                                          /\ ballots'[j] = ballots[j],
         UNCHANGED clusters
  PROVE  [Handover!Next]_(Handover!vars)
<1>1. Acked' = Acked /\ Owing' = Owing
  BY SMTT(90) DEF Acked, Owing
<1>2. \A j \in Slots : Node(j)' = Node(j)
  BY SMTT(90) DEF Node
<1>3. UNCHANGED Handover!vars
  BY <1>1, <1>2, QuietHandover, SMTT(90)
<1> QED
  BY <1>3

\* Every step is one of the hand-over or none, one case per action.
LEMMA HandoverStep ==
  ASSUME ~ReInit, TypeOK, TypeOK', TablesAgree, VoteInv, [Next]_vars
  PROVE  [Handover!Next]_(Handover!vars)
<1> DEFINE Goal == [Handover!Next]_(Handover!vars)
<1>1. ASSUME UNCHANGED vars PROVE Goal
  BY <1>1, NoVoteHandover, SMTT(90) DEF vars, Active
<1>2. ASSUME NEW i \in Slots, on_connect(i) PROVE Goal
  <2>1. /\ sessions[i].phase = "FREE"
        /\ sessions' = [sessions EXCEPT ![i] = [NewSession EXCEPT !.phase = "WAIT_PREINIT"]]
        /\ ballots' = [ballots EXCEPT ![i] = NewBallot]
        /\ UNCHANGED clusters
    BY <1>2, SMTT(90) DEF on_connect, First
  <2>2. sessions'[i].phase = "WAIT_PREINIT" /\ sessions'[i].cluster = NoCluster
    BY <2>1, SMTT(90) DEF NewSession, TypeOK
  <2>3. \A j \in Slots \ {i} : sessions'[j] = sessions[j] /\ ballots'[j] = ballots[j]
    BY <2>1 DEF TypeOK
  <2>4. sessions[i].cluster = NoCluster
    BY <2>1, SMTT(90) DEF TablesAgree, Active
  <2> QED
    BY <2>1, <2>2, <2>3, <2>4, NoVoteHandover, SMTT(90) DEF Active
<1>3. ASSUME NEW i \in Slots, EndSession(i) PROVE Goal
  <2>1. CASE Active(i)
    BY <1>3, <2>1, EndSessionHandover, ZenonT(90)
  <2>2. CASE ~Active(i)
    <3>1. /\ sessions' = [sessions EXCEPT ![i] = NewSession]
          /\ ballots' = [ballots EXCEPT ![i] = NewBallot]
          /\ UNCHANGED clusters
      BY <1>3, <2>2, SMTT(90) DEF EndSession, leave_cluster
    <3>2. sessions'[i].phase = "FREE" /\ sessions'[i].cluster = NoCluster
      BY <3>1, SMTT(90) DEF TypeOK, NewSession
    <3>3. \A j \in Slots \ {i} : sessions'[j] = sessions[j] /\ ballots'[j] = ballots[j]
      BY <3>1, SMTT(90) DEF TypeOK
    <3>4. sessions[i].cluster = NoCluster
      BY <2>2, SMTT(90) DEF TablesAgree
    <3> QED
      BY <2>2, <3>1, <3>2, <3>3, <3>4, NoVoteHandover, SMTT(90) DEF Active
  <2> QED
    BY <2>1, <2>2
<1>4. ASSUME NEW i \in Slots, NEW n \in Names, handle_preinit(i, n) PROVE Goal
  <2>1. /\ sessions[i].phase = "WAIT_PREINIT" /\ sessions'[i].phase = "WAIT_INIT"
        /\ sessions'[i].cluster = sessions[i].cluster
        /\ \A j \in Slots \ {i} : sessions'[j] = sessions[j]
        /\ UNCHANGED <<ballots, clusters>>
    BY <1>4, SMTT(90) DEF handle_preinit, TypeOK, Session
  <2> QED
    BY <2>1, NoVoteHandover, SMTT(90) DEF Active
<1>5. ASSUME NEW i \in Slots, NEW m \in InitMsgs, handle_init(i, m) PROVE Goal
  <2>1. UNCHANGED ballots /\ ~Active(i)
    BY <1>5, ZenonT(90) DEF handle_init, Active
  <2>2. CASE sessions' = [sessions EXCEPT ![i] = init_stores(i, m)] /\ UNCHANGED clusters
    <3>1. /\ sessions'[i].phase = sessions[i].phase
          /\ sessions'[i].cluster = sessions[i].cluster
      BY <2>2, InitStores, SMTT(90) DEF TypeOK
    <3>2. \A j \in Slots \ {i} : sessions'[j] = sessions[j]
      BY <2>2, SMTT(90) DEF TypeOK
    <3> QED
      BY <2>1, <2>2, <3>1, <3>2, NoVoteHandover, SMTT(90) DEF Active
  <2>3. ASSUME NEW c \in init_joins(i, m),
               sessions' = [sessions EXCEPT ![i] =
                              [init_stores(i, m) EXCEPT !.phase = "ACTIVE", !.cluster = c]],
               clusters' = [clusters EXCEPT ![c] = joined(clusters[c], sessions[i].cluster_name)]
        PROVE  Goal
    <3>1. Joins(i, c)
      BY <2>1, <2>3, JoinFacts, ZenonT(90)
    <3> QED
      BY <3>1, JoinHandover, ZenonT(90)
  <2> QED
    BY <1>5, <2>2, <2>3, ZenonT(90) DEF handle_init
<1>6. ASSUME NEW i \in Slots, NEW k \in KeepActiveOptions, handle_set_option(i, k) PROVE Goal
  <2>1. /\ UNCHANGED <<ballots, clusters>>
        /\ \A j \in Slots : /\ sessions'[j].phase = sessions[j].phase
                            /\ sessions'[j].cluster = sessions[j].cluster
                            /\ sessions'[j].node_id = sessions[j].node_id
    BY <1>6, SMTT(90) DEF handle_set_option, TypeOK, Session
  <2> QED
    BY <2>1, NoVoteHandover, SMTT(90) DEF Active
<1>7. ASSUME NEW i \in Slots, Active(i), NEW v \in View, UNCHANGED sessions,
             RunFfsplit(i, v) \/ UNCHANGED <<ballots, clusters>>
      PROVE  Goal
  <2>1. CASE RunFfsplit(i, v)
    BY <1>7, <2>1, RunFfsplitHandover, ZenonT(90)
  <2>2. CASE UNCHANGED <<ballots, clusters>>
    BY <1>7, <2>2, NoVoteHandover, SMTT(90) DEF Active
  <2> QED
    BY <1>7, <2>1, <2>2
<1>8. ASSUME NEW i \in Slots, NEW initial \in BOOLEAN, NEW l \in ConfigLists,
             handle_config_list(i, initial, l)
      PROVE  Goal
  <2>1. [views[i] EXCEPT !.config_list = l] \in View
    <3>1. l \in SUBSET NodeIds
      BY InputsAssumption
    <3>2. views[i] \in View
      BY DEF TypeOK
    <3> QED
      BY <3>1, <3>2, ZenonT(90) DEF View
  <2> HIDE DEF Goal
  <2> QED
    BY <1>7, <1>8, <2>1, SMTT(90) DEF handle_config_list
<1>9. ASSUME NEW i \in Slots, NEW m \in MembershipMsgs, handle_membership_list(i, m) PROVE Goal
  <2>1. [views[i] EXCEPT !.last_ring_id = m.ring_id, !.membership_list = m.nodes,
                         !.last_heuristics = m.heuristics] \in View
    <3>1. m.ring_id \in RingIds /\ m.nodes \in SUBSET NodeIds /\ m.heuristics \in Heuristics
      BY InputsAssumption DEF MembershipMsg
    <3>2. views[i] \in View
      BY DEF TypeOK
    <3> QED
      BY <3>1, <3>2, ZenonT(90) DEF View
  <2> HIDE DEF Goal
  <2> QED
    BY <1>7, <1>9, <2>1 DEF handle_membership_list
<1>10. ASSUME NEW i \in Slots, NEW h \in HeuristicsChanges, handle_heuristics_change(i, h)
       PROVE  Goal
  <2>1. [views[i] EXCEPT !.last_heuristics = h] \in View
    <3>1. h \in Heuristics
      BY InputsAssumption
    <3>2. views[i] \in View
      BY DEF TypeOK
    <3> QED
      BY <3>1, <3>2, ZenonT(90) DEF View
  <2> HIDE DEF Goal
  <2> QED
    BY <1>7, <1>10, <2>1, SMTT(90) DEF handle_heuristics_change
<1>11. ASSUME NEW i \in Slots, NEW q \in 0 .. SEQ_MOD - 1, handle_vote_info_reply(i, q)
       PROVE  Goal
  <2>1. Replied(i, sessions[i].cluster)
    BY <1>11, ReplyFacts, ZenonT(90)
  <2>2. PICK c : c = sessions[i].cluster /\ Replied(i, c)
    BY <2>1, ZenonT(90) DEF Replied
  <2> QED
    BY <2>2, ReplyHandover, ZenonT(90)
<1> HIDE DEF Goal
<1>12. Goal
  BY <1>1, <1>2, <1>3, <1>4, <1>5, <1>6, <1>8, <1>9, <1>10, <1>11, SMTT(90)
     DEF Next, Receive, on_disconnected, disconnect_client
<1> QED
  BY <1>12 DEF Goal

\* The server hands the vote over in two phases, as VoteHandover promises, for
\* any number of clients, clusters, nodes and rings.
THEOREM HandoverImplemented == ASSUME ~ReInit PROVE Spec => ImplementsHandover
<1>1. ASSUME TypeOK /\ TablesAgree /\ VoteInv, (TypeOK /\ TablesAgree /\ VoteInv)', [Next]_vars
      PROVE  [Handover!Next]_(Handover!vars)
  BY <1>1, HandoverStep
<1>2. Spec => Init /\ [][Next]_vars
  BY DEF Spec
<1> QED
  BY <1>1, <1>2, HandoverInit, Invariants, PTL DEF ImplementsHandover, Handover!Spec
=============================================================================
