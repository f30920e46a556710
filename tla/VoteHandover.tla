---------------------------- MODULE VoteHandover ----------------------------
(***************************************************************************)
(* What the vote transfer promises to the clients of a cluster, whatever   *)
(* the algorithm that chooses the partitions: the vote is handed over in   *)
(* two phases.  A decision takes the vote from everybody outside the new   *)
(* partition first, and grants it inside only when each of them has        *)
(* answered its NACK, has left, or has been chosen again.                  *)
(***************************************************************************)
CONSTANTS
  Slots,      \* the clients' seats
  Clusters,
  Nodes,
  NoCluster,  \* the cluster of an empty seat
  NoNode      \* the node of an empty seat

VARIABLES
  cluster,  \* slot -> the cluster its client has joined
  node,     \* slot -> the node of that client
  chosen,   \* cluster -> the nodes that the latest decision chose
  acked,    \* slots whose latest vote is an ACK
  owing     \* slots that have not answered the NACK of the latest decision

vars == <<cluster, node, chosen, acked, owing>>

Members(c) == {i \in Slots : cluster[i] = c}

Init ==
  /\ cluster = [i \in Slots |-> NoCluster]
  /\ node = [i \in Slots |-> NoNode]
  /\ chosen = [c \in Clusters |-> {}]
  /\ acked = {}
  /\ owing = {}

\* A newcomer has no vote and owes nothing; no member is the same node.  The
\* first member finds no decision.
Join(i, c, n) ==
  /\ cluster[i] = NoCluster
  /\ \A j \in Members(c) : node[j] # n
  /\ cluster' = [cluster EXCEPT ![i] = c]
  /\ node' = [node EXCEPT ![i] = n]
  /\ chosen' = [chosen EXCEPT ![c] = IF Members(c) = {} THEN {} ELSE @]
  /\ UNCHANGED <<acked, owing>>

\* The clients in gone, none or one, leave their seats.
Vacate(gone) ==
  /\ cluster' = [i \in Slots |-> IF i \in gone THEN NoCluster ELSE cluster[i]]
  /\ node' = [i \in Slots |-> IF i \in gone THEN NoNode ELSE node[i]]

\* Cluster c chooses the nodes P, upon a report or as a client leaves.
Decide(c, P, gone) ==
  LET stay    == Members(c) \ gone
      inside  == {i \in stay : node[i] \in P}
      outside == stay \ inside
  IN  /\ chosen' = [chosen EXCEPT ![c] = P]
      /\ Vacate(gone)
      /\ owing' = (owing \ Members(c)) \cup outside
      /\ acked' = (acked \ Members(c))
                    \cup (IF outside = {} THEN inside ELSE inside \cap acked)

\* A client leaves and the decision is put off.
Leave(i) ==
  /\ cluster[i] # NoCluster
  /\ Vacate({i})
  /\ acked' = acked \ {i}
  /\ owing' = owing \ {i}
  /\ UNCHANGED chosen

\* A client answers its NACK.  The last answer lets ACKs go out inside the
\* chosen partition.
Answer(i) ==
  LET c == cluster[i]
  IN  /\ i \in owing
      /\ owing' = owing \ {i}
      /\ \/ UNCHANGED acked
         \/ /\ owing' \cap Members(c) = {}
            /\ \E S \in SUBSET {j \in Members(c) : node[j] \in chosen[c]} : acked' = acked \cup S
      /\ UNCHANGED <<cluster, node, chosen>>

Next ==
  \/ \E i \in Slots : Leave(i) \/ Answer(i)
  \/ \E i \in Slots, c \in Clusters, n \in Nodes : Join(i, c, n)
  \/ \E c \in Clusters, P \in SUBSET Nodes :
       \/ Decide(c, P, {})
       \/ \E i \in Members(c) : Decide(c, P, {i})

Spec == Init /\ [][Next]_vars
=============================================================================
