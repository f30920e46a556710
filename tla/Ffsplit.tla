------------------------------ MODULE Ffsplit ------------------------------
(***************************************************************************)
(* The ffsplit decision of the qnetd arbiter (ffsplit_* and eff_* of       *)
(* server.cpp): given what the connected clients of one cluster report, is *)
(* the membership stable, which partition becomes quorate, and which       *)
(* VOTE_INFO messages go out for it.                                       *)
(*                                                                         *)
(* Everything here is a function of a poll, the snapshot of one cluster    *)
(* that ffsplit_do takes through its TriggerView:                          *)
(*   sess    the sessions (node id, tie breaker, keep-active option);      *)
(*   active  the slots of the cluster's ACTIVE sessions;                   *)
(*   walked  those of them the cluster walks visit: all but the leaving    *)
(*           client (skip_in_cluster_walk);                                *)
(*   stored  the views the sessions have stored;                           *)
(*   eff     the views in effect: the trigger's incoming lists replace its *)
(*           stored ones (eff_config, eff_membership, eff_ring,            *)
(*           eff_heuristics);                                              *)
(*   prev    the partition the previous decision made quorate.             *)
(***************************************************************************)
EXTENDS Integers, FiniteSets

CONSTANTS
  MAX_CLIENTS,   \* size of the session table
  NodeIds,       \* corosync node ids
  RingIds,       \* ring ids clients report; only their equality matters
  NoRing,        \* the default-constructed RingId
  SEQ_MOD        \* vote_info_seq counts modulo this (2^32 in the code)

ASSUME ClientsAssumption == MAX_CLIENTS \in Nat \ {0}
ASSUME NodeIdsAssumption == NodeIds \subseteq Nat \ {0} /\ IsFiniteSet(NodeIds)
ASSUME NoRingAssumption == NoRing \notin RingIds
ASSUME SeqAssumption == SEQ_MOD \in Nat \ {0, 1}

Slots == 1 .. MAX_CLIENTS
NoSlot == 0            \* a null Session pointer
NoNode == 0            \* a node id that was never set

Heuristics == {"UNDEFINED", "PASS", "FAIL"}
FfClientState == {"WAITING_FOR_CHANGE", "SENDING_NACK", "SENDING_ACK"}
FfClusterState == {"WAITING_FOR_CHANGE", "WAITING_FOR_STABLE_MEMBERSHIP",
                   "SENDING_NACKS", "SENDING_ACKS"}

\* The part of a Session that its client reports.
View == [last_ring_id    : RingIds \cup {NoRing},
         config_list     : SUBSET NodeIds,
         membership_list : SUBSET NodeIds,
         last_heuristics : Heuristics]

\* The part of a Session that the vote transfer uses.
Ballot == [ff_state      : FfClientState,
           vote_info_seq : 0 .. SEQ_MOD - 1,
           last_ack_nack : {"UNDEFINED", "ACK", "NACK"}]

\* The walks over the session table stop at the first slot that matches.
First(S) == {i \in S : \A j \in S : i <= j}
client_of(p, S, n) == First({i \in S : p.sess[i].node_id = n})

-----------------------------------------------------------------------------
(***************************************************************************)
(* Stability: all clients report the same configuration, and the clients   *)
(* inside one partition report the same ring and the same membership.      *)
(***************************************************************************)
\* Faulty variant: only the configurations are compared.
is_stable_config_only(p) ==
  \A i, j \in p.walked : p.eff[i].config_list \subseteq p.eff[j].config_list

ffsplit_is_stable(p) ==
  /\ \A i, j \in p.walked : p.eff[i].config_list \subseteq p.eff[j].config_list
  /\ \A i \in p.walked : \A n \in p.eff[i].membership_list :
       \A j \in client_of(p, p.walked, n) :
         /\ p.eff[i].last_ring_id = p.eff[j].last_ring_id
         /\ p.eff[i].membership_list \subseteq p.eff[j].membership_list

ffsplit_is_preferred_partition(p, c) ==
  LET cfg == p.eff[c].config_list
      tb  == p.sess[c].tie_breaker
      preferred ==
        CASE tb.mode = "LOWEST"  -> {n \in cfg : \A k \in cfg : n <= k}
          [] tb.mode = "HIGHEST" -> {n \in cfg : \A k \in cfg : n >= k}
          [] tb.mode = "NODE_ID" -> {tb.node_id}
  IN  preferred \subseteq p.eff[c].membership_list

\* The connected clients of c's partition.  The walk does not skip a leaving
\* client, and of the incoming heuristics it uses only c's own.
ffsplit_partition_stats(p, c) ==
  LET clients == IF c = NoSlot THEN {}
                 ELSE UNION {client_of(p, p.active, n) : n \in p.eff[c].membership_list}
      h(i)    == IF i = c THEN p.eff[i].last_heuristics ELSE p.stored[i].last_heuristics
  IN  [clients |-> Cardinality(clients),
       pass    |-> Cardinality({i \in clients : h(i) = "PASS"}),
       fail    |-> Cardinality({i \in clients : h(i) = "FAIL"})]

keep_active_tb(p) == \A i \in p.active : p.sess[i].keep_active_partition_tb

\* Faulty variant: the number of connected clients is not compared.
wins_5050_score_only(p, c, best) ==
  LET score(st) == st.clients + (st.pass - st.fail)
      in(i) == p.sess[i].node_id \in p.prev
      wins(st1, st2) ==
        \/ score(st1) > score(st2)
        \/ /\ score(st1) = score(st2)
           /\ IF keep_active_tb(p) /\ best # NoSlot /\ in(c) # in(best)
              THEN in(c)
              ELSE ffsplit_is_preferred_partition(p, c)
  IN  wins(ffsplit_partition_stats(p, c), ffsplit_partition_stats(p, best))

\* Two halves of an even cluster: heuristics score, then connected clients,
\* then the previously quorate side, then the tie breaker.
wins_5050(p, c, best) ==
  LET score(st) == st.clients + (st.pass - st.fail)
      in(i) == p.sess[i].node_id \in p.prev
      wins(st1, st2) ==
        \/ score(st1) > score(st2)
        \/ /\ score(st1) = score(st2)
           /\ \/ st1.clients > st2.clients
              \/ /\ st1.clients = st2.clients
                 /\ IF keep_active_tb(p) /\ best # NoSlot /\ in(c) # in(best)
                    THEN in(c)
                    ELSE ffsplit_is_preferred_partition(p, c)
  IN  wins(ffsplit_partition_stats(p, c), ffsplit_partition_stats(p, best))

\* Faulty variants: the size of the partition is not compared with the half in
\* an even cluster; the half of an odd cluster, rounded down, counts as a half.
partition_better_any_size(p, c, best) ==
  \/ Cardinality(p.eff[c].membership_list) > Cardinality(p.eff[c].config_list) \div 2
  \/ Cardinality(p.eff[c].config_list) % 2 = 0 /\ wins_5050(p, c, best)

partition_better_no_parity(p, c, best) ==
  LET half == Cardinality(p.eff[c].config_list) \div 2
      size == Cardinality(p.eff[c].membership_list)
  IN  size > half \/ (size = half /\ wins_5050(p, c, best))

ffsplit_partition_better(p, c, best) ==
  LET half == Cardinality(p.eff[c].config_list) \div 2
      odd  == Cardinality(p.eff[c].config_list) % 2 # 0
      size == Cardinality(p.eff[c].membership_list)
  IN  \/ size > half
      \/ ~odd /\ size = half /\ wins_5050(p, c, best)

\* Clients that have reported both lists take part in the selection.
Candidates(p) == {i \in p.walked : /\ p.eff[i].config_list # {}
                                   /\ p.eff[i].membership_list # {}}

\* One pass over the session table that keeps the best candidate so far.
best_client(p) ==
  LET best[i \in 0 .. MAX_CLIENTS] ==
        IF i = 0 THEN NoSlot
        ELSE IF i \in Candidates(p) /\ ffsplit_partition_better(p, i, best[i - 1])
             THEN i ELSE best[i - 1]
  IN  best[MAX_CLIENTS]

\* Its partition; {} stands for "no partition can be quorate".
ffsplit_select_partition(p) ==
  UNION {p.eff[i].membership_list : i \in {best_client(p)} \cap Slots}

-----------------------------------------------------------------------------
(***************************************************************************)
(* The vote transfer.  b is the function from slots to ballots; the walk   *)
(* that sends the votes skips the leaving client.                          *)
(***************************************************************************)
\* Faulty variant: the clients outside the winning partition are told nothing.
update_states_no_nack(p, b, winner) ==
  [i \in Slots |->
     IF i \notin p.active THEN b[i]
     ELSE [b[i] EXCEPT !.ff_state =
             IF i \in p.walked /\ p.sess[i].node_id \in winner
             THEN "SENDING_ACK" ELSE "WAITING_FOR_CHANGE"]]

ffsplit_update_states(p, b, winner) ==
  [i \in Slots |->
     IF i \notin p.active THEN b[i]
     ELSE [b[i] EXCEPT !.ff_state =
             IF i \notin p.walked THEN "WAITING_FOR_CHANGE"
             ELSE IF p.sess[i].node_id \in winner THEN "SENDING_ACK" ELSE "SENDING_NACK"]]

In_state(S, b, st) == {i \in S : b[i].ff_state = st}

ffsplit_send_votes(p, b, vote) ==
  LET st == IF vote = "ACK" THEN "SENDING_ACK" ELSE "SENDING_NACK"
  IN  [i \in Slots |->
         IF i \in In_state(p.walked, b, st)
         THEN [b[i] EXCEPT !.vote_info_seq = (@ + 1) % SEQ_MOD, !.last_ack_nack = vote]
         ELSE b[i]]

\* Faulty variant: the ACKs go out together with the NACKs.
first_votes_no_order(p, b, cl) ==
  LET nacked == In_state(p.walked, b, "SENDING_NACK")
      acked  == In_state(p.walked, b, "SENDING_ACK")
  IN  [ballots |-> ffsplit_send_votes(p, ffsplit_send_votes(p, b, "NACK"), "ACK"),
       cluster |-> [cl EXCEPT !.state = IF nacked # {} THEN "SENDING_NACKS"
                                        ELSE IF acked # {} THEN "SENDING_ACKS"
                                        ELSE "WAITING_FOR_CHANGE"]]

\* NACKs first; ACKs at once only when there is nobody to NACK.
first_votes(p, b, cl) ==
  LET nacked == In_state(p.walked, b, "SENDING_NACK")
      acked  == In_state(p.walked, b, "SENDING_ACK")
  IN  [ballots |-> ffsplit_send_votes(p, b, IF nacked # {} THEN "NACK" ELSE "ACK"),
       cluster |-> [cl EXCEPT !.state = IF nacked # {} THEN "SENDING_NACKS"
                                        ELSE IF acked # {} THEN "SENDING_ACKS"
                                        ELSE "WAITING_FOR_CHANGE"]]

ffsplit_do(p, b, cl) ==
  LET winner == ffsplit_select_partition(p)
  IN  IF ~ffsplit_is_stable(p)
      THEN [ballots |-> b,
            cluster |-> [cl EXCEPT !.state = "WAITING_FOR_STABLE_MEMBERSHIP"]]
      ELSE first_votes(p, ffsplit_update_states(p, b, winner),
                       [cl EXCEPT !.quorate_partition = winner])
=============================================================================
