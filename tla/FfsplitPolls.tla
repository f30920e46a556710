--------------------------- MODULE FfsplitPolls ---------------------------
(***************************************************************************)
(* The selection of Ffsplit over the polls of a settled network, against a *)
(* definition of the winner that knows no walk.  The nodes are split into  *)
(* blocks, any of them are connected, in any order of their slots, and     *)
(* every client reports its block and the whole configuration.             *)
(***************************************************************************)
EXTENDS Ffsplit

CONSTANTS
  Splits,        \* ways the configured nodes are split into blocks
  TieBreakers,   \* tie breakers the clients agreed on
  Quorates,      \* partitions an earlier decision may have made quorate
  Results        \* heuristics results

VARIABLES
  poll,    \* the poll to decide
  outcome  \* the partition selected, or Undecided

pollVars == <<poll, outcome>>

Undecided == {NoNode}
Orders(S) == {f \in [1 .. Cardinality(S) -> S] : \A i, j \in DOMAIN f : f[i] = f[j] => i = j}

\* The poll of clients in slots 1..k, of which trigger reports the heuristics
\* result h or is leaving.
NewPoll(split, order, stored, trigger, leaving, h, tb, keep, prev) ==
  LET k == Cardinality(DOMAIN order)
      block(n) == CHOOSE B \in split : n \in B
      views == [i \in 1 .. k |-> [last_ring_id    |-> NoRing,
                                  config_list     |-> UNION split,
                                  membership_list |-> block(order[i]),
                                  last_heuristics |-> stored[i]]]
  IN  [sess   |-> [i \in 1 .. k |-> [node_id |-> order[i], tie_breaker |-> tb,
                                     keep_active_partition_tb |-> keep]],
       active |-> 1 .. k,
       walked |-> IF leaving THEN (1 .. k) \ {trigger} ELSE 1 .. k,
       stored |-> views,
       eff    |-> IF leaving THEN views ELSE [views EXCEPT ![trigger].last_heuristics = h],
       prev   |-> prev]

PollInit ==
  /\ outcome = Undecided
  /\ \E split \in Splits : \E conn \in SUBSET (UNION split) \ {{}} :
     \E order \in Orders(conn), stored \in [1 .. Cardinality(conn) -> Results],
        trigger \in 1 .. Cardinality(conn), leaving \in BOOLEAN, h \in Results,
        tb \in TieBreakers, keep \in BOOLEAN, prev \in Quorates :
       poll = NewPoll(split, order, stored, trigger, leaving, h, tb, keep, prev)

Decide ==
  /\ outcome = Undecided
  /\ outcome' = ffsplit_select_partition(poll)
  /\ UNCHANGED poll

PollSpec == PollInit /\ [][Decide]_pollVars

-----------------------------------------------------------------------------
(***************************************************************************)
(* The winner, without a walk: candidates are ranked, score first, then    *)
(* connected clients, previous quorum and tie breaker.  The clients that   *)
(* count are those that stay: leave_cluster re-runs the algorithm "with    *)
(* the leaving client excluded" (server.cpp 484).  The score of a          *)
(* candidate counts the clients of its block once more for a PASS and once *)
(* less for a FAIL; a result that is only now reported counts for its own  *)
(* client's rank.                                                          *)
(***************************************************************************)
BlockSize(i) == Cardinality(poll.eff[i].membership_list)
ConfigSize(i) == Cardinality(poll.eff[i].config_list)
Majorities == {i \in poll.walked : 2 * BlockSize(i) > ConfigSize(i)}
Halves == {i \in poll.walked : 2 * BlockSize(i) = ConfigSize(i)}

Staying == poll.walked
Leaving == poll.active \ poll.walked

Mates(S, i) == {j \in S : poll.sess[j].node_id \in poll.eff[i].membership_list}
ResultFor(i, j) == IF i = j THEN poll.eff[j].last_heuristics ELSE poll.stored[j].last_heuristics
Points(i, r) == Cardinality({j \in Mates(Staying, i) : ResultFor(i, j) = r})
Bit(b) == IF b THEN 1 ELSE 0

Preferred(i) ==
  LET cfg == poll.eff[i].config_list
      tb  == poll.sess[i].tie_breaker
  IN  CHOOSE n \in cfg \cup {tb.node_id} :
        CASE tb.mode = "LOWEST"  -> n \in cfg /\ \A k \in cfg : n <= k
          [] tb.mode = "HIGHEST" -> n \in cfg /\ \A k \in cfg : n >= k
          [] tb.mode = "NODE_ID" -> n = tb.node_id

Rank(i) ==
  LET clients == Cardinality(Mates(Staying, i))
      score   == clients + Points(i, "PASS") - Points(i, "FAIL")
      kept    == /\ \A j \in Staying : poll.sess[j].keep_active_partition_tb
                 /\ poll.sess[i].node_id \in poll.prev
  IN  4 * ((MAX_CLIENTS + 1) * score + clients)
        + 2 * Bit(kept) + Bit(Preferred(i) \in poll.eff[i].membership_list)

\* A block with a strict majority of the configured nodes is selected whenever
\* one of its nodes is connected, whatever the slots, scores and earlier
\* decisions are.
MajorityWins ==
  outcome # Undecided => \A i \in Majorities : outcome = poll.eff[i].membership_list

\* In a 50:50 split the half of the best ranked candidate is selected, also when
\* a client leaves: the clients that stay decide (leave_cluster).
StayingClientsDecide ==
  outcome # Undecided /\ Majorities = {}
    => \A i \in Halves :
         (\A j \in Halves : Rank(j) <= Rank(i)) => outcome = poll.eff[i].membership_list

\* The same for all polls but those of a client that leaves a half in which
\* others stay: the best ranked half is selected, whatever slots the clients
\* have.  The walk of ffsplit_select_partition, which compares each candidate
\* only with the best one before it, does not depend on its order.
BestHalfWins ==
  (\A i \in Staying : Mates(Leaving, i) = {}) => StayingClientsDecide

\* Without a connected node of a majority or of a half nothing is selected: an
\* odd cluster in pieces has no quorate partition.
MinorityNeverWins ==
  outcome # Undecided /\ Majorities = {} /\ Halves = {} => outcome = {}
=============================================================================
