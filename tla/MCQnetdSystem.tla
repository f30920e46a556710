--------------------------- MODULE MCQnetdSystem ---------------------------
(***************************************************************************)
(* Values for the constants of QnetdSystem.                                *)
(***************************************************************************)
EXTENDS QnetdSystem

Rings == [node_id : NodeIds, seq : 1 .. MaxRings]
Inits == {[node_id |-> n, ring_id |-> [node_id |-> 1, seq |-> 1],
           heartbeat_interval |-> "IN_RANGE",
           tie_breaker |-> [mode |-> "LOWEST", node_id |-> NoNode],
           decision_algorithm |-> "FFSPLIT"] : n \in NodeIds}
AllNodes == {NodeIds}
None == {}

\* The nodes join one after the other, the first time.
JoinInOrder ==
  faults.drops = 0 /\ faults.reboots = 0 =>
    \A n, k \in NodeIds : n < k /\ conn[k] # NoSlot => Joined(n)

\* Two faults beside the first change of the network, and a second change only
\* if nothing else happens.
RingsOrFaults == faults.drops + faults.flips + faults.reboots <= IF epoch <= 2 THEN 2 ELSE 0

\* Bound: a session has no more VOTE_INFOs without a reply than there are
\* sequence numbers, which are 2^32 in the code.
UnansweredFit ==
  \A i \in Slots : Len(down[i]) + Len(SelectSeq(up[i], LAMBDA f : f.type = "REPLY")) <= SEQ_MOD
=============================================================================
