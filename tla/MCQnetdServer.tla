--------------------------- MODULE MCQnetdServer ---------------------------
(***************************************************************************)
(* Values for the constants of QnetdServer.                                *)
(***************************************************************************)
EXTENDS QnetdServer

Lowest == [mode |-> "LOWEST", node_id |-> NoNode]
Ring(n) == [node_id |-> 1, seq |-> n]
Rings3 == {Ring(n) : n \in 1 .. 3}
Rings1 == {Ring(1)}

\* What a corosync-qdevice client sends.
GoodInit(n) == [node_id |-> n, ring_id |-> Ring(1), heartbeat_interval |-> "IN_RANGE",
                tie_breaker |-> Lowest, decision_algorithm |-> "FFSPLIT"]
GoodInits == {GoodInit(n) : n \in NodeIds}

\* Next to good INITs, one with another tie breaker and ones that lack an option
\* or carry one that the server refuses.  Node 3 never connects.
MixedInits ==
  {GoodInit(1), GoodInit(2),
   [GoodInit(1) EXCEPT !.tie_breaker = [mode |-> "NODE_ID", node_id |-> 1]],
   [GoodInit(1) EXCEPT !.node_id = NoNode],
   [GoodInit(1) EXCEPT !.heartbeat_interval = "OUT_OF_RANGE"],
   [GoodInit(2) EXCEPT !.tie_breaker = NoTieBreaker],
   [GoodInit(1) EXCEPT !.decision_algorithm = "OTHER"]}

Report(r, S, h) == [ring_id |-> Ring(r), nodes |-> S, heuristics |-> h]

\* Nodes 1 and 2 together and apart.
SplitReports ==
  {Report(1, {1, 2}, "UNDEFINED"), Report(2, {1}, "UNDEFINED"), Report(3, {2}, "UNDEFINED")}

\* Node 3 is configured, or taken out of the configuration.
TwoOrThree == {{1, 2}, {1, 2, 3}}

\* Bound: at most one of the three is the case at a time: a client has changed
\* its option, node 3 is configured, a client came with another name or another
\* tie breaker; heuristics fail only in clusters without the last two.
OneVariation ==
  LET option == \E i \in Slots : ~sessions[i].keep_active_partition_tb
      third  == \E i \in Slots : 3 \in views[i].config_list
      other  == \E i \in Slots : \/ sessions[i].tie_breaker.mode # "LOWEST"
                                 \/ sessions[i].cluster_name = "b"
      failed == \E i \in Slots : views[i].last_heuristics = "FAIL"
  IN  ~(option /\ third) /\ ~(option /\ other) /\ ~(third /\ other) /\ ~(failed /\ (third \/ other))

None == {}
=============================================================================
