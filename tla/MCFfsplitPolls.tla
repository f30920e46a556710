-------------------------- MODULE MCFfsplitPolls --------------------------
(***************************************************************************)
(* Values for the constants of FfsplitPolls.                               *)
(***************************************************************************)
EXTENDS FfsplitPolls

FourAndThree == {{{1, 2}, {3, 4}}, {{1, 2, 3}, {4}}, {{1, 2}, {3}}, {{1}, {2}, {3}}}
TwoTieBreakers == {[mode |-> "LOWEST", node_id |-> NoNode], [mode |-> "NODE_ID", node_id |-> 3]}

\* Nothing, one of the halves, and a partition of an earlier split.
Earlier == {{}, {3, 4}, {1, 3}}
=============================================================================
