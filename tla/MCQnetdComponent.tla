-------------------------- MODULE MCQnetdComponent --------------------------
(***************************************************************************)
(* A bound on the behaviours of QnetdComponent.                            *)
(***************************************************************************)
EXTENDS QnetdComponent

CONSTANTS
  Ends,       \* the connection that may end
  Late,       \* a connection that comes while all slots are in use, and is refused
  MaxTotal    \* bound on the frames of the connections together

\* Of the two other connections one may end: which of them makes no difference.
Bounds ==
  /\ net[Late].state # "UP"
  /\ net[Late].state = "QUEUED" => OpenSlots = Slots
  /\ \A c \in Conns \ {Late, Ends} : net[c].state \in {"NEW", "QUEUED", "UP"}
  /\ \A c, d \in Conns \ {Late} : c # d => sent[c] + sent[d] <= MaxTotal * FRAME
=============================================================================
