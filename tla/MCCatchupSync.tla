--------------------------- MODULE MCCatchupSync ---------------------------
(* CatchupSync with frames 1, 2, ... : frame 3 is two units long, the       *)
(* others one.  The joiner's ticket lists every other node; its own frame,  *)
(* if any, is 4.                                                            *)
EXTENDS CatchupSync, SequencesExt

CONSTANT Joiner

SizeOf == [f \in Frames |-> IF f = 3 THEN 2 ELSE 1]
AuthorOf ==
  [f \in Frames |-> IF f = 4 THEN Joiner ELSE CHOOSE n \in Members \ {Joiner} : TRUE]
TicketPeers ==
  [n \in Nodes |-> IF n = Joiner THEN SetToSeq(Nodes \ {Joiner}) ELSE <<>>]
=============================================================================
