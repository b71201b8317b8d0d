--------------------------- MODULE MCDiscordFront ----------------------------
(***************************************************************************)
(* Two processes: in one a second question is refused, so that messages    *)
(* wait for the queue lock; in the other two questions wait side by side.  *)
(***************************************************************************)
EXTENDS DiscordFront

CONSTANTS b1, b2

WaitingLimits == (b1 :> 1) @@ (b2 :> 2)
=============================================================================
