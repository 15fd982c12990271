--------------------------- MODULE MCBartokCredits ---------------------------
(***************************************************************************)
(* Small instances of BartokCredits.  Three slots let a third request come  *)
(* between the claims of two that overlap; the second wallet competes for   *)
(* the queue.                                                               *)
(***************************************************************************)
EXTENDS BartokCredits
=============================================================================
