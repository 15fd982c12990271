--------------------------- MODULE MCBartokBridge ---------------------------
(***************************************************************************)
(* Small instances of BartokBridge.  Charges stand for whole replies: a     *)
(* basic reply costs 1 or 2, a genius reply 3; a basic hold is 3, so that   *)
(* one reply always fits, two may, and three never do.                      *)
(***************************************************************************)
EXTENDS BartokBridge, TLC

CONSTANTS s1, s2, b1, r1, r2, basic, genius

MCHold == basic :> 3 @@ genius :> 4
MCMinHold == basic :> 2 @@ genius :> 3
MCChargesOf == basic :> {1, 2} @@ genius :> {3}
MCBasicHold == basic :> 3
MCBasicMinHold == basic :> 2
MCBasicCharges == basic :> {1, 2}
MCOneCharge == basic :> {2}

SameRequests == Permutations({r1, r2})
SameRequestsAndSessions == SameRequests \union Permutations({s1, s2})
=============================================================================
