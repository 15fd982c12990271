---------------------------- MODULE MCEscrowNote ----------------------------
(***************************************************************************)
(* A small instance of EscrowNote, from the first run of setup_accounts on. *)
(* Settlements are one at a time and a script sees its own note only, so    *)
(* one note does; a field of 4 elements wraps as the real one.              *)
(***************************************************************************)
EXTENDS EscrowNote
=============================================================================
