----------------------------- MODULE MCMemcheck -----------------------------
(***************************************************************************)
(* Instance of Memcheck for TLC: three addresses and a table of two, so    *)
(* that it fills.                                                          *)
(***************************************************************************)
EXTENDS Memcheck

=============================================================================
