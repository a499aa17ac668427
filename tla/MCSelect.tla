------------------------------ MODULE MCSelect ------------------------------
(***************************************************************************)
(* Instance of SelectLoop for TLC: one descriptor that is read and         *)
(* written, and two that are only read.                                    *)
(***************************************************************************)
EXTENDS SelectLoop, TLC

MCInterests == 0 :> {{READ}, {WRITE}} @@ 1 :> {{READ}} @@ 2 :> {{READ}}

=============================================================================
