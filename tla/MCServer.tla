------------------------------ MODULE MCServer ------------------------------
(***************************************************************************)
(* Instances of AsyncServer for TLC.  Two clients are enough for a slot, a *)
(* descriptor and a batch to be contended; Connection fields: the first    *)
(* request asks for keep-alive in a way the code honours (the value is     *)
(* followed by a NUL), the second the usual way.  The answer to the first  *)
(* is longer than send_buf.                                                *)
(***************************************************************************)
EXTENDS AsyncServer, TLC

CONSTANTS c1, c2

MCField == [r \in 1 .. MaxRequest |-> IF r % 2 = 1 THEN <<"keep-alive", "NUL">>
                                                   ELSE <<"keep-alive">>]
\* The answer to the second request is shorter than send_buf.
MCLen == [r \in 1 .. MaxRequest |-> IF r % 2 = 1 THEN 3 ELSE 1]

MCEach   == [c \in Client |-> MaxRequest]
\* One client pipelines two requests, the other sends one.
MCUneven == [c \in Client |-> IF c = c1 THEN 2 ELSE 1]

Symmetry == Permutations(Client)

=============================================================================
