------------------------------ MODULE MCClient ------------------------------
(***************************************************************************)
(* Instances of AsyncClient for TLC: requests to one host, answered as     *)
(* HTTP has it: the field's name is followed by a colon and its value by   *)
(* CRLF.                                                                   *)
(***************************************************************************)
EXTENDS AsyncClient, TLC

CONSTANTS r1, r2

MCHost    == [r \in Req |-> "host"]

Sized == [whole |-> 3, framing |-> "sized", finds |-> "length", length |-> 3, marks |-> {}]

\* Two pieces of body; the first ends a line that looks like the last chunk.
Chunked == [whole |-> 4, framing |-> "chunked", finds |-> "chunked", length |-> 0, marks |-> {3, 4}]

MCReply   == [r \in Req |-> IF r = r2 THEN Chunked ELSE Sized]
MCField   == [r \in Req |-> [name  |-> <<"connection", ":">>,
                             value |-> <<"keep-alive", "CRLF">>]]

=============================================================================
