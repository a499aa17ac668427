----------------------------- MODULE FrameHeader -----------------------------
(***************************************************************************)
(* The WebSocket frame header (websocket.c), written and read byte by      *)
(* byte.  Masking keys are random: one fixed key stands for all.           *)
(***************************************************************************)
EXTENDS Integers, SequencesExt

MaskingKey == <<1, 2, 3, 4>>
TooSmall == <<>>
Incomplete == [length |-> -1]

Bit(b) == IF b THEN 128 ELSE 0

\* n in k bytes, the high one first, and back.
Bytes[k \in 0..8] ==
  [n \in Nat |-> IF k = 0 THEN <<>> ELSE Append(Bytes[k - 1][n \div 256], n % 256)]
Big(bytes) == FoldLeft(LAMBDA n, b : n * 256 + b, 0, bytes)

\* The seven bits of the second byte, and the bytes that extend them.  (The
\* variant is off by one.)
ShortTo126(len) == len <= 126
Short(len) == len <= 125
LengthBits(len) == IF Short(len) THEN len ELSE IF len <= 65535 THEN 126 ELSE 127
Extension(bits) == CASE bits = 126 -> 2 [] bits = 127 -> 8 [] OTHER -> 0

\* The header of a frame, when header and payload fit in out_size.
cwh_ws_encode_frame(out_size, f) ==
  LET bits == LengthBits(f.len)
      header == <<Bit(f.fin) + f.opcode, Bit(f.mask) + bits>>
                  \o (IF Short(f.len) THEN <<>> ELSE Bytes[Extension(bits)][f.len])
                  \o (IF f.mask THEN MaskingKey ELSE <<>>)
  IN  IF out_size < Len(header) + f.len THEN TooSmall ELSE header

cwh_ws_parse_frame_header(data) ==
  LET bits == data[2] % 128
      mask == data[2] >= 128
      n == 2 + Extension(bits)
      length == n + (IF mask THEN 4 ELSE 0)
  IN  IF Len(data) < 2 \/ Len(data) < length THEN Incomplete
      ELSE [length |-> length, fin |-> data[1] >= 128, opcode |-> data[1] % 16, mask |-> mask,
            len |-> IF n = 2 THEN bits ELSE Big(SubSeq(data, 3, n))]

=============================================================================
