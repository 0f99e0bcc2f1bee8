------------------------------- MODULE Base64 -------------------------------
(***************************************************************************)
(* scram_base64_encode and scram_base64_decode, through which every SCRAM  *)
(* message and every stored SCRAM key passes.  Bytes and characters are    *)
(* numbers; the capacity of the output is never reached.                   *)
(***************************************************************************)
EXTENDS Integers, Sequences

CONSTANT Inputs     \* sequences of bytes

VARIABLES
  input,  \* what is encoded
  text,   \* its encoding
  output  \* what that is decoded to

vars == <<input, text, output>>

Equals == 61    \* '='

(* B64_TABLE: the character of a value below 64.                           *)
B64_TABLE(v) ==
  CASE v \in 0..25  -> 65 + v          \* 'A'..'Z'
    [] v \in 26..51 -> 97 + (v - 26)   \* 'a'..'z'
    [] v \in 52..61 -> 48 + (v - 52)   \* '0'..'9'
    [] v = 62       -> 43              \* '+'
    [] v = 63       -> 47              \* '/'

(* The four characters for the bytes at i, i + 1 and i + 2.                *)
Quad(s, i) ==
  LET B(k) == IF k <= Len(s) THEN s[k] ELSE 0
      b0 == B(i)  b1 == B(i + 1)  b2 == B(i + 2)
  IN <<B64_TABLE(b0 \div 4),
       B64_TABLE((b0 % 4) * 16 + b1 \div 16),
       IF i + 1 <= Len(s) THEN B64_TABLE((b1 % 16) * 4 + b2 \div 64) ELSE Equals,
       IF i + 2 <= Len(s) THEN B64_TABLE(b2 % 64) ELSE Equals>>

scram_base64_encode(s) ==
  LET f[n \in 0..((Len(s) + 2) \div 3)] ==
        IF n = 0 THEN <<>> ELSE f[n - 1] \o Quad(s, 3 * n - 2)
  IN f[(Len(s) + 2) \div 3]

(* B64_DECODE as it is laid out: sixteen entries to a row, in which the    *)
(* ranges do not start where the comments beside them say.                 *)
B64_DECODE(c) ==
  CASE c = 49         -> 62
    [] c \in 64..73   -> 48 + (c - 64)
    [] c \in 81..106  -> c - 81
    [] c = 115        -> 63
    [] c \in 129..154 -> 26 + (c - 129)
    [] OTHER          -> -1

(* One round of the loop.  Only the low fourteen bits of val are ever      *)
(* used.                                                                   *)
Round(st, c) ==
  LET v    == B64_DECODE(c)
      val  == (st.val * 64 + v) % 2^14
      bits == st.bits + 6
  IN IF st.stop \/ c \in {Equals, 0} THEN [st EXCEPT !.stop = TRUE]
     ELSE IF v < 0 THEN st
     ELSE IF bits < 8 THEN [st EXCEPT !.val = val, !.bits = bits]
     ELSE [st EXCEPT !.val = val, !.bits = bits - 8,
                     !.out = Append(@, (val \div 2^(bits - 8)) % 256)]

scram_base64_decode(t) ==
  LET start == [val |-> 0, bits |-> 0, out |-> <<>>, stop |-> FALSE]
      f[n \in 0..Len(t)] == IF n = 0 THEN start ELSE Round(f[n - 1], t[n])
  IN f[Len(t)].out

Init == input \in Inputs /\ text = <<>> /\ output = <<>>

Encode == /\ text = <<>> /\ text' = scram_base64_encode(input)
          /\ UNCHANGED <<input, output>>

Decode == /\ text # <<>> /\ output' = scram_base64_decode(text)
          /\ UNCHANGED <<input, text>>

Spec == Init /\ [][Encode \/ Decode]_vars

(* Decoding gives back the bytes that were encoded.                        *)
RoundTrip == [][Decode => output' = input]_vars

=============================================================================
