----------------------------- MODULE ByteOrder -----------------------------
(***************************************************************************)
(* Numbers as the bytes that hold them: in the JValue of a field           *)
(* (FieldAccess) and on the connection to a debugger (Packets).            *)
(***************************************************************************)
EXTENDS Integers

CONSTANT BYTE    \* the number of values of a byte, 256 in the code

ASSUME ByteAssumption == BYTE \in Nat \ {0} /\ BYTE % 2 = 0

Byte == 0 .. (BYTE - 1)

\* 1 << 8 k
Power[k \in 0 .. 8] == IF k = 0 THEN 1 ELSE BYTE * Power[k - 1]

\* (u1) (v >> 8 k)
Digit(v, k) == (v \div Power[k]) % BYTE

\* The number of n bytes, the least significant one first: each shifted to its place.
Value(bytes, n) ==
    LET sum[k \in 0 .. n] == IF k = 0 THEN 0 ELSE sum[k - 1] + bytes[k - 1] * Power[k - 1]
    IN sum[n]
=============================================================================
