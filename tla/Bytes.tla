-------------------------------- MODULE Bytes -------------------------------
(***************************************************************************)
(* Bytes and the numbers the program makes of them.  A byte has Base       *)
(* values, 256 in the program.                                             *)
(***************************************************************************)
EXTENDS Integers, Sequences

CONSTANTS Base,             \* values of a byte
          PROTO_MAX_FRAME   \* the largest length of a frame

ASSUME BytesAssumption == Base \in Nat \ {0} /\ PROTO_MAX_FRAME \in Nat

Byte == 0 .. Base - 1

(* ntohl of the first four bytes, and the lengths of a frame that both     *)
(* sides refuse.                                                           *)
Total(s) == ((s[1] * Base + s[2]) * Base + s[3]) * Base + s[4]
Illegal(total) == total < 1 \/ total > PROTO_MAX_FRAME
=============================================================================
