---------------------------- MODULE KvnetChecksum ----------------------------
(***************************************************************************)
(* The Internet checksum of utils.c: checksum computes it, and             *)
(* adjust_checksum repairs it when part of the packet is rewritten.  The   *)
(* first adds words in the byte order of the host, little-endian here,     *)
(* the second in network order.                                            *)
(*                                                                         *)
(* A byte has Byte values (256 in the code) and a word two bytes.  As its  *)
(* pointer arithmetic wants, adjust_checksum is called on whole words at   *)
(* an even offset.  Nothing in the driver calls either function.           *)
(***************************************************************************)
EXTENDS Integers, Sequences

CONSTANTS Byte,         \* values of an unsigned char
          MaxLen        \* bound: bytes of a packet

Base == Byte * Byte     \* values of an unsigned short
Wide == Base * Base     \* values of an unsigned int

ASSUME ChecksumAssumption == Byte \in Nat \ {0, 1} /\ MaxLen \in Nat

VARIABLES data,         \* the packet, but for its checksum field
          sum           \* the field, as two bytes in memory
vars == <<data, sum>>

Bytes == 0..Byte - 1
Words == 0..Base - 1

Host(lo, hi) == lo + Byte * hi      \* an unsigned short read from memory
Net(hi, lo) == Byte * hi + lo       \* the same through ntohs

\* Mutant: without the cast.
Bug_Complement(x) == -x - 1

\* (unsigned short) ~x: the operand is promoted to int.
Complement(x) == (-x - 1) % Base

-----------------------------------------------------------------------------
\* checksum.

\* The words, and an odd last byte as the low byte of a word.
HostSum(p) ==
    LET s[i \in 0..Len(p) \div 2] ==
            IF i = 0 THEN 0 ELSE (s[i - 1] + Host(p[2 * i - 1], p[2 * i])) % Wide
        odd == IF Len(p) % 2 = 1 THEN p[Len(p)] ELSE 0
    IN  (s[Len(p) \div 2] + odd) % Wide

\* Two folds; the second adds the carry of the first.
Fold(s) ==
    LET once == (s \div Base) + (s % Base)
    IN  (once + once \div Base) % Base

checksum(p) == Complement(Fold(HostSum(p)))

-----------------------------------------------------------------------------
\* adjust_checksum.

\* Mutant: the borrow is not subtracted.
Bug_Subtract(x, w) == (x - w) % Base

\* x -= w in an int; not positive: one less, and 16 bits of it.
Subtract(x, w) == IF x - w <= 0 THEN (x - w - 1) % Base ELSE x - w

\* Mutant: the carry stays in the int.
Bug_Plus(x, w) == x + w

\* x += w; with bit 16 set: one more, and 16 bits of it.
Plus(x, w) == IF (x + w) \div Base = 1 THEN (x + w + 1) % Base ELSE x + w

adjust_checksum(field, odata, ndata) ==
    LET n == Len(odata) \div 2
        out[i \in 0..n] == IF i = 0 THEN Complement(Net(field[1], field[2]))
                           ELSE Subtract(out[i - 1], Net(odata[2 * i - 1], odata[2 * i]))
        in[i \in 0..n] == IF i = 0 THEN out[n]
                          ELSE Plus(in[i - 1], Net(ndata[2 * i - 1], ndata[2 * i]))
        x == Complement(in[n])
    IN  <<x \div Byte, x % Byte>>

-----------------------------------------------------------------------------
\* A packet gets its checksum and is then rewritten piece by piece.

Init ==
    /\ \E n \in 0..MaxLen : data \in [1..n -> Bytes]
    /\ sum = <<checksum(data) % Byte, checksum(data) \div Byte>>

Rewrite(from, ndata) ==
    LET to == from + Len(ndata) - 1 IN
    /\ data' = [i \in 1..Len(data) |-> IF i \in from..to THEN ndata[i - from + 1] ELSE data[i]]
    /\ sum' = adjust_checksum(sum, SubSeq(data, from, to), ndata)

Next ==
    \E i, j \in 1..Len(data) \div 2 :
        i <= j /\ \E ndata \in [1..2 * (j - i + 1) -> Bytes] : Rewrite(2 * i - 1, ndata)

Spec == Init /\ [][Next]_vars

-----------------------------------------------------------------------------
\* Packet and field are bytes.
TypeOK == data \in Seq(Bytes) /\ sum \in Bytes \X Bytes

\* The sum of the network-order words of a packet (RFC 1071), the reference
\* definition: no folding, no wrapping, the odd byte is the high one.
NetSum(p) ==
    LET s[i \in 0..Len(p) \div 2] ==
            IF i = 0 THEN 0 ELSE s[i - 1] + Net(p[2 * i - 1], p[2 * i])
    IN  s[Len(p) \div 2] + IF Len(p) % 2 = 1 THEN Net(p[Len(p)], 0) ELSE 0

\* The field makes the sum of the packet a multiple of Base - 1, whatever part
\* of it was rewritten, how often, and in which byte order it is added up.
FieldIsRight == (NetSum(data) + Net(sum[1], sum[2])) % (Base - 1) = 0

\* A receiver that runs checksum over the field and the packet gets 0, but for
\* a packet of zeros only: there adjust_checksum may leave the other zero.
ReceiverAccepts ==
    (\E i \in 1..Len(data) : data[i] # 0) => checksum(sum \o data) = 0
=============================================================================
