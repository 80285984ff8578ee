----------------------------- MODULE MsgFormat -----------------------------
(***************************************************************************)
(* Messages as bytes: msg::encode, msg::decode and crc16.                  *)
(*                                                                         *)
(* A word is the set of its one bits, bit 0 the lowest: exclusive or is    *)
(* the symmetric difference, a left shift of a uint16_t moves every bit up *)
(* and drops bit 16.  A packet is its header, type and size as two bytes   *)
(* each, low byte first, and as many bytes of data as the size says.       *)
(***************************************************************************)
EXTENDS ByteBits, Sequences

CONSTANTS
    Types,      \* the types of the messages, as numbers
    Bytes,      \* the bytes that their data is built from
    Leftovers,  \* what earlier frames left in BaseLoop's buffer behind this one
    MaxLength   \* bound: bytes of data

MAX_DATA_SIZE == 512

ASSUME MsgFormatAssumption ==
    /\ Bytes \subseteq SUBSET (0..7)
    /\ Leftovers \subseteq Seq(SUBSET (0..7))
    /\ MaxLength \in 0..MAX_DATA_SIZE

VARIABLES
    packet  \* the message being sent, as bytes; none at first

ShiftLeft(w) == {b + 1 : b \in w \ {15}}

Poly == {15, 2, 0}  \* 0x8005

\* One turn of the inner loop.
ShiftStep(crc) ==
    IF 15 \in crc THEN Xor(ShiftLeft(crc), Poly) ELSE ShiftLeft(crc)

\* Slip: the same number of shifts for every byte.
ShiftsEqual(d, size) == 8

\* shifts = (d == size - 1) ? 16 : 8, d counted from 1 here.
Shifts(d, size) == IF d = size THEN 16 ELSE 8

crc16(data) ==
    LET after[d \in 0..Len(data)] ==
          IF d = 0
            THEN {}
            ELSE LET turn[i \in 0..Shifts(d, Len(data))] ==
                       IF i = 0 THEN Xor(after[d - 1], data[d])
                                ELSE ShiftStep(turn[i - 1])
                 IN  turn[Shifts(d, Len(data))]
    IN  after[Len(data)]

\* A uint16_t in memory, low byte first.
LowByte(w) == w \cap 0..7
HighByte(w) == {b - 8 : b \in w \cap 8..15}

\* Slip: high byte first.
MemorySwapped(w) == <<HighByte(w), LowByte(w)>>

Memory(w) == <<LowByte(w), HighByte(w)>>
Word(low, high) == low \cup {b + 8 : b \in high}

Packet(type, data) ==
    <<Byte(type), Byte(type \div 256), Byte(Len(data)), Byte(Len(data) \div 256)>>
        \o data

\* hdr->size
Size(v) == Number(v[3]) + 256 * Number(v[4])

\* Header and data as they lie in packet_s, then the CRC.
encode(p) == p \o Memory(crc16(p))

\* Slip: only the low byte of the CRC is compared.
decodeLow(v) ==
    LET n == 4 + Size(v)
        p == SubSeq(v, 1, n)
    IN  [packet |-> p, success |-> LowByte(crc16(p)) = v[n + 1]]

\* The packet in the buffer v and whether its CRC is right, which is looked for
\* where the size field says.
decode(v) ==
    LET n == 4 + Size(v)
        p == SubSeq(v, 1, n)
    IN  [packet  |-> p,
         success |-> crc16(p) = Word(v[n + 1], v[n + 2])]
-----------------------------------------------------------------------------
(* A message is made, so that a run checks every short one.                *)

Init == packet = << >>

Build(type, data) ==
    /\ packet = << >>
    /\ packet' = Packet(type, data)

Next ==
    \E type \in Types, n \in 0..MaxLength :
        \E data \in [1..n -> Bytes] : Build(type, data)

Spec == Init /\ [][Next]_packet
-----------------------------------------------------------------------------
(* What the functions are to compute.                                      *)

(***************************************************************************)
(* Polynomials over GF(2), as the sets of their exponents: the packet with *)
(* 16 zero bits behind it, first byte and highest bit first, and the       *)
(* remainder of a division by x^16 + x^15 + x^2 + 1.                       *)
(***************************************************************************)
Polynomial(p) ==
    UNION {{8 * (Len(p) - d) + b + 16 : b \in p[d]} : d \in DOMAIN p}

Remainder(f, degree) ==
    LET below[e \in 15..degree] ==
          IF e = degree THEN f
          ELSE LET g == below[e + 1]
               IN  IF e + 1 \in g
                     THEN Xor(g, {e + 1, e, e - 13, e - 15})
                     ELSE g
    IN  below[15]

\* crc16, for all its odd shifting, is the CRC of the packet.
IsRemainder == crc16(packet) = Remainder(Polynomial(packet), 8 * Len(packet) + 15)

\* What one side encodes the other decodes, whatever an earlier frame left in the
\* buffer behind it.
RoundTrip ==
    packet # << >> =>
        \A old \in Leftovers :
            decode(encode(packet) \o old) = [packet |-> packet, success |-> TRUE]

\* A frame with one byte spoilt, in any of its bits, is refused, whether the
\* byte is of the type, of the data or of the CRC.  That is not so of the two
\* size bytes, 3 and 4: with another size BaseLoop reads another number of bytes
\* and decode looks for the CRC in another place, where it may be by chance.
SpoiltByteRefused ==
    packet # << >> =>
        \A i \in (1..Len(encode(packet))) \ {3, 4}, old \in Leftovers :
            \A spoilt \in (SUBSET (0..7)) \ {encode(packet)[i]} :
                ~decode([encode(packet) EXCEPT ![i] = spoilt] \o old).success
=============================================================================
