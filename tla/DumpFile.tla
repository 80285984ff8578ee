------------------------------ MODULE DumpFile ------------------------------
(***************************************************************************)
(* Dump files: a client in RX mode saves every packet it receives, with    *)
(* the RSSI and the LQI the board appends to it; later the packets are     *)
(* compared with the message that was sent, or with a dump of the messages *)
(* sent, and errors are counted by RSSI.                                   *)
(*                                                                         *)
(* A record is a byte with the size, cut to eight bits, and the data.  A   *)
(* byte is the set of its bits.                                            *)
(***************************************************************************)
EXTENDS ByteBits, Sequences, FiniteSets

CONSTANTS
    Messages,    \* what may be sent
    Message,     \* msg, the one the program compares with if it has no tx dump
    Packets,     \* what may be received: data, RSSI and LQI
    Garbage,     \* what the parser's buffer may hold before anything is read
    MaxPackets   \* bound: messages sent

ASSUME DumpFileAssumption ==
    /\ Message \in Messages
    /\ Messages \cup Packets \cup Garbage \subseteq Seq(SUBSET (0..7))
    /\ MaxPackets \in Nat

VARIABLES
    txFile,     \* the two files
    rxFile,
    sent,       \* history: the messages sent, the packets saved whole
    saved,
    source,     \* history: the message each packet saved was sent as
    begun,      \* history: the sizes of the records begun
    phase,      \* "record", "by_msg" or "by_txfile" while parsing, "report" or "fault"
    tx,         \* where the parser is in each file, and what it has read
    rx,
    cnt,        \* rssi_cnt_map, rssi_error_map and rssi_bit_err_map
    error,
    bit_err

files == <<txFile, rxFile, sent, saved, source, begun>>
maps == <<cnt, error, bit_err>>
dumpVars == <<files, phase, tx, rx, maps>>

NoMap == [b \in {} |-> 0]
Reader(buffer) == [pos |-> 0, good |-> TRUE, size |-> 0, buffer |-> buffer]

DumpInit ==
    /\ txFile = << >> /\ rxFile = << >>
    /\ sent = << >> /\ saved = << >> /\ source = << >> /\ begun = {}
    /\ phase = "record"
    /\ tx = Reader(<< >>) /\ rx = Reader(<< >>)
    /\ cnt = NoMap /\ error = NoMap /\ bit_err = NoMap
-----------------------------------------------------------------------------
(* Recording.                                                              *)

\* SaveToFile, and SaveToDumpFile.
Record(data) == <<Byte(Len(data))>> \o data

\* A message is sent, and a packet received or none.
Transfer(msg) ==
    /\ phase = "record"
    /\ Len(sent) < MaxPackets
    /\ sent' = Append(sent, msg)
    /\ txFile' = txFile \o Record(msg)
    /\ \/ \E packet \in Packets : /\ rxFile' = rxFile \o Record(packet)
                                  /\ saved' = Append(saved, packet)
                                  /\ source' = Append(source, msg)
                                  /\ begun' = begun \cup {Len(packet)}
       \/ UNCHANGED <<rxFile, saved, source, begun>>
    /\ UNCHANGED <<phase, tx, rx, maps>>

\* The client is started again: its file is opened anew.
Restart ==
    /\ phase = "record"
    /\ rxFile' = << >> /\ saved' = << >> /\ source' = << >> /\ begun' = {}
    /\ txFile' = << >> /\ sent' = << >>
    /\ UNCHANGED <<phase, tx, rx, maps>>

\* The parser is run on what there is; the last record may have been cut short,
\* by the end of the process or a full disk.
Parse(mode) ==
    /\ phase = "record"
    /\ \/ UNCHANGED <<rxFile, begun>>
       \/ \E packet \in Packets, n \in 1..4 :
             /\ n <= Len(packet)
             /\ rxFile' = rxFile \o SubSeq(Record(packet), 1, n)
             /\ begun' = begun \cup {Len(packet)}
    /\ phase' = mode
    /\ \E garbage \in Garbage : rx' = Reader(garbage)
    /\ tx' = IF mode = "by_msg"
               THEN [Reader(Message) EXCEPT !.size = Len(Message)]
               ELSE Reader(<< >>)
    /\ UNCHANGED <<txFile, sent, saved, source, maps>>
-----------------------------------------------------------------------------
(* Parsing.                                                                *)

Least(a, b) == IF a <= b THEN a ELSE b

\* What was read lies over what the buffer held before.
Overlay(bytes, buffer) ==
    bytes \o SubSeq(buffer, Len(bytes) + 1, Len(buffer))

\* The size and the data of the next record, as far as there are any.
ReadRecord(file, r) ==
    IF ~r.good THEN r
    ELSE IF r.pos = Len(file) THEN [r EXCEPT !.good = FALSE]
    ELSE LET size  == Number(file[r.pos + 1])
             bytes == SubSeq(file, r.pos + 2, Least(r.pos + 1 + size, Len(file)))
         IN  [pos |-> r.pos + 1 + Len(bytes), good |-> Len(bytes) = size,
              size |-> size, buffer |-> Overlay(bytes, r.buffer)]

\* The loop over the data but its last two bytes has no end if there are fewer.
Overruns(r) == r.good /\ r.pos < Len(rxFile) /\ Number(rxFile[r.pos + 1]) < 2

\* C++ divides towards zero; an RSSI is always negative.
rssi_converter(dec) == IF dec >= 128 THEN -((256 - dec) \div 2) - 75
                                     ELSE dec \div 2 - 75
RoundRssi(rssi) == -5 * ((-rssi) \div 5)
Bucket(packet, size) == RoundRssi(rssi_converter(Number(packet[size - 1])))

weight(byte) == Cardinality(byte)
BitErrors(a, b, size) ==
    LET sum[i \in 0..size] ==
          IF i = 0 THEN 0 ELSE sum[i - 1] + weight(Xor(a[i], b[i]))
    IN  sum[size]

\* insert, or add to what is there.
Added(map, b, n) ==
    [c \in DOMAIN map \cup {b} |->
        (IF c \in DOMAIN map THEN map[c] ELSE 0) + (IF c = b THEN n ELSE 0)]

\* Slip: a record is counted even if it could not be read to its end.
CountsCut(t, r) == t.good /\ r.size >= 2

Counts(t, r) == t.good /\ r.good

\* memcmp(buffer1, buffer2, size1)
Differs(t, r) == SubSeq(t.buffer, 1, t.size) # SubSeq(r.buffer, 1, t.size)

\* One turn of the loop.
Turn ==
    /\ phase \in {"by_msg", "by_txfile"}
    /\ rx.good \/ (phase = "by_txfile" /\ tx.good)
    /\ LET t == IF phase = "by_msg" THEN tx ELSE ReadRecord(txFile, tx)
           r == ReadRecord(rxFile, rx)
           b == Bucket(r.buffer, r.size)
       IN  /\ tx' = t
           /\ rx' = r
           /\ IF Overruns(rx)
                THEN phase' = "fault" /\ UNCHANGED maps
                ELSE /\ UNCHANGED phase
                     /\ IF Counts(t, r)
                          THEN /\ cnt' = Added(cnt, b, 1)
                               /\ IF Differs(t, r)
                                    THEN /\ error' = Added(error, b, 1)
                                         /\ bit_err' = Added(bit_err, b,
                                              BitErrors(t.buffer, r.buffer, t.size))
                                    ELSE UNCHANGED <<error, bit_err>>
                          ELSE UNCHANGED maps
    /\ UNCHANGED files

Report ==
    /\ \/ phase = "by_msg" /\ ~rx.good
       \/ phase = "by_txfile" /\ ~rx.good /\ ~tx.good
    /\ phase' = "report"
    /\ UNCHANGED <<files, tx, rx, maps>>

\* Slip: the maps are gone through from the strongest RSSI down.
KeysDown(map) ==
    CHOOSE keys \in [1..Cardinality(DOMAIN map) -> DOMAIN map] :
        \A i, j \in DOMAIN keys : i < j => keys[i] > keys[j]

\* A map's keys in the order in which an iterator meets them.
Keys(map) ==
    CHOOSE keys \in [1..Cardinality(DOMAIN map) -> DOMAIN map] :
        \A i, j \in DOMAIN keys : i < j => keys[i] < keys[j]

\* The packets that the errors of the i-th line of the report are divided by:
\* the iterators of the maps go on side by side.
Divisor(i) == cnt[Keys(cnt)[i]]

DumpNext ==
    \/ \E msg \in Messages : Transfer(msg)
    \/ Restart
    \/ \E mode \in {"by_msg", "by_txfile"} : Parse(mode)
    \/ Turn
    \/ Report

DumpSpec == DumpInit /\ [][DumpNext]_dumpVars
-----------------------------------------------------------------------------
(* Properties.                                                             *)

\* What the parser compares the i-th packet saved with: msg, of which it never
\* comes to the end, or the i-th message of the tx dump.  It is not the message
\* the packet was sent as once one before it was lost.
Pairing(i) == IF tx.good THEN Message ELSE sent[i]

\* The records' sizes fit in their byte.
SizesFit ==
    /\ begun \subseteq 2..255
    /\ \A i \in DOMAIN saved : Len(Pairing(i)) <= 255

\* Nor was a packet lost that makes a difference to what those behind it are
\* compared with, or one that is shorter or longer received.
Regular ==
    /\ SizesFit
    /\ \A i \in DOMAIN saved : /\ Pairing(i) = source[i]
                              /\ Len(saved[i]) = Len(source[i]) + 2

Received(b) == {i \in DOMAIN saved : Bucket(saved[i], Len(saved[i])) = b}
Wrong(b) ==
    {i \in Received(b) : SubSeq(saved[i], 1, Len(saved[i]) - 2) # source[i]}

\* The bits, by packet and byte, in which the packets of a line are not as sent.
BitsApart(a, b, size) == UNION {{i} \X Xor(a[i], b[i]) : i \in 1..size}
WrongBits(b) ==
    UNION {{i} \X BitsApart(source[i], saved[i], Len(source[i])) : i \in Wrong(b)}

\* The report of a file whose records' sizes fit in a byte counts every packet
\* saved whole, once and under its RSSI, even if packets were lost or the
\* recording was cut short.  If besides every packet is compared with the message
\* it was sent as, and is as long, the report counts the packets that are not as
\* they were sent and the bits in which they are not.
TalliesRight ==
    /\ phase = "fault" => ~(begun \subseteq 2..255)
    /\ phase = "report" /\ SizesFit =>
          /\ DOMAIN cnt = {Bucket(saved[i], Len(saved[i])) : i \in DOMAIN saved}
          /\ \A b \in DOMAIN cnt : cnt[b] = Cardinality(Received(b))
    /\ phase = "report" /\ Regular =>
          /\ DOMAIN error = {b \in DOMAIN cnt : Wrong(b) # {}}
          /\ DOMAIN bit_err = DOMAIN error
          /\ \A b \in DOMAIN error :
                /\ error[b] = Cardinality(Wrong(b))
                /\ bit_err[b] = Cardinality(WrongBits(b))

\* The packet error rate of a line of the report is that of its RSSI, if no
\* weaker RSSI than one with errors is without: the rates would be divided by
\* another RSSI's packets.
PerRight ==
    phase = "report"
        /\ (\A b \in DOMAIN cnt :
               (\E c \in DOMAIN error : b < c) => b \in DOMAIN error)
        => \A i \in DOMAIN Keys(error) : Divisor(i) = cnt[Keys(error)[i]]
=============================================================================
