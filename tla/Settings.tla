------------------------------ MODULE Settings ------------------------------
(***************************************************************************)
(* The radio settings and the SETUP_REQ that carries them.                 *)
(*                                                                         *)
(* Of the 54 registers the model keeps those that activate writes, and     *)
(* MDMCFG4, different in every preset, for all it leaves alone.  Bytes are *)
(* sets of bits, as in MsgFormat.                                          *)
(***************************************************************************)
EXTENDS MsgFormat

CONSTANTS
    Controls,  \* PKTCTRL0 as the application may write it, as numbers
    Sizes      \* packet lengths that the application may ask for

ASSUME SettingsAssumption ==
    /\ Controls \subseteq 0..255
    /\ Sizes \subseteq Nat

VARIABLES
    m_settings,  \* the client's
    asked        \* what the last Configure asked for, kept for BoardSetUp

vars == <<packet, m_settings, asked>>

TX == Byte(16)
RX == Byte(32)

\* A settings_s as it is declared.
Declared ==
    [PKTLEN |-> Byte(4), PKTCTRL0 |-> Byte(5), MDMCFG4 |-> Byte(14),
     IOCFG0 |-> Byte(6), MODE |-> Byte(0), STATUS |-> Byte(0)]

\* What the presets have in common.
Preset(rate, s) ==
    [s EXCEPT !.PKTLEN = Byte(255), !.PKTCTRL0 = Byte(5),
              !.MDMCFG4 = Byte(rate), !.IOCFG0 = Byte(6)]

Init500kbps(s) == Preset(14, s)
Init250kbps(s) == Preset(45, s)
Init38kbps(s)  == Preset(202, s)
Init2_4kbps(s) == Preset(246, s)
Init1_2kbps(s) == Preset(245, s)

\* The macros mask with the logical !, which leaves no bit of a byte unless
\* its operand is 0.
LogicalNot(n) == IF n = 0 THEN {0} ELSE {}

SET_BIT(byte, idx, value) ==
    (byte \cap LogicalNot(idx)) \cup (IF 0 \in value THEN {idx} ELSE {})

SET_BITS(byte, range, shift, value) ==
    (byte \cap LogicalNot(2^range - 1))
        \cup {b + shift : b \in value \cap 0..(range - 1)}

SetMode(mode, s) == [s EXCEPT !.MODE = mode]

SetCRCEnable(enable, s) == [s EXCEPT !.PKTCTRL0 = SET_BIT(@, 2, enable)]

\* Slip: the range is taken for the number of the highest bit.
SetPacketLengthShort(len, s) ==
    [s EXCEPT !.PKTCTRL0 = SET_BITS(@, 2, 0, Byte(0)),
              !.PKTLEN   = SET_BITS(@, 7, 0, len)]

SetPacketLength(len, s) ==
    [s EXCEPT !.PKTCTRL0 = SET_BITS(@, 2, 0, Byte(0)),
              !.PKTLEN   = SET_BITS(@, 8, 0, len)]

activate(mode, packet_length, s) ==
    [SetPacketLength(packet_length, SetCRCEnable(Byte(0), SetMode(mode, s)))
        EXCEPT !.IOCFG0 = IF mode = TX THEN Byte(6) ELSE Byte(0),
               !.STATUS = Byte(1)]

IsEnabled == m_settings.STATUS # {}

\* The bytes of a settings_s in memory.
Registers(s) ==
    <<s.PKTLEN, s.PKTCTRL0, s.MDMCFG4, s.IOCFG0, s.MODE, s.STATUS>>

SetupReq(s) == Packet(3, Registers(s))

\* SendPacketAsync takes a message of this size only.
Accepts(size) == size = Number(m_settings.PKTLEN)
-----------------------------------------------------------------------------
(* An application configures its client, again and again, and the client   *)
(* writes a SETUP_REQ.  Other packets are built by a client that is not    *)
(* configured, so that the two enumerations add up and do not multiply.    *)

\* Settings that the application may have in hand: as declared, from a preset,
\* with PKTCTRL0 written by itself (the registers are public), or the client's
\* own from GetSettings.
InHand ==
    LET plain == {Declared, Init500kbps(Declared), Init250kbps(Declared),
                  Init38kbps(Declared), Init2_4kbps(Declared),
                  Init1_2kbps(Declared)}
    IN  plain \cup {[s EXCEPT !.PKTCTRL0 = Byte(c)] : s \in plain, c \in Controls}
              \cup {m_settings}

SetupInit ==
    /\ Init
    /\ m_settings = Declared
    /\ asked = [MDMCFG4 |-> Declared.MDMCFG4, size |-> 0, mode |-> {}]

\* packet_length is a uint8_t.
Configure(s, mode, size) ==
    /\ packet \in {<< >>, SetupReq(m_settings)}
    /\ m_settings' = activate(mode, Byte(size), s)
    /\ asked' = [MDMCFG4 |-> s.MDMCFG4, size |-> size, mode |-> mode]
    /\ packet' = << >>

SendSetupRequest ==
    /\ packet = << >> /\ IsEnabled
    /\ packet' = SetupReq(m_settings)
    /\ UNCHANGED <<m_settings, asked>>

OtherPacket ==
    /\ ~IsEnabled
    /\ Next
    /\ UNCHANGED <<m_settings, asked>>

SetupNext ==
    \/ \E s \in InHand, mode \in {TX, RX}, size \in Sizes :
           Configure(s, mode, size)
    \/ SendSetupRequest
    \/ OtherPacket

SetupSpec == SetupInit /\ [][SetupNext]_vars
-----------------------------------------------------------------------------
(***************************************************************************)
(* The board decodes the settings that Configure was given: the rate of    *)
(* the caller's settings whatever the client did before, packets of a      *)
(* fixed length without a CRC of the radio's own, the mode and its end of  *)
(* packet signal; and the client accepts messages of just the length that  *)
(* the board was told, even when the length asked for does not fit in a    *)
(* byte: such a client accepts no message of the length asked for.         *)
(***************************************************************************)
BoardSetUp ==
    IsEnabled /\ packet # << >> =>
        LET heard == decode(encode(packet))
            reg   == [PKTLEN |-> heard.packet[5], PKTCTRL0 |-> heard.packet[6],
                      MDMCFG4 |-> heard.packet[7], IOCFG0 |-> heard.packet[8],
                      MODE |-> heard.packet[9]]
        IN  /\ heard.success
            /\ reg.MDMCFG4 = asked.MDMCFG4
            /\ reg.PKTCTRL0 \cap {0, 1, 2} = {}
            /\ reg.MODE = asked.mode
            /\ (reg.IOCFG0 = Byte(6)) = (asked.mode = TX)
            /\ \A size \in Sizes : Accepts(size) = (Number(reg.PKTLEN) = size)
            /\ Accepts(asked.size) = (asked.size \in 0..255)
=============================================================================
