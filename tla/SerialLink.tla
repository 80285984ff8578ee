---------------------------- MODULE SerialLink ----------------------------
(***************************************************************************)
(* The serial line and the CC1110 board at its far end.  The firmware is   *)
(* another repository: the board is modelled by the dialogue the client in *)
(* libcc1110-dev expects of it.  Each direction of the line keeps the      *)
(* order of its frames; on a lossy line a frame may be spoilt, and whoever *)
(* reads it drops it (the CRC check of msg::decode).                       *)
(***************************************************************************)
EXTENDS Naturals, Sequences

CONSTANTS
    LossyLine,    \* a frame may be spoilt on its way
    LateAnswers,  \* a read may time out although an answer is still to come
    RadioTraffic, \* packets come in by radio while the board is in RX mode
    Refusals,     \* the board may answer a SETUP_REQ with SETUP_ERR
    MaxInFlight   \* bound: frames on the line when a timeout adds one

ASSUME SerialLinkAssumption ==
    /\ LossyLine \in BOOLEAN
    /\ LateAnswers \in BOOLEAN
    /\ RadioTraffic \in BOOLEAN
    /\ Refusals \in BOOLEAN
    /\ MaxInFlight \in Nat

VARIABLES
    portOpen,   \* m_serial_port.IsOpen()
    toBoard,    \* frames written by the host and not yet read by the board
    toHost,     \* frames written by the board and not yet read by the host
    boardMode,  \* the radio mode of the last SETUP_REQ the board accepted
    aired       \* the packets the radio has transmitted

linkVars == <<portOpen, toBoard, toHost, boardMode, aired>>

Modes == {"TX", "RX"}
MsgTypes == {"WAKEUP", "WAKEUP_ACK", "SETUP_REQ", "SETUP_ACK", "SETUP_ERR",
             "DATA_REQ", "DATA_ACK"}

(***************************************************************************)
(* A frame: its type, the mode a SETUP_REQ carries and the packet a        *)
(* DATA_REQ carries.  Packet 0 is one the host's list never held: bytes    *)
(* read through a dangling reference, or a packet heard on the radio.      *)
(***************************************************************************)
Message == [type : MsgTypes, mode : Modes \cup {"unset"}, id : Nat]

Msg(type)     == [type |-> type, mode |-> "unset", id |-> 0]
SetupReq(m)   == [type |-> "SETUP_REQ", mode |-> m, id |-> 0]
DataReq(i)    == [type |-> "DATA_REQ", mode |-> "unset", id |-> i]

SerialLinkTypeOK ==
    /\ portOpen \in BOOLEAN
    /\ toBoard \in Seq(Message)
    /\ toHost \in Seq(Message)
    /\ boardMode \in Modes \cup {"unset"}
    /\ aired \subseteq Nat

SerialLinkInit ==
    /\ portOpen = FALSE
    /\ toBoard = << >>
    /\ toHost = << >>
    /\ boardMode \in Modes \cup {"unset"}  \* whatever an earlier program left
    /\ aired = {}

\* BoardClient::Setup: open the port, then FlushIOBuffers, which discards the
\* frames that have already arrived and spares those still under way.
OpenPort ==
    /\ portOpen' = TRUE
    /\ \E arrived \in 0..Len(toHost) :
          toHost' = SubSeq(toHost, arrived + 1, Len(toHost))
    /\ UNCHANGED <<toBoard, boardMode, aired>>

\* m_serial_port.Write of one frame, on an open port.
WriteFrame(msg) ==
    /\ toBoard' = Append(toBoard, msg)
    /\ UNCHANGED <<portOpen, toHost, boardMode, aired>>

\* What the board answers and does, frame by frame.
BoardAnswers(msg) ==
    \/ /\ msg.type = "WAKEUP"
       /\ toHost' = Append(toHost, Msg("WAKEUP_ACK"))
       /\ UNCHANGED <<boardMode, aired>>
    \/ /\ msg.type = "SETUP_REQ"
       /\ toHost' = Append(toHost, Msg("SETUP_ACK"))
       /\ boardMode' = msg.mode
       /\ UNCHANGED aired
    \/ /\ msg.type = "SETUP_REQ"
       /\ Refusals
       /\ toHost' = Append(toHost, Msg("SETUP_ERR"))
       /\ UNCHANGED <<boardMode, aired>>
    \/ /\ msg.type = "DATA_REQ"
       /\ boardMode = "TX"
       /\ toHost' = Append(toHost, Msg("DATA_ACK"))
       /\ aired' = aired \cup ({msg.id} \ {0})
       /\ UNCHANGED boardMode
    \/ /\ msg.type = "DATA_REQ"
       /\ boardMode # "TX"
       /\ UNCHANGED <<toHost, boardMode, aired>>

\* The board reads a frame of the given type and acts on it.
BoardReads(type) ==
    /\ toBoard # << >>
    /\ Head(toBoard).type = type
    /\ toBoard' = Tail(toBoard)
    /\ BoardAnswers(Head(toBoard))
    /\ UNCHANGED portOpen

\* The board reads a spoilt frame and drops it.
BoardReadsSpoilt ==
    /\ LossyLine
    /\ toBoard # << >>
    /\ toBoard' = Tail(toBoard)
    /\ UNCHANGED <<portOpen, toHost, boardMode, aired>>

\* A packet arrives by radio and the board passes it on.
BoardHears ==
    /\ RadioTraffic
    /\ boardMode = "RX"
    /\ Len(toHost) < MaxInFlight
    /\ toHost' = Append(toHost, DataReq(0))
    /\ UNCHANGED <<portOpen, toBoard, boardMode, aired>>

BoardNext ==
    \/ \E type \in {"WAKEUP", "SETUP_REQ", "DATA_REQ"} : BoardReads(type)
    \/ BoardReadsSpoilt
    \/ BoardHears

\* A read of the host runs into its time limit: nothing has arrived.
MayTimeOut ==
    /\ LateAnswers \/ (toBoard = << >> /\ toHost = << >>)
    /\ Len(toBoard) + Len(toHost) < MaxInFlight
===========================================================================
