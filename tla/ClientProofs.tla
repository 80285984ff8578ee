---------------------------- MODULE ClientProofs ----------------------------
(***************************************************************************)
(* BoardClient for every number of packets and configurations, every set   *)
(* of retransmission counts and every kind of line: the type invariant     *)
(* first, then the invariants the runs check on small instances; then that *)
(* it implements Outbox, and that an active client's board is in the mode  *)
(* of the client's settings if it took the last SETUP_REQ it was sent and  *)
(* the last Configure wrote one.                                           *)
(*                                                                         *)
(* For the refinement the order of the packets (OrderInv) is not enough: a *)
(* packet in its turn must also have been accepted (Accepted), or an empty *)
(* list would leave room for one that never was.  For the mode the         *)
(* invariant (ModeInv) reaches back to the state SETUP: from there a stale *)
(* SETUP_ACK may activate the client at any moment.                        *)
(***************************************************************************)
EXTENDS MCModes, SequenceTheorems, TLAPS

\* The facts about constants that every proof may use.
LEMMA ConstantFacts ==
    /\ MaxPackets \in Nat
    /\ Transmissions \subseteq Nat
    /\ SyncCalls \subseteq BOOLEAN
    /\ MaxConfigures \in Nat
  BY PacketListAssumption, BoardClientAssumption

\* Frames the host and the board write are frames.
LEMMA MessageTypes ==
    /\ \A type \in MsgTypes : Msg(type) \in Message
    /\ \A m \in Modes \cup {"unset"} : SetupReq(m) \in Message
    /\ \A i \in Nat : DataReq(i) \in Message
  BY DEF Msg, SetupReq, DataReq, Message, MsgTypes

\* The line keeps its type under each of its operations.
LEMMA WriteFrameType ==
    ASSUME SerialLinkTypeOK, NEW msg \in Message, WriteFrame(msg)
    PROVE  SerialLinkTypeOK'
  BY AppendProperties DEF SerialLinkTypeOK, WriteFrame

LEMMA OpenPortType ==
    ASSUME SerialLinkTypeOK, OpenPort
    PROVE  SerialLinkTypeOK'
<1>1. PICK k \in 0..Len(toHost) : toHost' = SubSeq(toHost, k + 1, Len(toHost))
  BY DEF OpenPort
<1>2. /\ Len(toHost) \in Nat
      /\ \A i \in 1..Len(toHost) : toHost[i] \in Message
  BY LenProperties, ElementOfSeq DEF SerialLinkTypeOK
<1>3. \A i \in (k + 1)..Len(toHost) : toHost[i] \in Message
  BY <1>2
<1>4. k + 1 \in Int /\ Len(toHost) \in Int
  BY <1>2
<1>5. toHost' \in Seq(Message)
  <2> HIDE <1>1
  <2>1. SubSeq(toHost, k + 1, Len(toHost)) \in Seq(Message)
    BY <1>3, <1>4, SubSeqProperties
  <2> QED
    BY <2>1, <1>1
<1> QED
  BY <1>5 DEF SerialLinkTypeOK, OpenPort

LEMMA BoardNextType ==
    ASSUME SerialLinkTypeOK, BoardNext
    PROVE  SerialLinkTypeOK'
<1> USE DEF SerialLinkTypeOK
<1>1. ASSUME NEW type, BoardReads(type)
      PROVE  SerialLinkTypeOK'
  <2>1. Head(toBoard) \in Message /\ Tail(toBoard) \in Seq(Message)
    BY <1>1, HeadTailProperties DEF BoardReads
  <2>2. BoardAnswers(Head(toBoard))
    BY <1>1 DEF BoardReads
  <2>3. \A t \in {"WAKEUP_ACK", "SETUP_ACK", "SETUP_ERR", "DATA_ACK"} :
           Append(toHost, Msg(t)) \in Seq(Message)
    BY MessageTypes, AppendProperties DEF MsgTypes
  <2>5. toHost' \in Seq(Message)
    BY <2>2, <2>3 DEF BoardAnswers
  <2>4. boardMode' \in Modes \cup {"unset"} /\ aired' \subseteq Nat
    BY <2>1, <2>2 DEF BoardAnswers, Message
  <2> QED
    BY <1>1, <2>1, <2>4, <2>5 DEF BoardReads
<1>2. CASE BoardReadsSpoilt
  BY <1>2, HeadTailProperties DEF BoardReadsSpoilt
<1>3. CASE BoardHears
  BY <1>3, MessageTypes, AppendProperties DEF BoardHears
<1> QED
  BY <1>1, <1>2, <1>3 DEF BoardNext

\* The list keeps its type when a packet is added or taken off.
LEMMA ListType ==
    ASSUME PacketListTypeOK
    PROVE  /\ \A n \in Transmissions : EmplaceBack(n) => PacketListTypeOK'
           /\ ~IsPacketListEmpty /\ PopPacket => PacketListTypeOK'
           /\ ~IsPacketListEmpty => FrontPacket \in Packet
<1> USE DEF PacketListTypeOK, IsPacketListEmpty
<1>1. ASSUME NEW n \in Transmissions, EmplaceBack(n)
      PROVE  PacketListTypeOK'
  <2>1. [id |-> queued + 1, transmissions |-> n] \in Packet
    BY <1>1, ConstantFacts DEF EmplaceBack, Packet
  <2>2. m_packets' \in Seq(Packet)
    BY <1>1, <2>1, AppendProperties DEF EmplaceBack
  <2> QED
    BY <1>1, <2>2, ConstantFacts DEF EmplaceBack
<1>2. ASSUME ~IsPacketListEmpty, PopPacket
      PROVE  PacketListTypeOK'
  BY <1>2, HeadTailProperties DEF PopPacket
<1>3. ASSUME ~IsPacketListEmpty
      PROVE  FrontPacket \in Packet
  BY <1>3, HeadTailProperties DEF FrontPacket
<1> QED
  BY <1>1, <1>2, <1>3

\* A step of a thread inside a handler keeps the types.
LEMMA FsmStepType ==
    ASSUME TypeOK, NEW t \in Threads, FsmStep(t), UNCHANGED clientVars
    PROVE  TypeOK'
<1> USE DEF TypeOK, Threads, clientVars, fsmVars, Goto, AppPcs, LoopPcs, FsmPcs,
            ChangePcs, EntryPcs, changeVars, Return
<1>1. ASSUME NEW reason \in Faults, Abort(reason)
      PROVE  TypeOK'
  BY <1>1 DEF Abort, PacketListTypeOK, SerialLinkTypeOK, listVars, linkVars
<1>2. ASSUME NEW msg \in Message, NEW next, Write(t, msg, next),
             next \in (IF t = "app" THEN AppPcs ELSE LoopPcs) \ {"change"}
      PROVE  TypeOK'
  <2>1. CASE WriteFrame(msg) /\ Goto(t, next)
             /\ UNCHANGED <<listVars, fsmVars, changeVars, hold, fault>>
    <3>1. SerialLinkTypeOK'
      BY <2>1, WriteFrameType
    <3> QED
      BY <1>2, <2>1, <3>1 DEF PacketListTypeOK, listVars
  <2>2. CASE Abort("not_open")
    BY <2>2, <1>1 DEF Faults
  <2> QED
    BY <1>2, <2>1, <2>2 DEF Write
<1>3. CASE SendSetupRequest(t) \/ SendWakeUp(t)
  BY <1>3, <1>2, MessageTypes DEF SendSetupRequest, SendWakeUp, MsgTypes
<1>4. CASE ResetDelay(t)
  BY <1>4 DEF ResetDelay, PacketListTypeOK, SerialLinkTypeOK, listVars, linkVars
<1>5. CASE CheckList(t)
  BY <1>5 DEF CheckList, PacketListTypeOK, SerialLinkTypeOK, listVars, linkVars
<1>6. CASE TakeFront(t)
  <2>1. hold' \in [Threads -> Nat]
    BY <1>6, ListType, ConstantFacts DEF TakeFront, Packet
  <2> QED
    BY <1>6, <2>1 DEF TakeFront, PacketListTypeOK, SerialLinkTypeOK, listVars, linkVars
<1>7. CASE CopyPacket(t)
  <2>1. CASE Abort("null_front") \/ Abort("dangling")
    BY <2>1, <1>1 DEF Faults
  <2>2. CASE ~(Abort("null_front") \/ Abort("dangling"))
    <3>1. /\ hold' = [hold EXCEPT ![t] = IF Dangling(@) THEN 0 ELSE @]
          /\ Goto(t, "write")
          /\ UNCHANGED <<listVars, linkVars, fsmVars, changeVars, fault>>
      BY <1>7, <2>2 DEF CopyPacket
    <3>2. hold' \in [Threads -> Nat]
      BY <3>1
    <3> QED
      BY <3>1, <3>2 DEF PacketListTypeOK, SerialLinkTypeOK, listVars, linkVars
  <2> QED
    BY <2>1, <2>2
<1>8. CASE SendTxDataReq(t)
  <2>1. DataReq(hold[t]) \in Message
    BY MessageTypes
  <2> QED
    BY <1>8, <2>1, <1>2 DEF SendTxDataReq
<1>9. CASE ReadTransmissions(t)
  <2>1. CASE Abort("null_front")
    BY <2>1, <1>1 DEF Faults
  <2>2. CASE ~Abort("null_front")
    <3>1. /\ ~IsPacketListEmpty
          /\ m_tx_delay' = FrontPacket.transmissions
          /\ hold' = [hold EXCEPT ![t] = 0]
          /\ Goto(t, Return(t))
          /\ UNCHANGED <<listVars, linkVars, m_state, cnt, mode, changeVars, fault>>
      BY <1>9, <2>2 DEF ReadTransmissions
    <3>2. m_tx_delay' \in Nat
      BY <3>1, ListType, ConstantFacts DEF Packet
    <3> QED
      BY <3>1, <3>2 DEF PacketListTypeOK, SerialLinkTypeOK, listVars, linkVars
  <2> QED
    BY <2>1, <2>2
<1>10. CASE StoreState(t)
  BY <1>10 DEF StoreState, StateIds, PacketListTypeOK, SerialLinkTypeOK, listVars, linkVars
<1>11. CASE EnterState(t)
  BY <1>11 DEF EnterState, OnEntryPc, PacketListTypeOK, SerialLinkTypeOK, listVars, linkVars
<1> QED
  BY <1>3, <1>4, <1>5, <1>6, <1>7, <1>8, <1>9, <1>10, <1>11 DEF FsmStep

\* A step of the application thread outside the handlers keeps the types.
LEMMA AppCallType ==
    ASSUME TypeOK, AppNext
    PROVE  TypeOK'
<1> USE DEF TypeOK, Threads, clientVars, fsmVars, Goto, App, AppPcs, LoopPcs, FsmPcs,
            ChangePcs, EntryPcs, changeVars, listVars, linkVars
<1>1. ASSUME NEW next \in {"wait_active", "idle"}, OpenAndSpawn(next)
      PROVE  /\ PacketListTypeOK' /\ SerialLinkTypeOK'
             /\ m_state' = m_state /\ m_tx_delay' = m_tx_delay /\ cnt' = cnt
             /\ pc' \in [Threads -> AppPcs \cup LoopPcs]
             /\ pc'["app"] \in AppPcs /\ pc'["loop"] \in LoopPcs
             /\ pc'["app"] = "change" => pc["app"] = "change"
             /\ pc'["loop"] = "change" => pc["loop"] = "change"
             /\ UNCHANGED <<hold, changeVars>> /\ fault' \in Faults
  <2>1. CASE /\ OpenPort
             /\ pc' = [pc EXCEPT !["app"] = next, !["loop"] = "start"]
             /\ UNCHANGED <<listVars, m_state, m_tx_delay, cnt, changeVars, hold, fault>>
    BY <2>1, OpenPortType DEF PacketListTypeOK
  <2>2. CASE UNCHANGED <<listVars, linkVars, m_state, m_tx_delay, cnt, pc, changeVars,
                         hold>>
    BY <1>1, <2>2 DEF OpenAndSpawn, Faults, PacketListTypeOK, SerialLinkTypeOK
  <2> QED
    BY <1>1, <2>1, <2>2 DEF OpenAndSpawn
<1>2. ASSUME NEW m \in Modes, Configure(m)
      PROVE  TypeOK'
  <2>1. configures' \in 0..MaxConfigures
    BY <1>2, ConstantFacts DEF Configure
  <2>2. CASE OpenAndSpawn("wait_active")
    BY <1>1, <1>2, <2>1, <2>2 DEF Configure
  <2>3. CASE ~OpenAndSpawn("wait_active")
    <3>1. /\ new_state' = [new_state EXCEPT !["app"] = "SETUP"]
          /\ caller' = "wait_active" /\ pc' = [pc EXCEPT !["app"] = "change"]
          /\ UNCHANGED <<listVars, linkVars, m_state, m_tx_delay, cnt, hold, fault>>
          /\ mode' \in Modes /\ UNCHANGED <<terminate, sync>>
      BY <1>2, <2>3 DEF Configure
    <3>2. /\ new_state' \in [Threads -> StateIds \cup {"none"}]
          /\ \A t \in Threads : pc'[t] = "change" => new_state'[t] # "none"
      BY <3>1 DEF StateIds
    <3> QED
      BY <2>1, <3>1, <3>2 DEF PacketListTypeOK, SerialLinkTypeOK
  <2> QED
    BY <2>2, <2>3
<1>3. CASE Run
  BY <1>1, <1>3 DEF Run
<1>4. CASE WaitingActive
  BY <1>4 DEF WaitingActive, PacketListTypeOK, SerialLinkTypeOK
<1>5. ASSUME NEW s \in SyncCalls, NEW n \in Transmissions, SendPacket(s, n)
      PROVE  TypeOK'
  <2>1. PacketListTypeOK'
    BY <1>5, ListType DEF SendPacket
  <2> QED
    BY <1>5, <2>1, ConstantFacts DEF SendPacket, SerialLinkTypeOK
<1>6. CASE SendWrongLength
  BY <1>6 DEF SendWrongLength, PacketListTypeOK, SerialLinkTypeOK
<1>7. CASE CallInactive
  BY <1>7 DEF CallInactive, FailCheckActive, PacketListTypeOK, SerialLinkTypeOK
<1>8. CASE LinkSendPacket
  BY <1>8 DEF LinkSendPacket, PacketListTypeOK, SerialLinkTypeOK
<1>9. CASE AfterSend
  BY <1>9 DEF AfterSend, PacketListTypeOK, SerialLinkTypeOK
<1>10. CASE WaitingSend
  BY <1>10 DEF WaitingSend, PacketListTypeOK, SerialLinkTypeOK
<1>11. CASE Stop
  BY <1>11 DEF Stop, PacketListTypeOK, SerialLinkTypeOK
<1>12. CASE Joined
  BY <1>12 DEF Joined, PacketListTypeOK, SerialLinkTypeOK
<1>13. CASE FsmStep("app") /\ UNCHANGED clientVars
  BY <1>13, FsmStepType
<1> QED
  BY <1>2, <1>3, <1>4, <1>5, <1>6, <1>7, <1>8, <1>9, <1>10, <1>11, <1>12, <1>13
  DEF AppNext

\* A step of the loop thread keeps the types.
LEMMA LoopNextType ==
    ASSUME TypeOK, LoopNext
    PROVE  TypeOK'
<1> USE DEF TypeOK, Threads, clientVars, fsmVars, Goto, AppPcs, LoopPcs, FsmPcs,
            ChangePcs, EntryPcs, changeVars, Return, listVars
<1>2. CASE LoopStart
  BY <1>2 DEF LoopStart, Activate, ChangeState, StateIds, PacketListTypeOK,
              SerialLinkTypeOK, linkVars
<1>3. CASE LoopTest
  BY <1>3 DEF LoopTest, PacketListTypeOK, SerialLinkTypeOK, linkVars
<1>4. ASSUME TakeFrame PROVE SerialLinkTypeOK'
  BY <1>4, HeadTailProperties DEF TakeFrame, SerialLinkTypeOK
<1>5. ASSUME NEW type \in MsgTypes, LoopRead(type)
      PROVE  TypeOK'
  <2>1. SerialLinkTypeOK' /\ OnMessage(type) /\ UNCHANGED clientVars
    BY <1>4, <1>5 DEF LoopRead
  <2>2. CASE /\ NextState(m_state, type) # "same"
             /\ ChangeState("loop", NextState(m_state, type))
    BY <2>1, <2>2 DEF NextState, ChangeState, StateIds, PacketListTypeOK
  <2>3. CASE /\ ~IsPacketListEmpty
             /\ PopPacket
             /\ Goto("loop", "entry")
             /\ UNCHANGED <<fsmVars, changeVars, hold, fault>>
    <3>1. PacketListTypeOK'
      BY <2>3, ListType
    <3> QED
      BY <2>1, <2>3, <3>1
  <2>4. CASE /\ fault' = "empty_pop"
             /\ UNCHANGED <<listVars, fsmVars, pc, changeVars, hold>>
    BY <2>1, <2>4 DEF Faults, PacketListTypeOK
  <2>5. CASE /\ Goto("loop", "test")
             /\ UNCHANGED <<listVars, fsmVars, changeVars, hold, fault>>
    BY <2>1, <2>5 DEF PacketListTypeOK
  <2> QED
    BY <2>1, <2>2, <2>3, <2>4, <2>5 DEF OnMessage
<1>6. CASE LoopReadSpoilt
  BY <1>4, <1>6 DEF LoopReadSpoilt, PacketListTypeOK
<1>7. CASE LoopTimeout
  <2>1. PacketListTypeOK' /\ SerialLinkTypeOK'
    BY <1>7 DEF LoopTimeout, OnTimeout, PacketListTypeOK, SerialLinkTypeOK, linkVars
  <2>2. UNCHANGED <<m_state, m_tx_delay, mode, changeVars, hold, fault, clientVars>>
    BY <1>7 DEF LoopTimeout, OnTimeout
  <2>3. cnt' \in Nat
    BY <1>7 DEF LoopTimeout, OnTimeout
  <2>4. \E label \in {"test", "wakeup_send", "setup_send", "entry"} : Goto("loop", label)
    BY <1>7 DEF LoopTimeout, OnTimeout, OnEntryPc
  <2> QED
    BY <2>1, <2>2, <2>3, <2>4
<1>8. CASE FsmStep("loop") /\ UNCHANGED clientVars
  BY <1>8, FsmStepType
<1> QED
  BY <1>2, <1>3, <1>5, <1>6, <1>7, <1>8 DEF LoopNext

\* Every variable keeps its type, whatever the two threads and the board do:
\* in particular pc never takes a thread into a place of the other's code.
THEOREM TypeCorrect == Spec => []TypeOK
<1>1. Init => TypeOK
  <2> SUFFICES ASSUME Init PROVE TypeOK
    OBVIOUS
  <2> USE DEF Init, PacketListInit, SerialLinkInit, LinkFsmInit
  <2>1. << >> \in Seq(Packet) /\ << >> \in Seq(Message)
    BY EmptySeq
  <2>3. PacketListTypeOK
    BY <2>1, ConstantFacts DEF PacketListTypeOK
  <2>4. SerialLinkTypeOK
    BY <2>1, Zenon DEF SerialLinkTypeOK
  <2>5. terminate \in BOOLEAN /\ sync \in BOOLEAN /\ fault \in Faults
    BY Zenon DEF Faults
  <2>6. m_tx_delay \in Nat /\ cnt \in Nat /\ configures \in 0..MaxConfigures
    BY ConstantFacts
  <2>2. /\ pc \in [Threads -> AppPcs \cup LoopPcs]
        /\ pc["app"] \in AppPcs
        /\ pc["loop"] \in LoopPcs
        /\ hold \in [Threads -> Nat]
        /\ new_state \in [Threads -> StateIds \cup {"none"}]
        /\ \A t \in Threads : pc[t] # "change"
        /\ caller \in {"sent", "wait_active"}
    BY DEF Threads, AppPcs, LoopPcs
  <2> QED
    BY <2>2, <2>3, <2>4, <2>5, <2>6 DEF TypeOK, StateIds
<1>2. TypeOK /\ [Next]_vars => TypeOK'
  <2> SUFFICES ASSUME TypeOK, [Next]_vars PROVE TypeOK'
    OBVIOUS
  <2>1. CASE AppNext
    BY <2>1, AppCallType
  <2>2. CASE LoopNext
    BY <2>2, LoopNextType
  <2>3. CASE Board
    BY <2>3, BoardNextType
    DEF Board, TypeOK, PacketListTypeOK, listVars, fsmVars, changeVars, threadVars,
        clientVars
  <2>4. CASE UNCHANGED vars
    BY <2>4 DEF vars, linkFsmVars, TypeOK, PacketListTypeOK, SerialLinkTypeOK,
                listVars, linkVars, fsmVars, changeVars, threadVars, clientVars
  <2> QED
    BY <2>1, <2>2, <2>3, <2>4 DEF Next
<1> QED
  BY <1>1, <1>2, PTL DEF Spec
-----------------------------------------------------------------------------
(***************************************************************************)
(* The safety invariants.                                                  *)
(*                                                                         *)
(* ThreadInv is about who runs when: it is inductive once the dead loop    *)
(* thread is tied to the list and to the link state (IdleLoop), and the    *)
(* state a thread is about to store to the one it found (StoresKnown).     *)
(* OrderInv is about the packets: it needs the numbering of the list       *)
(* (Numbered), without which "the front" has no place in the order.        *)
(***************************************************************************)
\* No loop thread: nothing is queued, and nothing will be, since the client is
\* stopped or was never started.
IdleLoop == ~LoopRuns => IsPacketListEmpty /\ (terminate \/ m_state = "INIT")

\* A state about to be stored was decided on in another one: the loop thread
\* never leaves an active state, the application stores SETUP and never in INIT.
StoresKnown ==
    /\ \A t \in Threads : new_state[t] # "INIT"
    /\ new_state["app"] \in {"SETUP", "none"}
    /\ pc["app"] = "change" => m_state # "INIT"
    /\ pc["loop"] = "change" => ~LinkIsActive
    /\ pc["app"] \in ChangePcs => caller = "wait_active"

ThreadInv ==
    /\ PortOpenWhileLooping
    /\ SendingStaysActive
    /\ IdleLoop
    /\ StoresKnown

\* A handler step leaves the list, the port and the settings alone; it stores the
\* state it came for, or goes on inside the handler or to where it returns.
LEMMA FsmStepEffect ==
    ASSUME TypeOK, NEW t \in Threads, FsmStep(t)
    PROVE  /\ UNCHANGED <<m_packets, queued, portOpen, mode>>
           /\ \/ /\ pc[t] = "change" /\ Goto(t, "enter")
                 /\ m_state' = new_state[t]
                 /\ new_state' = [new_state EXCEPT ![t] = "none"] /\ caller' = caller
              \/ pc' = pc /\ UNCHANGED <<m_state, changeVars>>
              \/ /\ pc[t] \in ChangePcs \ {"change"}
                 /\ \E label \in {"wakeup_send", "setup_send", "entry", Return(t)} :
                       Goto(t, label)
                 /\ UNCHANGED <<m_state, changeVars>>
              \/ /\ pc[t] \in EntryPcs
                 /\ \E label \in EntryPcs \cup {Return(t)} : Goto(t, label)
                 /\ UNCHANGED <<m_state, changeVars>>
<1> USE DEF fsmVars, listVars, linkVars, Abort, ChangePcs, EntryPcs
<1>1. CASE SendSetupRequest(t) \/ SendWakeUp(t)
  BY <1>1 DEF SendSetupRequest, SendWakeUp, Write, WriteFrame
<1>2. CASE ResetDelay(t)
  BY <1>2 DEF ResetDelay
<1>3. CASE CheckList(t)
  BY <1>3 DEF CheckList
<1>4. CASE TakeFront(t)
  BY <1>4 DEF TakeFront
<1>5. CASE CopyPacket(t)
  BY <1>5 DEF CopyPacket
<1>6. CASE SendTxDataReq(t)
  BY <1>6 DEF SendTxDataReq, Write, WriteFrame
<1>7. CASE ReadTransmissions(t)
  BY <1>7 DEF ReadTransmissions
<1>8. CASE StoreState(t)
  BY <1>8 DEF StoreState
<1>9. CASE EnterState(t)
  BY <1>9 DEF EnterState, OnEntryPc
<1> QED
  BY <1>1, <1>2, <1>3, <1>4, <1>5, <1>6, <1>7, <1>8, <1>9 DEF FsmStep

\* A message asks for another link state, or pops the front packet, or neither.
LEMMA OnMessageEffect ==
    ASSUME NEW type, OnMessage(type)
    PROVE  /\ UNCHANGED <<m_state, mode, hold, caller>>
           /\ \/ /\ NextState(m_state, type) # "same"
                 /\ new_state' = [new_state EXCEPT !["loop"] = NextState(m_state, type)]
                 /\ Goto("loop", "change")
                 /\ UNCHANGED <<m_packets, queued>>
              \/ /\ ~IsPacketListEmpty /\ PopPacket
                 /\ Goto("loop", "entry")
                 /\ new_state' = new_state
              \/ /\ UNCHANGED <<m_packets, queued, new_state>>
                 /\ pc' = pc \/ Goto("loop", "test")
  BY DEF OnMessage, ChangeState, listVars, fsmVars, changeVars

\* The application thread: it accepts packets and ends the loop thread only
\* where ThreadInv allows it.
LEMMA ThreadInvApp ==
    ASSUME TypeOK, ThreadInv, AppNext
    PROVE  ThreadInv'
<1> USE DEF ThreadInv, PortOpenWhileLooping, SendingStaysActive, IdleLoop, StoresKnown,
            LoopRuns, Sending, ChangePcs, EntryPcs, changeVars, IsActive, LinkIsActive,
            IsPacketListEmpty, TypeOK, Threads, Goto, App, listVars, linkVars, fsmVars, clientVars
<1>1. ASSUME NEW m \in Modes, Configure(m)
      PROVE  ThreadInv'
  BY <1>1 DEF Configure, OpenAndSpawn, OpenPort
<1>2. CASE Run
  BY <1>2 DEF Run, OpenAndSpawn, OpenPort
<1>3. CASE WaitingActive
  BY <1>3 DEF WaitingActive
<1>4. ASSUME NEW s \in SyncCalls, NEW n \in Transmissions, SendPacket(s, n)
      PROVE  ThreadInv'
  BY <1>4 DEF SendPacket, EmplaceBack
<1>5. CASE SendWrongLength
  BY <1>5 DEF SendWrongLength
<1>6. CASE CallInactive
  BY <1>6 DEF CallInactive, FailCheckActive
<1>7. CASE LinkSendPacket
  BY <1>7 DEF LinkSendPacket
<1>8. CASE AfterSend
  BY <1>8 DEF AfterSend
<1>9. CASE WaitingSend
  BY <1>9 DEF WaitingSend
<1>10. CASE Stop
  BY <1>10 DEF Stop
<1>11. CASE Joined
  BY <1>11 DEF Joined
<1>12. CASE FsmStep("app") /\ UNCHANGED clientVars
  BY <1>12, FsmStepEffect DEF Return
<1> QED
  BY <1>1, <1>2, <1>3, <1>4, <1>5, <1>6, <1>7, <1>8, <1>9, <1>10, <1>11, <1>12
  DEF AppNext

\* The loop thread: it exits on an empty list and never deactivates the client.
LEMMA ThreadInvLoop ==
    ASSUME TypeOK, ThreadInv, LoopNext
    PROVE  ThreadInv'
<1> USE DEF ThreadInv, PortOpenWhileLooping, SendingStaysActive, IdleLoop, StoresKnown,
            LoopRuns, Sending, ChangePcs, EntryPcs, changeVars, IsActive, LinkIsActive,
            IsPacketListEmpty, TypeOK, Threads, Goto, listVars, linkVars, fsmVars, clientVars
<1>1. CASE LoopStart
  BY <1>1 DEF LoopStart, Activate, ChangeState
<1>2. CASE LoopTest
  BY <1>2 DEF LoopTest
<1>3. ASSUME NEW type \in MsgTypes, LoopRead(type)
      PROVE  ThreadInv'
  <2>1. OnMessage(type) /\ pc["loop"] = "read" /\ portOpen' = portOpen
        /\ terminate' = terminate /\ UNCHANGED <<m_state, caller>>
    BY <1>3, OnMessageEffect DEF LoopRead, TakeFrame
  <2>2. CASE /\ NextState(m_state, type) # "same"
             /\ new_state' = [new_state EXCEPT !["loop"] = NextState(m_state, type)]
             /\ Goto("loop", "change")
             /\ UNCHANGED m_packets
    BY <2>1, <2>2 DEF NextState
  <2>3. CASE Goto("loop", "entry") /\ UNCHANGED new_state
    BY <2>1, <2>3
  <2>4. CASE UNCHANGED <<m_packets, new_state>> /\ (pc' = pc \/ Goto("loop", "test"))
    BY <2>1, <2>4
  <2> QED
    BY <2>1, <2>2, <2>3, <2>4, OnMessageEffect
<1>4. CASE LoopReadSpoilt
  BY <1>4 DEF LoopReadSpoilt, TakeFrame
<1>5. CASE LoopTimeout
  <2>1. /\ pc["loop"] = "read"
        /\ UNCHANGED <<m_packets, m_state, changeVars, portOpen, terminate>>
    BY <1>5 DEF LoopTimeout, OnTimeout
  <2>2. \E label \in {"test", "wakeup_send", "setup_send", "entry"} : Goto("loop", label)
    BY <1>5 DEF LoopTimeout, OnTimeout, OnEntryPc, Return
  <2> QED
    BY <2>1, <2>2
<1>6. CASE FsmStep("loop") /\ UNCHANGED clientVars
  BY <1>6, FsmStepEffect DEF Return
<1> QED
  BY <1>1, <1>2, <1>3, <1>4, <1>5, <1>6 DEF LoopNext

\* The loop thread never runs on a closed port, the client stays active while
\* a packet call is in progress, and no loop thread ends on a nonempty list.
THEOREM ThreadSafety == Spec => []ThreadInv
<1>1. Init => ThreadInv
  BY DEF Init, PacketListInit, SerialLinkInit, LinkFsmInit, ThreadInv, Threads,
         PortOpenWhileLooping, SendingStaysActive, Sending, ChangePcs, EntryPcs, IdleLoop,
         LoopRuns, IsPacketListEmpty, StoresKnown
<1>2. TypeOK /\ ThreadInv /\ [Next]_vars => ThreadInv'
  <2> SUFFICES ASSUME TypeOK, ThreadInv, [Next]_vars PROVE ThreadInv'
    OBVIOUS
  <2> USE DEF ThreadInv, PortOpenWhileLooping, SendingStaysActive, IdleLoop, LoopRuns,
              StoresKnown, Sending, IsActive, LinkIsActive, IsPacketListEmpty, listVars,
              linkVars, fsmVars, changeVars, threadVars, clientVars
  <2>1. CASE AppNext
    BY <2>1, ThreadInvApp
  <2>2. CASE LoopNext
    BY <2>2, ThreadInvLoop
  <2>3. CASE Board
    BY <2>3 DEF Board, BoardNext, BoardReads, BoardReadsSpoilt, BoardHears
  <2>4. CASE UNCHANGED vars
    BY <2>4 DEF vars, linkFsmVars
  <2> QED
    BY <2>1, <2>2, <2>3, <2>4 DEF Next
<1> QED
  BY <1>1, <1>2, TypeCorrect, PTL DEF Spec

\* Stop never leaves a packet behind: with terminate set, the loop thread has
\* ended only if the list is empty.
THEOREM StopLeavesNothing == Spec => []StopDrains
<1>1. ThreadInv => StopDrains
  BY DEF ThreadInv, IdleLoop, StopDrains
<1> QED
  BY <1>1, ThreadSafety, PTL

\* The loop thread runs only on an open port.
THEOREM LoopHasPort == Spec => []PortOpenWhileLooping
<1>1. ThreadInv => PortOpenWhileLooping
  BY DEF ThreadInv
<1> QED
  BY <1>1, ThreadSafety, PTL

\* CHECK_ACTIVE cannot fail between the acceptance of a packet and the return
\* of the call.
THEOREM SendNeverExits == Spec => []SendingStaysActive
<1>1. ThreadInv => SendingStaysActive
  BY DEF ThreadInv
<1> QED
  BY <1>1, ThreadSafety, PTL
-----------------------------------------------------------------------------
(* The order of the packets.                                               *)

\* The packets on the list are the last ones queued, in the order of the calls.
Numbered ==
    /\ Len(m_packets) <= queued
    /\ \A i \in 1..Len(m_packets) : m_packets[i].id = Popped + i

\* A packet the loop thread has seen stays until the loop thread takes it off.
LoopSeesFront == pc["loop"] = "front" => ~IsPacketListEmpty

OrderInv ==
    /\ Numbered
    /\ NeverAhead
    /\ LoopSeesFront
    /\ LoopHoldsFront

\* The front of a numbered list is the packet after those that have left.
LEMMA FrontIsNext ==
    ASSUME TypeOK, Numbered, ~IsPacketListEmpty
    PROVE  FrontPacket.id = Popped + 1 /\ FrontPacket = m_packets[1]
           /\ 1 \in 1..Len(m_packets)
  BY EmptySeq, LenProperties
  DEF TypeOK, PacketListTypeOK, Numbered, IsPacketListEmpty, FrontPacket

\* Queueing a packet keeps the numbering, the front and what has left.
LEMMA EmplaceNumbered ==
    ASSUME TypeOK, Numbered, NEW n \in Transmissions, EmplaceBack(n)
    PROVE  /\ Numbered' /\ Popped' = Popped /\ ~IsPacketListEmpty'
           /\ ~IsPacketListEmpty => FrontPacket' = FrontPacket
<1> DEFINE new == [id |-> queued + 1, transmissions |-> n]
<1>1. m_packets \in Seq(Packet) /\ queued \in Nat /\ new \in Packet
  BY ConstantFacts DEF TypeOK, PacketListTypeOK, EmplaceBack, Packet
<1>2. m_packets' = Append(m_packets, new) /\ queued' = queued + 1
  BY DEF EmplaceBack
<1>3. /\ Len(m_packets) \in Nat
      /\ Len(m_packets') = Len(m_packets) + 1
      /\ \A i \in 1..Len(m_packets) : m_packets'[i] = m_packets[i]
      /\ m_packets'[Len(m_packets) + 1] = new
      /\ m_packets' # << >>
  BY <1>1, <1>2, AppendProperties, LenProperties
<1>4. Popped' = Popped
  BY <1>1, <1>2, <1>3 DEF Popped, Numbered
<1>5. Numbered'
  <2> SUFFICES ASSUME NEW i \in 1..Len(m_packets')
               PROVE  m_packets'[i].id = Popped' + i
    BY <1>1, <1>2, <1>3 DEF Numbered
  <2>1. CASE i \in 1..Len(m_packets)
    BY <1>3, <1>4, <2>1 DEF Numbered
  <2>2. CASE i = Len(m_packets) + 1
    BY <1>1, <1>3, <1>4, <2>2 DEF Popped
  <2> QED
    BY <1>3, <2>1, <2>2
<1>6. ~IsPacketListEmpty => FrontPacket' = FrontPacket
  BY <1>1, <1>3, EmptySeq DEF IsPacketListEmpty, FrontPacket
<1> QED
  BY <1>3, <1>4, <1>5, <1>6 DEF IsPacketListEmpty

\* Taking the front packet off keeps the numbering.
LEMMA PopNumbered ==
    ASSUME TypeOK, Numbered, ~IsPacketListEmpty, PopPacket
    PROVE  Numbered' /\ Popped' = Popped + 1
<1>1. /\ m_packets \in Seq(Packet) /\ queued \in Nat /\ m_packets # << >>
      /\ m_packets' = Tail(m_packets) /\ queued' = queued
  BY DEF TypeOK, PacketListTypeOK, IsPacketListEmpty, PopPacket
<1>2. /\ Len(m_packets) \in Nat \ {0}
      /\ Len(m_packets') = Len(m_packets) - 1
      /\ \A i \in 1..Len(m_packets') : m_packets'[i] = m_packets[i + 1]
  BY <1>1, EmptySeq, HeadTailProperties
<1>3. Popped' = Popped + 1
  BY <1>1, <1>2 DEF Popped, Numbered
<1>4. \A i \in 1..Len(m_packets') : i + 1 \in 1..Len(m_packets)
  BY <1>2
<1>5. \A i \in 1..Len(m_packets') : m_packets'[i].id = Popped + (i + 1)
  BY <1>2, <1>4 DEF Numbered
<1>6. Popped \in Nat
  BY <1>1, <1>2 DEF Popped, Numbered
<1> QED
  BY <1>1, <1>2, <1>3, <1>5, <1>6 DEF Numbered

\* A handler step of either thread keeps the order: what it holds is the front
\* or an older packet, and what it writes is what it holds.
LEMMA OrderInvFsm ==
    ASSUME TypeOK, OrderInv, NEW t \in Threads, FsmStep(t)
    PROVE  OrderInv'
<1> USE DEF OrderInv
<1>1. /\ UNCHANGED <<m_packets, queued>>
      /\ Popped \in Nat /\ Popped' = Popped /\ FrontPacket' = FrontPacket
      /\ IsPacketListEmpty' = IsPacketListEmpty
  BY FsmStepEffect, LenProperties
  DEF Popped, FrontPacket, IsPacketListEmpty, TypeOK, PacketListTypeOK, Numbered
<1>2. Numbered'
  BY <1>1 DEF Numbered
<1>3. ~IsPacketListEmpty => FrontPacket.id = Popped + 1
  BY FrontIsNext
<1>4. pc \in [Threads -> AppPcs \cup LoopPcs] /\ hold \in [Threads -> Nat]
  BY DEF TypeOK
<1> USE DEF NeverAhead, LoopSeesFront, LoopHoldsFront, Goto, Threads, Return
<1>5. ASSUME NEW msg \in Message, NEW next, Write(t, msg, next), msg.id <= Popped + 1,
             t = "loop" /\ pc[t] = "write" => next = "delay",
             t = "loop" /\ pc[t] # "write" => next \notin {"front", "send", "write", "delay"}
      PROVE  OrderInv'
  <2>1. CASE WriteFrame(msg) /\ Goto(t, next) /\ UNCHANGED <<listVars, hold>>
    <3>1. \A i \in DOMAIN toBoard' : toBoard'[i].id <= Popped + 1
      BY <1>5, <2>1, AppendProperties, LenProperties
      DEF WriteFrame, TypeOK, SerialLinkTypeOK
    <3>2. aired' = aired
      BY <2>1 DEF WriteFrame
    <3>3. LoopSeesFront' /\ LoopHoldsFront'
      BY <1>1, <1>4, <1>5, <2>1
    <3> QED
      BY <1>1, <1>2, <2>1, <3>1, <3>2, <3>3
  <2>2. CASE Abort("not_open")
    BY <1>1, <1>2, <2>2 DEF Abort, linkVars
  <2> QED
    BY <1>5, <2>1, <2>2 DEF Write
<1>6. CASE SendSetupRequest(t)
  BY <1>1, <1>5, <1>6, MessageTypes DEF SendSetupRequest, SetupReq, TypeOK
<1>13. CASE SendWakeUp(t)
  BY <1>1, <1>5, <1>13, MessageTypes DEF SendWakeUp, Msg, MsgTypes
<1>14. CASE StoreState(t) \/ EnterState(t)
  BY <1>1, <1>2, <1>4, <1>14 DEF StoreState, EnterState, OnEntryPc, linkVars
<1>7. CASE ResetDelay(t)
  BY <1>1, <1>2, <1>4, <1>7 DEF ResetDelay, linkVars
<1>8. CASE CheckList(t)
  BY <1>1, <1>2, <1>4, <1>8 DEF CheckList, linkVars
<1>9. CASE TakeFront(t)
  <2>1. hold' = [hold EXCEPT ![t] = IF IsPacketListEmpty THEN 0 ELSE Popped + 1]
    BY <1>3, <1>9 DEF TakeFront
  <2>2. NeverAhead'
    BY <1>1, <1>4, <1>9, <2>1 DEF TakeFront, linkVars
  <2>3. LoopSeesFront' /\ LoopHoldsFront'
    BY <1>1, <1>3, <1>4, <1>9, <2>1 DEF TakeFront
  <2> QED
    BY <1>2, <2>2, <2>3
<1>10. CASE CopyPacket(t)
  <2>1. CASE Abort("null_front") \/ Abort("dangling")
    BY <1>1, <1>2, <2>1 DEF Abort, linkVars
  <2>2. CASE /\ pc[t] = "send"
             /\ hold' = [hold EXCEPT ![t] = IF Dangling(@) THEN 0 ELSE @]
             /\ Goto(t, "write")
             /\ UNCHANGED <<listVars, linkVars, fsmVars, changeVars, fault>>
    <3>1. NeverAhead'
      BY <1>1, <1>4, <2>2 DEF linkVars
    <3>2. LoopSeesFront' /\ LoopHoldsFront'
      BY <1>1, <1>3, <1>4, <2>2 DEF Dangling
    <3> QED
      BY <1>2, <3>1, <3>2
  <2> QED
    BY <1>10, <2>1, <2>2 DEF CopyPacket
<1>11. CASE SendTxDataReq(t)
  <2>1. DataReq(hold[t]) \in Message /\ DataReq(hold[t]).id <= Popped + 1
    BY <1>4, MessageTypes DEF DataReq
  <2> QED
    BY <1>5, <1>11, <2>1 DEF SendTxDataReq
<1>12. CASE ReadTransmissions(t)
  <2>1. CASE Abort("null_front")
    BY <1>1, <1>2, <2>1 DEF Abort, linkVars
  <2>2. CASE /\ hold' = [hold EXCEPT ![t] = 0]
             /\ Goto(t, Return(t))
             /\ UNCHANGED <<listVars, linkVars>>
    BY <1>1, <1>2, <1>4, <2>2 DEF linkVars
  <2> QED
    BY <1>12, <2>1, <2>2 DEF ReadTransmissions
<1> QED
  BY <1>6, <1>7, <1>8, <1>9, <1>10, <1>11, <1>12, <1>13, <1>14 DEF FsmStep

\* Steps that leave the list, the frames to the board and the held packets
\* alone, and bring the loop thread to no place between CheckList and its
\* return, keep the order.
LEMMA OrderInvFrame ==
    ASSUME TypeOK, OrderInv, UNCHANGED <<m_packets, queued, toBoard, aired, hold>>,
           pc'["loop"] \in {"front", "send", "write", "delay"} => pc'["loop"] = pc["loop"]
    PROVE  OrderInv'
<1>1. Popped' = Popped /\ FrontPacket' = FrontPacket
      /\ IsPacketListEmpty' = IsPacketListEmpty
  BY DEF Popped, FrontPacket, IsPacketListEmpty
<1> QED
  BY <1>1 DEF OrderInv, Numbered, NeverAhead, LoopSeesFront, LoopHoldsFront

LEMMA OrderInvApp ==
    ASSUME TypeOK, OrderInv, AppNext
    PROVE  OrderInv'
<1>1. ASSUME NEW s \in SyncCalls, NEW n \in Transmissions, SendPacket(s, n)
      PROVE  OrderInv'
  <2>1. /\ Numbered' /\ Popped' = Popped /\ ~IsPacketListEmpty'
        /\ ~IsPacketListEmpty => FrontPacket' = FrontPacket
    BY <1>1, EmplaceNumbered DEF SendPacket, OrderInv
  <2>2. UNCHANGED <<toBoard, aired, hold>> /\ pc'["loop"] = pc["loop"]
    BY <1>1 DEF SendPacket, linkVars, Goto, TypeOK, Threads
  <2>3. NeverAhead'
    BY <2>1, <2>2 DEF OrderInv, NeverAhead
  <2>4. LoopSeesFront' /\ LoopHoldsFront'
    BY <2>1, <2>2 DEF OrderInv, LoopSeesFront, LoopHoldsFront
  <2> QED
    BY <2>1, <2>3, <2>4 DEF OrderInv
<1>2. CASE FsmStep("app") /\ UNCHANGED clientVars
  BY <1>2, OrderInvFsm DEF Threads
<1> USE OrderInvFrame DEF TypeOK, Threads, Goto, App, listVars, linkVars, fsmVars,
                          clientVars
<1>3. ASSUME NEW m \in Modes, Configure(m)
      PROVE  OrderInv'
  BY <1>3 DEF Configure, OpenAndSpawn, OpenPort
<1>4. CASE Run
  BY <1>4 DEF Run, OpenAndSpawn, OpenPort
<1>5. CASE WaitingActive
  BY <1>5 DEF WaitingActive
<1>6. CASE SendWrongLength
  BY <1>6 DEF SendWrongLength
<1>7. CASE CallInactive
  BY <1>7 DEF CallInactive, FailCheckActive
<1>8. CASE LinkSendPacket
  BY <1>8 DEF LinkSendPacket
<1>9. CASE AfterSend
  BY <1>9 DEF AfterSend
<1>10. CASE WaitingSend
  BY <1>10 DEF WaitingSend
<1>11. CASE Stop
  BY <1>11 DEF Stop
<1>12. CASE Joined
  BY <1>12 DEF Joined
<1> QED
  BY <1>1, <1>2, <1>3, <1>4, <1>5, <1>6, <1>7, <1>8, <1>9, <1>10, <1>11, <1>12
  DEF AppNext

LEMMA OrderInvLoop ==
    ASSUME TypeOK, OrderInv, LoopNext
    PROVE  OrderInv'
<1> USE DEF Threads, Goto
<1>0. pc \in [Threads -> AppPcs \cup LoopPcs]
  BY DEF TypeOK
<1>1. CASE LoopStart
  BY <1>0, <1>1, OrderInvFrame DEF LoopStart, Activate, ChangeState, listVars, linkVars
<1>2. CASE LoopTest
  BY <1>0, <1>2, OrderInvFrame DEF LoopTest, listVars, linkVars
<1>3. ASSUME NEW type \in MsgTypes, LoopRead(type)
      PROVE  OrderInv'
  <2>1. OnMessage(type) /\ UNCHANGED <<toBoard, aired>>
    BY <1>3 DEF LoopRead, TakeFrame
  <2>2. CASE Goto("loop", "change") /\ UNCHANGED <<m_packets, queued, hold>>
    BY <1>0, <2>1, <2>2, OrderInvFrame
  <2>3. CASE ~IsPacketListEmpty /\ PopPacket /\ Goto("loop", "entry") /\ UNCHANGED hold
    <3>1. Numbered' /\ Popped' = Popped + 1 /\ Popped \in Nat
      BY <2>3, PopNumbered, LenProperties
      DEF OrderInv, Popped, Numbered, TypeOK, PacketListTypeOK
    <3>2. NeverAhead'
      <4>1. \A x \in Nat : x <= Popped + 1 => x <= Popped' + 1
        BY <3>1
      <4>2. \A i \in DOMAIN toBoard : toBoard[i].id \in Nat
        <5>1. toBoard \in Seq(Message)
          BY DEF TypeOK, SerialLinkTypeOK
        <5>2. \A i \in DOMAIN toBoard : toBoard[i] \in Message
          BY <5>1, LenProperties, ElementOfSeq
        <5> QED
          BY <5>2 DEF Message
      <4>3. \A t \in Threads : hold[t] \in Nat
        BY DEF TypeOK
      <4>4. \A p \in aired : p \in Nat
        BY DEF TypeOK, SerialLinkTypeOK
      <4> QED
        BY <2>1, <2>3, <4>1, <4>2, <4>3, <4>4 DEF OrderInv, NeverAhead
    <3> QED
      BY <1>0, <2>3, <3>1, <3>2 DEF OrderInv, LoopSeesFront, LoopHoldsFront
  <2>4. CASE UNCHANGED <<m_packets, queued, hold>> /\ (pc' = pc \/ Goto("loop", "test"))
    BY <1>0, <2>1, <2>4, OrderInvFrame
  <2> QED
    BY <2>1, <2>2, <2>3, <2>4, OnMessageEffect
<1>4. CASE LoopReadSpoilt
  BY <1>0, <1>4, OrderInvFrame DEF LoopReadSpoilt, TakeFrame, listVars
<1>5. CASE LoopTimeout
  <2>1. UNCHANGED <<m_packets, queued, hold>>
    BY <1>5 DEF LoopTimeout, OnTimeout, listVars
  <2>2. /\ UNCHANGED <<toBoard, aired>>
        /\ \E label \in {"test", "wakeup_send", "setup_send", "entry"} : Goto("loop", label)
    BY <1>5 DEF LoopTimeout, OnTimeout, OnEntryPc, Return, linkVars
  <2> QED
    BY <1>0, <2>1, <2>2, OrderInvFrame
<1>6. CASE FsmStep("loop") /\ UNCHANGED clientVars
  BY <1>6, OrderInvFsm
<1> QED
  BY <1>1, <1>2, <1>3, <1>4, <1>5, <1>6 DEF LoopNext

\* The board transmits only packets it was sent.
LEMMA OrderInvBoard ==
    ASSUME TypeOK, OrderInv, Board
    PROVE  OrderInv'
<1> USE DEF listVars, threadVars, fsmVars
<1>1. /\ UNCHANGED <<m_packets, queued, hold, pc>>
      /\ Popped' = Popped /\ FrontPacket' = FrontPacket
      /\ IsPacketListEmpty' = IsPacketListEmpty
  BY DEF Board, Popped, FrontPacket, IsPacketListEmpty
<1>2. ASSUME toBoard # << >>, toBoard' = Tail(toBoard)
      PROVE  /\ \A i \in DOMAIN toBoard' : toBoard'[i].id <= Popped + 1
             /\ Head(toBoard).id <= Popped + 1
  <2>1. /\ Len(toBoard) \in Nat \ {0} /\ DOMAIN toBoard = 1..Len(toBoard)
        /\ DOMAIN toBoard' = 1..(Len(toBoard) - 1)
        /\ \A i \in 1..(Len(toBoard) - 1) : toBoard'[i] = toBoard[i + 1]
    BY <1>2, EmptySeq, LenProperties, HeadTailProperties DEF TypeOK, SerialLinkTypeOK
  <2>2. Head(toBoard) = toBoard[1]
    BY <1>2 DEF TypeOK, SerialLinkTypeOK
  <2>3. 1 \in DOMAIN toBoard /\ \A i \in DOMAIN toBoard' : i + 1 \in DOMAIN toBoard
    BY <2>1
  <2>4. \A i \in DOMAIN toBoard : toBoard[i].id <= Popped + 1
    BY DEF OrderInv, NeverAhead
  <2> QED
    BY <2>1, <2>2, <2>3, <2>4
<1>3. NeverAhead'
  <2>1. CASE \E type \in {"WAKEUP", "SETUP_REQ", "DATA_REQ"} : BoardReads(type)
    <3>1. toBoard # << >> /\ toBoard' = Tail(toBoard) /\ BoardAnswers(Head(toBoard))
      BY <2>1 DEF BoardReads
    <3>2. aired' \subseteq aired \cup {Head(toBoard).id}
      BY <3>1 DEF BoardAnswers
    <3> QED
      BY <1>1, <1>2, <3>1, <3>2 DEF OrderInv, NeverAhead
  <2>2. CASE BoardReadsSpoilt
    BY <1>1, <1>2, <2>2 DEF BoardReadsSpoilt, OrderInv, NeverAhead
  <2>3. CASE BoardHears
    BY <1>1, <2>3 DEF BoardHears, OrderInv, NeverAhead
  <2> QED
    BY <2>1, <2>2, <2>3 DEF Board, BoardNext
<1> QED
  BY <1>1, <1>3 DEF OrderInv, Numbered, LoopSeesFront, LoopHoldsFront

\* OrderInv holds throughout.
THEOREM OrderKept == Spec => []OrderInv
<1>1. Init => OrderInv
  BY DEF Init, PacketListInit, SerialLinkInit, LinkFsmInit, OrderInv, Numbered, Popped,
         NeverAhead, LoopSeesFront, LoopHoldsFront, Threads
<1>2. TypeOK /\ OrderInv /\ [Next]_vars => OrderInv'
  <2> SUFFICES ASSUME TypeOK, OrderInv, [Next]_vars PROVE OrderInv'
    OBVIOUS
  <2>1. CASE UNCHANGED vars
    BY <2>1, OrderInvFrame DEF vars, linkFsmVars, listVars, linkVars, threadVars
  <2> QED
    BY <2>1, OrderInvApp, OrderInvLoop, OrderInvBoard DEF Next
<1> QED
  BY <1>1, <1>2, TypeCorrect, PTL DEF Spec

\* No packet is held, on the line or on the air before its turn.
THEOREM PacketsInTurn == Spec => []NeverAhead
<1>1. OrderInv => NeverAhead
  BY DEF OrderInv
<1> QED
  BY <1>1, OrderKept, PTL

\* What the loop thread sends is the front packet: its reference never dangles.
THEOREM LoopNeverDangles == Spec => []LoopHoldsFront
<1>1. OrderInv => LoopHoldsFront
  BY DEF OrderInv
<1> QED
  BY <1>1, OrderKept, PTL
-----------------------------------------------------------------------------
(* What MCBoardClient states.                                              *)

\* What a thread holds, what is on the line and what was transmitted was
\* accepted before.
Accepted ==
    /\ \A t \in Threads : hold[t] <= queued
    /\ \A i \in DOMAIN toBoard : toBoard[i].id <= queued
    /\ \A p \in aired : p \in 1..queued

\* Accepted looks at nothing else, and queued never decreases.
LEMMA AcceptedFrame ==
    ASSUME TypeOK, Accepted, UNCHANGED <<toBoard, aired, hold>>, queued' \in Nat,
           queued' >= queued
    PROVE  Accepted'
<1>1. \A p \in 1..queued : p \in 1..queued'
  BY DEF TypeOK, PacketListTypeOK
<1>2. \A i \in DOMAIN toBoard : toBoard[i].id \in Nat
  <2>1. \A i \in DOMAIN toBoard : toBoard[i] \in Message
    BY LenProperties, ElementOfSeq DEF TypeOK, SerialLinkTypeOK
  <2> QED
    BY <2>1 DEF Message
<1>3. \A x \in Nat : x <= queued => x <= queued'
  BY DEF TypeOK, PacketListTypeOK
<1>4. \A t \in Threads : hold[t] \in Nat
  BY DEF TypeOK
<1> QED
  BY <1>1, <1>2, <1>3, <1>4 DEF Accepted

\* Writing a frame whose packet was accepted keeps Accepted.
LEMMA AcceptedWrite ==
    ASSUME TypeOK, Accepted, NEW msg \in Message, msg.id <= queued, WriteFrame(msg),
           UNCHANGED <<queued, hold>>
    PROVE  Accepted'
  BY AppendProperties, LenProperties
  DEF WriteFrame, TypeOK, SerialLinkTypeOK, Accepted

\* A handler step of either thread holds and writes accepted packets only, and
\* transmits none.
LEMMA AcceptedFsm ==
    ASSUME TypeOK, Numbered, Accepted, NEW t \in Threads, FsmStep(t)
    PROVE  Accepted' /\ aired' = aired
<1>1. queued' = queued /\ queued \in Nat
  BY FsmStepEffect DEF TypeOK, PacketListTypeOK
<1> USE DEF linkVars, listVars
<1>2. ASSUME NEW msg \in Message, NEW next, Write(t, msg, next), msg.id <= queued
      PROVE  Accepted' /\ aired' = aired
  <2>1. CASE WriteFrame(msg) /\ UNCHANGED hold
    BY <1>1, <1>2, <2>1, AcceptedWrite DEF WriteFrame
  <2>2. CASE Abort("not_open")
    BY <1>1, <2>2, AcceptedFrame DEF Abort
  <2> QED
    BY <1>2, <2>1, <2>2 DEF Write
<1>3. CASE SendSetupRequest(t)
  BY <1>1, <1>2, <1>3, MessageTypes DEF SendSetupRequest, SetupReq, TypeOK
<1>10. CASE SendWakeUp(t)
  BY <1>1, <1>2, <1>10, MessageTypes DEF SendWakeUp, Msg, MsgTypes
<1>4. CASE SendTxDataReq(t)
  <2>1. hold[t] \in Nat /\ hold[t] <= queued
    BY DEF TypeOK, Accepted
  <2>2. DataReq(hold[t]) \in Message /\ DataReq(hold[t]).id <= queued
    BY <2>1, MessageTypes DEF DataReq
  <2> QED
    BY <1>2, <1>4, <2>2 DEF SendTxDataReq
<1>5. ASSUME UNCHANGED <<toBoard, aired>>, NEW id \in Nat, id <= queued,
             hold' = hold \/ hold' = [hold EXCEPT ![t] = id]
      PROVE  Accepted' /\ aired' = aired
  BY <1>1, <1>5 DEF Accepted, TypeOK
<1>6. CASE ResetDelay(t) \/ CheckList(t) \/ StoreState(t) \/ EnterState(t)
  BY <1>1, <1>6, AcceptedFrame DEF ResetDelay, CheckList, StoreState, EnterState
<1>7. CASE TakeFront(t)
  <2>1. ~IsPacketListEmpty => FrontPacket.id \in Nat /\ FrontPacket.id <= queued
    BY FrontIsNext, LenProperties
    DEF Popped, Numbered, TypeOK, PacketListTypeOK, IsPacketListEmpty
  <2>2. CASE IsPacketListEmpty
    <3>1. hold' = [hold EXCEPT ![t] = 0] /\ UNCHANGED <<toBoard, aired>>
      BY <1>7, <2>2 DEF TakeFront
    <3>2. 0 \in Nat /\ 0 <= queued
      BY <1>1
    <3> QED
      BY <1>5, <3>1, <3>2
  <2>3. CASE ~IsPacketListEmpty
    BY <1>5, <1>7, <2>1, <2>3 DEF TakeFront
  <2> QED
    BY <2>2, <2>3
<1>8. CASE CopyPacket(t)
  <2>1. hold[t] \in Nat /\ hold[t] <= queued /\ 0 <= queued
    BY <1>1 DEF TypeOK, Accepted
  <2>2. CASE Abort("null_front") \/ Abort("dangling")
    BY <1>1, <2>2, AcceptedFrame DEF Abort
  <2>3. CASE /\ hold' = [hold EXCEPT ![t] = IF Dangling(@) THEN 0 ELSE @]
             /\ UNCHANGED linkVars
    BY <1>5, <2>1, <2>3
  <2> QED
    BY <1>8, <2>2, <2>3 DEF CopyPacket
<1>9. CASE ReadTransmissions(t)
  BY <1>1, <1>5, <1>9, AcceptedFrame DEF ReadTransmissions, Abort
<1> QED
  BY <1>3, <1>4, <1>6, <1>7, <1>8, <1>9, <1>10 DEF FsmStep

\* What is known before every step of the client, the line and the board.
KnownInv == TypeOK /\ ThreadInv /\ OrderInv /\ Accepted

LEMMA AcceptedApp ==
    ASSUME KnownInv, AppNext
    PROVE  Accepted' /\ aired' = aired
<1>0. queued \in Nat
  BY DEF KnownInv, TypeOK, PacketListTypeOK
<1>1. CASE FsmStep("app") /\ UNCHANGED clientVars
  BY <1>1, AcceptedFsm DEF KnownInv, OrderInv, Threads
<1>2. CASE /\ UNCHANGED <<toBoard, aired, hold>>
           /\ queued' \in {queued, queued + 1}
  BY <1>0, <1>2, AcceptedFrame DEF KnownInv
<1> USE DEF listVars, linkVars
<1>3. ASSUME NEW m \in Modes, Configure(m)
      PROVE  Accepted' /\ aired' = aired
  BY <1>2, <1>3 DEF Configure, OpenAndSpawn, OpenPort
<1>4. ASSUME NEW s \in SyncCalls, NEW n \in Transmissions, SendPacket(s, n)
      PROVE  Accepted' /\ aired' = aired
  BY <1>2, <1>4 DEF SendPacket, EmplaceBack
<1>5. CASE Run \/ Joined
  BY <1>2, <1>5 DEF Run, OpenAndSpawn, OpenPort, Joined
<1>6. CASE WaitingActive \/ SendWrongLength \/ CallInactive \/ LinkSendPacket
  BY <1>2, <1>6 DEF WaitingActive, SendWrongLength, CallInactive, FailCheckActive,
                    LinkSendPacket
<1>7. CASE AfterSend \/ WaitingSend \/ Stop
  BY <1>2, <1>7 DEF AfterSend, WaitingSend, Stop
<1> QED
  BY <1>1, <1>3, <1>4, <1>5, <1>6, <1>7 DEF AppNext

LEMMA AcceptedLoop ==
    ASSUME KnownInv, LoopNext
    PROVE  Accepted' /\ aired' = aired
<1>0. queued \in Nat
  BY DEF KnownInv, TypeOK, PacketListTypeOK
<1>1. CASE FsmStep("loop") /\ UNCHANGED clientVars
  BY <1>1, AcceptedFsm DEF KnownInv, OrderInv, Threads
<1>2. CASE UNCHANGED <<toBoard, aired, hold, queued>>
  BY <1>0, <1>2, AcceptedFrame DEF KnownInv
<1> USE DEF listVars, linkVars
<1>4. CASE LoopStart
  BY <1>2, <1>4 DEF LoopStart, Activate, ChangeState
<1>5. CASE LoopTest \/ LoopReadSpoilt
  BY <1>2, <1>5 DEF LoopTest, LoopReadSpoilt, TakeFrame
<1>6. ASSUME NEW type \in MsgTypes, LoopRead(type)
      PROVE  Accepted' /\ aired' = aired
  BY <1>2, <1>6, OnMessageEffect DEF LoopRead, TakeFrame, PopPacket
<1>7. CASE LoopTimeout
  BY <1>2, <1>7 DEF LoopTimeout, OnTimeout
<1> QED
  BY <1>1, <1>4, <1>5, <1>6, <1>7 DEF LoopNext

\* The board transmits no packet, or the one of the frame it reads.
LEMMA AcceptedBoard ==
    ASSUME KnownInv, Board
    PROVE  /\ Accepted'
           /\ \/ aired' = aired
              \/ \E p \in 1..queued : p <= Popped + 1 /\ aired' = aired \cup {p}
<1>1. UNCHANGED <<queued, hold>> /\ queued \in Nat
  BY DEF Board, listVars, threadVars, KnownInv, TypeOK, PacketListTypeOK
<1>2. ASSUME toBoard # << >>, toBoard' = Tail(toBoard)
      PROVE  /\ \A i \in DOMAIN toBoard' : toBoard'[i].id <= queued
             /\ Head(toBoard).id \in Nat
             /\ Head(toBoard).id <= queued /\ Head(toBoard).id <= Popped + 1
  <2>1. /\ Len(toBoard) \in Nat \ {0} /\ DOMAIN toBoard = 1..Len(toBoard)
        /\ DOMAIN toBoard' = 1..(Len(toBoard) - 1)
        /\ \A i \in 1..(Len(toBoard) - 1) : toBoard'[i] = toBoard[i + 1]
    BY <1>2, EmptySeq, LenProperties, HeadTailProperties
    DEF KnownInv, TypeOK, SerialLinkTypeOK
  <2>2. Head(toBoard) = toBoard[1] /\ toBoard[1] \in Message
    BY <1>2, <2>1, ElementOfSeq DEF KnownInv, TypeOK, SerialLinkTypeOK
  <2>3. 1 \in DOMAIN toBoard /\ \A i \in DOMAIN toBoard' : i + 1 \in DOMAIN toBoard
    BY <2>1
  <2>4. \A i \in DOMAIN toBoard : toBoard[i].id <= Popped + 1 /\ toBoard[i].id <= queued
    BY DEF KnownInv, OrderInv, NeverAhead, Accepted
  <2> QED
    BY <2>1, <2>2, <2>3, <2>4 DEF Message
<1>3. CASE \E type \in {"WAKEUP", "SETUP_REQ", "DATA_REQ"} : BoardReads(type)
  <2>1. toBoard # << >> /\ toBoard' = Tail(toBoard) /\ BoardAnswers(Head(toBoard))
    BY <1>3 DEF BoardReads
  <2>2. aired' = aired \/ aired' = aired \cup ({Head(toBoard).id} \ {0})
    BY <2>1 DEF BoardAnswers
  <2>3. CASE aired' = aired
    BY <1>1, <1>2, <2>1, <2>3 DEF KnownInv, Accepted
  <2>4. CASE aired' = aired \cup {Head(toBoard).id} /\ Head(toBoard).id # 0
    <3>1. Head(toBoard).id \in 1..queued
      BY <1>1, <1>2, <2>1, <2>4
    <3> QED
      BY <1>1, <1>2, <2>1, <2>4, <3>1 DEF KnownInv, Accepted
  <2> QED
    BY <2>2, <2>3, <2>4
<1>4. CASE BoardReadsSpoilt
  BY <1>1, <1>2, <1>4 DEF BoardReadsSpoilt, KnownInv, Accepted
<1>5. CASE BoardHears
  BY <1>1, <1>5 DEF BoardHears, KnownInv, Accepted
<1> QED
  BY <1>3, <1>4, <1>5 DEF Board, BoardNext

\* Everything held, sent or transmitted was accepted before.
THEOREM OnlyAccepted == Spec => []Accepted
<1>1. Init => Accepted
  BY DEF Init, PacketListInit, SerialLinkInit, LinkFsmInit, Accepted, Threads
<1>2. TypeOK /\ ThreadInv /\ OrderInv /\ Accepted /\ [Next]_vars => Accepted'
  <2> SUFFICES ASSUME KnownInv, [Next]_vars PROVE Accepted'
    BY DEF KnownInv
  <2>1. CASE UNCHANGED vars
    BY <2>1, AcceptedFrame
    DEF vars, linkFsmVars, listVars, linkVars, threadVars, KnownInv, TypeOK,
        PacketListTypeOK
  <2> QED
    BY <2>1, AcceptedApp, AcceptedLoop, AcceptedBoard DEF Next
<1> QED
  BY <1>1, <1>2, TypeCorrect, ThreadSafety, OrderKept, PTL DEF Spec
-----------------------------------------------------------------------------
(* The refinement.                                                         *)

\* Promise!waiting: the packets on the list, by number.
Waiting == [i \in DOMAIN m_packets |-> m_packets[i].id]

\* Nothing that the outbox shows changes.
Hidden == /\ UNCHANGED <<m_packets, queued, aired, terminate>>
          /\ LoopRuns' = LoopRuns

LEMMA HiddenStutters ==
    ASSUME Hidden
    PROVE  UNCHANGED Promise!vars
  BY DEF Hidden, Promise!vars

\* Stop and CHECK_ACTIVE: the client is closed at once only if no thread runs,
\* and then nothing is queued.
LEMMA StopRefines ==
    ASSUME KnownInv, UNCHANGED <<m_packets, queued, aired>>, terminate' = TRUE,
           LoopRuns' = LoopRuns
    PROVE  Promise!StopCall
<1>1. ~LoopRuns => Waiting = << >>
  BY DEF KnownInv, ThreadInv, IdleLoop, IsPacketListEmpty, Waiting
<1> QED
  BY <1>1 DEF Promise!StopCall, Waiting, LoopRuns

\* Run and the first Configure start a thread only where none runs.
LEMMA RunRefines ==
    ASSUME KnownInv, NEW next, OpenAndSpawn(next), UNCHANGED terminate
    PROVE  [Promise!Next]_(Promise!vars)
<1>1. CASE pc' = [pc EXCEPT !["app"] = next, !["loop"] = "start"] /\ ~portOpen
  <2>1. ~LoopRuns /\ LoopRuns'
    BY <1>1 DEF KnownInv, ThreadInv, PortOpenWhileLooping, LoopRuns, TypeOK, Threads
  <2>2. UNCHANGED <<m_packets, queued, aired>>
    BY <1>1 DEF OpenAndSpawn, OpenPort, listVars, linkVars
  <2>3. CASE terminate
    BY <2>1, <2>2, <2>3 DEF Promise!Rerun, Promise!Next
  <2>4. CASE ~terminate
    BY <2>1, <2>2, <2>4 DEF Promise!vars
  <2> QED
    BY <2>3, <2>4
<1>2. CASE UNCHANGED <<listVars, linkVars, pc>>
  BY <1>2, HiddenStutters DEF Hidden, listVars, linkVars, LoopRuns
<1> QED
  BY <1>1, <1>2 DEF OpenAndSpawn

\* A packet goes to the list's end with the next number.
LEMMA SendRefines ==
    ASSUME KnownInv, NEW s \in SyncCalls, NEW n \in Transmissions, SendPacket(s, n)
    PROVE  Promise!Accept
<1>1. /\ m_packets \in Seq(Packet) /\ queued \in Nat
      /\ m_packets' = Append(m_packets, [id |-> queued + 1, transmissions |-> n])
      /\ queued' = queued + 1
  BY DEF KnownInv, TypeOK, PacketListTypeOK, SendPacket, EmplaceBack
<1>2. Waiting' = Append(Waiting, queued + 1)
  BY <1>1 DEF Waiting
<1>3. ~terminate /\ terminate' = terminate /\ aired' = aired /\ LoopRuns' = LoopRuns
  BY DEF SendPacket, IsActive, linkVars, Goto, LoopRuns, KnownInv, TypeOK, Threads
<1> QED
  BY <1>1, <1>2, <1>3 DEF Promise!Accept, Waiting

\* The front packet leaves while the loop thread runs.
LEMMA PopRefines ==
    ASSUME KnownInv, ~IsPacketListEmpty, PopPacket, LoopRuns,
           UNCHANGED <<aired, terminate>>, LoopRuns'
    PROVE  Promise!Leave
<1>1. /\ m_packets \in Seq(Packet) /\ m_packets # << >>
      /\ m_packets' = Tail(m_packets) /\ queued' = queued
  BY DEF KnownInv, TypeOK, PacketListTypeOK, PopPacket, IsPacketListEmpty
<1>2. Waiting' = Tail(Waiting) /\ Waiting # << >>
  BY <1>1 DEF Waiting
<1> QED
  BY <1>1, <1>2 DEF Promise!Leave, Waiting

\* The radio transmits a packet that was accepted and is not behind the front.
LEMMA BoardRefines ==
    ASSUME KnownInv, Board
    PROVE  [Promise!Next]_(Promise!vars)
<1>1. UNCHANGED <<m_packets, queued, terminate, pc>> /\ LoopRuns' = LoopRuns
  BY DEF Board, listVars, threadVars, clientVars, LoopRuns
<1>2. CASE aired' = aired
  BY <1>1, <1>2, HiddenStutters DEF Hidden
<1>3. ASSUME NEW p \in 1..queued, p <= Popped + 1, aired' = aired \cup {p}
      PROVE  Promise!Next
  <2>1. \A i \in DOMAIN Waiting : p <= Waiting[i]
    BY <1>3, LenProperties
    DEF KnownInv, OrderInv, Numbered, Popped, TypeOK, PacketListTypeOK, Waiting
  <2> QED
    BY <1>1, <1>3, <2>1 DEF Promise!Next, Promise!Air, Waiting
<1> QED
  BY <1>2, <1>3, AcceptedBoard

\* A handler step shows the outbox nothing.
LEMMA FsmRefines ==
    ASSUME KnownInv, NEW t \in Threads, FsmStep(t), UNCHANGED clientVars
    PROVE  [Promise!Next]_(Promise!vars)
<1>1. UNCHANGED <<m_packets, queued, aired, terminate>>
  BY FsmStepEffect, AcceptedFsm DEF KnownInv, OrderInv, clientVars
<1>2. LoopRuns' = LoopRuns
  BY FsmStepEffect
  DEF LoopRuns, Return, Goto, Threads, ChangePcs, EntryPcs, KnownInv, TypeOK
<1> QED
  BY <1>1, <1>2, HiddenStutters DEF Hidden

LEMMA AppStepRefines ==
    ASSUME KnownInv, AppNext
    PROVE  [Promise!Next]_(Promise!vars)
<1>1. ASSUME NEW m \in Modes, Configure(m)
      PROVE  [Promise!Next]_(Promise!vars)
  <2>1. CASE OpenAndSpawn("wait_active")
    BY <1>1, <2>1, RunRefines DEF Configure
  <2>2. CASE Goto("app", "change") /\ UNCHANGED <<listVars, linkVars>>
    BY <1>1, <2>2, HiddenStutters
    DEF Configure, Hidden, listVars, linkVars, Goto, LoopRuns, KnownInv, TypeOK, Threads
  <2> QED
    BY <1>1, <2>1, <2>2 DEF Configure
<1>2. CASE Run
  BY <1>2, RunRefines DEF Run, clientVars
<1>3. ASSUME NEW s \in SyncCalls, NEW n \in Transmissions, SendPacket(s, n)
      PROVE  [Promise!Next]_(Promise!vars)
  BY <1>3, SendRefines DEF Promise!Next
<1>4. CASE FsmStep("app") /\ UNCHANGED clientVars
  BY <1>4, FsmRefines DEF Threads
<1> USE DEF App, Goto, LoopRuns, listVars, linkVars, clientVars, KnownInv, TypeOK,
            Threads, Hidden
<1>5. CASE WaitingActive \/ SendWrongLength \/ LinkSendPacket \/ WaitingSend
  <2>1. Hidden
    BY <1>5 DEF WaitingActive, SendWrongLength, LinkSendPacket, WaitingSend
  <2> QED
    BY <2>1, HiddenStutters
<1>6. CASE CallInactive \/ Stop
  BY <1>6, StopRefines DEF CallInactive, FailCheckActive, Stop, Promise!Next
<1>7. CASE AfterSend
  <2>1. UNCHANGED <<m_packets, queued, aired>> /\ LoopRuns' = LoopRuns
    BY <1>7 DEF AfterSend
  <2>2. CASE terminate' = terminate
    BY <2>1, <2>2, HiddenStutters
  <2>3. CASE terminate' = TRUE
    BY <2>1, <2>3, StopRefines DEF Promise!Next
  <2> QED
    BY <1>7, <2>2, <2>3 DEF AfterSend
<1>8. CASE Joined
  <2>1. Hidden
    BY <1>8 DEF Joined
  <2> QED
    BY <2>1, HiddenStutters
<1> QED
  BY <1>1, <1>2, <1>3, <1>4, <1>5, <1>6, <1>7, <1>8 DEF AppNext

LEMMA LoopStepRefines ==
    ASSUME KnownInv, LoopNext
    PROVE  [Promise!Next]_(Promise!vars)
<1>1. CASE FsmStep("loop") /\ UNCHANGED clientVars
  BY <1>1, FsmRefines DEF Threads
<1>2. aired' = aired
  BY AcceptedLoop
<1> USE DEF Goto, LoopRuns, listVars, clientVars, KnownInv, TypeOK, Threads, Hidden
<1>3. CASE LoopStart \/ LoopReadSpoilt
  <2>1. Hidden
    BY <1>2, <1>3 DEF LoopStart, Activate, ChangeState, LoopReadSpoilt, TakeFrame
  <2> QED
    BY <2>1, HiddenStutters
<1>4. CASE LoopTest
  <2>1. UNCHANGED <<m_packets, queued, terminate>>
    BY <1>4 DEF LoopTest
  <2>2. CASE terminate /\ IsPacketListEmpty
    <3>1. Waiting = << >> /\ ~LoopRuns'
      BY <1>4, <2>2 DEF LoopTest, IsPacketListEmpty, Waiting
    <3> QED
      BY <1>2, <2>1, <2>2, <3>1 DEF Promise!Close, Promise!Next, Waiting
  <2>3. CASE ~(terminate /\ IsPacketListEmpty)
    BY <1>2, <1>4, <2>1, <2>3, HiddenStutters DEF LoopTest
  <2> QED
    BY <2>2, <2>3
<1>5. ASSUME NEW type \in MsgTypes, LoopRead(type)
      PROVE  [Promise!Next]_(Promise!vars)
  <2>1. OnMessage(type) /\ pc["loop"] = "read" /\ terminate' = terminate
    BY <1>5 DEF LoopRead, TakeFrame
  <2>2. CASE ~IsPacketListEmpty /\ PopPacket /\ Goto("loop", "entry")
    BY <1>2, <2>1, <2>2, PopRefines DEF Promise!Next
  <2>3. CASE /\ UNCHANGED <<m_packets, queued>>
             /\ pc' = pc \/ Goto("loop", "change") \/ Goto("loop", "test")
    BY <1>2, <2>1, <2>3, HiddenStutters
  <2> QED
    BY <2>1, <2>2, <2>3, OnMessageEffect
<1>6. CASE LoopTimeout
  <2>1. Hidden
    BY <1>2, <1>6 DEF LoopTimeout, OnTimeout, OnEntryPc, Return
  <2> QED
    BY <2>1, HiddenStutters
<1> QED
  BY <1>1, <1>3, <1>4, <1>5, <1>6 DEF LoopNext

\* The client implements Outbox: packets leave in the order in which they were
\* accepted, none is transmitted before its turn or without having been
\* accepted, and the client closes only when it holds none.
THEOREM ClientRefines == Spec => ImplementsOutbox
<1>1. Init => Promise!Init
  BY DEF Init, PacketListInit, SerialLinkInit, Promise!Init
<1>2. TypeOK /\ ThreadInv /\ OrderInv /\ Accepted /\ [Next]_vars
          => [Promise!Next]_(Promise!vars)
  <2> SUFFICES ASSUME KnownInv, [Next]_vars PROVE [Promise!Next]_(Promise!vars)
    BY DEF KnownInv
  <2>1. CASE UNCHANGED vars
    BY <2>1, HiddenStutters
    DEF vars, linkFsmVars, listVars, linkVars, threadVars, clientVars, Hidden, LoopRuns
  <2> QED
    BY <2>1, AppStepRefines, LoopStepRefines, BoardRefines DEF Next
<1> QED
  BY <1>1, <1>2, TypeCorrect, ThreadSafety, OrderKept, OnlyAccepted, PTL
  DEF Spec, Promise!Spec, ImplementsOutbox
-----------------------------------------------------------------------------
(* The board's mode.                                                       *)

\* The last SETUP_REQ written, on the line or off it by now, asks for mode m.
LastAsked(m) ==
    IF SetupsOnLine = {}
      THEN asked = m
      ELSE \E i \in SetupsOnLine :
              toBoard[i].mode = m /\ \A j \in SetupsOnLine : j <= i

\* A thread has still to write a SETUP_REQ, or to find out that it need not.
SetsUp ==
    \/ pc["app"] \in ChangePcs
    \/ pc["loop"] = "setup_send"
    \/ pc["loop"] = "enter" /\ m_state = "SETUP"

\* Once the link is being set up the last SETUP_REQ asks for the client's mode,
\* unless a thread has still to write one, or Configure's thread was overtaken.
\* The loop thread writes one in SETUP only, and activates the link from there.
ModeInv ==
    /\ pc["loop"] = "setup_send" => m_state = "SETUP"
    /\ (/\ pc["loop"] = "change"
        /\ new_state["loop"] \in {"TX_ACTIVE", "RX_ACTIVE"}) => m_state = "SETUP"
    /\ pc["app"] = "wakeup_send" => overtaken
    /\ (/\ m_state = "SETUP" \/ LinkIsActive
        /\ ~SetsUp
        /\ ~overtaken) => LastAsked(mode)

\* What Watch says of a step that reads no frame, and of one outside ChangeState.
Unwatched == asked' = asked /\ overtaken' = overtaken

\* A SETUP_REQ at the end of the line is the last one, and other frames do not
\* matter.
LEMMA WriteTurns ==
    ASSUME SerialLinkTypeOK, NEW msg \in Message, WriteFrame(msg), asked' = asked, NEW m
    PROVE  /\ msg.type # "SETUP_REQ" /\ LastAsked(m) => LastAsked(m)'
           /\ msg = SetupReq(m) => LastAsked(m)'
<1>1. /\ Len(toBoard) \in Nat /\ DOMAIN toBoard = 1..Len(toBoard)
      /\ DOMAIN toBoard' = 1..(Len(toBoard) + 1)
      /\ \A i \in 1..Len(toBoard) : toBoard'[i] = toBoard[i]
      /\ toBoard'[Len(toBoard) + 1] = msg
  BY AppendProperties, LenProperties DEF SerialLinkTypeOK, WriteFrame
<1>2. CASE msg.type # "SETUP_REQ"
  <2>1. SetupsOnLine' = SetupsOnLine
    BY <1>1, <1>2 DEF SetupsOnLine
  <2>2. \A i \in SetupsOnLine : toBoard'[i] = toBoard[i]
    BY <1>1 DEF SetupsOnLine
  <2> QED
    BY <1>1, <1>2, <2>1, <2>2 DEF LastAsked, SetupReq
<1>3. CASE msg = SetupReq(m)
  <2>1. Len(toBoard) + 1 \in SetupsOnLine'
    BY <1>1, <1>3 DEF SetupsOnLine, SetupReq
  <2>2. \A j \in SetupsOnLine' : j <= Len(toBoard) + 1
    BY <1>1 DEF SetupsOnLine
  <2>3. toBoard'[Len(toBoard) + 1].mode = m
    BY <1>1, <1>3 DEF SetupReq
  <2> QED
    BY <2>1, <2>2, <2>3 DEF LastAsked, SetupReq
<1> QED
  BY <1>2, <1>3

\* Reading a frame off the line leaves the last SETUP_REQ what it was.
LEMMA ReadTurns ==
    ASSUME SerialLinkTypeOK, toBoard # << >>, toBoard' = Tail(toBoard), NEW m,
           LastAsked(m), Watch
    PROVE  LastAsked(m)'
<1>1. /\ Len(toBoard) \in Nat \ {0} /\ DOMAIN toBoard = 1..Len(toBoard)
      /\ DOMAIN toBoard' = 1..(Len(toBoard) - 1)
      /\ \A i \in 1..(Len(toBoard) - 1) : toBoard'[i] = toBoard[i + 1]
      /\ Head(toBoard) = toBoard[1]
  BY EmptySeq, LenProperties, HeadTailProperties DEF SerialLinkTypeOK
<1>2. \A i \in SetupsOnLine' : i + 1 \in SetupsOnLine /\ toBoard'[i] = toBoard[i + 1]
  BY <1>1 DEF SetupsOnLine
<1>3. \A i \in SetupsOnLine : i = 1 \/ i - 1 \in SetupsOnLine'
  BY <1>1 DEF SetupsOnLine
<1>4. SetupsOnLine \subseteq Nat \ {0} /\ SetupsOnLine' \subseteq Nat \ {0}
  BY <1>1 DEF SetupsOnLine
<1>5. asked' = IF 1 \in SetupsOnLine THEN toBoard[1].mode ELSE asked
  BY <1>1 DEF Watch, SetupsOnLine
<1>6. CASE SetupsOnLine = {}
  BY <1>2, <1>5, <1>6 DEF LastAsked
<1>7. CASE SetupsOnLine # {}
  <2>1. PICK i \in SetupsOnLine : toBoard[i].mode = m /\ \A j \in SetupsOnLine : j <= i
    BY <1>7 DEF LastAsked
  <2>2. CASE i = 1
    <3>1. SetupsOnLine' = {}
      BY <1>2, <1>4, <2>1, <2>2
    <3> QED
      BY <1>5, <2>1, <2>2, <3>1 DEF LastAsked
  <2>3. CASE i # 1
    <3>1. i - 1 \in SetupsOnLine' /\ toBoard'[i - 1].mode = m
      <4>1. i - 1 \in SetupsOnLine' /\ (i - 1) + 1 = i
        BY <1>3, <1>4, <2>3
      <4>2. toBoard'[i - 1] = toBoard[i]
        BY <1>2, <4>1
      <4> QED
        BY <2>1, <4>1, <4>2
    <3>2. \A j \in SetupsOnLine' : j <= i - 1
      BY <1>2, <1>4, <2>1
    <3> QED
      BY <3>1, <3>2 DEF LastAsked
  <2> QED
    BY <2>2, <2>3
<1> QED
  BY <1>6, <1>7

\* A step of the client's threads takes no frame off the line to the board, and
\* only EnterState and Abort are watched at "enter".
LEMMA WatchKeeps ==
    ASSUME Watch
    PROVE  /\ toBoard' = toBoard => asked' = asked
           /\ pc["app"] # "enter" \/ pc'["app"] = "enter" => overtaken' = overtaken
  BY DEF Watch
-----------------------------------------------------------------------------
(* The steps.                                                              *)

\* Steps that leave the mode and the frames to the board alone, and bring the
\* link no nearer to being set up, keep ModeInv.
LEMMA ModeFrame ==
    ASSUME ModeInv, UNCHANGED <<m_state, mode, toBoard>>, Unwatched,
           pc'["app"] # "wakeup_send" \/ pc["app"] = "wakeup_send",
           pc["app"] \in ChangePcs => pc'["app"] \in ChangePcs,
           pc["loop"] \in {"enter", "setup_send"} => pc'["loop"] = pc["loop"],
           pc'["loop"] = "setup_send" => m_state = "SETUP",
           (/\ pc'["loop"] = "change"
            /\ new_state'["loop"] \in {"TX_ACTIVE", "RX_ACTIVE"}) => m_state = "SETUP"
    PROVE  ModeInv'
  BY DEF ModeInv, SetsUp, Unwatched, LinkIsActive, LastAsked, SetupsOnLine

\* A frame written leaves the line one longer: nothing is taken off it.
LEMMA WriteUnwatched ==
    ASSUME SerialLinkTypeOK, NEW msg \in Message, WriteFrame(msg), Watch
    PROVE  asked' = asked
<1>1. CASE toBoard # << >>
  <2>1. Len(toBoard') = Len(toBoard) + 1 /\ Len(Tail(toBoard)) = Len(toBoard) - 1
        /\ Len(toBoard) \in Nat
    BY <1>1, AppendProperties, HeadTailProperties, LenProperties
    DEF SerialLinkTypeOK, WriteFrame
  <2>2. toBoard' # Tail(toBoard)
    BY <2>1
  <2> QED
    BY <2>2 DEF Watch
<1> QED
  BY <1>1 DEF Watch

LEMMA ModeFsm ==
    ASSUME TypeOK, ThreadInv, ModeInv, NEW t \in Threads, FsmStep(t), Watch
    PROVE  ModeInv'
<1> USE DEF Threads, Goto
<1>0. pc \in [Threads -> AppPcs \cup LoopPcs] /\ new_state \in [Threads -> StateIds \cup {"none"}]
  BY DEF TypeOK
<1>1. ASSUME NEW reason, Abort(reason)
      PROVE  ModeInv'
  <2>1. UNCHANGED <<m_state, mode, toBoard, pc, new_state>>
    BY <1>1 DEF Abort, fsmVars, linkVars, changeVars
  <2>2. Unwatched
    BY <2>1, WatchKeeps DEF Unwatched
  <2> QED
    BY <2>1, <2>2, ModeFrame DEF ModeInv
<1>2. ASSUME NEW msg \in Message, WriteFrame(msg), msg.type # "SETUP_REQ",
             pc[t] \notin {"change", "enter", "setup_send"},
             pc'[t] \notin ChangePcs,
             pc' = [pc EXCEPT ![t] = pc'[t]],
             t = "app" => pc[t] \notin ChangePcs \/ overtaken,
             UNCHANGED <<m_state, mode, new_state>>
      PROVE  ModeInv'
  <2>1. Unwatched
    BY <1>0, <1>2, WatchKeeps, WriteUnwatched DEF Unwatched, TypeOK, ChangePcs
  <2>2. LastAsked(mode) => LastAsked(mode)'
    BY <1>2, <2>1, WriteTurns DEF TypeOK, Unwatched
  <2> QED
    BY <1>0, <1>2, <2>1, <2>2 DEF ModeInv, SetsUp, LinkIsActive, Unwatched, ChangePcs
<1>3. CASE SendSetupRequest(t)
  <2>1. CASE ~Abort("not_open")
    <3>1. /\ WriteFrame(SetupReq(mode)) /\ Goto(t, Return(t))
          /\ UNCHANGED <<m_state, mode, new_state>> /\ pc[t] = "setup_send"
      BY <1>3, <2>1 DEF SendSetupRequest, Write, fsmVars, changeVars
    <3>2. SetupReq(mode) \in Message /\ SerialLinkTypeOK
      BY MessageTypes DEF TypeOK
    <3>3. asked' = asked
      BY <3>1, <3>2, WriteUnwatched
    <3>4. LastAsked(mode)'
      BY <3>1, <3>2, <3>3, WriteTurns
    <3>5. Return(t) \notin ChangePcs
      BY DEF Return, ChangePcs, TypeOK
    <3>6. overtaken' = overtaken
      BY <1>0, <3>1, WatchKeeps
    <3> QED
      BY <1>0, <3>1, <3>4, <3>5, <3>6 DEF ModeInv, ChangePcs
  <2> QED
    BY <1>1, <2>1
<1>4. CASE SendWakeUp(t)
  <2>1. CASE ~Abort("not_open")
    <3>1. /\ WriteFrame(Msg("WAKEUP")) /\ Goto(t, Return(t))
          /\ UNCHANGED <<m_state, mode, new_state>> /\ pc[t] = "wakeup_send"
      BY <1>4, <2>1 DEF SendWakeUp, Write, fsmVars, changeVars
    <3>2. Msg("WAKEUP") \in Message /\ Msg("WAKEUP").type # "SETUP_REQ"
      BY MessageTypes DEF Msg, MsgTypes
    <3>3. Return(t) \notin ChangePcs
      BY DEF Return, ChangePcs, TypeOK
    <3> QED
      BY <1>0, <1>2, <3>1, <3>2, <3>3 DEF ModeInv
  <2> QED
    BY <1>1, <2>1
<1>5. CASE SendTxDataReq(t)
  <2>1. CASE ~Abort("not_open")
    <3>1. /\ WriteFrame(DataReq(hold[t])) /\ Goto(t, "delay")
          /\ UNCHANGED <<m_state, mode, new_state>> /\ pc[t] = "write"
      BY <1>5, <2>1 DEF SendTxDataReq, Write, fsmVars, changeVars
    <3>2. DataReq(hold[t]) \in Message /\ DataReq(hold[t]).type # "SETUP_REQ"
      BY MessageTypes DEF DataReq, TypeOK
    <3> QED
      BY <1>0, <1>2, <3>1, <3>2 DEF ChangePcs
  <2> QED
    BY <1>1, <2>1
<1>6. CASE StoreState(t)
  <2>1. /\ pc[t] = "change" /\ pc' = [pc EXCEPT ![t] = "enter"]
        /\ m_state' = new_state[t] /\ new_state' = [new_state EXCEPT ![t] = "none"]
        /\ UNCHANGED <<toBoard, mode>>
    BY <1>6 DEF StoreState, linkVars
  <2>2. Unwatched
    BY <1>0, <2>1, WatchKeeps DEF Unwatched
  <2>3. LastAsked(mode)' = LastAsked(mode)
    BY <2>1, <2>2 DEF LastAsked, SetupsOnLine, Unwatched
  <2>4. new_state["app"] \in {"SETUP", "none"} /\ new_state[t] # "none"
    BY <2>1 DEF ThreadInv, StoresKnown, TypeOK
  <2> QED
    BY <1>0, <2>1, <2>2, <2>3, <2>4
    DEF ModeInv, SetsUp, LinkIsActive, Unwatched, ChangePcs
<1>7. CASE EnterState(t)
  <2>1. /\ pc[t] = "enter" /\ pc' = [pc EXCEPT ![t] = OnEntryPc(t, m_state)]
        /\ UNCHANGED <<toBoard, m_state, mode, new_state>>
    BY <1>7 DEF EnterState, linkVars, fsmVars, changeVars
  <2>2. asked' = asked
    BY <2>1, WatchKeeps
  <2>3. LastAsked(mode)' = LastAsked(mode)
    BY <2>1, <2>2 DEF LastAsked, SetupsOnLine
  <2>4. OnEntryPc(t, m_state) \notin {"change", "enter"}
        /\ (OnEntryPc(t, m_state) = "wakeup_send" => m_state = "CONNECTING")
        /\ (OnEntryPc(t, m_state) = "setup_send" <=> m_state = "SETUP")
    BY DEF OnEntryPc, Return, TypeOK
  <2>5. CASE t = "app"
    <3>1. overtaken' = (m_state # "SETUP")
      BY <1>0, <2>1, <2>4, <2>5 DEF Watch
    <3> QED
      BY <1>0, <2>1, <2>3, <2>4, <2>5, <3>1 DEF ModeInv, SetsUp, LinkIsActive, ChangePcs
  <2>6. CASE t = "loop"
    <3>1. overtaken' = overtaken
      BY <1>0, <2>1, <2>6, WatchKeeps
    <3> QED
      BY <1>0, <2>1, <2>3, <2>4, <2>6, <3>1 DEF ModeInv, SetsUp, LinkIsActive, ChangePcs
  <2> QED
    BY <2>5, <2>6
<1>8. ASSUME UNCHANGED <<m_state, mode, toBoard, new_state>>, pc[t] \in EntryPcs,
             NEW label \in EntryPcs \cup {Return(t)}, Goto(t, label)
      PROVE  ModeInv'
  <2>1. label \notin ChangePcs /\ pc[t] \notin ChangePcs
    BY <1>8 DEF Return, ChangePcs, EntryPcs, TypeOK
  <2>2. Unwatched
    BY <1>0, <1>8, <2>1, WatchKeeps DEF Unwatched, ChangePcs
  <2> QED
    BY <1>0, <1>8, <2>1, <2>2, ModeFrame DEF ModeInv, ChangePcs
<1> USE DEF fsmVars, linkVars, changeVars, EntryPcs
<1>9. CASE ResetDelay(t) \/ CheckList(t) \/ TakeFront(t)
  BY <1>8, <1>9 DEF ResetDelay, CheckList, TakeFront
<1>10. CASE CopyPacket(t) \/ ReadTransmissions(t)
  BY <1>1, <1>8, <1>10 DEF CopyPacket, ReadTransmissions
<1> QED
  BY <1>3, <1>4, <1>5, <1>6, <1>7, <1>9, <1>10 DEF FsmStep

LEMMA ModeApp ==
    ASSUME TypeOK, ThreadInv, ModeInv, AppNext, Watch
    PROVE  ModeInv'
<1> USE DEF Threads, Goto, App, linkVars, fsmVars, changeVars
<1>0. pc \in [Threads -> AppPcs \cup LoopPcs] /\ new_state \in [Threads -> StateIds \cup {"none"}]
  BY DEF TypeOK
<1>1. ASSUME UNCHANGED <<m_state, mode, toBoard, new_state>>,
             NEW label, Goto("app", label), label \notin ChangePcs,
             pc["app"] \notin ChangePcs
      PROVE  ModeInv'
  <2>1. Unwatched
    BY <1>0, <1>1, WatchKeeps DEF Unwatched, ChangePcs
  <2> QED
    BY <1>0, <1>1, <2>1, ModeFrame DEF ModeInv, ChangePcs
<1>2. ASSUME NEW m \in Modes, Configure(m)
      PROVE  ModeInv'
  <2>1. UNCHANGED <<toBoard, m_state>> /\ pc["app"] = "idle"
    BY <1>2 DEF Configure, OpenAndSpawn, OpenPort
  <2>2. Unwatched
    BY <2>1, WatchKeeps DEF Unwatched
  <2>3. CASE m_state # "INIT" /\ Goto("app", "change")
             /\ new_state' = [new_state EXCEPT !["app"] = "SETUP"]
    BY <1>0, <2>1, <2>2, <2>3 DEF ModeInv, SetsUp, ChangePcs, Unwatched
  <2>4. CASE m_state = "INIT" /\ OpenAndSpawn("wait_active")
    BY <1>0, <2>1, <2>2, <2>4
    DEF OpenAndSpawn, ModeInv, LinkIsActive, Unwatched
  <2> QED
    BY <1>2, <2>3, <2>4 DEF Configure
<1>3. CASE Run
  <2>1. UNCHANGED <<toBoard, m_state, mode, new_state>> /\ pc["app"] = "idle"
    BY <1>3 DEF Run, OpenAndSpawn, OpenPort
  <2>2. Unwatched
    BY <2>1, WatchKeeps DEF Unwatched
  <2>3. CASE pc' = pc
    BY <2>1, <2>2, <2>3, ModeFrame DEF ModeInv
  <2>4. CASE pc' = [pc EXCEPT !["app"] = "idle", !["loop"] = "start"] /\ ~portOpen
    <3>1. pc["loop"] \notin {"enter", "setup_send"}
      BY <2>4 DEF ThreadInv, PortOpenWhileLooping, LoopRuns
    <3> QED
      BY <1>0, <2>1, <2>2, <2>4, <3>1, ModeFrame DEF ModeInv, ChangePcs
  <2> QED
    BY <1>3, <2>3, <2>4 DEF Run, OpenAndSpawn
<1>4. ASSUME NEW s \in SyncCalls, NEW n \in Transmissions, SendPacket(s, n)
      PROVE  ModeInv'
  BY <1>1, <1>4 DEF SendPacket, ChangePcs
<1>5. CASE WaitingActive \/ SendWrongLength \/ CallInactive \/ LinkSendPacket
  BY <1>1, <1>5
  DEF WaitingActive, SendWrongLength, CallInactive, FailCheckActive, LinkSendPacket,
      ChangePcs
<1>6. CASE AfterSend \/ WaitingSend \/ Stop
  BY <1>1, <1>6 DEF AfterSend, WaitingSend, Stop, ChangePcs
<1>7. CASE Joined
  <2>1. /\ UNCHANGED <<m_state, mode, toBoard, new_state>>
        /\ pc["app"] \notin ChangePcs /\ pc'["app"] \notin ChangePcs
        /\ pc["loop"] \in {"none", "exited"} /\ pc'["loop"] = "none"
    BY <1>0, <1>7 DEF Joined, LoopRuns, ChangePcs
  <2>2. Unwatched
    BY <2>1, WatchKeeps DEF Unwatched, ChangePcs
  <2> QED
    BY <2>1, <2>2, ModeFrame DEF ChangePcs
<1>8. CASE FsmStep("app")
  BY <1>8, ModeFsm
<1> QED
  BY <1>2, <1>3, <1>4, <1>5, <1>6, <1>7, <1>8 DEF AppNext

\* The loop thread decides on an active state in SETUP only, and repeats a
\* SETUP_REQ there only.
LEMMA ModeLoop ==
    ASSUME TypeOK, ThreadInv, ModeInv, LoopNext, Watch
    PROVE  ModeInv'
<1> USE DEF Threads, Goto, linkVars, fsmVars, changeVars
<1>0. pc \in [Threads -> AppPcs \cup LoopPcs] /\ new_state \in [Threads -> StateIds \cup {"none"}]
  BY DEF TypeOK
<1>1. ASSUME UNCHANGED <<m_state, mode, toBoard>>,
             pc["loop"] \notin {"enter", "setup_send"},
             NEW label, Goto("loop", label),
             label = "setup_send" => m_state = "SETUP",
             (/\ label = "change"
              /\ new_state'["loop"] \in {"TX_ACTIVE", "RX_ACTIVE"}) => m_state = "SETUP"
      PROVE  ModeInv'
  <2>1. Unwatched /\ pc'["app"] = pc["app"] /\ pc'["loop"] = label
    BY <1>0, <1>1, WatchKeeps DEF Unwatched
  <2> QED
    BY <1>1, <2>1, ModeFrame
<1>2. CASE LoopStart
  BY <1>0, <1>1, <1>2 DEF LoopStart, Activate, ChangeState
<1>3. CASE LoopTest
  BY <1>1, <1>3 DEF LoopTest
<1>4. CASE LoopReadSpoilt
  BY <1>1, <1>4 DEF LoopReadSpoilt, TakeFrame
<1>5. ASSUME NEW type \in MsgTypes, LoopRead(type)
      PROVE  ModeInv'
  <2>1. /\ OnMessage(type) /\ pc["loop"] = "read"
        /\ UNCHANGED <<m_state, mode, toBoard>>
    BY <1>5, OnMessageEffect DEF LoopRead, TakeFrame
  <2>2. CASE /\ new_state' = [new_state EXCEPT !["loop"] = NextState(m_state, type)]
             /\ Goto("loop", "change")
    BY <1>0, <1>1, <2>1, <2>2 DEF NextState
  <2>3. CASE Goto("loop", "entry") \/ Goto("loop", "test")
    BY <1>1, <2>1, <2>3
  <2>4. CASE pc' = pc
    BY <1>0, <1>1, <2>1, <2>4
  <2> QED
    BY <2>1, <2>2, <2>3, <2>4, OnMessageEffect
<1>6. CASE LoopTimeout
  <2>1. pc["loop"] = "read" /\ UNCHANGED <<m_state, mode, toBoard>>
    BY <1>6 DEF LoopTimeout, OnTimeout
  <2>2. \E label \in {"test", "wakeup_send", "setup_send", "entry"} :
           Goto("loop", label) /\ (label = "setup_send" => m_state = "SETUP")
    BY <1>6 DEF LoopTimeout, OnTimeout, OnEntryPc, Return
  <2> QED
    BY <1>1, <2>1, <2>2
<1>7. CASE FsmStep("loop")
  BY <1>7, ModeFsm
<1> QED
  BY <1>2, <1>3, <1>4, <1>5, <1>6, <1>7 DEF LoopNext

\* The board answers, hears or drops a frame.
LEMMA ModeBoard ==
    ASSUME TypeOK, ModeInv, Board, Watch
    PROVE  ModeInv'
<1>1. UNCHANGED <<m_state, mode, pc, new_state>> /\ overtaken' = overtaken
  BY WatchKeeps DEF Board, fsmVars, threadVars, changeVars
<1>2. LastAsked(mode) => LastAsked(mode)'
  <2>1. CASE toBoard' = toBoard
    BY <1>1, <2>1, WatchKeeps DEF LastAsked, SetupsOnLine
  <2>2. CASE toBoard # << >> /\ toBoard' = Tail(toBoard)
    BY <1>1, <2>2, ReadTurns DEF TypeOK
  <2> QED
    BY <2>1, <2>2 DEF Board, BoardNext, BoardReads, BoardReadsSpoilt, BoardHears
<1> QED
  BY <1>1, <1>2 DEF ModeInv, SetsUp, LinkIsActive

\* The history changes nothing of the client.
LEMMA ModeSpecIsSpec == ModeSpec => Spec
<1>1. ModeInit => Init
  BY DEF ModeInit
<1>2. [Next /\ Watch]_modeVars => [Next]_vars
  BY DEF modeVars
<1> QED
  BY <1>1, <1>2, PTL DEF ModeSpec, Spec

\* ModeInv holds throughout: what the last SETUP_REQ asks for is what the client
\* was last configured with, however the two threads change the link state.
THEOREM ModeKept == ModeSpec => []ModeInv
<1>1. ModeInit => ModeInv
  BY DEF ModeInit, Init, LinkFsmInit, ModeInv, SetsUp, LinkIsActive, Threads
<1>2. TypeOK /\ ThreadInv /\ ModeInv /\ [Next /\ Watch]_modeVars => ModeInv'
  <2> SUFFICES ASSUME TypeOK, ThreadInv, ModeInv, [Next /\ Watch]_modeVars
               PROVE  ModeInv'
    OBVIOUS
  <2>1. CASE UNCHANGED modeVars
    BY <2>1
    DEF modeVars, vars, linkFsmVars, linkVars, fsmVars, threadVars, changeVars, ModeInv,
        SetsUp, LinkIsActive, LastAsked, SetupsOnLine
  <2>2. CASE Next /\ Watch
    BY <2>2, ModeApp, ModeLoop, ModeBoard DEF Next
  <2> QED
    BY <2>1, <2>2
<1> QED
  BY <1>1, <1>2, ModeSpecIsSpec, TypeCorrect, ThreadSafety, PTL DEF ModeSpec

\* An active client's board is in the client's mode, or a SETUP_REQ that will put
\* it there is on the line, if the board took the last SETUP_REQ it was sent and
\* the last Configure wrote one.
THEOREM ModeAgreed == ModeSpec => []ModeFollowsUnlessFailed
<1>1. TypeOK /\ ModeInv => ModeFollowsUnlessFailed
  <2> SUFFICES ASSUME TypeOK, ModeInv, asked = boardMode, ~overtaken, LinkIsActive,
                      pc["app"] \notin ChangePcs
               PROVE  BoardTurns(mode)
    BY DEF ModeFollowsUnlessFailed, ModeFollows
  <2>1. ~SetsUp
    BY DEF SetsUp, ModeInv, LinkIsActive
  <2>2. LastAsked(mode)
    BY <2>1 DEF ModeInv
  <2> QED
    BY <2>2 DEF LastAsked, BoardTurns
<1> QED
  BY <1>1, ModeSpecIsSpec, ModeKept, TypeCorrect, PTL
=============================================================================
