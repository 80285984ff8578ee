---------------------------- MODULE BoardClient ----------------------------
(***************************************************************************)
(* The client: its public calls, made by one application thread, and       *)
(* BaseLoop, the thread that Run starts.  With the list, the link state    *)
(* machine and the line it EXTENDS, this is the whole of a BoardClient at  *)
(* work.  Reception of radio packets (the callback) is in ReceivePath.     *)
(***************************************************************************)
EXTENDS LinkFsm

CONSTANTS
    SyncCalls,     \* the packet calls in use: TRUE SendPacket, FALSE its Async
    MaxConfigures  \* bound: calls of Configure in one behaviour

ASSUME BoardClientAssumption ==
    /\ SyncCalls \subseteq BOOLEAN
    /\ MaxConfigures \in Nat

VARIABLES
    terminate,  \* set by Stop, never reset
    sync,       \* the packet call in progress is SendPacket, not its Async
    configures  \* how many times Configure has been called

clientVars == <<terminate, sync, configures>>
vars == <<linkFsmVars, clientVars>>

AppPcs == FsmPcs \cup {"idle", "wait_active", "link_send", "sent", "wait_send",
                       "joining", "exit_joining", "exited"}
LoopPcs == FsmPcs \cup {"none", "start", "test", "read", "exited"}

Init ==
    /\ PacketListInit
    /\ SerialLinkInit
    /\ LinkFsmInit
    /\ pc = [t \in Threads |-> IF t = "app" THEN "idle" ELSE "none"]
    /\ hold = [t \in Threads |-> 0]
    /\ terminate = FALSE
    /\ sync = FALSE
    /\ configures = 0

IsActive == LinkIsActive /\ ~terminate
LoopRuns == pc["loop"] \notin {"none", "exited"}

App(from, to) == pc["app"] = from /\ Goto("app", to)
-----------------------------------------------------------------------------
(* The application thread.                                                 *)

\* Run past its tests: Setup opens the port, or throws, and BaseLoop starts.
\* Moving the new thread into m_thread needs the old one joined; Open, which
\* throws AlreadyOpen until Stop has joined and closed, is what sees to it.
OpenAndSpawn(next) ==
    \/ /\ ~portOpen
       /\ OpenPort
       /\ pc' = [pc EXCEPT !["app"] = next, !["loop"] = "start"]
       /\ UNCHANGED <<listVars, m_state, m_tx_delay, cnt, changeVars, hold, fault>>
    \/ /\ fault' = IF portOpen THEN "already_open" ELSE "open_failed"
       /\ UNCHANGED <<listVars, linkVars, m_state, m_tx_delay, cnt, pc, changeVars, hold>>

\* Configure up to WaitingActive: settings, then Run from INIT, else
\* LinkFsm::Configure, whose OnConfigure is the same in every other state.
Configure(m) ==
    /\ pc["app"] = "idle"
    /\ configures < MaxConfigures
    /\ configures' = configures + 1
    /\ mode' = m
    /\ \/ m_state = "INIT" /\ OpenAndSpawn("wait_active")
       \/ /\ m_state # "INIT"
          /\ new_state' = [new_state EXCEPT !["app"] = "SETUP"]
          /\ caller' = "wait_active"
          /\ Goto("app", "change")
          /\ UNCHANGED <<listVars, linkVars, m_state, m_tx_delay, cnt, hold, fault>>
    /\ UNCHANGED <<terminate, sync>>

\* A call of Run that gets past IsActive and IsEnabled.
Run ==
    /\ pc["app"] = "idle"
    /\ ~IsActive
    /\ mode # "unset"
    /\ OpenAndSpawn("idle")
    /\ UNCHANGED <<mode, clientVars>>

WaitingActive ==
    /\ IsActive
    /\ App("wait_active", "idle")
    /\ UNCHANGED <<listVars, linkVars, fsmVars, changeVars, hold, fault, clientVars>>

\* CHECK_ACTIVE on an inactive client: Stop(), then exit(1).
FailCheckActive ==
    /\ terminate' = TRUE
    /\ Goto("app", "exit_joining")
    /\ UNCHANGED <<listVars, linkVars, fsmVars, changeVars, hold, fault, configures>>

\* SendPacketAsync (and SendPacket, which calls it) with n retransmissions.
SendPacket(s, n) ==
    /\ pc["app"] = "idle"
    /\ IsActive
    /\ EmplaceBack(n)
    /\ sync' = s
    /\ Goto("app", IF IsPacketListEmpty THEN "link_send" ELSE "sent")
    /\ UNCHANGED <<linkVars, fsmVars, changeVars, hold, fault, terminate, configures>>

\* A message of the wrong length is refused, and SendPacket waits all the same.
SendWrongLength ==
    /\ IsActive
    /\ App("idle", "sent")
    /\ sync' = TRUE
    /\ UNCHANGED <<listVars, linkVars, fsmVars, changeVars, hold, fault, terminate, configures>>

\* SendPacket, SendPacketAsync and ReceivePacket begin with CHECK_ACTIVE.
CallInactive ==
    /\ pc["app"] = "idle"
    /\ ~IsActive
    /\ FailCheckActive
    /\ UNCHANGED sync

\* LinkFsm::SendPacket: OnEntry, in this thread, if TX_ACTIVE.
LinkSendPacket ==
    /\ App("link_send", IF m_state = "TX_ACTIVE" THEN "entry" ELSE "sent")
    /\ caller' = "sent"
    /\ UNCHANGED <<listVars, linkVars, fsmVars, new_state, hold, fault, clientVars>>

\* After SendPacketAsync: return, or go on to WaitingSend and its CHECK_ACTIVE.
AfterSend ==
    /\ App("sent", IF ~sync THEN "idle"
                   ELSE IF IsActive THEN "wait_send" ELSE "exit_joining")
    /\ terminate' = (terminate \/ (sync /\ ~IsActive))
    /\ UNCHANGED <<listVars, linkVars, fsmVars, changeVars, hold, fault, sync, configures>>

WaitingSend ==
    /\ IsPacketListEmpty
    /\ App("wait_send", "idle")
    /\ UNCHANGED <<listVars, linkVars, fsmVars, changeVars, hold, fault, clientVars>>

Stop ==
    /\ App("idle", "joining")
    /\ terminate' = TRUE
    /\ UNCHANGED <<listVars, linkVars, fsmVars, changeVars, hold, fault, sync, configures>>

\* Slip: Stop closes the port without joining the loop thread.
JoinedAtOnce ==
    /\ pc["app"] \in {"joining", "exit_joining"}
    /\ pc' = [pc EXCEPT !["app"] = IF @ = "joining" THEN "idle" ELSE "exited"]
    /\ portOpen' = FALSE
    /\ UNCHANGED <<listVars, toBoard, toHost, boardMode, aired, fsmVars, changeVars, hold,
                   fault, clientVars>>

\* Stop past its join: the port is closed; under CHECK_ACTIVE exit(1) follows.
Joined ==
    /\ ~LoopRuns
    /\ pc["app"] \in {"joining", "exit_joining"}
    /\ pc' = [pc EXCEPT !["loop"] = "none",
                        !["app"] = IF @ = "joining" THEN "idle" ELSE "exited"]
    /\ portOpen' = FALSE
    /\ UNCHANGED <<listVars, toBoard, toHost, boardMode, aired, fsmVars, changeVars, hold,
                   fault, clientVars>>

AppNext ==
    \/ \E m \in Modes : Configure(m)
    \/ Run
    \/ WaitingActive
    \/ \E s \in SyncCalls, n \in Transmissions : SendPacket(s, n)
    \/ SendWrongLength
    \/ CallInactive
    \/ LinkSendPacket
    \/ AfterSend
    \/ WaitingSend
    \/ Stop
    \/ Joined
    \/ FsmStep("app") /\ UNCHANGED clientVars
-----------------------------------------------------------------------------
(* BaseLoop.                                                               *)

LoopStart ==
    /\ pc["loop"] = "start"
    /\ Activate
    /\ UNCHANGED <<linkVars, clientVars>>

\* Slip: while(!terminate).
LoopTestNoDrain ==
    /\ pc["loop"] = "test"
    /\ Goto("loop", IF terminate THEN "exited" ELSE "read")
    /\ UNCHANGED <<listVars, linkVars, fsmVars, changeVars, hold, fault, clientVars>>

\* Slip: while(!terminate || IsPacketListEmpty()).
LoopTestInverted ==
    /\ pc["loop"] = "test"
    /\ Goto("loop", IF terminate /\ ~IsPacketListEmpty THEN "exited" ELSE "read")
    /\ UNCHANGED <<listVars, linkVars, fsmVars, changeVars, hold, fault, clientVars>>

\* while(!(terminate && IsPacketListEmpty()))
LoopTest ==
    /\ pc["loop"] = "test"
    /\ Goto("loop", IF terminate /\ IsPacketListEmpty THEN "exited" ELSE "read")
    /\ UNCHANGED <<listVars, linkVars, fsmVars, changeVars, hold, fault, clientVars>>

\* The next frame leaves the line for the loop thread.
TakeFrame ==
    /\ pc["loop"] = "read"
    /\ toHost # << >>
    /\ toHost' = Tail(toHost)
    /\ UNCHANGED <<portOpen, toBoard, boardMode, aired>>

\* A whole frame of the given type arrives and its CRC is right.
LoopRead(type) ==
    /\ TakeFrame
    /\ Head(toHost).type = type
    /\ OnMessage(type)
    /\ UNCHANGED clientVars

\* msg::decode refuses the frame: continue.
LoopReadSpoilt ==
    /\ LossyLine
    /\ TakeFrame
    /\ Goto("loop", "test")
    /\ UNCHANGED <<listVars, fsmVars, changeVars, hold, fault, clientVars>>

\* ReadTimeout.
LoopTimeout ==
    /\ pc["loop"] = "read"
    /\ MayTimeOut
    /\ OnTimeout
    /\ UNCHANGED clientVars

LoopNext ==
    \/ LoopStart
    \/ LoopTest
    \/ \E type \in MsgTypes : LoopRead(type)
    \/ LoopReadSpoilt
    \/ LoopTimeout
    \/ FsmStep("loop") /\ UNCHANGED clientVars
-----------------------------------------------------------------------------
(* The board goes on for itself as long as the process lives. *)
Board == BoardNext /\ UNCHANGED <<listVars, fsmVars, threadVars, clientVars>>

Next ==
    /\ fault = "none"
    /\ AppNext \/ LoopNext \/ Board

Spec == Init /\ [][Next]_vars

(***************************************************************************)
(* The scheduler runs both threads; a read returns or times out; a polling *)
(* loop sees a condition that stays true.  Strong fairness on reading says *)
(* that the line does not spoil every frame for ever.                      *)
(***************************************************************************)
Live(A) == fault = "none" /\ A

Fairness ==
    /\ \A t \in Threads : WF_vars(Live(FsmStep(t) /\ UNCHANGED clientVars))
    /\ WF_vars(Live(LoopStart \/ LoopTest))
    /\ WF_vars(Live(LoopTimeout))
    /\ SF_vars(Live(\E type \in MsgTypes : LoopRead(type)))
    /\ SF_vars(Live(Board /\ \E type \in MsgTypes : BoardReads(type)))
    /\ WF_vars(Live(WaitingActive \/ LinkSendPacket \/ AfterSend))
    /\ WF_vars(Live(WaitingSend \/ Joined))

\* The radio falls silent in the end: while packets keep coming no read times out.
RadioFallsSilent == <>[][~BoardHears]_vars
-----------------------------------------------------------------------------
(* Correctness.                                                            *)

\* Every variable keeps its type.
TypeOK ==
    /\ PacketListTypeOK
    /\ SerialLinkTypeOK
    /\ m_state \in StateIds
    /\ m_tx_delay \in Nat
    /\ cnt \in Nat
    /\ mode \in Modes \cup {"unset"}
    /\ pc \in [Threads -> AppPcs \cup LoopPcs]
    /\ pc["app"] \in AppPcs
    /\ pc["loop"] \in LoopPcs
    /\ hold \in [Threads -> Nat]
    /\ new_state \in [Threads -> StateIds \cup {"none"}]
    /\ \A t \in Threads : pc[t] = "change" => new_state[t] # "none"
    /\ caller \in {"sent", "wait_active"}
    /\ fault \in Faults
    /\ terminate \in BOOLEAN
    /\ sync \in BOOLEAN
    /\ configures \in 0..MaxConfigures

\* A packet is on its way to the air only in its turn: no thread holds, no
\* frame carries and the radio has not sent a packet behind the list's front.
NeverAhead ==
    /\ \A p \in aired : p <= Popped + 1
    /\ \A i \in DOMAIN toBoard : toBoard[i].id <= Popped + 1
    /\ \A t \in Threads : hold[t] <= Popped + 1

\* What the loop thread sends is the front packet, still on the list: only
\* the application thread can be left with a reference to a popped packet.
LoopHoldsFront ==
    pc["loop"] \in {"send", "write", "delay"} =>
        /\ ~IsPacketListEmpty
        /\ hold["loop"] = FrontPacket.id

\* Once Stop was called the loop thread ends only on an empty list, so the
\* port is never closed over packets that were accepted.
StopDrains == terminate /\ ~LoopRuns => IsPacketListEmpty

\* The loop thread never runs on a closed port.
PortOpenWhileLooping == LoopRuns => portOpen

\* From the acceptance of a packet to the return of the call the client is
\* active: the second CHECK_ACTIVE, in WaitingSend, cannot end the program.
Sending ==
    \/ pc["app"] \in {"link_send", "sent", "wait_send"}
    \/ pc["app"] \in EntryPcs /\ caller = "sent"
SendingStaysActive == Sending => IsActive

\* The board is in, or is about to be put in, mode m.
SetupsOnLine == {i \in DOMAIN toBoard : toBoard[i].type = "SETUP_REQ"}
BoardTurns(m) ==
    IF SetupsOnLine = {}
      THEN boardMode = m
      ELSE \E i \in SetupsOnLine :
              toBoard[i].mode = m /\ \A j \in SetupsOnLine : j <= i

\* An active client's board is in the mode of its settings, or a SETUP_REQ that
\* will put it there is on the line, except while Configure is changing the link
\* state.  It is not always so: MCModes says when.
ModeFollows ==
    LinkIsActive /\ pc["app"] \notin ChangePcs => BoardTurns(mode)

\* SendPacket returns if the client was set to transmit, unless the board never
\* got to know: ModeFollowsUnlessFailed says when that may be.
SendReturns ==
    (pc["app"] = "wait_send" /\ m_state = "TX_ACTIVE")
        ~> (pc["app"] = "idle" \/ fault # "none" \/ ~BoardTurns(mode))

\* Configure returns unless the board refused or the client was stopped.
ConfigureReturns ==
    pc["app"] \in ChangePcs \cup {"wait_active"}
        ~> (pc["app"] = "idle" \/ fault # "none" \/ m_state = "END" \/ terminate)

\* Stop returns if there is nothing to send, or the client can send it and the
\* board knows.
StopReturns ==
    /\ (pc["app"] = "joining" /\ IsPacketListEmpty)
           ~> (pc["app"] = "idle" \/ fault # "none")
    /\ (pc["app"] = "joining" /\ m_state = "TX_ACTIVE")
           ~> (pc["app"] = "idle" \/ fault # "none" \/ ~BoardTurns(mode))
=============================================================================
