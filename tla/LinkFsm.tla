------------------------------ MODULE LinkFsm ------------------------------
(***************************************************************************)
(* The link state machine (LinkFsm and the LinkFsmState classes).  Its     *)
(* handlers run in two threads without a lock: the loop thread calls them  *)
(* for messages and timeouts, the application thread through Configure and *)
(* SendPacket.  A handler is one action up to the point where it sleeps or *)
(* touches data the other thread changes, m_state included; pc[t] says     *)
(* where thread t is.                                                      *)
(***************************************************************************)
EXTENDS PacketList, SerialLink

VARIABLES
    m_state,     \* the current state object, by its eStateId
    m_tx_delay,  \* read timeouts between two requests of one packet
    cnt,         \* the static counter of TxActive::OnTimeout
    mode,        \* m_settings' radio mode ("unset": not yet enabled)
    pc,          \* where each thread is
    new_state,   \* ChangeState's local: the state a thread is about to store
    caller,      \* where the application's call goes on after its handler
    hold,        \* the packet whose bytes a thread is about to send
    fault        \* why the process died, "none" while it lives

fsmVars == <<m_state, m_tx_delay, cnt, mode>>
changeVars == <<new_state, caller>>
threadVars == <<pc, changeVars, hold, fault>>
linkFsmVars == <<listVars, linkVars, fsmVars, threadVars>>

Threads == {"app", "loop"}
StateIds == {"INIT", "CONNECTING", "SETUP", "TX_ACTIVE", "RX_ACTIVE", "END"}
Faults == {"none", "null_front", "dangling", "empty_pop", "not_open",
           "already_open", "open_failed"}
\* Inside ChangeState, and inside a handler that writes to the port.
ChangePcs == {"change", "enter", "wakeup_send", "setup_send"}
EntryPcs == {"entry", "check", "front", "send", "write", "delay"}
FsmPcs == ChangePcs \cup EntryPcs

LinkFsmInit ==
    /\ m_state = "INIT"
    /\ m_tx_delay = 1
    /\ cnt = 0
    /\ mode = "unset"
    /\ new_state = [t \in Threads |-> "none"]
    /\ caller = "sent"
    /\ fault = "none"

LinkIsActive == m_state \in {"TX_ACTIVE", "RX_ACTIVE"}

Goto(t, label) == pc' = [pc EXCEPT ![t] = label]

\* Undefined behaviour or an exception nobody catches ends the process.
Abort(reason) ==
    /\ fault' = reason
    /\ UNCHANGED <<listVars, linkVars, fsmVars, pc, changeVars, hold>>

\* m_serial_port.Write throws NotOpen on a closed port.
Write(t, msg, next) ==
    \/ /\ portOpen
       /\ WriteFrame(msg)
       /\ Goto(t, next)
       /\ UNCHANGED <<listVars, fsmVars, changeVars, hold, fault>>
    \/ ~portOpen /\ Abort("not_open")

\* Where a thread goes on when its handler returns.
Return(t) == IF t = "loop" THEN "test" ELSE caller
-----------------------------------------------------------------------------
(* Handlers that sleep or share data: one action per stretch.              *)

\* ChangeState, the first stretch: which state is to come.
ChangeState(t, state) ==
    /\ new_state' = [new_state EXCEPT ![t] = state]
    /\ Goto(t, "change")
    /\ UNCHANGED <<listVars, fsmVars, caller, hold, fault>>

\* link->m_state = new_state.
StoreState(t) ==
    /\ pc[t] = "change"
    /\ m_state' = new_state[t]
    /\ new_state' = [new_state EXCEPT ![t] = "none"]
    /\ Goto(t, "enter")
    /\ UNCHANGED <<listVars, linkVars, m_tx_delay, cnt, mode, caller, hold, fault>>

\* Where OnEntry of a state takes a thread; only three states have one.
OnEntryPc(t, state) ==
    CASE state = "CONNECTING" -> "wakeup_send"
      [] state = "SETUP"      -> "setup_send"
      [] state = "TX_ACTIVE"  -> "entry"
      [] OTHER                -> Return(t)

\* Slip: the OnEntry of no state is called.
EnterNothing(t) ==
    /\ pc[t] = "enter"
    /\ Goto(t, Return(t))
    /\ UNCHANGED <<listVars, linkVars, fsmVars, changeVars, hold, fault>>

\* link->m_state->OnEntry(link) reads m_state again: it is the OnEntry of the
\* state that is current now, which the other thread may have stored.
EnterState(t) ==
    /\ pc[t] = "enter"
    /\ Goto(t, OnEntryPc(t, m_state))
    /\ UNCHANGED <<listVars, linkVars, fsmVars, changeVars, hold, fault>>

SendWakeUp(t) ==
    /\ pc[t] = "wakeup_send"
    /\ Write(t, Msg("WAKEUP"), Return(t))

\* SendSetupRequest, after its 30 ms sleep: the settings of that moment.
SendSetupRequest(t) ==
    /\ pc[t] = "setup_send"
    /\ Write(t, SetupReq(mode), Return(t))

\* TxActive::OnEntry resets the delay ...
ResetDelay(t) ==
    /\ pc[t] = "entry"
    /\ m_tx_delay' = 0
    /\ Goto(t, "check")
    /\ UNCHANGED <<listVars, linkVars, m_state, cnt, mode, changeVars, hold, fault>>

\* ... and looks, without m_mtx, whether there is a packet.
CheckList(t) ==
    /\ pc[t] = "check"
    /\ Goto(t, IF IsPacketListEmpty THEN Return(t) ELSE "front")
    /\ UNCHANGED <<listVars, linkVars, fsmVars, changeVars, hold, fault>>

\* *link->FrontPacket(): a reference that outlives m_mtx; 0 for nullptr.
TakeFront(t) ==
    /\ pc[t] = "front"
    /\ hold' = [hold EXCEPT ![t] =
                  IF IsPacketListEmpty THEN 0 ELSE FrontPacket.id]
    /\ Goto(t, "send")
    /\ UNCHANGED <<listVars, linkVars, fsmVars, changeVars, fault>>

\* Has the packet with this id been taken off the list and destroyed?
Dangling(id) == id <= Popped

(***************************************************************************)
(* SendTxDataReq, after its 30 ms sleep, copies the bytes it was given a   *)
(* reference to.  Reading a null reference kills the process; reading a    *)
(* destroyed packet kills it or yields bytes of no packet.                 *)
(***************************************************************************)
CopyPacket(t) ==
    /\ pc[t] = "send"
    /\ \/ /\ hold[t] = 0
          /\ Abort("null_front")
       \/ /\ hold[t] # 0
          /\ Dangling(hold[t])
          /\ Abort("dangling")
       \/ /\ hold[t] # 0
          /\ hold' = [hold EXCEPT ![t] = IF Dangling(@) THEN 0 ELSE @]
          /\ Goto(t, "write")
          /\ UNCHANGED <<listVars, linkVars, fsmVars, changeVars, fault>>

\* SendTxDataReq writes the encoded frame.
SendTxDataReq(t) ==
    /\ pc[t] = "write"
    /\ Write(t, DataReq(hold[t]), "delay")

\* OnEntry asks for the front packet again, to read its retransmissions.
ReadTransmissions(t) ==
    /\ pc[t] = "delay"
    /\ \/ /\ IsPacketListEmpty
          /\ Abort("null_front")
       \/ /\ ~IsPacketListEmpty
          /\ m_tx_delay' = FrontPacket.transmissions
          /\ hold' = [hold EXCEPT ![t] = 0]
          /\ Goto(t, Return(t))
          /\ UNCHANGED <<listVars, linkVars, m_state, cnt, mode, changeVars, fault>>

FsmStep(t) ==
    \/ StoreState(t)
    \/ EnterState(t)
    \/ SendWakeUp(t)
    \/ SendSetupRequest(t)
    \/ ResetDelay(t)
    \/ CheckList(t)
    \/ TakeFront(t)
    \/ CopyPacket(t)
    \/ SendTxDataReq(t)
    \/ ReadTransmissions(t)
-----------------------------------------------------------------------------
(* What the events do in each state.                                       *)

\* LinkFsm::Activate: only INIT reacts.
Activate ==
    \/ /\ m_state = "INIT"
       /\ ChangeState("loop", "CONNECTING")
    \/ /\ m_state # "INIT"
       /\ Goto("loop", "test")
       /\ UNCHANGED <<listVars, fsmVars, changeVars, hold, fault>>

\* Slip: a SETUP_ERR ends the link in every state.
NextStateErrEnds(state, type) ==
    CASE state = "CONNECTING" /\ type = "WAKEUP_ACK" -> "SETUP"
      [] state = "SETUP" /\ type = "SETUP_ACK" ->
            IF mode = "TX" THEN "TX_ACTIVE" ELSE "RX_ACTIVE"
      [] type = "SETUP_ERR" -> "END"
      [] OTHER -> "same"

\* Slip: only a transmitter is activated.
NextStateTxOnly(state, type) ==
    CASE state = "CONNECTING" /\ type = "WAKEUP_ACK" -> "SETUP"
      [] state = "SETUP" /\ type = "SETUP_ACK" /\ mode = "TX" -> "TX_ACTIVE"
      [] state = "SETUP" /\ type = "SETUP_ERR" -> "END"
      [] OTHER -> "same"

\* The state that answers a message by changing; "same" if it ignores it.
NextState(state, type) ==
    CASE state = "CONNECTING" /\ type = "WAKEUP_ACK" -> "SETUP"
      [] state = "SETUP" /\ type = "SETUP_ACK" ->
            IF mode = "TX" THEN "TX_ACTIVE" ELSE "RX_ACTIVE"
      [] state = "SETUP" /\ type = "SETUP_ERR" -> "END"
      [] OTHER -> "same"

\* LinkFsm::OnMessage in the loop thread, the message already off the line.
\* Between the reads of m_state and mode the state cannot change: only the
\* application's Configure could, and only to SETUP.
OnMessage(type) ==
    \/ /\ NextState(m_state, type) # "same"
       /\ ChangeState("loop", NextState(m_state, type))
    \/ /\ m_state = "TX_ACTIVE" /\ type = "DATA_ACK"
       /\ ~IsPacketListEmpty
       /\ PopPacket
       /\ Goto("loop", "entry")
       /\ UNCHANGED <<fsmVars, changeVars, hold, fault>>
    \/ /\ m_state = "TX_ACTIVE" /\ type = "DATA_ACK"
       /\ IsPacketListEmpty
       /\ fault' = "empty_pop"
       /\ UNCHANGED <<listVars, fsmVars, pc, changeVars, hold>>
    \/ /\ NextState(m_state, type) = "same"
       /\ ~(m_state = "TX_ACTIVE" /\ type = "DATA_ACK")
       /\ Goto("loop", "test")
       /\ UNCHANGED <<listVars, fsmVars, changeVars, hold, fault>>

\* Slip: nothing is sent again.
OnTimeoutSilent ==
    /\ Goto("loop", "test")
    /\ UNCHANGED <<listVars, linkVars, fsmVars, changeVars, hold, fault>>

\* Slip: the timeouts are counted down from 0.
OnTimeoutDown ==
    /\ IF m_state = "TX_ACTIVE" /\ cnt + 1 < m_tx_delay
         THEN cnt' = cnt - 1 /\ Goto("loop", "test")
         ELSE cnt' = 0 /\ Goto("loop", OnEntryPc("loop", m_state))
    /\ UNCHANGED <<listVars, linkVars, m_state, m_tx_delay, mode, changeVars, hold, fault>>

\* LinkFsm::OnTimeout in the loop thread: a state's own OnEntry once more, in
\* TX_ACTIVE only every m_tx_delay-th time.
OnTimeout ==
    /\ IF m_state = "TX_ACTIVE"
         THEN IF cnt + 1 >= m_tx_delay
                THEN cnt' = 0 /\ Goto("loop", "entry")
                ELSE cnt' = cnt + 1 /\ Goto("loop", "test")
         ELSE cnt' = cnt /\ Goto("loop", OnEntryPc("loop", m_state))
    /\ UNCHANGED <<listVars, linkVars, m_state, m_tx_delay, mode, changeVars, hold, fault>>
=============================================================================
