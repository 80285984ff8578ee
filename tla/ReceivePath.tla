---------------------------- MODULE ReceivePath ----------------------------
(***************************************************************************)
(* Reception in a client that is active in RX mode.  The application       *)
(* thread installs a callback, its own or the lambda of ReceivePacket; the *)
(* loop thread runs it for each packet, under m_recv_mtx.  The lambda      *)
(* writes to the locals of the call that installed it, field by field.     *)
(*                                                                         *)
(* Packets are numbered as they come off the line; the three parts of one  *)
(* (bytes, RSSI, LQI) are told apart only by the number of their packet.   *)
(***************************************************************************)
EXTENDS Naturals

CONSTANTS
    MaxHeard,  \* bound: packets that come off the line
    MaxCalls,  \* bound: calls of ReceivePacket and ReceivePacketAsync
    Limits     \* the time limits in use: TRUE some, FALSE none (timeout_ms 0)

ASSUME ReceivePathAssumption ==
    /\ MaxHeard \in Nat
    /\ MaxCalls \in Nat
    /\ Limits \subseteq BOOLEAN

VARIABLES
    m_receive_callback,  \* the callback installed
    recv_mtx_held,       \* the loop thread is in m_recv_mtx
    heard,               \* packets off the line; the last has this number
    saved,               \* the last packet offered to SaveToFile
    terminate,           \* set by Stop
    call,                \* calls so far; the one in progress has this number
    limited,             \* the call has a time limit
    locals,              \* the locals of ReceivePacket
    result,              \* the tuple the last call returned
    running,             \* the callback the loop thread is executing
    app,                 \* where the application thread is
    loop                 \* where the loop thread is

clientVars == <<m_receive_callback, recv_mtx_held, terminate>>
callVars == <<call, limited, locals, result>>
packetVars == <<heard, saved>>
vars == <<clientVars, callVars, packetVars, running, app, loop>>

\* A std::function: empty, the lambda of a call or the application's own.
Callback == [kind : {"null", "lambda", "user"}, call : Nat]
Nothing == [kind |-> "null", call |-> 0]
Lambda(n) == [kind |-> "lambda", call |-> n]
User(n) == [kind |-> "user", call |-> n]

Tuple == [msg : Nat, rssi : Nat, lqi : Nat]
NoPacket == [msg |-> 0, rssi |-> 0, lqi |-> 0]
Fresh == [msg |-> 0, rssi |-> 0, lqi |-> 0, received |-> FALSE]
WholeTuple(t) == t.msg = t.rssi /\ t.msg = t.lqi

AppPcs == {"idle", "install", "async", "poll", "remove", "return", "joining"}
BodyPcs == {"rssi", "lqi", "msg", "received", "user"}
LoopPcs == BodyPcs \cup {"test", "read", "lock", "unlock", "save", "exited"}

Init ==
    /\ m_receive_callback = Nothing
    /\ recv_mtx_held = FALSE
    /\ heard = 0
    /\ saved = 0
    /\ terminate = FALSE
    /\ call = 0
    /\ limited = FALSE
    /\ locals = Fresh
    /\ result = NoPacket
    /\ running = Nothing
    /\ app = "idle"
    /\ loop = "test"
-----------------------------------------------------------------------------
(* The application thread.                                                 *)

\* Slip: the locals are static.
ReceivePacketStatic(lim) ==
    /\ app = "idle"
    /\ ~terminate
    /\ call < MaxCalls
    /\ call' = call + 1
    /\ limited' = lim
    /\ app' = "install"
    /\ UNCHANGED <<clientVars, packetVars, locals, result, running, loop>>

\* ReceivePacket past CHECK_ACTIVE (which ends the program after Stop).
ReceivePacket(lim) ==
    /\ app = "idle"
    /\ ~terminate
    /\ call < MaxCalls
    /\ call' = call + 1
    /\ limited' = lim
    /\ locals' = Fresh
    /\ app' = "install"
    /\ UNCHANGED <<clientVars, packetVars, result, running, loop>>

ReceivePacketAsync ==
    /\ app = "idle"
    /\ call < MaxCalls
    /\ call' = call + 1
    /\ app' = "async"
    /\ UNCHANGED <<clientVars, packetVars, limited, locals, result, running, loop>>

\* Slip: no lock_guard.
SetReceiveCallbackUnlocked(callback) ==
    /\ m_receive_callback' = callback
    /\ UNCHANGED <<recv_mtx_held, terminate>>

\* SetReceiveCallback waits for m_recv_mtx, assigns and gives it back.
SetReceiveCallback(callback) ==
    /\ ~recv_mtx_held
    /\ m_receive_callback' = callback
    /\ UNCHANGED <<recv_mtx_held, terminate>>

Install ==
    /\ app = "install"
    /\ SetReceiveCallback(Lambda(call))
    /\ app' = "poll"
    /\ UNCHANGED <<callVars, packetVars, running, loop>>

\* The application's callback, or nullptr to receive no more.
InstallUser(callback) ==
    /\ app = "async"
    /\ SetReceiveCallback(callback)
    /\ app' = "idle"
    /\ UNCHANGED <<callVars, packetVars, running, loop>>

\* while(!packet_received): the flag is read without a lock.
SeesPacket ==
    /\ app = "poll"
    /\ locals.received
    /\ app' = "remove"
    /\ UNCHANGED <<clientVars, callVars, packetVars, running, loop>>

\* Slip: a limit that has passed returns at once, without the removal.
LimitPassedReturns ==
    /\ app = "poll"
    /\ limited
    /\ app' = "return"
    /\ UNCHANGED <<clientVars, callVars, packetVars, running, loop>>

\* Slip: && for ||, a limit counts only once a packet is there.
LimitPassedNever ==
    /\ app = "poll"
    /\ limited /\ locals.received
    /\ app' = "remove"
    /\ UNCHANGED <<clientVars, callVars, packetVars, running, loop>>

\* timeout_ms != 0 && ms >= timeout_ms, whether or not a packet has come.
LimitPassed ==
    /\ app = "poll"
    /\ limited
    /\ app' = "remove"
    /\ UNCHANGED <<clientVars, callVars, packetVars, running, loop>>

Remove ==
    /\ app = "remove"
    /\ SetReceiveCallback(Nothing)
    /\ app' = "return"
    /\ UNCHANGED <<callVars, packetVars, running, loop>>

\* Slip: the flag is part of what is returned.
ReturnLocals ==
    /\ app = "return"
    /\ result' = locals
    /\ app' = "idle"
    /\ UNCHANGED <<clientVars, packetVars, call, limited, locals, running, loop>>

\* make_tuple copies the locals, which are then gone.
Return ==
    /\ app = "return"
    /\ result' = [msg |-> locals.msg, rssi |-> locals.rssi, lqi |-> locals.lqi]
    /\ app' = "idle"
    /\ UNCHANGED <<clientVars, packetVars, call, limited, locals, running, loop>>

Stop ==
    /\ app = "idle"
    /\ terminate' = TRUE
    /\ app' = "joining"
    /\ UNCHANGED <<m_receive_callback, recv_mtx_held, callVars, packetVars,
                   running, loop>>

Joined ==
    /\ app = "joining"
    /\ loop = "exited"
    /\ app' = "idle"
    /\ UNCHANGED <<clientVars, callVars, packetVars, running, loop>>

AppNext ==
    \/ \E lim \in Limits : ReceivePacket(lim)
    \/ ReceivePacketAsync
    \/ Install
    \/ \E callback \in {Nothing, User(call)} : InstallUser(callback)
    \/ SeesPacket
    \/ LimitPassed
    \/ Remove
    \/ Return
    \/ Stop
    \/ Joined
-----------------------------------------------------------------------------
(* The loop thread, in RX_ACTIVE.                                          *)

\* BaseLoop's condition; a receiver has no outgoing packets.
LoopTest ==
    /\ loop = "test"
    /\ loop' = IF terminate THEN "exited" ELSE "read"
    /\ UNCHANGED <<clientVars, callVars, packetVars, running, app>>

\* A DATA_REQ comes off the line; OnMessage copies its bytes to msg.
LoopRead ==
    /\ loop = "read"
    /\ heard < MaxHeard
    /\ heard' = heard + 1
    /\ loop' = "lock"
    /\ UNCHANGED <<clientVars, callVars, saved, running, app>>

\* A read timeout, or a message RX_ACTIVE has no use for: nothing happens.
LoopIdles ==
    /\ loop = "read"
    /\ loop' = "test"
    /\ UNCHANGED <<clientVars, callVars, packetVars, running, app>>

\* Slip: the callback is copied under the lock and run after it.
LockRecvCopies ==
    /\ loop = "lock"
    /\ ~recv_mtx_held
    /\ running' = m_receive_callback
    /\ loop' = CASE m_receive_callback.kind = "null"   -> "unlock"
                 [] m_receive_callback.kind = "lambda" -> "rssi"
                 [] m_receive_callback.kind = "user"   -> "user"
    /\ UNCHANGED <<clientVars, callVars, packetVars, app>>

\* ReceiveCallback takes m_recv_mtx and runs what is installed, if anything.
LockRecv ==
    /\ loop = "lock"
    /\ ~recv_mtx_held
    /\ recv_mtx_held' = TRUE
    /\ running' = m_receive_callback
    /\ loop' = CASE m_receive_callback.kind = "null"   -> "unlock"
                 [] m_receive_callback.kind = "lambda" -> "rssi"
                 [] m_receive_callback.kind = "user"   -> "user"
    /\ UNCHANGED <<m_receive_callback, terminate, callVars, packetVars, app>>

\* The lambda, one statement after the other.
Assign(field, value, next) ==
    /\ loop = field
    /\ locals' = [locals EXCEPT ![field] = value]
    /\ loop' = next
    /\ UNCHANGED <<clientVars, packetVars, call, limited, result, running, app>>

LambdaBody ==
    \/ Assign("rssi", heard, "lqi")
    \/ Assign("lqi", heard, "msg")
    \/ Assign("msg", heard, "received")
    \/ Assign("received", TRUE, "unlock")

\* The application's callback does what it likes, except block.
UserBody ==
    /\ loop = "user"
    /\ loop' = "unlock"
    /\ UNCHANGED <<clientVars, callVars, packetVars, running, app>>

\* Slip: after a callback the function returns without unlocking.
UnlockRecvForgotten ==
    /\ loop = "unlock"
    /\ recv_mtx_held' = (running.kind # "null")
    /\ running' = Nothing
    /\ loop' = "save"
    /\ UNCHANGED <<m_receive_callback, terminate, callVars, packetVars, app>>

UnlockRecv ==
    /\ loop = "unlock"
    /\ recv_mtx_held' = FALSE
    /\ running' = Nothing
    /\ loop' = "save"
    /\ UNCHANGED <<m_receive_callback, terminate, callVars, packetVars, app>>

\* SaveToFile gets msg, of which the callback had a copy.
SaveToFile ==
    /\ loop = "save"
    /\ saved' = heard
    /\ loop' = "test"
    /\ UNCHANGED <<clientVars, callVars, heard, running, app>>

LoopNext ==
    \/ LoopTest
    \/ LoopRead
    \/ LoopIdles
    \/ LockRecv
    \/ LambdaBody
    \/ UserBody
    \/ UnlockRecv
    \/ SaveToFile
-----------------------------------------------------------------------------
Next == AppNext \/ LoopNext

Spec == Init /\ [][Next]_vars

(***************************************************************************)
(* Both threads run; a limit passes; a thread that waits for m_recv_mtx    *)
(* gets it in the end although the other keeps taking it.  The radio need  *)
(* not hear anything.                                                      *)
(***************************************************************************)
Fairness ==
    /\ WF_vars(LoopTest \/ LambdaBody \/ UserBody \/ UnlockRecv \/ SaveToFile)
    /\ WF_vars(LoopIdles)
    /\ SF_vars(LockRecv)
    /\ SF_vars(Install)
    /\ SF_vars(Remove)
    /\ WF_vars(SeesPacket \/ Return \/ Joined)
    /\ WF_vars(LimitPassed)

FairSpec == Spec /\ Fairness
-----------------------------------------------------------------------------
(* Correctness.                                                            *)

\* Every variable keeps its type.
ReceiveTypeOK ==
    /\ m_receive_callback \in Callback
    /\ recv_mtx_held \in BOOLEAN
    /\ heard \in 0..MaxHeard
    /\ saved \in 0..heard
    /\ terminate \in BOOLEAN
    /\ call \in 0..MaxCalls
    /\ limited \in BOOLEAN
    /\ locals \in [msg : Nat, rssi : Nat, lqi : Nat, received : BOOLEAN]
    /\ result \in Tuple
    /\ running \in Callback
    /\ app \in AppPcs
    /\ loop \in LoopPcs

\* The std::function the loop thread executes is the one installed: nobody
\* replaces it, and so destroys its captures, while it runs.
RunsInstalled == loop \in BodyPcs => running = m_receive_callback

\* A lambda is installed only while the call whose locals it captures waits:
\* together with RunsInstalled, it never writes to a frame that is gone.
LambdaHasFrame ==
    m_receive_callback.kind = "lambda" =>
        m_receive_callback.call = call /\ app \in {"poll", "remove"}

\* Bytes, RSSI and LQI of a returned tuple are those of one packet, although
\* they are written one by one and packet_received is read without a lock.
ReturnsWhole == WholeTuple(result)

\* A call with a time limit returns, whether or not the radio hears anything.
LimitedReturns == (app = "poll" /\ limited) ~> app = "idle"

\* A call whose packet has come returns.
ReceivedReturns == (app = "poll" /\ locals.received) ~> app = "idle"

\* Stop returns, even if the loop thread is about to run a callback.
StopJoins == app = "joining" ~> app = "idle"
=============================================================================
