--------------------------- MODULE ReceiveProofs ---------------------------
(***************************************************************************)
(* Proofs for ReceivePath: its safety invariants and that it implements    *)
(* Inbox, for any number of packets and calls and any choice of limits.    *)
(***************************************************************************)
EXTENDS MCReceivePath, TLAPS

LambdaPcs == {"rssi", "lqi", "msg", "received"}

\* The loop thread is in m_recv_mtx while it runs a callback, and after it
\* until it gives the lock back.
LockHeld == recv_mtx_held <=> loop \in BodyPcs \cup {"unlock"}

\* Only an installed lambda is run as one.
RunsLambda == loop \in LambdaPcs => running.kind = "lambda"
RunsUser == loop = "user" => running.kind = "user"

\* How far the lambda has come with its packet.
LambdaSoFar ==
    /\ loop \in {"lqi", "msg", "received"} => locals.rssi = heard
    /\ loop \in {"msg", "received"} => locals.lqi = heard
    /\ loop = "received" => locals.msg = heard
    /\ loop \notin {"lqi", "msg"} => WholeTuple(locals)

\* A thread past its read has a packet.
HasHeard == loop \notin {"test", "read", "exited"} => heard > 0

\* The flag is raised only over a packet, and a call without a limit leaves
\* its loop only when it is.
FlagMeansPacket ==
    /\ locals.received => locals.msg # 0
    /\ app = "remove" /\ ~limited => locals.received

\* A call begins with nothing received.
StartsFresh == app = "install" => locals = Fresh

\* A call that waits has its own lambda installed.
WaitsInstalled ==
    app \in {"poll", "remove"} => m_receive_callback = Lambda(call)

\* Who may run which callback, and ...
LockPart ==
    /\ LockHeld
    /\ RunsInstalled
    /\ RunsLambda
    /\ RunsUser
    /\ LambdaHasFrame
    /\ WaitsInstalled

\* ... how a packet gets into the call's tuple.
CallPart ==
    /\ LambdaSoFar
    /\ HasHeard
    /\ FlagMeansPacket
    /\ StartsFresh
    /\ ReturnsWhole

ReceiveInv == ReceiveTypeOK /\ LockPart /\ CallPart
-----------------------------------------------------------------------------
USE DEF clientVars, callVars, packetVars, vars, Callback, Nothing, Lambda,
        User, Tuple, NoPacket, Fresh, WholeTuple, AppPcs, BodyPcs, LoopPcs,
        LambdaPcs

THEOREM ReceiveInit == Init => ReceiveInv
<1> SUFFICES ASSUME Init PROVE ReceiveInv
  OBVIOUS
<1>1. ReceiveTypeOK
  <2>1. heard \in 0..MaxHeard /\ saved \in 0..heard /\ call \in 0..MaxCalls
    BY ReceivePathAssumption DEF Init
  <2>2. /\ recv_mtx_held \in BOOLEAN
        /\ terminate \in BOOLEAN
        /\ limited \in BOOLEAN
    BY Zenon DEF Init
  <2>3. /\ m_receive_callback \in Callback /\ running \in Callback
        /\ locals \in [msg : Nat, rssi : Nat, lqi : Nat, received : BOOLEAN]
        /\ result \in Tuple
        /\ app \in AppPcs /\ loop \in LoopPcs
    BY DEF Init
  <2> QED
    BY <2>1, <2>2, <2>3 DEF ReceiveTypeOK
<1>2. LockPart
  BY DEF Init, LockPart, LockHeld, RunsInstalled, RunsLambda, RunsUser,
         LambdaHasFrame, WaitsInstalled
<1>3. CallPart
  BY DEF Init, CallPart, LambdaSoFar, HasHeard, FlagMeansPacket, StartsFresh,
         ReturnsWhole
<1> QED
  BY <1>1, <1>2, <1>3 DEF ReceiveInv

\* A step of the application thread keeps every part of the invariant.
LEMMA AppKeeps == ReceiveInv /\ AppNext => ReceiveInv'
<1> SUFFICES ASSUME ReceiveInv, AppNext PROVE ReceiveInv'
  OBVIOUS
<1> USE ReceivePathAssumption
<1> USE DEF ReceiveInv, ReceiveTypeOK, LockPart, LockHeld, RunsInstalled,
            RunsLambda, RunsUser, LambdaHasFrame, WaitsInstalled, CallPart,
            LambdaSoFar, HasHeard, FlagMeansPacket, StartsFresh, ReturnsWhole
<1>1. ASSUME NEW lim \in Limits, ReceivePacket(lim) PROVE ReceiveInv'
  <2>1. ReceiveTypeOK'
    BY <1>1 DEF ReceivePacket
  <2>2. LockPart'
    BY <1>1 DEF ReceivePacket
  <2>3. CallPart'
    BY <1>1 DEF ReceivePacket
  <2> QED
    BY <2>1, <2>2, <2>3
<1>2. CASE ReceivePacketAsync
  <2>1. ReceiveTypeOK'
    BY <1>2 DEF ReceivePacketAsync
  <2>2. LockPart'
    BY <1>2 DEF ReceivePacketAsync
  <2>3. CallPart'
    BY <1>2 DEF ReceivePacketAsync
  <2> QED
    BY <2>1, <2>2, <2>3
<1>3. CASE Install
  <2>1. ReceiveTypeOK'
    BY <1>3 DEF Install, SetReceiveCallback
  <2>2. LockPart'
    BY <1>3 DEF Install, SetReceiveCallback
  <2>3. CallPart'
    BY <1>3 DEF Install, SetReceiveCallback
  <2> QED
    BY <2>1, <2>2, <2>3
<1>4. ASSUME NEW callback \in {Nothing, User(call)}, InstallUser(callback)
      PROVE ReceiveInv'
  <2>1. ReceiveTypeOK'
    BY <1>4 DEF InstallUser, SetReceiveCallback
  <2>2. LockPart'
    BY <1>4 DEF InstallUser, SetReceiveCallback
  <2>3. CallPart'
    BY <1>4 DEF InstallUser, SetReceiveCallback
  <2> QED
    BY <2>1, <2>2, <2>3
<1>5. CASE SeesPacket
  BY <1>5, ZenonT(30) DEF SeesPacket
<1>6. CASE LimitPassed
  BY <1>6, ZenonT(30) DEF LimitPassed
<1>7. CASE Remove
  <2>1. ReceiveTypeOK'
    BY <1>7 DEF Remove, SetReceiveCallback
  <2>2. LockPart'
    BY <1>7 DEF Remove, SetReceiveCallback
  <2>3. CallPart'
    BY <1>7 DEF Remove, SetReceiveCallback
  <2> QED
    BY <2>1, <2>2, <2>3
<1>8. CASE Return
  <2>1. ReceiveTypeOK'
    BY <1>8 DEF Return
  <2>2. LockPart'
    BY <1>8 DEF Return
  <2>3. CallPart'
    BY <1>8 DEF Return
  <2> QED
    BY <2>1, <2>2, <2>3
<1>9. CASE Stop
  <2>1. ReceiveTypeOK'
    BY <1>9 DEF Stop
  <2>2. LockPart'
    BY <1>9 DEF Stop
  <2>3. CallPart'
    BY <1>9 DEF Stop
  <2> QED
    BY <2>1, <2>2, <2>3
<1>10. CASE Joined
  <2>1. ReceiveTypeOK'
    BY <1>10 DEF Joined
  <2>2. LockPart'
    BY <1>10 DEF Joined
  <2>3. CallPart'
    BY <1>10 DEF Joined
  <2> QED
    BY <2>1, <2>2, <2>3
<1> QED
  BY <1>1, <1>2, <1>3, <1>4, <1>5, <1>6, <1>7, <1>8, <1>9, <1>10 DEF AppNext

\* So does a step of the loop thread.
LEMMA LoopKeeps == ReceiveInv /\ LoopNext => ReceiveInv'
<1> SUFFICES ASSUME ReceiveInv, LoopNext PROVE ReceiveInv'
  OBVIOUS
<1> USE ReceivePathAssumption
<1> USE DEF ReceiveInv, ReceiveTypeOK, LockPart, LockHeld, RunsInstalled,
            RunsLambda, RunsUser, LambdaHasFrame, WaitsInstalled, CallPart,
            LambdaSoFar, HasHeard, FlagMeansPacket, StartsFresh, ReturnsWhole
<1>1. CASE LoopTest
  <2>1. ReceiveTypeOK'
    BY <1>1 DEF LoopTest
  <2>2. LockPart'
    BY <1>1 DEF LoopTest
  <2>3. CallPart'
    BY <1>1 DEF LoopTest
  <2> QED
    BY <2>1, <2>2, <2>3
<1>2. CASE LoopRead
  <2>1. ReceiveTypeOK'
    BY <1>2 DEF LoopRead
  <2>2. LockPart'
    BY <1>2 DEF LoopRead
  <2>3. CallPart'
    <3>1. /\ WholeTuple(locals') /\ StartsFresh'
          /\ ReturnsWhole' /\ FlagMeansPacket'
      BY <1>2 DEF LoopRead
    <3>2. heard' > 0 /\ loop' = "lock"
      BY <1>2 DEF LoopRead
    <3> QED
      BY <3>1, <3>2
  <2> QED
    BY <2>1, <2>2, <2>3
<1>3. CASE LoopIdles
  BY <1>3, ZenonT(30) DEF LoopIdles
<1>4. CASE LockRecv
  <2>1. ReceiveTypeOK'
    BY <1>4 DEF LockRecv
  <2>2. LockPart'
    BY <1>4 DEF LockRecv
  <2>3. CallPart'
    BY <1>4 DEF LockRecv
  <2> QED
    BY <2>1, <2>2, <2>3
<1>5. CASE LambdaBody
  <2>1. CASE Assign("rssi", heard, "lqi")
    <3>1. /\ locals'.rssi = heard /\ locals'.lqi = locals.lqi
          /\ locals'.msg = locals.msg
          /\ locals'.received = locals.received
      BY <2>1 DEF Assign
    <3>2. /\ loop = "rssi" /\ loop' = "lqi"
          /\ UNCHANGED <<clientVars, packetVars, call, limited, result,
                       running, app>>
      BY <2>1 DEF Assign
    <3>3. ReceiveTypeOK'
      BY <2>1, <3>2 DEF Assign
    <3>4. FlagMeansPacket' /\ StartsFresh' /\ ReturnsWhole'
      BY <3>1, <3>2
    <3> QED
      BY <3>1, <3>2, <3>3, <3>4
  <2>2. CASE Assign("lqi", heard, "msg")
    <3>1. /\ locals'.rssi = locals.rssi /\ locals'.lqi = heard
          /\ locals'.msg = locals.msg
          /\ locals'.received = locals.received
      BY <2>2 DEF Assign
    <3>2. /\ loop = "lqi" /\ loop' = "msg"
          /\ UNCHANGED <<clientVars, packetVars, call, limited, result,
                       running, app>>
      BY <2>2 DEF Assign
    <3>3. ReceiveTypeOK'
      BY <2>2, <3>2 DEF Assign
    <3>4. FlagMeansPacket' /\ StartsFresh' /\ ReturnsWhole'
      BY <3>1, <3>2
    <3> QED
      BY <3>1, <3>2, <3>3, <3>4
  <2>3. CASE Assign("msg", heard, "received")
    <3>1. /\ locals'.rssi = locals.rssi /\ locals'.lqi = locals.lqi
          /\ locals'.msg = heard
          /\ locals'.received = locals.received
      BY <2>3 DEF Assign
    <3>2. /\ loop = "msg" /\ loop' = "received"
          /\ UNCHANGED <<clientVars, packetVars, call, limited, result,
                       running, app>>
      BY <2>3 DEF Assign
    <3>3. ReceiveTypeOK'
      BY <2>3, <3>2 DEF Assign
    <3>4. StartsFresh' /\ ReturnsWhole'
      BY <3>1, <3>2
    <3>5. locals'.msg # 0
      BY <3>1, <3>2
    <3>6. FlagMeansPacket'
      BY <3>1, <3>2, <3>5
    <3> QED
      BY <3>1, <3>2, <3>3, <3>4, <3>6
  <2>4. CASE Assign("received", TRUE, "unlock")
    <3>1. /\ locals'.rssi = locals.rssi /\ locals'.lqi = locals.lqi
          /\ locals'.msg = locals.msg
          /\ locals'.received
      BY <2>4 DEF Assign
    <3>2. /\ loop = "received" /\ loop' = "unlock"
          /\ UNCHANGED <<clientVars, packetVars, call, limited, result,
                       running, app>>
      BY <2>4 DEF Assign
    <3>3. ReceiveTypeOK'
      BY <2>4, <3>2 DEF Assign
    <3>4. StartsFresh' /\ ReturnsWhole'
      BY <3>1, <3>2
    <3>5. locals'.msg # 0
      BY <3>1, <3>2
    <3>6. FlagMeansPacket'
      BY <3>1, <3>2, <3>5
    <3> QED
      BY <3>1, <3>2, <3>3, <3>4, <3>6
  <2> QED
    BY <1>5, <2>1, <2>2, <2>3, <2>4 DEF LambdaBody
<1>6. CASE UserBody
  BY <1>6 DEF UserBody
<1>7. CASE UnlockRecv
  <2>1. ReceiveTypeOK'
    BY <1>7 DEF UnlockRecv
  <2>2. LockPart'
    BY <1>7 DEF UnlockRecv
  <2>3. CallPart'
    BY <1>7 DEF UnlockRecv
  <2> QED
    BY <2>1, <2>2, <2>3
<1>8. CASE SaveToFile
  <2>1. ReceiveTypeOK'
    BY <1>8 DEF SaveToFile
  <2>2. LockPart'
    BY <1>8 DEF SaveToFile
  <2>3. CallPart'
    BY <1>8 DEF SaveToFile
  <2> QED
    BY <2>1, <2>2, <2>3
<1> QED
  BY <1>1, <1>2, <1>3, <1>4, <1>5, <1>6, <1>7, <1>8 DEF LoopNext

\* ReceiveInv is inductive: the two threads' hand-over of a packet is safe in
\* every interleaving.
THEOREM ReceiveSafety == Spec => []ReceiveInv
<1>1. Init => ReceiveInv
  BY ReceiveInit
<1>2. ReceiveInv /\ [Next]_vars => ReceiveInv'
  <2> SUFFICES ASSUME ReceiveInv, [Next]_vars PROVE ReceiveInv'
    OBVIOUS
  <2>1. CASE Next
    BY <2>1, AppKeeps, LoopKeeps DEF Next
  <2>2. CASE UNCHANGED vars
    <3>1. ReceiveTypeOK'
      BY <2>2 DEF ReceiveInv, ReceiveTypeOK
    <3>2. LockPart'
      BY <2>2 DEF ReceiveInv, ReceiveTypeOK, LockPart, LockHeld, RunsInstalled,
                  RunsLambda, RunsUser, LambdaHasFrame, WaitsInstalled
    <3>3. CallPart'
      <4>1. LambdaSoFar' /\ HasHeard' /\ ReturnsWhole'
        BY <2>2 DEF ReceiveInv, CallPart, LambdaSoFar, HasHeard, ReturnsWhole
      <4>2. FlagMeansPacket' /\ StartsFresh'
        BY <2>2 DEF ReceiveInv, CallPart, FlagMeansPacket, StartsFresh
      <4> QED
        BY <4>1, <4>2 DEF CallPart
    <3> QED
      BY <3>1, <3>2, <3>3 DEF ReceiveInv
  <2> QED
    BY <2>1, <2>2
<1> QED
  BY <1>1, <1>2, PTL DEF Spec

\* Every variable keeps its type.
THEOREM ReceiveTypes == Spec => []ReceiveTypeOK
<1>1. ReceiveInv => ReceiveTypeOK
  BY DEF ReceiveInv
<1> QED
  BY <1>1, ReceiveSafety, PTL

\* The callback in execution is never replaced: SetReceiveCallback and the
\* destruction of a lambda's captures wait for ReceiveCallback.
THEOREM CallbackOutlivesItsRun == Spec => []RunsInstalled
<1>1. ReceiveInv => RunsInstalled
  BY DEF ReceiveInv, LockPart
<1> QED
  BY <1>1, ReceiveSafety, PTL

\* A lambda of ReceivePacket is installed only while its call waits.
THEOREM LambdaOutlived == Spec => []LambdaHasFrame
<1>1. ReceiveInv => LambdaHasFrame
  BY DEF ReceiveInv, LockPart
<1> QED
  BY <1>1, ReceiveSafety, PTL

\* ReceivePacket returns bytes, RSSI and LQI of one packet.
THEOREM TuplesAreWhole == Spec => []ReturnsWhole
<1>1. ReceiveInv => ReturnsWhole
  BY DEF ReceiveInv, CallPart
<1> QED
  BY <1>1, ReceiveSafety, PTL
-----------------------------------------------------------------------------
USE DEF CallOpen, Pending

\* What the inbox shows of a state.
LEMMA InboxInit == Init => Promise!Init
BY DEF Init, Promise!Init

LEMMA AppRefines == ReceiveInv /\ AppNext => [Promise!Next]_(Promise!vars)
<1> SUFFICES ASSUME ReceiveInv, AppNext PROVE [Promise!Next]_(Promise!vars)
  OBVIOUS
<1> USE DEF ReceiveInv, ReceiveTypeOK, LockPart, LockHeld, LambdaHasFrame,
            WaitsInstalled, CallPart, FlagMeansPacket, StartsFresh,
            Promise!Next, Promise!vars
<1>1. ASSUME NEW lim \in Limits, ReceivePacket(lim) PROVE Promise!Choose
  BY <1>1, ReceivePathAssumption DEF ReceivePacket, Promise!Choose
<1>2. CASE ReceivePacketAsync
  BY <1>2 DEF ReceivePacketAsync
<1>3. CASE Install
  <2>1. Promise!Open
    BY <1>3 DEF Install, SetReceiveCallback, Promise!Open
  <2> QED
    BY <2>1
<1>4. ASSUME NEW callback \in {Nothing, User(call)}, InstallUser(callback)
      PROVE UNCHANGED Promise!vars
  BY <1>4 DEF InstallUser, SetReceiveCallback
<1>5. CASE SeesPacket
  BY <1>5 DEF SeesPacket
<1>6. CASE LimitPassed
  BY <1>6 DEF LimitPassed
<1>7. CASE Remove
  <2>1. app = "remove" /\ ~recv_mtx_held /\ loop \notin BodyPcs
    BY <1>7 DEF Remove, SetReceiveCallback
  <2>2. m_receive_callback' = Nothing /\ app' = "return"
        /\ UNCHANGED <<callVars, packetVars, loop>>
    BY <1>7 DEF Remove, SetReceiveCallback
  <2>3. CallOpen
    BY <2>1
  <2>4. ~limited => locals.msg # 0
    BY <2>1
  <2>5. Promise!Return
    BY <2>1, <2>2, <2>3, <2>4 DEF Promise!Return
  <2> QED
    BY <2>5
<1>8. CASE Return
  BY <1>8 DEF Return
<1>9. CASE Stop
  BY <1>9 DEF Stop
<1>10. CASE Joined
  BY <1>10 DEF Joined
<1> QED
  BY <1>1, <1>2, <1>3, <1>4, <1>5, <1>6, <1>7, <1>8, <1>9, <1>10 DEF AppNext

LEMMA LoopRefines == ReceiveInv /\ LoopNext => [Promise!Next]_(Promise!vars)
<1> SUFFICES ASSUME ReceiveInv, LoopNext PROVE [Promise!Next]_(Promise!vars)
  OBVIOUS
<1> USE DEF ReceiveInv, ReceiveTypeOK, LockPart, LockHeld, RunsInstalled,
            RunsLambda, RunsUser, LambdaHasFrame, CallPart, LambdaSoFar,
            HasHeard, Promise!vars
<1>1. CASE LoopTest
  BY <1>1 DEF LoopTest
<1>2. CASE LoopRead
  BY <1>2 DEF LoopRead
<1>3. CASE LoopIdles
  BY <1>3 DEF LoopIdles
<1>4. CASE LockRecv
  <2>1. Promise!Offer
    BY <1>4 DEF LockRecv, Promise!Offer
  <2> QED
    BY <2>1 DEF Promise!Next
<1>5. CASE LambdaBody
  BY <1>5 DEF LambdaBody, Assign
<1>6. CASE UserBody
  BY <1>6 DEF UserBody
<1>7. CASE UnlockRecv
  BY <1>7 DEF UnlockRecv
<1>8. CASE SaveToFile
  BY <1>8 DEF SaveToFile
<1> QED
  BY <1>1, <1>2, <1>3, <1>4, <1>5, <1>6, <1>7, <1>8 DEF LoopNext

\* Reception implements Inbox: in particular a packet offered during a call is
\* returned by it unless a later one was, and none is returned twice.
THEOREM ReceptionRefines == Spec => ImplementsInbox
<1>1. ReceiveInv /\ [Next]_vars => [Promise!Next]_(Promise!vars)
  <2> SUFFICES ASSUME ReceiveInv, [Next]_vars
               PROVE [Promise!Next]_(Promise!vars)
    OBVIOUS
  <2>1. CASE Next
    BY <2>1, AppRefines, LoopRefines DEF Next
  <2>2. CASE UNCHANGED vars
    BY <2>2 DEF Promise!vars
  <2> QED
    BY <2>1, <2>2
<1> QED
  BY <1>1, InboxInit, ReceiveSafety, PTL DEF Spec, Promise!Spec, ImplementsInbox
=============================================================================
