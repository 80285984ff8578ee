----------------------------- MODULE SerialPort -----------------------------
(***************************************************************************)
(* Opening, configuring and closing a serial port, as SerialPort does it.  *)
(* Every call is a series of steps; a step reads the device's settings,    *)
(* changes some and writes them back.  A system call of a step may fail:   *)
(* the call then throws and the rest of its steps is not done.             *)
(*                                                                         *)
(* A flag word is the set of its flags.  ICRNL, OPOST and ICANON stand for *)
(* all the flags SerialPort never sets.                                    *)
(***************************************************************************)
EXTENDS Integers, Sequences

CONSTANTS
    Devices,    \* the settings an earlier program may have left the device in
    BaudRates,  \* the baud rates callers ask for
    Sizes,      \* the character sizes they ask for
    Shorts,     \* the arguments of SetVMin and SetVTime
    MayFail     \* the steps in which a system call may fail

InputFlags   == {"IGNBRK", "IGNPAR", "INPCK", "ISTRIP", "IXON", "IXOFF", "ICRNL"}
ControlFlags == {"CREAD", "CLOCAL", "CRTSCTS", "PARENB", "PARODD", "CSTOPB"}
BaudRate     == {"BAUD_9600", "BAUD_115200", "BAUD_230400"}
CharacterSize == {"CS5", "CS6", "CS7", "CS8"}
FlowControl  == {"hardware", "software", "none"}
Parity       == {"even", "odd", "none"}
StopBits     == {"1", "2"}
Byte         == 0..255

\* struct termios; startstop holds c_cc[VSTART] and c_cc[VSTOP].
Termios == [iflag : SUBSET InputFlags, oflag : SUBSET {"OPOST"},
            cflag : SUBSET ControlFlags, lflag : SUBSET {"ICANON"},
            csize : CharacterSize, speed : BaudRate \cup {"B0"},
            vmin : Byte, vtime : Byte, line : {"N_TTY", "other"},
            startstop : {"^Q^S", "disabled", "other"}]

ZeroTermios ==
    [iflag |-> {}, oflag |-> {}, cflag |-> {}, lflag |-> {}, csize |-> "CS5",
     speed |-> "B0", vmin |-> 0, vtime |-> 0, line |-> "N_TTY",
     startstop |-> "disabled"]

AttributeNames == {"baudRate", "characterSize", "flowControl", "parity",
                   "stopBits", "vmin", "vtime"}
ModeNames == {"linux", "input", "output", "control", "local"}
StepNames == AttributeNames \cup ModeNames \cup {"exclusive", "save", "flush"}

ASSUME SerialPortAssumption ==
    /\ Devices \subseteq Termios
    /\ BaudRates \subseteq BaudRate
    /\ Sizes \subseteq CharacterSize
    /\ Shorts \subseteq Int
    /\ MayFail \subseteq StepNames \cup {"open", "restore", "close"}

VARIABLES
    isOpen,                 \* mFileDescriptor # -1
    mOldPortSettings,
    mByteArrivalTimeDelta,
    device,                 \* the settings the device has
    call,                   \* the call in progress
    todo,                   \* its steps still to be done
    thrown,                 \* what the last call threw
    found,                  \* history: the settings the device was opened with
    asked,                  \* history: the attributes last set
    known                   \* history: Open or SetDefaultSerialPortParameters
                            \* was done to the end, and none has failed since

port == <<isOpen, mOldPortSettings, found>>
settings == <<device, mByteArrivalTimeDelta, asked>>
vars == <<port, settings, call, todo, thrown, known>>
-----------------------------------------------------------------------------
(* What the setters make of the settings they read.                        *)

SetDefaultLinuxSpecificModes(t) == [t EXCEPT !.line = "N_TTY"]
SetDefaultInputModes(t)   == [t EXCEPT !.iflag = {"IGNBRK"}]
SetDefaultOutputModes(t)  == [t EXCEPT !.oflag = {}]
SetDefaultControlModes(t) == [t EXCEPT !.cflag = @ \cup {"CREAD", "CLOCAL"}]
SetDefaultLocalModes(t)   == [t EXCEPT !.lflag = {}]

SetBaudRate(t, rate) == [t EXCEPT !.speed = rate]

\* Slip: ISTRIP assigned instead of set, so the other flags are lost.
SetCharacterSizeAssigns(t, size) ==
    [t EXCEPT !.csize = size,
              !.iflag = IF size = "CS8" THEN @ \ {"ISTRIP"} ELSE {"ISTRIP"}]

\* Slip: ISTRIP is set, and never cleared.
SetCharacterSizeStrips(t, size) ==
    [t EXCEPT !.csize = size,
              !.iflag = IF size = "CS8" THEN @ ELSE @ \cup {"ISTRIP"}]

SetCharacterSize(t, size) ==
    [t EXCEPT !.csize = size,
              !.iflag = IF size = "CS8" THEN @ \ {"ISTRIP"} ELSE @ \cup {"ISTRIP"}]

SetFlowControl(t, flow) ==
    CASE flow = "hardware" ->
            [t EXCEPT !.iflag = @ \ {"IXON", "IXOFF"},
                      !.cflag = @ \cup {"CRTSCTS"}, !.startstop = "disabled"]
      [] flow = "software" ->
            [t EXCEPT !.iflag = @ \cup {"IXON", "IXOFF"},
                      !.cflag = @ \ {"CRTSCTS"}, !.startstop = "^Q^S"]
      [] flow = "none" ->
            [t EXCEPT !.iflag = @ \ {"IXON", "IXOFF"}, !.cflag = @ \ {"CRTSCTS"}]

SetParity(t, parity) ==
    CASE parity = "even" ->
            [t EXCEPT !.cflag = (@ \cup {"PARENB"}) \ {"PARODD"},
                      !.iflag = @ \cup {"INPCK"}]
      [] parity = "odd" ->
            [t EXCEPT !.cflag = @ \cup {"PARENB", "PARODD"},
                      !.iflag = @ \cup {"INPCK"}]
      [] parity = "none" ->
            [t EXCEPT !.cflag = @ \ {"PARENB"}, !.iflag = @ \cup {"IGNPAR"}]

SetStopBits(t, bits) ==
    [t EXCEPT !.cflag = IF bits = "2" THEN @ \cup {"CSTOPB"} ELSE @ \ {"CSTOPB"}]

SetVMin(t, vmin)   == [t EXCEPT !.vmin = vmin]
SetVTime(t, vtime) == [t EXCEPT !.vtime = vtime]

(* What the getters make of them.                                          *)

GetFlowControl(t) ==
    IF {"IXON", "IXOFF"} \subseteq t.iflag /\ t.startstop = "^Q^S"
      THEN "software"
    ELSE IF {"IXON", "IXOFF"} \cap t.iflag = {}
      THEN IF "CRTSCTS" \in t.cflag THEN "hardware" ELSE "none"
    ELSE "invalid"

GetParity(t) ==
    IF "PARENB" \notin t.cflag THEN "none"
    ELSE IF "PARODD" \in t.cflag THEN "odd" ELSE "even"

GetStopBits(t) == IF "CSTOPB" \in t.cflag THEN "2" ELSE "1"

Attributes(t) ==
    [baudRate |-> t.speed, characterSize |-> t.csize,
     flowControl |-> GetFlowControl(t), parity |-> GetParity(t),
     stopBits |-> GetStopBits(t), vmin |-> t.vmin, vtime |-> t.vtime]

GetBitRate(rate) ==
    CASE rate = "BAUD_9600"   -> 9600
      [] rate = "BAUD_115200" -> 115200
      [] rate = "BAUD_230400" -> 230400

\* The time SerialPort waits for a byte, in microseconds.
ByteTime(rate) == (8 * 1000000) \div GetBitRate(rate)
-----------------------------------------------------------------------------
(* The steps of the calls.                                                 *)

Step(name, value) == [name |-> name, value |-> value]
Plain(name) == Step(name, "-")

DefaultSteps ==
    << Plain("linux"), Plain("input"), Plain("output"), Plain("control"),
       Plain("local"),
       Step("baudRate", "BAUD_115200"), Step("characterSize", "CS8"),
       Step("flowControl", "none"), Step("parity", "none"),
       Step("stopBits", "1"), Step("vmin", 1), Step("vtime", 0) >>

\* Slip: the settings are saved after the defaults were set.
OpenStepsSaveLate ==
    << Plain("exclusive") >> \o DefaultSteps \o << Plain("save"), Plain("flush") >>

OpenSteps ==
    << Plain("exclusive"), Plain("save") >> \o DefaultSteps \o << Plain("flush") >>

\* BoardClient::Setup
SetupSteps ==
    OpenSteps \o << Step("baudRate", "BAUD_230400"), Step("characterSize", "CS8"),
                    Step("flowControl", "none"), Step("parity", "none"),
                    Step("stopBits", "1"), Plain("flush") >>

\* What step s makes of settings t.
Effect(t, s) ==
    CASE s.name = "linux"         -> SetDefaultLinuxSpecificModes(t)
      [] s.name = "input"         -> SetDefaultInputModes(t)
      [] s.name = "output"        -> SetDefaultOutputModes(t)
      [] s.name = "control"       -> SetDefaultControlModes(t)
      [] s.name = "local"         -> SetDefaultLocalModes(t)
      [] s.name = "baudRate"      -> SetBaudRate(t, s.value)
      [] s.name = "characterSize" -> SetCharacterSize(t, s.value)
      [] s.name = "flowControl"   -> SetFlowControl(t, s.value)
      [] s.name = "parity"        -> SetParity(t, s.value)
      [] s.name = "stopBits"      -> SetStopBits(t, s.value)
      [] s.name = "vmin"          -> SetVMin(t, s.value)
      [] s.name = "vtime"         -> SetVTime(t, s.value)
      [] OTHER                    -> t

\* What a step may throw.
Throws(s) ==
    CASE s.name = "save"        -> {"OpenFailed"}
      [] s.name \in ModeNames   -> {"runtime_error", "OpenFailed"}
      [] s.name = "flowControl" -> {"runtime_error", "OpenFailed"}
      [] OTHER                  -> {"runtime_error"}
-----------------------------------------------------------------------------
Init ==
    /\ isOpen = FALSE
    /\ mOldPortSettings = ZeroTermios
    /\ mByteArrivalTimeDelta = 1
    /\ device \in Devices
    /\ call = "none"
    /\ todo = << >>
    /\ thrown = "none"
    /\ found = device
    /\ asked = Attributes(ZeroTermios)
    /\ known = FALSE

Idle == call = "none"

\* A call that needs an open port throws.
CallOnClosed ==
    /\ Idle
    /\ ~isOpen
    /\ thrown' = "NotOpen"
    /\ UNCHANGED <<port, settings, call, todo, known>>

Begin(c, steps) ==
    /\ Idle
    /\ isOpen
    /\ call' = c
    /\ todo' = steps
    /\ thrown' = "none"

Opens(steps) ==
    /\ Idle
    /\ ~isOpen
    /\ \/ /\ isOpen' = TRUE
          /\ found' = device
          /\ call' = "open"
          /\ todo' = steps
          /\ thrown' = "none"
       \/ /\ "open" \in MayFail
          /\ thrown' = "OpenFailed"
          /\ UNCHANGED <<isOpen, found, call, todo>>
    /\ UNCHANGED <<mOldPortSettings, settings, known>>

Open == Opens(OpenSteps)

Setup == Opens(SetupSteps)

OpenTwice ==
    /\ Idle
    /\ isOpen
    /\ thrown' = "AlreadyOpen"
    /\ UNCHANGED <<port, settings, call, todo, known>>

SetDefaultSerialPortParameters ==
    /\ Begin("default", DefaultSteps)
    /\ known' = FALSE
    /\ UNCHANGED <<port, settings>>

SetAttribute(name, value) ==
    /\ Begin("set", << Step(name, value) >>)
    /\ UNCHANGED <<port, settings, known>>

\* Slip: any short is taken.
SetCharacterUnchecked(name, value) == SetAttribute(name, value)

\* SetVMin and SetVTime look at their argument first.
SetCharacter(name, value) ==
    IF value \in Byte
      THEN SetAttribute(name, value)
      ELSE /\ Idle
           /\ isOpen
           /\ thrown' = "invalid_argument"
           /\ UNCHANGED <<port, settings, call, todo, known>>

\* The next step of the call, all its system calls succeeding.
DoStep ==
    /\ ~Idle
    /\ LET s == Head(todo) IN
       /\ device' = Effect(device, s)
       /\ asked' = IF s.name \in AttributeNames
                     THEN [asked EXCEPT ![s.name] = s.value] ELSE asked
       /\ mByteArrivalTimeDelta' =
              IF s.name = "baudRate" THEN ByteTime(s.value)
                                     ELSE mByteArrivalTimeDelta
       /\ mOldPortSettings' = IF s.name = "save" THEN device
                                                 ELSE mOldPortSettings
    /\ todo' = Tail(todo)
    /\ call' = IF Tail(todo) = << >> THEN "none" ELSE call
    /\ known' = (known \/ (Tail(todo) = << >> /\ call # "set"))
    /\ UNCHANGED <<isOpen, found, thrown>>

\* One of them failing.
StepFails ==
    /\ ~Idle
    /\ Head(todo).name \in MayFail
    /\ thrown' \in Throws(Head(todo))
    /\ call' = "none"
    /\ todo' = << >>
    /\ UNCHANGED <<port, settings, known>>

Close ==
    /\ Idle
    /\ isOpen
    /\ device' = mOldPortSettings
    /\ isOpen' = FALSE
    /\ known' = FALSE
    /\ thrown' = "none"
    /\ UNCHANGED <<mOldPortSettings, found, mByteArrivalTimeDelta, asked, call, todo>>

\* The settings cannot be restored; or they can, and the descriptor cannot be
\* closed.
CloseFails ==
    /\ Idle
    /\ isOpen
    /\ \/ "restore" \in MayFail /\ UNCHANGED <<device, known>>
       \/ "close" \in MayFail /\ device' = mOldPortSettings /\ known' = FALSE
    /\ thrown' = "runtime_error"
    /\ UNCHANGED <<port, mByteArrivalTimeDelta, asked, call, todo>>

\* While the port is closed another program may use the device.
OtherProgram ==
    /\ ~isOpen
    /\ device' \in Devices
    /\ UNCHANGED <<port, mByteArrivalTimeDelta, asked, call, todo, thrown, known>>

Next ==
    \/ Open \/ Setup \/ OpenTwice \/ CallOnClosed
    \/ SetDefaultSerialPortParameters
    \/ \E rate \in BaudRates : SetAttribute("baudRate", rate)
    \/ \E size \in Sizes : SetAttribute("characterSize", size)
    \/ \E flow \in FlowControl : SetAttribute("flowControl", flow)
    \/ \E parity \in Parity : SetAttribute("parity", parity)
    \/ \E bits \in StopBits : SetAttribute("stopBits", bits)
    \/ \E n \in Shorts : SetCharacter("vmin", n) \/ SetCharacter("vtime", n)
    \/ DoStep \/ StepFails
    \/ Close \/ CloseFails
    \/ OtherProgram

Spec == Init /\ [][Next]_vars
-----------------------------------------------------------------------------
(* Properties.                                                             *)

ValuesOf(name) ==
    CASE name = "baudRate"      -> BaudRate
      [] name = "characterSize" -> CharacterSize
      [] name = "flowControl"   -> FlowControl
      [] name = "parity"        -> Parity
      [] name = "stopBits"      -> StopBits
      [] name \in {"vmin", "vtime"} -> Byte
      [] OTHER                  -> {"-"}

\* The types of the variables.  A call in progress has steps left.
PortTypeOK ==
    /\ isOpen \in BOOLEAN
    /\ mOldPortSettings \in Termios
    /\ mByteArrivalTimeDelta \in Nat
    /\ device \in Termios
    /\ call \in {"none", "open", "default", "set"}
    /\ (call = "none") = (todo = << >>)
    /\ \A i \in DOMAIN todo : todo[i].name \in StepNames
                             /\ todo[i].value \in ValuesOf(todo[i].name)
    /\ thrown \in {"none", "NotOpen", "AlreadyOpen", "OpenFailed",
                   "runtime_error", "invalid_argument"}
    /\ found \in Termios
    /\ known \in BOOLEAN

\* What was set last is what the getters return, whatever other attributes were
\* set, or failed to be set, since: setters share flag words and none disturbs
\* another's flags.
AttributesKept ==
    known => /\ Attributes(device) = asked
             /\ mByteArrivalTimeDelta = ByteTime(asked.baudRate)

\* A port set to eight bits and no software flow control passes every byte
\* unchanged in both directions, whatever was set before: frames hold any byte.
EightBitsPass ==
    known /\ asked.characterSize = "CS8" /\ asked.flowControl # "software" =>
        /\ device.iflag \cap {"ISTRIP", "IXON", "IXOFF", "ICRNL"} = {}
        /\ device.oflag = {} /\ device.lflag = {}
        /\ "CREAD" \in device.cflag /\ device.line = "N_TTY"

\* Closing leaves the device as it was when the port was opened
\* (SerialPort.cpp:468-471).
CloseRestores == [][isOpen /\ ~isOpen' => device' = found]_vars

\* OpenFailed is "thrown when the serial port could not be opened"
\* (SerialPortConstants.h:151): the port is then not open, and Open can be
\* called again.
OpenFailedIsClosed == thrown = "OpenFailed" => ~isOpen
=============================================================================
