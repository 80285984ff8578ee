----------------------------- MODULE PortProofs -----------------------------
(***************************************************************************)
(* A serial port keeps the attributes it is given, passes every byte when  *)
(* it is set to, and leaves the device as it found it: for every device,   *)
(* every series of calls and every failing step.                           *)
(***************************************************************************)
EXTENDS SerialPort, SequenceTheorems, TLAPS

Steps == {s \in [name : StepNames, value : UNION {ValuesOf(n) : n \in StepNames}] :
             s.value \in ValuesOf(s.name)}

\* A step of that name is still to be done.
Left(name) == \E i \in DOMAIN todo : todo[i].name = name

\* It has been done, in this call or in the one that set the port up.
Settled(name) == known \/ (call \in {"open", "default"} /\ ~Left(name))

\* Every mode is set before the attributes are.
ModesFirst(steps) ==
    \A i \in DOMAIN steps : steps[i].name \in ModeNames =>
        \A name \in AttributeNames : \E j \in DOMAIN steps : i < j /\ steps[j].name = name

\* What settings look like once the mode has been set.
ModeHolds(name, t) ==
    /\ name = "linux"   => t.line = "N_TTY"
    /\ name = "input"   => "ICRNL" \notin t.iflag
    /\ name = "output"  => t.oflag = {}
    /\ name = "control" => "CREAD" \in t.cflag
    /\ name = "local"   => t.lflag = {}

\* Where a call can be: a port that is not set up is never in a setter that
\* would make it so.
CallPart ==
    /\ todo \in Seq(Steps)
    /\ ~isOpen => call = "none" /\ ~known
    /\ known => call \in {"none", "set"}
    /\ call = "set" => Len(todo) = 1 /\ todo[1].name \in AttributeNames
    /\ ModesFirst(todo)

\* A step that was done has had its effect, and no later one undoes it.
SettledPart ==
    /\ asked = [name \in AttributeNames |-> asked[name]]
    /\ asked.flowControl \in FlowControl
    /\ \A name \in AttributeNames :
          Settled(name) => Attributes(device)[name] = asked[name]
    /\ Settled("baudRate") => mByteArrivalTimeDelta = ByteTime(asked.baudRate)
    /\ Settled("characterSize") => ("ISTRIP" \in device.iflag <=> device.csize # "CS8")
    /\ \A name \in ModeNames : Settled(name) => ModeHolds(name, device)

\* Until the settings are saved nothing has changed them.
SavedFirst(steps) ==
    \A i \in DOMAIN steps : steps[i].name = "save" =>
        \A j \in DOMAIN steps : j < i => steps[j].name = "exclusive"

SavePart ==
    /\ SavedFirst(todo)
    /\ isOpen => IF Left("save") THEN device = found ELSE mOldPortSettings = found

PortInv == PortTypeOK /\ CallPart /\ SettledPart
-----------------------------------------------------------------------------
(* Steps.                                                                  *)

\* A step makes settings of settings.
LEMMA EffectType ==
    ASSUME NEW t \in Termios, NEW s \in Steps
    PROVE  Effect(t, s) \in Termios
<1>1. s.name \in StepNames /\ s.value \in ValuesOf(s.name)
  BY DEF Steps
<1>2. CASE s.name \in ModeNames
  BY <1>2 DEF Effect, ModeNames, SetDefaultLinuxSpecificModes, SetDefaultInputModes,
      SetDefaultOutputModes, SetDefaultControlModes, SetDefaultLocalModes, Termios,
      InputFlags, ControlFlags
<1>3. CASE s.name \in {"baudRate", "characterSize"}
  BY <1>1, <1>3 DEF Effect, ValuesOf, SetBaudRate, SetCharacterSize, Termios, InputFlags
<1>4. CASE s.name = "flowControl"
  BY <1>1, <1>4 DEF Effect, ValuesOf, FlowControl, SetFlowControl, Termios, InputFlags,
      ControlFlags
<1>5. CASE s.name = "parity"
  BY <1>1, <1>5 DEF Effect, ValuesOf, Parity, SetParity, Termios, InputFlags, ControlFlags
<1>6. CASE s.name \in {"stopBits", "vmin", "vtime"}
  BY <1>1, <1>6 DEF Effect, ValuesOf, SetStopBits, SetVMin, SetVTime, Termios, ControlFlags
<1>7. CASE s.name \in {"exclusive", "save", "flush"}
  BY <1>7 DEF Effect
<1> QED
  BY <1>1, <1>2, <1>3, <1>4, <1>5, <1>6, <1>7 DEF StepNames, AttributeNames

\* A setter changes what its getter returns, and that alone.
LEMMA SetterGetter ==
    ASSUME NEW t \in Termios, NEW s \in Steps, s.name \in AttributeNames,
           NEW name \in AttributeNames
    PROVE  Attributes(Effect(t, s))[name] =
               IF name = s.name THEN s.value ELSE Attributes(t)[name]
<1>1. s.value \in ValuesOf(s.name)
  BY DEF Steps
<1>2. CASE s.name \in {"baudRate", "vmin", "vtime"}
  <2>1. /\ Effect(t, s).iflag = t.iflag /\ Effect(t, s).cflag = t.cflag
        /\ Effect(t, s).startstop = t.startstop /\ Effect(t, s).csize = t.csize
        /\ Effect(t, s).speed = IF s.name = "baudRate" THEN s.value ELSE t.speed
        /\ Effect(t, s).vmin = IF s.name = "vmin" THEN s.value ELSE t.vmin
        /\ Effect(t, s).vtime = IF s.name = "vtime" THEN s.value ELSE t.vtime
    BY <1>2 DEF Effect, SetBaudRate, SetVMin, SetVTime, Termios
  <2> QED
    BY <1>2, <2>1 DEF Attributes, GetFlowControl, GetParity, GetStopBits, AttributeNames
<1>3. CASE s.name = "characterSize"
  <2>1. /\ Effect(t, s).csize = s.value
        /\ "IXON" \in Effect(t, s).iflag <=> "IXON" \in t.iflag
        /\ "IXOFF" \in Effect(t, s).iflag <=> "IXOFF" \in t.iflag
        /\ Effect(t, s).cflag = t.cflag /\ Effect(t, s).startstop = t.startstop
        /\ Effect(t, s).speed = t.speed
        /\ Effect(t, s).vmin = t.vmin /\ Effect(t, s).vtime = t.vtime
    BY <1>3 DEF Effect, SetCharacterSize, Termios
  <2>2. GetFlowControl(Effect(t, s)) = GetFlowControl(t)
    BY <2>1 DEF GetFlowControl
  <2> QED
    BY <1>3, <2>1, <2>2 DEF Attributes, GetParity, GetStopBits, AttributeNames
<1>4. CASE s.name = "flowControl"
  <2>1. /\ Effect(t, s).csize = t.csize /\ Effect(t, s).speed = t.speed
        /\ "PARENB" \in Effect(t, s).cflag <=> "PARENB" \in t.cflag
        /\ "PARODD" \in Effect(t, s).cflag <=> "PARODD" \in t.cflag
        /\ "CSTOPB" \in Effect(t, s).cflag <=> "CSTOPB" \in t.cflag
        /\ Effect(t, s).vmin = t.vmin /\ Effect(t, s).vtime = t.vtime
    BY <1>1, <1>4 DEF Effect, ValuesOf, FlowControl, SetFlowControl, Termios
  <2>2. GetFlowControl(Effect(t, s)) = s.value
    BY <1>1, <1>4 DEF Effect, ValuesOf, FlowControl, SetFlowControl, Termios, GetFlowControl
  <2> QED
    BY <1>4, <2>1, <2>2 DEF Attributes, GetParity, GetStopBits, AttributeNames
<1>5. CASE s.name = "parity"
  BY <1>1, <1>5 DEF Effect, ValuesOf, Parity, SetParity, Termios, Attributes,
      GetFlowControl, GetParity, GetStopBits, AttributeNames
<1>6. CASE s.name = "stopBits"
  BY <1>1, <1>6 DEF Effect, ValuesOf, StopBits, SetStopBits, Termios, Attributes,
      GetFlowControl, GetParity, GetStopBits, AttributeNames
<1> QED
  BY <1>2, <1>3, <1>4, <1>5, <1>6 DEF AttributeNames

\* Setting an attribute leaves every mode as it is, and ISTRIP to the character
\* size.
LEMMA SetterMode ==
    ASSUME NEW t \in Termios, NEW s \in Steps, s.name \in AttributeNames
    PROVE  /\ \A name \in ModeNames : ModeHolds(name, t) => ModeHolds(name, Effect(t, s))
           /\ LET u == Effect(t, s) IN
              s.name = "characterSize" \/ ("ISTRIP" \in t.iflag <=> t.csize # "CS8")
                  => ("ISTRIP" \in u.iflag <=> u.csize # "CS8")
<1>1. s.value \in ValuesOf(s.name)
  BY DEF Steps
<1>2. CASE s.name \in {"baudRate", "vmin", "vtime"}
  BY <1>1, <1>2 DEF Effect, ValuesOf, SetBaudRate, SetVMin, SetVTime, Termios, ModeHolds
<1>3. CASE s.name = "characterSize"
  BY <1>1, <1>3 DEF Effect, ValuesOf, SetCharacterSize, Termios, InputFlags, ModeHolds
<1>4. CASE s.name = "flowControl"
  BY <1>1, <1>4 DEF Effect, ValuesOf, FlowControl, SetFlowControl, Termios, ModeHolds
<1>5. CASE s.name = "parity"
  BY <1>1, <1>5 DEF Effect, ValuesOf, Parity, SetParity, Termios, ModeHolds
<1>6. CASE s.name = "stopBits"
  BY <1>1, <1>6 DEF Effect, ValuesOf, StopBits, SetStopBits, Termios, ModeHolds
<1> QED
  BY <1>2, <1>3, <1>4, <1>5, <1>6 DEF AttributeNames

\* Setting a mode makes it hold and leaves the others as they are.
LEMMA ModeSet ==
    ASSUME NEW t \in Termios, NEW s \in Steps, s.name \in ModeNames, NEW name \in ModeNames
    PROVE  name = s.name \/ ModeHolds(name, t) => ModeHolds(name, Effect(t, s))
BY DEF Effect, ModeNames, ModeHolds, SetDefaultLinuxSpecificModes, SetDefaultInputModes,
    SetDefaultOutputModes, SetDefaultControlModes, SetDefaultLocalModes, Termios
-----------------------------------------------------------------------------
(* The series of steps of the calls.                                       *)

Complete(steps) ==
    /\ steps \in Seq(Steps) /\ steps # << >>
    /\ ModesFirst(steps)
    /\ \A name \in AttributeNames \cup ModeNames :
          \E i \in DOMAIN steps : steps[i].name = name

\* Steps that set no mode may come before and after, and the series that has
\* them is complete too.
LEMMA CompleteWithin ==
    ASSUME NEW s, Complete(s), NEW c \in Seq(Steps), NEW a \in Nat, a + Len(s) <= Len(c),
           \A i \in 1..Len(s) : c[i + a] = s[i],
           \A i \in 1..Len(c) : i <= a \/ i > a + Len(s) => c[i].name \notin ModeNames
    PROVE  Complete(c)
<1>1. /\ DOMAIN s = 1..Len(s) /\ DOMAIN c = 1..Len(c)
      /\ Len(s) \in Nat \ {0} /\ Len(c) \in Nat \ {0}
  BY EmptySeq, LenProperties DEF Complete
<1>2. /\ \A i \in 1..Len(s) : s[i].name \in ModeNames =>
            \A name \in AttributeNames : \E j \in 1..Len(s) : i < j /\ s[j].name = name
      /\ \A name \in AttributeNames \cup ModeNames : \E i \in 1..Len(s) : s[i].name = name
  BY <1>1, SMTT(30) DEF Complete, ModesFirst
<1>3. ModesFirst(c)
  <2> SUFFICES ASSUME NEW i \in 1..Len(c), c[i].name \in ModeNames,
                      NEW name \in AttributeNames
               PROVE  \E j \in 1..Len(c) : i < j /\ c[j].name = name
    BY <1>1 DEF ModesFirst
  <2>1. i - a \in 1..Len(s) /\ (i - a) + a = i
    BY <1>1
  <2>2. PICK j \in 1..Len(s) : i - a < j /\ s[j].name = name
    <3>1. PICK h \in 1..Len(s) : h = i - a /\ h + a = i
      BY <2>1
    <3>2. s[h].name \in ModeNames
      BY <3>1
    <3>3. PICK j \in 1..Len(s) : h < j /\ s[j].name = name
      BY <1>2, <3>2, Zenon
    <3> QED
      BY <3>1, <3>3
  <2>3. j + a \in 1..Len(c) /\ i < j + a /\ c[j + a].name = name
    BY <1>1, <2>2
  <2> QED
    BY <2>3
<1>4. ASSUME NEW name \in AttributeNames \cup ModeNames
      PROVE  \E i \in 1..Len(c) : c[i].name = name
  <2>1. PICK i \in 1..Len(s) : s[i].name = name
    BY <1>2
  <2>2. i + a \in 1..Len(c) /\ c[i + a].name = name
    BY <1>1, <2>1
  <2> QED
    BY <2>2
<1> QED
  BY <1>1, <1>3, <1>4, EmptySeq DEF Complete

LEMMA DefaultsComplete ==
    Complete(DefaultSteps) /\ \A i \in DOMAIN DefaultSteps : DefaultSteps[i].name # "save"
<1>1. /\ DefaultSteps \in Seq(Steps) /\ DOMAIN DefaultSteps = 1..12
      /\ DefaultSteps # << >>
  BY DEF DefaultSteps, Steps, Step, Plain, StepNames, AttributeNames, ModeNames, ValuesOf,
      BaudRate, CharacterSize, FlowControl, Parity, StopBits, Byte
<1>2. /\ DefaultSteps[1].name = "linux" /\ DefaultSteps[2].name = "input"
      /\ DefaultSteps[3].name = "output" /\ DefaultSteps[4].name = "control"
      /\ DefaultSteps[5].name = "local" /\ DefaultSteps[6].name = "baudRate"
      /\ DefaultSteps[7].name = "characterSize" /\ DefaultSteps[8].name = "flowControl"
      /\ DefaultSteps[9].name = "parity" /\ DefaultSteps[10].name = "stopBits"
      /\ DefaultSteps[11].name = "vmin" /\ DefaultSteps[12].name = "vtime"
  BY DEF DefaultSteps, Step, Plain
<1>3. \A i \in 1..12 : DefaultSteps[i].name \in ModeNames => i <= 5
  BY <1>2 DEF ModeNames
<1>4. \A name \in AttributeNames : \E j \in 1..12 : 5 < j /\ DefaultSteps[j].name = name
  BY <1>2 DEF AttributeNames
<1>5. \A name \in ModeNames : \E j \in 1..12 : DefaultSteps[j].name = name
  BY <1>2 DEF ModeNames
<1>6. ModesFirst(DefaultSteps)
  <2> SUFFICES ASSUME NEW i \in 1..12, DefaultSteps[i].name \in ModeNames,
                      NEW name \in AttributeNames
               PROVE  \E j \in 1..12 : i < j /\ DefaultSteps[j].name = name
    BY <1>1 DEF ModesFirst
  <2>1. PICK j \in 1..12 : 5 < j /\ DefaultSteps[j].name = name
    BY <1>4
  <2> QED
    BY <1>3, <2>1
<1>7. \A i \in 1..12 : DefaultSteps[i].name # "save"
  BY <1>2
<1> QED
  BY <1>1, <1>4, <1>5, <1>6, <1>7 DEF Complete

\* What a series put together holds where.
LEMMA Joined ==
    \A a, b \in Seq(Steps) :
        /\ a \o b \in Seq(Steps) /\ Len(a \o b) = Len(a) + Len(b)
        /\ DOMAIN (a \o b) = 1..Len(a \o b)
        /\ \A i \in 1..Len(a) : (a \o b)[i] = a[i]
        /\ \A i \in 1..Len(b) : (a \o b)[i + Len(a)] = b[i]
BY ConcatProperties, LenProperties

\* Opening does the same between the steps that are its own.
LEMMA OpenComplete ==
    /\ Complete(OpenSteps) /\ SavedFirst(OpenSteps)
    /\ OpenSteps[2].name = "save" /\ Len(OpenSteps) = 15
<1>1. PICK first, last, most :
         /\ first \in Seq(Steps) /\ last \in Seq(Steps)
         /\ Len(first) = 2 /\ Len(last) = 1
         /\ first[1].name = "exclusive" /\ first[2].name = "save" /\ last[1].name = "flush"
         /\ most = first \o DefaultSteps
         /\ OpenSteps = most \o last
  <2>1. /\ << Plain("exclusive"), Plain("save") >> \in Seq(Steps)
        /\ << Plain("flush") >> \in Seq(Steps)
        /\ Len(<< Plain("exclusive"), Plain("save") >>) = 2 /\ Len(<< Plain("flush") >>) = 1
        /\ << Plain("exclusive"), Plain("save") >>[1].name = "exclusive"
        /\ << Plain("exclusive"), Plain("save") >>[2].name = "save"
        /\ << Plain("flush") >>[1].name = "flush"
    BY DEF Steps, Step, Plain, StepNames, ValuesOf
  <2>2. OpenSteps = (<< Plain("exclusive"), Plain("save") >> \o DefaultSteps) \o << Plain("flush") >>
    BY Zenon DEF OpenSteps
  <2> QED
    BY <2>1, <2>2, Zenon
<1>0. /\ Len(first) = 2 /\ Len(last) = 1
      /\ first[1].name = "exclusive" /\ first[2].name = "save" /\ last[1].name = "flush"
  BY <1>1, Zenon
<1>2. /\ DefaultSteps \in Seq(Steps) /\ Len(DefaultSteps) = 12
      /\ \A i \in 1..12 : DefaultSteps[i].name # "save"
  BY DefaultsComplete DEF DefaultSteps, Complete, Step, Plain
<1>3. /\ most \in Seq(Steps) /\ Len(most) = 14 /\ most[1] = first[1] /\ most[2] = first[2]
      /\ \A i \in 1..12 : most[i + 2] = DefaultSteps[i]
  <2>1. /\ most \in Seq(Steps) /\ Len(most) = Len(first) + Len(DefaultSteps)
        /\ \A i \in 1..Len(first) : most[i] = first[i]
        /\ \A i \in 1..Len(DefaultSteps) : most[i + Len(first)] = DefaultSteps[i]
    BY <1>1, <1>2, Joined, Zenon
  <2> QED
    BY <1>0, <1>2, <2>1
<1>4. /\ OpenSteps \in Seq(Steps) /\ Len(OpenSteps) = 15 /\ DOMAIN OpenSteps = 1..15
      /\ \A i \in 1..14 : OpenSteps[i] = most[i]
      /\ OpenSteps[15] = last[1]
  <2>1. /\ OpenSteps \in Seq(Steps) /\ Len(OpenSteps) = Len(most) + Len(last)
        /\ DOMAIN OpenSteps = 1..Len(OpenSteps)
        /\ \A i \in 1..Len(most) : OpenSteps[i] = most[i]
        /\ \A i \in 1..Len(last) : OpenSteps[i + Len(most)] = last[i]
    <3>1. most \in Seq(Steps)
      BY <1>3
    <3> QED
      BY <1>1, <3>1, Joined, ZenonT(30)
  <2>2. Len(OpenSteps) = 15 /\ 1 \in 1..Len(last) /\ 1 + Len(most) = 15
    BY <1>0, <1>3, <2>1
  <2> QED
    BY <1>3, <2>1, <2>2
<1>5. Complete(OpenSteps)
  <2>1. \A i \in 1..Len(DefaultSteps) : OpenSteps[i + 2] = DefaultSteps[i]
    BY <1>2, <1>3, <1>4, SMTT(30)
  <2>2. \A i \in 1..Len(OpenSteps) : i <= 2 \/ i > 2 + Len(DefaultSteps) =>
           OpenSteps[i].name \notin ModeNames
    <3>1. \A i \in 1..Len(OpenSteps) : i <= 2 \/ i > 2 + Len(DefaultSteps) =>
             i = 1 \/ i = 2 \/ i = 15
      BY <1>2, <1>4
    <3> QED
      BY <1>0, <1>3, <1>4, <3>1 DEF ModeNames
  <2>3. 2 \in Nat /\ 2 + Len(DefaultSteps) <= Len(OpenSteps)
    BY <1>2, <1>4
  <2> QED
    BY <1>4, <2>1, <2>2, <2>3, DefaultsComplete, CompleteWithin, Zenon
<1>6. \A i \in 1..15 : OpenSteps[i].name = "save" => i = 2
  <2>1. ASSUME NEW i \in 3..14
        PROVE  OpenSteps[i].name # "save"
    <3>1. i - 2 \in 1..12 /\ (i - 2) + 2 = i
      OBVIOUS
    <3> QED
      BY <1>2, <1>3, <1>4, <3>1
  <2> QED
    BY <1>0, <1>3, <1>4, <2>1
<1> QED
  BY <1>0, <1>3, <1>4, <1>5, <1>6 DEF SavedFirst

\* And so does the set-up of the client, which goes on to set its attributes.
LEMMA SetupComplete ==
    /\ Complete(SetupSteps) /\ SavedFirst(SetupSteps)
    /\ \E i \in DOMAIN SetupSteps : SetupSteps[i].name = "save"
<1>1. PICK more :
         /\ more \in Seq(Steps) /\ Len(more) = 6
         /\ \A i \in 1..6 : more[i].name \in AttributeNames \cup {"flush"}
         /\ SetupSteps = OpenSteps \o more
  <2> DEFINE own == << Step("baudRate", "BAUD_230400"), Step("characterSize", "CS8"),
                       Step("flowControl", "none"), Step("parity", "none"),
                       Step("stopBits", "1"), Plain("flush") >>
  <2>1. own \in Seq(Steps) /\ Len(own) = 6
    BY DEF Steps, Step, Plain, StepNames, AttributeNames, ModeNames, ValuesOf,
        BaudRate, CharacterSize, FlowControl, Parity, StopBits
  <2>2. /\ own[1].name = "baudRate" /\ own[2].name = "characterSize"
        /\ own[3].name = "flowControl" /\ own[4].name = "parity"
        /\ own[5].name = "stopBits" /\ own[6].name = "flush"
    BY DEF Step, Plain
  <2> HIDE DEF own
  <2>3. \A i \in 1..6 : own[i].name \in AttributeNames \cup {"flush"}
    <3>1. \A i \in 1..6 : i \in {1, 2, 3, 4, 5, 6}
      OBVIOUS
    <3> QED
      BY <2>2, <3>1 DEF AttributeNames
  <2>4. SetupSteps = OpenSteps \o own
    BY Zenon DEF SetupSteps, own
  <2> QED
    BY <2>1, <2>3, <2>4, Zenon
<1>2. Len(more) = 6 /\ \A i \in 1..6 : more[i].name \in AttributeNames \cup {"flush"}
  BY <1>1, Zenon
<1>3. OpenSteps \in Seq(Steps) /\ Len(OpenSteps) = 15
  BY OpenComplete DEF Complete
<1>4. /\ SetupSteps \in Seq(Steps) /\ Len(SetupSteps) = Len(OpenSteps) + Len(more)
      /\ DOMAIN SetupSteps = 1..Len(SetupSteps)
      /\ \A i \in 1..Len(OpenSteps) : SetupSteps[i] = OpenSteps[i]
      /\ \A i \in 1..Len(more) : SetupSteps[i + Len(OpenSteps)] = more[i]
  <2>1. OpenSteps \in Seq(Steps)
    BY <1>3
  <2> QED
    BY <1>1, <2>1, Joined, Zenon
<1>5. /\ Len(SetupSteps) = 21 /\ DOMAIN SetupSteps = 1..21
      /\ \A i \in 1..15 : SetupSteps[i] = OpenSteps[i]
      /\ \A i \in 16..21 : SetupSteps[i].name \in AttributeNames \cup {"flush"}
  <2>1. Len(SetupSteps) = 21
    BY <1>2, <1>3, <1>4
  <2>2. ASSUME NEW i \in 16..21
        PROVE  SetupSteps[i].name \in AttributeNames \cup {"flush"}
    <3>1. i - 15 \in 1..6 /\ (i - 15) + 15 = i
      OBVIOUS
    <3> QED
      BY <1>2, <1>3, <1>4, <3>1, SMTT(30)
  <2> QED
    BY <1>3, <1>4, <2>1, <2>2
<1>6. Complete(SetupSteps)
  <2>1. /\ 0 \in Nat /\ 0 + Len(OpenSteps) <= Len(SetupSteps)
        /\ \A i \in 1..Len(OpenSteps) : SetupSteps[i + 0] = OpenSteps[i]
    BY <1>3, <1>5
  <2>2. \A i \in 1..Len(SetupSteps) : i <= 0 \/ i > 0 + Len(OpenSteps) =>
           SetupSteps[i].name \notin ModeNames
    <3>1. \A i \in 1..Len(SetupSteps) : i <= 0 \/ i > 0 + Len(OpenSteps) => i \in 16..21
      BY <1>3, <1>5
    <3>2. \A name \in AttributeNames \cup {"flush"} : name \notin ModeNames
      BY DEF AttributeNames, ModeNames
    <3> QED
      BY <1>5, <3>1, <3>2
  <2> QED
    BY <1>4, <2>1, <2>2, OpenComplete, CompleteWithin, Zenon
<1>7. SavedFirst(SetupSteps)
  <2>1. \A i \in 1..15 : OpenSteps[i].name = "save" =>
           \A j \in 1..15 : j < i => OpenSteps[j].name = "exclusive"
    <3>1. DOMAIN OpenSteps = 1..15
      BY <1>3, LenProperties
    <3>2. SavedFirst(OpenSteps)
      BY OpenComplete
    <3> QED
      BY <3>1, <3>2 DEF SavedFirst
  <2>2. \A i \in 16..21 : SetupSteps[i].name # "save"
    BY <1>5 DEF AttributeNames
  <2>3. \A i \in 1..21 : i \in 1..15 \/ i \in 16..21
    OBVIOUS
  <2> SUFFICES ASSUME NEW i \in 1..21, SetupSteps[i].name = "save",
                      NEW j \in 1..21, j < i
               PROVE  SetupSteps[j].name = "exclusive"
    BY <1>5 DEF SavedFirst
  <2>4. i \in 1..15 /\ j \in 1..15
    BY <2>2, <2>3
  <2> QED
    BY <1>5, <2>1, <2>4
<1> QED
  BY <1>3, <1>5, <1>6, <1>7, OpenComplete
-----------------------------------------------------------------------------
(* A step of a call.                                                       *)

\* Every step sets its own mode or attribute, and no other; the modes may undo
\* attributes.
LEMMA EffectKeeps ==
    ASSUME NEW t \in Termios, NEW s \in Steps
    PROVE  /\ \A name \in ModeNames :
                  name = s.name \/ ModeHolds(name, t) => ModeHolds(name, Effect(t, s))
           /\ s.name \notin ModeNames => \A name \in AttributeNames :
                  Attributes(Effect(t, s))[name] =
                      IF name = s.name THEN s.value ELSE Attributes(t)[name]
           /\ s.name \notin ModeNames =>
                  LET u == Effect(t, s) IN
                  s.name = "characterSize" \/ ("ISTRIP" \in t.iflag <=> t.csize # "CS8")
                      => ("ISTRIP" \in u.iflag <=> u.csize # "CS8")
<1>1. s.name \in StepNames
  BY DEF Steps
<1>2. CASE s.name \in AttributeNames
  BY <1>2, SetterGetter, SetterMode DEF AttributeNames, ModeNames
<1>3. CASE s.name \in ModeNames
  BY <1>3, ModeSet
<1>4. CASE s.name \in {"exclusive", "save", "flush"}
  <2>1. Effect(t, s) = t
    BY <1>4 DEF Effect
  <2> QED
    BY <1>4, <2>1 DEF AttributeNames, ModeNames
<1> QED
  BY <1>1, <1>2, <1>3, <1>4 DEF StepNames

LEMMA NextStep ==
    ASSUME PortInv, ~Idle
    PROVE  /\ Head(todo) \in Steps /\ Head(todo) = todo[1]
           /\ Tail(todo) \in Seq(Steps)
           /\ Len(todo) \in Nat \ {0} /\ DOMAIN todo = 1..Len(todo)
           /\ DOMAIN Tail(todo) = 1..(Len(todo) - 1)
           /\ \A i \in 1..(Len(todo) - 1) : Tail(todo)[i] = todo[i + 1]
           /\ Tail(todo) = << >> <=> Len(todo) = 1
<1>1. todo \in Seq(Steps) /\ todo # << >>
  BY DEF PortInv, PortTypeOK, CallPart, Idle
<1>2. Len(todo) \in Nat \ {0} /\ DOMAIN todo = 1..Len(todo) /\ todo[1] \in Steps
  BY <1>1, EmptySeq, LenProperties, ElementOfSeq
<1>3. /\ Tail(todo) \in Seq(Steps) /\ Len(Tail(todo)) = Len(todo) - 1
      /\ \A i \in 1..Len(Tail(todo)) : Tail(todo)[i] = todo[i + 1]
  BY <1>1, HeadTailProperties
<1>4. DOMAIN Tail(todo) = 1..Len(Tail(todo))
  BY <1>3, LenProperties
<1>5. Tail(todo) = << >> <=> Len(Tail(todo)) = 0
  BY <1>3, EmptySeq
<1> QED
  BY <1>1, <1>2, <1>3, <1>4, <1>5

\* What is left after a step was left before it; what was not is the step.
LEMMA LeftAfter ==
    ASSUME PortInv, DoStep, NEW name
    PROVE  Left(name) <=> Head(todo).name = name \/ Left(name)'
<1>1. /\ ~Idle /\ todo' = Tail(todo)
  BY DEF DoStep
<1>2. /\ Head(todo) = todo[1] /\ Len(todo) \in Nat \ {0} /\ DOMAIN todo = 1..Len(todo)
      /\ DOMAIN todo' = 1..(Len(todo) - 1)
      /\ \A i \in 1..(Len(todo) - 1) : todo'[i] = todo[i + 1]
  BY <1>1, NextStep
<1>3. ASSUME Left(name), Head(todo).name # name
      PROVE  Left(name)'
  <2>1. PICK i \in 1..Len(todo) : todo[i].name = name
    BY <1>2, <1>3 DEF Left
  <2>2. i - 1 \in 1..(Len(todo) - 1) /\ (i - 1) + 1 = i
    BY <1>2, <1>3, <2>1
  <2> QED
    BY <1>2, <2>1, <2>2 DEF Left
<1>4. ASSUME Left(name)'
      PROVE  Left(name)
  BY <1>2, <1>4 DEF Left
<1> QED
  BY <1>2, <1>3, <1>4 DEF Left

\* What is settled after a step was settled before it, or is what the step does;
\* a mode is not set any more when an attribute is settled.
LEMMA SettledAfter ==
    ASSUME PortInv, DoStep, NEW name \in AttributeNames \cup ModeNames, Settled(name)'
    PROVE  /\ Head(todo).name = name \/ Settled(name)
           /\ name \in AttributeNames => Head(todo).name \notin ModeNames
<1> DEFINE s == Head(todo)
<1>1. /\ ~Idle /\ todo' = Tail(todo)
      /\ call' = IF Tail(todo) = << >> THEN "none" ELSE call
      /\ known' = (known \/ (Tail(todo) = << >> /\ call # "set"))
  BY DEF DoStep
<1>2. /\ s = todo[1] /\ Len(todo) \in Nat \ {0} /\ DOMAIN todo = 1..Len(todo)
      /\ DOMAIN todo' = 1..(Len(todo) - 1)
      /\ \A i \in 1..(Len(todo) - 1) : todo'[i] = todo[i + 1]
      /\ Tail(todo) = << >> <=> Len(todo) = 1
  BY <1>1, NextStep
<1>3. CASE known
  <2>1. s.name \in AttributeNames
    BY <1>1, <1>2, <1>3 DEF PortInv, PortTypeOK, CallPart, Idle
  <2> QED
    BY <1>3, <2>1 DEF Settled, AttributeNames, ModeNames
<1>4. CASE ~known
  <2>1. call \in {"open", "default"} /\ ~Left(name)'
    BY <1>1, <1>2, <1>4 DEF Settled, Left, PortInv, PortTypeOK, Idle
  <2>2. s.name = name \/ Settled(name)
    BY <2>1, LeftAfter DEF Settled
  <2>3. ASSUME name \in AttributeNames, s.name \in ModeNames
        PROVE  FALSE
    <3>1. PICK j \in 1..Len(todo) : 1 < j /\ todo[j].name = name
      BY <1>2, <2>3 DEF PortInv, CallPart, ModesFirst
    <3>2. j - 1 \in 1..(Len(todo) - 1) /\ (j - 1) + 1 = j
      BY <1>2, <3>1
    <3> QED
      BY <1>2, <2>1, <3>1, <3>2 DEF Left
  <2> QED
    BY <2>2, <2>3
<1> QED
  BY <1>3, <1>4

LEMMA ByteTimeType ==
    ASSUME NEW rate \in BaudRate
    PROVE  ByteTime(rate) \in Nat
BY DEF ByteTime, GetBitRate, BaudRate

\* One step of a call keeps the invariant.
LEMMA DoStepKeeps ==
    ASSUME PortInv, DoStep
    PROVE  PortInv'
<1> DEFINE s == Head(todo)
<1>1. /\ ~Idle /\ todo' = Tail(todo)
      /\ device' = Effect(device, s)
      /\ asked' = IF s.name \in AttributeNames THEN [asked EXCEPT ![s.name] = s.value] ELSE asked
      /\ mByteArrivalTimeDelta' = IF s.name = "baudRate" THEN ByteTime(s.value)
                                                        ELSE mByteArrivalTimeDelta
      /\ mOldPortSettings' = IF s.name = "save" THEN device ELSE mOldPortSettings
      /\ call' = IF Tail(todo) = << >> THEN "none" ELSE call
      /\ known' = (known \/ (Tail(todo) = << >> /\ call # "set"))
      /\ UNCHANGED <<isOpen, found, thrown>>
  BY DEF DoStep
<1>2. /\ s \in Steps /\ s = todo[1] /\ todo' \in Seq(Steps)
      /\ Len(todo) \in Nat \ {0} /\ DOMAIN todo = 1..Len(todo)
      /\ DOMAIN todo' = 1..(Len(todo) - 1)
      /\ \A i \in 1..(Len(todo) - 1) : todo'[i] = todo[i + 1]
      /\ Tail(todo) = << >> <=> Len(todo) = 1
  BY <1>1, NextStep
<1>3. /\ s.name \in StepNames /\ s.value \in ValuesOf(s.name)
  BY <1>2 DEF Steps
<1>4. device' \in Termios
  BY <1>1, <1>2, EffectType DEF PortInv, PortTypeOK
<1>5. PortTypeOK'
  <2>1. mByteArrivalTimeDelta' \in Nat
    BY <1>1, <1>3, ByteTimeType DEF PortInv, PortTypeOK, ValuesOf
  <2>2. \A i \in DOMAIN todo' : todo'[i].name \in StepNames
                               /\ todo'[i].value \in ValuesOf(todo'[i].name)
    <3>1. \A i \in 1..(Len(todo) - 1) : i + 1 \in 1..Len(todo)
      BY <1>2
    <3>2. \A i \in 1..Len(todo) : todo[i].name \in StepNames
                                /\ todo[i].value \in ValuesOf(todo[i].name)
      BY <1>2 DEF PortInv, PortTypeOK
    <3> QED
      BY <1>2, <3>1, <3>2
  <2>3. (call' = "none") = (todo' = << >>)
    BY <1>1 DEF PortInv, PortTypeOK, Idle
  <2> QED
    BY <1>1, <1>4, <2>1, <2>2, <2>3 DEF PortInv, PortTypeOK
<1>6. CallPart'
  <2>1. ModesFirst(todo')
    <3> SUFFICES ASSUME NEW i \in 1..(Len(todo) - 1), todo'[i].name \in ModeNames,
                        NEW name \in AttributeNames
                 PROVE  \E j \in 1..(Len(todo) - 1) : i < j /\ todo'[j].name = name
      BY <1>2, SMTT(30) DEF ModesFirst
    <3>1. i + 1 \in 1..Len(todo) /\ todo[i + 1].name \in ModeNames
      BY <1>2
    <3>2. PICK j \in 1..Len(todo) : i + 1 < j /\ todo[j].name = name
      BY <1>2, <3>1 DEF PortInv, CallPart, ModesFirst
    <3>3. j - 1 \in 1..(Len(todo) - 1) /\ i < j - 1 /\ (j - 1) + 1 = j
      BY <1>2, <3>2
    <3> QED
      BY <1>2, <3>2, <3>3
  <2>2. call' # "set"
    BY <1>1, <1>2 DEF PortInv, CallPart
  <2>3. known' => call' \in {"none", "set"}
    BY <1>1, <1>2 DEF PortInv, CallPart
  <2>4. isOpen
    BY <1>1 DEF PortInv, CallPart, Idle
  <2> QED
    BY <1>1, <1>2, <2>1, <2>2, <2>3, <2>4 DEF CallPart
<1>7. SettledPart'
  <2>1. asked' = [name \in AttributeNames |-> asked'[name]]
    BY <1>1 DEF PortInv, SettledPart
  <2>2. ASSUME NEW name \in AttributeNames, Settled(name)'
        PROVE  Attributes(device')[name] = asked'[name]
    <3>1. s.name \notin ModeNames /\ (s.name = name \/ Settled(name))
      BY <2>2, SettledAfter
    <3>2. Attributes(device')[name] =
              IF name = s.name THEN s.value ELSE Attributes(device)[name]
      BY <1>1, <1>2, <3>1, EffectKeeps DEF PortInv, PortTypeOK
    <3>3. asked'[name] = IF name = s.name THEN s.value ELSE asked[name]
      BY <1>1 DEF PortInv, SettledPart
    <3> QED
      BY <3>1, <3>2, <3>3 DEF PortInv, SettledPart
  <2>3. ASSUME Settled("baudRate")'
        PROVE  mByteArrivalTimeDelta' = ByteTime(asked'.baudRate)
    <3>1. s.name = "baudRate" \/ Settled("baudRate")
      BY <2>3, SettledAfter DEF AttributeNames
    <3>2. asked'.baudRate = IF s.name = "baudRate" THEN s.value ELSE asked.baudRate
      BY <1>1 DEF PortInv, SettledPart, AttributeNames
    <3> QED
      BY <1>1, <3>1, <3>2 DEF PortInv, SettledPart
  <2>4. ASSUME Settled("characterSize")'
        PROVE  "ISTRIP" \in device'.iflag <=> device'.csize # "CS8"
    <3>1. s.name \notin ModeNames /\ (s.name = "characterSize" \/ Settled("characterSize"))
      BY <2>4, SettledAfter DEF AttributeNames
    <3> QED
      BY <1>1, <1>2, <3>1, EffectKeeps DEF PortInv, PortTypeOK, SettledPart
  <2>5. ASSUME NEW name \in ModeNames, Settled(name)'
        PROVE  ModeHolds(name, device')
    <3>1. s.name = name \/ Settled(name)
      BY <2>5, SettledAfter
    <3> QED
      BY <1>1, <1>2, <3>1, EffectKeeps DEF PortInv, PortTypeOK, SettledPart
  <2>6. asked'.flowControl \in FlowControl
    BY <1>1, <1>3 DEF PortInv, SettledPart, ValuesOf, AttributeNames
  <2> QED
    BY <2>1, <2>2, <2>3, <2>4, <2>5, <2>6 DEF SettledPart
<1> QED
  BY <1>5, <1>6, <1>7 DEF PortInv
-----------------------------------------------------------------------------
(* The calls, and the invariant.                                           *)

LEMMA StepsTyped ==
    ASSUME NEW steps \in Seq(Steps)
    PROVE  \A i \in DOMAIN steps : steps[i].name \in StepNames
                                  /\ steps[i].value \in ValuesOf(steps[i].name)
<1>1. \A i \in DOMAIN steps : steps[i] \in Steps
  BY LenProperties, ElementOfSeq
<1> QED
  BY <1>1 DEF Steps

LEMMA InitPortInv == Init => PortInv
<1> SUFFICES ASSUME Init PROVE PortInv
  OBVIOUS
<1>1. device \in Termios /\ todo = << >> /\ call = "none" /\ ~known
  BY SerialPortAssumption DEF Init
<1>2. PortTypeOK
  <2>1. ZeroTermios \in Termios
    BY DEF ZeroTermios, Termios, CharacterSize, Byte
  <2>2. \A i \in DOMAIN todo : todo[i].name \in StepNames
                              /\ todo[i].value \in ValuesOf(todo[i].name)
    BY <1>1, EmptySeq, StepsTyped
  <2>3. (call = "none") = (todo = << >>)
    BY <1>1
  <2> QED
    BY <1>1, <2>1, <2>2, <2>3 DEF Init, PortTypeOK
<1>3. CallPart
  BY <1>1, EmptySeq DEF Init, CallPart, ModesFirst
<1>4. asked = [name \in AttributeNames |-> asked[name]]
  BY DEF Init, Attributes, AttributeNames
<1>5. asked.flowControl \in FlowControl
  BY DEF Init, Attributes, GetFlowControl, ZeroTermios, FlowControl
<1> QED
  BY <1>1, <1>2, <1>3, <1>4, <1>5 DEF PortInv, SettledPart, Settled

\* A series that is complete leaves everything to be done.
LEMMA CompleteLeaves ==
    ASSUME Complete(todo)
    PROVE  \A name \in AttributeNames \cup ModeNames : Left(name)
BY DEF Complete, Left

\* What the port is like says nothing of the last exception.
LEMMA ThrownOnly ==
    ASSUME PortInv, UNCHANGED <<port, settings, call, todo, known>>,
           thrown' \in {"none", "NotOpen", "AlreadyOpen", "OpenFailed", "runtime_error",
                       "invalid_argument"}
    PROVE  PortInv'
BY DEF port, settings, PortInv, PortTypeOK, CallPart, SettledPart, Settled, Left, ModesFirst

LEMMA OpensKeeps ==
    ASSUME PortInv, NEW steps, Complete(steps), Opens(steps)
    PROVE  PortInv'
<1>1. CASE UNCHANGED <<isOpen, found, call, todo>>
  <2>1. /\ UNCHANGED <<port, settings, call, todo, known>>
        /\ thrown' \in {"none", "OpenFailed"}
    BY <1>1 DEF Opens, port, settings, PortInv, PortTypeOK
  <2> QED
    BY <2>1, ThrownOnly
<1>2. CASE isOpen' = TRUE /\ found' = device /\ call' = "open" /\ todo' = steps /\ thrown' = "none"
  <2>1. ~known /\ UNCHANGED <<mOldPortSettings, settings, known>>
    BY DEF Opens, PortInv, CallPart
  <2>2. steps \in Seq(Steps) /\ steps # << >> /\ ModesFirst(steps)
    BY DEF Complete
  <2>3. PortTypeOK'
    BY <1>2, <2>1, <2>2, StepsTyped DEF settings, PortInv, PortTypeOK
  <2>4. CallPart'
    BY <1>2, <2>1, <2>2 DEF CallPart
  <2>5. \A name \in AttributeNames \cup ModeNames : ~Settled(name)'
    BY <1>2, <2>1, CompleteLeaves DEF Settled, Left, Complete
  <2>6. SettledPart'
    BY <2>1, <2>5 DEF settings, PortInv, SettledPart, AttributeNames
  <2> QED
    BY <2>3, <2>4, <2>6 DEF PortInv
<1> QED
  BY <1>1, <1>2 DEF Opens

\* A setter is a series of one step.
LEMMA SetAttributeKeeps ==
    ASSUME PortInv, NEW name \in AttributeNames, NEW value \in ValuesOf(name),
           SetAttribute(name, value)
    PROVE  PortInv'
<1> DEFINE s == Step(name, value)
<1>1. /\ isOpen /\ call = "none" /\ call' = "set" /\ todo' = << s >> /\ thrown' = "none"
      /\ UNCHANGED <<port, settings, known>>
  BY DEF SetAttribute, Begin, Idle
<1>2. s \in Steps /\ s.name = name
  BY DEF Steps, Step, StepNames
<1> HIDE DEF s
<1>3. /\ << s >> \in Seq(Steps) /\ << s >> # << >> /\ DOMAIN << s >> = {1} /\ << s >>[1] = s
      /\ Len(<< s >>) = 1
  BY <1>2
<1>4. PortTypeOK'
  BY <1>1, <1>3, StepsTyped DEF port, settings, PortInv, PortTypeOK
<1>5. CallPart'
  BY <1>1, <1>2, <1>3 DEF port, PortInv, CallPart, ModesFirst, AttributeNames, ModeNames
<1>6. \A n \in AttributeNames \cup ModeNames : Settled(n)' => Settled(n)
  BY <1>1 DEF Settled
<1>7. SettledPart'
  BY <1>1, <1>6 DEF settings, PortInv, SettledPart, AttributeNames
<1> QED
  BY <1>4, <1>5, <1>7 DEF PortInv

LEMMA SetDefaultsKeeps ==
    ASSUME PortInv, SetDefaultSerialPortParameters
    PROVE  PortInv'
<1>1. /\ isOpen /\ call = "none" /\ call' = "default" /\ todo' = DefaultSteps
      /\ thrown' = "none" /\ known' = FALSE
      /\ UNCHANGED <<port, settings>>
  BY DEF SetDefaultSerialPortParameters, Begin, Idle
<1>2. DefaultSteps \in Seq(Steps) /\ DefaultSteps # << >> /\ ModesFirst(DefaultSteps)
  BY DefaultsComplete DEF Complete
<1>3. PortTypeOK'
  BY <1>1, <1>2, StepsTyped DEF port, settings, PortInv, PortTypeOK
<1>4. CallPart'
  BY <1>1, <1>2 DEF port, CallPart
<1>5. \A name \in AttributeNames \cup ModeNames : ~Settled(name)'
  BY <1>1, DefaultsComplete, CompleteLeaves DEF Settled, Left, Complete
<1>6. SettledPart'
  BY <1>1, <1>5 DEF settings, PortInv, SettledPart, AttributeNames
<1> QED
  BY <1>3, <1>4, <1>6 DEF PortInv

\* The type and place of a port that is closed, or whose call has ended.
LEMMA NoCallKeeps ==
    ASSUME PortInv, call' = "none", todo' = << >>, PortTypeOK',
           UNCHANGED <<asked, mByteArrivalTimeDelta>>,
           ~known' \/ (UNCHANGED <<isOpen, known, device>>)
    PROVE  PortInv'
<1>1. CallPart'
  BY EmptySeq DEF PortInv, CallPart, ModesFirst
<1>2. SettledPart'
  BY DEF PortInv, SettledPart, Settled
<1> QED
  BY <1>1, <1>2 DEF PortInv

LEMMA StepFailsKeeps ==
    ASSUME PortInv, StepFails
    PROVE  PortInv'
<1>1. /\ ~Idle /\ call' = "none" /\ todo' = << >> /\ UNCHANGED <<port, settings, known>>
      /\ thrown' \in Throws(Head(todo))
  BY DEF StepFails
<1>2. thrown' \in {"OpenFailed", "runtime_error"}
  BY <1>1 DEF Throws
<1>3. \A i \in DOMAIN todo' : todo'[i].name \in StepNames
                             /\ todo'[i].value \in ValuesOf(todo'[i].name)
  BY <1>1, EmptySeq, StepsTyped
<1>4. PortTypeOK'
  BY <1>1, <1>2, <1>3 DEF port, settings, PortInv, PortTypeOK
<1> QED
  BY <1>1, <1>4, NoCallKeeps DEF port, settings

LEMMA ClosingKeeps ==
    ASSUME PortInv, Close \/ CloseFails \/ OtherProgram
    PROVE  PortInv'
<1>1. call = "none" /\ todo = << >> /\ UNCHANGED <<call, todo, mByteArrivalTimeDelta, asked>>
  BY DEF Close, CloseFails, OtherProgram, Idle, PortInv, PortTypeOK, CallPart
<1>2. device' \in Termios /\ UNCHANGED <<mOldPortSettings, found>>
  BY SerialPortAssumption DEF Close, CloseFails, OtherProgram, port, PortInv, PortTypeOK
<1>3. /\ isOpen' \in BOOLEAN /\ known' \in BOOLEAN
      /\ thrown' \in {"none", "NotOpen", "AlreadyOpen", "OpenFailed", "runtime_error",
                      "invalid_argument"}
  BY DEF Close, CloseFails, OtherProgram, port, PortInv, PortTypeOK
<1>4. ~known' \/ UNCHANGED <<isOpen, known, device>>
  BY DEF Close, CloseFails, OtherProgram, port, PortInv, CallPart
<1>5. PortTypeOK'
  BY <1>1, <1>2, <1>3 DEF PortInv, PortTypeOK
<1> QED
  BY <1>1, <1>4, <1>5, NoCallKeeps

\* Every step of the port keeps the invariant.
LEMMA NextPortInv ==
    ASSUME PortInv, [Next]_vars
    PROVE  PortInv'
<1>1. CASE Open \/ Setup
  BY <1>1, OpensKeeps, OpenComplete, SetupComplete DEF Open, Setup
<1>2. CASE OpenTwice \/ CallOnClosed
  BY <1>2, ThrownOnly DEF OpenTwice, CallOnClosed
<1>3. CASE SetDefaultSerialPortParameters
  BY <1>3, SetDefaultsKeeps
<1>4. CASE \E rate \in BaudRates : SetAttribute("baudRate", rate)
  BY <1>4, SetAttributeKeeps, SerialPortAssumption DEF ValuesOf, AttributeNames
<1>5. CASE \E size \in Sizes : SetAttribute("characterSize", size)
  BY <1>5, SetAttributeKeeps, SerialPortAssumption DEF ValuesOf, AttributeNames
<1>6. CASE \E flow \in FlowControl : SetAttribute("flowControl", flow)
  BY <1>6, SetAttributeKeeps DEF ValuesOf, AttributeNames
<1>7. CASE \E parity \in Parity : SetAttribute("parity", parity)
  BY <1>7, SetAttributeKeeps DEF ValuesOf, AttributeNames
<1>8. CASE \E bits \in StopBits : SetAttribute("stopBits", bits)
  BY <1>8, SetAttributeKeeps DEF ValuesOf, AttributeNames
<1>9. ASSUME NEW n \in Shorts, NEW name \in {"vmin", "vtime"}, SetCharacter(name, n)
      PROVE  PortInv'
  <2>1. CASE n \in Byte
    BY <1>9, <2>1, SetAttributeKeeps DEF SetCharacter, ValuesOf, AttributeNames
  <2>2. CASE n \notin Byte
    BY <1>9, <2>2, ThrownOnly DEF SetCharacter
  <2> QED
    BY <2>1, <2>2
<1>10. CASE DoStep
  BY <1>10, DoStepKeeps
<1>11. CASE StepFails
  BY <1>11, StepFailsKeeps
<1>12. CASE Close \/ CloseFails \/ OtherProgram
  BY <1>12, ClosingKeeps
<1>13. CASE UNCHANGED vars
  <2>1. /\ UNCHANGED <<port, settings, call, todo, known>>
        /\ thrown' \in {"none", "NotOpen", "AlreadyOpen", "OpenFailed", "runtime_error",
                        "invalid_argument"}
    BY <1>13 DEF vars, PortInv, PortTypeOK
  <2> QED
    BY <2>1, ThrownOnly
<1> QED
  BY <1>1, <1>2, <1>3, <1>4, <1>5, <1>6, <1>7, <1>8, <1>9, <1>10, <1>11, <1>12, <1>13 DEF Next

\* For every device, every series of calls of Open, Close and the setters, and
\* every failing step: the invariant of SerialPort's calls is kept.
THEOREM PortSafety == Spec => []PortInv
<1>1. PortInv /\ [Next]_vars => PortInv'
  BY NextPortInv
<1> QED
  BY InitPortInv, <1>1, PTL DEF Spec

\* The variables of SerialPort keep their types.
THEOREM PortTypes == Spec => []PortTypeOK
<1>1. PortInv => PortTypeOK
  BY DEF PortInv
<1> QED
  BY <1>1, PortSafety, PTL

\* The getters of a port that was set up return what the setters were given
\* last, whichever calls failed since.
THEOREM GettersReturnWhatWasSet == Spec => []AttributesKept
<1>1. PortInv => AttributesKept
  <2> SUFFICES ASSUME PortInv, known PROVE /\ Attributes(device) = asked
                                           /\ mByteArrivalTimeDelta = ByteTime(asked.baudRate)
    BY DEF AttributesKept
  <2>1. \A name \in AttributeNames : Attributes(device)[name] = asked[name]
    BY DEF PortInv, SettledPart, Settled
  <2>2. Attributes(device) = [name \in AttributeNames |-> Attributes(device)[name]]
    BY DEF Attributes, AttributeNames
  <2>3. asked = [name \in AttributeNames |-> asked[name]]
    BY DEF PortInv, SettledPart
  <2>4. mByteArrivalTimeDelta = ByteTime(asked.baudRate)
    BY DEF PortInv, SettledPart, Settled
  <2> QED
    BY <2>1, <2>2, <2>3, <2>4
<1> QED
  BY <1>1, PortSafety, PTL

\* Eight bits and no software flow control: every byte passes unchanged, as the
\* client's frames need, whatever the device was like and was set to before.
THEOREM BytesPass == Spec => []EightBitsPass
<1>1. PortInv => EightBitsPass
  <2> SUFFICES ASSUME PortInv, known, asked.characterSize = "CS8",
                      asked.flowControl # "software"
               PROVE  /\ device.iflag \cap {"ISTRIP", "IXON", "IXOFF", "ICRNL"} = {}
                      /\ device.oflag = {} /\ device.lflag = {}
                      /\ "CREAD" \in device.cflag /\ device.line = "N_TTY"
    BY DEF EightBitsPass
  <2>1. /\ Attributes(device)["characterSize"] = "CS8"
        /\ Attributes(device)["flowControl"] # "software"
        /\ Attributes(device)["flowControl"] = asked["flowControl"]
    BY DEF PortInv, SettledPart, Settled, AttributeNames
  <2>2. device.csize = "CS8" /\ "ISTRIP" \notin device.iflag
    BY <2>1 DEF PortInv, SettledPart, Settled, Attributes
  <2>3. {"IXON", "IXOFF"} \cap device.iflag = {}
    BY <2>1 DEF PortInv, SettledPart, Attributes, GetFlowControl, FlowControl
  <2>4. \A name \in ModeNames : ModeHolds(name, device)
    BY DEF PortInv, SettledPart, Settled
  <2>5. /\ "ICRNL" \notin device.iflag /\ device.oflag = {} /\ device.lflag = {}
        /\ "CREAD" \in device.cflag /\ device.line = "N_TTY"
    BY <2>4 DEF ModeNames, ModeHolds
  <2> QED
    BY <2>2, <2>3, <2>5
<1> QED
  BY <1>1, PortSafety, PTL
-----------------------------------------------------------------------------
(* Restoring the settings.                                                 *)

LEMMA DoStepSaves ==
    ASSUME PortInv, SavePart, DoStep
    PROVE  SavePart'
<1> DEFINE s == Head(todo)
<1>1. /\ ~Idle /\ todo' = Tail(todo) /\ device' = Effect(device, s)
      /\ mOldPortSettings' = IF s.name = "save" THEN device ELSE mOldPortSettings
      /\ UNCHANGED <<isOpen, found>>
  BY DEF DoStep
<1>2. /\ s = todo[1] /\ Len(todo) \in Nat \ {0} /\ DOMAIN todo = 1..Len(todo)
      /\ DOMAIN todo' = 1..(Len(todo) - 1)
      /\ \A i \in 1..(Len(todo) - 1) : todo'[i] = todo[i + 1]
  BY <1>1, NextStep
<1>3. SavedFirst(todo')
  <2> SUFFICES ASSUME NEW i \in 1..(Len(todo) - 1), todo'[i].name = "save",
                      NEW j \in 1..(Len(todo) - 1), j < i
               PROVE  todo'[j].name = "exclusive"
    BY <1>2 DEF SavedFirst
  <2>1. i + 1 \in 1..Len(todo) /\ j + 1 \in 1..Len(todo) /\ j + 1 < i + 1
    BY <1>2
  <2> QED
    BY <1>2, <2>1 DEF SavePart, SavedFirst
<1>4. CASE Left("save")
  <2>1. s.name \in {"exclusive", "save"}
    <3>1. PICK i \in 1..Len(todo) : todo[i].name = "save"
      BY <1>2, <1>4 DEF Left
    <3>2. i = 1 \/ 1 < i
      BY <1>2
    <3> QED
      BY <1>2, <3>1, <3>2 DEF SavePart, SavedFirst
  <2>2. device' = device
    BY <1>1, <2>1 DEF Effect
  <2>3. s.name = "save" \/ Left("save")'
    BY <1>4, LeftAfter
  <2> QED
    BY <1>1, <1>3, <1>4, <2>2, <2>3 DEF SavePart
<1>5. CASE ~Left("save")
  <2>1. s.name # "save" /\ ~Left("save")'
    BY <1>5, LeftAfter
  <2> QED
    BY <1>1, <1>3, <1>5, <2>1 DEF SavePart
<1> QED
  BY <1>4, <1>5

\* A step that can fail comes after the settings were saved.
LEMMA StepFailsSaves ==
    ASSUME {"exclusive", "save"} \cap MayFail = {}, PortInv, SavePart, StepFails
    PROVE  SavePart'
<1>1. /\ ~Idle /\ Head(todo).name \in MayFail /\ todo' = << >> /\ UNCHANGED <<port, device>>
  BY DEF StepFails, settings
<1>2. Head(todo) = todo[1] /\ Len(todo) \in Nat \ {0} /\ DOMAIN todo = 1..Len(todo)
  BY <1>1, NextStep
<1>3. ~Left("save")
  <2> SUFFICES ASSUME NEW i \in 1..Len(todo), todo[i].name = "save" PROVE FALSE
    BY <1>2 DEF Left
  <2>1. i = 1 \/ 1 < i
    BY <1>2
  <2> QED
    BY <1>1, <1>2, <2>1 DEF SavePart, SavedFirst
<1>4. ~Left("save")' /\ SavedFirst(todo')
  BY <1>1, EmptySeq DEF Left, SavedFirst
<1> QED
  BY <1>1, <1>3, <1>4 DEF SavePart, port

\* A call without a step that saves begins with the settings saved.
LEMMA BeginSaves ==
    ASSUME PortInv, SavePart, Idle, UNCHANGED <<isOpen, mOldPortSettings, found>>,
           \A i \in DOMAIN todo' : todo'[i].name # "save"
    PROVE  SavePart'
<1>1. todo = << >>
  BY DEF PortInv, PortTypeOK, Idle
<1>2. ~Left("save")
  BY <1>1, EmptySeq DEF Left
<1> QED
  BY <1>2 DEF SavePart, SavedFirst, Left

LEMMA OpensSaves ==
    ASSUME PortInv, SavePart, NEW steps, SavedFirst(steps), Opens(steps),
           \E i \in DOMAIN steps : steps[i].name = "save"
    PROVE  SavePart'
<1>1. CASE UNCHANGED <<isOpen, found, call, todo>>
  BY <1>1 DEF Opens, SavePart, SavedFirst
<1>2. CASE isOpen' = TRUE /\ found' = device /\ call' = "open" /\ todo' = steps /\ thrown' = "none"
  <2>1. Left("save")' /\ device' = found' /\ SavedFirst(todo')
    BY <1>2 DEF Left, Opens, settings
  <2> QED
    BY <2>1 DEF SavePart
<1> QED
  BY <1>1, <1>2 DEF Opens

LEMMA NextSavePart ==
    ASSUME {"exclusive", "save"} \cap MayFail = {}, PortInv, SavePart, [Next]_vars
    PROVE  SavePart'
<1>1. CASE Open \/ Setup
  <2>1. \E i \in DOMAIN OpenSteps : OpenSteps[i].name = "save"
    BY OpenComplete, LenProperties DEF Complete
  <2> QED
    BY <1>1, <2>1, OpensSaves, OpenComplete, SetupComplete DEF Open, Setup
<1>2. ASSUME UNCHANGED <<port, device, todo>>
      PROVE  SavePart'
  BY <1>2 DEF port, SavePart, SavedFirst, Left
<1>3. CASE OpenTwice \/ CallOnClosed \/ UNCHANGED vars
  BY <1>2, <1>3 DEF OpenTwice, CallOnClosed, vars, settings
<1>4. CASE SetDefaultSerialPortParameters
  BY <1>4, BeginSaves, DefaultsComplete DEF SetDefaultSerialPortParameters, Begin, port
<1>5. ASSUME NEW name \in AttributeNames, NEW value, SetAttribute(name, value)
      PROVE  SavePart'
  <2>1. todo' = << Step(name, value) >> /\ Idle /\ UNCHANGED port
    BY <1>5 DEF SetAttribute, Begin
  <2>2. Step(name, value).name # "save"
    BY DEF Step, AttributeNames
  <2>3. \A i \in DOMAIN todo' : todo'[i] = Step(name, value)
    BY <2>1
  <2> QED
    BY <2>1, <2>2, <2>3, BeginSaves DEF port
<1>6. ASSUME NEW n \in Shorts, NEW name \in {"vmin", "vtime"}, SetCharacter(name, n)
      PROVE  SavePart'
  BY <1>2, <1>5, <1>6 DEF SetCharacter, settings, AttributeNames
<1>7. CASE DoStep
  BY <1>7, DoStepSaves
<1>8. CASE StepFails
  BY <1>8, StepFailsSaves
<1>9. CASE Close
  BY <1>9 DEF Close, SavePart, SavedFirst
<1>10. CASE CloseFails
  <2>1. todo' = todo /\ Idle /\ UNCHANGED port
    BY <1>10 DEF CloseFails
  <2>2. \A i \in DOMAIN todo' : todo'[i].name # "save"
    BY <2>1, EmptySeq DEF PortInv, PortTypeOK, Idle
  <2> QED
    BY <2>1, <2>2, BeginSaves DEF port
<1>11. CASE OtherProgram
  BY <1>11 DEF OtherProgram, port, SavePart, SavedFirst
<1> QED
  BY <1>1, <1>3, <1>4, <1>5, <1>6, <1>7, <1>8, <1>9, <1>10, <1>11 DEF Next, AttributeNames

\* If the settings can be read when the port is opened, closing it restores
\* them, whatever was set or failed between (SerialPort::Close).
THEOREM ClosingRestores ==
    ASSUME {"exclusive", "save"} \cap MayFail = {}
    PROVE  Spec => CloseRestores
<1>1. Init => SavePart
  BY EmptySeq DEF Init, SavePart, SavedFirst
<1>2. PortInv /\ SavePart /\ [Next]_vars => SavePart'
  BY NextSavePart
<1>3. Spec => []SavePart
  BY <1>1, <1>2, PortSafety, PTL DEF Spec
<1>4. PortInv /\ SavePart /\ [Next]_vars => [isOpen /\ ~isOpen' => device' = found]_vars
  <2> SUFFICES ASSUME PortInv, SavePart, Next, isOpen, ~isOpen'
               PROVE  device' = found
    OBVIOUS
  <2>1. Close
    BY DEF Next, Open, Setup, Opens, OpenTwice, CallOnClosed, SetDefaultSerialPortParameters,
        SetAttribute, SetCharacter, Begin, DoStep, StepFails, CloseFails, OtherProgram, port
  <2>2. todo = << >> /\ device' = mOldPortSettings
    BY <2>1 DEF Close, Idle, PortInv, PortTypeOK
  <2>3. ~Left("save")
    BY <2>2, EmptySeq DEF Left
  <2> QED
    BY <2>2, <2>3 DEF SavePart
<1> QED
  BY <1>3, <1>4, PortSafety, PTL DEF Spec, CloseRestores
=============================================================================
