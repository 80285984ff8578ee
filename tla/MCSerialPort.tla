---------------------------- MODULE MCSerialPort ----------------------------
(***************************************************************************)
(* Devices and arguments to check SerialPort with.                          *)
(***************************************************************************)
EXTENDS SerialPort

\* A terminal as the kernel makes it, and one left with seven bits, even
\* parity, two stop bits and odd flow control characters.
Cooked ==
    [iflag |-> {"ICRNL", "IXON"}, oflag |-> {"OPOST"}, lflag |-> {"ICANON"},
     cflag |-> {"CREAD"}, csize |-> "CS8", speed |-> "BAUD_9600",
     vmin |-> 1, vtime |-> 0, line |-> "N_TTY",
     startstop |-> "^Q^S"]
SevenBits ==
    [iflag |-> {"ISTRIP", "INPCK", "IXOFF"}, oflag |-> {}, lflag |-> {},
     cflag |-> {"CREAD", "PARENB", "PARODD", "CSTOPB", "CRTSCTS"},
     csize |-> "CS7", speed |-> "BAUD_9600", vmin |-> 0, vtime |-> 255,
     line |-> "other",
     startstop |-> "other"]
MCDevices == {Cooked, SevenBits}

\* Arguments inside and outside the range of a byte.
MCShorts == {-1, 0, 256}
=============================================================================
