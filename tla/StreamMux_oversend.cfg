\* One connection; the client writes one cell more than the stream window
\* while the exit sends it data.
CONSTANTS
    NStreams = 1
    CircWindow = 4
    CircSendMe = 2
    StreamWindow = 2
    StreamSendMe = 1
    ExitData = 2
    ClientData = 3
SPECIFICATION Spec
INVARIANT ClientRespectsWindows
CHECK_DEADLOCK FALSE
