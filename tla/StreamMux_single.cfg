\* One SOCKS connection on the circuit, data both ways.  Circuit SENDMEs
\* every 2 and stream SENDMEs every 3 DATA cells, so that each of
\* handleDataReceived's paths (none, circuit, stream, both) is taken.
CONSTANTS
    NStreams = 1
    CircWindow = 4
    CircSendMe = 2
    StreamWindow = 3
    StreamSendMe = 3
    ExitData = 4
    ClientData = 4
SPECIFICATION Spec

INVARIANT TypeOK
INVARIANT SendmeDigestValid
PROPERTY DeliveryRefined
CHECK_DEADLOCK FALSE
