\* Two connections sharing the circuit: can a stream lose a DATA cell?
CONSTANTS
    NStreams = 2
    CircWindow = 4
    CircSendMe = 2
    StreamWindow = 2
    StreamSendMe = 2
    ExitData = 1
    ClientData = 0
SPECIFICATION Spec
PROPERTY DeliveryRefined
CHECK_DEADLOCK FALSE
