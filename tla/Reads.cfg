\* All packets are sent and read, or the reader has ended with a decoding error.
CHECK_DEADLOCK FALSE
SPECIFICATION StreamSpec
CONSTANTS
    MaxPackets = 2
    DataLengths = {1, 14}
INVARIANTS
    Intact
    WholeReadsDeliver
