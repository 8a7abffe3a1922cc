CHECK_DEADLOCK FALSE
SPECIFICATION StreamSpec
CONSTANTS
    MaxPackets = 2
    DataLengths = {1, 14}
INVARIANT AllDelivered
