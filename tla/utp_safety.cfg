\* Two apps, two receives and one send in all, one peer talk request of
\* another protocol, one uTP failure: the store refines PayloadStore, so
\* with two receive tasks waiting, one write is stored at most once.
CONSTANTS
    a1 = a1
    a2 = a2
    p1 = p1
    p2 = p2
    Apps <- MCApps
    Cids <- MCCids
    Payloads <- MCPayloads
    NoiseProtocols = {"history", "unknown"}
    MaxRecv = 2
    MaxSend = 1
    MaxNoise = 1
    MaxTimeouts = 1
SPECIFICATION Spec
SYMMETRY MCSymmetry
INVARIANT TypeOK
PROPERTY PayloadStoreRefined
CHECK_DEADLOCK FALSE
