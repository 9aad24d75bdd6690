\* As utp_liveness, but the peer talk request carries a protocol id
\* ProtocolId::from_str rejects: the forwarder dies and transfers stall.
CONSTANTS
    a1 = a1
    a2 = a2
    p1 = p1
    p2 = p2
    Apps <- MCApps
    Cids <- MCCids
    Payloads <- MCPayloads
    NoiseProtocols = {"unknown"}
    MaxRecv = 1
    MaxSend = 1
    MaxNoise = 1
    MaxTimeouts = 0
SPECIFICATION Spec
PROPERTY TransferCompletes
CHECK_DEADLOCK FALSE
