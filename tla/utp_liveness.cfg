\* One receive and one send, a talk request of another known protocol,
\* one uTP failure, weak fairness of every task: a set-up transfer
\* completes unless its connect timed out or its receive task failed.
CONSTANTS
    a1 = a1
    a2 = a2
    p1 = p1
    p2 = p2
    Apps <- MCApps
    Cids <- MCCids
    Payloads <- MCPayloads
    NoiseProtocols = {"history"}
    MaxRecv = 1
    MaxSend = 1
    MaxNoise = 1
    MaxTimeouts = 1
SPECIFICATION Spec
PROPERTY TransferCompletes
CHECK_DEADLOCK FALSE
