\* One edit to a signature in transit.
CONSTANTS
    SigLen <- MCSigLen
    SigBytes <- MCSigBytes
    TamperBytes <- MCTamperBytes
    TamperChars <- MCTamperChars
    MaxTamper = 1
SPECIFICATION Spec
INVARIANT SignatureDecodeNeverPanics
