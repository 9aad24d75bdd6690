\* Signatures in both formats, up to two edits: an unaltered one round-trips.
CONSTANTS
    SigLen <- MCSigLen
    SigBytes <- MCSigBytes
    TamperBytes <- MCTamperBytes
    TamperChars <- MCTamperChars
    MaxTamper = 2
SPECIFICATION Spec
INVARIANT TypeOK
INVARIANT SignatureRoundTrip
