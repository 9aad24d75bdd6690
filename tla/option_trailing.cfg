\* A header-with-proof string edited once, decoded as a header-with-proof.
CONSTANTS
    HeaderMax <- MCHeaderMax
    ReceiptMax <- MCReceiptMax
    ReceiptListMax <- MCReceiptListMax
    TxMax <- MCTxMax
    TxListMax <- MCTxListMax
    UnclesMax <- MCUnclesMax
    EpochMax <- MCEpochMax
    ProofLen <- MCProofLen
    HashLen <- MCHashLen
    U256Len <- MCU256Len
    FieldValues <- MCSmallFields
    HashBytes <- MCHashBytes
    TdValues <- MCTdValues
    TamperChars <- MCTamperChars
    SentVariants = {"BlockHeaderWithProof"}
    MaxItems = 1
    MaxTamper = 1
SPECIFICATION Spec
INVARIANT HeaderWithProofCanonical
