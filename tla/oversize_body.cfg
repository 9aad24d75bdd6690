\* Block bodies with one transaction more than the list bound.
CONSTANTS
    HeaderMax <- MCHeaderMax
    ReceiptMax <- MCReceiptMax
    ReceiptListMax <- MCReceiptListMax
    TxMax <- MCTxMax
    TxListMax <- MCTxListMax
    UnclesMax <- MCUnclesMax
    EpochMax <- MCEpochMax
    ProofLen <- MCProofLen
    HashLen <- MCHashLen
    U256Len <- MCU256Len
    FieldValues <- MCSmallFields
    HashBytes <- MCHashBytes
    TdValues <- MCTdValues
    TamperChars <- MCTamperChars
    SentVariants = {"BlockBody"}
    MaxItems = 3
    MaxTamper = 0
SPECIFICATION Spec
INVARIANT ValueRoundTrip
