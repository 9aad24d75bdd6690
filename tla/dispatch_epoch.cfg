\* Unaltered epoch accumulators go through the trial decoder.
CONSTANTS
    HeaderMax <- MCHeaderMax
    ReceiptMax <- MCReceiptMax
    ReceiptListMax <- MCReceiptListMax
    TxMax <- MCTxMax
    TxListMax <- MCTxListMax
    UnclesMax <- MCUnclesMax
    EpochMax <- MCEpochMax
    ProofLen <- MCProofLen
    HashLen <- MCHashLen
    U256Len <- MCU256Len
    FieldValues <- MCSmallFields
    HashBytes <- MCHashBytes
    TdValues <- MCTdValues
    TamperChars <- MCTamperChars
    SentVariants = {"EpochAccumulator"}
    MaxItems = 2
    MaxTamper = 0
SPECIFICATION Spec
INVARIANT DispatcherStability
