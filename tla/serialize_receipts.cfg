\* Serializing receipts into the empty Vec of Serialize.
CONSTANTS
    HeaderMax <- MCHeaderMax
    ReceiptMax <- MCReceiptMax
    ReceiptListMax <- MCReceiptListMax
    TxMax <- MCTxMax
    TxListMax <- MCTxListMax
    UnclesMax <- MCUnclesMax
    EpochMax <- MCEpochMax
    ProofLen <- MCProofLen
    HashLen <- MCHashLen
    U256Len <- MCU256Len
    FieldValues <- MCSmallFields
    HashBytes <- MCHashBytes
    TdValues <- MCTdValues
    TamperChars <- MCTamperChars
    SentVariants = {"Receipts"}
    MaxItems = 1
    MaxTamper = 0
SPECIFICATION Spec
INVARIANT SerializeNeverPanics
