\* Headers-with-proof, epoch accumulators and receipts under up to two edits;
\* before any edit, what was serialized decodes back to the value (receipts
\* abort in serialization).
CONSTANTS
    HeaderMax <- MCHeaderMax
    ReceiptMax <- MCReceiptMax
    ReceiptListMax <- MCReceiptListMax
    TxMax <- MCTxMax
    TxListMax <- MCTxListMax
    UnclesMax <- MCUnclesMax
    EpochMax <- MCEpochMax
    ProofLen <- MCProofLen
    HashLen <- MCHashLen
    U256Len <- MCU256Len
    FieldValues <- MCSmallFields
    HashBytes <- MCHashBytes
    TdValues <- MCTdValues
    TamperChars <- MCTamperChars
    SentVariants = {"BlockHeaderWithProof", "EpochAccumulator", "Receipts"}
    MaxItems = 2
    MaxTamper = 2
SPECIFICATION Spec
INVARIANT EpochAccumulatorCanonical
INVARIANT ValueRoundTrip
