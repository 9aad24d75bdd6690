\* Unaltered headers-with-proof, headers and block bodies go through the trial
\* decoder.
CONSTANTS
    HeaderMax <- MCHeaderMax
    ReceiptMax <- MCReceiptMax
    ReceiptListMax <- MCReceiptListMax
    TxMax <- MCTxMax
    TxListMax <- MCTxListMax
    UnclesMax <- MCUnclesMax
    EpochMax <- MCEpochMax
    ProofLen <- MCProofLen
    HashLen <- MCHashLen
    U256Len <- MCU256Len
    FieldValues <- MCFieldValues
    HashBytes <- MCHashBytes
    TdValues <- MCTdValues
    TamperChars <- MCTamperChars
    SentVariants = {"BlockHeaderWithProof", "BlockHeader", "BlockBody"}
    MaxItems = 2
    MaxTamper = 0
SPECIFICATION Spec
INVARIANT TypeOK
INVARIANT DispatcherStability
