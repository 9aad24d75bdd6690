---------------------------- MODULE ContentItem ----------------------------
(***************************************************************************)
(* The ContentItem impls of ethportal-api/src/types/content_item.rs: the   *)
(* encode and decode of each history content type, and SszOption.          *)
(*                                                                         *)
(* encode(&self, buf) is modelled as an operator of the value and of buf   *)
(* returning Ok(new buf) or Panic; decode(buf) returns Ok(value), Err(kind) *)
(* or Panic.  The typenum bounds of the SSZ types are CONSTANTS so that a  *)
(* model can scale them down; the code's values are in the comments.       *)
(*                                                                         *)
(* Values:                                                                 *)
(*   Header, Receipt, TransactionSigned  sequences of integer fields (Rlp) *)
(*   H256                                a sequence of HashLen bytes       *)
(*   HeaderWithProof   [header, proof]  proof None or Some(ProofLen hashes) *)
(*   BlockBody         [transactions, uncles]                              *)
(*   EpochAccumulator  sequence of [hash, total_difficulty]                *)
(***************************************************************************)
EXTENDS Ssz, Rlp

CONSTANTS
    HeaderMax,       \* SszEncodedHeader      VariableList<u8, U2048>
    ReceiptMax,      \* SszReceipt            VariableList<u8, U134217728>
    ReceiptListMax,  \* SszReceiptList        VariableList<SszReceipt, U16384>
    TxMax,           \* SszTransaction        VariableList<u8, U16777216>
    TxListMax,       \* SszTransactionList    VariableList<SszTransaction, U16384>
    UnclesMax,       \* SszUncles             VariableList<u8, U131072>
    EpochMax,        \* EpochAccumulator      VariableList<HeaderRecord, U8192>
    ProofLen,        \* EPOCH_ACC_PROOF_LEN = 15
    HashLen,         \* bytes of an H256 (32)
    U256Len          \* bytes of a U256 (32)

ASSUME /\ \A c \in {HeaderMax, ReceiptMax, ReceiptListMax, TxMax, TxListMax,
                    UnclesMax, EpochMax} : c \in Nat
       /\ \A c \in {ProofLen, HashLen, U256Len} : c \in Nat /\ c > 0

(* Decodes every byte list of `lists` as an RLP struct of `arity` fields,  *)
(* stopping at the first error, as .map(decode).collect::<Result<_,_>>()   *)
(* does.  Bytes after each struct are not looked at.                       *)
RlpDecodeAll(lists, arity) ==
    LET step[i \in 0..Len(lists)] ==
            IF i = 0 THEN Ok(<<>>)
            ELSE LET d == RlpStructDecode(lists[i], arity)
                 IN  CASE ~IsOk(step[i - 1]) -> step[i - 1]
                       [] ~IsOk(d)           -> Propagate(d)
                       [] OTHER              -> Ok(Append(step[i - 1].val, d.val))
    IN  step[Len(lists)]

-----------------------------------------------------------------------------
(* impl ContentItem for Vec<Receipt>: each receipt's RLP goes into its own *)
(* SszReceipt (VariableList::from truncates to the bound), the list into   *)
(* an SszReceiptList (truncated likewise), and the SSZ bytes are written   *)
(* with buf.copy_from_slice, which panics unless buf already has exactly   *)
(* their length.                                                           *)
ReceiptsEncode(receipts, buf) ==
    LET rlps == [i \in DOMAIN receipts |-> Truncate(RlpStructEncode(receipts[i]), ReceiptMax)]
        ssz  == ListOfVariableEncode(Truncate(rlps, ReceiptListMax))
    IN  IF Len(buf) = Len(ssz) THEN Ok(ssz)
        ELSE Panic("copy_from_slice: source slice length does not match destination")

ReceiptsDecode(buf) ==
    LET ssz == ListOfByteListsDecode(buf, ReceiptListMax, ReceiptMax)
    IN  IF IsOk(ssz) THEN RlpDecodeAll(ssz.val, ReceiptArity) ELSE ssz

-----------------------------------------------------------------------------
(* impl ContentItem for Header: bare RLP, appended to buf; decode reads   *)
(* one header from the front of buf and ignores what follows.             *)
HeaderEncode(header, buf) == Ok(buf \o RlpStructEncode(header))

HeaderDecode(buf) ==
    LET h == RlpStructDecode(buf, HeaderArity)
    IN  IF IsOk(h) THEN Ok(h.val) ELSE h

-----------------------------------------------------------------------------
(* Mutant: the two union selectors written the wrong way round.           *)
SszOptionAppendSwapped(buf, opt) ==
    IF opt = None THEN Append(buf, 1) ELSE Append(buf, 0) \o opt[1]

(* SszOption<T>::ssz_append: selector 0, or selector 1 and T's bytes.      *)
(* opt is None or Some(the SSZ bytes of T).                                *)
SszOptionAppend(buf, opt) ==
    IF opt = None THEN Append(buf, 0) ELSE Append(buf, 1) \o opt[1]

(* SszHeaderProof = FixedVector<H256, U15>.                                *)
HeaderProofDecode(bs) == FixedVectorDecode(bs, HashLen, ProofLen)

(* Some(t) when T's decode succeeded.                                      *)
SszSome(t) == IF IsOk(t) THEN Ok(Some(t.val)) ELSE t

(* The match on the selector: 0 is None whatever the body holds, 1 decodes *)
(* the body as T, any other selector is UnionSelectorInvalid.              *)
SszOptionSelect(u) ==
    CASE ~IsOk(u)            -> u
      [] u.val.selector = 0  -> Ok(None)
      [] u.val.selector = 1  -> SszSome(HeaderProofDecode(u.val.body))
      [] OTHER               -> Err("UnionSelectorInvalid")

(* SszOption<SszHeaderProof>::from_ssz_bytes: split_union_bytes, then the  *)
(* match on the selector.                                                  *)
SszOptionDecode(bs) == SszOptionSelect(UnionSplit(bs))

(* impl ContentItem for HeaderWithProof.                                   *)
HeaderWithProofEncode(hwp, buf) ==
    LET header == Truncate(RlpStructEncode(hwp.header), HeaderMax)
        proof  == IF hwp.proof = None THEN None ELSE Some(Concat(hwp.proof[1]))
    IN  Ok(buf \o Container2Encode(header, SszOptionAppend(<<>>, proof)))

HeaderWithProofDecode(buf) ==
    LET c      == Container2Split(buf)
        header == ByteListDecode(c.val[1], HeaderMax)
        proof  == SszOptionDecode(c.val[2])
        h      == RlpStructDecode(header.val, HeaderArity)
    IN  CASE ~IsOk(c)      -> c
          [] ~IsOk(header) -> header
          [] ~IsOk(proof)  -> proof
          [] ~IsOk(h)      -> Propagate(h)
          \* arr.copy_from_slice(&proof) into a [H256; EPOCH_ACC_PROOF_LEN]
          [] proof.val # None /\ Len(proof.val[1]) # ProofLen
                           -> Panic("copy_from_slice: source slice length does not match destination")
          [] OTHER         -> Ok([header |-> h.val, proof |-> proof.val])

-----------------------------------------------------------------------------
(* impl ContentItem for BlockBody: each transaction's RLP in its own byte  *)
(* list, the uncles as one RLP list in one byte list; every list is        *)
(* truncated to its bound by VariableList::from.  decode unwraps every     *)
(* inner result, so any malformed input panics instead of returning Err.   *)
BlockBodyEncode(body, buf) ==
    LET txs    == [i \in DOMAIN body.transactions |->
                      Truncate(RlpStructEncode(body.transactions[i]), TxMax)]
        uncles == Truncate(RlpStructListEncode(body.uncles), UnclesMax)
    IN  Ok(buf \o Container2Encode(ListOfVariableEncode(Truncate(txs, TxListMax)), uncles))

(* The RLP step of BlockBody::decode: every transaction's bytes, then the  *)
(* uncles list, each decode unwrapped.                                     *)
BlockBodyDecodeRlp(txBytes, unclesBytes) ==
    LET txs    == RlpDecodeAll(txBytes, TxArity)
        uncles == RlpStructListDecode(unclesBytes, HeaderArity)
    IN  CASE ~IsOk(txs)    -> Panic("unwrap on Err: Rlp")
          [] ~IsOk(uncles) -> Panic("unwrap on Err: Rlp")
          [] OTHER -> Ok([transactions |-> txs.val, uncles |-> uncles.val])

(* The field step of the derived container decode: the transaction list   *)
(* and the uncles byte list, within their bounds.                          *)
BlockBodyDecodeFields(fields) ==
    LET txList      == ListOfByteListsDecode(fields[1], TxListMax, TxMax)
        unclesBytes == ByteListDecode(fields[2], UnclesMax)
    IN  IF IsOk(txList) /\ IsOk(unclesBytes)
        THEN BlockBodyDecodeRlp(txList.val, unclesBytes.val)
        ELSE Panic("unwrap on Err: Ssz")

BlockBodyDecode(buf) ==
    LET c == Container2Split(buf)
    IN  IF IsOk(c) THEN BlockBodyDecodeFields(c.val) ELSE Panic("unwrap on Err: Ssz")

-----------------------------------------------------------------------------
(* HeaderRecord: the derived fixed-size SSZ container {hash, total_difficulty}. *)
HeaderRecordLen == HashLen + U256Len

HeaderRecordEncode(rec) == rec.hash \o LeBytes(rec.total_difficulty, U256Len)

(* The fields of a HeaderRecord read from its HeaderRecordLen bytes.      *)
HeaderRecordFields(bytes) ==
    [hash |-> Slice(bytes, 0, HashLen),
     total_difficulty |-> LeValue(Slice(bytes, HashLen, HeaderRecordLen))]

(* The records of the decoded chunks.                                      *)
DecodedHeaderRecords(l) ==
    IF IsOk(l) THEN Ok([i \in DOMAIN l.val |-> HeaderRecordFields(l.val[i])]) ELSE l

(* impl ContentItem for EpochAccumulator: native SSZ of the record list.   *)
EpochAccumulatorEncode(acc, buf) ==
    Ok(buf \o Concat([i \in DOMAIN acc |-> HeaderRecordEncode(acc[i])]))

EpochAccumulatorDecode(buf) ==
    DecodedHeaderRecords(FixedItemListDecode(buf, HeaderRecordLen, EpochMax))
=============================================================================
