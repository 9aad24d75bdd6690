------------------------- MODULE HistoryContentItem -------------------------
(***************************************************************************)
(* The HistoryContentItem enum of content_item.rs and its serde impls:     *)
(* serialize encodes the variant's ContentItem into an empty Vec and       *)
(* writes "0x" + lower-case hex; deserialize strips a "0x" prefix, hex-    *)
(* decodes, and tries the five decoders in a fixed order, returning the    *)
(* first Ok.  A decoder that panics aborts deserialize: there is no        *)
(* catch_unwind around the trials.                                         *)
(*                                                                         *)
(* Strings are sequences of one-character strings (module Hex).            *)
(***************************************************************************)
EXTENDS ContentItem, Hex

(* The variants, in the order deserialize tries them.                      *)
TrialOrder == <<"BlockHeaderWithProof", "BlockHeader", "BlockBody",
                "Receipts", "EpochAccumulator">>

Variants == {TrialOrder[i] : i \in 1..5}

Prefix0x == <<"0", "x">>

(* Mutant: the string handed to hex::decode without stripping "0x".       *)
StripPrefixNone(s) == s

(* s.strip_prefix("0x").unwrap_or(&s): only the lower-case prefix.         *)
StripPrefix0x(s) ==
    IF Len(s) >= 2 /\ SubSeq(s, 1, 2) = Prefix0x THEN SubSeq(s, 3, Len(s)) ELSE s

-----------------------------------------------------------------------------
(* ContentItem::encode of the variant k.                                   *)
ContentItemEncode(k, item, buf) ==
    CASE k = "BlockHeaderWithProof" -> HeaderWithProofEncode(item, buf)
      [] k = "BlockHeader"          -> HeaderEncode(item, buf)
      [] k = "BlockBody"            -> BlockBodyEncode(item, buf)
      [] k = "Receipts"             -> ReceiptsEncode(item, buf)
      [] k = "EpochAccumulator"     -> EpochAccumulatorEncode(item, buf)

(* ContentItem::decode of the variant k.                                   *)
ContentItemDecode(k, bs) ==
    CASE k = "BlockHeaderWithProof" -> HeaderWithProofDecode(bs)
      [] k = "BlockHeader"          -> HeaderDecode(bs)
      [] k = "BlockBody"            -> BlockBodyDecode(bs)
      [] k = "Receipts"             -> ReceiptsDecode(bs)
      [] k = "EpochAccumulator"     -> EpochAccumulatorDecode(bs)

(* Mutant: the hex written with hex::encode_upper.                        *)
SerializeUpper(k, item) ==
    LET encoded == ContentItemEncode(k, item, <<>>)
    IN  IF IsOk(encoded) THEN Ok(Prefix0x \o HexEncodeUpper(encoded.val)) ELSE encoded

(* impl Serialize for HistoryContentItem: the JSON string, or the panic of *)
(* the variant's encoder.                                                  *)
Serialize(k, item) ==
    LET encoded == ContentItemEncode(k, item, <<>>)
    IN  IF IsOk(encoded) THEN Ok(Prefix0x \o HexEncode(encoded.val)) ELSE encoded

(* One trial of deserialize: variant k's decoder returned d; an Ok ends    *)
(* the trials, a panic aborts them, an Err moves on to the later trials.  *)
TrialStep(k, d, later) ==
    CASE IsOk(d)    -> Ok([variant |-> k, item |-> d.val])
      [] IsPanic(d) -> d
      [] OTHER      -> later

(* All five trials on bytes, in TrialOrder.                                 *)
Trials(bytes) ==
    LET trial[i \in 0..5] ==
            IF i = 0 THEN Err("unable to deserialize to any history content item")
            ELSE TrialStep(TrialOrder[6 - i], ContentItemDecode(TrialOrder[6 - i], bytes), trial[i - 1])
    IN  trial[5]

(* impl Deserialize for HistoryContentItem: Ok([variant, item]), Err, or   *)
(* the panic of the first decoder that panics before one succeeds.         *)
Deserialize(s) ==
    LET bytes == HexDecode(StripPrefix0x(s))
    IN  IF IsOk(bytes) THEN Trials(bytes.val) ELSE bytes
=============================================================================
