------------------------- MODULE MCContentExchange -------------------------
(***************************************************************************)
(* ContentExchange instantiated for TLC.  The SSZ bounds of content_item.rs *)
(* (2048, 2^27, 16384, 2^24, 16384, 131072, 8192) are scaled down so that *)
(* the encodings of a few small values reach them exactly: a header RLP is *)
(* 2-3 bytes, a receipt 3-5, a transaction 4-7, two uncles 5-7.  Hashes   *)
(* and total difficulties are one byte wide and a proof has 2 hashes      *)
(* instead of 15; the offsets stay 4 bytes, as in SSZ.                     *)
(***************************************************************************)
EXTENDS ContentExchange

MCHeaderMax      == 3
MCReceiptMax     == 5
MCReceiptListMax == 2
MCTxMax          == 7
MCTxListMax      == 2
MCUnclesMax      == 7
MCEpochMax       == 2
MCProofLen       == 2
MCHashLen        == 1
MCU256Len        == 1

(* One-byte field values; 200 takes the two-byte RLP string form.          *)
MCFieldValues    == {1, 200}
MCSmallFields    == {1}
MCHashBytes      == {170}
MCTdValues       == {1, 255}

(* Characters the untrusted party writes: "2" makes a union selector 2,  *)
(* "c" turns an offset 8 into 12 (one item too many for a bound of 2), and *)
(* "0" zeroes a nibble.                                                    *)
MCTamperChars    == {"0", "2", "c"}
=============================================================================
