-------------------------- MODULE ContentExchange --------------------------
(***************************************************************************)
(* One history content item crossing the JSON boundary: a producer         *)
(* serializes a HistoryContentItem (content_item.rs Serialize), the JSON   *)
(* string travels through an untrusted client or peer that may corrupt,   *)
(* extend or truncate it a bounded number of times, and a consumer         *)
(* deserializes it (content_item.rs Deserialize).  Then the exchange ends  *)
(* and the next one starts.                                                *)
(*                                                                         *)
(* The codec is pure; the state here is only what the exchange carries,   *)
(* so that every reachable json is an input the deserializer can be given *)
(* and the invariants can relate it to the value that was sent.            *)
(***************************************************************************)
EXTENDS HistoryContentItem

CONSTANTS
    SentVariants,   \* the variants producers serialize
    FieldValues,    \* values of the integer fields of headers, receipts, txs
    HashBytes,      \* the byte every byte of a hash is made of
    TdValues,       \* total difficulties of header records
    MaxItems,       \* longest list a producer builds (Vec lengths are unbounded)
    MaxTamper,      \* edits the untrusted party makes to one string
    TamperChars     \* characters it writes

ASSUME SentVariants \subseteq Variants /\ MaxItems \in Nat /\ MaxTamper \in Nat

VARIABLES
    phase,    \* "idle", "sent", "received", or "aborted" after a serialize panic
    item,     \* [variant, value] the producer serialized
    json,     \* the string in transit
    tampers,  \* edits made to it so far
    result    \* what deserialize returned

vars == <<phase, item, json, tampers, result>>

-----------------------------------------------------------------------------
(* The values producers can build.  Rust Vecs have no bound, so lists go   *)
(* up to MaxItems; an EpochAccumulator is a VariableList and cannot hold  *)
(* more than EpochMax records.                                             *)
SeqsUpTo(S, n) == UNION {[1..k -> S] : k \in 0..n}

Headers      == [1..HeaderArity -> FieldValues]
ReceiptVals  == [1..ReceiptArity -> FieldValues]
Txs          == [1..TxArity -> FieldValues]
Hashes       == {[i \in 1..HashLen |-> b] : b \in HashBytes}
Proofs       == {None} \cup {Some(p) : p \in [1..ProofLen -> Hashes]}
HeaderRecords == [hash : Hashes, total_difficulty : TdValues]

ItemsOf(k) ==
    CASE k = "BlockHeaderWithProof" -> [header : Headers, proof : Proofs]
      [] k = "BlockHeader"          -> Headers
      [] k = "BlockBody"            -> [transactions : SeqsUpTo(Txs, MaxItems),
                                        uncles : SeqsUpTo(Headers, MaxItems)]
      [] k = "Receipts"             -> SeqsUpTo(ReceiptVals, MaxItems)
      [] k = "EpochAccumulator"     ->
            SeqsUpTo(HeaderRecords, IF MaxItems < EpochMax THEN MaxItems ELSE EpochMax)

NoItem == [variant |-> "none", value |-> "none"]
NoResult == Err("none")

Chars == {LowerHex[i] : i \in 1..16} \cup {"x"} \cup TamperChars

TypeOK ==
    /\ phase \in {"idle", "sent", "received", "aborted"}
    /\ phase = "idle" => item = NoItem
    /\ phase # "idle" => item.variant \in SentVariants /\ item.value \in ItemsOf(item.variant)
    /\ \A i \in DOMAIN json : json[i] \in Chars
    /\ tampers \in 0..MaxTamper
    /\ result.kind \in {"ok", "err", "panic"}

-----------------------------------------------------------------------------
Init ==
    /\ phase = "idle"
    /\ item = NoItem
    /\ json = <<>>
    /\ tampers = 0
    /\ result = NoResult

(* serde serialization of a HistoryContentItem; a panic in the encoder     *)
(* aborts the serializing task.                                            *)
SerializeItem ==
    /\ phase = "idle"
    /\ \E k \in SentVariants : \E v \in ItemsOf(k) :
          LET s == Serialize(k, v)
          IN  /\ item' = [variant |-> k, value |-> v]
              /\ phase' = IF IsOk(s) THEN "sent" ELSE "aborted"
              /\ json' = IF IsOk(s) THEN s.val ELSE <<>>
    /\ UNCHANGED <<tampers, result>>

CanTamper == phase = "sent" /\ tampers < MaxTamper

(* The untrusted party overwrites one character.                           *)
CorruptChar ==
    /\ CanTamper
    /\ \E i \in 1..Len(json), c \in TamperChars :
          /\ json[i] # c
          /\ json' = [json EXCEPT ![i] = c]
    /\ tampers' = tampers + 1
    /\ UNCHANGED <<phase, item, result>>

(* ... appends one byte (two characters) ...                               *)
AppendByte ==
    /\ CanTamper
    /\ \E c1, c2 \in TamperChars : json' = json \o <<c1, c2>>
    /\ tampers' = tampers + 1
    /\ UNCHANGED <<phase, item, result>>

(* ... or drops the last byte.                                             *)
DropByte ==
    /\ CanTamper
    /\ Len(json) >= 4
    /\ json' = SubSeq(json, 1, Len(json) - 2)
    /\ tampers' = tampers + 1
    /\ UNCHANGED <<phase, item, result>>

(* serde deserialization of the string received.                          *)
DeserializeItem ==
    /\ phase = "sent"
    /\ result' = Deserialize(json)
    /\ phase' = "received"
    /\ UNCHANGED <<item, json, tampers>>

(* The exchange is over; the next request starts from nothing.             *)
Finish ==
    /\ phase \in {"received", "aborted"}
    /\ phase' = "idle"
    /\ item' = NoItem
    /\ json' = <<>>
    /\ tampers' = 0
    /\ result' = NoResult

Next ==
    \/ SerializeItem
    \/ CorruptChar
    \/ AppendByte
    \/ DropByte
    \/ DeserializeItem
    \/ Finish

Spec == Init /\ [][Next]_vars

-----------------------------------------------------------------------------
(* The bytes the string in transit stands for, when it is valid hex.       *)
WireBytes == HexDecode(StripPrefix0x(json))

InTransit == phase \in {"sent", "received"}

(* A decode result that is the value v.                                   *)
DecodesTo(d, v) == IsOk(d) /\ d.val = v

(* A decode result that, when Ok, variant k encodes back to bytes.        *)
ReencodesTo(k, d, bytes) == IsOk(d) => ContentItemEncode(k, d.val, <<>>) = Ok(bytes)

(* Spec 8.2, value -> binary -> value: decoding the bytes a producer       *)
(* serialized, with the variant's own decoder, gives back the value.  It  *)
(* is about VariableList::from truncating oversize lists in every encode  *)
(* and the offset tables written by the SSZ encoders.                      *)
ValueRoundTrip ==
    InTransit /\ tampers = 0 => DecodesTo(ContentItemDecode(item.variant, WireBytes.val), item.value)

(* Spec 8.3, dispatcher stability: an unaltered serialized item is         *)
(* deserialized by the trial decoder as the variant it was serialized     *)
(* from, with the same value: no earlier decoder in the trial order       *)
(* accepts it and no decoder tried before it panics.                       *)
DispatcherStability ==
    phase = "received" /\ tampers = 0 =>
        /\ IsOk(result)
        /\ result.val.variant = item.variant
        /\ result.val.item = item.value

(* Spec 8.1 and 8.4, binary -> value -> binary: whatever bytes the         *)
(* variant-k decoder accepts, corrupted or not, encode back to exactly     *)
(* those bytes, so trailing or ignored bytes are rejected.                 *)
CanonicalDecoding(k) ==
    InTransit /\ item.variant = k /\ IsOk(WireBytes) =>
        ReencodesTo(k, ContentItemDecode(k, WireBytes.val), WireBytes.val)

(* EpochAccumulator::decode (native SSZ of fixed-size records) accepts     *)
(* only the canonical encoding of what it returns.                         *)
EpochAccumulatorCanonical == CanonicalDecoding("EpochAccumulator")

(* HeaderWithProof::decode accepts only canonical encodings (spec 8.7:    *)
(* selector 0 followed by bytes must be rejected).                         *)
HeaderWithProofCanonical == CanonicalDecoding("BlockHeaderWithProof")

(* Spec 7: encoders are infallible; serializing any item never panics.    *)
SerializeNeverPanics == phase # "aborted"
=============================================================================
