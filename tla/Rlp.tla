-------------------------------- MODULE Rlp --------------------------------
(***************************************************************************)
(* RLP as reth_rlp implements it for the Ethereum types the codec embeds   *)
(* (Header, Receipt, TransactionSigned and Vec<Header>).  reth_rlp and     *)
(* reth_primitives are dependencies, so this is written from the spec.     *)
(*                                                                         *)
(* Abstraction: each Ethereum type is an RLP list of a fixed number of     *)
(* unsigned-integer fields.  The types differ in their field count, as     *)
(* the real ones do (a header has 15+ fields, a receipt 4, a transaction   *)
(* 9), and that is what lets one type's decoder reject another's bytes.    *)
(* Typed-transaction envelopes and optional header fields are left out.    *)
(*                                                                         *)
(* Decoders are prefix decoders, as Decodable::decode(&mut &[u8]) is: they *)
(* return the value and the unread rest of the buffer.                     *)
(***************************************************************************)
EXTENDS Codec

HeaderArity  == 1
ReceiptArity == 2
TxArity      == 3

(* The encoding of an unsigned integer: 0x80 for zero, the byte itself     *)
(* below 0x80, otherwise a short string of its big-endian bytes.          *)
RlpIntEncode(v) ==
    CASE v = 0     -> <<128>>
      [] v < 128   -> <<v>>
      [] OTHER     -> <<128 + Len(BeBytes(v))>> \o BeBytes(v)

(* Decodes one u64 field from the front of bs.                             *)
RlpIntDecode(bs) ==
    LET b == bs[1]
        l == b - 128
        payload == Slice(bs, 1, 1 + l)
    IN  CASE Len(bs) = 0              -> Err("InputTooShort")
          [] b = 0                    -> Err("LeadingZero")
          [] b < 128                  -> OkRest(b, SliceFrom(bs, 1))
          [] b = 128                  -> OkRest(0, SliceFrom(bs, 1))
          [] b >= 192                 -> Err("UnexpectedList")
          [] b >= 184 \/ l > 8        -> Err("Overflow")
          [] Len(bs) - 1 < l          -> Err("InputTooShort")
          [] l = 1 /\ payload[1] < 128 -> Err("NonCanonicalSingleByte")
          [] payload[1] = 0           -> Err("LeadingZero")
          [] OTHER                    -> OkRest(BeValue(payload), SliceFrom(bs, 1 + l))

(* A list header for a payload of len bytes.                               *)
RlpListHeader(len) ==
    IF len < 56 THEN <<192 + len>>
    ELSE <<247 + Len(BeBytes(len))>> \o BeBytes(len)

(* Decodes a list header: the payload length and the bytes after the       *)
(* header, which must hold at least the payload.                           *)
RlpListHeaderDecode(bs) ==
    LET b  == bs[1]
        ll == b - 247
        len == IF b <= 247 THEN b - 192 ELSE BeValue(Slice(bs, 1, 1 + ll))
        hdr == IF b <= 247 THEN 1 ELSE 1 + ll
    IN  CASE Len(bs) = 0                        -> Err("InputTooShort")
          [] b < 192                            -> Err("UnexpectedString")
          [] b > 247 /\ Len(bs) < 1 + ll        -> Err("InputTooShort")
          [] b > 247 /\ bs[2] = 0               -> Err("LeadingZero")
          [] b > 247 /\ len < 56                -> Err("NonCanonicalSize")
          [] Len(bs) - hdr < len                -> Err("InputTooShort")
          [] OTHER -> OkRest(len, SliceFrom(bs, hdr))

(* Encodable::encode of a struct whose fields are the integers `fields`.   *)
RlpStructEncode(fields) ==
    LET payload == Concat([i \in DOMAIN fields |-> RlpIntEncode(fields[i])])
    IN  RlpListHeader(Len(payload)) \o payload

(* One field step: the fields so far extended by the field f just read.  *)
RlpFieldStep(prev, f) ==
    CASE ~IsOk(prev) -> prev
      [] ~IsOk(f)    -> f
      [] OTHER       -> OkRest(Append(prev.val, f.val), f.rest)

(* Reads `arity` integer fields one after another from the front of bs.    *)
RlpFieldsDecode(bs, arity) ==
    LET \* field[i]: the first i fields and the rest after them, or an error.
        field[i \in 0..arity] ==
            IF i = 0 THEN OkRest(<<>>, bs)
            ELSE RlpFieldStep(field[i - 1], RlpIntDecode(field[i - 1].rest))
    IN  field[arity]

(* The fields must end exactly where the list payload of len bytes ends.   *)
RlpStructCheck(len, payload, all) ==
    CASE ~IsOk(all) -> Propagate(all)
      [] Len(payload) - Len(all.rest) # len -> Err("ListLengthMismatch")
      [] OTHER -> all

RlpStructBody(h, arity) ==
    IF IsOk(h) THEN RlpStructCheck(h.val, h.rest, RlpFieldsDecode(h.rest, arity)) ELSE h

(* Decodable::decode of a struct of `arity` integer fields: the list       *)
(* header, then the fields read one after another, which must end exactly  *)
(* where the list payload ends (ListLengthMismatch otherwise).  Bytes      *)
(* after the list are left unread.                                         *)
RlpStructDecode(bs, arity) == RlpStructBody(RlpListHeaderDecode(bs), arity)

(* Encodable::encode of a Vec of structs: one list of the struct lists.    *)
RlpStructListEncode(structs) ==
    LET payload == Concat([i \in DOMAIN structs |-> RlpStructEncode(structs[i])])
    IN  RlpListHeader(Len(payload)) \o payload

(* One element step: the elements so far extended by the element e read   *)
(* from the front of the view left.                                        *)
RlpStructsStep(prev, e) ==
    CASE ~IsOk(prev.res) \/ Len(prev.rest) = 0 -> prev
      [] ~IsOk(e) -> [res |-> Propagate(e), rest |-> prev.rest]
      [] OTHER    -> [res |-> Ok(Append(prev.res.val, e.val)), rest |-> e.rest]

(* Decodable::decode for Vec<E>: the elements are decoded from a view of   *)
(* exactly the list payload until the view is empty.  Every element takes *)
(* at least one byte, so Len(view) steps decode them all.                  *)
RlpStructsDecode(view, arity) ==
    LET \* step[i]: the elements after i steps and the view left, or an error.
        step[i \in 0..Len(view)] ==
            IF i = 0 THEN [res |-> Ok(<<>>), rest |-> view]
            ELSE RlpStructsStep(step[i - 1], RlpStructDecode(step[i - 1].rest, arity))
    IN  step[Len(view)].res

RlpStructListRest(h, l) == IF IsOk(l) THEN OkRest(l.val, SliceFrom(h.rest, h.val)) ELSE l

RlpStructListBody(h, arity) ==
    IF IsOk(h) THEN RlpStructListRest(h, RlpStructsDecode(Slice(h.rest, 0, h.val), arity)) ELSE h

(* The list header, the elements of its payload, and the bytes after it.  *)
RlpStructListDecode(bs, arity) == RlpStructListBody(RlpListHeaderDecode(bs), arity)
=============================================================================
