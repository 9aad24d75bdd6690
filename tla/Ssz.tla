-------------------------------- MODULE Ssz --------------------------------
(***************************************************************************)
(* The SSZ primitives the content-item codec relies on (spec section 4.1), *)
(* as the eth2_ssz / ssz_types crates implement them: 4-byte little-endian *)
(* offsets, containers whose variable fields sit behind an offset table,   *)
(* bounded lists of fixed-size and of variable-size items, fixed vectors   *)
(* and one-byte union selectors.  These crates are dependencies, not part  *)
(* of the repository, so the operators are written from the spec.         *)
(*                                                                         *)
(* Byte strings are sequences of naturals in 0..255; indices in the        *)
(* comments are Rust's (0-based).                                          *)
(***************************************************************************)
EXTENDS Codec

BYTES_PER_LENGTH_OFFSET == 4

(* A union selector above this value is rejected by split_union_bytes.     *)
MAX_UNION_SELECTOR == 127

(* NoOffset stands for Option<usize>::None in sanitize_offset.             *)
NoOffset == -1

(* Offsets at or above 2^24 do not fit TLC's integers; they are all      *)
(* represented by OffsetCeiling.  Every byte string of a model is far      *)
(* shorter, and every check an offset meets compares it with a length      *)
(* first, so each such offset fails exactly where the true value would.   *)
OffsetCeiling == 2 ^ 24

(* read_offset: the first four bytes as a little-endian u32 offset.        *)
ReadOffset(bs) ==
    IF Len(bs) < BYTES_PER_LENGTH_OFFSET
    THEN Err("InvalidLengthPrefix")
    ELSE IF bs[4] > 0 THEN Ok(OffsetCeiling)
         ELSE Ok(LeValue(Slice(bs, 0, BYTES_PER_LENGTH_OFFSET - 1)))

(* sanitize_offset(offset, previous_offset, num_bytes, num_fixed_bytes).   *)
SanitizeOffset(offset, previous, numBytes, numFixed) ==
    CASE numFixed # NoOffset /\ offset < numFixed     -> Err("OffsetIntoFixedPortion")
      [] previous = NoOffset /\ numFixed # NoOffset
                             /\ offset # numFixed      -> Err("OffsetSkipsVariableBytes")
      [] offset > numBytes                             -> Err("OffsetOutOfBounds")
      [] previous # NoOffset /\ previous > offset      -> Err("OffsetsAreDecreasing")
      [] OTHER                                         -> Ok(offset)

(* The encoding of an offset.                                              *)
OffsetBytes(n) == LeBytes(n, BYTES_PER_LENGTH_OFFSET)

-----------------------------------------------------------------------------
(* VariableList<u8, N>: the bytes themselves; decoding rejects more than N. *)
ByteListDecode(bs, max) ==
    IF Len(bs) > max THEN Err("BytesInvalid") ELSE Ok(bs)

(* bytes.chunks(itemLen): consecutive chunks, the last one possibly short. *)
Chunks(bs, itemLen) ==
    LET n == (Len(bs) + itemLen - 1) \div itemLen
    IN  [i \in 1..n |-> SubSeq(bs, (i - 1) * itemLen + 1,
                               IF i * itemLen < Len(bs) THEN i * itemLen ELSE Len(bs))]

(* from_ssz_bytes of a fixed-size container of len bytes: the length is   *)
(* checked first (InvalidByteLength); the fields are read by the caller.   *)
FixedContainerDecode(chunk, len) ==
    IF Len(chunk) # len THEN Err("InvalidByteLength") ELSE Ok(chunk)

(* The first failing item of a list of decode results, or the Ok list.     *)
FirstFailure(items) ==
    IF \E i \in DOMAIN items : ~IsOk(items[i])
    THEN items[CHOOSE i \in DOMAIN items : ~IsOk(items[i]) /\ \A j \in 1..(i - 1) : IsOk(items[j])]
    ELSE Ok([i \in DOMAIN items |-> items[i].val])

(* Mutant: only the whole chunks are decoded; a trailing partial one is    *)
(* dropped.                                                                *)
FixedItemListDecodeDropPartial(bs, itemLen, max) ==
    LET whole == [i \in 1..(Len(bs) \div itemLen) |-> Slice(bs, (i - 1) * itemLen, i * itemLen)]
    IN  IF Len(bs) \div itemLen > max THEN Err("BytesInvalid")
        ELSE FirstFailure([i \in DOMAIN whole |-> FixedContainerDecode(whole[i], itemLen)])

(* VariableList<T, N>::from_ssz_bytes for a fixed-size container T of     *)
(* itemLen bytes: the item count, the floor of len / itemLen, is checked   *)
(* against N before anything is read; then every chunk, a trailing short   *)
(* one included, is decoded by T::from_ssz_bytes and the first failure is  *)
(* returned.                                                               *)
FixedItemListDecode(bs, itemLen, max) ==
    LET chunks == Chunks(bs, itemLen)
    IN  IF Len(bs) \div itemLen > max THEN Err("BytesInvalid")
        ELSE FirstFailure([i \in DOMAIN chunks |-> FixedContainerDecode(chunks[i], itemLen)])

(* FixedVector<T, N> of fixed-size items: exactly N items.                 *)
FixedVectorDecode(bs, itemLen, n) ==
    CASE Len(bs) = 0                  -> Err("InvalidByteLength")
      [] Len(bs) \div itemLen # n     -> Err("BytesInvalid")
      [] Len(bs) % itemLen # 0        -> Err("InvalidByteLength")
      [] OTHER -> Ok([i \in 1..n |-> Slice(bs, (i - 1) * itemLen, i * itemLen)])

-----------------------------------------------------------------------------
(* A list of variable-size items: an offset table of one offset per item,  *)
(* then the items.                                                         *)
ListOfVariableEncode(items) ==
    LET n == Len(items)
        start[i \in 1..n] == IF i = 1 THEN BYTES_PER_LENGTH_OFFSET * n
                             ELSE start[i - 1] + Len(items[i - 1])
    IN  Concat([i \in 1..n |-> OffsetBytes(start[i])]) \o Concat(items)

(* The end of item i of n: the next offset, read and sanitized against   *)
(* the previous one, or the end of the bytes for the last item.            *)
NextOffset(o, previous, numBytes, first) ==
    IF IsOk(o) THEN SanitizeOffset(o.val, previous, numBytes, first) ELSE o

ItemEnd(bs, i, n, previous, first) ==
    IF i = n THEN Ok(Len(bs))
    ELSE NextOffset(ReadOffset(SliceFrom(bs, i * BYTES_PER_LENGTH_OFFSET)), previous, Len(bs), first)

(* The item list extended by one decoded item ending at `end`.             *)
ByteListAppend(prev, end, item) ==
    IF IsOk(item) THEN [res |-> Ok(Append(prev.res.val, item.val)), off |-> end]
    ELSE [res |-> item, off |-> prev.off]

(* One item step: the list so far, or its first error, and where the item *)
(* ends.                                                                   *)
ByteListStep(prev, next, bs, maxLen) ==
    CASE ~IsOk(prev.res) -> prev
      [] ~IsOk(next)     -> [res |-> next, off |-> prev.off]
      [] OTHER -> ByteListAppend(prev, next.val,
                                 ByteListDecode(Slice(bs, prev.off, next.val), maxLen))

(* The items of a list whose first offset is `first`, in order, the first *)
(* failing item ending the decode.                                         *)
ListOfByteListsItems(bs, maxLen, first) ==
    LET n == first \div BYTES_PER_LENGTH_OFFSET
        \* step[i]: the item list up to item i, or the first error.
        step[i \in 0..n] ==
            IF i = 0 THEN [res |-> Ok(<<>>), off |-> first]
            ELSE ByteListStep(step[i - 1], ItemEnd(bs, i, n, step[i - 1].off, first), bs, maxLen)
    IN  step[n].res

(* The checks on the first offset: sanitized, a whole number of offsets,  *)
(* and an item count within max, before any item is read.                  *)
ListOfByteListsChecked(bs, max, maxLen, first, sane) ==
    CASE ~IsOk(sane) -> sane
      [] first % BYTES_PER_LENGTH_OFFSET # 0 \/ first < BYTES_PER_LENGTH_OFFSET
            -> Err("InvalidListFixedBytesLen")
      [] first \div BYTES_PER_LENGTH_OFFSET > max -> Err("BytesInvalid")
      [] OTHER -> ListOfByteListsItems(bs, maxLen, first)

ListOfByteListsFrom(bs, max, maxLen, first) ==
    CASE Len(bs) = 0  -> Ok(<<>>)
      [] ~IsOk(first) -> first
      [] OTHER -> ListOfByteListsChecked(bs, max, maxLen, first.val,
                      SanitizeOffset(first.val, NoOffset, Len(bs), first.val))

(* decode_list_of_variable_length_items(bytes, Some(max)) with every item  *)
(* a VariableList<u8, maxLen>.  The first offset fixes the item count,     *)
(* which is checked against max before the items are read; each further   *)
(* offset is sanitized against the previous one when its item is reached, *)
(* and the first failing item ends the decode.                             *)
ListOfByteListsDecode(bs, max, maxLen) == ListOfByteListsFrom(bs, max, maxLen, ReadOffset(bs))

-----------------------------------------------------------------------------
(* A container of two variable-size fields: two offsets, then the fields.  *)
Container2Encode(f1, f2) ==
    OffsetBytes(2 * BYTES_PER_LENGTH_OFFSET) \o
    OffsetBytes(2 * BYTES_PER_LENGTH_OFFSET + Len(f1)) \o f1 \o f2

(* SszDecoderBuilder for two variable fields: register_type reads each     *)
(* offset and rejects one below the previous (4 for the first) or past the *)
(* end; finalize requires the first offset to end the fixed part exactly.  *)
(* Returns the two field slices.                                           *)
Container2Split(bs) ==
    LET o1 == ReadOffset(bs)
        o2 == ReadOffset(SliceFrom(bs, BYTES_PER_LENGTH_OFFSET))
        fixedLen == 2 * BYTES_PER_LENGTH_OFFSET
    IN  CASE ~IsOk(o1) -> o1
          [] BYTES_PER_LENGTH_OFFSET > o1.val \/ o1.val > Len(bs) -> Err("OffsetOutOfBounds")
          [] ~IsOk(o2) -> o2
          [] o1.val > o2.val \/ o2.val > Len(bs) -> Err("OffsetOutOfBounds")
          [] o1.val < fixedLen -> Err("OffsetIntoFixedPortion")
          [] o1.val > fixedLen -> Err("OffsetSkipsVariableBytes")
          [] OTHER -> Ok(<<Slice(bs, o1.val, o2.val), SliceFrom(bs, o2.val)>>)

-----------------------------------------------------------------------------
(* split_union_bytes: the selector byte and the body after it.             *)
UnionSplit(bs) ==
    CASE Len(bs) = 0                 -> Err("OutOfBoundsByte")
      [] bs[1] > MAX_UNION_SELECTOR  -> Err("UnionSelectorInvalid")
      [] OTHER -> Ok([selector |-> bs[1], body |-> SliceFrom(bs, 1)])
=============================================================================
