------------------------------- MODULE Codec -------------------------------
(***************************************************************************)
(* Shared vocabulary of the content-item codec models: byte strings,       *)
(* Rust-style slices, little-endian integers and the three outcomes of a   *)
(* decode or encode call.                                                  *)
(*                                                                         *)
(*  - Ok(v)     the call returned Ok(v);                                   *)
(*  - Err(e)    the call returned an error of kind e (ssz::DecodeError or  *)
(*              reth_rlp::DecodeError variant name);                       *)
(*  - Panic(e)  the call panicked (unwrap, copy_from_slice, ...) and the   *)
(*              calling task aborts.                                       *)
(*                                                                         *)
(* Every result is a record with the same fields so that results of       *)
(* different calls can be stored in one variable.  "rest" is the unread   *)
(* tail of a prefix decoder (RLP Decodable::decode advances its buffer).   *)
(***************************************************************************)
EXTENDS Integers, Sequences

Byte == 0..255

NoValue == "none"

Ok(v)           == [kind |-> "ok", val |-> v, err |-> "none", rest |-> <<>>]
OkRest(v, rest) == [kind |-> "ok", val |-> v, err |-> "none", rest |-> rest]
Err(e)          == [kind |-> "err", val |-> NoValue, err |-> e, rest |-> <<>>]
Panic(e)        == [kind |-> "panic", val |-> NoValue, err |-> e, rest |-> <<>>]

IsOk(r)    == r.kind = "ok"
IsPanic(r) == r.kind = "panic"

(* An error or panic of an inner call, propagated unchanged by `?`.        *)
Propagate(r) == [r EXCEPT !.rest = <<>>]

(* bytes[from..to] with Rust's 0-based, end-exclusive indices.             *)
Slice(bs, from, to) == SubSeq(bs, from + 1, to)

(* bytes[from..]                                                           *)
SliceFrom(bs, from) == SubSeq(bs, from + 1, Len(bs))

(* Vec::truncate(n): keep at most the first n elements.                    *)
Truncate(s, n) == IF Len(s) <= n THEN s ELSE SubSeq(s, 1, n)

(* The concatenation of a sequence of byte strings.                        *)
Concat(seqs) ==
    LET f[i \in 0..Len(seqs)] == IF i = 0 THEN <<>> ELSE f[i - 1] \o seqs[i]
    IN  f[Len(seqs)]

(* n as w little-endian bytes (wrapping modulo 2^(8w), as `as` casts do).   *)
LeBytes(n, w) == [i \in 1..w |-> (n \div (256 ^ (i - 1))) % 256]

(* The unsigned integer whose little-endian encoding is bs.                *)
LeValue(bs) ==
    LET f[i \in 0..Len(bs)] == IF i = 0 THEN 0 ELSE f[i - 1] + bs[i] * (256 ^ (i - 1))
    IN  f[Len(bs)]

(* The unsigned integer whose big-endian encoding is bs.                   *)
BeValue(bs) ==
    LET f[i \in 0..Len(bs)] == IF i = 0 THEN 0 ELSE f[i - 1] * 256 + bs[i]
    IN  f[Len(bs)]

(* The shortest big-endian encoding of n > 0.                              *)
BeBytes(n) ==
    LET w == CHOOSE k \in 1..8 : n < 256 ^ k
    IN  [i \in 1..w |-> (n \div (256 ^ (w - i))) % 256]

(* Option<T> as a sequence of length 0 (None) or 1 (Some).                 *)
None    == <<>>
Some(x) == <<x>>
=============================================================================
