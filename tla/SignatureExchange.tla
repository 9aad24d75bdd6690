------------------------- MODULE SignatureExchange -------------------------
(***************************************************************************)
(* BlsSignature of trin-types/src/consensus/signature.rs: a 96-byte array *)
(* with a fixed-length SSZ codec and a hex serde codec, and a signature   *)
(* crossing a boundary either as SSZ bytes or as a JSON hex string, which *)
(* an untrusted party may edit a bounded number of times before it is     *)
(* decoded.                                                                *)
(*                                                                         *)
(* Both decoders fill a [0u8; 96] with copy_from_slice, which panics when  *)
(* the input does not have exactly 96 bytes.  SSZ containers call          *)
(* from_ssz_bytes only with slices of ssz_fixed_len() bytes; a caller with *)
(* bytes of its own passes them as they are.                               *)
(***************************************************************************)
EXTENDS Hex

CONSTANTS
    SigLen,       \* bytes of a signature (96)
    SigBytes,     \* the byte every byte of a sent signature is made of
    MaxTamper,    \* edits the untrusted party makes
    TamperBytes,  \* bytes it writes into SSZ bytes
    TamperChars   \* characters it writes into JSON strings

VARIABLES
    phase,    \* "idle", "sent" or "received"
    format,   \* "ssz" or "json"
    sig,      \* the signature sent
    wire,     \* the bytes or string in transit
    tampers,  \* edits made so far
    result    \* what the decoder returned

vars == <<phase, format, sig, wire, tampers, result>>

Signatures == {[i \in 1..SigLen |-> b] : b \in SigBytes}

-----------------------------------------------------------------------------
(* Decode for BlsSignature: fixed length, 96 bytes.                        *)
SszFixedLen == SigLen

SigFromSszBytes(bytes) ==
    IF Len(bytes) # SigLen
    THEN Panic("copy_from_slice: source slice length does not match destination")
    ELSE Ok(bytes)

(* Encode for BlsSignature: ssz_append extends buf with the 96 bytes.       *)
SigSszAppend(buf, signature) == buf \o signature

(* Mutant: the string hex-decoded without its "0x" prefix stripped.        *)
SigDeserializeNoStrip(s) ==
    LET r == HexDecode(s)
    IN  CASE ~IsOk(r)          -> r
          [] Len(r.val) # SigLen
               -> Panic("copy_from_slice: source slice length does not match destination")
          [] OTHER             -> Ok(r.val)

(* Deserialize for BlsSignature: hex_decode, then copy_from_slice.         *)
SigDeserialize(s) ==
    LET r == TrinHexDecode(s)
    IN  CASE ~IsOk(r)          -> r
          [] Len(r.val) # SigLen
               -> Panic("copy_from_slice: source slice length does not match destination")
          [] OTHER             -> Ok(r.val)

(* Mutant: the digits written upper-case.                                   *)
SigSerializeUpper(signature) == <<"0", "x">> \o HexEncodeUpper(signature)

(* Serialize for BlsSignature: hex_encode of the 96 bytes.                 *)
SigSerialize(signature) == TrinHexEncode(signature)

-----------------------------------------------------------------------------
TypeOK ==
    /\ phase \in {"idle", "sent", "received"}
    /\ format \in {"ssz", "json"}
    /\ phase # "idle" => sig \in Signatures
    /\ \A i \in DOMAIN wire :
          wire[i] \in IF format = "ssz" THEN Byte
                       ELSE {LowerHex[j] : j \in 1..16} \cup {"x"} \cup TamperChars
    /\ tampers \in 0..MaxTamper
    /\ result.kind \in {"ok", "err", "panic"}

Init ==
    /\ phase = "idle"
    /\ format = "ssz"
    /\ sig = <<>>
    /\ wire = <<>>
    /\ tampers = 0
    /\ result = Err("none")

(* A producer encodes a signature in either format.                        *)
Send ==
    /\ phase = "idle"
    /\ \E s \in Signatures, f \in {"ssz", "json"} :
          /\ sig' = s
          /\ format' = f
          /\ wire' = IF f = "ssz" THEN SigSszAppend(<<>>, s) ELSE SigSerialize(s)
    /\ phase' = "sent"
    /\ UNCHANGED <<tampers, result>>

(* The untrusted party drops the last byte or character ...               *)
DropLast ==
    /\ phase = "sent" /\ tampers < MaxTamper /\ Len(wire) > 0
    /\ wire' = SubSeq(wire, 1, Len(wire) - 1)
    /\ tampers' = tampers + 1
    /\ UNCHANGED <<phase, format, sig, result>>

(* ... or appends one.                                                     *)
AppendOne ==
    /\ phase = "sent" /\ tampers < MaxTamper
    /\ \E c \in IF format = "ssz" THEN TamperBytes ELSE TamperChars :
          wire' = Append(wire, c)
    /\ tampers' = tampers + 1
    /\ UNCHANGED <<phase, format, sig, result>>

(* The consumer decodes with the decoder of the format.                   *)
Receive ==
    /\ phase = "sent"
    /\ result' = IF format = "ssz" THEN SigFromSszBytes(wire) ELSE SigDeserialize(wire)
    /\ phase' = "received"
    /\ UNCHANGED <<format, sig, wire, tampers>>

Finish ==
    /\ phase = "received"
    /\ phase' = "idle"
    /\ sig' = <<>>
    /\ wire' = <<>>
    /\ tampers' = 0
    /\ result' = Err("none")
    /\ UNCHANGED format

Next == Send \/ DropLast \/ AppendOne \/ Receive \/ Finish

Spec == Init /\ [][Next]_vars

-----------------------------------------------------------------------------
(* An unaltered signature decodes to itself in both formats: the SSZ       *)
(* bytes written by ssz_append and the "0x" string written by serialize   *)
(* are what from_ssz_bytes and deserialize read.                           *)
SignatureRoundTrip ==
    phase = "received" /\ tampers = 0 => IsOk(result) /\ result.val = sig

(* Spec 7: decoders never panic on adversarial input; a signature of the  *)
(* wrong length is an error.                                               *)
SignatureDecodeNeverPanics == phase = "received" => ~IsPanic(result)
=============================================================================
