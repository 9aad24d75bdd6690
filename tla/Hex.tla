-------------------------------- MODULE Hex --------------------------------
(***************************************************************************)
(* Hex framing (spec 4.5) as the hex crate implements it.  Strings are     *)
(* sequences of one-character strings.  The crate is a dependency, so the  *)
(* operators are written from the spec.                                    *)
(***************************************************************************)
EXTENDS Codec

LowerHex == <<"0", "1", "2", "3", "4", "5", "6", "7", "8", "9",
              "a", "b", "c", "d", "e", "f">>
UpperHex == <<"0", "1", "2", "3", "4", "5", "6", "7", "8", "9",
              "A", "B", "C", "D", "E", "F">>

(* The value of a hex digit, either case.                                  *)
IsHexDigit(c) == \E i \in 1..16 : c \in {LowerHex[i], UpperHex[i]}
DigitValue(c) == CHOOSE v \in 0..15 : c \in {LowerHex[v + 1], UpperHex[v + 1]}

(* Mutant: hex::encode_upper in place of hex::encode.                      *)
HexEncodeUpper(bs) ==
    [i \in 1..(2 * Len(bs)) |->
        LET b == bs[(i + 1) \div 2]
        IN  IF i % 2 = 1 THEN UpperHex[(b \div 16) + 1] ELSE UpperHex[(b % 16) + 1]]

(* hex::encode: two lower-case digits per byte, high nibble first.         *)
HexEncode(bs) ==
    [i \in 1..(2 * Len(bs)) |->
        LET b == bs[(i + 1) \div 2]
        IN  IF i % 2 = 1 THEN LowerHex[(b \div 16) + 1] ELSE LowerHex[(b % 16) + 1]]

(* hex::decode: an even number of hex digits of either case.               *)
HexDecode(s) ==
    CASE Len(s) % 2 # 0                           -> Err("OddLength")
      [] \E i \in 1..Len(s) : ~IsHexDigit(s[i])   -> Err("InvalidHexCharacter")
      [] OTHER -> Ok([j \in 1..(Len(s) \div 2) |->
                        16 * DigitValue(s[2 * j - 1]) + DigitValue(s[2 * j])])

(* trin_utils::bytes::hex_encode: "0x" and the lower-case digits.          *)
TrinHexEncode(bs) == <<"0", "x">> \o HexEncode(bs)

(* trin_utils::bytes::hex_decode: a leading "0x", of either case, is       *)
(* stripped when present, then the rest is hex-decoded.                    *)
TrinHexDecode(s) ==
    IF Len(s) >= 2 /\ s[1] = "0" /\ s[2] \in {"x", "X"}
    THEN HexDecode(SubSeq(s, 3, Len(s)))
    ELSE HexDecode(s)
=============================================================================
