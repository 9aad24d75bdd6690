------------------------ MODULE MCSignatureExchange ------------------------
(* SignatureExchange for TLC: 2-byte signatures instead of 96.              *)
EXTENDS SignatureExchange

MCSigLen      == 2
MCSigBytes    == {0, 171, 255}
MCTamperBytes == {0, 255}
MCTamperChars == {"0", "x"}
=============================================================================
