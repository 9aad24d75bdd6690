--------------------------- MODULE MCNodeStartup ---------------------------
(* NodeStartup with two requests as model values.                         *)
EXTENDS NodeStartup

CONSTANTS q1, q2

MCRequests == {q1, q2}
=============================================================================
