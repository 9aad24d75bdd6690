---------------------------- MODULE PayloadStore ----------------------------
(***************************************************************************)
(* What the uTP test app promises the clients of its JSON-RPC interface,   *)
(* stated without tasks, sockets or packets: each app keeps a list of      *)
(* received payloads (the utp_payload store get_utp_payload reads), and a *)
(* payload is appended to an app's list only after some app has written   *)
(* it to that app, once per write.                                         *)
(***************************************************************************)
EXTENDS Naturals, Sequences, FiniteSets

CONSTANTS Apps, Payloads

VARIABLES
    written,   \* written[b][p]: how many times p was written to app b
    store      \* store[b]: the payloads app b received, in arrival order

vars == <<written, store>>

(* The number of copies of p in the sequence s.                            *)
Copies(s, p) == Cardinality({i \in DOMAIN s : s[i] = p})

Init ==
    /\ written = [b \in Apps |-> [p \in Payloads |-> 0]]
    /\ store = [b \in Apps |-> <<>>]

(* Some app finishes writing p to app b.                                   *)
Write(b, p) ==
    /\ written' = [written EXCEPT ![b][p] = @ + 1]
    /\ UNCHANGED store

(* App b appends p to its store: only a write not yet delivered.           *)
Deliver(b, p) ==
    /\ Copies(store[b], p) < written[b][p]
    /\ store' = [store EXCEPT ![b] = Append(@, p)]
    /\ UNCHANGED written

Next == \E b \in Apps, p \in Payloads : Write(b, p) \/ Deliver(b, p)

Spec == Init /\ [][Next]_vars
=============================================================================
