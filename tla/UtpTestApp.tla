----------------------------- MODULE UtpTestApp -----------------------------
(***************************************************************************)
(* The uTP test app of utp-testing/src/lib.rs: a set of apps, each with   *)
(* its JSON-RPC handlers, the tasks they spawn, the talk-request forwarder *)
(* and the utp_payload store.                                              *)
(*                                                                         *)
(*  - prepare_to_recv spawns a task that accepts a uTP connection with the *)
(*    given ConnectionId, reads it to EOF and pushes the data on the store.*)
(*  - send_utp_payload spawns a task that connects, writes the payload and *)
(*    shuts the stream down.                                               *)
(*  - get_utp_payload answers the last stored payload, or "false".         *)
(*  - The forwarder takes every discv5 TALKREQ, parses its protocol id,    *)
(*    and hands uTP ones to the uTP socket.  An id that does not parse     *)
(*    panics the forwarder task (the unwrap at line 106).                  *)
(*                                                                         *)
(* The uTP socket is a dependency outside the repository, a black box for  *)
(* the spec.  It is abstracted to three packets per transfer, each carried *)
(* as a discv5 talk request to the peer's forwarder: the connector's SYN,  *)
(* the acceptor's ACK, and one DATA packet holding the payload and FIN.    *)
(* A packet carries its sender's connection ids and reaches the connection *)
(* of the peer that sent it whose ids are those crossed (the socket keys   *)
(* connections by the whole ConnectionId).  A SYN that arrives before      *)
(* the matching accept_with_cid is held by the socket until that accept.  *)
(* Talk requests are delivered in order and not lost: uTP's retransmission *)
(* is not modelled.                                                        *)
(***************************************************************************)
EXTENDS Naturals, Sequences, FiniteSets

CONSTANTS
    Apps,            \* the test apps (model values)
    Cids,            \* u16 connection ids a client passes (a small set)
    Payloads,        \* payloads a client sends (model values)
    NoiseProtocols,  \* protocol ids of non-uTP talk requests peers send
    MaxRecv,         \* bound on prepare_to_recv calls, over all apps
    MaxSend,         \* bound on send_utp_payload calls, over all apps
    MaxNoise,        \* bound on non-uTP talk requests in a behaviour
    MaxTimeouts      \* bound on uTP errors the tasks unwrap in a behaviour

ASSUME Cardinality(Apps) >= 2
ASSUME {MaxRecv, MaxSend, MaxNoise, MaxTimeouts} \subseteq Nat

VARIABLES
    talkIn,     \* talkIn[a]: the discv5 talk_req_rx channel of app a
    forwarder,  \* forwarder[a]: "running" or "dead" (panicked)
    utpIn,      \* utpIn[a]: the utp_talk_req channel into a's uTP socket
    held,       \* held[a]: SYNs a's socket holds for a later accept
    recvs,      \* recvs[a]: receive tasks spawned by prepare_to_recv
    sends,      \* sends[a]: send tasks spawned by send_utp_payload
    store,      \* store[a]: the utp_payload Vec of app a
    noise,      \* non-uTP talk requests sent so far
    timeouts    \* uTP errors so far (connect timeouts, receive failures)

vars == <<talkIn, forwarder, utpIn, held, recvs, sends, store, noise, timeouts>>

NoPayload == "none"

(* The protocol ids ProtocolId::from_str accepts (trin_core, outside the   *)
(* repository): "utp" and the sub-network ids.                             *)
KnownProtocols == {"utp", "history", "state"}

ProtocolIdParses(proto) == proto \in KnownProtocols

CidRecords == [send : Cids, recv : Cids, peer : Apps]

Packets == [proto : {"utp"}, kind : {"syn", "ack", "data"}, from : Apps,
            send : Cids, recv : Cids, payload : Payloads \cup {NoPayload}]
           \cup [proto : NoiseProtocols, kind : {"talk"}, from : Apps,
                 send : {0}, recv : {0}, payload : {NoPayload}]

(* A uTP packet app `from` sends on the connection with ids cid.           *)
UtpPacket(kind, from, cid, payload) ==
    [proto |-> "utp", kind |-> kind, from |-> from, send |-> cid.send, recv |-> cid.recv,
     payload |-> payload]

(* The number of tasks in a family of per-app task sequences.             *)
TaskCount(tasks) == Cardinality(UNION {{<<a, i>> : i \in DOMAIN tasks[a]} : a \in Apps})

(* A packet reaches the connection cid when cid's peer sent it on the     *)
(* connection with the crossed ids.                                        *)
PktMatches(pkt, cid) == pkt.from = cid.peer /\ pkt.send = cid.recv /\ pkt.recv = cid.send

(* discv5 delivering a talk request to app b: queued on talk_req_rx, or    *)
(* dropped when the forwarder holding the receiver has died.               *)
Deliver(b, pkt) ==
    [talkIn EXCEPT ![b] = IF forwarder[b] = "running" THEN Append(@, pkt) ELSE @]

RecvPcs == {"start", "accept", "read", "store", "done", "failed"}
SendPcs == {"start", "connect", "write", "done", "failed"}

TypeOK ==
    /\ talkIn \in [Apps -> Seq(Packets)]
    /\ forwarder \in [Apps -> {"running", "dead"}]
    /\ utpIn \in [Apps -> Seq(Packets)]
    /\ held \in [Apps -> SUBSET Packets]
    /\ recvs \in [Apps -> Seq([call : CidRecords, cid : CidRecords, pc : RecvPcs,
                               data : Payloads \cup {NoPayload}])]
    /\ sends \in [Apps -> Seq([call : CidRecords, cid : CidRecords, pc : SendPcs,
                               payload : Payloads])]
    /\ store \in [Apps -> Seq(Payloads)]
    /\ noise \in 0..MaxNoise
    /\ timeouts \in 0..MaxTimeouts

(* run_test_app: discovery started, the forwarder spawned by start, the   *)
(* store empty; then the RPC server accepts calls.                         *)
Init ==
    /\ talkIn = [a \in Apps |-> <<>>]
    /\ forwarder = [a \in Apps |-> "running"]
    /\ utpIn = [a \in Apps |-> <<>>]
    /\ held = [a \in Apps |-> {}]
    /\ recvs = [a \in Apps |-> <<>>]
    /\ sends = [a \in Apps |-> <<>>]
    /\ store = [a \in Apps |-> <<>>]
    /\ noise = 0
    /\ timeouts = 0
-----------------------------------------------------------------------------
(* The ConnectionId the handlers build from the RPC arguments: send from  *)
(* cid_send, recv from cid_recv, peer from the ENR.                        *)
ConnectionId(call) == [send |-> call.send, recv |-> call.recv, peer |-> call.peer]

(* prepare_to_recv(src_enr, cid_send, cid_recv): a receive task is       *)
(* spawned and "true" answered at once, before the task has run.  An ENR  *)
(* that does not parse panics the handler before anything is spawned: no  *)
(* state changes, so that call is a stuttering step.                       *)
PrepareToRecv(a) ==
    /\ TaskCount(recvs) < MaxRecv
    /\ \E peer \in Apps \ {a}, s \in Cids, r \in Cids :
         LET call == [send |-> s, recv |-> r, peer |-> peer]
         IN  recvs' = [recvs EXCEPT ![a] = Append(@, [call |-> call, cid |-> ConnectionId(call),
                                                      pc |-> "start", data |-> NoPayload])]
    /\ UNCHANGED <<talkIn, forwarder, utpIn, held, sends, store, noise, timeouts>>

(* send_utp_payload(dst_enr, cid_send, cid_recv, payload): as above, with  *)
(* a send task.                                                            *)
SendUtpPayload(a) ==
    /\ TaskCount(sends) < MaxSend
    /\ \E peer \in Apps \ {a}, s \in Cids, r \in Cids, p \in Payloads :
         LET call == [send |-> s, recv |-> r, peer |-> peer]
         IN  sends' = [sends EXCEPT ![a] = Append(@, [call |-> call, cid |-> ConnectionId(call),
                                                      pc |-> "start", payload |-> p])]
    /\ UNCHANGED <<talkIn, forwarder, utpIn, held, recvs, store, noise, timeouts>>

(* get_utp_payload reads the store under the read lock and changes         *)
(* nothing: its answer is a state function, the last payload pushed or     *)
(* "false".  The hex encoding is left out: payloads are model values.      *)
GetUtpPayload(a) == IF store[a] = <<>> THEN "false" ELSE store[a][Len(store[a])]

(* A peer's discv5 sends app a a talk request of another protocol.          *)
NoiseTalk(a) ==
    /\ noise < MaxNoise
    /\ \E proto \in NoiseProtocols, from \in Apps \ {a} :
         talkIn' = Deliver(a, [proto |-> proto, kind |-> "talk", from |-> from,
                               send |-> 0, recv |-> 0, payload |-> NoPayload])
    /\ noise' = noise + 1
    /\ UNCHANGED <<forwarder, utpIn, held, recvs, sends, store, timeouts>>

(* Mutant: `if let` for `while let`: the forwarder handles one request    *)
(* and ends, dropping talk_req_rx.                                         *)
ForwardOnce(a) ==
    /\ forwarder[a] = "running"
    /\ talkIn[a] # <<>>
    /\ LET req == Head(talkIn[a]) IN
         utpIn' = [utpIn EXCEPT ![a] = IF req.proto = "utp" THEN Append(@, req) ELSE @]
    /\ forwarder' = [forwarder EXCEPT ![a] = "dead"]
    /\ talkIn' = [talkIn EXCEPT ![a] = <<>>]
    /\ UNCHANGED <<held, recvs, sends, store, noise, timeouts>>

(* One iteration of the forwarder loop of TestApp::start: the protocol id  *)
(* is parsed and unwrapped; a failure panics the task, which drops         *)
(* talk_req_rx and every request queued on it; a uTP request is sent on    *)
(* utp_talk_reqs_tx; any other is dropped.                                 *)
Forward(a) ==
    /\ forwarder[a] = "running"
    /\ talkIn[a] # <<>>
    /\ LET req == Head(talkIn[a]) IN
         IF ~ProtocolIdParses(req.proto)
         THEN /\ forwarder' = [forwarder EXCEPT ![a] = "dead"]
              /\ talkIn' = [talkIn EXCEPT ![a] = <<>>]
              /\ UNCHANGED utpIn
         ELSE /\ talkIn' = [talkIn EXCEPT ![a] = Tail(@)]
              /\ utpIn' = [utpIn EXCEPT ![a] = IF req.proto = "utp" THEN Append(@, req) ELSE @]
              /\ UNCHANGED forwarder
    /\ UNCHANGED <<held, recvs, sends, store, noise, timeouts>>
-----------------------------------------------------------------------------
(* The uTP socket of app a takes the next packet from utp_talk_req.        *)
(* A SYN goes to a waiting accept_with_cid, which answers with an ACK, or  *)
(* is held for a later accept; an ACK completes a waiting connect, or is  *)
(* dropped when its connect has timed out; a DATA packet completes the    *)
(* waiting read_to_eof.                                                    *)
SocketSyn(a, pkt) ==
    LET waiting == {j \in DOMAIN recvs[a] : recvs[a][j].pc = "accept" /\ PktMatches(pkt, recvs[a][j].cid)}
    IN  \/ \E j \in waiting :
             /\ recvs' = [recvs EXCEPT ![a][j].pc = "read"]
             /\ talkIn' = Deliver(pkt.from, UtpPacket("ack", a, recvs[a][j].cid, NoPayload))
             /\ UNCHANGED <<held, sends>>
        \/ /\ waiting = {}
           /\ held' = [held EXCEPT ![a] = @ \cup {pkt}]
           /\ UNCHANGED <<talkIn, recvs, sends>>

SocketAck(a, pkt) ==
    LET waiting == {i \in DOMAIN sends[a] : sends[a][i].pc = "connect" /\ PktMatches(pkt, sends[a][i].cid)}
    IN  /\ \/ \E i \in waiting : sends' = [sends EXCEPT ![a][i].pc = "write"]
           \/ waiting = {} /\ UNCHANGED sends
        /\ UNCHANGED <<talkIn, held, recvs>>

(* The connector writes only after the acceptor's ACK, which the          *)
(* acceptor sends as it starts reading; a DATA packet finds no reading     *)
(* connection only when the receive task has failed since, and the socket  *)
(* then discards it.                                                       *)
SocketData(a, pkt) ==
    LET reading == {j \in DOMAIN recvs[a] : recvs[a][j].pc = "read" /\ PktMatches(pkt, recvs[a][j].cid)}
    IN  /\ \/ \E j \in reading :
                recvs' = [recvs EXCEPT ![a][j] = [@ EXCEPT !.pc = "store", !.data = pkt.payload]]
           \/ reading = {} /\ UNCHANGED recvs
        /\ UNCHANGED <<talkIn, held, sends>>

Socket(a) ==
    /\ utpIn[a] # <<>>
    /\ utpIn' = [utpIn EXCEPT ![a] = Tail(@)]
    /\ LET pkt == Head(utpIn[a]) IN
         \/ pkt.kind = "syn" /\ SocketSyn(a, pkt)
         \/ pkt.kind = "ack" /\ SocketAck(a, pkt)
         \/ pkt.kind = "data" /\ SocketData(a, pkt)
    /\ UNCHANGED <<forwarder, store, noise, timeouts>>

-----------------------------------------------------------------------------
(* The receive task's utp.accept_with_cid(cid): takes a held SYN of the    *)
(* connection and answers with an ACK, or waits for one.                   *)
RecvAccept(a, j) ==
    /\ j \in DOMAIN recvs[a]
    /\ recvs[a][j].pc = "start"
    /\ LET cid == recvs[a][j].cid
           syns == {pkt \in held[a] : PktMatches(pkt, cid)}
       IN  \/ \E pkt \in syns :
                /\ held' = [held EXCEPT ![a] = @ \ {pkt}]
                /\ recvs' = [recvs EXCEPT ![a][j].pc = "read"]
                /\ talkIn' = Deliver(cid.peer, UtpPacket("ack", a, cid, NoPayload))
           \/ /\ syns = {}
              /\ recvs' = [recvs EXCEPT ![a][j].pc = "accept"]
              /\ UNCHANGED <<held, talkIn>>
    /\ UNCHANGED <<forwarder, utpIn, sends, store, noise, timeouts>>

(* accept_with_cid or read_to_eof returns an error (the connection is    *)
(* reset or goes idle) and its unwrap panics the receive task: nothing is  *)
(* pushed, and prepare_to_recv has long since answered "true".            *)
RecvFail(a, j) ==
    /\ j \in DOMAIN recvs[a]
    /\ recvs[a][j].pc \in {"accept", "read"}
    /\ timeouts < MaxTimeouts
    /\ recvs' = [recvs EXCEPT ![a][j].pc = "failed"]
    /\ timeouts' = timeouts + 1
    /\ UNCHANGED <<talkIn, forwarder, utpIn, held, sends, store, noise>>

(* Mutant: the buffer is pushed without waiting for read_to_eof.          *)
StorePayloadUnread(a, j) ==
    /\ j \in DOMAIN recvs[a]
    /\ recvs[a][j].pc \in {"read", "store"}
    /\ store' = [store EXCEPT ![a] = Append(@, recvs[a][j].data)]
    /\ recvs' = [recvs EXCEPT ![a][j].pc = "done"]
    /\ UNCHANGED <<talkIn, forwarder, utpIn, held, sends, noise, timeouts>>

(* Mutant: the task does not move past the push, and pushes again.        *)
StorePayloadTwice(a, j) ==
    /\ j \in DOMAIN recvs[a]
    /\ recvs[a][j].pc = "store"
    /\ store' = [store EXCEPT ![a] = Append(@, recvs[a][j].data)]
    /\ UNCHANGED <<talkIn, forwarder, utpIn, held, recvs, sends, noise, timeouts>>

(* payload_store.write().await.push(data[..n].to_vec()) once read_to_eof  *)
(* has returned the payload.                                               *)
StorePayload(a, j) ==
    /\ j \in DOMAIN recvs[a]
    /\ recvs[a][j].pc = "store"
    /\ store' = [store EXCEPT ![a] = Append(@, recvs[a][j].data)]
    /\ recvs' = [recvs EXCEPT ![a][j].pc = "done"]
    /\ UNCHANGED <<talkIn, forwarder, utpIn, held, sends, noise, timeouts>>

(* The send task's utp.connect_with_cid(cid): a SYN to the peer, then the  *)
(* wait for its ACK.                                                       *)
SendConnect(a, i) ==
    /\ i \in DOMAIN sends[a]
    /\ sends[a][i].pc = "start"
    /\ LET cid == sends[a][i].cid
       IN  talkIn' = Deliver(cid.peer, UtpPacket("syn", a, cid, NoPayload))
    /\ sends' = [sends EXCEPT ![a][i].pc = "connect"]
    /\ UNCHANGED <<forwarder, utpIn, held, recvs, store, noise, timeouts>>

(* connect_with_cid gives up waiting; its unwrap panics the send task.     *)
ConnectTimeout(a, i) ==
    /\ i \in DOMAIN sends[a]
    /\ sends[a][i].pc = "connect"
    /\ timeouts < MaxTimeouts
    /\ sends' = [sends EXCEPT ![a][i].pc = "failed"]
    /\ timeouts' = timeouts + 1
    /\ UNCHANGED <<talkIn, forwarder, utpIn, held, recvs, store, noise>>

(* conn.write(&payload) then conn.shutdown(): the payload and FIN go out   *)
(* as one DATA packet.                                                     *)
SendWrite(a, i) ==
    /\ i \in DOMAIN sends[a]
    /\ sends[a][i].pc = "write"
    /\ LET cid == sends[a][i].cid
       IN  talkIn' = Deliver(cid.peer, UtpPacket("data", a, cid, sends[a][i].payload))
    /\ sends' = [sends EXCEPT ![a][i].pc = "done"]
    /\ UNCHANGED <<forwarder, utpIn, held, recvs, store, noise, timeouts>>

-----------------------------------------------------------------------------
Next ==
    \/ \E a \in Apps : PrepareToRecv(a) \/ SendUtpPayload(a) \/ NoiseTalk(a) \/ Forward(a) \/ Socket(a)
    \/ \E a \in Apps, j \in 1..MaxRecv : RecvAccept(a, j) \/ RecvFail(a, j) \/ StorePayload(a, j)
    \/ \E a \in Apps, i \in 1..MaxSend : SendConnect(a, i) \/ ConnectTimeout(a, i) \/ SendWrite(a, i)

(* tokio polls every task that is ready: the forwarder, each socket and    *)
(* each spawned task makes progress while it can.  Client calls, peers'    *)
(* noise and uTP errors are not forced.                                    *)
Fairness ==
    /\ \A a \in Apps : WF_vars(Forward(a)) /\ WF_vars(Socket(a))
    /\ \A a \in Apps, j \in 1..MaxRecv : WF_vars(RecvAccept(a, j)) /\ WF_vars(StorePayload(a, j))
    /\ \A a \in Apps, i \in 1..MaxSend : WF_vars(SendConnect(a, i)) /\ WF_vars(SendWrite(a, i))

Spec == Init /\ [][Next]_vars /\ Fairness
-----------------------------------------------------------------------------
(* The clients asked for send task i of app a and receive task j of app b *)
(* to be the two ends of one connection: in the RPC calls each names the   *)
(* other app, and their ids are crossed.                                   *)
Matched(a, i, b, j) ==
    /\ i \in DOMAIN sends[a]
    /\ j \in DOMAIN recvs[b]
    /\ sends[a][i].call.peer = b
    /\ recvs[b][j].call.peer = a
    /\ sends[a][i].call.send = recvs[b][j].call.recv
    /\ sends[a][i].call.recv = recvs[b][j].call.send

(* Refinement mapping: a payload counts as written to b once a send task   *)
(* to b has written it and shut down; the store is the store.              *)
Written ==
    [b \in Apps |-> [p \in Payloads |->
        Cardinality({<<a, i>> \in Apps \X (1..MaxSend) :
                        /\ i \in DOMAIN sends[a]
                        /\ sends[a][i].call.peer = b
                        /\ sends[a][i].payload = p
                        /\ sends[a][i].pc = "done"})]]

Abstract == INSTANCE PayloadStore WITH written <- Written

(* The test app implements PayloadStore: the utp_payload store of an app   *)
(* grows one payload at a time, and only by a payload some app wrote to    *)
(* it and that the store does not already hold for that write: no receive  *)
(* task stores a payload twice or one nobody sent.                         *)
PayloadStoreRefined == Abstract!Spec

(* Receive task j of b has pushed the payload of send task i of a.        *)
Delivered(a, i, b, j) ==
    /\ i \in DOMAIN sends[a]
    /\ j \in DOMAIN recvs[b]
    /\ recvs[b][j].pc = "done"
    /\ recvs[b][j].data = sends[a][i].payload

(* Every transfer whose two ends were set up (prepare_to_recv at b and     *)
(* send_utp_payload at a, with crossed ids) ends with a's payload in b's   *)
(* store, whichever of the two RPC calls came first, unless the connect    *)
(* timed out or the receive task failed: the point of the forwarder ("Forward discv5 uTP packets to   *)
(* uTP socket") and of the test app.                                       *)
TransferCompletes ==
    \A a, b \in Apps : \A i \in 1..MaxSend, j \in 1..MaxRecv :
        Matched(a, i, b, j) ~>
            \/ Delivered(a, i, b, j)
            \/ i \in DOMAIN sends[a] /\ sends[a][i].pc = "failed"
            \/ j \in DOMAIN recvs[b] /\ recvs[b][j].pc = "failed"
=============================================================================
