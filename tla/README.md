# TLA+ models of trin's content codec, uTP test app and node startup

This directory holds TLA+ models of the trin Portal Network node in `src/`,
with TLC configurations that check them. `PROJECT.json` lists the components,
the runs, the mutants that show each property can fail, the map from every
modelled definition to its source lines, the findings, and the hazards.

## The system

| part | source | what it does |
|---|---|---|
| content-item codec | `ethportal-api/src/types/content_item.rs` | `ContentItem::encode/decode` for `Vec<Receipt>`, `Header`, `HeaderWithProof`, `BlockBody`, `EpochAccumulator`: SSZ containers and lists that wrap RLP |
| `SszOption<T>` | same file | an SSZ union `None` (selector 0) / `Some(T)` (selector 1) for the proof of a `HeaderWithProof` |
| `HistoryContentItem` serde | same file | serialize = encode into an empty `Vec`, then `"0x"` + lower-case hex; deserialize = strip `"0x"`, hex-decode, then try the five decoders in a fixed order and take the first `Ok` |
| `BlsSignature` | `trin-types/src/consensus/signature.rs` | 96-byte SSZ fixed-size type with a hex serde codec |
| uTP test app | `utp-testing/src/lib.rs` | JSON-RPC handlers that spawn uTP receive/send tasks, a shared payload store, a talk-request forwarder |
| node startup | `src/lib.rs` (`run_trin`) | builds discovery, uTP listener, storage, header oracle, the selected sub-networks, spawns the JSON-RPC server and handlers, waits until the server is live |
| history network | `trin-history/src/lib.rs` | installs the oracle's request sender, builds `HistoryNetwork`, spawns its event task and a 30 s heartbeat |
| state network | `trin-state/src/network.rs` | builds a `StateNetwork` (trie db, storage, overlay) |
| logger | `trin-utils/src/log.rs` | installs a tracing subscriber, ANSI if stdout is a terminal |

They interact as follows. Startup wires discovery, uTP and the sub-networks
together. Content items and signatures cross the JSON-RPC boundary as hex
strings. The codec is the only part whose behaviour depends on untrusted
input, and its decoders run on whatever a peer or client sends.

## Modules

| module | models | state / operators |
|---|---|---|
| `Codec` | result values shared by all decoders | `Ok`, `Err`, `Panic`, `OkRest`, byte helpers, little/big-endian integers |
| `Ssz` | the eth2_ssz / ssz_types operations the codec calls (from the spec: not in the repository) | offsets, `sanitize_offset`, byte lists, lists of fixed-size items, lists of variable-size items, two-field containers, fixed vectors, union selectors |
| `Rlp` | reth_rlp for the Ethereum types (from the spec) | each type is an RLP list of integer fields; Header has 1 field, Receipt 2, transaction 3, so that one decoder rejects another's bytes; decoders are prefix decoders returning the unread rest |
| `ContentItem` | the `ContentItem` impls and `SszOption` | one encode and one decode operator per type; encode returns the new `buf` or a `Panic` |
| `Hex` | `hex::encode/decode`, `trin_utils::bytes::hex_encode/decode` (from the spec) | strings are sequences of one-character strings |
| `HistoryContentItem` | serde impls of the enum | `Serialize(k, item)`, `Deserialize(s)` with trial decoding; a decoder's panic ends `Deserialize` |
| `ContentExchange` | one item crossing the JSON boundary | variables `phase`, `item`, `json`, `tampers`, `result`; actions `SerializeItem`, `CorruptChar`, `AppendByte`, `DropByte`, `DeserializeItem`, `Finish` |
| `MCContentExchange` | bounds for TLC | small SSZ bounds and value sets |
| `SignatureExchange` | `BlsSignature` codec, a signature sent as SSZ or JSON and edited in transit | variables `phase`, `format`, `sig`, `wire`, `tampers`, `result`; actions `Send`, `DropLast`, `AppendOne`, `Receive`, `Finish` |
| `MCSignatureExchange` | bounds for TLC | 2-byte signatures |
| `UtpTestApp` | `utp-testing/src/lib.rs`: apps, their RPC handlers, spawned tasks, forwarder and payload store | variables `talkIn` (discv5's `talk_req_rx`), `forwarder`, `utpIn` (the `utp_talk_req` channel), `held` (SYNs waiting for an accept), `recvs` and `sends` (spawned tasks with the RPC arguments, the `ConnectionId` and a program counter), `store` (`utp_payload`); actions `PrepareToRecv`, `SendUtpPayload`, `NoiseTalk`, `Forward`, `Socket`, `RecvAccept`, `RecvFail`, `StorePayload`, `SendConnect`, `ConnectTimeout`, `SendWrite` |
| `PayloadStore` | what the test app promises: a payload enters an app's store only after it was written to that app, once per write | variables `written`, `store`; actions `Write`, `Deliver` |
| `MCUtpTestApp` | bounds for TLC | two apps, ids {1, 2}, two payloads, symmetry |
| `NodeStartup` | `init_tracing_logger`, `run_trin`, `initialize_history_network` with its two spawns, `StateNetwork::new`, the JSON-RPC server thread and the tasks that serve requests | variables `logger` (set by `InitTracingLogger`), `networks`, `metrics` (configuration, chosen in `Init`), `pc` (`run_trin`), `handles` (sub-networks whose init returned `Some`), `oracleTx`, `tasks`, `netPc`, `ticks`, `server`, `liveQ`, `liveTx`, `liveClosed`, `req`; `InitTracingLogger`, one action per startup step, `ServerLive`, `ServerExit`, `SpawnHistoryEvents`, `SpawnStateEvents`, `PingBootnodes`, `HeartbeatTick`, `ClientRequest`, `TalkRequest`, `OracleRequest`, `ProcessJsonRpcRequest`, `RouteTalkRequest`, `HandleClientQuery`, `HandleTalkRequest` |
| `MCNodeStartup` | bounds for TLC | two requests |

The codec is pure. The harness modules give it a state machine whose
reachable states are exactly the inputs the deserializer can meet: a value a
producer built, what the encoder made of it, and what up to `MaxTamper` edits
made of that. An action takes the whole handler: `SerializeItem` is the
whole `serialize`, a panic included; `DeserializeItem` is the whole
`deserialize`, all trials included.

### The uTP test app

Each app runs its tasks on tokio:
- the forwarder spawned by `TestApp::start`;
- the uTP socket's packet loop;
- one receive task per `prepare_to_recv`;
- one send task per `send_utp_payload`.

A task's program counter follows its `.await` points:

| task | pc values |
|---|---|
| receive | `start` → `accept` → `read` → `store` → `done` |
| send | `start` → `connect` → `write` → `done` or `failed` |

Each action is one step of one task, from one `.await` to the next. The RPC
handlers answer `"true"` as soon as they have spawned their task.
`get_utp_payload` changes nothing, so it is the state function
`GetUtpPayload`. An ENR that does not parse panics a handler before it
changes anything, so that call is a stuttering step.

The uTP socket belongs to a crate outside the repository, and the spec treats
uTP as a black box. It is abstracted as follows:

- A transfer is three packets: the connector's SYN, the acceptor's ACK, and
  one DATA packet that carries the payload and FIN.
- Each packet travels as a discv5 talk request to the peer and reaches that
  peer's socket only through its forwarder.
- A packet reaches the connection whose `ConnectionId` crosses the sender's.
- A SYN that arrives before the matching `accept_with_cid` is held until the
  accept.
- Talk requests are neither lost nor reordered. uTP's retransmission is not
  modelled.
- Two uTP failures are modelled. They are the errors the tasks' unwraps turn
  into panics, and together they are bounded by `MaxTimeouts`:
  - `ConnectTimeout`: `connect_with_cid` gives up, which kills the send task.
  - `RecvFail`: `accept_with_cid` or `read_to_eof` returns an error, which
    kills the receive task (lines 61-63). Nothing is pushed, although
    `prepare_to_recv` has already answered `"true"`.
- When a receive task has failed, the sender's DATA finds no reading
  connection. The socket discards it, so later packets are not blocked.
- `ProtocolId::from_str`, also outside the repository, accepts `utp` and the
  sub-network ids.

Fairness: weak fairness of every task step (`Forward`, `Socket`, and each
receive and send task's steps). tokio polls every spawned task that is ready,
and each of these steps stays enabled until it is taken. Client calls, peers'
talk requests and uTP failures get no fairness: a client need not call, and a
connection need not fail.

`UtpTestApp` is shown to implement `PayloadStore` with this mapping:
- `written[b][p]` is the number of send tasks to `b` with payload `p` that
  have written and shut down;
- `store` maps to itself.

### Node startup

main calls `init_tracing_logger` first and then awaits `run_trin`; main
itself is not in the repository. `InitTracingLogger` installs the logger
with ANSI as `DetectAnsiSupport` decides:
- on Windows, whether `enable_ansi_support` succeeds;
- elsewhere, false unless stdout is a terminal, and then whether `TERM` is
  set to something other than `dumb`.

The build target, the terminal and `TERM` are chosen in the step.

`run_trin` is one async task. Its `pc` walks its steps in code order:
`bootnodes`, `discovery`, `metrics`, `utp`, `datadir`,
`accumulator`, `state`, `history`, `history_new`, `server`, `spawn`, `wait`.
Every `?` is an exit to `err` and every `.unwrap()` an exit to `panic`
(`Advance`). The two branches of the ephemeral data-dir choice have the same
exits, so the choice is left out. The sub-network branches follow
`trin_config.networks`:

- The state branch is `StateNetwork::new` and its two `?` exits.
- The history branch is `initialize_history_network`. It first gives the
  header oracle its history sender (`SetOracleHistoryTx`, trin-history
  line 50). Then `HistoryNetwork::new` runs with its `?` exit. Last,
  `spawn_history_network` and `spawn_history_heartbeat` spawn their tasks.

`LaunchJsonRpcServer` creates the capacity-1 `live_server` channel and hands
its sender to the blocking server thread. `SpawnTasks` is lines 146-177: the
spawns return at once, so there is no await between them. The wrappers at
lines 179-184 only await network tasks that are already running and are left
out.
`AwaitLiveServer` is `recv().await`. It is enabled by a message, or by the
server thread having dropped its sender; either way it closes the receiver
and returns `Ok`.

The code this hands work to is not in the repository:
`launch_jsonrpc_server`, `JsonRpcHandler`, `PortalnetEvents`, the
sub-networks' request handlers, `HistoryEvents`, and
`initialize_state_network` with the state network task and its events
task (only `trin-state/src/network.rs` is in the repository). They are
modelled from
what `run_trin` gives them, and `PROJECT.json` marks them spec_modelled.

- The server thread either sends `true` or dies before sending.
- The RPC handler forwards a sub-network request to that network's sender
  when it is `Some`, and answers it with an error otherwise.
- The events router forwards a sub-network's talk request to that
  network's event sender, `history_event_tx` or `state_event_tx`
  (`run_trin` hands it both at lines 164-175). It forwards when the sender
  is `Some` and drops the request otherwise.
- A successful `initialize_state_network` returns a running state network
  task, as its history counterpart does. That task spawns the reader of
  `state_event_rx` (`SpawnStateEvents`).

A request is a model value. Its place is the channel it sits in, and all
channels except `live_server` are unbounded, so sends never block.

Two files of the repository do not agree with each other.
`run_trin` destructures a 5-tuple from `initialize_history_network(..).await`
and passes it `utp_listener_tx`. The `initialize_history_network` in
`trin-history/src/lib.rs` takes a `UtpSocket` and returns
`anyhow::Result` of a 4-tuple. The two cannot have been built together. The
model takes the trin-history version and lets its `Err` end `run_trin` with
`err`, which is what a `?` at the call would do.

Fairness: weak fairness of `run_trin`'s steps (main awaits it), of the
server thread (`spawn_blocking` runs it), and of every spawned task's step.
Clients, peers, the oracle and the heartbeat get none. The heartbeat is an
infinite 30 s loop that only logs; it is bounded by `MaxTicks`.

### Abstractions


- Byte strings are sequences of integers in 0..255.
- Hashes are `HashLen` copies of one byte.
- An RLP struct is a list of integer fields.
- SSZ offsets of 2^24 or more are saturated to 2^24. Every check compares an
  offset with a length first, and every length in a model is far smaller, so
  the saturated offset fails where the real one would.
- `Option` is `<<>>` or `<<x>>`.

## Runs

Passing runs:

- `dispatch_stability`: HeaderWithProof, Header and BlockBody come back from
  the trial decoder as the variant and value sent (`DispatcherStability`).
- `tamper`: HeaderWithProof, EpochAccumulator and Receipts, up to two edits.
  Receipts panic in serialize; those exchanges end in `aborted`.
  - `EpochAccumulatorCanonical`: whatever EpochAccumulator::decode accepts
    re-encodes to the same bytes.
  - `ValueRoundTrip`: before any edit, the bytes serialized decode with the
    variant's own decoder to the value sent. For Header and BlockBody this
    follows from `DispatcherStability`.
- `sig_roundtrip`: an unaltered BlsSignature round-trips in both formats.
- `utp_safety`: two apps, two receives and one send in total, one uTP
  failure (a connect timeout or a receive task failing at accept or read),
  and one talk request of another protocol (`history` or an unknown one).
  - `PayloadStoreRefined`: the store implements `PayloadStore`. A payload
    is stored only after a write of it to that app, and at most once per
    write. This must hold while two receive tasks wait for a connection,
    for a SYN held before its accept, for an ACK that arrives after a
    connect timed out, and for DATA sent to a receive task that has failed.
- `utp_liveness`: one receive, one send, a `history` talk request, one
  uTP failure. `TransferCompletes`: a transfer whose ends were set up
  ends with the payload in the receiver's store, whichever RPC call came
  first, unless its connect timed out or its receive task failed. Neither
  failure blocks the socket.
- `node_startup`: every network selection, metrics on or off, every
  logger environment, every exit of every startup step, a server thread
  that comes up or dies, two requests from clients, peers or the oracle.
  - `StartupReturns`: `run_trin` always returns. The wait at line 186 also
    ends when the server thread dies before sending.
  - `RequestsAnswered`: every request that entered the node is answered, or
    dropped by the router for a network that is not selected, unless
    startup failed. Requests can come from a client, from a peer's history
    or state talk request, or from the header oracle. The property includes
    requests that wait in a channel before its reader exists:
    - the history JSON-RPC channel, which the oracle can write from
      trin-history line 50;
    - `state_event_tx`, whose reader the state network task spawns.
    It also includes requests for a sub-network that was not selected.

Violation runs, each one property the spec states and the code breaks (see
`findings`):

| run | property | what TLC shows |
|---|---|---|
| `serialize_receipts` | `SerializeNeverPanics` | `copy_from_slice` into an empty buf |
| `dispatch_epoch` | `DispatcherStability` | a serialized EpochAccumulator panics in `BlockBody::decode` |
| `option_trailing` | `HeaderWithProofCanonical` | bytes after selector 0 accepted |
| `oversize_body` | `ValueRoundTrip` | transactions past the bound dropped |
| `sig_panic` | `SignatureDecodeNeverPanics` | wrong-length signature panics |
| `utp_forwarder` | `TransferCompletes` | one talk request with an unknown protocol id panics the forwarder (`lib.rs:106`); the SYN or ACK sent to that app is then lost, no DATA is ever sent, and the transfer never completes. The trace needs a connect that waits forever for its ACK: `ConnectTimeout` is a fault without fairness, although the comment at line 102 says the task forwards uTP packets |

Two more divergences are plain from the code and have no run:
- `Header::decode` ignores bytes after the header (line 73). This is the
  same acceptance of trailing bytes that `option_trailing` shows.
- `strip_prefix("0x")` is case-sensitive (line 232), while spec 4.5 strips
  the prefix case-insensitively.

One corrupted character of a serialized HeaderWithProof panics in
`BlockBody::decode` for the same reason as `dispatch_epoch`. So does an
empty receipt list: it serializes to `"0x"`, and the trial decoder panics on
it before the Receipts trial.

`recv` returning `None` at line 186 is discarded with `let _`. `run_trin`
therefore returns `Ok` after the server thread died without coming up
(`ServerExit`, then `AwaitLiveServer`). Nothing in the code, the spec or the
tests says that `Ok` means the server is live, so there is no run for it.

The `utp_forwarder` finding depends on `ProtocolId::from_str` rejecting ids it
does not know. That crate is outside the repository: it is trin_core's
`FromStr`, which returns `Err` for any id other than the listed sub-networks
and uTP.

## Bounds

The SSZ bounds are scaled down; `MCContentExchange` lists them:

| bound | value | real value |
|---|---|---|
| HeaderMax | 3 | 2048 |
| ReceiptMax | 5 | 2^27 |
| ReceiptListMax | 2 | 16384 |
| TxMax | 7 | 2^24 |
| TxListMax | 2 | 16384 |
| UnclesMax | 7 | 131072 |
| EpochMax | 2 | 8192 |
| ProofLen | 2 | 15 |
| HashLen | 1 | 32 |
| U256Len | 1 | 32 |

They keep every comparison's two sides reachable:

- A list can be empty, full, or one past full. `MaxItems` 2 reaches full;
  `oversize_body` uses 3.
- Byte lists are just long enough for the encodings built, so truncation
  happens only where the bound is exceeded on purpose.
- Field values 1 and 200 reach both the single-byte and the string form of
  an RLP integer.
- Tamper characters `0`, `2`, `c` can turn selectors into 0, 1 and invalid,
  and shift offsets.
- Signatures are 2 bytes instead of 96; the length check is the same
  comparison.

The `UtpTestApp` bounds:

- Two apps and connection ids {1, 2}. Clients can pass crossed, equal or
  mismatched ids.
- `utp_safety` allows two receives and one send. Two receive tasks can
  wait for one write, which is the case where "at most once per write" can
  fail. The one failure lets an ACK arrive for a connect that has already
  failed, or a DATA packet arrive for a receive task that has. The run has
  94k states and takes about 15 s.
- With two receives, two sends and no talk request of another protocol,
  `PayloadStoreRefined` also holds (826k states, about 2.7 minutes). Adding
  an unknown-protocol request raises that to 4.5M states and 18 minutes.
- The liveness runs need one pair of ends. Their nondeterminism is:
  - the ids;
  - the order of the two RPC calls;
  - where the talk request falls relative to the transfer's packets;
  - in `utp_liveness`, whether the connect times out.
- A liveness run with two sends takes over 14 minutes without symmetry,
  and symmetry cannot be used with liveness. Two sends with the same ids
  also compete for one ACK.

The `NodeStartup` bounds:

- `Init` enumerates every configuration: `networks` is any subset of
  {history, state}, and metrics is on or off.
- Every startup step takes each of its exits.
- Two requests suffice for these cases:
  - a request that arrives before the handler of its channel is spawned;
  - requests to different networks;
  - an oracle request next to a client or peer request.
- `MaxTicks` 1 runs the heartbeat once.
- The run has 70k states and takes about 26 s.

## Not modelled

- The logger's subscriber and what it writes are I/O. Only the decision
  it takes (ANSI or plain) is modelled.
- `tempfile::TempDir::new_in(&path)?` at `src/lib.rs:65` drops its guard at
  once, which deletes the directory it made. An ephemeral node's data stays
  in `path`. What `db::data_dir` returns and what outlives the process are
  outside the repository and outside a model of one run, so startup keeps
  only that line's `?` exit.
- In the test app:
  - Why a uTP connection fails. An idle or reset connection is modelled only
    by its effect: the task's unwrap panics. Lost packets and retransmission
    are not modelled.
  - The size of payloads against the 16384-byte receive buffer.
  Both belong to the uTP crate, which the spec treats as a black box.
- In startup, what discovery, the uTP listener, storage and the overlay do
  once built is outside the repository. Startup keeps only their exits and
  the channels `run_trin` connects them with.
- The ctrl-c wait of the history network task never ends in the model;
  shutdown is out of scope.
