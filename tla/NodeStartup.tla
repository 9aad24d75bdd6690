---------------------------- MODULE NodeStartup ----------------------------
(***************************************************************************)
(* Node startup: run_trin (src/src/lib.rs) with the sub-network            *)
(* initialisation it calls (initialize_history_network and its two         *)
(* spawns in trin-history/src/lib.rs, StateNetwork::new in                 *)
(* trin-state/src/network.rs), the JSON-RPC server thread it launches,     *)
(* and the tasks it spawns that serve requests once the node runs.         *)
(*                                                                         *)
(* run_trin is one async task whose steps are the pc values below; every   *)
(* `?` is an "err" exit and every `.unwrap()` a "panic" exit.  Data that   *)
(* does not change the control (addresses, paths, keys, ENRs) is left out: *)
(* both branches of the ephemeral data_dir choice have the same exits.     *)
(* A request is a model value whose place is one of the channels it        *)
(* travels through; the channels are unbounded mpsc channels, so a send    *)
(* never blocks and what the properties need of them is where a request   *)
(* is, not its position.                                                   *)
(***************************************************************************)
EXTENDS Naturals, FiniteSets

CONSTANTS
    Requests,   \* client, peer and oracle requests, model values
    MaxTicks    \* bound on heartbeat ticks (the loop is infinite)

Networks == {"history", "state"}
Done == {"ok", "err", "panic"}

VARIABLES
    logger,     \* the tracing subscriber: "none", or with ANSI on or off
    networks,   \* trin_config.networks, fixed at startup
    metrics,    \* trin_config.enable_metrics_with_url.is_some()
    pc,         \* where run_trin is, or how it returned
    handles,    \* the sub-networks whose init returned Some(..) senders
    oracleTx,   \* header_oracle.history_jsonrpc_tx is Some
    tasks,      \* the tokio tasks spawned so far
    netPc,      \* the history network task of spawn_history_network
    ticks,      \* heartbeat ticks
    server,     \* launch_jsonrpc_server's thread
    liveQ,      \* messages in the live_server channel (capacity 1)
    liveTx,     \* the server thread still holds live_server_tx
    liveClosed, \* run_trin closed live_server_rx
    req         \* req[r]: where request r is, and the network it is for

vars == <<logger, networks, metrics, pc, handles, oracleTx, tasks, netPc, ticks,
          server, liveQ, liveTx, liveClosed, req>>

config == <<logger, networks, metrics>>
startup == <<pc, handles, oracleTx>>
live == <<server, liveQ, liveTx, liveClosed>>

(* Where a request can be: not yet made; in the discv5 talk channel, the  *)
(* portal JSON-RPC channel, a sub-network's JSON-RPC channel or event    *)
(* channel; answered; or dropped by the event router.                     *)
Places == {"unsent", "talk", "portal", "history", "state", "historyEvents",
           "stateEvents", "answered", "dropped"}
Targets == Networks \cup {"none"}
Pending == {"talk", "portal", "history", "state", "historyEvents", "stateEvents"}

(* The task running a sub-network's handle_client_queries.                 *)
HandlerOf == [history |-> "historyHandler", state |-> "stateHandler"]

(* A sub-network's talk-request channel (its event_tx) and the task that   *)
(* reads it.                                                               *)
EventsOf == [history |-> "historyEvents", state |-> "stateEvents"]

TaskNames == {"utp", "historyNet", "heartbeat", "historyEvents", "rpc",
              "events", "historyHandler", "stateHandler", "stateNet",
              "stateEvents"}

TypeOK ==
    /\ logger \in {"none", "plain", "ansi"}
    /\ networks \subseteq Networks /\ metrics \in BOOLEAN
    /\ pc \in {"logger", "bootnodes", "discovery", "metrics", "utp", "datadir",
               "accumulator", "state", "history", "history_new", "server",
               "spawn", "wait"} \cup Done
    /\ handles \subseteq networks /\ oracleTx \in BOOLEAN
    /\ tasks \subseteq TaskNames
    /\ netPc \in {"start", "ping", "ctrl_c"} /\ ticks \in 0..MaxTicks
    /\ server \in {"none", "starting", "live", "exited"}
    /\ liveQ \in 0..1 /\ liveTx \in BOOLEAN /\ liveClosed \in BOOLEAN
    /\ req \in [Requests -> [at : Places, net : Targets]]

Init ==
    /\ networks \in SUBSET Networks
    /\ metrics \in BOOLEAN
    /\ logger = "none"
    /\ pc = "logger"
    /\ handles = {} /\ oracleTx = FALSE
    /\ tasks = {} /\ netPc = "start" /\ ticks = 0
    /\ server = "none" /\ liveQ = 0 /\ liveTx = FALSE /\ liveClosed = FALSE
    /\ req = [r \in Requests |-> [at |-> "unsent", net |-> "none"]]

-----------------------------------------------------------------------------
(* One step of run_trin from `from`: on to `to`, or out through one of     *)
(* the exits `fails` the step's `?` and unwrap calls have.                 *)
Advance(from, to, fails) ==
    /\ pc = from
    /\ pc' \in {to} \cup fails

(* A step that touches nothing but pc.                                     *)
Step(from, to, fails) ==
    /\ Advance(from, to, fails)
    /\ UNCHANGED <<config, handles, oracleTx, tasks, netPc, ticks,
                   live, req>>

(* The value of TERM as env::var sees it: unset (or not unicode), "dumb",  *)
(* or a terminal that understands ANSI escapes.                            *)
TermValues == {"unset", "dumb", "xterm"}

(* detect_ansi_support: on Windows, whether enable_ansi_support succeeds;  *)
(* elsewhere false unless stdout is a terminal, then whether TERM is set   *)
(* to something other than "dumb".                                         *)
DetectAnsiSupport(windows, enabled, isTerminal, term) ==
    IF windows THEN enabled
    ELSE isTerminal /\ term \notin {"unset", "dumb"}

(* init_tracing_logger, which main calls before run_trin: installs the     *)
(* global fmt subscriber, with ANSI as detected.                           *)
InitTracingLogger ==
    /\ pc = "logger" /\ pc' = "bootnodes"
    /\ \E windows, enabled, isTerminal \in BOOLEAN, term \in TermValues :
          logger' = IF DetectAnsiSupport(windows, enabled, isTerminal, term)
                    THEN "ansi" ELSE "plain"
    /\ UNCHANGED <<networks, metrics, handles, oracleTx, tasks, netPc, ticks,
                   live, req>>

ParseBootnodes == Step("bootnodes", "discovery", {"err"})

(* Discovery::new(..).unwrap() and discovery.start().await.unwrap().       *)
StartDiscovery == Step("discovery", "metrics", {"panic"})

(* prometheus_exporter::start(addr).unwrap(), only with a metrics url.     *)
StartPrometheus == Step("metrics", "utp", IF metrics THEN {"panic"} ELSE {})

SpawnUtpListener ==
    /\ Advance("utp", "datadir", {})
    /\ tasks' = tasks \cup {"utp"}
    /\ UNCHANGED <<config, handles, oracleTx, netPc, ticks, live, req>>

(* db::data_dir(..).unwrap(), then TempDir::new_in(..)? or                 *)
(* create_dir_all(..)?: the same exits on both branches.                   *)
SetupDataDir == Step("datadir", "accumulator", {"panic", "err"})

LoadMasterAccumulator == Step("accumulator", "state", {"err"})

(* Mutant: the state network is initialised whatever networks holds.      *)
InitializeStateNetworkUnselected ==
    /\ pc = "state"
    /\ \/ pc' = "err" /\ UNCHANGED <<handles, tasks>>
       \/ pc' = "history" /\ handles' = handles \cup {"state"} /\ tasks' = tasks \cup {"stateNet"}
    /\ UNCHANGED <<config, oracleTx, netPc, ticks, live, req>>

(* trin_config.networks.iter().any(|val| val == ..): whether run_trin     *)
(* initialises a sub-network or takes (None, None, None, None, None).     *)
Selected(n) == n \in networks

(* StateNetwork::new builds rocksdb, the trie, storage and the overlay;   *)
(* only setup_rocksdb(..)? and PortalStorage::new(..)? can end it.        *)
StateNetworkNewExits == {"err"}

(* initialize_state_network, if the state network is selected: it        *)
(* returns the handler, the network task and the senders, as its history  *)
(* counterpart does.                                                       *)
InitializeStateNetwork ==
    /\ pc = "state"
    /\ IF Selected("state")
         THEN \/ pc' \in StateNetworkNewExits /\ UNCHANGED <<handles, tasks>>
              \/ /\ pc' = "history"
                 /\ handles' = handles \cup {"state"}
                 /\ tasks' = tasks \cup {"stateNet"}
         ELSE pc' = "history" /\ UNCHANGED <<handles, tasks>>
    /\ UNCHANGED <<config, oracleTx, netPc, ticks, live, req>>

(* initialize_history_network, first half: the oracle gets the history    *)
(* JSON-RPC sender before the network exists.                              *)
SetOracleHistoryTx ==
    /\ Advance("history", IF Selected("history") THEN "history_new" ELSE "server", {})
    /\ oracleTx' = Selected("history")
    /\ UNCHANGED <<config, handles, tasks, netPc, ticks, live, req>>

(* initialize_history_network, second half: HistoryNetwork::new(..).await? *)
(* then spawn_history_network and spawn_history_heartbeat spawn their     *)
(* tasks before the senders are returned.                                  *)
NewHistoryNetwork ==
    /\ Advance("history_new", "server", {"err"})
    /\ IF pc' = "server"
         THEN /\ handles' = handles \cup {"history"}
              /\ tasks' = tasks \cup {"historyNet", "heartbeat"}
         ELSE UNCHANGED <<handles, tasks>>
    /\ UNCHANGED <<config, oracleTx, netPc, ticks, live, req>>

(* The live_server channel of capacity 1, and spawn_blocking of           *)
(* launch_jsonrpc_server, which takes live_server_tx.                      *)
LaunchJsonRpcServer ==
    /\ Advance("server", "spawn", {})
    /\ server' = "starting" /\ liveTx' = TRUE
    /\ UNCHANGED <<config, handles, oracleTx, tasks, netPc, ticks,
                   liveQ, liveClosed, req>>

(* The JsonRpcHandler, the handlers of the sub-networks that returned     *)
(* Some(handler), and the portal events router; tokio::spawn returns at   *)
(* once, so there is no await between them.                                *)
SpawnTasks ==
    /\ Advance("spawn", "wait", {})
    /\ tasks' = tasks \cup {"rpc", "events"} \cup {HandlerOf[n] : n \in handles}
    /\ UNCHANGED <<config, handles, oracleTx, netPc, ticks, live, req>>

(* Mutant: run_trin waits for a message and not for a closed channel.     *)
AwaitLiveServerSome ==
    /\ liveQ > 0
    /\ Advance("wait", "ok", {})
    /\ liveQ' = 0 /\ liveClosed' = TRUE
    /\ UNCHANGED <<config, handles, oracleTx, tasks, netPc, ticks,
                   server, liveTx, req>>

(* let _ = live_server_rx.recv().await; live_server_rx.close(); Ok(..):    *)
(* recv returns with the server's message, or with None once the server   *)
(* thread has dropped its sender; either way run_trin returns Ok.          *)
AwaitLiveServer ==
    /\ liveQ > 0 \/ ~liveTx
    /\ Advance("wait", "ok", {})
    /\ liveQ' = 0 /\ liveClosed' = TRUE
    /\ UNCHANGED <<config, handles, oracleTx, tasks, netPc, ticks,
                   server, liveTx, req>>

RunTrin ==
    \/ ParseBootnodes \/ StartDiscovery \/ StartPrometheus \/ SpawnUtpListener
    \/ SetupDataDir \/ LoadMasterAccumulator \/ InitializeStateNetwork
    \/ SetOracleHistoryTx \/ NewHistoryNetwork \/ LaunchJsonRpcServer
    \/ SpawnTasks \/ AwaitLiveServer

-----------------------------------------------------------------------------
(* launch_jsonrpc_server on its blocking thread: it binds its transport    *)
(* and sends `true` on live_server_tx, then serves; or it fails before     *)
(* sending, and the thread ends, dropping the sender.                      *)
ServerLive ==
    /\ server = "starting"
    /\ server' = "live" /\ liveQ' = 1
    /\ UNCHANGED <<config, startup, tasks, netPc, ticks, liveTx,
                   liveClosed, req>>

ServerExit ==
    /\ server = "starting"
    /\ server' = "exited" /\ liveTx' = FALSE
    /\ UNCHANGED <<config, startup, tasks, netPc, ticks, liveQ,
                   liveClosed, req>>

(* Mutant: the history network task never spawns HistoryEvents.          *)
SpawnHistoryEventsMissing ==
    /\ "historyNet" \in tasks /\ netPc = "start"
    /\ netPc' = "ping"
    /\ UNCHANGED <<config, startup, tasks, ticks, live, req>>

(* The tasks spawn_history_network spawns: HistoryEvents first, then the  *)
(* bootnode pings, then a wait for ctrl-c.                                 *)
SpawnHistoryEvents ==
    /\ "historyNet" \in tasks /\ netPc = "start"
    /\ netPc' = "ping" /\ tasks' = tasks \cup {"historyEvents"}
    /\ UNCHANGED <<config, startup, ticks, live, req>>

(* The state network task spawns the reader of state_event_rx.           *)
SpawnStateEvents ==
    /\ "stateNet" \in tasks /\ "stateEvents" \notin tasks
    /\ tasks' = tasks \cup {"stateEvents"}
    /\ UNCHANGED <<config, startup, netPc, ticks, live, req>>

PingBootnodes ==
    /\ netPc = "ping" /\ netPc' = "ctrl_c"
    /\ UNCHANGED <<config, startup, tasks, ticks, live, req>>

(* spawn_history_heartbeat: one tick of the 30 s interval loop.            *)
HeartbeatTick ==
    /\ "heartbeat" \in tasks /\ ticks < MaxTicks
    /\ ticks' = ticks + 1
    /\ UNCHANGED <<config, startup, tasks, netPc, live, req>>

-----------------------------------------------------------------------------
(* Requests entering the node: a JSON-RPC client of the live server, a    *)
(* peer's talk request once discv5 runs (for a sub-network protocol or    *)
(* another one), or the header oracle through its history sender.          *)
Move(r, at, net) ==
    /\ req' = [req EXCEPT ![r] = [at |-> at, net |-> net]]
    /\ UNCHANGED <<config, startup, tasks, netPc, ticks, live>>

Running == pc \notin {"logger", "bootnodes", "discovery", "err", "panic"}

ClientRequest(r, n) ==
    /\ server = "live" /\ req[r].at = "unsent" /\ Move(r, "portal", n)

TalkRequest(r, n) ==
    /\ Running /\ req[r].at = "unsent" /\ Move(r, "talk", n)

OracleRequest(r) ==
    /\ oracleTx /\ "historyNet" \in tasks /\ req[r].at = "unsent"
    /\ Move(r, "history", "history")

(* JsonRpcHandler: a sub-network request goes to that network's sender    *)
(* if it is Some, else gets an error response; others are answered here.  *)
ProcessJsonRpcRequest(r) ==
    /\ "rpc" \in tasks /\ req[r].at = "portal"
    /\ Move(r, IF req[r].net \in handles THEN req[r].net ELSE "answered", req[r].net)

(* PortalnetEvents: a talk request of a sub-network goes to that          *)
(* network's event_tx (history_event_tx, state_event_tx) if it is Some;    *)
(* any other is dropped.                                                   *)
RouteTalkRequest(r) ==
    /\ "events" \in tasks /\ req[r].at = "talk"
    /\ Move(r, IF req[r].net \in handles THEN EventsOf[req[r].net] ELSE "dropped", req[r].net)

(* A sub-network's handle_client_queries, and its events task.            *)
HandleClientQuery(r, n) ==
    /\ HandlerOf[n] \in tasks /\ req[r].at = n /\ Move(r, "answered", n)

HandleTalkRequest(r, n) ==
    /\ EventsOf[n] \in tasks /\ req[r].at = EventsOf[n]
    /\ Move(r, "answered", n)

Serve(r) ==
    \/ ProcessJsonRpcRequest(r) \/ RouteTalkRequest(r)
    \/ \E n \in Networks : HandleClientQuery(r, n) \/ HandleTalkRequest(r, n)

Next ==
    \/ InitTracingLogger \/ RunTrin \/ ServerLive \/ ServerExit
    \/ SpawnHistoryEvents \/ SpawnStateEvents \/ PingBootnodes \/ HeartbeatTick
    \/ \E r \in Requests :
          \/ \E n \in Targets : ClientRequest(r, n) \/ TalkRequest(r, n)
          \/ OracleRequest(r)
          \/ Serve(r)

(* main awaits run_trin; the server thread and every spawned task are     *)
(* scheduled by tokio and run whenever they can; clients and peers owe    *)
(* the node nothing.                                                       *)
Fairness ==
    /\ WF_vars(InitTracingLogger) /\ WF_vars(RunTrin) /\ WF_vars(ServerLive \/ ServerExit)
    /\ WF_vars(SpawnHistoryEvents) /\ WF_vars(SpawnStateEvents) /\ WF_vars(PingBootnodes)
    /\ \A r \in Requests : WF_vars(Serve(r))

Spec == Init /\ [][Next]_vars /\ Fairness

-----------------------------------------------------------------------------
(* run_trin's wait on live_server_rx (lib.rs:186) ends whether the server *)
(* came up or its thread died before sending: run_trin always returns.    *)
StartupReturns == <>(pc \in Done)

(* Every request that entered the node is answered or dropped by the      *)
(* router, unless run_trin failed and the node is going down: a client's  *)
(* request routed by the JsonRpcHandler to a sub-network sender, a        *)
(* peer's history or state talk request routed by PortalnetEvents to that  *)
(* network's event_tx, and the header oracle's request, which it can send *)
(* from trin-history lib.rs:50 on.  Each of these channels is written      *)
(* before its reader is spawned (handle_client_queries at lib.rs:157-162, *)
(* the events tasks inside the network tasks), and nothing may be left    *)
(* in one that no task will ever read.                                     *)
RequestsAnswered ==
    \A r \in Requests :
        req[r].at \in Pending ~> (req[r].at \in {"answered", "dropped"} \/ pc \in {"err", "panic"})
=============================================================================
