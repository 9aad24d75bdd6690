\* Every choice of networks and metrics, every logger environment, every exit of
\* every run_trin step, a server thread that comes up or dies, two requests from clients, peers
\* or the header oracle, one heartbeat tick; weak fairness of run_trin, the
\* server thread and every spawned task.
CONSTANTS
    q1 = q1
    q2 = q2
    Requests <- MCRequests
    MaxTicks = 1
SPECIFICATION Spec
INVARIANT TypeOK
PROPERTY StartupReturns
PROPERTY RequestsAnswered
CHECK_DEADLOCK FALSE
