\* Two servers, a connection, a deploy, an operation and a second caller.
CONSTANTS
    Operations = {o1}
    Callers = {main, other}
    Main = main
    Deploys = {d1}
    Connections = {k1}
    NumServers = 2
SPECIFICATION Spec
INVARIANTS TypeOK OperationsAwaited NilMeansClean OneShutdown
PROPERTIES SignalEnds
CHECK_DEADLOCK FALSE
