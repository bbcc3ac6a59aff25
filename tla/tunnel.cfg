SPECIFICATION Spec
CONSTANTS
    p1 = p1
    p2 = p2
    c1 = c1
    c2 = c2
    Ports <- MCPorts
    Clients <- MCClients
    Mappings <- MCMappings
INVARIANTS
    ClientsLearnTheEnd
    UnusedTunnelIsLate
PROPERTIES
    AskedGetsOutcome
\* the command may fail, and all connections may be over
CHECK_DEADLOCK FALSE
