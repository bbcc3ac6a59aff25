------------------------------ MODULE MCTunnel ------------------------------
(* Mappings: 22; 22:2222; 22:localhost:2222; 22:host; 70000; 22:0; x; four *)
(* elements.                                                               *)
EXTENDS Tunnel

CONSTANTS p1, p2, c1, c2

Number(n) == [int |-> n, digits |-> TRUE]
Name == [int |-> -1, digits |-> FALSE]

MCPorts == {p1, p2}
MCClients == {c1, c2}
MCMappings ==
    {<<Number(22)>>, <<Number(22), Number(2222)>>, <<Number(22), Name, Number(2222)>>,
     <<Number(22), Name>>, <<Number(70000)>>, <<Number(22), Number(0)>>, <<Name>>,
     <<Number(22), Name, Number(22), Number(22)>>}
=============================================================================
