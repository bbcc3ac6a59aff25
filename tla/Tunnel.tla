------------------------------- MODULE Tunnel -------------------------------
(***************************************************************************)
(* "balena device tunnel": each port mapping gets a local listener, each   *)
(* client of a listener a socket to the VPN's proxy, which is asked to     *)
(* CONNECT to the device.  Both sockets fail, close and answer on their    *)
(* own; the listeners that tie them together exist only from the moment    *)
(* the proxy has answered.                                                 *)
(***************************************************************************)
EXTENDS Naturals, Integers, Sequences, FiniteSets

CONSTANTS
    Ports,      \* the --port flags of the command line
    Mappings,   \* what they may say: sequences of Element
    Clients     \* the connections to the local listeners

(* A part of a mapping: what parseInt makes of it (-1 for NaN), and whether*)
(* it consists of digits only.                                             *)
Element == [int : Int, digits : BOOLEAN]

ASSUME TunnelAssumption == \A m \in Mappings : m \in Seq(Element) /\ m # << >>

VARIABLES
    mapping,    \* what each flag says
    phase,      \* the command: "starting", "waiting", "failed" or "crashed"
    port,       \* the state of each listener
    client,     \* the state of each client's socket
    handler,    \* what became of the promise of openPortThroughProxy
    remote,     \* the state of each client's socket to the proxy
    timedOut    \* the clients whose CONNECT was not answered in time

sockets == <<client, handler, remote, timedOut>>
vars == <<mapping, phase, port, sockets>>

MaxPort == 2^16 - 1
IsValidPort(n) == n > 0 /\ n <= MaxPort

LocalPort(m) ==
    CASE Len(m) = 2 /\ m[2].digits -> m[2].int
      [] Len(m) = 3 -> m[3].int
      [] OTHER -> m[1].int

IsValidMapping(m) == Len(m) <= 3 /\ IsValidPort(m[1].int) /\ IsValidPort(LocalPort(m))

Running == phase \in {"starting", "waiting"}
ClientGone(c) == client[c] \in {"ended", "closed", "reset"}
RemoteGone(c) == remote[c] \in {"ended", "closed"}
-----------------------------------------------------------------------------
(* All mappings are parsed before the first listener starts.               *)
Init ==
    /\ mapping \in [Ports -> Mappings]
    /\ phase = IF \A p \in Ports : IsValidMapping(mapping[p]) THEN "starting" ELSE "failed"
    /\ port = [p \in Ports |-> "resolving"]
    /\ client = [c \in Clients |-> "none"]
    /\ handler = [c \in Clients |-> "none"]
    /\ remote = [c \in Clients |-> "none"]
    /\ timedOut = {}

(* tunnelUrl, whoami and the token: any of them may fail.                  *)
Resolve(p) ==
    /\ phase = "starting" /\ port[p] = "resolving"
    /\ port' \in {[port EXCEPT ![p] = s] : s \in {"binding", "refused"}}
    /\ UNCHANGED <<mapping, phase, sockets>>

(* A port another program or mapping listens on cannot be bound.           *)
Bind(p) ==
    /\ phase = "starting" /\ port[p] = "binding"
    /\ \/ port' = [port EXCEPT ![p] = "refused"]
       \/ /\ \A q \in Ports : port[q] = "listening" => LocalPort(mapping[q]) # LocalPort(mapping[p])
          /\ port' = [port EXCEPT ![p] = "listening"]
    /\ UNCHANGED <<mapping, phase, sockets>>

Ready ==
    /\ phase = "starting"
    /\ \A p \in Ports : port[p] \in {"listening", "refused"}
    /\ phase' = IF \E p \in Ports : port[p] = "listening" THEN "waiting" ELSE "failed"
    /\ UNCHANGED <<mapping, port, sockets>>
-----------------------------------------------------------------------------
RejectUntold(c) ==   \* mutant: the client is not told
    /\ handler' = [handler EXCEPT ![c] = "refused"]
    /\ UNCHANGED client

(* The rejection of a tunnel: the client is told, the socket to the proxy  *)
(* stays as it is.                                                         *)
Reject(c) ==
    /\ handler' = [handler EXCEPT ![c] = "refused"]
    /\ client' = [client EXCEPT ![c] = IF @ = "open" THEN "ended" ELSE @]

Accept(c) ==
    /\ Running /\ client[c] = "none"
    /\ \E p \in Ports : port[p] = "listening"
    /\ client' = [client EXCEPT ![c] = "open"]
    /\ handler' = [handler EXCEPT ![c] = "dialing"]
    /\ remote' = [remote EXCEPT ![c] = "dialing"]
    /\ UNCHANGED <<mapping, phase, port, timedOut>>

SecureAnyway(c) ==   \* mutant: no return after the proxy was found untrusted
    /\ Running /\ remote[c] = "dialing"
    /\ remote' = [remote EXCEPT ![c] = "asked"]
    /\ \/ handler' = [handler EXCEPT ![c] = "asking"] /\ UNCHANGED client
       \/ Reject(c)
    /\ UNCHANGED <<mapping, phase, port, timedOut>>

(* The TLS connection stands: CONNECT is sent and its timer started, unless*)
(* the proxy's certificate is not trusted.                                 *)
Secure(c) ==
    /\ Running /\ remote[c] = "dialing"
    /\ \/ /\ remote' = [remote EXCEPT ![c] = "asked"]
          /\ handler' = [handler EXCEPT ![c] = "asking"]
          /\ UNCHANGED client
       \/ remote' = [remote EXCEPT ![c] = "idle"] /\ Reject(c)
    /\ UNCHANGED <<mapping, phase, port, timedOut>>

(* The proxy answers 200: the sockets are piped into each other.  The pipe *)
(* of a client that has left ends the tunnel at once; of a promise that    *)
(* was rejected nothing comes any more.                                    *)
Join(c) ==
    /\ Running /\ remote[c] = "asked"
    /\ IF handler[c] = "asking"
       THEN /\ handler' = [handler EXCEPT ![c] = "joined"]
            /\ remote' = [remote EXCEPT ![c] = IF ClientGone(c) THEN "ended" ELSE "open"]
       ELSE remote' = [remote EXCEPT ![c] = "open"] /\ UNCHANGED handler
    /\ UNCHANGED <<mapping, phase, port, client, timedOut>>

Refuse(c) ==
    /\ Running /\ remote[c] = "asked"
    /\ remote' = [remote EXCEPT ![c] = "idle"]
    /\ IF handler[c] = "asking" THEN Reject(c) ELSE UNCHANGED <<handler, client>>
    /\ UNCHANGED <<mapping, phase, port, timedOut>>

TimeoutLogged(c) ==   \* mutant: the timeout does not reject
    /\ Running /\ remote[c] = "asked" /\ handler[c] = "asking" /\ c \notin timedOut
    /\ timedOut' = timedOut \cup {c}
    /\ UNCHANGED <<mapping, phase, port, client, handler, remote>>

Timeout(c) ==
    /\ Running /\ remote[c] = "asked" /\ handler[c] = "asking"
    /\ timedOut' = timedOut \cup {c}
    /\ Reject(c)
    /\ UNCHANGED <<mapping, phase, port, remote>>

(* The socket to the proxy fails.                                          *)
RemoteError(c) ==
    /\ Running /\ remote[c] \in {"dialing", "asked", "idle", "open", "ended"}
    /\ remote' = [remote EXCEPT ![c] = "closed"]
    /\ IF handler[c] \in {"dialing", "asking"} THEN Reject(c)
       ELSE /\ client' = [client EXCEPT ![c] = IF @ = "open" /\ handler[c] = "joined" THEN "ended" ELSE @]
            /\ UNCHANGED handler
    /\ UNCHANGED <<mapping, phase, port, timedOut>>

(* The proxy closes it: only a tunnel that stands listens to that.         *)
HangUp(c) ==
    /\ Running /\ remote[c] \in {"asked", "idle", "open", "ended"}
    /\ remote' = [remote EXCEPT ![c] = "closed"]
    /\ client' = [client EXCEPT ![c] = IF @ = "open" /\ handler[c] = "joined" THEN "ended" ELSE @]
    /\ UNCHANGED <<mapping, phase, port, handler, timedOut>>

(* The client closes its side: the pipe of a tunnel that stands ends the   *)
(* socket to the proxy.                                                    *)
ClientQuits(c) ==
    /\ Running /\ client[c] \in {"open", "ended"}
    /\ client' = [client EXCEPT ![c] = "closed"]
    /\ remote' = [remote EXCEPT ![c] = IF @ = "open" /\ handler[c] = "joined" THEN "ended" ELSE @]
    /\ UNCHANGED <<mapping, phase, port, handler, timedOut>>

(* It resets the connection: an 'error' event, which before and after the  *)
(* tunnel stands nobody listens to, and which then ends the process.       *)
ClientResets(c) ==
    /\ Running /\ client[c] \in {"open", "ended"}
    /\ client' = [client EXCEPT ![c] = "reset"]
    /\ IF handler[c] = "joined"
       THEN /\ remote' = [remote EXCEPT ![c] = IF @ = "open" THEN "ended" ELSE @]
            /\ UNCHANGED phase
       ELSE phase' = "crashed" /\ UNCHANGED remote
    /\ UNCHANGED <<mapping, port, handler, timedOut>>

Next ==
    \/ Ready
    \/ \E p \in Ports : Resolve(p) \/ Bind(p)
    \/ \E c \in Clients :
          \/ Accept(c) \/ Secure(c) \/ Join(c) \/ Refuse(c) \/ Timeout(c)
          \/ RemoteError(c) \/ HangUp(c) \/ ClientQuits(c) \/ ClientResets(c)

(* Timers fire.  The proxy and the clients need not do anything.           *)
Fairness == \A c \in Clients : WF_vars(Timeout(c))

Spec == Init /\ [][Next]_vars /\ Fairness
-----------------------------------------------------------------------------
TypeOK ==
    /\ mapping \in [Ports -> Mappings]
    /\ phase \in {"starting", "waiting", "failed", "crashed"}
    /\ port \in [Ports -> {"resolving", "binding", "listening", "refused"}]
    /\ client \in [Clients -> {"none", "open", "ended", "closed", "reset"}]
    /\ handler \in [Clients -> {"none", "dialing", "asking", "joined", "refused"}]
    /\ remote \in [Clients -> {"none", "dialing", "asked", "idle", "open", "ended", "closed"}]
    /\ timedOut \in SUBSET {c \in Clients : handler[c] = "refused"}

(* A command that gives up has no listener, nor a tunnel, behind it.       *)
FailsEmptyHanded ==
    phase = "failed" => /\ \A p \in Ports : port[p] # "listening"
                        /\ \A c \in Clients : client[c] = "none"

(* The two sockets of a tunnel that stood end together, whichever side     *)
(* ends it and how, also a client that left before the proxy answered.     *)
SidesEndTogether ==
    Running => \A c \in Clients : handler[c] = "joined" => (ClientGone(c) <=> RemoteGone(c))

(* A tunnel to the device that no client uses was granted after the CLI    *)
(* had given up on it: its socket was not destroyed.                       *)
UnusedTunnelIsLate ==
    \A c \in Clients : remote[c] = "open" /\ handler[c] # "joined" => c \in timedOut

(* No client is left waiting on a tunnel that was refused.                 *)
RefusedAreTold == \A c \in Clients : handler[c] = "refused" => client[c] # "open"

(* The process survives what happens to a tunnel that stands; it dies, and *)
(* all tunnels with it, of a client that resets the connection before its  *)
(* tunnel stood or after it was refused.                                   *)
CrashIsUnheardReset ==
    phase = "crashed" => \E c \in Clients : client[c] = "reset" /\ handler[c] # "joined"

(* Whatever ends a tunnel, its client learns of it.                        *)
ClientsLearnTheEnd == SidesEndTogether /\ RefusedAreTold /\ CrashIsUnheardReset

(* A CONNECT gets an outcome within the timeout, unless the proxy closed   *)
(* the connection without a word: nobody listens to that.                  *)
AskedGetsOutcome ==
    \A c \in Clients : handler[c] = "asking" ~>
        handler[c] \in {"joined", "refused"} \/ remote[c] = "closed" \/ phase = "crashed"
=============================================================================
