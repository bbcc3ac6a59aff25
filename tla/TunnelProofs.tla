---------------------------- MODULE TunnelProofs ----------------------------
(***************************************************************************)
(* The safety of Tunnel, for any flags, mappings and clients.  What happens*)
(* to one client's sockets depends on no other client, so the inductive    *)
(* invariant says for each client which states of its promise go with which*)
(* states of its two sockets.                                              *)
(***************************************************************************)
EXTENDS Tunnel, TLAPS

ClientStates == {"none", "open", "ended", "closed", "reset"}
HandlerStates == {"none", "dialing", "asking", "joined", "refused"}
RemoteStates == {"none", "dialing", "asked", "idle", "open", "ended", "closed"}

Types ==
    /\ mapping \in [Ports -> Mappings]
    /\ phase \in {"starting", "waiting", "failed", "crashed"}
    /\ port \in [Ports -> {"resolving", "binding", "listening", "refused"}]
    /\ client \in [Clients -> ClientStates]
    /\ handler \in [Clients -> HandlerStates]
    /\ remote \in [Clients -> RemoteStates]
    /\ timedOut \subseteq Clients

(* The promise, the two sockets and the timeout of a client.               *)
Consistent(h, c, r, late) ==
    /\ h = "none" <=> c = "none"
    /\ h = "none" => r = "none"
    /\ h = "dialing" <=> r = "dialing"
    /\ h = "asking" => r \in {"asked", "closed"}
    /\ h = "joined" => /\ r \in {"open", "ended", "closed"}
                       /\ c \in {"ended", "closed", "reset"} <=> r \in {"ended", "closed"}
    /\ h = "refused" => /\ c # "open"
                        /\ r \in {"asked", "open"} => late
    /\ late => h = "refused"

ClientsOK ==
    \A d \in Clients : Consistent(handler[d], client[d], remote[d], d \in timedOut)

(* Clients come to listeners only.                                         *)
ListenersOK ==
    /\ \A d \in Clients : client[d] # "none" => \E p \in Ports : port[p] = "listening"
    /\ phase = "failed" => \A p \in Ports : port[p] # "listening"
    /\ phase = "waiting" => \E p \in Ports : port[p] = "listening"

IInv == Types /\ ClientsOK /\ ListenersOK /\ CrashIsUnheardReset

LEMMA InitIInv == Init => IInv
  BY DEF Init, IInv, Types, ClientsOK, Consistent, ListenersOK, CrashIsUnheardReset,
         ClientStates, HandlerStates, RemoteStates

(* A step of one client that leaves it consistent, and the process alive,  *)
(* preserves the invariant.                                                *)
LEMMA ClientStep ==
  ASSUME IInv, NEW c \in Clients,
         NEW h \in HandlerStates, NEW s \in ClientStates, NEW r \in RemoteStates,
         Consistent(h, s, r, c \in timedOut'),
         timedOut' \in {timedOut, timedOut \cup {c}},
         handler' = [handler EXCEPT ![c] = h],
         client' = [client EXCEPT ![c] = s],
         remote' = [remote EXCEPT ![c] = r],
         s # "none" => client[c] # "none" \/ \E p \in Ports : port[p] = "listening",
         Running, UNCHANGED <<mapping, phase, port>>
  PROVE  IInv'
  <1>1. Types'
    BY DEF IInv, Types
  <1>2. ClientsOK'
    <2> SUFFICES ASSUME NEW d \in Clients
                 PROVE  Consistent(handler'[d], client'[d], remote'[d], d \in timedOut')
      BY DEF ClientsOK
    <2>1. CASE d = c
      BY <2>1 DEF IInv, Types
    <2>2. CASE d # c
      <3>1. /\ handler'[d] = handler[d] /\ client'[d] = client[d] /\ remote'[d] = remote[d]
            /\ d \in timedOut' <=> d \in timedOut
        BY <2>2 DEF IInv, Types
      <3>2. Consistent(handler[d], client[d], remote[d], d \in timedOut)
        BY DEF IInv, ClientsOK
      <3> QED BY <3>1, <3>2 DEF Consistent
    <2> QED BY <2>1, <2>2
  <1>3. ListenersOK'
    <2>1. \A d \in Clients : client'[d] # "none" => \E p \in Ports : port[p] = "listening"
      BY DEF IInv, ListenersOK, Types
    <2> QED BY <2>1 DEF IInv, ListenersOK
  <1>4. CrashIsUnheardReset'
    BY DEF Running, CrashIsUnheardReset
  <1> QED BY <1>1, <1>2, <1>3, <1>4 DEF IInv

(* A step of the command leaves all sockets alone.                         *)
LEMMA CommandStep ==
  ASSUME IInv, Ready \/ \E p \in Ports : Resolve(p) \/ Bind(p)
  PROVE  IInv'
  <1>1. Types'
    BY DEF IInv, Types, Ready, Resolve, Bind, sockets
  <1>2. ClientsOK'
    BY DEF IInv, ClientsOK, Ready, Resolve, Bind, sockets
  <1>3. ListenersOK'
    <2>1. CASE Ready
      BY <2>1 DEF IInv, ListenersOK, Types, Ready, sockets
    <2>2. ASSUME NEW p \in Ports, Resolve(p) \/ Bind(p) PROVE ListenersOK'
      <3>1. \A q \in Ports : port[q] = "listening" => port'[q] = "listening"
        BY <2>2 DEF IInv, Types, Resolve, Bind
      <3> QED BY <2>2, <3>1 DEF IInv, ListenersOK, Resolve, Bind, sockets
    <2> QED BY <2>1, <2>2
  <1>4. CrashIsUnheardReset'
    BY DEF CrashIsUnheardReset, Ready, Resolve, Bind, sockets
  <1> QED BY <1>1, <1>2, <1>3, <1>4 DEF IInv

(* Each step of a client is a ClientStep, or the crash.                    *)
LEMMA AcceptIInv == ASSUME IInv, NEW c \in Clients, Accept(c) PROVE IInv'
  <1>1. Consistent("dialing", "open", "dialing", c \in timedOut')
    BY DEF IInv, ClientsOK, Consistent, Accept
  <1> QED BY <1>1, ClientStep DEF Accept, HandlerStates, ClientStates, RemoteStates

LEMMA DialedIInv ==
  ASSUME IInv, NEW c \in Clients, Secure(c) \/ Join(c) \/ Refuse(c) \/ Timeout(c)
  PROVE  IInv'
  <1> DEFINE s == client[c]
             told == IF s = "open" THEN "ended" ELSE s
  <1>0. /\ Consistent(handler[c], s, remote[c], c \in timedOut)
        /\ handler[c] \in HandlerStates /\ s \in ClientStates /\ remote[c] \in RemoteStates
        /\ told \in ClientStates
        /\ handler = [handler EXCEPT ![c] = handler[c]]
        /\ client = [client EXCEPT ![c] = s]
        /\ remote = [remote EXCEPT ![c] = remote[c]]
    BY DEF IInv, ClientsOK, Types, ClientStates
  <1>1. CASE Secure(c)
    <2>1. CASE handler' = [handler EXCEPT ![c] = "asking"]
      <3>1. /\ remote' = [remote EXCEPT ![c] = "asked"] /\ client' = client /\ timedOut' = timedOut
            /\ remote[c] = "dialing" /\ Running /\ UNCHANGED <<mapping, phase, port>>
            /\ handler[c] = "dialing"
        BY <1>0, <1>1, <2>1 DEF Secure, Reject, IInv, Types, HandlerStates, Consistent
      <3>2. Consistent("asking", s, "asked", c \in timedOut')
        BY <1>0, <3>1 DEF Consistent
      <3> QED BY <1>0, <2>1, <3>1, <3>2, ClientStep DEF HandlerStates, RemoteStates
    <2>2. CASE remote' = [remote EXCEPT ![c] = "idle"] /\ Reject(c)
      <3>1. /\ client' = [client EXCEPT ![c] = told] /\ handler' = [handler EXCEPT ![c] = "refused"]
            /\ timedOut' = timedOut /\ Running /\ UNCHANGED <<mapping, phase, port>>
            /\ remote[c] = "dialing"
        BY <1>1, <2>2 DEF Secure, Reject, IInv, Types
      <3>2. Consistent("refused", told, "idle", c \in timedOut')
        BY <1>0, <3>1 DEF Consistent
      <3> QED BY <1>0, <2>2, <3>1, <3>2, ClientStep DEF HandlerStates, RemoteStates
    <2> QED BY <1>1, <2>1, <2>2 DEF Secure
  <1>2. CASE Join(c)
    <2> DEFINE r == IF ClientGone(c) THEN "ended" ELSE "open"
    <2>1. CASE handler[c] = "asking"
      <3>1. Consistent("joined", s, r, c \in timedOut')
        BY <1>0, <1>2, <2>1 DEF Consistent, Join, ClientGone, ClientStates
      <3>2. r \in RemoteStates /\ "joined" \in HandlerStates
        BY DEF RemoteStates, HandlerStates
      <3>3. /\ handler' = [handler EXCEPT ![c] = "joined"] /\ remote' = [remote EXCEPT ![c] = r]
            /\ client' = client /\ timedOut' = timedOut /\ Running /\ UNCHANGED <<mapping, phase, port>>
        BY <1>2, <2>1 DEF Join
      <3> HIDE DEF r
      <3> QED BY <1>0, <3>1, <3>2, <3>3, ClientStep
    <2>2. CASE handler[c] # "asking"
      <3>1. /\ remote' = [remote EXCEPT ![c] = "open"] /\ handler' = handler /\ remote[c] = "asked"
            /\ client' = client /\ timedOut' = timedOut /\ Running /\ UNCHANGED <<mapping, phase, port>>
        BY <1>2, <2>2 DEF Join
      <3>2. Consistent(handler[c], s, "open", c \in timedOut')
        BY <1>0, <2>2, <3>1 DEF Consistent, HandlerStates
      <3> QED BY <1>0, <3>1, <3>2, ClientStep DEF RemoteStates
    <2> QED BY <2>1, <2>2
  <1>3. CASE Refuse(c)
    <2>1. CASE handler[c] = "asking"
      <3>1. Consistent("refused", told, "idle", c \in timedOut')
        BY <1>0, <1>3, <2>1 DEF Consistent, Refuse
      <3> QED BY <1>0, <1>3, <2>1, <3>1, ClientStep DEF Refuse, Reject, HandlerStates, RemoteStates
    <2>2. CASE handler[c] # "asking"
      <3>1. Consistent(handler[c], s, "idle", c \in timedOut')
        BY <1>0, <1>3, <2>2 DEF Consistent, Refuse, HandlerStates
      <3>2. /\ remote' = [remote EXCEPT ![c] = "idle"] /\ handler' = handler /\ client' = client
            /\ timedOut' = timedOut /\ Running /\ UNCHANGED <<mapping, phase, port>>
        BY <1>3, <2>2 DEF Refuse
      <3> QED BY <1>0, <3>1, <3>2, ClientStep DEF RemoteStates
    <2> QED BY <2>1, <2>2
  <1>4. CASE Timeout(c)
    <2>1. Consistent("refused", told, "asked", c \in timedOut') /\ remote[c] = "asked"
      BY <1>0, <1>4 DEF Consistent, Timeout
    <2> QED BY <1>0, <1>4, <2>1, ClientStep DEF Timeout, Reject, HandlerStates, RemoteStates
  <1> QED BY <1>1, <1>2, <1>3, <1>4
LEMMA EndedIInv ==
  ASSUME IInv, NEW c \in Clients, RemoteError(c) \/ HangUp(c) \/ ClientQuits(c)
  PROVE  IInv'
  <1> DEFINE s == client[c]
             told == IF s = "open" THEN "ended" ELSE s
             ended == IF s = "open" /\ handler[c] = "joined" THEN "ended" ELSE s
             left == IF remote[c] = "open" /\ handler[c] = "joined" THEN "ended" ELSE remote[c]
  <1>0. /\ Consistent(handler[c], s, remote[c], c \in timedOut)
        /\ handler[c] \in HandlerStates /\ s \in ClientStates /\ remote[c] \in RemoteStates
        /\ told \in ClientStates /\ ended \in ClientStates /\ left \in RemoteStates
        /\ handler = [handler EXCEPT ![c] = handler[c]]
        /\ "closed" \in RemoteStates /\ "closed" \in ClientStates /\ "refused" \in HandlerStates
    BY DEF IInv, ClientsOK, Types, ClientStates, RemoteStates, HandlerStates
  <1>1. CASE RemoteError(c) /\ handler[c] \in {"dialing", "asking"}
    <2>1. Consistent("refused", told, "closed", c \in timedOut')
      BY <1>0, <1>1 DEF Consistent, RemoteError
    <2> QED BY <1>0, <1>1, <2>1, ClientStep DEF RemoteError, Reject
  <1>2. CASE (RemoteError(c) /\ handler[c] \notin {"dialing", "asking"}) \/ HangUp(c)
    <2>1. /\ handler' = handler /\ client' = [client EXCEPT ![c] = ended]
          /\ remote' = [remote EXCEPT ![c] = "closed"] /\ timedOut' = timedOut
          /\ Running /\ UNCHANGED <<mapping, phase, port>>
          /\ remote[c] \notin {"none", "closed"} /\ handler[c] # "dialing"
      BY <1>0, <1>2 DEF RemoteError, HangUp, Consistent
    <2>2. Consistent(handler[c], ended, "closed", c \in timedOut')
      BY <1>0, <2>1 DEF Consistent, HandlerStates, ClientStates
    <2>3. ended # "none" => client[c] # "none"
      OBVIOUS
    <2> HIDE DEF ended
    <2> QED BY <1>0, <2>1, <2>2, <2>3, ClientStep
  <1>3. CASE ClientQuits(c)
    <2>1. /\ handler' = handler /\ client' = [client EXCEPT ![c] = "closed"]
          /\ remote' = [remote EXCEPT ![c] = left] /\ timedOut' = timedOut
          /\ Running /\ UNCHANGED <<mapping, phase, port>>
          /\ s \in {"open", "ended"}
      BY <1>3 DEF ClientQuits
    <2>2. Consistent(handler[c], "closed", left, c \in timedOut')
      BY <1>0, <2>1 DEF Consistent, HandlerStates, RemoteStates
    <2> HIDE DEF left
    <2> QED BY <1>0, <2>1, <2>2, ClientStep
  <1> QED BY <1>1, <1>2, <1>3

LEMMA ResetIInv == ASSUME IInv, NEW c \in Clients, ClientResets(c) PROVE IInv'
  <1> DEFINE left == IF remote[c] = "open" THEN "ended" ELSE remote[c]
  <1>0. /\ Consistent(handler[c], client[c], remote[c], c \in timedOut)
        /\ handler[c] \in HandlerStates /\ remote[c] \in RemoteStates /\ left \in RemoteStates
        /\ handler = [handler EXCEPT ![c] = handler[c]] /\ "reset" \in ClientStates
    BY DEF IInv, ClientsOK, Types, ClientStates, RemoteStates
  <1>1. CASE handler[c] = "joined"
    <2>1. /\ handler' = handler /\ client' = [client EXCEPT ![c] = "reset"]
          /\ remote' = [remote EXCEPT ![c] = left] /\ timedOut' = timedOut
          /\ Running /\ UNCHANGED <<mapping, phase, port>>
          /\ client[c] \in {"open", "ended"}
      BY <1>1 DEF ClientResets
    <2>2. Consistent(handler[c], "reset", left, c \in timedOut')
      BY <1>0, <1>1, <2>1 DEF Consistent
    <2> HIDE DEF left
    <2> QED BY <1>0, <2>1, <2>2, ClientStep
  <1>2. CASE handler[c] # "joined"
    <2>0. /\ client' = [client EXCEPT ![c] = "reset"] /\ phase' = "crashed"
          /\ client[c] \in {"open", "ended"}
          /\ UNCHANGED <<mapping, port, handler, remote, timedOut>>
      BY <1>2 DEF ClientResets
    <2>1. Types'
      BY <2>0 DEF IInv, Types, ClientStates
    <2>2. ClientsOK'
      <3> SUFFICES ASSUME NEW d \in Clients
                   PROVE  Consistent(handler[d], client'[d], remote[d], d \in timedOut)
        BY <2>0 DEF ClientsOK
      <3>1. Consistent(handler[d], client[d], remote[d], d \in timedOut)
        BY DEF IInv, ClientsOK
      <3>2. CASE d = c
        <4>1. client'[d] = "reset"
          BY <2>0, <3>2 DEF IInv, Types
        <4> QED BY <1>2, <2>0, <3>1, <3>2, <4>1 DEF Consistent
      <3>3. CASE d # c
        <4>1. client'[d] = client[d]
          BY <2>0, <3>3 DEF IInv, Types
        <4> QED BY <3>1, <4>1
      <3> QED BY <3>2, <3>3
    <2>3. ListenersOK'
      BY <2>0 DEF IInv, ListenersOK, Types
    <2>4. CrashIsUnheardReset'
      BY <1>2, <2>0 DEF CrashIsUnheardReset, IInv, Types
    <2> QED BY <2>1, <2>2, <2>3, <2>4 DEF IInv
  <1> QED BY <1>1, <1>2

LEMMA NextIInv == IInv /\ [Next]_vars => IInv'
  <1> SUFFICES ASSUME IInv, [Next]_vars PROVE IInv'
    OBVIOUS
  <1>1. CASE UNCHANGED vars
    BY <1>1 DEF IInv, Types, ClientsOK, ListenersOK, CrashIsUnheardReset, vars, sockets
  <1>2. CASE Next
    BY <1>2, CommandStep, AcceptIInv, DialedIInv, EndedIInv, ResetIInv DEF Next
  <1> QED BY <1>1, <1>2

LEMMA InvariantHolds == Spec => []IInv
  BY InitIInv, NextIInv, PTL DEF Spec

(* Every variable keeps its type, and only a tunnel that was refused is    *)
(* noted as late.                                                          *)
THEOREM TunnelTypeCorrect == Spec => []TypeOK
  <1>1. IInv => TypeOK
    BY DEF IInv, Types, ClientsOK, Consistent, TypeOK, ClientStates, HandlerStates, RemoteStates
  <1> QED BY <1>1, InvariantHolds, PTL

(* A tunnel that stood ends on both sides or on none; who is refused is    *)
(* told; only a client without a tunnel that stands takes the process down.*)
THEOREM TunnelClientsLearnTheEnd == Spec => []ClientsLearnTheEnd
  <1>1. IInv => SidesEndTogether
    BY DEF IInv, ClientsOK, Consistent, SidesEndTogether, ClientGone, RemoteGone
  <1>2. IInv => RefusedAreTold
    BY DEF IInv, ClientsOK, Consistent, RefusedAreTold
  <1>3. IInv => CrashIsUnheardReset
    BY DEF IInv
  <1>4. IInv => ClientsLearnTheEnd
    BY <1>1, <1>2, <1>3 DEF ClientsLearnTheEnd
  <1> QED BY <1>4, InvariantHolds, PTL

(* A tunnel without a client came after the timeout.                       *)
THEOREM TunnelUnusedIsLate == Spec => []UnusedTunnelIsLate
  <1>1. IInv => UnusedTunnelIsLate
    BY DEF IInv, Types, ClientsOK, Consistent, UnusedTunnelIsLate, HandlerStates
  <1> QED BY <1>1, InvariantHolds, PTL

(* A command that gives up leaves nothing behind.                          *)
THEOREM TunnelFailsEmptyHanded == Spec => []FailsEmptyHanded
  <1>1. IInv => FailsEmptyHanded
    BY DEF IInv, ListenersOK, FailsEmptyHanded
  <1> QED BY <1>1, InvariantHolds, PTL
=============================================================================
