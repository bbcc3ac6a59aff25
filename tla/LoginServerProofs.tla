------------------------- MODULE LoginServerProofs -------------------------
(***************************************************************************)
(* For any number of requests and tokens: what the pages say, and which    *)
(* token is kept, when no two tokens are tried at the same time.           *)
(***************************************************************************)
EXTENDS LoginServer, TLAPS

-----------------------------------------------------------------------------
(* The inductive invariant *)

\* Without an overlap one handler at most is trying a token.
OneTries ==
    \A q, r \in Requests : at[q] \in Trying /\ at[r] \in Trying => q = r

\* While it does, the token stored is its own, from Store to its answer.
OwnIsStored ==
    \A r \in Requests : at[r] \in {"checking", "restoring"} => stored = body[r]

\* A token is put back, emitted and saved only if it is sound.
Sound(t) == t \in Good \cup {initial}

SoundIsPutBack ==
    \A r \in Requests : at[r] \in {"storing", "checking", "restoring"} => Sound(found[r])

SoundIsStored ==
    (\A r \in Requests : at[r] \notin {"checking", "restoring"}) => Sound(stored)

ValidIsEmitted == token \in Good \cup {None} /\ (taken \in Good \/ phase # "saving")

ValidIsTold == \A r \in Requests : reply[r] = 200 => body[r] \in Good /\ at[r] = "over"

\* What is tried is a token.
TriesTokens == \A r \in Requests : at[r] \in Trying => body[r] \in Tokens

InTurn == ~overlapped => OneTries /\ OwnIsStored /\ ValidIsEmitted /\ ValidIsTold

Unhindered == ~overlapped /\ ~faulted => SoundIsPutBack /\ SoundIsStored

IInv == TypeOK /\ TriesTokens /\ InTurn /\ Unhindered

-----------------------------------------------------------------------------
(* Types *)

LEMMA InitTypes == Init => TypeOK /\ TriesTokens
<1> SUFFICES ASSUME Init PROVE TypeOK /\ TriesTokens
    OBVIOUS
<1>1. /\ listening \in BOOLEAN /\ attached \in BOOLEAN /\ firstError \in BOOLEAN
      /\ overlapped \in BOOLEAN /\ faulted \in BOOLEAN
    BY DEF Init
<1>2. /\ at \in [Requests -> Trying \cup {"none", "open", "over"}]
      /\ body \in [Requests -> Tokens \cup {NoToken, Elsewhere}]
      /\ found \in [Requests -> Tokens \cup {None}]
      /\ reply \in [Requests -> {0, 200, 400, 401, 404, 500}]
    BY DEF Init, None
<1>3. initial \in Tokens \cup {None} /\ stored = initial /\ token = None /\ taken = None
      /\ phase = "starting"
    BY DEF Init
<1> QED BY <1>1, <1>2, <1>3 DEF Init, TypeOK, TriesTokens, Trying

\* An answer, an event and an error have the right type.
LEMMA OutcomeTypes ==
    ASSUME TypeOK, NEW r \in Requests, NEW status \in {401, 404}, Reject(r, status)
    PROVE  /\ attached' \in BOOLEAN /\ firstError' \in BOOLEAN
           /\ token' \in Tokens \cup {None} /\ taken' \in Tokens \cup {None}
           /\ phase' \in {"starting", "opening", "awaiting", "saving", "greeting", "done",
                          "failed", "crashed", "exited"}
           /\ at' = [at EXCEPT ![r] = "over"]
           /\ reply' \in [Requests -> {0, 200, 400, 401, 404, 500}]
<1>1. CASE Unheard
  <2>1. CASE status = 404
    BY <1>1, <2>1 DEF TypeOK, Reject, Answer
  <2>2. CASE status = 401
    BY <1>1, <2>2 DEF TypeOK, Reject, Answer
  <2> QED BY <2>1, <2>2
<1>2. CASE ~Unheard
  <2>1. EmitError /\ Answer(r, status)
    BY <1>2 DEF Reject
  <2> QED BY <2>1 DEF TypeOK, EmitError, Answer
<1> QED BY <1>1, <1>2

LEMMA StepTypes == TypeOK /\ TriesTokens /\ [Next]_vars => TypeOK' /\ TriesTokens'
<1> SUFFICES ASSUME TypeOK, TriesTokens, [Next]_vars PROVE TypeOK' /\ TriesTokens'
    OBVIOUS
<1> USE DEF server, handlers, history
<1>1. ASSUME Listen \/ AwaitForToken \/ Save \/ Greet \/ CommandFault \/ Exit
      PROVE  TypeOK' /\ TriesTokens'
  <2>1. /\ phase' \in {"starting", "opening", "awaiting", "saving", "greeting", "done",
                       "failed", "crashed", "exited"}
        /\ stored' \in Tokens \cup {None} /\ taken' \in Tokens \cup {None}
        /\ UNCHANGED <<initial, token, handlers>>
    BY <1>1 DEF TypeOK, Listen, AwaitForToken, Save, Greet, CommandFault, Exit
  <2>2. /\ listening' \in BOOLEAN /\ attached' \in BOOLEAN /\ firstError' \in BOOLEAN
        /\ overlapped' \in BOOLEAN /\ faulted' \in BOOLEAN
    BY <1>1 DEF TypeOK, Listen, AwaitForToken, Save, Greet, CommandFault, Exit
  <2> QED BY <2>1, <2>2 DEF TypeOK, TriesTokens
<1>2. ASSUME NEW r \in Requests,
             Connect(r) \/ Malformed(r) \/ ReadCurrent(r) \/ ReadFault(r) \/ Store(r)
      PROVE  TypeOK' /\ TriesTokens'
  <2>1. /\ at' \in [Requests -> Trying \cup {"none", "open", "over"}]
        /\ \A q \in Requests : at'[q] \in Trying => at[q] \in Trying
        /\ found' \in [Requests -> Tokens \cup {None}]
    BY <1>2 DEF TypeOK, Connect, Malformed, Answer, ReadCurrent, ReadFault, Store, Trying
  <2>2. stored' \in Tokens \cup {None}
    BY <1>2 DEF TypeOK, TriesTokens, Trying, Connect, Malformed, ReadCurrent, ReadFault, Store
  <2>3. UNCHANGED <<initial, phase, attached, firstError, token, listening, taken, body,
                    overlapped>>
    BY <1>2 DEF Connect, Malformed, ReadCurrent, ReadFault, Store
  <2>4. faulted' \in BOOLEAN
    BY <1>2 DEF TypeOK, Connect, Malformed, ReadCurrent, ReadFault, Store
  <2>5. reply' = reply \/ reply' = [reply EXCEPT ![r] = 400]
    BY <1>2 DEF Connect, Malformed, Answer, ReadCurrent, ReadFault, Store
  <2>6. reply' \in [Requests -> {0, 200, 400, 401, 404, 500}]
    BY <2>5 DEF TypeOK
  <2> QED BY <2>1, <2>2, <2>3, <2>4, <2>6 DEF TypeOK, TriesTokens
<1>3. ASSUME NEW r \in Requests, Restore(r) \/ HandlerFault(r)
      PROVE  TypeOK' /\ TriesTokens'
  <2>1. Reject(r, 401) /\ UNCHANGED <<initial, listening, body, found, overlapped>>
    BY <1>3 DEF Restore, HandlerFault
  <2>2. stored' \in Tokens \cup {None}
    BY <1>3 DEF TypeOK, Restore, HandlerFault
  <2>3. faulted' \in BOOLEAN
    BY <1>3 DEF TypeOK, Restore, HandlerFault
  <2> QED BY <2>1, <2>2, <2>3, OutcomeTypes DEF TypeOK, TriesTokens, Trying
<1>4. ASSUME NEW r \in Requests, Check(r) PROVE TypeOK' /\ TriesTokens'
  <2>1. body[r] \in Tokens
    BY <1>4 DEF Check, TriesTokens, Trying
  <2>2. UNCHANGED <<initial, stored, listening, body, found, overlapped, faulted,
                    attached, firstError>>
    BY <1>4 DEF Check, EmitToken
  <2>3. /\ token' \in Tokens \cup {None} /\ taken' \in Tokens \cup {None}
        /\ phase' \in {"starting", "opening", "awaiting", "saving", "greeting", "done",
                       "failed", "crashed", "exited"}
    BY <1>4, <2>1 DEF Check, EmitToken, TypeOK
  <2>4. /\ at' \in [Requests -> Trying \cup {"none", "open", "over"}]
        /\ \A q \in Requests : at'[q] \in Trying => at[q] \in Trying
        /\ reply' \in [Requests -> {0, 200, 400, 401, 404, 500}]
    BY <1>4 DEF Check, Answer, TypeOK, Trying
  <2> QED BY <2>2, <2>3, <2>4 DEF TypeOK, TriesTokens
<1>5. ASSUME NEW r \in Requests, Receive(r) PROVE TypeOK' /\ TriesTokens'
  <2>1. PICK t \in Tokens \cup {NoToken, Elsewhere} : body' = [body EXCEPT ![r] = t]
    BY <1>5 DEF Receive
  <2>2. body'[r] = t /\ body' \in [Requests -> Tokens \cup {NoToken, Elsewhere}]
    BY <2>1 DEF TypeOK
  <2>3. UNCHANGED <<initial, stored, found, faulted>> /\ listening' = FALSE
    BY <1>5 DEF Receive
  <2>4. CASE t \in {Elsewhere, NoToken}
    <3>1. PICK status \in {401, 404} : Reject(r, status)
      BY <1>5, <2>2, <2>4, LoginAssumption DEF Receive
    <3>2. overlapped' \in BOOLEAN
      BY <1>5, <2>2, <2>4, LoginAssumption DEF Receive, TypeOK
    <3>3. at' = [at EXCEPT ![r] = "over"]
      BY <3>1, OutcomeTypes
    <3>4. TriesTokens'
      BY <2>1, <3>3 DEF TypeOK, TriesTokens, Trying
    <3>5. at' \in [Requests -> Trying \cup {"none", "open", "over"}]
      BY <3>3 DEF TypeOK
    <3>6. listening' \in BOOLEAN /\ faulted' \in BOOLEAN
      BY <2>3 DEF TypeOK
    <3>7. /\ initial' \in Tokens \cup {None} /\ stored' \in Tokens \cup {None}
          /\ found' \in [Requests -> Tokens \cup {None}]
      BY <2>3 DEF TypeOK
    <3>8. TypeOK'
      BY <2>2, <3>1, <3>2, <3>5, <3>6, <3>7, OutcomeTypes DEF TypeOK
    <3> QED BY <3>4, <3>8
  <2>5. CASE t \in Tokens
    <3>1. /\ at' = [at EXCEPT ![r] = "reading"]
          /\ UNCHANGED <<phase, attached, firstError, token, taken, reply>>
      BY <1>5, <2>2, <2>5, LoginAssumption DEF Receive
    <3>2. overlapped' \in BOOLEAN
      BY <1>5, <2>2, <2>5, LoginAssumption DEF Receive
    <3>3. TriesTokens'
      BY <2>1, <2>5, <3>1 DEF TypeOK, TriesTokens, Trying
    <3>4. at' \in [Requests -> Trying \cup {"none", "open", "over"}]
      BY <3>1 DEF TypeOK, Trying
    <3>5. listening' \in BOOLEAN /\ faulted' \in BOOLEAN
      BY <2>3 DEF TypeOK
    <3>6. attached' \in BOOLEAN /\ firstError' \in BOOLEAN
      BY <3>1 DEF TypeOK
    <3>7. TypeOK'
      BY <2>2, <2>3, <3>1, <3>2, <3>4, <3>5, <3>6 DEF TypeOK
    <3> QED BY <3>3, <3>7
  <2> QED BY <2>4, <2>5
<1>6. ASSUME UNCHANGED vars PROVE TypeOK' /\ TriesTokens'
  BY <1>6 DEF vars, TypeOK, TriesTokens
<1> QED BY <1>1, <1>2, <1>3, <1>4, <1>5, <1>6 DEF Next, Command, Handle

-----------------------------------------------------------------------------
(* Tokens that are tried in turn *)

\* Nothing that the command does meets a token that is being tried, or it
\* counts as an overlap.
LEMMA CommandInTurn ==
    ASSUME IInv, Listen \/ AwaitForToken \/ Save \/ Greet \/ CommandFault \/ Exit
    PROVE  InTurn' /\ Unhindered'
<1> USE DEF server, handlers, history
<1>1. UNCHANGED <<initial, at, body, found, reply, token>>
    BY DEF Listen, AwaitForToken, Save, Greet, CommandFault, Exit
<1>2. (faulted => faulted') /\ (overlapped => overlapped')
  <2>1. CASE Save \/ Greet
    <3>1. faulted' = faulted
      BY <2>1 DEF Save, Greet
    <3>2. overlapped' = (overlapped \/ \E r \in Requests : at[r] \in Trying)
      BY <2>1 DEF Save, Greet
    <3> QED BY <3>1, <3>2
  <2>2. CASE CommandFault
    BY <2>2 DEF CommandFault
  <2>3. CASE Listen \/ AwaitForToken \/ Exit
    BY <2>3 DEF Listen, AwaitForToken, Exit
  <2> QED BY <2>1, <2>2, <2>3
<1>3. CASE Save
  <2>1. ASSUME ~overlapped' PROVE ~overlapped /\ \A r \in Requests : at[r] \notin Trying
    BY <1>3, <2>1 DEF Save
  <2>2. stored' = taken /\ taken' = taken /\ phase = "saving" /\ phase' # "saving"
    BY <1>3 DEF Save
  <2>3. InTurn'
    BY <1>1, <2>1, <2>2 DEF IInv, InTurn, OneTries, OwnIsStored, ValidIsEmitted, ValidIsTold, Trying
  <2>4. Unhindered'
    BY <1>1, <1>2, <2>1, <2>2
       DEF IInv, InTurn, Unhindered, ValidIsEmitted, SoundIsPutBack, SoundIsStored, Sound, Trying
  <2> QED BY <2>3, <2>4
<1>4. CASE ~Save
  <2>1. stored' = stored
    BY <1>4 DEF Listen, AwaitForToken, Greet, CommandFault, Exit
  <2>2. (taken \in Good \/ phase # "saving") /\ token \in Good \cup {None}
            => taken' \in Good \/ phase' # "saving"
    BY <1>4, LoginAssumption DEF Listen, AwaitForToken, Greet, CommandFault, Exit, None
  <2>3. InTurn'
    BY <1>1, <1>2, <2>1, <2>2 DEF IInv, InTurn, OneTries, OwnIsStored, ValidIsEmitted, ValidIsTold
  <2>4. Unhindered'
    BY <1>1, <1>2, <2>1 DEF IInv, Unhindered, SoundIsPutBack, SoundIsStored, Sound
  <2> QED BY <2>3, <2>4
<1> QED BY <1>3, <1>4

\* A token is put back after its own check only, in turn.
LEMMA TriedInTurn ==
    ASSUME IInv, NEW r \in Requests,
           Connect(r) \/ Malformed(r) \/ ReadCurrent(r) \/ ReadFault(r) \/ Store(r)
    PROVE  InTurn' /\ Unhindered'
<1> USE DEF server, handlers, history, Trying
<1>1. UNCHANGED <<initial, phase, taken, token, body, overlapped>> /\ (faulted => faulted')
    BY DEF Connect, Malformed, ReadCurrent, ReadFault, Store
<1>2. /\ at \in [Requests -> Trying \cup {"none", "open", "over"}]
      /\ found \in [Requests -> Tokens \cup {None}]
    BY DEF IInv, TypeOK
<1>3. CASE Connect(r) \/ Malformed(r)
  <2>1. /\ at' \in {[at EXCEPT ![r] = "open"], [at EXCEPT ![r] = "over"]}
        /\ at[r] \in {"none", "open"}
        /\ UNCHANGED <<stored, found>>
        /\ \A q \in Requests : reply'[q] = 200 => reply[q] = 200
    BY <1>3 DEF Connect, Malformed, Answer, IInv, TypeOK
  <2> QED BY <1>1, <1>2, <2>1
       DEF IInv, InTurn, Unhindered, OneTries, OwnIsStored, ValidIsEmitted, ValidIsTold,
           SoundIsPutBack, SoundIsStored, Sound
<1>4. CASE ReadCurrent(r) \/ ReadFault(r)
  <2>1. /\ at' = [at EXCEPT ![r] = "storing"] /\ at[r] = "reading"
        /\ UNCHANGED <<stored, reply>>
    BY <1>4 DEF ReadCurrent, ReadFault
  <2>2. InTurn'
    BY <1>1, <1>2, <2>1 DEF IInv, InTurn, OneTries, OwnIsStored, ValidIsEmitted, ValidIsTold
  <2>3. ASSUME ~overlapped', ~faulted' PROVE SoundIsPutBack' /\ SoundIsStored'
    <3>1. /\ ~overlapped /\ ~faulted
          /\ found' = [found EXCEPT ![r] = stored]
      BY <1>1, <1>4, <2>3 DEF ReadCurrent, ReadFault
    <3>2. \A q \in Requests : at[q] \notin {"checking", "restoring"}
      BY <2>1, <3>1 DEF IInv, InTurn, OneTries
    <3>3. Sound(stored)
      BY <3>1, <3>2 DEF IInv, Unhindered, SoundIsStored
    <3>4. \A q \in Requests : at[q] \in {"storing", "checking", "restoring"} => Sound(found[q])
      BY <3>1 DEF IInv, Unhindered, SoundIsPutBack
    <3> QED BY <1>1, <1>2, <2>1, <3>1, <3>3, <3>4 DEF SoundIsPutBack, SoundIsStored, Sound
  <2> QED BY <2>2, <2>3 DEF Unhindered
<1>5. CASE Store(r)
  <2>1. /\ at' = [at EXCEPT ![r] = "checking"] /\ at[r] = "storing"
        /\ stored' = body[r] /\ UNCHANGED <<found, reply>>
    BY <1>5 DEF Store
  <2>2. InTurn'
    BY <1>1, <1>2, <2>1 DEF IInv, InTurn, OneTries, OwnIsStored, ValidIsEmitted, ValidIsTold
  <2>3. Unhindered'
    BY <1>1, <1>2, <2>1 DEF IInv, Unhindered, SoundIsPutBack, SoundIsStored, Sound
  <2> QED BY <2>2, <2>3
<1> QED BY <1>3, <1>4, <1>5

\* A handler that fails emits no token.
LEMMA RejectEffect ==
    ASSUME TypeOK, NEW r \in Requests, NEW status \in {401, 404}, Reject(r, status)
    PROVE  /\ at' = [at EXCEPT ![r] = "over"] /\ UNCHANGED <<token, taken>>
           /\ phase' = "saving" => phase = "saving"
           /\ \A q \in Requests : reply'[q] = 200 => reply[q] = 200
<1>1. CASE Unheard
  <2>1. PICK other \in {0, 500} : Answer(r, other)
    BY <1>1 DEF Reject
  <2>2. UNCHANGED <<token, taken>> /\ (phase' = phase \/ phase' = "crashed")
    BY <1>1 DEF Reject
  <2> QED BY <2>1, <2>2 DEF TypeOK, Answer
<1>2. CASE ~Unheard
  <2>1. EmitError /\ Answer(r, status)
    BY <1>2 DEF Reject
  <2> QED BY <2>1 DEF EmitError, Answer, TypeOK
<1> QED BY <1>1, <1>2

\* A handler that fails leaves the turn to others.
LEMMA FailsInTurn ==
    ASSUME IInv, NEW r \in Requests, NEW status \in {401, 404}, Reject(r, status),
           UNCHANGED <<initial, found, overlapped>>,
           \A q \in Requests : q # r => body'[q] = body[q],
           at[r] # "over",
           stored' = stored \/ at[r] \in Trying
    PROVE  InTurn'
<1>1. /\ at' = [at EXCEPT ![r] = "over"] /\ UNCHANGED <<token, taken>>
      /\ phase' = "saving" => phase = "saving"
      /\ \A q \in Requests : reply'[q] = 200 => reply[q] = 200
    BY RejectEffect DEF IInv
<1>2. at \in [Requests -> Trying \cup {"none", "open", "over"}]
    BY DEF IInv, TypeOK
<1> SUFFICES ASSUME ~overlapped
             PROVE  OneTries' /\ OwnIsStored' /\ ValidIsEmitted' /\ ValidIsTold'
    BY DEF InTurn
<1>3. OneTries /\ OwnIsStored /\ ValidIsEmitted /\ ValidIsTold
    BY DEF IInv, InTurn
<1>4. OneTries' /\ OwnIsStored'
    BY <1>1, <1>2, <1>3 DEF OneTries, OwnIsStored, Trying
<1>5. ValidIsEmitted' /\ ValidIsTold'
    BY <1>1, <1>2, <1>3 DEF ValidIsEmitted, ValidIsTold
<1> QED BY <1>4, <1>5

LEMMA RestoreInTurn == ASSUME IInv, NEW r \in Requests, Restore(r) PROVE InTurn' /\ Unhindered'
<1>1. /\ Reject(r, 401) /\ UNCHANGED <<initial, body, found, overlapped, faulted>>
      /\ stored' = found[r] /\ at[r] = "restoring"
    BY DEF Restore, history
<1>2. InTurn'
    BY <1>1, FailsInTurn DEF Trying
<1>3. at' = [at EXCEPT ![r] = "over"] /\ at \in [Requests -> Trying \cup {"none", "open", "over"}]
    BY <1>1, RejectEffect DEF IInv, TypeOK
<1>4. Unhindered'
    BY <1>1, <1>3 DEF IInv, Unhindered, SoundIsPutBack, SoundIsStored, Sound, Trying
<1> QED BY <1>2, <1>4

LEMMA FaultInTurn == ASSUME IInv, NEW r \in Requests, HandlerFault(r) PROVE InTurn' /\ Unhindered'
<1>1. /\ Reject(r, 401) /\ UNCHANGED <<initial, stored, body, found, overlapped>>
      /\ at[r] # "over"
    BY DEF HandlerFault
<1>2. InTurn'
    BY <1>1, FailsInTurn
<1>3. Unhindered'
    BY DEF HandlerFault, Unhindered
<1> QED BY <1>2, <1>3

LEMMA CheckInTurn == ASSUME IInv, NEW r \in Requests, Check(r) PROVE InTurn' /\ Unhindered'
<1>1. /\ UNCHANGED <<initial, stored, body, found, overlapped, faulted>>
      /\ at[r] = "checking" /\ at \in [Requests -> Trying \cup {"none", "open", "over"}]
      /\ reply \in [Requests -> {0, 200, 400, 401, 404, 500}]
    BY DEF Check, history, IInv, TypeOK
<1>2. CASE stored \in Good
  <2>1. EmitToken(body[r]) /\ Answer(r, 200)
    BY <1>2 DEF Check
  <2>2. at' = [at EXCEPT ![r] = "over"] /\ reply' = [reply EXCEPT ![r] = 200]
    BY <2>1 DEF Answer
  <2>3. ASSUME ~overlapped PROVE OneTries' /\ OwnIsStored' /\ ValidIsEmitted' /\ ValidIsTold'
    <3>1. OneTries /\ OwnIsStored /\ ValidIsEmitted /\ ValidIsTold
      BY <2>3 DEF IInv, InTurn
    <3>2. body[r] \in Good
      BY <1>1, <1>2, <3>1 DEF OwnIsStored
    <3>3. ValidIsEmitted'
      BY <2>1, <3>1, <3>2 DEF EmitToken, ValidIsEmitted
    <3>4. OneTries' /\ OwnIsStored' /\ ValidIsTold'
      BY <1>1, <2>2, <3>1, <3>2 DEF OneTries, OwnIsStored, ValidIsTold, Trying
    <3> QED BY <3>3, <3>4
  <2>4. Unhindered'
    BY <1>1, <1>2, <2>2 DEF IInv, Unhindered, SoundIsPutBack, SoundIsStored, Sound, Trying
  <2> QED BY <1>1, <2>3, <2>4 DEF InTurn
<1>3. CASE stored \notin Good
  <2>1. /\ at' = [at EXCEPT ![r] = "restoring"]
        /\ UNCHANGED <<phase, token, taken, reply>>
    BY <1>3 DEF Check
  <2>2. InTurn'
    BY <1>1, <2>1 DEF IInv, InTurn, OneTries, OwnIsStored, ValidIsEmitted, ValidIsTold, Trying
  <2>3. Unhindered'
    BY <1>1, <2>1 DEF IInv, Unhindered, SoundIsPutBack, SoundIsStored, Sound, Trying
  <2> QED BY <2>2, <2>3
<1> QED BY <1>2, <1>3

LEMMA ReceiveInTurn == ASSUME IInv, NEW r \in Requests, Receive(r) PROVE InTurn' /\ Unhindered'
<1>1. PICK t \in Tokens \cup {NoToken, Elsewhere} : body' = [body EXCEPT ![r] = t]
    BY DEF Receive
<1>2. /\ body'[r] = t /\ \A q \in Requests : q # r => body'[q] = body[q]
      /\ at \in [Requests -> Trying \cup {"none", "open", "over"}]
    BY <1>1 DEF IInv, TypeOK
<1>3. UNCHANGED <<initial, stored, found, faulted>> /\ at[r] = "open"
    BY DEF Receive
<1>4. CASE t \in {Elsewhere, NoToken}
  <2>1. PICK status \in {401, 404} : Reject(r, status)
    BY <1>2, <1>4, LoginAssumption DEF Receive
  <2>2. overlapped' = overlapped
    BY <1>2, <1>4, LoginAssumption DEF Receive
  <2>3. InTurn'
    BY <1>2, <1>3, <2>1, <2>2, FailsInTurn
  <2>4. at' = [at EXCEPT ![r] = "over"]
    BY <2>1, RejectEffect DEF IInv
  <2>5. Unhindered'
    BY <1>2, <1>3, <2>2, <2>4 DEF IInv, Unhindered, SoundIsPutBack, SoundIsStored, Sound, Trying
  <2> QED BY <2>3, <2>5
<1>5. CASE t \in Tokens
  <2>1. /\ at' = [at EXCEPT ![r] = "reading"]
        /\ UNCHANGED <<phase, token, taken, reply>>
    BY <1>2, <1>5, LoginAssumption DEF Receive
  <2>2. overlapped' = (overlapped \/ \E q \in Requests : at[q] \in Trying)
    BY <1>2, <1>5, LoginAssumption DEF Receive
  <2>3. ASSUME ~overlapped' PROVE ~overlapped /\ \A q \in Requests : at[q] \notin Trying
    BY <2>2, <2>3
  <2>4. ASSUME ~overlapped' PROVE OneTries' /\ OwnIsStored' /\ ValidIsEmitted' /\ ValidIsTold'
    <3>1. OneTries /\ OwnIsStored /\ ValidIsEmitted /\ ValidIsTold
      BY <2>3, <2>4 DEF IInv, InTurn
    <3>2. \A q \in Requests : at[q] \notin Trying
      BY <2>3, <2>4
    <3>3. OneTries' /\ OwnIsStored'
      BY <1>2, <2>1, <3>2 DEF OneTries, OwnIsStored, Trying
    <3>4. ValidIsEmitted' /\ ValidIsTold'
      BY <1>2, <1>3, <2>1, <3>1 DEF ValidIsEmitted, ValidIsTold
    <3> QED BY <3>3, <3>4
  <2>5. Unhindered'
    BY <1>2, <1>3, <2>1, <2>3 DEF IInv, Unhindered, SoundIsPutBack, SoundIsStored, Sound, Trying
  <2> QED BY <2>4, <2>5 DEF InTurn
<1> QED BY <1>4, <1>5

-----------------------------------------------------------------------------
(* The theorems *)

LEMMA InvariantHolds == Spec => []IInv
<1>1. Init => IInv
  <2> SUFFICES ASSUME Init PROVE IInv
    OBVIOUS
  <2>1. TypeOK /\ TriesTokens
    BY InitTypes
  <2>2. InTurn
    BY LoginAssumption
       DEF Init, InTurn, OneTries, OwnIsStored, ValidIsEmitted, ValidIsTold, Trying
  <2>3. Unhindered
    BY DEF Init, Unhindered, SoundIsPutBack, SoundIsStored, Sound
  <2> QED BY <2>1, <2>2, <2>3 DEF IInv
<1>2. IInv /\ [Next]_vars => IInv'
  <2> SUFFICES ASSUME IInv, [Next]_vars PROVE IInv'
    OBVIOUS
  <2>1. TypeOK' /\ TriesTokens'
    BY StepTypes DEF IInv
  <2>2. ASSUME UNCHANGED vars PROVE InTurn' /\ Unhindered'
    BY <2>2 DEF vars, server, handlers, history, IInv, InTurn, Unhindered, OneTries, OwnIsStored,
                ValidIsEmitted, ValidIsTold, SoundIsPutBack, SoundIsStored, Sound
  <2>3. InTurn' /\ Unhindered'
    BY <2>2, CommandInTurn, TriedInTurn, CheckInTurn, RestoreInTurn, FaultInTurn, ReceiveInTurn
       DEF Next, Command, Handle
  <2> QED BY <2>1, <2>3 DEF IInv
<1> QED BY <1>1, <1>2, PTL DEF Spec

\* Every variable keeps its type.
THEOREM LoginTypeCorrect == Spec => []TypeOK
BY InvariantHolds, PTL DEF IInv

\* loginIfTokenValid keeps or puts back a sound token, for requests that do
\* not overlap and calls that do not fail.
THEOREM KeptTokenIsSound == Spec => []TokenIsSound
<1>1. IInv => TokenIsSound
  BY DEF IInv, Unhindered, SoundIsStored, Sound, TokenIsSound, Quiet, Trying
<1> QED BY <1>1, InvariantHolds, PTL

\* The page "success" is for tokens that the API accepts, in requests that do
\* not overlap, whichever calls fail.
THEOREM SuccessPageTellsTruth == Spec => []SuccessPageIsTrue
<1>1. IInv => SuccessPageIsTrue
  BY DEF IInv, InTurn, ValidIsTold, SuccessPageIsTrue
<1> QED BY <1>1, InvariantHolds, PTL
=============================================================================
