---------------------------- MODULE LoginServer ----------------------------
(***************************************************************************)
(* "balena login --web": the command listens on a local port, opens the    *)
(* browser, and waits for the page to post a session token.  Requests are  *)
(* handled concurrently; each tries its token by storing it, and puts back *)
(* the one it found if the API refuses it.  Their outcomes are events,     *)
(* which the command may come to await after they were emitted.            *)
(***************************************************************************)
EXTENDS FiniteSets

CONSTANTS
    Requests,   \* the HTTP requests that may arrive
    Tokens, Good, \* session tokens; those the API accepts
    NoToken, Elsewhere, \* a post without a token; another path or verb
    Faults      \* TRUE if calls of the API, the storage and the browser may fail

ASSUME LoginAssumption ==
    /\ Good \subseteq Tokens /\ NoToken \notin Tokens /\ Elsewhere \notin Tokens
    /\ NoToken # Elsewhere /\ Faults \in BOOLEAN

None == NoToken

VARIABLES
    initial,    \* the token stored before the command
    stored,     \* the token stored now
    phase,      \* where login() is
    listening,  \* the server accepts connections
    attached,   \* awaitForToken listens to the events
    firstError, \* an error was emitted
    token,      \* the last token emitted
    taken,      \* the token that awaitForToken gave to login()
    at,         \* where the handler of a request is
    body,       \* what a request brought
    found,      \* currentToken: what was stored when its handler looked
    reply,      \* the status of the answer
    overlapped, \* a token was tried while another one was tried, stored or used
    faulted     \* some call failed

server == <<listening, attached, firstError, token>>
handlers == <<at, body, found, reply>>
history == <<overlapped, faulted>>
vars == <<initial, stored, phase, server, taken, handlers, history>>

Trying == {"reading", "storing", "checking", "restoring"}
Alive == phase \notin {"crashed", "exited"}
Settled == phase \in {"greeting", "done", "failed"}
-----------------------------------------------------------------------------
Init ==
    /\ initial \in Tokens \cup {None} /\ stored = initial
    /\ phase = "starting"
    /\ listening = FALSE /\ attached = FALSE /\ firstError = FALSE
    /\ token = None /\ taken = None
    /\ at = [r \in Requests |-> "none"]
    /\ body = [r \in Requests |-> None]
    /\ found = [r \in Requests |-> None]
    /\ reply = [r \in Requests |-> 0]
    /\ overlapped = FALSE /\ faulted = FALSE

(* login(): listen, open the browser, then await the token.                *)
Listen ==
    /\ phase = "starting"
    /\ phase' = "opening" /\ listening' = TRUE
    /\ UNCHANGED <<initial, stored, attached, firstError, token, taken, handlers, history>>

AwaitUnprepared ==   \* mutant: what was emitted before is not looked at
    /\ phase = "opening"
    /\ phase' = "awaiting" /\ attached' = TRUE
    /\ UNCHANGED <<initial, stored, listening, firstError, token, taken, handlers, history>>

AwaitForToken ==
    /\ phase = "opening"
    /\ IF firstError THEN phase' = "failed" /\ UNCHANGED <<attached, taken>>
       ELSE IF token # None THEN phase' = "saving" /\ taken' = token /\ UNCHANGED attached
       ELSE phase' = "awaiting" /\ attached' = TRUE /\ UNCHANGED taken
    /\ UNCHANGED <<initial, stored, listening, firstError, token, handlers, history>>

Save ==
    /\ phase = "saving"
    /\ stored' = taken
    /\ phase' = "greeting"
    /\ overlapped' = (overlapped \/ \E r \in Requests : at[r] \in Trying)
    /\ UNCHANGED <<initial, server, taken, handlers, faulted>>

(* whoami, for the message that says who is logged in.                     *)
Greet ==
    /\ phase = "greeting"
    /\ phase' = IF stored \in Good THEN "done" ELSE "failed"
    /\ overlapped' = (overlapped \/ \E r \in Requests : at[r] \in Trying)
    /\ UNCHANGED <<initial, stored, server, taken, handlers, faulted>>

CommandFault ==
    /\ Faults
    /\ phase \in {"starting", "opening", "saving", "greeting"}
    /\ phase' = "failed"
    /\ faulted' = TRUE
    /\ UNCHANGED <<initial, stored, server, taken, handlers, overlapped>>

(* Both events: what they do to a command that awaits them, and to one     *)
(* that will.  An error that nobody listens to is thrown by emit().        *)
EmitToken(t) ==
    /\ token' = t
    /\ IF phase = "awaiting" THEN phase' = "saving" /\ taken' = t ELSE UNCHANGED <<phase, taken>>
    /\ UNCHANGED <<attached, firstError>>

Unheard == firstError /\ ~attached

EmitError ==
    /\ firstError' = TRUE
    /\ phase' = IF phase = "awaiting" THEN "failed" ELSE phase
    /\ UNCHANGED <<attached, token, taken>>

Answer(r, status) ==
    /\ at' = [at EXCEPT ![r] = "over"]
    /\ reply' = [reply EXCEPT ![r] = status]

(* A handler fails.  An unheard error rejects the POST handler itself, and *)
(* the process dies of the unhandled rejection, unless Sentry's handler of *)
(* those only reports it; for other requests express catches it.           *)
Reject(r, status) ==
    IF Unheard
    THEN /\ UNCHANGED <<attached, firstError, token, taken>>
         /\ IF status = 404 THEN Answer(r, 500) /\ UNCHANGED phase
                            ELSE Answer(r, 0) /\ phase' \in {phase, "crashed"}
    ELSE EmitError /\ Answer(r, status)

(* A request starts to arrive; one that did is read although the server    *)
(* does not listen any more.                                               *)
Connect(r) ==
    /\ Alive /\ listening /\ at[r] = "none"
    /\ at' = [at EXCEPT ![r] = "open"]
    /\ UNCHANGED <<initial, stored, phase, server, taken, body, found, reply, history>>

Receive(r) ==
    /\ Alive /\ at[r] = "open"
    /\ body' \in {[body EXCEPT ![r] = t] : t \in Tokens \cup {NoToken, Elsewhere}}
    /\ listening' = FALSE
    /\ \/ /\ body'[r] \in {Elsewhere, NoToken}
          /\ Reject(r, IF body'[r] = Elsewhere THEN 404 ELSE 401)
          /\ UNCHANGED overlapped
       \/ /\ body'[r] \in Tokens
          /\ at' = [at EXCEPT ![r] = "reading"]
          /\ overlapped' = (overlapped \/ \E q \in Requests : at[q] \in Trying)
          /\ UNCHANGED <<phase, attached, firstError, token, taken, reply>>
    /\ UNCHANGED <<initial, stored, found, faulted>>

(* express answers for a body that its parser refuses: no handler sees it, *)
(* and the server goes on to listen.                                       *)
Malformed(r) ==
    /\ Alive /\ at[r] = "open"
    /\ Answer(r, 400)
    /\ UNCHANGED <<initial, stored, phase, server, taken, body, found, history>>

(* loginIfTokenValid                                                       *)
ReadNothing(r) ==   \* mutant: the token to restore is not looked up
    /\ Alive /\ at[r] = "reading"
    /\ at' = [at EXCEPT ![r] = "storing"]
    /\ UNCHANGED <<initial, stored, phase, server, taken, body, found, reply, history>>

ReadCurrent(r) ==
    /\ Alive /\ at[r] = "reading"
    /\ at' = [at EXCEPT ![r] = "storing"]
    /\ found' = [found EXCEPT ![r] = stored]
    /\ UNCHANGED <<initial, stored, phase, server, taken, body, reply, history>>

Store(r) ==
    /\ Alive /\ at[r] = "storing"
    /\ at' = [at EXCEPT ![r] = "checking"]
    /\ stored' = body[r]
    /\ UNCHANGED <<initial, phase, server, taken, body, found, reply, history>>

CheckForm(r) ==   \* mutant: isLoggedIn only asks whether a token is stored
    /\ Alive /\ at[r] = "checking"
    /\ EmitToken(body[r]) /\ Answer(r, 200)
    /\ UNCHANGED <<initial, stored, listening, body, found, history>>

(* isLoggedIn is about the token that is stored now.                       *)
Check(r) ==
    /\ Alive /\ at[r] = "checking"
    /\ IF stored \in Good
       THEN EmitToken(body[r]) /\ Answer(r, 200)
       ELSE /\ at' = [at EXCEPT ![r] = "restoring"]
            /\ UNCHANGED <<phase, attached, firstError, token, taken, reply>>
    /\ UNCHANGED <<initial, stored, listening, body, found, history>>

Restore(r) ==
    /\ Alive /\ at[r] = "restoring"
    /\ stored' = found[r]
    /\ Reject(r, 401)
    /\ UNCHANGED <<initial, listening, body, found, history>>

(* Any of its calls fails: getToken's error is ignored.                    *)
ReadFault(r) ==
    /\ Faults /\ Alive /\ at[r] = "reading"
    /\ at' = [at EXCEPT ![r] = "storing"]
    /\ faulted' = TRUE
    /\ UNCHANGED <<initial, stored, phase, server, taken, body, found, reply, overlapped>>

HandlerFault(r) ==
    /\ Faults /\ Alive /\ at[r] \in {"storing", "checking", "restoring"}
    /\ Reject(r, 401)
    /\ faulted' = TRUE
    /\ UNCHANGED <<initial, stored, listening, body, found, overlapped>>

(* The process ends after the command, at once for an unexpected error;    *)
(* one that succeeded, or failed as expected, waits for the calls in       *)
(* flight.                                                                 *)
Exit ==
    /\ \/ phase = "failed"
       \/ phase = "done" /\ \A r \in Requests : at[r] \notin Trying
    /\ phase' = "exited"
    /\ UNCHANGED <<initial, stored, server, taken, handlers, history>>

Command == Listen \/ AwaitForToken \/ Save \/ Greet
Handle(r) == Receive(r) \/ Malformed(r) \/ ReadCurrent(r) \/ Store(r) \/ Check(r) \/ Restore(r)

Next ==
    \/ Command \/ CommandFault \/ Exit
    \/ \E r \in Requests : Connect(r) \/ Handle(r) \/ ReadFault(r) \/ HandlerFault(r)

(* The command and the handlers go on; nobody has to log in.               *)
Fairness == WF_vars(Command) /\ \A r \in Requests : WF_vars(Handle(r))

Spec == Init /\ [][Next]_vars /\ Fairness
-----------------------------------------------------------------------------
TypeOK ==
    /\ initial \in Tokens \cup {None} /\ stored \in Tokens \cup {None}
    /\ phase \in {"starting", "opening", "awaiting", "saving", "greeting", "done",
                  "failed", "crashed", "exited"}
    /\ listening \in BOOLEAN /\ attached \in BOOLEAN /\ firstError \in BOOLEAN
    /\ token \in Tokens \cup {None} /\ taken \in Tokens \cup {None}
    /\ at \in [Requests -> Trying \cup {"none", "open", "over"}]
    /\ body \in [Requests -> Tokens \cup {NoToken, Elsewhere}]
    /\ found \in [Requests -> Tokens \cup {None}]
    /\ reply \in [Requests -> {0, 200, 400, 401, 404, 500}]
    /\ overlapped \in BOOLEAN /\ faulted \in BOOLEAN

Quiet == \A r \in Requests : at[r] \notin Trying

(* When no token is being tried, the one that is stored is valid or the    *)
(* one from before, whatever the browser sent; unless tokens were tried at *)
(* the same time, or a call failed (a token that could not be checked is   *)
(* kept).                                                                  *)
TokenIsSound == Quiet => stored \in Good \cup {initial} \/ overlapped \/ faulted

(* Who sees the page "success" sent a token that the API accepts, unless   *)
(* the check was about the token of another request.                       *)
SuccessPageIsTrue == \A r \in Requests : reply[r] = 200 => body[r] \in Good \/ overlapped

(* No outcome is missed: once a request that reached a handler was         *)
(* answered, or a call failed, the command goes on, whether the event came *)
(* before or after it awaited one.                                         *)
OutcomeEndsWait ==
    (\E r \in Requests : at[r] = "over" /\ reply[r] # 400) ~> phase \notin {"opening", "awaiting", "saving"}
=============================================================================
