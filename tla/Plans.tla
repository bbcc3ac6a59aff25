------------------------------- MODULE Plans -------------------------------
(***************************************************************************)
(* The run() method of a command is a sequence of awaited calls.  A plan   *)
(* is that sequence for one command line: what the command awaits, where   *)
(* the answer comes from, which changes it asks for, and what it does when *)
(* an await throws.  The modules of the commands translate each run() into *)
(* a plan; CliRun executes plans.                                          *)
(*                                                                         *)
(* A step is a record:                                                     *)
(*   where  who answers: "cloud" (the balena API), "local" (files, images, *)
(*          Docker, devices of the local network), "user", "consent" (the  *)
(*          user, asked to confirm), "login" (the stored token), "mode"    *)
(*          (the offline mode is refused), "none", "parser" (the parser of *)
(*          a nested command refuses its flags)                            *)
(*   does   the changes it asks for, started together (Promise.all)        *)
(*   fail   what may follow a failure: "throw" (it propagates), "note"     *)
(*          (it is printed, process.exitCode = 1, the loop goes on), "hide"*)
(*          (it is caught and leaves no trace); {} for a step that cannot  *)
(*          fail                                                           *)
(*   item   the iterations of the loops it is in, outermost first: a       *)
(*          failure that is noted drops the rest of its iteration          *)
(*   within the try blocks it is written in                                *)
(*   runs   "normally", or as the handler "catch" or "finally" of a try    *)
(*   of     the try block that a handler belongs to                        *)
(***************************************************************************)
EXTENDS Naturals, Sequences, SequencesExt

Wheres == {"cloud", "local", "user", "consent", "login", "mode", "none", "parser"}
Failures == {"throw", "note", "hide"}

(* An await that changes nothing, and throws when it fails.                *)
Await(where) ==
    << [where |-> where, does |-> {}, fail |-> {"throw"}, item |-> <<>>,
        within |-> {}, runs |-> "normally", of |-> "none"] >>

Query == Await("cloud")                 \* a read of the API
Look  == Await("local")                 \* a read of something local
Prompt == Await("user")                 \* a question that must be answered
LoginCheck == Await("login")            \* checkLoggedIn
OnlineCheck == Await("mode")            \* the command itself refuses to run offline

(* The command line, or what was read, is refused: the await only throws.  *)
Refuse == Await("none")

(* patterns.confirm: --yes skips the question; "no" throws 'Aborted'.      *)
Confirm(yes) == IF yes THEN <<>> ELSE Await("consent")

(* The changes es are asked for together and all awaited.                  *)
Change(where, es) ==
    [i \in 1..1 |-> [Await(where)[1] EXCEPT !.does = es]]
Send(es)  == Change("cloud", es)
Write(es) == Change("local", es)

(* The same steps with another reaction to a failure.                      *)
Failing(how, p) == [i \in DOMAIN p |-> [p[i] EXCEPT !.fail = how]]
Noted(p)  == Failing({"note"}, p)
Hidden(p) == Failing({"hide"}, p)

When(condition, p) == IF condition THEN p ELSE <<>>

RefuseWhen(condition) == When(condition, Refuse)

(* for (const x of xs) { ... }: the steps of Body(x), one x after another. *)
ForEach(xs, Body(_)) ==
    FlattenSeq([i \in DOMAIN xs |->
        [k \in DOMAIN Body(xs[i]) |-> [Body(xs[i])[k] EXCEPT !.item = <<i>> \o @]]])

(* try { body } catch { handler, rethrow } finally { always }; no handler  *)
(* of a command throws.                                                    *)
Handler(kind, name, p) ==
    [i \in DOMAIN p |-> [p[i] EXCEPT !.runs = kind, !.of = name]]
Try(name, body, handler, always) ==
    [i \in DOMAIN body |-> [body[i] EXCEPT !.within = @ \cup {name}]]
        \o Handler("catch", name, handler) \o Handler("finally", name, always)

(* All that a plan may ask for.                                            *)
Changes(p) == UNION {p[i].does : i \in DOMAIN p}

(* The changes whose failure the plan may hide from its caller.            *)
HiddenChanges(p) == UNION {p[i].does : i \in {k \in DOMAIN p : "hide" \in p[k].fail}}
=============================================================================
