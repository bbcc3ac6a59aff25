---------------------------- MODULE Deprecation -----------------------------
(***************************************************************************)
(* The deprecation policy: a run of the CLI refuses to go on when the next *)
(* major version has been out for too long.  It knows that from a file in  *)
(* the data directory, which it reads once, at its start, and which it     *)
(* writes back when it has asked the npm registry beside its command.      *)
(***************************************************************************)
EXTENDS Integers, RunLife

CONSTANTS
    Interval,   \* majorVersionFetchIntervalDays
    Expiry,     \* expiryDays
    LastDay,    \* bound: the days that are looked at
    Releases,   \* the days on which the next major version may be published
    Unknown     \* no date

ASSUME DeprecationAssumption ==
    /\ Interval \in Nat \ {0} /\ Expiry \in Nat /\ LastDay \in Nat
    /\ Unknown \notin Int /\ Releases \subseteq 0..LastDay \cup {Unknown}

VARIABLES
    day,        \* the day it is
    released,   \* the day it is published; Unknown: never
    cache,      \* the file: what is known
    now,        \* run -> the day it started
    mem,        \* run -> cachedTimestamps
    news,       \* run -> checkForNewReleasesIfNeeded
    outdated,   \* history: runs with a newer file than the one they read
    missed      \* history: the last day the registry gave no answer

deprecation == <<day, released, cache, now, mem, news, outdated, missed>>

Days == 0..LastDay
Epoch == -(2 * Interval)      \* 1970: long ago
Record == [date : Days \cup {Unknown}, fetched : Days \cup {Epoch}]
Nothing == [date |-> Unknown, fetched |-> Epoch]
-----------------------------------------------------------------------------
InitDeprecation ==
    /\ life = [r \in Runs |-> "waiting"]
    /\ day = 0
    /\ released \in Releases
    /\ cache = Nothing
    /\ now = [r \in Runs |-> 0]
    /\ mem = [r \in Runs |-> Nothing]
    /\ news = [r \in Runs |-> "none"]
    /\ outdated = {}
    /\ missed = Epoch

Tomorrow ==
    /\ day < LastDay
    /\ day' = day + 1
    /\ UNCHANGED <<life, released, cache, now, mem, news, outdated, missed>>

(* Whether this version has expired, for a run that starts today.          *)
ExpiresEarly == cache.date # Unknown /\ day - cache.date >= Expiry   \* mutant: a day early
Expired == cache.date # Unknown /\ day - cache.date > Expiry

AskRarely ==   \* mutant: every other time only
    cache.date = Unknown /\ day - cache.fetched >= 2 * Interval
AskRegistry == cache.date = Unknown /\ day - cache.fetched >= Interval

(* init and warnAndAbortIfDeprecated, then the beginning of                *)
(* checkForNewReleasesIfNeeded: nothing is awaited between them.           *)
StartRun(r) ==
    /\ life[r] = "waiting"
    /\ now' = [now EXCEPT ![r] = day]
    /\ mem' = [mem EXCEPT ![r] = cache]
    /\ life' = [life EXCEPT ![r] = IF Expired THEN "refused" ELSE "running"]
    /\ news' = [news EXCEPT ![r] = IF ~Expired /\ AskRegistry THEN "asking" ELSE "over"]
    /\ UNCHANGED <<day, released, cache, outdated, missed>>

(* The registry gives the date, answers that there is none, or fails.  The *)
(* time of the query is noted in any case.                                 *)
Answered(r) ==
    /\ Alive(r) /\ news[r] = "asking"
    /\ \/ /\ mem' = [mem EXCEPT ![r] =
              [date |-> IF released \in 0..day THEN released ELSE Unknown, fetched |-> now[r]]]
          /\ UNCHANGED missed
       \/ /\ mem' = [mem EXCEPT ![r].fetched = now[r]]
          /\ missed' = IF missed < now[r] THEN now[r] ELSE missed
    /\ news' = [news EXCEPT ![r] = "storing"]
    /\ UNCHANGED <<life, day, released, cache, now, outdated>>

(* storage.set: the file is emptied, then written.  One that is read in    *)
(* between is no JSON, and is taken for no file.                           *)
Truncate(r) ==
    /\ Alive(r) /\ news[r] = "storing"
    /\ cache' = Nothing
    /\ news' = [news EXCEPT ![r] = "writing"]
    /\ UNCHANGED <<life, day, released, now, mem, outdated, missed>>

Store(r) ==
    /\ Alive(r) /\ news[r] = "writing"
    /\ cache' = mem[r]
    /\ news' = [news EXCEPT ![r] = "over"]
    /\ outdated' = outdated \cup {q \in Runs : life[q] = "running" /\ q # r}
    /\ UNCHANGED <<life, day, released, now, mem, missed>>

(* Its failure is unexpected: the process exits.                           *)
StoreFails(r) ==
    /\ Alive(r) /\ news[r] \in {"storing", "writing"}
    /\ life' = [life EXCEPT ![r] = "dead"]
    /\ UNCHANGED deprecation
-----------------------------------------------------------------------------
DeprecationTypes ==
    /\ life \in [Runs -> {"waiting", "running", "over", "refused", "dead"}]
    /\ day \in Days /\ released \in Releases
    /\ cache \in Record /\ now \in [Runs -> Days] /\ mem \in [Runs -> Record]
    /\ news \in [Runs -> {"none", "asking", "storing", "writing", "over"}]
    /\ outdated \subseteq Runs /\ missed \in Days \cup {Epoch}

(* A run is refused only if the next major version was really published    *)
(* more than Expiry days before, whatever went wrong with the file.        *)
RefusalIsDue ==
    \A r \in Runs : life[r] = "refused" => released \in 0..(now[r] - Expiry - 1)

(* A run that is over knows a version that had been out for Interval days  *)
(* when it started, unless the registry gave no answer within these days;  *)
(* also if runs overlapped, or died as they stored what they knew.         *)
Ignorant(r) ==
    /\ life[r] = "over" /\ mem[r].date = Unknown
    /\ released # Unknown /\ released + Interval <= now[r]
IgnoranceIsExplained ==
    \A r \in Runs : Ignorant(r) => missed > now[r] - Interval

(* A date once known is overwritten only by a run that had read the file   *)
(* before the date was stored.                                             *)
DateIsKept ==
    [][cache.date # Unknown /\ cache'.date = Unknown =>
          \E r \in outdated : news[r] \in {"storing", "writing"}]_cache
=============================================================================
