-------------------------- MODULE RemoteBuildProofs --------------------------
(***************************************************************************)
(* Proofs about RemoteBuild, for every set of tags, every option of the    *)
(* command and any number of log lines, with and without failures.         *)
(***************************************************************************)
EXTENDS RemoteBuild, SequenceTheorems, TLAPS

USE RemoteBuildAssumption

-----------------------------------------------------------------------------
(* The inductive invariant *)

Errors == {"httpError", "parseError", "lost"}

\* The handler of SIGINT is there while the stream is open, and an
\* interrupted command only cleans up.
PhaseInv ==
    /\ cli = "preparing" => builder = "receiving"
    /\ cli \in {"preparing", "streaming", "tagging", "noting", "returned"} => ~rejected /\ ~interrupted
    /\ listening <=> cli = "streaming"
    /\ interrupted => rejected /\ stream = <<>>
    /\ cli = "cleaning" => rejected

\* What the release can be, and who has heard of it.
ReleaseInv ==
    /\ builder = "receiving" =>
         release = "none" /\ stream = <<>> /\ ~announced /\ ~releaseId /\ ~hadError
    /\ builder = "building" /\ ~interrupted => release = "running"

\* The request to cancel.
CancelInv ==
    /\ cancel # "none" <=> interrupted /\ releaseId
    /\ cancel = "done" => release \in {"cancelled", "success"}
    /\ cancel = "sent" => cli \in {"cleaning", "killed"}

Before(i, messages) == \E j \in 1..(i - 1) : stream[j] \in messages

\* A stream that is read: an id that was sent is known or still to be read,
\* and read before the end of its build; and a build that failed says so.
Announced == announced => releaseId \/ Before(Len(stream) + 1, {"buildLogId"} \cup Errors)

Explained(i) ==
    stream[i] = "end" =>
        /\ builder = "ended"
        /\ \/ Before(i, Errors)
           \/ /\ announced => releaseId \/ Before(i, {"buildLogId"})
              /\ release = "success" \/ hadError \/ Before(i, {"isError"})

Started == {"started", "startedUnnamed", "notStarted"}

AttachedInv ==
    cli = "streaming" /\ ~Headless =>
        /\ Announced
        /\ \A i \in 1..Len(stream) : stream[i] \notin Started /\ Explained(i)

\* A detached build has one message.
HeadlessInv ==
    cli = "streaming" /\ Headless =>
        /\ stream \in {<<>>, <<"started">>, <<"startedUnnamed">>, <<"notStarted">>,
                      <<"httpError", "end">>, <<"lost">>}
        /\ stream = <<"startedUnnamed">> => ~announced
        /\ stream = <<"notStarted">> => ~announced
        /\ builder = "receiving" => stream = <<>>
        /\ ~hadError

\* No build is announced after an error.
RejectedInv ==
    rejected =>
        /\ builder = "receiving" => interrupted
        /\ \A i \in 1..Len(stream) : stream[i] \notin Started

\* Tags and note are set after the stream, of a build that succeeded.
OutcomeInv ==
    /\ cli \in {"preparing", "streaming", "cleaning"} => tagsSet = {} /\ ~note
    /\ cli = "tagging" => tagsSet \cup tagging = opts.tags /\ ~note
    /\ cli = "noting" => tagsSet = opts.tags /\ ~note
    /\ ~Headless /\ cli \in {"tagging", "noting", "returned"} => release = "success"
    /\ ~Headless /\ (tagsSet # {} \/ note) => release = "success"
    /\ cli \in {"tagging", "noting", "returned"} =>
         builder # "receiving" /\ (~Headless => builder = "ended")
    /\ ~Headless /\ cli = "returned" => tagsSet = opts.tags
    /\ (Headless => opts.tty) /\ cli = "returned" /\ announced => note = opts.note

IInv == TypeOK /\ PhaseInv /\ ReleaseInv /\ CancelInv
        /\ AttachedInv /\ HeadlessInv /\ RejectedInv /\ OutcomeInv

-----------------------------------------------------------------------------
(* The stream *)

\* What the builder sends comes after what is there.
LEMMA Appended ==
  ASSUME NEW s \in Seq(Messages), NEW t \in Seq(Messages)
  PROVE  /\ s \o t \in Seq(Messages)
         /\ Len(s \o t) = Len(s) + Len(t)
         /\ \A i \in 1..Len(s) : (s \o t)[i] = s[i]
         /\ \A i \in 1..Len(t) : (s \o t)[Len(s) + i] = t[i]
  OBVIOUS

\* Once the oldest message was taken, the others move up.
LEMMA Taken ==
  ASSUME NEW s \in Seq(Messages), s # <<>>
  PROVE  /\ Head(s) = s[1] /\ Head(s) \in Messages
         /\ Tail(s) \in Seq(Messages)
         /\ Len(s) \in Nat /\ Len(s) >= 1
         /\ Len(Tail(s)) = Len(s) - 1
         /\ \A i \in 1..Len(Tail(s)) : Tail(s)[i] = s[i + 1]
  OBVIOUS

LEMMA SendType ==
  ASSUME stream \in Seq(Messages), NEW t \in Seq(Messages), Send(t)
  PROVE  stream' \in Seq(Messages)
<1>1. <<>> \in Seq(Messages)
  OBVIOUS
<1> QED BY <1>1, Appended DEF Send

-----------------------------------------------------------------------------
(* Types *)

LEMMA TypeStep == ASSUME TypeOK, OutcomeInv, [Next]_vars PROVE TypeOK'
<1> USE DEF TypeOK, Ended
<1>1. CASE BuilderAccepts /\ Builder /\ UNCHANGED opts
  <2>1. stream' \in Seq(Messages)
    <3>1. /\ <<"started">> \in Seq(Messages) /\ <<"startedUnnamed">> \in Seq(Messages)
          /\ <<>> \in Seq(Messages)
      BY DEF Messages
    <3>2. Send(<<"started">>) \/ Send(<<"startedUnnamed">>) \/ Send(<<>>)
      BY <1>1 DEF BuilderAccepts
    <3> QED BY <3>1, <3>2, SendType
  <2>2. announced' \in BOOLEAN /\ builder' = "building" /\ release' = "running"
    BY <1>1 DEF BuilderAccepts
  <2> QED BY <1>1, <2>1, <2>2 DEF BuilderAccepts, Builder, buildVars
<1>2. CASE BuilderRefuses /\ Builder /\ UNCHANGED opts
  <2>1. stream' \in Seq(Messages)
    <3>1. /\ <<"httpError", "end">> \in Seq(Messages)
          /\ <<"httpError", "parseError">> \in Seq(Messages)
          /\ <<"notStarted">> \in Seq(Messages)
      BY DEF Messages
    <3>2. \/ Send(<<"httpError", "end">>) \/ Send(<<"httpError", "parseError">>)
          \/ Send(<<"notStarted">>)
      BY <1>2 DEF BuilderRefuses
    <3> QED BY <3>1, <3>2, SendType
  <2> QED BY <1>2, <2>1 DEF BuilderRefuses, Builder, buildVars
<1>3. CASE BuilderLogs /\ Builder /\ UNCHANGED opts
  <2>1. stream' \in Seq(Messages)
    <3>1. <<"log">> \in Seq(Messages)
      BY DEF Messages
    <3> QED BY <1>3, <3>1, SendType DEF BuilderLogs
  <2> QED BY <1>3, <2>1 DEF BuilderLogs, Builder, buildVars
<1>4. CASE BuilderEnds /\ Builder /\ UNCHANGED opts
  <2>1. stream' \in Seq(Messages)
    <3>1. /\ <<"end">> \in Seq(Messages) /\ <<"isError", "end">> \in Seq(Messages)
          /\ <<>> \in Seq(Messages)
      BY DEF Messages
    <3>2. Send(<<"end">>) \/ Send(<<"isError", "end">>) \/ Send(<<>>)
      BY <1>4 DEF BuilderEnds
    <3> QED BY <3>1, <3>2, SendType
  <2> QED BY <1>4, <2>1 DEF BuilderEnds, Builder, buildVars
<1>5. CASE ConnectionBreaks /\ UNCHANGED opts
  <2>1. <<"lost">> \in Seq(Messages)
    BY DEF Messages
  <2> QED BY <1>5, <2>1 DEF ConnectionBreaks, buildVars
<1>6. CASE Receive /\ UNCHANGED opts
  <2>1. stream' \in Seq(Messages)
    BY <1>6, Taken DEF Receive
  <2>2. releaseId' \in BOOLEAN /\ hadError' \in BOOLEAN
    BY <1>6 DEF Receive, buildVars, Options
  <2>3. /\ cli' \in {"streaming", "cleaning", "tagging", "returned", "failed", "killed"}
        /\ rejected' \in BOOLEAN /\ listening' \in BOOLEAN
        /\ UNCHANGED <<apiVars, cancel, interrupted>>
    BY <1>6 DEF Receive, Reject, StreamEnds, Returns
  <2>4. tagging' \subseteq opts.tags \ tagsSet
    <3>1. UNCHANGED tagging \/ tagging' = opts.tags
      BY <1>6 DEF Receive, Reject, StreamEnds, Returns
    <3>2. tagsSet = {}
      BY <1>6 DEF Receive, OutcomeInv
    <3> QED BY <3>1, <3>2
  <2> QED BY <1>6, <2>1, <2>2, <2>3, <2>4 DEF apiVars
<1>7. CASE OpenStream /\ UNCHANGED opts
  <2>1. cli' \in {"streaming", "failed"} /\ (listening' = TRUE \/ UNCHANGED listening)
    BY <1>7 DEF OpenStream
  <2>2. listening' \in BOOLEAN
    BY <2>1
  <2> QED BY <1>7, <2>1, <2>2 DEF OpenStream, apiVars, buildVars
<1>8. CASE (Cleaned \/ TagsSet \/ Kill) /\ UNCHANGED opts
  BY <1>8 DEF Cleaned, TagsSet, Kill, apiVars, buildVars
<1>9. CASE SetNote /\ UNCHANGED opts
  <2>1. note' \in BOOLEAN /\ cli' \in {"returned", "failed"}
    BY <1>9 DEF SetNote, Options
  <2> QED BY <1>9, <2>1 DEF SetNote, buildVars
<1>10. CASE (\E t \in Tags : SetTag(t)) /\ UNCHANGED opts
  BY <1>10 DEF SetTag, buildVars
<1>11. CASE Interrupt /\ UNCHANGED opts
  <2>1. <<>> \in Seq(Messages)
    OBVIOUS
  <2> QED BY <1>11, <2>1 DEF Interrupt, Reject, apiVars, buildVars
<1>12. CASE Cancel /\ UNCHANGED opts
  BY <1>12 DEF Cancel, buildVars
<1>13. CASE UNCHANGED vars
  BY <1>13 DEF vars, apiVars, buildVars
<1>14. CASE BuilderAnnounces /\ Builder /\ UNCHANGED opts
  <2>1. stream' \in Seq(Messages)
    <3>1. <<"buildLogId">> \in Seq(Messages)
      BY DEF Messages
    <3> QED BY <1>14, <3>1, SendType DEF BuilderAnnounces
  <2> QED BY <1>14, <2>1 DEF BuilderAnnounces, Builder, buildVars
<1> QED BY <1>14, <1>1, <1>2, <1>3, <1>4, <1>5, <1>6, <1>7, <1>8, <1>9, <1>10, <1>11, <1>12, <1>13
   DEF Next, Builder, Process

-----------------------------------------------------------------------------
(* Phases, the release and its cancellation *)

LEMMA PhaseStep ==
  ASSUME TypeOK, PhaseInv, ReleaseInv, RejectedInv, [Next]_vars
  PROVE  PhaseInv'
<1> USE DEF PhaseInv
<1>1. CASE Builder
  <2>1. interrupted => stream' = <<>> \/ UNCHANGED stream
    BY <1>1 DEF Builder, BuilderAccepts, BuilderRefuses, BuilderAnnounces, BuilderLogs,
               BuilderEnds, Send
  <2>2. cli # "preparing"
    BY <1>1 DEF Builder, BuilderAccepts, BuilderRefuses, BuilderAnnounces, BuilderLogs, BuilderEnds
  <2> QED BY <1>1, <2>1, <2>2 DEF Builder, buildVars
<1>2. CASE ConnectionBreaks
  BY <1>2 DEF ConnectionBreaks
<1>3. CASE OpenStream
  BY <1>3 DEF OpenStream, apiVars
<1>4. CASE Receive
  <2>1. stream # <<>> /\ ~interrupted /\ UNCHANGED <<interrupted, builder>>
    BY <1>4 DEF Receive, apiVars
  <2>2. CASE UNCHANGED <<cli, listening, rejected>>
    BY <2>1, <2>2, <1>4 DEF Receive
  <2>3. CASE Reject
    BY <2>1, <2>3 DEF Reject
  <2>4. CASE cli' = "killed" /\ UNCHANGED <<listening, rejected>> /\ rejected
    BY <2>1, <2>4, <1>4 DEF Receive
  <2>5. CASE (\E known \in BOOLEAN : Returns(known)) /\ Head(stream) \in Started
    <3>1. ~rejected
      BY <2>1, <2>5, Taken DEF RejectedInv, TypeOK
    <3>2. /\ cli' \in {"tagging", "returned", "failed"}
          /\ listening' = FALSE /\ UNCHANGED rejected
      BY <2>5 DEF Returns
    <3> QED BY <2>1, <3>1, <3>2
  <2>6. CASE StreamEnds /\ ~rejected
    <3>1. /\ cli' \in {"tagging", "returned", "failed"}
          /\ listening' = FALSE /\ UNCHANGED rejected
      BY <2>6 DEF StreamEnds, Returns
    <3> QED BY <2>1, <2>6, <3>1
  <2>7. releaseId' \in BOOLEAN
    BY <1>4 DEF Receive, TypeOK, Options, buildVars
  <2> QED BY <1>4, <2>2, <2>3, <2>4, <2>5, <2>6, <2>7 DEF Receive, Started
<1>5. CASE Interrupt
  BY <1>5 DEF Interrupt, Reject, apiVars
<1>6. CASE Kill
  BY <1>6 DEF Kill, Ended, TypeOK, apiVars
<1>7. CASE Cancel
  BY <1>7 DEF Cancel
<1>8. CASE Cleaned
  BY <1>8 DEF Cleaned, apiVars
<1>9. CASE TagsSet \/ SetNote \/ \E t \in Tags : SetTag(t)
  BY <1>9 DEF TagsSet, SetNote, SetTag, apiVars
<1>10. CASE UNCHANGED vars
  BY <1>10 DEF vars, apiVars
<1> QED BY <1>1, <1>2, <1>3, <1>4, <1>5, <1>6, <1>7, <1>8, <1>9, <1>10 DEF Next, Process

LEMMA ReleaseStep ==
  ASSUME TypeOK, PhaseInv, ReleaseInv, CancelInv, [Next]_vars
  PROVE  ReleaseInv'
<1> USE DEF ReleaseInv
<1>1. CASE Builder
  BY <1>1 DEF Builder, BuilderAccepts, BuilderRefuses, BuilderAnnounces, BuilderLogs, BuilderEnds,
             buildVars
<1>2. CASE ConnectionBreaks
  BY <1>2 DEF ConnectionBreaks, buildVars
<1>3. CASE Receive
  BY <1>3 DEF Receive, apiVars
<1>4. CASE Interrupt
  BY <1>4 DEF Interrupt, apiVars, buildVars
<1>5. CASE Cancel
  BY <1>5 DEF Cancel, CancelInv, buildVars
<1>6. CASE OpenStream \/ Cleaned \/ TagsSet \/ Kill \/ UNCHANGED vars
  BY <1>6 DEF OpenStream, Cleaned, TagsSet, Kill, vars, apiVars, buildVars
<1>7. CASE SetNote \/ \E t \in Tags : SetTag(t)
  BY <1>7 DEF SetNote, SetTag, buildVars
<1> QED BY <1>1, <1>2, <1>3, <1>4, <1>5, <1>6, <1>7 DEF Next, Process

LEMMA CancelStep ==
  ASSUME TypeOK, PhaseInv, ReleaseInv, CancelInv, [Next]_vars
  PROVE  CancelInv'
<1> USE DEF CancelInv
<1>1. CASE Builder
  BY <1>1 DEF Builder, BuilderAccepts, BuilderRefuses, BuilderAnnounces, BuilderLogs, BuilderEnds,
             ReleaseInv, buildVars
<1>2. CASE ConnectionBreaks
  BY <1>2 DEF ConnectionBreaks, buildVars
<1>3. CASE Receive
  <2>1. ~interrupted /\ cancel = "none"
    BY <1>3 DEF Receive, PhaseInv
  <2> QED BY <1>3, <2>1 DEF Receive, apiVars
<1>4. CASE Interrupt
  <2>1. ~interrupted /\ cancel = "none"
    BY <1>4 DEF Interrupt, PhaseInv
  <2> QED BY <1>4, <2>1 DEF Interrupt, Reject, apiVars, buildVars
<1>5. CASE Cancel
  BY <1>5 DEF Cancel, buildVars
<1>6. CASE Cleaned \/ Kill \/ UNCHANGED vars
  BY <1>6 DEF Cleaned, Kill, vars, apiVars, buildVars
<1>7. CASE OpenStream \/ TagsSet
  BY <1>7 DEF OpenStream, TagsSet, apiVars, buildVars
<1>8. CASE SetNote \/ \E t \in Tags : SetTag(t)
  BY <1>8 DEF SetNote, SetTag, buildVars
<1> QED BY <1>1, <1>2, <1>3, <1>4, <1>5, <1>6, <1>7, <1>8 DEF Next, Process

-----------------------------------------------------------------------------
(* The messages that are still to be read *)

\* What is sent comes last: it changes nothing before it.
LEMMA BeforeSent ==
  ASSUME TypeOK, NEW t \in Seq(Messages), stream' = stream \o t,
         NEW i \in 1..(Len(stream) + 1), NEW messages, Before(i, messages)
  PROVE  Before(i, messages)'
<1>1. PICK j \in 1..(i - 1) : stream[j] \in messages
  BY DEF Before
<1>2. stream \in Seq(Messages) /\ j \in 1..Len(stream)
  BY DEF TypeOK
<1>3. stream'[j] = stream[j]
  BY <1>2, Appended
<1> QED BY <1>1, <1>3 DEF Before

\* What the oldest message explained, it explains no more.
LEMMA BeforeTaken ==
  ASSUME TypeOK, stream # <<>>, stream' = Tail(stream),
         NEW i \in 1..Len(stream), NEW messages, Before(i + 1, messages),
         Head(stream) \notin messages
  PROVE  Before(i, messages)'
<1>1. PICK j \in 1..i : stream[j] \in messages
  BY DEF Before
<1>2. /\ stream \in Seq(Messages) /\ stream[1] \notin messages
      /\ Len(Tail(stream)) = Len(stream) - 1 /\ Len(stream) \in Nat
      /\ \A k \in 1..Len(Tail(stream)) : Tail(stream)[k] = stream[k + 1]
  BY Taken DEF TypeOK
<1>3. j - 1 \in 1..(i - 1) /\ stream'[j - 1] = stream[j]
  BY <1>1, <1>2
<1> QED BY <1>1, <1>3 DEF Before

LEMMA RejectedStep ==
  ASSUME TypeOK, PhaseInv, ReleaseInv, AttachedInv, HeadlessInv, RejectedInv, [Next]_vars
  PROVE  RejectedInv'
<1> USE DEF RejectedInv
<1>1. CASE Builder /\ UNCHANGED opts
  <2>1. SUFFICES ASSUME rejected, ~interrupted
                 PROVE  \A i \in 1..Len(stream') : stream'[i] \notin Started
    BY <1>1 DEF Builder, BuilderAccepts, BuilderRefuses, BuilderAnnounces, BuilderLogs,
               BuilderEnds, Send
  <2>2. PICK t \in {<<"log">>, <<"buildLogId">>, <<>>, <<"end">>, <<"isError", "end">>} :
          stream' = stream \o t
    BY <1>1, <2>1 DEF Builder, BuilderAccepts, BuilderRefuses, BuilderAnnounces, BuilderLogs,
               BuilderEnds, Send
  <2>3. t \in Seq(Messages) /\ Len(t) \in 0..2 /\ \A i \in 1..Len(t) : t[i] \notin Started
    <3>1. CASE t = <<>>
      BY <3>1
    <3>2. CASE t = <<"log">>
      BY <3>2 DEF Messages, Started
    <3>3. CASE t = <<"end">>
      BY <3>3 DEF Messages, Started
    <3>4. CASE t = <<"isError", "end">>
      BY <3>4 DEF Messages, Started
    <3>5. CASE t = <<"buildLogId">>
      BY <3>5 DEF Messages, Started
    <3> QED BY <3>1, <3>2, <3>3, <3>4, <3>5
  <2>4. /\ stream \in Seq(Messages) /\ Len(stream) \in Nat
        /\ \A i \in 1..Len(stream) : stream[i] \notin Started
    BY <2>1 DEF TypeOK
  <2>5. /\ Len(stream') = Len(stream) + Len(t)
        /\ \A i \in 1..Len(stream) : stream'[i] = stream[i]
        /\ \A i \in 1..Len(t) : stream'[Len(stream) + i] = t[i]
    BY <2>2, <2>3, <2>4, Appended
  <2>6. ASSUME NEW i \in 1..Len(stream')
        PROVE  stream'[i] \notin Started
    <3>1. i \in 1..Len(stream) \/ (i - Len(stream) \in 1..Len(t) /\ i = Len(stream) + (i - Len(stream)))
      BY <2>3, <2>4, <2>5
    <3> QED BY <2>3, <2>4, <2>5, <3>1
  <2> QED BY <2>6
<1>2. CASE ConnectionBreaks
  BY <1>2 DEF ConnectionBreaks
<1>3. CASE Receive
  <2>1. SUFFICES ASSUME rejected'
                 PROVE  /\ builder' = "receiving" => interrupted'
                        /\ \A i \in 1..Len(stream) : stream[i] \in Started => i = 1
    BY <1>3, Taken DEF Receive, TypeOK
  <2>2. CASE rejected
    BY <1>3, <2>2 DEF Receive, apiVars
  <2>3. CASE ~rejected
    <3>1. cli = "streaming" /\ stream # <<>> /\ UNCHANGED <<builder, interrupted>>
      BY <1>3, <2>3 DEF Receive, PhaseInv, apiVars
    <3>2. CASE Headless
      BY <3>1, <3>2 DEF HeadlessInv, Started, ReleaseInv
    <3>3. CASE ~Headless
      BY <3>1, <3>3 DEF AttachedInv, ReleaseInv
    <3> QED BY <3>2, <3>3
  <2> QED BY <2>2, <2>3
<1>4. CASE Interrupt
  BY <1>4 DEF Interrupt, apiVars
<1>5. CASE OpenStream \/ Cleaned \/ TagsSet \/ Kill \/ UNCHANGED vars
  BY <1>5 DEF OpenStream, Cleaned, TagsSet, Kill, vars, apiVars
<1>6. CASE Cancel \/ SetNote \/ \E t \in Tags : SetTag(t)
  BY <1>6 DEF Cancel, SetNote, SetTag
<1> QED BY <1>1, <1>2, <1>3, <1>4, <1>5, <1>6 DEF Next, Process

LEMMA HeadlessStep ==
  ASSUME TypeOK, PhaseInv, ReleaseInv, CancelInv, HeadlessInv, [Next]_vars
  PROVE  HeadlessInv'
<1>0. UNCHANGED opts
  BY DEF Next, vars
<1> SUFFICES ASSUME cli' = "streaming", Headless
             PROVE  HeadlessInv'
  BY <1>0 DEF HeadlessInv, Headless
<1> USE DEF HeadlessInv
<1>1. CASE Builder
  <2>1. /\ cli = "streaming" /\ ~interrupted /\ UNCHANGED hadError
        /\ stream \in Seq(Messages)
    BY <1>1 DEF Builder, PhaseInv, buildVars, TypeOK
  <2>2. CASE BuilderAccepts
    BY <1>0, <2>1, <2>2 DEF BuilderAccepts, Send, ReleaseInv
  <2>3. CASE BuilderRefuses
    BY <1>0, <2>1, <2>3 DEF BuilderRefuses, Send, ReleaseInv
  <2>4. CASE BuilderLogs \/ BuilderAnnounces
    BY <2>4 DEF BuilderLogs, BuilderAnnounces
  <2>5. CASE BuilderEnds
    <3>1. stream' = stream /\ builder = "building" /\ builder' = "ended" /\ UNCHANGED announced
      BY <2>1, <2>5 DEF BuilderEnds, Send
    <3> QED BY <1>0, <2>1, <3>1
  <2> QED BY <1>1, <2>2, <2>3, <2>4, <2>5 DEF Builder
<1>2. CASE ConnectionBreaks
  BY <1>0, <1>2 DEF ConnectionBreaks, buildVars
<1>3. CASE OpenStream
  BY <1>0, <1>3 DEF OpenStream, PhaseInv, ReleaseInv, apiVars, buildVars
<1>4. CASE Receive
  <2>1. cli = "streaming" /\ ~rejected /\ stream # <<>>
    <3>1. cli = "cleaning" => cli' # "streaming"
      BY <1>4 DEF Receive, Reject, StreamEnds, Returns, PhaseInv
    <3> QED BY <1>4, <3>1 DEF Receive, PhaseInv
  <2>2. Head(stream) \in {"started", "startedUnnamed", "notStarted", "httpError", "lost"}
    BY <2>1
  <2> QED BY <1>4, <2>1, <2>2 DEF Receive, Reject, Returns
<1>5. CASE UNCHANGED vars
  BY <1>0, <1>5 DEF vars, apiVars, buildVars
<1>6. CASE Cancel
  BY <1>6 DEF Cancel, CancelInv, PhaseInv
<1>7. CASE Interrupt \/ Cleaned \/ TagsSet \/ Kill
  BY <1>7 DEF Interrupt, Reject, Cleaned, TagsSet, Kill
<1>8. CASE SetNote \/ \E t \in Tags : SetTag(t)
  BY <1>8 DEF SetNote, SetTag
<1> QED BY <1>1, <1>2, <1>3, <1>4, <1>5, <1>6, <1>7, <1>8 DEF Next, Process

LEMMA ExplainedSent ==
  ASSUME TypeOK, NEW t \in Seq(Messages), stream' = stream \o t,
         NEW i \in 1..Len(stream), Explained(i),
         UNCHANGED <<buildVars, announced>>, release = "success" => release' = "success",
         builder = "ended" => builder' = "ended"
  PROVE  Explained(i)'
<1>1. stream'[i] = stream[i] /\ i \in 1..(Len(stream) + 1)
  BY Appended DEF TypeOK
<1>2. \A m \in {Errors, {"buildLogId"}, {"isError"}} : Before(i, m) => Before(i, m)'
  BY <1>1, BeforeSent
<1> QED BY <1>1, <1>2 DEF Explained, buildVars

LEMMA ExplainedTaken ==
  ASSUME TypeOK, stream # <<>>, stream' = Tail(stream), Head(stream) \notin Errors,
         Head(stream) = "buildLogId" => releaseId', releaseId => releaseId',
         Head(stream) = "isError" => hadError', hadError => hadError',
         UNCHANGED <<release, announced, builder>>,
         NEW i \in 1..Len(stream'), Explained(i + 1)
  PROVE  Explained(i)'
<1>1. stream'[i] = stream[i + 1] /\ i \in 1..Len(stream)
  BY Taken DEF TypeOK
<1>2. Before(i + 1, Errors) => Before(i, Errors)'
  BY <1>1, BeforeTaken
<1>3. Before(i + 1, {"buildLogId"}) => releaseId' \/ Before(i, {"buildLogId"})'
  BY <1>1, BeforeTaken
<1>4. Before(i + 1, {"isError"}) => hadError' \/ Before(i, {"isError"})'
  BY <1>1, BeforeTaken
<1> QED BY <1>1, <1>2, <1>3, <1>4 DEF Explained

LEMMA AttachedStep ==
  ASSUME TypeOK, PhaseInv, ReleaseInv, CancelInv, AttachedInv, [Next]_vars
  PROVE  AttachedInv'
<1>0. UNCHANGED opts
  BY DEF Next, vars
<1> SUFFICES ASSUME cli' = "streaming", ~Headless
             PROVE  Announced' /\ \A i \in 1..Len(stream') : stream'[i] \notin Started /\ Explained(i)'
  BY <1>0 DEF AttachedInv, Headless
<1>1. CASE Builder
  <2>1. /\ cli = "streaming" /\ ~interrupted /\ UNCHANGED buildVars
        /\ stream \in Seq(Messages)
        /\ Announced
        /\ \A i \in 1..Len(stream) : stream[i] \notin Started /\ Explained(i)
    BY <1>1 DEF Builder, PhaseInv, TypeOK, AttachedInv
  <2>2. CASE BuilderAccepts
    <3>1. stream' = <<>> /\ ~announced'
      <4>1. stream = <<>>
        BY <2>2 DEF BuilderAccepts, ReleaseInv
      <4>2. stream' = stream \o <<>> /\ ~announced'
        BY <1>0, <2>1, <2>2 DEF BuilderAccepts, Send, Headless
      <4> QED BY <4>1, <4>2
    <3> QED BY <3>1 DEF Announced
  <2>3. CASE BuilderRefuses
    <3>1. /\ stream' = <<"httpError", "end">> \/ stream' = <<"httpError", "parseError">>
          /\ builder' = "ended" /\ ~announced'
      BY <1>0, <2>1, <2>3 DEF BuilderRefuses, Send, ReleaseInv
    <3>2. /\ Len(stream') = 2 /\ stream'[1] = "httpError"
          /\ \A i \in 1..2 : stream'[i] \notin Started
          /\ stream'[1] # "end"
      BY <3>1 DEF Started
    <3>3. Explained(1)' /\ Explained(2)'
      BY <3>1, <3>2 DEF Explained, Before, Errors
    <3> QED BY <3>1, <3>2, <3>3 DEF Announced
  <2>4. CASE BuilderLogs
    <3>1. stream' = stream \o <<"log">> /\ UNCHANGED <<builder, release, announced>>
      BY <2>1, <2>4 DEF BuilderLogs, Send
    <3>2. <<"log">> \in Seq(Messages) /\ Len(<<"log">>) = 1 /\ <<"log">>[1] = "log"
      BY DEF Messages
    <3>3. PICK n \in Nat : n = Len(stream)
      BY <2>1
    <3>4. /\ Len(stream') = n + 1
          /\ stream'[n + 1] = "log"
          /\ \A i \in 1..n : stream'[i] = stream[i]
      BY <2>1, <3>1, <3>2, <3>3, Appended
    <3>5. \A i \in 1..n : Explained(i)'
      BY <2>1, <3>1, <3>2, <3>3, ExplainedSent
    <3>6. Explained(n + 1)'
      BY <3>4 DEF Explained
    <3>7. Announced'
      <4>1. PICK t \in Seq(Messages) : stream' = stream \o t
        BY <3>1, <3>2
      <4>2. n + 1 \in 1..(Len(stream) + 1)
        BY <3>3
      <4>3. Before(n + 1, {"buildLogId"} \cup Errors) => Before(n + 1, {"buildLogId"} \cup Errors)'
        BY <4>1, <4>2, BeforeSent
      <4> QED BY <2>1, <3>1, <3>3, <3>4, <4>3 DEF Announced, Before, buildVars
    <3> QED BY <2>1, <3>3, <3>4, <3>5, <3>6, <3>7 DEF Started
  <2>5. CASE BuilderEnds
    <3>1. /\ builder = "building" /\ builder' = "ended" /\ release = "running"
          /\ UNCHANGED announced
          /\ \/ release' = "success" /\ stream' = stream \o <<"end">>
             \/ stream' = stream \o <<"isError", "end">>
      BY <2>1, <2>5 DEF BuilderEnds, Send, ReleaseInv
    <3>2. PICK t \in {<<"end">>, <<"isError", "end">>} :
            stream' = stream \o t /\ (t = <<"end">> => release' = "success")
      BY <3>1
    <3>3. /\ t \in Seq(Messages) /\ Len(t) \in 1..2 /\ t[Len(t)] = "end"
          /\ Len(t) = 2 => t[1] = "isError"
          /\ Len(t) = 1 => release' = "success"
      <4>1. CASE t = <<"end">>
        BY <3>2, <4>1 DEF Messages
      <4>2. CASE t = <<"isError", "end">>
        BY <4>2 DEF Messages
      <4> QED BY <4>1, <4>2
    <3>4. PICK n \in Nat : n = Len(stream)
      BY <2>1
    <3>5. PICK k \in 1..2 : k = Len(t)
      BY <3>3
    <3>6. /\ Len(stream') = n + k
          /\ \A i \in 1..n : stream'[i] = stream[i]
          /\ stream'[n + k] = "end"
          /\ k = 2 => stream'[n + 1] = "isError"
      <4>1. /\ Len(stream') = n + k
            /\ \A i \in 1..n : stream'[i] = stream[i]
            /\ \A i \in 1..k : stream'[n + i] = t[i]
        BY <2>1, <3>2, <3>3, <3>4, <3>5, Appended
      <4> QED BY <3>3, <3>5, <4>1
    <3>7. \A i \in 1..n : Explained(i)'
      BY <2>1, <3>1, <3>2, <3>3, <3>4, ExplainedSent
    <3>8. announced' => releaseId' \/ Before(n + k, {"buildLogId"})' \/ Before(n + k, Errors)'
      <4>1. announced => releaseId \/ Before(n + 1, {"buildLogId"} \cup Errors)
        BY <2>1, <3>4 DEF Announced
      <4>2. announced => releaseId \/ Before(n + 1, {"buildLogId"} \cup Errors)'
        BY <3>2, <3>3, <3>4, <4>1, BeforeSent
      <4> QED BY <2>1, <3>1, <4>2 DEF Before, buildVars
    <3>9. release' = "success" \/ Before(n + k, {"isError"})'
      BY <3>3, <3>5, <3>6 DEF Before
    <3>10. Explained(n + k)'
      BY <3>1, <3>8, <3>9 DEF Explained
    <3>11. \A i \in 1..(n + k) : i \in 1..n \/ i = n + k \/ stream'[i] = "isError"
      BY <3>6
    <3>12. Announced'
      <4>1. Before(n + 1, {"buildLogId"} \cup Errors) =>
              Before(n + k + 1, {"buildLogId"} \cup Errors)'
        <5>1. Before(n + 1, {"buildLogId"} \cup Errors) =>
                Before(n + 1, {"buildLogId"} \cup Errors)'
          BY <3>2, <3>3, <3>4, BeforeSent
        <5> QED BY <5>1 DEF Before
      <4> QED BY <2>1, <3>1, <3>4, <3>6, <4>1 DEF Announced, buildVars
    <3> QED BY <2>1, <3>4, <3>6, <3>7, <3>10, <3>11, <3>12 DEF Explained, Started
  <2>6. CASE BuilderAnnounces
    <3>1. stream' = stream \o <<"buildLogId">> /\ builder = "building" /\ UNCHANGED builder
      BY <2>1, <2>6 DEF BuilderAnnounces, Send
    <3>2. /\ <<"buildLogId">> \in Seq(Messages)
          /\ Len(<<"buildLogId">>) = 1 /\ <<"buildLogId">>[1] = "buildLogId"
      BY DEF Messages
    <3>3. PICK n \in Nat : n = Len(stream)
      BY <2>1
    <3>4. /\ Len(stream') = n + 1
          /\ stream'[n + 1] = "buildLogId"
          /\ \A i \in 1..n : stream'[i] = stream[i]
      BY <2>1, <3>1, <3>2, <3>3, Appended
    <3>5. \A i \in 1..n : stream[i] # "end"
      BY <2>1, <3>1, <3>3 DEF Explained
    <3>6. \A i \in 1..(n + 1) : stream'[i] \notin Started /\ Explained(i)'
      BY <2>1, <3>3, <3>4, <3>5 DEF Explained, Started
    <3>7. Announced'
      BY <3>3, <3>4 DEF Announced, Before
    <3> QED BY <3>4, <3>6, <3>7
  <2> QED BY <1>1, <2>2, <2>3, <2>4, <2>5, <2>6 DEF Builder
<1>2. CASE ConnectionBreaks
  <2>1. stream' = <<"lost">>
    BY <1>2 DEF ConnectionBreaks
  <2> QED BY <2>1 DEF Announced, Explained, Before, Errors, Started
<1>3. CASE OpenStream
  <2>1. stream' = <<>> /\ builder' = "receiving" /\ ~announced'
    BY <1>3 DEF OpenStream, PhaseInv, ReleaseInv, apiVars
  <2> QED BY <2>1 DEF Announced
<1>4. CASE Receive
  <2>1. cli = "streaming" /\ ~rejected /\ stream # <<>> /\ stream' = Tail(stream)
    <3>1. cli = "cleaning" => cli' # "streaming"
      BY <1>4 DEF Receive, Reject, StreamEnds, Returns, PhaseInv
    <3> QED BY <1>4, <3>1 DEF Receive, PhaseInv
  <2>2. Announced /\ \A i \in 1..Len(stream) : stream[i] \notin Started /\ Explained(i)
    BY <2>1 DEF AttachedInv
  <2>3. /\ stream \in Seq(Messages) /\ Head(stream) = stream[1]
        /\ Len(stream) \in Nat /\ Len(stream) >= 1 /\ Len(stream') = Len(stream) - 1
        /\ \A i \in 1..Len(stream') : stream'[i] = stream[i + 1]
    BY <2>1, Taken DEF TypeOK
  <2>4. /\ Head(stream) \in {"buildLogId", "isError", "log"}
        /\ Head(stream) = "buildLogId" => releaseId'
        /\ releaseId => releaseId'
        /\ Head(stream) = "isError" => hadError'
        /\ hadError => hadError'
        /\ UNCHANGED <<release, builder, announced>>
    BY <1>4, <2>1, <2>2, <2>3 DEF Receive, Reject, StreamEnds, Returns, Started, buildVars, apiVars
  <2>5. \A i \in 1..Len(stream') : stream'[i] \notin Started /\ Explained(i + 1)
    BY <2>2, <2>3
  <2>6. \A i \in 1..Len(stream') : Explained(i)'
    BY <2>1, <2>4, <2>5, ExplainedTaken DEF Errors
  <2>7. Announced'
    <3>1. PICK n \in 1..Len(stream) : n = Len(stream)
      BY <2>3
    <3>2. Before(n + 1, {"buildLogId"} \cup Errors) =>
            releaseId' \/ Before(n, {"buildLogId"} \cup Errors)'
      <4>1. Head(stream) \in {"buildLogId"} \cup Errors => releaseId'
        BY <2>4 DEF Errors
      <4> QED BY <2>1, <3>1, <4>1, BeforeTaken
    <3> QED BY <2>2, <2>3, <2>4, <3>1, <3>2 DEF Announced
  <2> QED BY <2>5, <2>6, <2>7
<1>5. CASE UNCHANGED vars
  BY <1>0, <1>5 DEF vars, apiVars, buildVars, AttachedInv, Announced, Explained, Before
<1>6. CASE Cancel
  BY <1>6 DEF Cancel, CancelInv, PhaseInv
<1>7. CASE Interrupt \/ Cleaned \/ TagsSet \/ Kill
  BY <1>7 DEF Interrupt, Reject, Cleaned, TagsSet, Kill
<1>8. CASE SetNote \/ \E t \in Tags : SetTag(t)
  BY <1>8 DEF SetNote, SetTag
<1> QED BY <1>1, <1>2, <1>3, <1>4, <1>5, <1>6, <1>7, <1>8 DEF Next, Process

-----------------------------------------------------------------------------
(* What the push leaves behind *)

LEMMA OutcomeStep ==
  ASSUME TypeOK, PhaseInv, ReleaseInv, CancelInv, AttachedInv, HeadlessInv, RejectedInv,
         OutcomeInv, [Next]_vars
  PROVE  OutcomeInv'
<1>0. UNCHANGED opts
  BY DEF Next, vars
<1> USE DEF OutcomeInv, Headless
<1>1. CASE Builder
  <2>1. UNCHANGED <<tagsSet, note, cli, tagging>> /\ (release = "success" => release' = "success")
    BY <1>1 DEF Builder, BuilderAccepts, BuilderRefuses, BuilderAnnounces, BuilderLogs, BuilderEnds,
               ReleaseInv
  <2>2. cli \in {"tagging", "noting", "returned"} =>
          /\ builder' # "receiving" /\ (builder = "ended" => builder' = "ended")
          /\ UNCHANGED announced
    BY <1>1 DEF Builder, BuilderAccepts, BuilderRefuses, BuilderAnnounces, BuilderLogs, BuilderEnds
  <2> QED BY <1>0, <2>1, <2>2
<1>2. CASE ConnectionBreaks
  BY <1>0, <1>2 DEF ConnectionBreaks
<1>3. CASE OpenStream
  BY <1>0, <1>3 DEF OpenStream, apiVars
<1>4. CASE Receive
  <2>1. UNCHANGED apiVars /\ stream # <<>> /\ cli \in {"streaming", "cleaning"}
    BY <1>4 DEF Receive
  <2>2. tagsSet = {} /\ ~note /\ UNCHANGED <<builder, release, announced, tagsSet, note>>
    BY <2>1 DEF apiVars
  <2>3. CASE cli' \in {"streaming", "cleaning", "failed", "killed"}
    BY <1>0, <2>2, <2>3
  <2>4. CASE cli' \in {"tagging", "returned"}
    <3>1. ~rejected /\ cli = "streaming"
      <4>1. rejected => Head(stream) \notin Started
        BY <2>1, Taken DEF RejectedInv, TypeOK
      <4>2. rejected => cli' \in {"streaming", "cleaning", "killed"}
        BY <1>4, <4>1 DEF Receive, Started, PhaseInv
      <4> QED BY <2>1, <2>4, <4>2 DEF PhaseInv
    <3>2. CASE opts.headless
      <4>1. /\ Head(stream) \in {"started", "startedUnnamed", "notStarted", "httpError", "lost"}
            /\ opts.tags = {} /\ builder # "receiving"
            /\ Head(stream) # "started" => ~announced \/ Head(stream) \notin Started
        BY <2>1, <3>1, <3>2 DEF HeadlessInv, TypeOK, Options, Started
      <4>2. Head(stream) \in Started
        BY <1>4, <2>4, <4>1 DEF Receive, Reject, Started
      <4>3. CASE Head(stream) # "started"
        BY <1>0, <1>4, <2>2, <2>4, <3>2, <4>1, <4>2, <4>3 DEF Receive, Returns, Started
      <4>4. CASE Head(stream) = "started"
        BY <1>0, <1>4, <2>2, <2>4, <3>2, <4>1, <4>4 DEF Receive, Returns
      <4> QED BY <4>3, <4>4
    <3>3. CASE ~opts.headless
      <4>1. Head(stream) = stream[1] /\ 1 \in 1..Len(stream)
        BY <2>1, Taken DEF TypeOK
      <4>2. Head(stream) \notin Started /\ Explained(1)
        BY <3>1, <3>3, <4>1 DEF AttachedInv
      <4>3. Head(stream) = "end" /\ StreamEnds
        BY <1>4, <2>4, <3>1, <4>2 DEF Receive, Reject, Started
      <4>4. /\ builder = "ended" /\ (announced => releaseId)
            /\ release = "success" \/ hadError
        BY <4>1, <4>2, <4>3 DEF Explained, Before
      <4>5. ~hadError /\ Returns(releaseId)
        BY <2>4, <4>3 DEF StreamEnds
      <4>6. CASE releaseId
        BY <1>0, <2>2, <3>3, <4>4, <4>5, <4>6 DEF Returns
      <4>7. CASE ~releaseId
        BY <1>0, <2>2, <2>4, <3>3, <4>4, <4>5, <4>7 DEF Returns
      <4> QED BY <4>6, <4>7 DEF TypeOK
    <3> QED BY <3>2, <3>3
  <2> QED BY <1>4, <2>3, <2>4 DEF Receive, Reject, StreamEnds, Returns
<1>5. CASE Interrupt
  <2>1. cli = "streaming" /\ cli' = "cleaning" /\ UNCHANGED <<tagsSet, note>>
    BY <1>5 DEF Interrupt, Reject, PhaseInv, apiVars
  <2> QED BY <1>0, <2>1
<1>6. CASE Cancel
  BY <1>0, <1>6 DEF Cancel, CancelInv
<1>7. CASE Kill
  <2>1. cli' = "killed" /\ UNCHANGED <<release, tagsSet, note>>
    BY <1>7 DEF Kill, apiVars
  <2> QED BY <1>0, <2>1
<1>8. CASE Cleaned \/ TagsSet \/ UNCHANGED vars
  BY <1>0, <1>8 DEF Cleaned, TagsSet, vars, apiVars
<1>9. CASE SetNote
  BY <1>0, <1>9 DEF SetNote, TypeOK, Options
<1>10. CASE \E t \in Tags : SetTag(t)
  BY <1>0, <1>10 DEF SetTag, TypeOK
<1> QED BY <1>1, <1>2, <1>3, <1>4, <1>5, <1>6, <1>8, <1>9, <1>10, <1>7 DEF Next, Process

-----------------------------------------------------------------------------
(* The theorems *)

\* The inductive invariant: what is still in the stream explains what the CLI
\* will make of it.
THEOREM RemoteBuildInductive == Spec => []IInv
<1>1. Init => IInv
  <2>1. Init => TypeOK
    <3>1. <<>> \in Seq(Messages) /\ MaxLogs \in Nat
      OBVIOUS
    <3>2. 0 \in 0..MaxLogs
      BY <3>1
    <3> QED BY <3>1, <3>2 DEF Init, TypeOK
  <2>2. Init => PhaseInv /\ ReleaseInv /\ CancelInv /\ AttachedInv /\ HeadlessInv /\ RejectedInv
    BY DEF Init, PhaseInv, ReleaseInv, CancelInv, AttachedInv, HeadlessInv, RejectedInv
  <2>3. Init => OutcomeInv
    BY DEF Init, OutcomeInv
  <2> QED BY <2>1, <2>2, <2>3 DEF IInv
<1>2. IInv /\ [Next]_vars => IInv'
  BY TypeStep, PhaseStep, ReleaseStep, CancelStep, AttachedStep, HeadlessStep, RejectedStep,
     OutcomeStep DEF IInv
<1> QED BY <1>1, <1>2, PTL DEF Spec

\* Type correctness of the push.
THEOREM RemoteBuildTypeCorrect == Spec => []TypeOK
<1>1. IInv => TypeOK
  BY DEF IInv
<1> QED BY RemoteBuildInductive, <1>1, PTL

\* startRemoteBuild waits for the cancellation: a command that ended on CTRL-C
\* has cancelled the release it had heard of, or the release had succeeded, or
\* the request failed.
THEOREM InterruptedIsCancelled == Spec => []InterruptCancels
<1>1. IInv => InterruptCancels
  BY DEF IInv, TypeOK, CancelInv, InterruptCancels
<1> QED BY RemoteBuildInductive, <1>1, PTL

\* A push that waits for its build returns after a success only, with all its
\* tags and its note set; on a terminal, a detached push that started a build
\* sets its note too. Only the note of a release that the builder did not name
\* is dropped.
THEOREM PushReportsSuccess == Spec => []ReturnedIsDone
<1>1. IInv => ReturnedIsSuccess
  BY DEF IInv, OutcomeInv, ReturnedIsSuccess
<1>2. IInv => NoteIsSetOnTty
  BY DEF IInv, OutcomeInv, NoteIsSetOnTty, Headless
<1>3. IInv => ReturnedIsDone
  BY <1>1, <1>2 DEF ReturnedIsDone
<1> QED BY RemoteBuildInductive, <1>3, PTL

\* No release that did not succeed gets a tag or a note.
THEOREM TagsOnSuccessOnly == Spec => []TagsOfSuccess
<1>1. IInv => TagsOfSuccess
  BY DEF IInv, OutcomeInv, TagsOfSuccess
<1> QED BY RemoteBuildInductive, <1>1, PTL

\* The request that cancels a release leaves one alone that succeeded, and so
\* does everything else.
THEOREM SuccessStays == Spec => SuccessIsFinal
<1>1. IInv /\ [Next]_vars => [release = "success" => release' = "success"]_vars
  <2> SUFFICES ASSUME IInv, Next, release = "success"
               PROVE  release' = "success"
    OBVIOUS
  <2>1. CASE Builder
    BY <2>1 DEF Builder, BuilderAccepts, BuilderRefuses, BuilderAnnounces, BuilderLogs, BuilderEnds,
               IInv, ReleaseInv
  <2>2. CASE ConnectionBreaks
    BY <2>2 DEF ConnectionBreaks
  <2>3. CASE OpenStream \/ Receive \/ Cleaned \/ TagsSet \/ Interrupt \/ Kill
    BY <2>3 DEF OpenStream, Receive, Cleaned, TagsSet, Interrupt, Kill, apiVars
  <2>4. CASE SetNote \/ Cancel \/ \E t \in Tags : SetTag(t)
    BY <2>4 DEF SetNote, Cancel, SetTag
  <2> QED BY <2>1, <2>2, <2>3, <2>4 DEF Next, Process
<1> QED BY RemoteBuildInductive, <1>1, PTL DEF Spec, SuccessIsFinal
=============================================================================
