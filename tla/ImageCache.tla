----------------------------- MODULE ImageCache -----------------------------
(***************************************************************************)
(* The cache of OS images: getStream and doDownload of                     *)
(* src/utils/image-manager.ts, as downloadOSImage of src/utils/os.ts uses  *)
(* them ("balena os download", "balena device init").                      *)
(*                                                                         *)
(* Runs of the CLI share the cache directory and nothing else.  All that   *)
(* download one image write to one path, imagePath + ".inprogress".  An    *)
(* open file is an inode: renaming or removing its path does not close it, *)
(* and opening the path to write empties the inode that is there.          *)
(***************************************************************************)
EXTENDS Naturals

CONSTANTS
    Runs,       \* runs of the CLI that want this image
    Size,       \* blocks of the image
    Buffer,     \* blocks that a write stream holds before it is to be drained
    Deaths,     \* whether a run can be killed, or end by an uncaught error
    None        \* no file

\* What is assumed of the constants, by the module that gives them values.
ImageCacheAssumption ==
    /\ Size \in Nat \ {0}
    /\ Buffer \in Nat \ {0}
    /\ Deaths \in BOOLEAN
    /\ None \notin Runs

Blocks == 1..Size

VARIABLES
    \* the cache directory: an inode is named after the run that created it
    cached,       \* the inode at imagePath, or None
    inprogress,   \* the inode at imagePath + ".inprogress", or None
    content,      \* inode -> the blocks of the image that it holds
    length,       \* inode -> its length, in blocks
    \* the runs
    pc,
    fd,           \* run -> the inode it has open
    read,         \* run -> blocks taken from its source
    written,      \* run -> blocks written to disk
    output,       \* run -> the blocks of the image that its caller was given
    \* history
    overlap,      \* whether runs may overlap in time
    moved         \* runs whose persistCache renamed a file

dirVars == <<cached, inprogress, content, length>>
runVars == <<pc, fd, read, written, output>>
vars == <<dirVars, runVars, overlap, moved>>

\* A run has ended: well, with an error, by death, or "silent": the error of
\* its source reaches nobody.
Ended  == {"done", "failed", "dead", "silent"}
Active == {"requesting", "piping", "downloading", "draining", "opening", "reading"}

TypeOK ==
    /\ cached \in Runs \cup {None}
    /\ inprogress \in Runs \cup {None}
    /\ content \in [Runs -> SUBSET Blocks]
    /\ length \in [Runs -> 0..Size]
    /\ pc \in [Runs -> {"idle"} \cup Active \cup Ended]
    /\ fd \in [Runs -> Runs \cup {None}]
    /\ read \in [Runs -> 0..Size]
    /\ written \in [Runs -> 0..Size]
    /\ output \in [Runs -> SUBSET Blocks]
    /\ overlap \in BOOLEAN
    /\ moved \subseteq Runs

Init ==
    /\ cached = None /\ inprogress = None
    /\ content = [r \in Runs |-> {}]
    /\ length = [r \in Runs |-> 0]
    /\ pc = [r \in Runs |-> "idle"]
    /\ fd = [r \in Runs |-> None]
    /\ read = [r \in Runs |-> 0]
    /\ written = [r \in Runs |-> 0]
    /\ output = [r \in Runs |-> {}]
    /\ overlap \in BOOLEAN
    /\ moved = {}

Go(r, to) == pc' = [pc EXCEPT ![r] = to]

-----------------------------------------------------------------------------
(* getStream *)

\* isImageCached looks for a file at imagePath, whatever it holds.
GetStream(r) ==
    /\ pc[r] = "idle"
    /\ overlap \/ \A q \in Runs : pc[q] \notin Active
    /\ Go(r, IF cached = None THEN "requesting" ELSE "opening")
    /\ UNCHANGED <<dirVars, fd, read, written, output, overlap, moved>>

\* getImage: what is at imagePath when the file is opened.
GetImage(r) ==
    /\ pc[r] = "opening"
    /\ fd' = [fd EXCEPT ![r] = cached]
    /\ Go(r, "reading")
    /\ UNCHANGED <<dirVars, read, written, output, overlap, moved>>

ReadCachedPastEnd(r) ==   \* mutant: one read too many
    /\ pc[r] = "reading"
    /\ IF read[r] <= length[fd[r]]
         THEN /\ read' = [read EXCEPT ![r] = @ + 1]
              /\ output' = [output EXCEPT ![r] = @ \cup ({read[r] + 1} \cap content[fd[r]])]
              /\ UNCHANGED pc
         ELSE /\ Go(r, "done")
              /\ UNCHANGED <<read, output>>
    /\ UNCHANGED <<dirVars, fd, written, overlap, moved>>

\* The next block, right or a hole, or the end of the file as it is now.
ReadCached(r) ==
    /\ pc[r] = "reading"
    /\ IF read[r] < length[fd[r]]
         THEN /\ read' = [read EXCEPT ![r] = @ + 1]
              /\ output' = [output EXCEPT ![r] = @ \cup ({read[r] + 1} \cap content[fd[r]])]
              /\ UNCHANGED pc
         ELSE /\ Go(r, "done")
              /\ UNCHANGED <<read, output>>
    /\ UNCHANGED <<dirVars, fd, written, overlap, moved>>

-----------------------------------------------------------------------------
(* doDownload *)

\* os.download: a stream, or a rejection.
RequestImage(r) ==
    /\ pc[r] = "requesting"
    /\ Go(r, "piping") \/ Go(r, "failed")
    /\ UNCHANGED <<dirVars, fd, read, written, output, overlap, moved>>

\* getImageWritableStream: createWriteStream truncates a file that is there.
GetImageWritableStream(r) ==
    /\ pc[r] = "piping"
    /\ Go(r, "downloading")
    /\ inprogress' = IF inprogress = None THEN r ELSE inprogress
    /\ fd' = [fd EXCEPT ![r] = inprogress']
    /\ content' = [content EXCEPT ![inprogress'] = {}]
    /\ length' = [length EXCEPT ![inprogress'] = 0]
    /\ UNCHANGED <<cached, read, written, output, overlap, moved>>

\* A block of the source goes to the caller and to the cache stream, which
\* lets it wait for the slower of the two.
Pipe(r) ==
    /\ pc[r] = "downloading"
    /\ read[r] < Size
    /\ read[r] - written[r] < Buffer
    /\ read' = [read EXCEPT ![r] = @ + 1]
    /\ output' = [output EXCEPT ![r] = @ \cup {read[r] + 1}]
    /\ UNCHANGED <<dirVars, pc, fd, written, overlap, moved>>

\* The cache stream writes a block at its own position in the file.
WriteBlock(r) ==
    /\ pc[r] \in {"downloading", "draining"}
    /\ written[r] < read[r]
    /\ written' = [written EXCEPT ![r] = @ + 1]
    /\ content' = [content EXCEPT ![fd[r]] = @ \cup {written[r] + 1}]
    /\ length' = [length EXCEPT ![fd[r]] = IF written[r] < @ THEN @ ELSE written[r] + 1]
    /\ UNCHANGED <<cached, inprogress, pc, fd, read, output, overlap, moved>>

\* A rejection nobody handles ends the process, or is only reported, where
\* the Sentry integration has its handler installed.
Unhandled(r, otherwise) == Go(r, "dead") \/ Go(r, otherwise)

PersistOwn(r) ==   \* mutant: waits for a file of its own at the path
    /\ pc[r] = "downloading"
    /\ read[r] = Size
    /\ inprogress = fd[r]
    /\ cached' = inprogress
    /\ inprogress' = None
    /\ moved' = moved \cup {r}
    /\ Go(r, "draining")
    /\ UNCHANGED <<content, length, fd, read, written, output, overlap>>

\* "end": persistCache renames what is at the path, with blocks of the cache
\* stream still to be written.
PersistCache(r) ==
    /\ pc[r] = "downloading"
    /\ read[r] = Size
    /\ IF inprogress # None
         THEN /\ cached' = inprogress
              /\ inprogress' = None
              /\ moved' = moved \cup {r}
              /\ Go(r, "draining")
         ELSE Unhandled(r, "draining") /\ UNCHANGED <<cached, inprogress, moved>>
    /\ UNCHANGED <<content, length, fd, read, written, output, overlap>>

\* The process ends by itself when its writes are done.
Drained(r) ==
    /\ pc[r] = "draining"
    /\ written[r] = Size
    /\ Go(r, "done")
    /\ UNCHANGED <<dirVars, fd, read, written, output, overlap, moved>>

SourceFailsPersists(r) ==   \* mutant: the cache is kept on errors as well
    /\ pc[r] = "downloading"
    /\ read[r] < Size
    /\ cached' = IF inprogress = None THEN cached ELSE inprogress
    /\ inprogress' = None
    /\ Go(r, "failed")
    /\ UNCHANGED <<content, length, fd, read, written, output, overlap, moved>>

\* "error" of the source: removeCache, then the error is passed on; if there
\* is nothing to remove it is not.
SourceFails(r) ==
    /\ pc[r] = "downloading"
    /\ read[r] < Size
    /\ IF inprogress # None
         THEN inprogress' = None /\ Go(r, "failed")
         ELSE Unhandled(r, "silent") /\ UNCHANGED inprogress
    /\ UNCHANGED <<cached, content, length, fd, read, written, output, overlap, moved>>

\* The process ends: killed, CTRL-C, or an error of the source before it has
\* a handler, or of the cache stream, which never has one.
Die(r) ==
    /\ Deaths
    /\ pc[r] \in Active
    /\ Go(r, "dead")
    /\ UNCHANGED <<dirVars, fd, read, written, output, overlap, moved>>

-----------------------------------------------------------------------------
Advance(r) ==
    \/ GetImage(r) \/ ReadCached(r)
    \/ RequestImage(r) \/ GetImageWritableStream(r)
    \/ Pipe(r) \/ WriteBlock(r) \/ PersistCache(r) \/ Drained(r)

Next == \E r \in Runs : GetStream(r) \/ Advance(r) \/ SourceFails(r) \/ Die(r)

Spec == Init /\ [][Next]_vars

\* Requests and disk operations are answered.
FairSpec == Spec /\ \A r \in Runs : WF_vars(Advance(r))

-----------------------------------------------------------------------------
(* Properties *)

AtRest == \A r \in Runs : pc[r] \notin Active

CachedIsWhole == cached # None => content[cached] = Blocks

DiedLate(r) == r \in moved /\ pc[r] = "dead" /\ written[r] < Size

\* Runs that do not overlap leave a partial image in the cache, and read one
\* from it, only if one was killed after its rename with blocks still to
\* write: an error of the source, or death before the rename, is not enough.
\* Overlapping runs truncate and rename the file under each other; still, if
\* none of them fails or dies, what stays in the cache is whole.
PartialIsExplained ==
    /\ AtRest /\ ~CachedIsWhole =>
          \E r \in Runs : DiedLate(r) \/ (overlap /\ pc[r] \in Ended \ {"done"})
    /\ \A r \in Runs : pc[r] = "done" /\ output[r] # Blocks =>
          overlap \/ \E q \in Runs : DiedLate(q)

\* Every run that was started ends, and its caller hears of it: an error of
\* the source is lost only if another run took the file away meanwhile.
RunsEnd ==
    \A r \in Runs : pc[r] \in Active ~> pc[r] \in Ended /\ (pc[r] = "silent" => overlap)
=============================================================================
