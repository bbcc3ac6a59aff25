--------------------------- MODULE DataDirProofs ----------------------------
(***************************************************************************)
(* The safety of DataDir, for any number of overlapping runs, contexts,    *)
(* blocks and days: what a run knows of new versions, and what it takes    *)
(* for an installed emulator.  Then that of CachedImages, for any number   *)
(* of runs and blocks: what is left in the cache of OS images.             *)
(***************************************************************************)
EXTENDS DataDir, CachedImages, TLAPS

(* A date that is known is the right one; a query that did not find the    *)
(* date although there was one got no answer.                              *)
Sound(rec) ==
    /\ rec.date # Unknown => rec.date = released /\ released \in 0..day
    /\ rec.date = Unknown /\ released # Unknown /\ released <= rec.fetched =>
          rec.fetched <= missed

Recent(r) == mem[r].date = Unknown => mem[r].fetched > now[r] - Interval

NewsInv ==
    \A r \in Runs :
        /\ Sound(mem[r]) /\ now[r] <= day
        /\ life[r] = "refused" => mem[r].date # Unknown /\ now[r] - mem[r].date > Expiry
        /\ news[r] \in {"storing", "writing", "over"} => life[r] = "refused" \/ Recent(r)
        /\ life[r] = "over" => news[r] = "over"
        /\ life[r] = "waiting" => news[r] = "none"

(* Who is still to write had read the file before the date was in it.      *)
OutdatedInv ==
    cache.date # Unknown =>
        \A r \in Runs : Alive(r) /\ news[r] \in {"asking", "storing", "writing"} => r \in outdated

DeprecationInv == DeprecationTypes /\ Sound(cache) /\ NewsInv /\ OutdatedInv

(* A run opens the file once; it copies when that is behind it.            *)
MainInv ==
    \A r \in Runs :
        /\ life[r] = "waiting" => main[r] = "none"
        /\ main[r] \in {"none", "stat", "unlink", "access", "open"} => fd[r] = NoFile /\ written[r] = 0
        /\ main[r] \notin {"copy", "ready"} => \A c \in Contexts : copying[r][c] = "todo"
        /\ main[r] = "ready" => \A c \in Contexts : copying[r][c] # "copying"
        /\ \A c \in Contexts : copying[r][c] # "todo" => c \in folder

(* The last that opened the file at the path fills it from its beginning.  *)
FileInv ==
    path # NoFile =>
        \/ content[path] = Blocks \/ "install" \in broken
        \/ \E q \in Runs : Writing(q) /\ fd[q] = path /\ 1..written[q] \subseteq content[path]

FolderInv ==
    \A c \in folder :
        \/ binary[c] = Blocks \/ broken \cap {"install", c} # {} \/ c \in early \/ c \in own
        \/ \E q \in Runs : Alive(q) /\ copying[q][c] = "copying"

EmulatorInv == EmulatorTypes /\ MainInv /\ FileInv /\ FolderInv
-----------------------------------------------------------------------------
LEMMA DeprecationInit == InitDeprecation => DeprecationInv
<1> SUFFICES ASSUME InitDeprecation PROVE DeprecationInv
  OBVIOUS
<1> USE DeprecationAssumption DEF InitDeprecation
<1>1. Nothing \in Record /\ Nothing.date = Unknown /\ Nothing.fetched = Epoch
      /\ Epoch \in Int
  BY DEF Nothing, Record, Epoch
<1>2. DeprecationTypes
  BY <1>1 DEF DeprecationTypes, Days
<1>3. Sound(Nothing)
  BY <1>1 DEF Sound
<1>4. NewsInv /\ OutdatedInv
  BY <1>1, <1>3 DEF NewsInv, OutdatedInv
<1> QED BY <1>2, <1>3, <1>4 DEF DeprecationInv

LEMMA EmulatorInit == InitEmulator /\ life = [r \in Runs |-> "waiting"] => EmulatorInv
<1> SUFFICES ASSUME InitEmulator, life = [r \in Runs |-> "waiting"] PROVE EmulatorInv
  OBVIOUS
<1>1. EmulatorTypes
  BY EmulatorAssumption DEF InitEmulator, EmulatorTypes, Blocks
<1>2. MainInv /\ FileInv /\ FolderInv
  BY DEF InitEmulator, MainInv, FileInv, FolderInv
<1> QED BY <1>1, <1>2 DEF EmulatorInv
-----------------------------------------------------------------------------
(* What the end of a run, and the steps of the emulator, leave of the rest.*)
Lives == {"waiting", "running", "over", "refused", "dead"}
Ends(r, s) == life' = [life EXCEPT ![r] = s]

LEMMA DeprecationEnds ==
    ASSUME DeprecationInv, NEW r \in Runs, UNCHANGED deprecation, Alive(r),
           \/ Ends(r, "dead")
           \/ Ends(r, "over") /\ news[r] = "over"
    PROVE  DeprecationInv'
<1> USE DEF deprecation, Ends, Alive, DeprecationInv
<1>1. DeprecationTypes'
  BY DEF DeprecationTypes
<1>2. Sound(cache)' /\ NewsInv'
  BY DEF DeprecationTypes, NewsInv, Sound, Recent
<1>3. OutdatedInv'
  BY DEF DeprecationTypes, OutdatedInv
<1> QED BY <1>1, <1>2, <1>3

LEMMA DeprecationStutters ==
    ASSUME DeprecationInv, UNCHANGED <<life, deprecation>>
    PROVE  DeprecationInv'
BY DEF DeprecationInv, DeprecationTypes, NewsInv, OutdatedInv, Sound, Recent, Alive, deprecation

LEMMA DeprecationTomorrow == DeprecationInv /\ Tomorrow => DeprecationInv'
<1> SUFFICES ASSUME DeprecationInv, Tomorrow PROVE DeprecationInv'
  OBVIOUS
<1> USE DeprecationAssumption DEF DeprecationInv, Tomorrow
<1>1. DeprecationTypes'
  BY DEF DeprecationTypes, Days
<1>2. \A rec \in Record : Sound(rec) => Sound(rec)'
  BY DEF Sound, Record, DeprecationTypes, Days
<1>3. Sound(cache)' /\ \A r \in Runs : Sound(mem[r])'
  BY <1>2 DEF DeprecationTypes, NewsInv
<1>4. NewsInv'
  BY <1>3 DEF DeprecationTypes, NewsInv, Days, Recent
<1>5. OutdatedInv'
  BY DEF OutdatedInv, Alive
<1> QED BY <1>1, <1>3, <1>4, <1>5

LEMMA DeprecationStart ==
    ASSUME DeprecationInv, NEW r \in Runs, StartRun(r)
    PROVE  DeprecationInv'
<1> USE DeprecationAssumption DEF DeprecationInv, StartRun
<1>1. DeprecationTypes'
  BY DEF DeprecationTypes
<1>2. \A rec : Sound(rec) => Sound(rec)'
  BY DEF Sound
<1>3. Expired => cache.date # Unknown /\ day - cache.date > Expiry
  BY DEF Expired
<1>4. ~Expired /\ ~AskRegistry /\ cache.date = Unknown => cache.fetched > day - Interval
  BY DEF AskRegistry, DeprecationTypes, Record, Days, Epoch
<1>5. NewsInv'
  <2>1. ASSUME NEW q \in Runs, q # r
        PROVE  UNCHANGED <<life[q], mem[q], now[q], news[q]>>
    BY <2>1 DEF DeprecationTypes
  <2>2. life'[r] = (IF Expired THEN "refused" ELSE "running") /\ mem'[r] = cache
        /\ now'[r] = day /\ news'[r] = (IF ~Expired /\ AskRegistry THEN "asking" ELSE "over")
    BY DEF DeprecationTypes
  <2>3. day \in Int
    BY DEF DeprecationTypes, Days
  <2> HIDE DEF StartRun
  <2>4. UNCHANGED <<day, released, missed>>
    BY DEF StartRun
  <2>5. Sound(mem[r])'
    BY <2>2, <2>4 DEF Sound
  <2> QED BY <1>3, <1>4, <2>1, <2>2, <2>3, <2>4, <2>5 DEF NewsInv, Recent, Sound
<1>6. OutdatedInv'
  BY DEF OutdatedInv, Alive, AskRegistry, DeprecationTypes
<1> QED BY <1>1, <1>2, <1>5, <1>6

LEMMA DeprecationAnswered ==
    ASSUME DeprecationInv, NEW r \in Runs, Answered(r)
    PROVE  DeprecationInv'
<1> USE DeprecationAssumption DEF DeprecationInv
<1>1. now[r] \in Days /\ now[r] <= day /\ day \in Days /\ mem[r] \in Record
      /\ missed \in Days \cup {Epoch} /\ released \in Days \cup {Unknown}
  BY DEF DeprecationTypes, NewsInv, Days
<1>2. missed' \in Days \cup {Epoch} /\ missed <= missed'
      /\ UNCHANGED <<life, day, released, cache, now, outdated>>
  BY <1>1 DEF Answered, Days, Epoch
<1>3. /\ mem'[r] \in Record /\ mem'[r].fetched = now[r]
      /\ mem'[r].date # Unknown => mem'[r].date = released /\ released \in 0..day
      /\ mem'[r].date = Unknown /\ released # Unknown /\ released <= now[r] => now[r] <= missed'
      /\ mem' = [mem EXCEPT ![r] = mem'[r]] /\ news' = [news EXCEPT ![r] = "storing"]
  <2>1. CASE mem' = [mem EXCEPT ![r] =
              [date |-> IF released \in 0..day THEN released ELSE Unknown, fetched |-> now[r]]]
    BY <1>1, <2>1 DEF Answered, DeprecationTypes, Record, Days
  <2>2. CASE /\ mem' = [mem EXCEPT ![r].fetched = now[r]]
             /\ missed' = IF missed < now[r] THEN now[r] ELSE missed
    BY <1>1, <2>2 DEF Answered, DeprecationTypes, Record, Days, NewsInv, Sound, Epoch
  <2> QED BY <2>1, <2>2 DEF Answered
<1>4. \A rec \in Record : Sound(rec) => Sound(rec)'
  BY <1>1, <1>2 DEF Sound, Record, Days, Epoch
<1>5. DeprecationTypes'
  BY <1>2, <1>3 DEF DeprecationTypes
<1>6. Sound(cache)' /\ \A q \in Runs : Sound(mem[q])'
  <2>1. Sound(cache)'
    BY <1>2, <1>4 DEF DeprecationTypes, Sound
  <2>2. Sound(mem[r])'
    BY <1>2, <1>3 DEF Sound
  <2>3. ASSUME NEW q \in Runs, q # r PROVE Sound(mem[q])'
    BY <1>2, <1>3, <1>4, <2>3 DEF DeprecationTypes, NewsInv, Sound
  <2> QED BY <2>1, <2>2, <2>3
<1>7. NewsInv'
  BY <1>1, <1>2, <1>3, <1>6 DEF NewsInv, Recent, DeprecationTypes, Days, Answered, Alive
<1>8. OutdatedInv'
  BY <1>2, <1>3 DEF OutdatedInv, Alive, Answered, DeprecationTypes
<1> QED BY <1>5, <1>6, <1>7, <1>8

LEMMA DeprecationStored ==
    ASSUME DeprecationInv, NEW r \in Runs, Truncate(r) \/ Store(r)
    PROVE  DeprecationInv'
<1> USE DeprecationAssumption DEF DeprecationInv, Truncate, Store, Alive
<1>1. DeprecationTypes'
  BY DEF DeprecationTypes, Nothing, Record
<1>2. Sound(cache)'
  <2>1. Nothing.date = Unknown /\ Nothing.fetched = Epoch
    BY DEF Nothing
  <2>2. released \in Int => ~(released <= Epoch)
    BY DEF DeprecationTypes, Epoch
  <2>3. released \in Int \/ released = Unknown
    BY DEF DeprecationTypes
  <2> QED BY <2>1, <2>2, <2>3 DEF Sound, NewsInv
<1>3. NewsInv'
  BY DEF NewsInv, DeprecationTypes, Sound, Recent
<1>4. OutdatedInv'
  BY DEF OutdatedInv, DeprecationTypes, Nothing
<1> QED BY <1>1, <1>2, <1>3, <1>4
-----------------------------------------------------------------------------
(* A file that is not whole has a writer that fills it, or one that died.  *)
Leaves(r) == Ends(r, "dead") /\ Abandon(r)

LEMMA EmulatorEnds ==
    ASSUME EmulatorInv, NEW r \in Runs, Alive(r), life \in [Runs -> Lives],
           UNCHANGED <<main, path, content, fd, written, folder, binary, copying, early, own>>,
           \/ Leaves(r)
           \/ Ends(r, "over") /\ main[r] = "ready" /\ ~Writing(r) /\ UNCHANGED broken
    PROVE  EmulatorInv'
<1> USE DEF EmulatorInv, Ends, Leaves
<1>1. EmulatorTypes'
  BY DEF EmulatorTypes, Abandon
<1>2. MainInv'
  BY DEF MainInv, Alive
<1>3. broken \subseteq broken' /\ \A q \in Runs \ {r} : life'[q] = life[q]
  BY DEF Abandon
<1>4. Writing(r) => "install" \in broken'
  BY DEF Abandon
<1>5. \A c \in Contexts : copying[r][c] = "copying" => c \in broken'
  BY DEF Abandon, MainInv
<1> HIDE DEF Ends, Leaves
<1>6. FileInv'
  BY <1>3, <1>4 DEF FileInv, Writing, Alive, Blocks
<1>7. FolderInv'
  <2> SUFFICES ASSUME NEW c \in folder
               PROVE  \/ binary[c] = Blocks \/ broken' \cap {"install", c} # {}
                      \/ c \in early \/ c \in own
                      \/ \E q \in Runs : Alive(q)' /\ copying[q][c] = "copying"
    BY DEF FolderInv, Blocks
  <2>1. CASE broken \cap {"install", c} # {}
    BY <1>3, <2>1
  <2>2. ASSUME NEW q \in Runs, Alive(q), copying[q][c] = "copying", q # r
        PROVE  Alive(q)'
    BY <1>3, <2>2 DEF Alive
  <2>3. CASE copying[r][c] = "copying"
    BY <1>5, <2>3 DEF EmulatorTypes
  <2> QED BY <2>1, <2>2, <2>3 DEF FolderInv
<1> QED BY <1>1, <1>2, <1>6, <1>7

LEMMA EmulatorStutters ==
    ASSUME EmulatorInv, UNCHANGED <<life, emulator>>
    PROVE  EmulatorInv'
BY DEF EmulatorInv, EmulatorTypes, MainInv, FileInv, FolderInv, Writing, Alive, Blocks,
       emulator, history

(* A run that starts has touched nothing.                                  *)
LEMMA EmulatorStart ==
    ASSUME EmulatorInv, NEW r \in Runs, life[r] = "waiting", life \in [Runs -> Lives],
           \/ Ends(r, "running") /\ main' \in {[main EXCEPT ![r] = s] : s \in {"stat", "ready"}}
           \/ Ends(r, "refused") /\ UNCHANGED main,
           UNCHANGED <<path, content, fd, written, folder, binary, copying, history>>
    PROVE  EmulatorInv'
<1> USE DEF EmulatorInv, history, Ends
<1>1. EmulatorTypes'
  BY DEF EmulatorTypes
<1>2. MainInv'
  BY DEF MainInv, EmulatorTypes
<1>3. \A q \in Runs : Alive(q) => Alive(q)'
  BY DEF Alive
<1>4. FileInv' /\ FolderInv'
  BY <1>3 DEF FileInv, FolderInv, Writing, Blocks
<1> QED BY <1>1, <1>2, <1>4

LEMMA EmulatorInstalls ==
    ASSUME EmulatorInv, NEW r \in Runs, life \in [Runs -> Lives],
           Stat(r) \/ Unlink(r) \/ Access(r) \/ Ready(r)
    PROVE  EmulatorInv'
<1> USE DEF EmulatorInv, history, Stat, Unlink, Access, Ready
<1>1. EmulatorTypes'
  BY DEF EmulatorTypes
<1>2. MainInv'
  <2>1. \A q \in Runs \ {r} : main'[q] = main[q]
    BY DEF EmulatorTypes
  <2>2. \/ main[r] \in {"stat", "unlink", "access"} /\ main'[r] \in {"unlink", "access", "open", "copy"}
        \/ main[r] = "copy" /\ main'[r] = "ready" /\ \A c \in Contexts : copying[r][c] # "copying"
    BY DEF EmulatorTypes
  <2>3. UNCHANGED <<life, fd, written, folder, copying>> /\ life[r] # "waiting"
    BY DEF Alive
  <2> HIDE DEF Stat, Unlink, Access, Ready
  <2> QED BY <2>1, <2>2, <2>3 DEF MainInv
<1>3. FileInv'
  BY DEF FileInv, Writing, Alive, Blocks
<1>4. FolderInv'
  BY DEF FolderInv, Alive
<1> QED BY <1>1, <1>2, <1>3, <1>4

LEMMA EmulatorOpens ==
    ASSUME EmulatorInv, NEW r \in Runs, Open(r)
    PROVE  EmulatorInv'
<1> USE DEF EmulatorInv, history, Open
<1>1. path' \in Runs /\ path' # NoFile
  BY EmulatorAssumption DEF EmulatorTypes
<1>2. EmulatorTypes'
  BY <1>1 DEF EmulatorTypes
<1>3. MainInv'
  <2>1. main' = [main EXCEPT ![r] = "download"] /\ fd' = [fd EXCEPT ![r] = path']
    OBVIOUS
  <2>2. \A c \in Contexts : copying[r][c] = "todo"
    BY DEF MainInv
  <2> HIDE DEF Open
  <2>3. UNCHANGED <<life, written, folder, copying>> /\ life[r] # "waiting"
    BY DEF Open, Alive
  <2>4. \A q \in Runs \ {r} : UNCHANGED <<main[q], fd[q]>>
    BY <2>1 DEF EmulatorTypes
  <2>5. main'[r] = "download"
    BY <2>1 DEF EmulatorTypes
  <2> QED BY <2>2, <2>3, <2>4, <2>5 DEF MainInv
<1>4. FileInv'
  <2>1. fd'[r] = path' /\ written'[r] = 0 /\ Alive(r)'
    BY DEF EmulatorTypes, MainInv, Alive
  <2>2. 1..written'[r] = {}
    BY <2>1
  <2> QED BY <1>1, <2>1, <2>2, EmulatorAssumption DEF FileInv, Writing
<1>5. FolderInv'
  BY DEF FolderInv, Alive
<1> QED BY <1>2, <1>3, <1>4, <1>5

LEMMA EmulatorWrites ==
    ASSUME EmulatorInv, NEW r \in Runs, Write(r)
    PROVE  EmulatorInv'
<1> USE DEF EmulatorInv, history
<1>1. fd[r] \in Runs /\ written[r] \in Nat /\ written[r] < Size /\ written'[r] = written[r] + 1
      /\ written[r] + 1 \in Blocks
  BY EmulatorAssumption DEF Write, Writing, EmulatorTypes, Blocks
<1>2. /\ \A i \in Runs : content[i] \subseteq content'[i] /\ content'[i] \subseteq Blocks
      /\ content'[fd[r]] = content[fd[r]] \cup {written[r] + 1}
  BY <1>1 DEF Write, EmulatorTypes
<1>3. EmulatorTypes'
  BY <1>1, <1>2, EmulatorAssumption DEF Write, EmulatorTypes
<1>4. MainInv'
  BY <1>1 DEF Write, Writing, MainInv, Alive, EmulatorTypes
<1>5. FileInv'
  <2>1. CASE path = NoFile
    BY <2>1 DEF Write, FileInv
  <2>2. CASE path # NoFile /\ content[path] = Blocks
    BY <1>2, <2>2 DEF Write, FileInv, EmulatorTypes
  <2>3. CASE "install" \in broken
    BY <2>3 DEF Write, FileInv
  <2>4. ASSUME path # NoFile, NEW q \in Runs, Writing(q), fd[q] = path,
               1..written[q] \subseteq content[path]
        PROVE  FileInv'
    <3>1. CASE q # r
      BY <1>2, <2>4, <3>1 DEF Write, FileInv, Writing, Alive, EmulatorTypes
    <3>2. CASE q = r
      <4>1. 1..written'[r] \subseteq content'[path]
        BY <1>1, <1>2, <2>4, <3>2
      <4>2. CASE written'[r] < Size
        BY <2>4, <3>2, <4>1, <4>2 DEF Write, FileInv, Writing, Alive
      <4>3. CASE ~(written'[r] < Size)
        <5>1. written'[r] = Size
          BY <1>1, <4>3, EmulatorAssumption
        <5>2. content'[path] = Blocks
          BY <1>1, <1>2, <2>4, <3>2, <4>1, <5>1 DEF Blocks
        <5> QED BY <5>2 DEF Write, FileInv
      <4> QED BY <4>2, <4>3
    <3> QED BY <3>1, <3>2
  <2> QED BY <2>1, <2>2, <2>3, <2>4 DEF FileInv
<1>6. FolderInv'
  BY DEF Write, FolderInv, Alive
<1> QED BY <1>3, <1>4, <1>5, <1>6

LEMMA EmulatorDownloads ==
    ASSUME EmulatorInv, NEW r \in Runs, life \in [Runs -> Lives],
           Extracted(r) \/ DownloadFails(r)
    PROVE  EmulatorInv'
<1> USE DEF EmulatorInv
<1>1. CASE Extracted(r) /\ path # NoFile
  <2>1. main' = [main EXCEPT ![r] = "copy"] /\ main[r] = "download"
        /\ UNCHANGED <<life, path, content, fd, written, folder, binary, copying, broken, early, own>>
    BY <1>1 DEF Extracted
  <2>2. EmulatorTypes'
    BY <2>1 DEF EmulatorTypes
  <2>3. MainInv'
    BY <2>1 DEF EmulatorTypes, MainInv
  <2>4. FileInv' /\ FolderInv'
    BY <2>1 DEF FileInv, FolderInv, Writing, Alive, Blocks
  <2> QED BY <2>2, <2>3, <2>4
<1>2. CASE Extracted(r) /\ path = NoFile
  BY <1>2, EmulatorEnds DEF Extracted, Fail, Leaves, Ends
<1>3. CASE DownloadFails(r)
  <2>1. EmulatorTypes' /\ MainInv' /\ FileInv'
    BY <1>3 DEF DownloadFails, EmulatorTypes, MainInv, FileInv, history, Alive
  <2>2. \A c \in Contexts : copying[r][c] # "copying"
    BY <1>3 DEF DownloadFails, MainInv
  <2>3. FolderInv'
    BY <1>3, <2>2 DEF DownloadFails, FolderInv, history, Alive, EmulatorTypes
  <2> QED BY <2>1, <2>3
<1> QED BY <1>1, <1>2, <1>3

LEMMA EmulatorCopies ==
    ASSUME EmulatorInv, NEW r \in Runs, NEW c \in Contexts, life \in [Runs -> Lives],
           MakeFolder(r, c) \/ Copy(r, c) \/ CopyFails(r, c)
    PROVE  EmulatorInv'
<1> USE DEF EmulatorInv
<1>1. CASE MakeFolder(r, c)
  <2>1. EmulatorTypes' /\ MainInv' /\ FileInv'
    BY <1>1 DEF MakeFolder, EmulatorTypes, MainInv, FileInv, history, Writing, Alive, Blocks
  <2>2. c \notin folder => copying'[r][c] = "copying" /\ Alive(r)'
    BY <1>1 DEF MakeFolder, EmulatorTypes, Alive
  <2>3. \A q \in Runs, d \in Contexts : copying[q][d] = "copying" => copying'[q][d] = "copying"
    BY <1>1 DEF MakeFolder, EmulatorTypes
  <2>4. FolderInv'
    <3>1. UNCHANGED <<life, binary, broken, early, own>> /\ folder' = folder \cup {c}
          /\ folder \subseteq Contexts
      BY <1>1 DEF MakeFolder, history, EmulatorTypes
    <3>2. ASSUME NEW d \in folder
          PROVE  \/ binary[d] = Blocks \/ broken \cap {"install", d} # {}
                 \/ d \in early \/ d \in own
                 \/ \E q \in Runs : Alive(q)' /\ copying'[q][d] = "copying"
      BY <2>3, <3>1 DEF FolderInv, Alive
    <3> QED BY <2>2, <3>1, <3>2 DEF FolderInv, Blocks
  <2> QED BY <2>1, <2>4
<1>2. CASE Copy(r, c) /\ path # NoFile
  <2>1. /\ copying' = [copying EXCEPT ![r][c] = "copied"]
        /\ binary' = [binary EXCEPT ![c] = content[path]]
        /\ early' = IF Downloading THEN early \cup {c} ELSE early
        /\ UNCHANGED <<life, broken, main, path, content, fd, written, folder, own>>
        /\ Alive(r) /\ main[r] = "copy" /\ copying[r][c] = "copying"
    <3>1. Alive(r) /\ copying[r][c] = "copying" /\ main[r] = "copy"
      BY <1>2 DEF Copy, MainInv, EmulatorTypes
    <3>2. copying' = [copying EXCEPT ![r][c] = "copied"] /\ binary' = [binary EXCEPT ![c] = content[path]]
      BY <1>2 DEF Copy
    <3>3. early' = IF Downloading THEN early \cup {c} ELSE early
      BY <1>2 DEF Copy
    <3>4. UNCHANGED <<life, broken, main, path, content, fd, written, folder, own>>
      BY <1>2 DEF Copy
    <3> QED BY <3>1, <3>2, <3>3, <3>4
  <2>2. path \in Runs
    BY <1>2 DEF EmulatorTypes
  <2>3. /\ copying'[r][c] = "copied" /\ binary'[c] = content[path]
        /\ \A q \in Runs \ {r} : copying'[q] = copying[q]
        /\ \A d \in Contexts \ {c} : binary'[d] = binary[d] /\ copying'[r][d] = copying[r][d]
    BY <2>1 DEF EmulatorTypes
  <2>4. EmulatorTypes'
    BY <2>1, <2>2 DEF EmulatorTypes
  <2>5. MainInv'
    BY <2>1, <2>3 DEF MainInv, Alive
  <2>6. FileInv'
    BY <2>1 DEF FileInv, Writing, Alive, Blocks
  <2>7. binary'[c] = Blocks \/ "install" \in broken' \/ c \in early'
    BY <1>2, <2>1, <2>3 DEF FileInv, Downloading
  <2>8. early \subseteq early' /\ folder \subseteq Contexts
    BY <2>1 DEF EmulatorTypes
  <2>9. ASSUME NEW d \in folder, d # c
        PROVE  \/ binary'[d] = Blocks \/ broken' \cap {"install", d} # {}
               \/ d \in early' \/ d \in own'
               \/ \E q \in Runs : Alive(q)' /\ copying'[q][d] = "copying"
    BY <2>1, <2>3, <2>8, <2>9 DEF FolderInv, Alive
  <2>10. FolderInv'
    BY <2>1, <2>7, <2>9 DEF FolderInv, Blocks
  <2> QED BY <2>4, <2>5, <2>6, <2>10
<1>3. CASE CopyFails(r, c) \/ (Copy(r, c) /\ path = NoFile)
  BY <1>3, EmulatorEnds DEF CopyFails, Copy, Fail, Leaves, Ends
<1> QED BY <1>1, <1>2, <1>3
-----------------------------------------------------------------------------
IInv == DeprecationInv /\ EmulatorInv

LEMMA StepInv == IInv /\ [Next]_vars => IInv'
<1> SUFFICES ASSUME IInv, [Next]_vars PROVE IInv'
  OBVIOUS
<1>0. life \in [Runs -> Lives]
  BY DEF IInv, DeprecationInv, DeprecationTypes, Lives
<1>1. CASE UNCHANGED vars
  BY <1>1, DeprecationStutters, EmulatorStutters DEF IInv, vars
<1>2. CASE Tomorrow /\ Quiet /\ UNCHANGED emulator
  BY <1>2, DeprecationTomorrow, EmulatorStutters DEF IInv, Tomorrow
<1>3. ASSUME NEW r \in Runs, Start(r) PROVE IInv'
  <2>1. Ends(r, IF Expired THEN "refused" ELSE "running") /\ life[r] = "waiting"
    BY <1>3 DEF Start, StartRun, Ends
  <2>2. life'[r] = "running" <=> ~Expired
    BY <1>0, <2>1 DEF Ends
  <2>3. EmulatorInv'
    BY <1>0, <1>3, <2>1, <2>2, EmulatorStart DEF Start, IInv
  <2>4. DeprecationInv'
    BY <1>3, DeprecationStart DEF Start, IInv
  <2> QED BY <2>3, <2>4 DEF IInv
<1>4. ASSUME NEW r \in Runs, News(r) PROVE IInv'
  <2>1. UNCHANGED <<life, emulator>>
    BY <1>4 DEF News, Answered, Truncate, Store
  <2> QED BY <1>4, <2>1, DeprecationAnswered, DeprecationStored, EmulatorStutters DEF News, IInv
<1>5. ASSUME NEW r \in Runs, Exit(r) \/ Kill(r) PROVE IInv'
  <2>1. Alive(r) /\ Leaves(r) /\ UNCHANGED deprecation
        /\ UNCHANGED <<main, path, content, fd, written, folder, binary, copying, early, own>>
    BY <1>5 DEF Exit, StoreFails, Kill, Fail, Leaves, Ends
  <2> QED BY <1>0, <2>1, DeprecationEnds, EmulatorEnds DEF Leaves, IInv
<1>6. ASSUME NEW r \in Runs, Finish(r) PROVE IInv'
  BY <1>0, <1>6, DeprecationEnds, EmulatorEnds DEF Finish, Ends, IInv, emulator, history
<1>7. ASSUME NEW r \in Runs, Install(r), UNCHANGED deprecation PROVE IInv'
  <2>1. EmulatorInv'
    BY <1>0, <1>7, EmulatorInstalls, EmulatorOpens, EmulatorWrites, EmulatorDownloads,
       EmulatorCopies DEF Install, IInv
  <2>2. UNCHANGED life \/ (Alive(r) /\ Ends(r, "dead"))
    BY <1>7 DEF Install, Stat, Unlink, Access, Open, Write, Extracted, DownloadFails, MakeFolder,
       Copy, CopyFails, Ready, Fail, Ends
  <2>3. DeprecationInv'
    BY <1>7, <2>2, DeprecationEnds, DeprecationStutters DEF IInv
  <2> QED BY <2>1, <2>3 DEF IInv
<1> QED BY <1>1, <1>2, <1>3, <1>4, <1>5, <1>6, <1>7 DEF Next

LEMMA InvariantHolds == Spec => []IInv
<1>1. Init => IInv
  BY DeprecationInit, EmulatorInit DEF Init, InitDeprecation, IInv
<1> QED BY <1>1, StepInv, PTL DEF Spec
-----------------------------------------------------------------------------
(* Every variable of both parts keeps its type.                            *)
THEOREM DataDirTypeCorrect == Spec => []TypeOK
<1>1. IInv => TypeOK
  BY DEF IInv, DeprecationInv, EmulatorInv, TypeOK
<1> QED BY InvariantHolds, <1>1, PTL

(* warnAndAbortIfDeprecated refuses only versions that have expired.       *)
THEOREM RefusalsAreDue == Spec => []RefusalIsDue
<1>1. IInv => RefusalIsDue
  <2> SUFFICES ASSUME IInv, NEW r \in Runs, life[r] = "refused"
               PROVE  released \in 0..(now[r] - Expiry - 1)
    BY DEF RefusalIsDue
  <2>1. Sound(mem[r]) /\ mem[r].date # Unknown /\ now[r] - mem[r].date > Expiry
        /\ now[r] \in Int
    BY DEF IInv, DeprecationInv, NewsInv, DeprecationTypes, Days
  <2> QED BY <2>1, DeprecationAssumption DEF Sound
<1> QED BY InvariantHolds, <1>1, PTL

(* Asking every Interval days is enough to know of a version in time.      *)
THEOREM RunsLearnOfReleases == Spec => []IgnoranceIsExplained
<1>1. IInv => IgnoranceIsExplained
  <2> SUFFICES ASSUME IInv, NEW r \in Runs, Ignorant(r)
               PROVE  missed > now[r] - Interval
    BY DEF IgnoranceIsExplained
  <2>1. Sound(mem[r]) /\ Recent(r) /\ mem[r].date = Unknown
    BY DEF IInv, DeprecationInv, NewsInv, Ignorant
  <2>2. now[r] \in Int /\ mem[r].fetched \in Int /\ missed \in Int /\ released \in Int
        /\ released + Interval <= now[r]
    BY DeprecationAssumption DEF IInv, DeprecationInv, DeprecationTypes, Days, Record, Epoch, Ignorant
  <2> QED BY <2>1, <2>2, DeprecationAssumption DEF Sound, Recent
<1> QED BY InvariantHolds, <1>1, PTL

(* storage.set never loses a date to a run that had read it.               *)
THEOREM DatesAreKept == Spec => DateIsKept
<1>1. IInv /\ [Next]_vars =>
        [cache.date # Unknown /\ cache'.date = Unknown =>
            \E r \in outdated : news[r] \in {"storing", "writing"}]_cache
  <2> SUFFICES ASSUME IInv, Next, cache.date # Unknown, cache'.date = Unknown
               PROVE  \E r \in outdated : news[r] \in {"storing", "writing"}
    BY DEF vars, deprecation
  <2>1. PICK r \in Runs : Truncate(r) \/ Store(r)
    BY DEF Next, Tomorrow, Start, StartRun, News, Answered, Exit, StoreFails, Kill, Finish,
       deprecation
  <2> QED BY <2>1 DEF Truncate, Store, IInv, DeprecationInv, OutdatedInv
<1> QED BY InvariantHolds, <1>1, PTL DEF Spec, DateIsKept

(* Removing what a failed download left, whole or not, leaves no other.    *)
THEOREM PartialInstalls == Spec => []InstallIsExplained
<1>1. IInv => InstallIsExplained
  BY DEF IInv, EmulatorInv, FileInv, InstallIsExplained, Downloading
<1> QED BY InvariantHolds, <1>1, PTL

(* installQemuIfNeeded and copyQemu give each context the whole emulator   *)
(* unless a run ended, or another is busy, in the middle of it.            *)
THEOREM ReadyContexts == Spec => []ReadyIsExplained
<1>1. IInv => ReadyIsExplained
  BY DEF IInv, EmulatorInv, MainInv, FolderInv, ReadyIsExplained
<1> QED BY InvariantHolds, <1>1, PTL

-----------------------------------------------------------------------------
(* The cache of OS images, a part of the same data directory: what a run   *)
(* has taken and written at each await.                                    *)
StagesInv ==
    \A r \in ImageRuns :
        /\ pc[r] \in {"idle", "requesting", "piping", "opening"} =>
              read[r] = 0 /\ flushed[r] = 0 /\ output[r] = {}
        /\ pc[r] = "opening" => cached # NoImage
        /\ pc[r] \in {"downloading", "draining", "reading"} => open[r] \in ImageRuns
        /\ pc[r] \in {"downloading", "draining"} =>
              flushed[r] <= read[r] /\ output[r] = 1..read[r]
        /\ pc[r] = "draining" => read[r] = ImageSize

(* A path has one file, made by a run that had opened it.                  *)
PathsInv ==
    /\ \A i \in ImageRuns : blocks[i] \subseteq 1..length[i]
    /\ cached # NoImage => cached # inprogress
    /\ \A i \in ImageRuns \cap {cached, inprogress} : pc[i] \notin {"idle", "requesting", "piping"}

(* Run r has filled the file i from its beginning on, as far as it has got.*)
Fills(r, i) ==
    /\ open[r] = i /\ 1..flushed[r] \subseteq blocks[i]
    /\ pc[r] \in {"downloading", "draining"} \cup Images!Ended
    /\ pc[r] = "done" => flushed[r] = ImageSize

(* The run that opened a file last fills it.                               *)
FilledInv == \A i \in ImageRuns \cap {cached, inprogress} : \E r \in ImageRuns : Fills(r, i)

DeathWasLate == \E q \in ImageRuns : Images!DiedLate(q)

(* The file at imagePath was renamed by the run that fills it.             *)
CachedByMover ==
    \E q \in ImageRuns : Fills(q, cached) /\ q \in moved /\ pc[q] \in {"draining", "done", "dead"}

(* Without overlap, a run renames the file that it fills, and a reader     *)
(* has the file at the path, which nobody writes any more.                 *)
AloneInv ==
    ~overlap =>
        /\ \A p, q \in ImageRuns : pc[p] \in Images!Active /\ pc[q] \in Images!Active => p = q
        /\ \A r \in ImageRuns : pc[r] = "downloading" => Fills(r, inprogress)
        /\ cached # NoImage => CachedByMover
        /\ \A r \in ImageRuns :
              /\ pc[r] = "reading" => open[r] = cached /\ (output[r] = 1..read[r] \/ DeathWasLate)
              /\ pc[r] = "done" => output[r] = 1..ImageSize \/ DeathWasLate

ImagesInv == Images!TypeOK /\ StagesInv /\ PathsInv /\ FilledInv /\ AloneInv

LEMMA ImagesInit == Images!ImageCacheAssumption /\ Images!Init => ImagesInv
<1> SUFFICES ASSUME Images!ImageCacheAssumption, Images!Init PROVE ImagesInv
  OBVIOUS
<1>1. ImageSize \in Nat /\ NoImage \notin ImageRuns
  BY DEF Images!ImageCacheAssumption
<1>2. Images!TypeOK
  BY <1>1 DEF Images!Init, Images!TypeOK
<1>3. StagesInv /\ PathsInv /\ FilledInv
  BY <1>1 DEF Images!Init, StagesInv, PathsInv, FilledInv
<1>4. AloneInv
  BY DEF Images!Init, AloneInv, Images!Active
<1> QED BY <1>2, <1>3, <1>4 DEF ImagesInv

(* A death after the rename is one for ever.                               *)
LEMMA LateStays ==
    ASSUME ImagesInv, DeathWasLate, NEW r \in ImageRuns, pc[r] # "dead", moved \subseteq moved',
           \A q \in ImageRuns \ {r} : pc'[q] = pc[q] /\ flushed'[q] = flushed[q]
    PROVE  DeathWasLate'
<1>1. PICK q \in ImageRuns : q \in moved /\ pc[q] = "dead" /\ flushed[q] < ImageSize
    BY DEF DeathWasLate, Images!DiedLate
<1>2. q \in moved' /\ pc'[q] = "dead" /\ flushed'[q] < ImageSize
    BY <1>1
<1> QED BY <1>2 DEF DeathWasLate, Images!DiedLate

(* A run goes on to fill its file while nobody empties it.                 *)
LEMMA FillsStays ==
    ASSUME NEW q \in ImageRuns, NEW i, Fills(q, i), blocks[i] \subseteq blocks'[i],
           open'[q] = open[q], flushed'[q] = flushed[q],
           \/ pc'[q] = pc[q]
           \/ pc[q] = "downloading" /\ pc'[q] \in {"draining", "failed", "dead", "silent"}
           \/ pc[q] = "draining" /\ pc'[q] \in {"done", "dead"}
              /\ (pc'[q] = "done" => flushed[q] = ImageSize)
    PROVE  Fills(q, i)'
BY DEF Fills, Images!Ended

(* A step of a run that was begun, while no other one is.                  *)
LEMMA AloneStep ==
    ASSUME ImagesInv, NEW r \in ImageRuns, pc[r] \in Images!Active,
           overlap' = overlap, moved \subseteq moved',
           \A q \in ImageRuns \ {r} :
               /\ pc'[q] = pc[q] /\ open'[q] = open[q] /\ flushed'[q] = flushed[q]
               /\ output'[q] = output[q] /\ read'[q] = read[q],
           ~overlap => /\ pc'[r] = "downloading" => Fills(r, inprogress)'
                       /\ cached' # NoImage => CachedByMover'
                       /\ pc'[r] = "reading" =>
                            open'[r] = cached' /\ (output'[r] = 1..read'[r] \/ DeathWasLate')
                       /\ pc'[r] = "done" => output'[r] = 1..ImageSize \/ DeathWasLate'
    PROVE  AloneInv'
<1> SUFFICES ASSUME ~overlap PROVE AloneInv'
    BY DEF AloneInv
<1>1. \A q \in ImageRuns \ {r} : pc[q] \notin Images!Active /\ pc'[q] \notin Images!Active
    BY DEF ImagesInv, AloneInv
<1>2. \A q \in ImageRuns \ {r} : pc'[q] # "downloading" /\ pc'[q] # "reading"
    BY <1>1 DEF Images!Active
<1>3. \A q \in ImageRuns \ {r} : pc'[q] = "done" => output'[q] = 1..ImageSize \/ DeathWasLate
    BY DEF ImagesInv, AloneInv
<1>4. DeathWasLate => DeathWasLate'
    BY LateStays DEF Images!Active
<1>5. \A p, q \in ImageRuns : pc'[p] \in Images!Active /\ pc'[q] \in Images!Active => p = q
    BY <1>1
<1>6. \A q \in ImageRuns : pc'[q] = "downloading" => Fills(q, inprogress)'
    BY <1>2
<1>7. \A q \in ImageRuns : pc'[q] = "reading" =>
         open'[q] = cached' /\ (output'[q] = 1..read'[q] \/ DeathWasLate')
    BY <1>2
<1>8. \A q \in ImageRuns : pc'[q] = "done" => output'[q] = 1..ImageSize \/ DeathWasLate'
    BY <1>3, <1>4
<1> QED BY <1>5, <1>6, <1>7, <1>8 DEF AloneInv, Images!Active

(* No file that is at a path was emptied, so they stay filled.             *)
FillsOn == \A q \in ImageRuns, i \in ImageRuns : Fills(q, i) => Fills(q, i)'

LEMMA FilledStays ==
    ASSUME ImagesInv, FillsOn, {cached', inprogress'} \subseteq {cached, inprogress, NoImage},
           NoImage \notin ImageRuns
    PROVE  FilledInv'
<1> SUFFICES ASSUME NEW i \in ImageRuns, i \in {cached', inprogress'}
             PROVE  \E q \in ImageRuns : Fills(q, i)'
    BY DEF FilledInv
<1>1. PICK q \in ImageRuns : Fills(q, i)
    BY DEF ImagesInv, FilledInv
<1> QED BY <1>1 DEF FillsOn

(* The run that filled the file at imagePath stays one that renamed it.    *)
LEMMA CachedStays ==
    ASSUME ImagesInv, FillsOn, ~overlap, cached # NoImage, cached' = cached, moved \subseteq moved',
           \A q \in ImageRuns : pc[q] \in {"draining", "done", "dead"} =>
                               pc'[q] \in {"draining", "done", "dead"}
    PROVE  CachedByMover'
<1>1. PICK q \in ImageRuns : Fills(q, cached) /\ q \in moved /\ pc[q] \in {"draining", "done", "dead"}
    BY DEF ImagesInv, AloneInv, CachedByMover
<1>2. PICK i \in ImageRuns : i = cached
    BY DEF ImagesInv, Images!TypeOK
<1>3. Fills(q, i)'
    BY <1>1, <1>2 DEF FillsOn
<1>4. Fills(q, cached)'
    BY <1>2, <1>3 DEF Fills
<1> QED BY <1>1, <1>4 DEF CachedByMover

(* getStream: nothing is open yet.                                         *)
LEMMA GetStreamKeeps ==
    ASSUME Images!ImageCacheAssumption, ImagesInv, NEW r \in ImageRuns, Images!GetStream(r)
    PROVE  ImagesInv'
<1>1. /\ UNCHANGED <<cached, inprogress, blocks, length, open, read, flushed, output, overlap, moved>>
      /\ pc[r] = "idle" /\ pc \in [ImageRuns -> {"idle"} \cup Images!Active \cup Images!Ended]
      /\ pc' = [pc EXCEPT ![r] = IF cached = NoImage THEN "requesting" ELSE "opening"]
    BY DEF Images!GetStream, Images!Go, Images!dirVars, ImagesInv, Images!TypeOK
<1>2. Images!TypeOK'
    BY <1>1 DEF ImagesInv, Images!TypeOK, Images!Active
<1>3. /\ \A q \in ImageRuns \ {r} : pc'[q] = pc[q]
      /\ pc'[r] = IF cached = NoImage THEN "requesting" ELSE "opening"
    BY <1>1
<1>4. StagesInv' /\ PathsInv'
    BY <1>1, <1>3 DEF ImagesInv, StagesInv, PathsInv
<1>5. FillsOn
  <2> SUFFICES ASSUME NEW q \in ImageRuns, NEW i \in ImageRuns, Fills(q, i) PROVE Fills(q, i)'
    BY DEF FillsOn
  <2>1. q # r
    BY <1>1 DEF Fills, Images!Ended
  <2> QED BY <1>1, <1>3, <2>1 DEF Fills
<1>6. FilledInv'
    BY <1>1, <1>5, FilledStays DEF Images!ImageCacheAssumption
<1>7. AloneInv'
  <2> SUFFICES ASSUME ~overlap PROVE AloneInv'
    BY <1>1 DEF AloneInv
  <2>1. \A q \in ImageRuns : pc[q] \notin Images!Active
    BY DEF Images!GetStream
  <2>2. \A q \in ImageRuns \ {r} : pc'[q] \notin Images!Active
    BY <1>3, <2>1
  <2>3. \A q \in ImageRuns : pc'[q] # "downloading" /\ pc'[q] # "reading"
    BY <1>3, <2>2 DEF Images!Active
  <2>4. cached' # NoImage => CachedByMover'
    BY <1>1, <1>3, <1>5, CachedStays
  <2>5. DeathWasLate => DeathWasLate'
    BY <1>1, <1>3, LateStays
  <2>6. \A q \in ImageRuns : pc'[q] = "done" => output'[q] = 1..ImageSize \/ DeathWasLate'
    BY <1>1, <1>3, <2>5 DEF ImagesInv, AloneInv
  <2> QED BY <2>2, <2>3, <2>4, <2>6 DEF AloneInv
<1> QED BY <1>2, <1>4, <1>6, <1>7 DEF ImagesInv

(* getImage opens what is at the path, and writes nothing.                 *)
LEMMA GetImageKeeps ==
    ASSUME Images!ImageCacheAssumption, ImagesInv, NEW r \in ImageRuns, Images!GetImage(r)
    PROVE  ImagesInv'
<1>1. /\ UNCHANGED <<cached, inprogress, blocks, length, read, flushed, output, overlap, moved>>
      /\ pc[r] = "opening" /\ pc' = [pc EXCEPT ![r] = "reading"]
      /\ open' = [open EXCEPT ![r] = cached]
    BY DEF Images!GetImage, Images!Go, Images!dirVars
<1>2. /\ pc \in [ImageRuns -> {"idle"} \cup Images!Active \cup Images!Ended]
      /\ open \in [ImageRuns -> ImageRuns \cup {NoImage}] /\ cached \in ImageRuns
      /\ read[r] = 0 /\ output[r] = {}
    BY <1>1 DEF ImagesInv, Images!TypeOK, StagesInv
<1>3. Images!TypeOK'
    BY <1>1, <1>2 DEF ImagesInv, Images!TypeOK, Images!Active
<1>4. /\ \A q \in ImageRuns \ {r} : pc'[q] = pc[q] /\ open'[q] = open[q]
      /\ pc'[r] = "reading" /\ open'[r] = cached
    BY <1>1, <1>2
<1>5. StagesInv'
    BY <1>1, <1>2, <1>4 DEF ImagesInv, StagesInv
<1>6. PathsInv'
    BY <1>1, <1>4 DEF ImagesInv, PathsInv
<1>7. FillsOn
  <2> SUFFICES ASSUME NEW q \in ImageRuns, NEW i \in ImageRuns, Fills(q, i) PROVE Fills(q, i)'
    BY DEF FillsOn
  <2>1. q # r
    BY <1>1 DEF Fills, Images!Ended
  <2> QED BY <1>1, <1>4, <2>1 DEF Fills
<1>8. FilledInv'
    BY <1>1, <1>7, FilledStays DEF Images!ImageCacheAssumption
<1>9. AloneInv'
  <2>1. ~overlap /\ cached' # NoImage => CachedByMover'
    BY <1>1, <1>4, <1>7, CachedStays
  <2>2. output'[r] = 1..read'[r]
    BY <1>1, <1>2
  <2>3. pc[r] \in Images!Active
    BY <1>1 DEF Images!Active
  <2>4. \A q \in ImageRuns \ {r} :
          /\ pc'[q] = pc[q] /\ open'[q] = open[q] /\ flushed'[q] = flushed[q]
          /\ output'[q] = output[q] /\ read'[q] = read[q]
    BY <1>1, <1>4
  <2>5. overlap' = overlap /\ moved \subseteq moved' /\ cached' = cached
    BY <1>1
  <2> QED BY <1>4, <2>1, <2>2, <2>3, <2>4, <2>5, AloneStep
<1> QED BY <1>3, <1>5, <1>6, <1>8, <1>9 DEF ImagesInv

(* The next block of a whole file, in its order.                           *)
LEMMA ReadCachedKeeps ==
    ASSUME Images!ImageCacheAssumption, ImagesInv, NEW r \in ImageRuns, Images!ReadCached(r)
    PROVE  ImagesInv'
<1> DEFINE more == read[r] < length[open[r]]
<1>1. /\ UNCHANGED <<cached, inprogress, blocks, length, open, flushed, overlap, moved>>
      /\ pc[r] = "reading"
      /\ more => /\ read' = [read EXCEPT ![r] = @ + 1] /\ pc' = pc
                 /\ output' = [output EXCEPT ![r] = @ \cup ({read[r] + 1} \cap blocks[open[r]])]
      /\ ~more => read' = read /\ output' = output /\ pc' = [pc EXCEPT ![r] = "done"]
    BY DEF Images!ReadCached, Images!Go, Images!dirVars
<1>2. /\ pc \in [ImageRuns -> {"idle"} \cup Images!Active \cup Images!Ended]
      /\ read \in [ImageRuns -> 0..ImageSize] /\ output \in [ImageRuns -> SUBSET (1..ImageSize)]
      /\ open[r] \in ImageRuns /\ length[open[r]] \in 0..ImageSize
      /\ blocks[open[r]] \subseteq 1..ImageSize /\ ImageSize \in Nat
    BY <1>1 DEF ImagesInv, Images!TypeOK, Images!Blocks, StagesInv, Images!ImageCacheAssumption
<1>3. /\ \A q \in ImageRuns \ {r} : pc'[q] = pc[q] /\ read'[q] = read[q] /\ output'[q] = output[q]
      /\ more => pc'[r] = "reading" /\ read'[r] = read[r] + 1
                 /\ output'[r] = output[r] \cup ({read[r] + 1} \cap blocks[open[r]])
      /\ ~more => pc'[r] = "done" /\ read'[r] = read[r] /\ output'[r] = output[r]
    BY <1>1, <1>2
<1>4. Images!TypeOK'
  <2>1. pc' \in [ImageRuns -> {"idle"} \cup Images!Active \cup Images!Ended]
    BY <1>1, <1>2 DEF Images!Ended
  <2>2. more => read[r] + 1 \in 0..ImageSize
    BY <1>2
  <2>3. read' \in [ImageRuns -> 0..ImageSize]
    BY <1>1, <1>2, <2>2
  <2>4. output' \in [ImageRuns -> SUBSET (1..ImageSize)]
    BY <1>1, <1>2
  <2> QED BY <1>1, <2>1, <2>3, <2>4 DEF ImagesInv, Images!TypeOK, Images!Blocks
<1> HIDE DEF more
<1>5. pc'[r] \in {"reading", "done"} /\ \A q \in ImageRuns \ {r} : pc'[q] = pc[q]
    BY <1>3
<1>6. StagesInv'
    BY <1>1, <1>3, <1>5 DEF ImagesInv, StagesInv
<1>7. PathsInv'
    BY <1>1, <1>5 DEF ImagesInv, PathsInv
<1>8. FillsOn
  <2> SUFFICES ASSUME NEW q \in ImageRuns, NEW i \in ImageRuns, Fills(q, i) PROVE Fills(q, i)'
    BY DEF FillsOn
  <2>1. q # r
    BY <1>1 DEF Fills, Images!Ended
  <2> QED BY <1>1, <1>5, <2>1 DEF Fills
<1>9. FilledInv'
    BY <1>1, <1>8, FilledStays DEF Images!ImageCacheAssumption
(* Alone, the reader has the file that its filler renamed and completed.   *)
<1>10. ASSUME ~overlap, ~DeathWasLate
       PROVE  /\ open[r] = cached /\ output[r] = 1..read[r]
              /\ 1..ImageSize \subseteq blocks[open[r]] /\ ImageSize <= length[open[r]]
  <2>1. open[r] = cached /\ output[r] = 1..read[r]
    BY <1>1, <1>10 DEF ImagesInv, AloneInv
  <2>2. PICK q \in ImageRuns : Fills(q, cached) /\ q \in moved /\ pc[q] \in {"draining", "done", "dead"}
    BY <1>2, <1>10, <2>1 DEF ImagesInv, AloneInv, CachedByMover, Images!ImageCacheAssumption
  <2>3. pc[q] # "draining"
    BY <1>1, <1>10, <2>2 DEF ImagesInv, AloneInv, Images!Active
  <2>4. flushed[q] \in 0..ImageSize
    BY <2>2 DEF ImagesInv, Images!TypeOK
  <2>5. flushed[q] = ImageSize
    BY <1>2, <1>10, <2>2, <2>3, <2>4 DEF Fills, DeathWasLate, Images!DiedLate
  <2>6. 1..ImageSize \subseteq blocks[open[r]]
    BY <2>1, <2>2, <2>5 DEF Fills
  <2>7. ImageSize \in 1..length[open[r]]
    BY <1>2, <2>6 DEF ImagesInv, PathsInv, Images!ImageCacheAssumption
  <2> QED BY <1>2, <2>1, <2>6, <2>7
<1>11. AloneInv'
  <2>1. ~overlap /\ cached' # NoImage => CachedByMover'
    BY <1>1, <1>5, <1>8, CachedStays
  <2>2. DeathWasLate => DeathWasLate'
    BY <1>1, <1>5, LateStays
  <2>3. ASSUME ~overlap, ~DeathWasLate, more PROVE output'[r] = 1..read'[r]
    <3>1. read[r] + 1 \in blocks[open[r]]
      BY <1>2, <1>10, <2>3 DEF more
    <3>2. output'[r] = (1..read[r]) \cup {read[r] + 1} /\ read'[r] = read[r] + 1
      BY <1>3, <1>10, <2>3, <3>1
    <3> QED BY <1>2, <3>2
  <2>4. ASSUME ~overlap, ~DeathWasLate, ~more PROVE output'[r] = 1..ImageSize
    <3>1. read[r] = ImageSize
      BY <1>2, <1>10, <2>4 DEF more
    <3> QED BY <1>3, <1>10, <2>4, <3>1
  <2>5. pc[r] \in Images!Active
    BY <1>1 DEF Images!Active
  <2>6. \A q \in ImageRuns \ {r} :
          /\ pc'[q] = pc[q] /\ open'[q] = open[q] /\ flushed'[q] = flushed[q]
          /\ output'[q] = output[q] /\ read'[q] = read[q]
    BY <1>1, <1>3
  <2>7. overlap' = overlap /\ moved \subseteq moved' /\ cached' = cached /\ open' = open
    BY <1>1
  <2>8. ~overlap /\ pc'[r] = "reading" =>
           open'[r] = cached' /\ (output'[r] = 1..read'[r] \/ DeathWasLate')
    <3>1. ~overlap => open[r] = cached
      BY <1>1 DEF ImagesInv, AloneInv
    <3>2. pc'[r] = "reading" => more
      BY <1>3
    <3> QED BY <2>2, <2>3, <2>7, <3>1, <3>2
  <2>9. ~overlap /\ pc'[r] = "done" => output'[r] = 1..ImageSize \/ DeathWasLate'
    <3>1. pc'[r] = "done" => ~more
      BY <1>3
    <3> QED BY <2>2, <2>4, <3>1
  <2> QED BY <1>5, <2>1, <2>5, <2>6, <2>7, <2>8, <2>9, AloneStep
<1> QED BY <1>4, <1>6, <1>7, <1>9, <1>11 DEF ImagesInv

(* os.download, and the end of a run that leaves the paths alone.          *)
LEMMA RequestKeeps ==
    ASSUME Images!ImageCacheAssumption, ImagesInv, NEW r \in ImageRuns,
           Images!RequestImage(r) \/ Images!Die(r)
    PROVE  ImagesInv'
<1> DEFINE To(to) == /\ pc' = [pc EXCEPT ![r] = to]
                     /\ \/ pc[r] = "requesting" /\ to \in {"piping", "failed"}
                        \/ pc[r] \in Images!Active /\ to = "dead"
<1>0. To("piping") \/ To("failed") \/ To("dead")
    BY DEF Images!RequestImage, Images!Die, Images!Go
<1>1. PICK to : To(to)
    BY <1>0
<1>2. UNCHANGED <<cached, inprogress, blocks, length, open, read, flushed, output, overlap, moved>>
    BY DEF Images!RequestImage, Images!Die, Images!dirVars
<1>3. /\ pc \in [ImageRuns -> {"idle"} \cup Images!Active \cup Images!Ended]
      /\ pc[r] \in Images!Active
    BY <1>1 DEF ImagesInv, Images!TypeOK, Images!Active
<1>4. Images!TypeOK'
    BY <1>1, <1>2, <1>3 DEF ImagesInv, Images!TypeOK, Images!Active, Images!Ended
<1>5. pc'[r] = to /\ \A q \in ImageRuns \ {r} : pc'[q] = pc[q]
    BY <1>1, <1>3
<1>6. StagesInv'
    BY <1>1, <1>2, <1>5 DEF ImagesInv, StagesInv
<1>7. PathsInv'
    BY <1>1, <1>2, <1>5 DEF ImagesInv, PathsInv
<1>8. FillsOn
  <2> SUFFICES ASSUME NEW q \in ImageRuns, NEW i \in ImageRuns, Fills(q, i) PROVE Fills(q, i)'
    BY DEF FillsOn
  <2>1. pc'[q] = pc[q] \/ (q = r /\ to = "dead")
    BY <1>1, <1>5 DEF Fills, Images!Ended
  <2> QED BY <1>2, <1>5, <2>1 DEF Fills, Images!Ended
<1>9. FilledInv'
    BY <1>2, <1>8, FilledStays DEF Images!ImageCacheAssumption
<1>10. AloneInv'
  <2>1. \A q \in ImageRuns : pc[q] \in {"draining", "done", "dead"} =>
                           pc'[q] \in {"draining", "done", "dead"}
    BY <1>1, <1>5
  <2>2. ~overlap /\ cached' # NoImage => CachedByMover'
    BY <1>2, <1>8, <2>1, CachedStays
  <2>3. pc'[r] \notin {"downloading", "reading", "done"}
    BY <1>1, <1>5
  <2>4. \A q \in ImageRuns \ {r} :
          /\ pc'[q] = pc[q] /\ open'[q] = open[q] /\ flushed'[q] = flushed[q]
          /\ output'[q] = output[q] /\ read'[q] = read[q]
    BY <1>2, <1>5
  <2> QED BY <1>2, <1>3, <2>2, <2>3, <2>4, AloneStep
<1> QED BY <1>4, <1>6, <1>7, <1>9, <1>10 DEF ImagesInv

(* createWriteStream empties the file at the path, and the run fills it.   *)
LEMMA GetWritableKeeps ==
    ASSUME Images!ImageCacheAssumption, ImagesInv, NEW r \in ImageRuns,
           Images!GetImageWritableStream(r)
    PROVE  ImagesInv'
<1>1. PICK f \in ImageRuns : f = inprogress' /\ (f = r \/ f = inprogress)
                        /\ (f # inprogress => inprogress = NoImage)
    BY DEF Images!GetImageWritableStream, ImagesInv, Images!TypeOK
<1>2. /\ UNCHANGED <<cached, read, flushed, output, overlap, moved>>
      /\ pc[r] = "piping" /\ pc' = [pc EXCEPT ![r] = "downloading"]
      /\ open' = [open EXCEPT ![r] = f]
      /\ blocks' = [blocks EXCEPT ![f] = {}] /\ length' = [length EXCEPT ![f] = 0]
    BY <1>1 DEF Images!GetImageWritableStream, Images!Go
<1>3. /\ pc \in [ImageRuns -> {"idle"} \cup Images!Active \cup Images!Ended]
      /\ open \in [ImageRuns -> ImageRuns \cup {NoImage}]
      /\ blocks \in [ImageRuns -> SUBSET (1..ImageSize)] /\ length \in [ImageRuns -> 0..ImageSize]
      /\ read[r] = 0 /\ flushed[r] = 0 /\ output[r] = {} /\ ImageSize \in Nat /\ NoImage \notin ImageRuns
    BY <1>2 DEF ImagesInv, Images!TypeOK, Images!Blocks, StagesInv, Images!ImageCacheAssumption
<1>4. /\ \A q \in ImageRuns \ {r} : pc'[q] = pc[q] /\ open'[q] = open[q]
      /\ pc'[r] = "downloading" /\ open'[r] = f
      /\ \A i \in ImageRuns \ {f} : blocks'[i] = blocks[i] /\ length'[i] = length[i]
      /\ blocks'[f] = {} /\ length'[f] = 0
    BY <1>2, <1>3
<1>5. Images!TypeOK'
  <2>1. pc' \in [ImageRuns -> {"idle"} \cup Images!Active \cup Images!Ended]
    BY <1>2, <1>3 DEF Images!Active
  <2>2. blocks' \in [ImageRuns -> SUBSET (1..ImageSize)] /\ length' \in [ImageRuns -> 0..ImageSize]
    BY <1>2, <1>3
  <2> QED BY <1>1, <1>2, <1>3, <2>1, <2>2 DEF ImagesInv, Images!TypeOK, Images!Blocks
<1>6. StagesInv'
  <2> SUFFICES ASSUME NEW q \in ImageRuns
               PROVE  /\ pc'[q] \in {"idle", "requesting", "piping", "opening"} =>
                            read[q] = 0 /\ flushed[q] = 0 /\ output[q] = {}
                      /\ pc'[q] = "opening" => cached # NoImage
                      /\ pc'[q] \in {"downloading", "draining", "reading"} => open'[q] \in ImageRuns
                      /\ pc'[q] \in {"downloading", "draining"} =>
                            flushed[q] <= read[q] /\ output[q] = 1..read[q]
                      /\ pc'[q] = "draining" => read[q] = ImageSize
    BY <1>2 DEF StagesInv
  <2>0. flushed[r] <= read[r] /\ output[r] = 1..read[r]
    BY <1>3
  <2>1. CASE q = r
    BY <1>3, <1>4, <2>0, <2>1
  <2>2. CASE q # r
    BY <1>4, <2>2 DEF ImagesInv, StagesInv
  <2> QED BY <2>1, <2>2
<1>7. cached # f
    BY <1>1, <1>2, <1>3 DEF ImagesInv, PathsInv
<1>8. PathsInv'
  <2>1. \A i \in ImageRuns : blocks'[i] \subseteq 1..length'[i]
    BY <1>4 DEF ImagesInv, PathsInv
  <2>2. \A i \in ImageRuns \cap {cached, f} : pc'[i] \notin {"idle", "requesting", "piping"}
    BY <1>1, <1>4 DEF ImagesInv, PathsInv
  <2> QED BY <1>1, <1>2, <1>7, <2>1, <2>2 DEF PathsInv
<1>9. Fills(r, f)'
    BY <1>2, <1>3, <1>4 DEF Fills
<1>10. ASSUME NEW q \in ImageRuns, NEW i \in ImageRuns \ {f}, Fills(q, i) PROVE Fills(q, i)' /\ q # r
  <2>1. q # r
    BY <1>2, <1>10 DEF Fills, Images!Ended
  <2> QED BY <1>2, <1>4, <1>10, <2>1 DEF Fills
<1>11. FilledInv'
  <2> SUFFICES ASSUME NEW i \in ImageRuns, i \in {cached, f} PROVE \E q \in ImageRuns : Fills(q, i)'
    BY <1>1, <1>2 DEF FilledInv
  <2>1. CASE i = f
    BY <1>9, <2>1
  <2>2. CASE i # f
    <3>1. PICK q \in ImageRuns : Fills(q, i)
      BY <2>2 DEF ImagesInv, FilledInv
    <3> QED BY <1>10, <2>2, <3>1
  <2> QED BY <2>1, <2>2
<1>12. AloneInv'
  <2>1. ASSUME ~overlap, cached' # NoImage PROVE CachedByMover'
    <3>1. PICK i \in ImageRuns \ {f} : i = cached
      BY <1>2, <1>7, <2>1 DEF ImagesInv, Images!TypeOK
    <3>2. PICK q \in ImageRuns : Fills(q, i) /\ q \in moved /\ pc[q] \in {"draining", "done", "dead"}
      BY <1>2, <2>1, <3>1 DEF ImagesInv, AloneInv, CachedByMover
    <3>3. Fills(q, i)' /\ q # r
      BY <1>10, <3>2
    <3>4. Fills(q, cached)'
      BY <1>2, <3>1, <3>3 DEF Fills
    <3> QED BY <1>2, <1>4, <3>2, <3>3, <3>4 DEF CachedByMover
  <2>2. Fills(r, inprogress)'
    BY <1>1, <1>9 DEF Fills
  <2>3. pc[r] \in Images!Active
    BY <1>2 DEF Images!Active
  <2>4. \A q \in ImageRuns \ {r} :
          /\ pc'[q] = pc[q] /\ open'[q] = open[q] /\ flushed'[q] = flushed[q]
          /\ output'[q] = output[q] /\ read'[q] = read[q]
    BY <1>2, <1>4
  <2>5. overlap' = overlap /\ moved \subseteq moved'
    BY <1>2
  <2> QED BY <1>4, <2>1, <2>2, <2>3, <2>4, <2>5, AloneStep
<1> QED BY <1>5, <1>6, <1>8, <1>11, <1>12 DEF ImagesInv

(* A block goes to the caller, and waits for the cache stream.             *)
LEMMA PipeKeeps ==
    ASSUME Images!ImageCacheAssumption, ImagesInv, NEW r \in ImageRuns, Images!Pipe(r)
    PROVE  ImagesInv'
<1>1. /\ UNCHANGED <<cached, inprogress, blocks, length, pc, open, flushed, overlap, moved>>
      /\ pc[r] = "downloading" /\ read[r] < ImageSize
      /\ read' = [read EXCEPT ![r] = @ + 1]
      /\ output' = [output EXCEPT ![r] = @ \cup {read[r] + 1}]
    BY DEF Images!Pipe, Images!dirVars
<1>2. /\ read \in [ImageRuns -> 0..ImageSize] /\ output \in [ImageRuns -> SUBSET (1..ImageSize)]
      /\ flushed[r] \in 0..ImageSize /\ ImageSize \in Nat /\ open[r] \in ImageRuns
      /\ flushed[r] <= read[r] /\ output[r] = 1..read[r]
    BY <1>1 DEF ImagesInv, Images!TypeOK, Images!Blocks, StagesInv, Images!ImageCacheAssumption
<1>3. /\ \A q \in ImageRuns \ {r} : read'[q] = read[q] /\ output'[q] = output[q]
      /\ read'[r] = read[r] + 1 /\ output'[r] = output[r] \cup {read[r] + 1}
    BY <1>1, <1>2
<1>4. read[r] + 1 \in 1..ImageSize /\ (1..read[r]) \cup {read[r] + 1} = 1..(read[r] + 1)
    BY <1>1, <1>2
<1>5. Images!TypeOK'
  <2>1. read' \in [ImageRuns -> 0..ImageSize] /\ output' \in [ImageRuns -> SUBSET (1..ImageSize)]
    BY <1>1, <1>2, <1>4
  <2> QED BY <1>1, <2>1 DEF ImagesInv, Images!TypeOK, Images!Blocks
<1>6. StagesInv'
  <2> SUFFICES ASSUME NEW q \in ImageRuns
               PROVE  /\ pc[q] \in {"idle", "requesting", "piping", "opening"} =>
                            read'[q] = 0 /\ flushed[q] = 0 /\ output'[q] = {}
                      /\ pc[q] = "opening" => cached # NoImage
                      /\ pc[q] \in {"downloading", "draining", "reading"} => open[q] \in ImageRuns
                      /\ pc[q] \in {"downloading", "draining"} =>
                            flushed[q] <= read'[q] /\ output'[q] = 1..read'[q]
                      /\ pc[q] = "draining" => read'[q] = ImageSize
    BY <1>1 DEF StagesInv
  <2>1. CASE q = r
    <3>1. flushed[r] <= read'[r] /\ output'[r] = 1..read'[r]
      BY <1>2, <1>3, <1>4
    <3> QED BY <1>1, <1>2, <2>1, <3>1
  <2>2. CASE q # r
    BY <1>3, <2>2 DEF ImagesInv, StagesInv
  <2> QED BY <2>1, <2>2
<1>7. PathsInv'
    BY <1>1 DEF ImagesInv, PathsInv
<1>8. FillsOn
    BY <1>1 DEF FillsOn, Fills
<1>9. FilledInv'
    BY <1>1, <1>8, FilledStays DEF Images!ImageCacheAssumption
<1>10. AloneInv'
  <2>1. ~overlap /\ cached' # NoImage => CachedByMover'
    BY <1>1, <1>8, CachedStays
  <2>2. ~overlap => Fills(r, inprogress)'
    BY <1>1 DEF ImagesInv, AloneInv, Fills
  <2>3. pc[r] \in Images!Active /\ pc'[r] = "downloading"
    BY <1>1 DEF Images!Active
  <2> QED BY <1>1, <1>3, <2>1, <2>2, <2>3, AloneStep
<1> QED BY <1>5, <1>6, <1>7, <1>9, <1>10 DEF ImagesInv

(* The cache stream writes at its own position in its own file.            *)
LEMMA WriteBlockKeeps ==
    ASSUME Images!ImageCacheAssumption, ImagesInv, NEW r \in ImageRuns, Images!WriteBlock(r)
    PROVE  ImagesInv'
<1>1. PICK f : f = open[r]
    OBVIOUS
<1>2. /\ UNCHANGED <<cached, inprogress, pc, open, read, output, overlap, moved>>
      /\ pc[r] \in {"downloading", "draining"} /\ flushed[r] < read[r]
      /\ flushed' = [flushed EXCEPT ![r] = @ + 1]
      /\ blocks' = [blocks EXCEPT ![f] = @ \cup {flushed[r] + 1}]
      /\ length' = [length EXCEPT ![f] = IF flushed[r] < @ THEN @ ELSE flushed[r] + 1]
    BY <1>1 DEF Images!WriteBlock
<1>3. /\ f \in ImageRuns /\ ImageSize \in Nat
      /\ read[r] \in 0..ImageSize /\ flushed \in [ImageRuns -> 0..ImageSize]
      /\ blocks \in [ImageRuns -> SUBSET (1..ImageSize)] /\ length \in [ImageRuns -> 0..ImageSize]
    BY <1>1, <1>2 DEF ImagesInv, Images!TypeOK, Images!Blocks, StagesInv, Images!ImageCacheAssumption
<1>4. flushed[r] + 1 \in 1..ImageSize /\ flushed[r] + 1 <= read[r]
    BY <1>2, <1>3
<1>5. /\ \A q \in ImageRuns \ {r} : flushed'[q] = flushed[q]
      /\ flushed'[r] = flushed[r] + 1
      /\ \A i \in ImageRuns \ {f} : blocks'[i] = blocks[i] /\ length'[i] = length[i]
      /\ blocks'[f] = blocks[f] \cup {flushed[r] + 1}
      /\ length'[f] = IF flushed[r] < length[f] THEN length[f] ELSE flushed[r] + 1
    BY <1>2, <1>3
<1>6. Images!TypeOK'
  <2>1. blocks' \in [ImageRuns -> SUBSET (1..ImageSize)] /\ length' \in [ImageRuns -> 0..ImageSize]
    BY <1>2, <1>3, <1>4
  <2>2. flushed' \in [ImageRuns -> 0..ImageSize]
    BY <1>2, <1>3, <1>4
  <2> QED BY <1>2, <2>1, <2>2 DEF ImagesInv, Images!TypeOK, Images!Blocks
<1>7. StagesInv'
    BY <1>2, <1>4, <1>5 DEF ImagesInv, StagesInv
<1>8. PathsInv'
  <2>1. blocks[f] \subseteq 1..length[f]
    BY <1>3 DEF ImagesInv, PathsInv
  <2>2. blocks'[f] \subseteq 1..length'[f]
    BY <1>3, <1>4, <1>5, <2>1
  <2> QED BY <1>2, <1>5, <2>2 DEF ImagesInv, PathsInv
<1>9. FillsOn
  <2> SUFFICES ASSUME NEW q \in ImageRuns, NEW i \in ImageRuns, Fills(q, i) PROVE Fills(q, i)'
    BY DEF FillsOn
  <2>1. blocks[i] \subseteq blocks'[i]
    BY <1>5
  <2>2. CASE q # r
    BY <1>2, <1>5, <2>1, <2>2 DEF Fills
  <2>3. CASE q = r
    <3>1. i = f /\ 1..flushed[r] \subseteq blocks[f]
      BY <1>1, <2>3 DEF Fills
    <3>2. 1..(flushed[r] + 1) \subseteq blocks'[f]
      BY <1>3, <1>5, <3>1
    <3> QED BY <1>1, <1>2, <1>5, <2>3, <3>1, <3>2 DEF Fills
  <2> QED BY <2>2, <2>3
<1>10. FilledInv'
    BY <1>2, <1>9, FilledStays DEF Images!ImageCacheAssumption
<1>11. AloneInv'
  <2>1. ~overlap /\ cached' # NoImage => CachedByMover'
    BY <1>2, <1>9, CachedStays
  <2>2. ASSUME ~overlap, pc'[r] = "downloading" PROVE Fills(r, inprogress)'
    <3>1. Fills(r, f)
      BY <1>1, <1>2, <2>2 DEF ImagesInv, AloneInv, Fills
    <3>2. Fills(r, f)'
      BY <1>3, <1>9, <3>1 DEF FillsOn
    <3>3. f = inprogress
      BY <1>1, <1>2, <2>2 DEF ImagesInv, AloneInv, Fills
    <3> QED BY <1>2, <3>2, <3>3 DEF Fills
  <2>3. pc[r] \in Images!Active /\ pc'[r] \notin {"reading", "done"}
    BY <1>2 DEF Images!Active
  <2> QED BY <1>2, <1>5, <2>1, <2>2, <2>3, AloneStep
<1> QED BY <1>6, <1>7, <1>8, <1>10, <1>11 DEF ImagesInv

(* persistCache renames what is at the path, which is its own file unless  *)
(* runs overlap.                                                           *)
LEMMA PersistKeeps ==
    ASSUME Images!ImageCacheAssumption, ImagesInv, NEW r \in ImageRuns, Images!PersistCache(r)
    PROVE  ImagesInv'
<1>1. /\ UNCHANGED <<blocks, length, open, read, flushed, output, overlap>>
      /\ pc[r] = "downloading" /\ read[r] = ImageSize
      /\ \/ /\ inprogress # NoImage /\ cached' = inprogress /\ inprogress' = NoImage
            /\ moved' = moved \cup {r} /\ pc' = [pc EXCEPT ![r] = "draining"]
         \/ /\ inprogress = NoImage /\ UNCHANGED <<cached, inprogress, moved>>
            /\ \/ pc' = [pc EXCEPT ![r] = "draining"]
               \/ pc' = [pc EXCEPT ![r] = "dead"]
  <2>1. CASE inprogress # NoImage
    BY <2>1 DEF Images!PersistCache, Images!Go
  <2>2. CASE inprogress = NoImage
    BY <2>2 DEF Images!PersistCache, Images!Unhandled, Images!Go
  <2> QED BY <2>1, <2>2 DEF Images!PersistCache
<1>2. /\ pc \in [ImageRuns -> {"idle"} \cup Images!Active \cup Images!Ended] /\ NoImage \notin ImageRuns
      /\ open[r] \in ImageRuns
    BY <1>1 DEF ImagesInv, Images!TypeOK, StagesInv, Images!ImageCacheAssumption
<1>3. pc'[r] \in {"draining", "dead"} /\ \A q \in ImageRuns \ {r} : pc'[q] = pc[q]
    BY <1>1, <1>2
<1>4. {cached', inprogress'} \subseteq {cached, inprogress, NoImage} /\ moved \subseteq moved'
    BY <1>1
<1>5. Images!TypeOK'
  <2>1. pc' \in [ImageRuns -> {"idle"} \cup Images!Active \cup Images!Ended]
    BY <1>1, <1>2 DEF Images!Active, Images!Ended
  <2> QED BY <1>1, <2>1 DEF ImagesInv, Images!TypeOK
<1>6. StagesInv'
  <2>1. cached # NoImage => cached' # NoImage
    BY <1>1
  <2> QED BY <1>1, <1>3, <2>1 DEF ImagesInv, StagesInv
<1>7. PathsInv'
  <2>1. \A i \in ImageRuns \cap {cached, inprogress} : pc'[i] \notin {"idle", "requesting", "piping"}
    BY <1>3 DEF ImagesInv, PathsInv
  <2> QED BY <1>1, <1>2, <1>4, <2>1 DEF ImagesInv, PathsInv
<1>8. FillsOn
  <2> SUFFICES ASSUME NEW q \in ImageRuns, NEW i \in ImageRuns, Fills(q, i) PROVE Fills(q, i)'
    BY DEF FillsOn
  <2>1. pc'[q] = pc[q] \/ pc'[q] \in {"draining", "dead"}
    BY <1>3
  <2> QED BY <1>1, <2>1 DEF Fills, Images!Ended
<1>9. FilledInv'
    BY <1>2, <1>4, <1>8, FilledStays
<1>10. AloneInv'
  <2>1. ASSUME ~overlap PROVE CachedByMover'
    <3>1. Fills(r, inprogress) /\ inprogress \in ImageRuns
      BY <1>1, <1>2, <2>1 DEF ImagesInv, AloneInv, Fills
    <3>2. /\ cached' = inprogress /\ moved' = moved \cup {r}
          /\ pc' = [pc EXCEPT ![r] = "draining"]
      BY <1>1, <1>2, <3>1
    <3>3. PICK i \in ImageRuns : i = inprogress
      BY <3>1
    <3>4. Fills(r, i)'
      BY <1>8, <3>1, <3>3 DEF FillsOn
    <3>5. Fills(r, cached)'
      BY <3>2, <3>3, <3>4 DEF Fills
    <3> QED BY <1>2, <3>2, <3>5 DEF CachedByMover
  <2>2. pc[r] \in Images!Active
    BY <1>1 DEF Images!Active
  <2>3. \A q \in ImageRuns \ {r} :
          /\ pc'[q] = pc[q] /\ open'[q] = open[q] /\ flushed'[q] = flushed[q]
          /\ output'[q] = output[q] /\ read'[q] = read[q]
    BY <1>1, <1>3
  <2> QED BY <1>1, <1>3, <1>4, <2>1, <2>2, <2>3, AloneStep
<1> QED BY <1>5, <1>6, <1>7, <1>9, <1>10 DEF ImagesInv

(* A download is done when all of it is written.                           *)
LEMMA DrainedKeeps ==
    ASSUME Images!ImageCacheAssumption, ImagesInv, NEW r \in ImageRuns, Images!Drained(r)
    PROVE  ImagesInv'
<1>1. /\ UNCHANGED <<cached, inprogress, blocks, length, open, read, flushed, output, overlap, moved>>
      /\ pc[r] = "draining" /\ flushed[r] = ImageSize /\ pc' = [pc EXCEPT ![r] = "done"]
    BY DEF Images!Drained, Images!Go, Images!dirVars
<1>2. /\ pc \in [ImageRuns -> {"idle"} \cup Images!Active \cup Images!Ended]
      /\ output[r] = 1..ImageSize
    BY <1>1 DEF ImagesInv, Images!TypeOK, StagesInv
<1>3. pc'[r] = "done" /\ \A q \in ImageRuns \ {r} : pc'[q] = pc[q]
    BY <1>1, <1>2
<1>4. Images!TypeOK'
    BY <1>1, <1>2 DEF ImagesInv, Images!TypeOK, Images!Ended
<1>5. StagesInv' /\ PathsInv'
    BY <1>1, <1>3 DEF ImagesInv, StagesInv, PathsInv
<1>6. FillsOn
    BY <1>1, <1>3 DEF FillsOn, Fills, Images!Ended
<1>7. FilledInv'
    BY <1>1, <1>6, FilledStays DEF Images!ImageCacheAssumption
<1>8. AloneInv'
  <2>1. ~overlap /\ cached' # NoImage => CachedByMover'
    BY <1>1, <1>3, <1>6, CachedStays
  <2>2. pc[r] \in Images!Active
    BY <1>1 DEF Images!Active
  <2> QED BY <1>1, <1>2, <1>3, <2>1, <2>2, AloneStep
<1> QED BY <1>4, <1>5, <1>7, <1>8 DEF ImagesInv

(* removeCache takes the path away, never the file at imagePath.           *)
LEMMA SourceFailsKeeps ==
    ASSUME Images!ImageCacheAssumption, ImagesInv, NEW r \in ImageRuns, Images!SourceFails(r)
    PROVE  ImagesInv'
<1>1. /\ UNCHANGED <<cached, blocks, length, open, read, flushed, output, overlap, moved>>
      /\ pc[r] = "downloading" /\ inprogress' = NoImage
      /\ \/ pc' = [pc EXCEPT ![r] = "failed"] \/ pc' = [pc EXCEPT ![r] = "dead"]
         \/ pc' = [pc EXCEPT ![r] = "silent"]
  <2>1. CASE inprogress # NoImage
    BY <2>1 DEF Images!SourceFails, Images!Go
  <2>2. CASE inprogress = NoImage
    BY <2>2 DEF Images!SourceFails, Images!Unhandled, Images!Go
  <2> QED BY <2>1, <2>2 DEF Images!SourceFails
<1>2. pc \in [ImageRuns -> {"idle"} \cup Images!Active \cup Images!Ended] /\ NoImage \notin ImageRuns
    BY DEF ImagesInv, Images!TypeOK, Images!ImageCacheAssumption
<1>3. pc'[r] \in {"failed", "dead", "silent"} /\ \A q \in ImageRuns \ {r} : pc'[q] = pc[q]
    BY <1>1, <1>2
<1>4. Images!TypeOK'
  <2>1. pc' \in [ImageRuns -> {"idle"} \cup Images!Active \cup Images!Ended]
    BY <1>1, <1>2 DEF Images!Ended
  <2> QED BY <1>1, <2>1 DEF ImagesInv, Images!TypeOK
<1>5. StagesInv' /\ PathsInv'
    BY <1>1, <1>2, <1>3 DEF ImagesInv, StagesInv, PathsInv
<1>6. FillsOn
    BY <1>1, <1>3 DEF FillsOn, Fills, Images!Ended
<1>7. FilledInv'
    BY <1>1, <1>2, <1>6, FilledStays
<1>8. AloneInv'
  <2>1. ~overlap /\ cached' # NoImage => CachedByMover'
    BY <1>1, <1>3, <1>6, CachedStays
  <2>2. pc[r] \in Images!Active
    BY <1>1 DEF Images!Active
  <2> QED BY <1>1, <1>3, <2>1, <2>2, AloneStep
<1> QED BY <1>4, <1>5, <1>7, <1>8 DEF ImagesInv

LEMMA ImagesStep ==
    Images!ImageCacheAssumption /\ ImagesInv /\ [Images!Next]_(Images!vars) => ImagesInv'
<1> SUFFICES ASSUME Images!ImageCacheAssumption, ImagesInv, [Images!Next]_(Images!vars)
             PROVE  ImagesInv'
    OBVIOUS
<1>1. CASE UNCHANGED Images!vars
  <2>1. UNCHANGED <<cached, inprogress, blocks, length, pc, open, read, flushed, output, overlap, moved>>
    BY <1>1 DEF Images!vars, Images!dirVars, Images!runVars
  <2>2. Images!TypeOK' /\ StagesInv' /\ PathsInv'
    BY <2>1 DEF ImagesInv, Images!TypeOK, StagesInv, PathsInv
  <2>3. FilledInv'
    BY <2>1 DEF ImagesInv, FilledInv, Fills
  <2>4. DeathWasLate => DeathWasLate'
    BY <2>1 DEF DeathWasLate, Images!DiedLate
  <2>5. AloneInv'
    BY <2>1, <2>4 DEF ImagesInv, AloneInv, CachedByMover, Fills
  <2> QED BY <2>2, <2>3, <2>5 DEF ImagesInv
<1>2. CASE Images!Next
  BY <1>2, GetStreamKeeps, GetImageKeeps, ReadCachedKeeps, RequestKeeps, GetWritableKeeps,
     PipeKeeps, WriteBlockKeeps, PersistKeeps, DrainedKeeps, SourceFailsKeeps
     DEF Images!Next, Images!Advance
<1> QED BY <1>1, <1>2

LEMMA ImagesHold == ImagesSpec => []ImagesInv
BY ImagesAssumption, ImagesInit, ImagesStep, PTL DEF ImagesSpec, Images!Spec

(* Every variable of the cache of images keeps its type, for any number of *)
(* runs and any size of the image.                                         *)
THEOREM ImagesTypeCorrect == ImagesSpec => []ImagesTypeOK
<1>1. ImagesInv => ImagesTypeOK
  BY DEF ImagesInv, ImagesTypeOK
<1> QED BY <1>1, ImagesHold, PTL

(* What doDownload leaves at imagePath is whole, and so is what getStream  *)
(* reads there, unless runs overlapped and one of them failed, or one was  *)
(* killed between its rename and its last write.                           *)
THEOREM PartialImages == ImagesSpec => []PartialImageIsExplained
<1>1. ImagesInv => PartialImageIsExplained
  <2> SUFFICES ASSUME ImagesInv PROVE Images!PartialIsExplained
    BY DEF PartialImageIsExplained
  <2>1. ASSUME Images!AtRest, cached # NoImage, blocks[cached] # 1..ImageSize
        PROVE  \E r \in ImageRuns : Images!DiedLate(r) \/ (overlap /\ pc[r] \in Images!Ended \ {"done"})
    <3>1. cached \in ImageRuns /\ blocks[cached] \subseteq 1..ImageSize
      BY <2>1 DEF ImagesInv, Images!TypeOK, Images!Blocks
    <3>2. ASSUME NEW q \in ImageRuns, Fills(q, cached)
          PROVE  /\ pc[q] \in Images!Ended \ {"done"}
                 /\ pc[q] = "dead" /\ q \in moved => Images!DiedLate(q)
      <4>1. pc[q] \in Images!Ended
        BY <2>1, <3>2 DEF Fills, Images!AtRest, Images!Active
      <4>2. flushed[q] # ImageSize /\ flushed[q] \in 0..ImageSize
        BY <2>1, <3>1, <3>2 DEF Fills, ImagesInv, Images!TypeOK
      <4>3. ImageSize \in Nat
        BY ImagesAssumption DEF Images!ImageCacheAssumption
      <4> QED BY <3>2, <4>1, <4>2, <4>3 DEF Fills, Images!DiedLate
    <3>3. CASE overlap
      <4>1. PICK q \in ImageRuns : Fills(q, cached)
        BY <3>1 DEF ImagesInv, FilledInv
      <4> QED BY <3>2, <3>3, <4>1
    <3>4. CASE ~overlap
      <4>1. PICK q \in ImageRuns :
               Fills(q, cached) /\ q \in moved /\ pc[q] \in {"draining", "done", "dead"}
        BY <2>1, <3>4 DEF ImagesInv, AloneInv, CachedByMover
      <4>2. pc[q] = "dead"
        BY <3>2, <4>1 DEF Images!Ended
      <4> QED BY <3>2, <4>1, <4>2
    <3> QED BY <3>3, <3>4
  <2>2. ASSUME NEW r \in ImageRuns, pc[r] = "done", output[r] # 1..ImageSize
        PROVE  overlap \/ \E q \in ImageRuns : Images!DiedLate(q)
    BY <2>2 DEF ImagesInv, AloneInv, DeathWasLate
  <2> QED BY <2>1, <2>2 DEF Images!PartialIsExplained, Images!CachedIsWhole, Images!Blocks
<1> QED BY <1>1, ImagesHold, PTL
=============================================================================
