------------------------------ MODULE Emulator ------------------------------
(***************************************************************************)
(* The QEMU emulator of "balena build --emulated": downloaded once into the*)
(* data directory that all runs share, at the very path whose existence    *)
(* means that it is installed, and copied into the build contexts, where   *)
(* the existence of a directory means that it was copied.                  *)
(*                                                                         *)
(* An open file is an inode: removing its path does not close it, opening  *)
(* the path to write empties the inode that is there, and each writer goes *)
(* on at its own position.                                                 *)
(*                                                                         *)
(* A project may have a directory .balena of its own: it is where          *)
(* balena.yml, with the build secrets and variables, is looked for.        *)
(***************************************************************************)
EXTENDS Naturals, RunLife

CONSTANTS
    Contexts,   \* the build contexts of the project
    Size,       \* blocks of the emulator
    NoFile

ASSUME EmulatorAssumption == Size \in Nat \ {0} /\ NoFile \notin Runs

VARIABLES
    main,       \* run -> where its installation is
    path,       \* the inode at qemuPath (named after the run that made it)
    content,    \* inode -> the blocks that are written
    fd,         \* run -> the inode it writes
    written,    \* run -> its position in it
    folder,     \* the contexts that have a directory .balena
    binary,     \* context -> the blocks of the emulator in it
    copying,    \* run -> context -> how far copyQemu is
    broken,     \* history: what a run left unfinished: "install" or a context
    early,      \* history: contexts that were copied to in the middle of a download
    own         \* history: contexts that had a directory .balena before any run

history == <<broken, early, own>>
emulator == <<main, path, content, fd, written, folder, binary, copying, history>>

Blocks == 1..Size
Writing(r) == Alive(r) /\ fd[r] # NoFile /\ written[r] < Size
Downloading == \E r \in Runs : Writing(r) /\ fd[r] = path
-----------------------------------------------------------------------------
InitEmulator ==
    /\ main = [r \in Runs |-> "none"]
    /\ path = NoFile
    /\ content = [r \in Runs |-> {}]
    /\ fd = [r \in Runs |-> NoFile]
    /\ written = [r \in Runs |-> 0]
    /\ own \in SUBSET Contexts
    /\ folder = own
    /\ binary = [c \in Contexts |-> {}]
    /\ copying = [r \in Runs |-> [c \in Contexts |-> "todo"]]
    /\ broken = {} /\ early = {}

(* What the end of a run r, however it ends, leaves behind.                *)
Abandon(r) ==
    broken' = broken \cup (IF Writing(r) THEN {"install"} ELSE {})
                     \cup {c \in Contexts : copying[r][c] = "copying"}

Fail(r) == life' = [life EXCEPT ![r] = "dead"] /\ Abandon(r)

(* installQemuIfNeeded: a file that is there is the emulator, unless it is *)
(* empty, which earlier versions left behind.                              *)
Stat(r) ==
    /\ Alive(r) /\ main[r] = "stat"
    /\ main' = [main EXCEPT ![r] = IF path = NoFile THEN "open"
                                   ELSE IF content[path] = {} THEN "unlink" ELSE "access"]
    /\ UNCHANGED <<life, path, content, fd, written, folder, binary, copying, history>>

(* The empty file may be the download that another run has just begun.     *)
Unlink(r) ==
    /\ Alive(r) /\ main[r] = "unlink"
    /\ main' = [main EXCEPT ![r] = IF path = NoFile THEN "open" ELSE "access"]
    /\ path' = NoFile
    /\ UNCHANGED <<life, content, fd, written, folder, binary, copying, history>>

Access(r) ==
    /\ Alive(r) /\ main[r] = "access"
    /\ main' = [main EXCEPT ![r] = IF path = NoFile THEN "open" ELSE "copy"]
    /\ UNCHANGED <<life, path, content, fd, written, folder, binary, copying, history>>

(* installQemu: createWriteStream.                                         *)
Open(r) ==
    /\ Alive(r) /\ main[r] = "open"
    /\ main' = [main EXCEPT ![r] = "download"]
    /\ path' = IF path = NoFile THEN r ELSE path
    /\ fd' = [fd EXCEPT ![r] = path']
    /\ content' = [content EXCEPT ![path'] = {}]
    /\ UNCHANGED <<life, written, folder, binary, copying, history>>

Write(r) ==
    /\ Writing(r)
    /\ written' = [written EXCEPT ![r] = @ + 1]
    /\ content' = [content EXCEPT ![fd[r]] = @ \cup {written[r] + 1}]
    /\ UNCHANGED <<life, main, path, fd, folder, binary, copying, history>>

(* The archive is extracted: the last block may still be in the buffer of  *)
(* the write stream.  chmodSync throws if another run removed the file.    *)
Extracted(r) ==
    /\ Alive(r) /\ main[r] = "download" /\ written[r] + 1 >= Size
    /\ IF path # NoFile
       THEN main' = [main EXCEPT ![r] = "copy"] /\ UNCHANGED <<life, broken>>
       ELSE Fail(r) /\ UNCHANGED main
    /\ UNCHANGED <<path, content, fd, written, folder, binary, copying, early, own>>

(* A failure removes what is at the path, and ends the run.                *)
DownloadFails(r) ==
    /\ Alive(r) /\ main[r] = "download"
    /\ path' = NoFile
    /\ life' = [life EXCEPT ![r] = "dead"]
    /\ UNCHANGED <<main, content, fd, written, folder, binary, copying, history>>

(* copyQemu: a directory that exists counts as filled by an earlier build, *)
(* whoever made it.                                                        *)
MakeFolder(r, c) ==
    /\ Alive(r) /\ main[r] = "copy" /\ copying[r][c] = "todo"
    /\ copying' = [copying EXCEPT ![r][c] = IF c \in folder THEN "skipped" ELSE "copying"]
    /\ folder' = folder \cup {c}
    /\ UNCHANGED <<life, main, path, content, fd, written, binary, history>>

(* The copy holds what was in the file as it was read.                     *)
Copy(r, c) ==
    /\ Alive(r) /\ copying[r][c] = "copying"
    /\ IF path = NoFile
       THEN Fail(r) /\ UNCHANGED <<copying, binary, early>>
       ELSE /\ copying' = [copying EXCEPT ![r][c] = "copied"]
            /\ binary' = [binary EXCEPT ![c] = content[path]]
            /\ early' = IF Downloading THEN early \cup {c} ELSE early
            /\ UNCHANGED <<life, broken>>
    /\ UNCHANGED <<main, path, content, fd, written, folder, own>>

CopyFails(r, c) ==
    /\ Alive(r) /\ copying[r][c] = "copying"
    /\ Fail(r)
    /\ UNCHANGED <<main, path, content, fd, written, folder, binary, copying, early, own>>

ReadyUnawaited(r) ==   \* mutant: the copies are begun and not awaited
    /\ Alive(r) /\ main[r] = "copy"
    /\ \A c \in Contexts : copying[r][c] # "todo"
    /\ main' = [main EXCEPT ![r] = "ready"]
    /\ UNCHANGED <<life, path, content, fd, written, folder, binary, copying, history>>

Ready(r) ==
    /\ Alive(r) /\ main[r] = "copy"
    /\ \A c \in Contexts : copying[r][c] \in {"copied", "skipped"}
    /\ main' = [main EXCEPT ![r] = "ready"]
    /\ UNCHANGED <<life, path, content, fd, written, folder, binary, copying, history>>

Install(r) ==
    \/ Stat(r) \/ Unlink(r) \/ Access(r) \/ Open(r) \/ Write(r) \/ Extracted(r) \/ DownloadFails(r)
    \/ \E c \in Contexts : MakeFolder(r, c) \/ Copy(r, c) \/ CopyFails(r, c)
    \/ Ready(r)
-----------------------------------------------------------------------------
EmulatorTypes ==
    /\ main \in [Runs -> {"none", "stat", "unlink", "access", "open", "download", "copy", "ready"}]
    /\ path \in Runs \cup {NoFile}
    /\ content \in [Runs -> SUBSET Blocks]
    /\ fd \in [Runs -> Runs \cup {NoFile}]
    /\ written \in [Runs -> 0..Size]
    /\ folder \subseteq Contexts
    /\ binary \in [Contexts -> SUBSET Blocks]
    /\ copying \in [Runs -> [Contexts -> {"todo", "copying", "copied", "skipped"}]]
    /\ broken \subseteq Contexts \cup {"install"} /\ early \subseteq Contexts
    /\ own \subseteq folder

(* A file at the path of the emulator that is not the whole emulator, and  *)
(* that nobody is writing, was left by a run that ended in the middle of   *)
(* its download: a failed download leaves none, also if runs overlap.      *)
InstallIsExplained ==
    path # NoFile /\ content[path] # Blocks /\ ~Downloading => "install" \in broken

(* A build goes on without the whole emulator in a context only if a run   *)
(* ended in the middle of a download or of a copy to it, now or ever; or if*)
(* another is just copying to it, or was just downloading it; or if the    *)
(* project has a directory .balena of its own there, for build secrets:    *)
(* copyQemu takes any such directory for a copy, and the build gets none.  *)
ReadyIsExplained ==
    \A r \in Runs, c \in Contexts :
        Alive(r) /\ main[r] = "ready" /\ copying[r][c] # "todo" /\ binary[c] # Blocks =>
            \/ broken \cap {"install", c} # {} \/ c \in early \/ c \in own
            \/ \E q \in Runs \ {r} : Alive(q) /\ copying[q][c] = "copying"
=============================================================================
