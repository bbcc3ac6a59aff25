---------------------------- MODULE CachedImages ----------------------------
(***************************************************************************)
(* The cache of OS images (module ImageCache) as a part of the data        *)
(* directory, beside what DataDir has of it.  The two share no state, and  *)
(* no run has to do with both of them.                                     *)
(***************************************************************************)
EXTENDS Naturals

CONSTANTS ImageRuns, ImageSize, Buffer, Deaths, NoImage

VARIABLES
    cached, inprogress, blocks, length,             \* the cache directory
    pc, open, read, flushed, output,                \* the runs
    overlap, moved                                  \* history

Images == INSTANCE ImageCache WITH
    Runs <- ImageRuns, Size <- ImageSize, None <- NoImage,
    content <- blocks, fd <- open, written <- flushed

ASSUME ImagesAssumption == Images!ImageCacheAssumption

ImagesSpec == Images!Spec
FairImagesSpec == Images!FairSpec

-----------------------------------------------------------------------------
(* Every variable of the cache keeps its type: what runs write, read and   *)
(* hold are blocks of the image, and files that runs have made.            *)
ImagesTypeOK == Images!TypeOK

(* What doDownload leaves at imagePath, and what getStream reads there, is *)
(* whole, unless runs overlapped and one of them failed, or one was killed *)
(* between its rename and its last write.                                  *)
PartialImageIsExplained == Images!PartialIsExplained

(* A run that was started ends, whatever other runs do to its files, and   *)
(* tells its caller of an error, unless runs overlapped.                   *)
ImageRunsEnd == Images!RunsEnd
=============================================================================
