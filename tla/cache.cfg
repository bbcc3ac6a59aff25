SPECIFICATION FairImagesSpec
CONSTANTS
    ImageRuns = {r1, r2, r3}
    ImageSize = 2
    Buffer = 2
    Deaths = TRUE
    NoImage = NoImage
INVARIANTS
    ImagesTypeOK
    PartialImageIsExplained
PROPERTIES
    ImageRunsEnd
CHECK_DEADLOCK FALSE
