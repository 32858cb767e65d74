SPECIFICATION Spec
CONSTANTS
    MaxMessages = 2
INVARIANTS TypeOK ReadsWithinMessage EveryByteShown OnlyItsKind EveryArgumentTaken
CHECK_DEADLOCK FALSE
