\* Streams of up to 3 entries from 31 representative values.
SPECIFICATION Spec
CONSTANTS
    NoNumber = NoNumber
    MaxEntries = 3
    StreamSpace <- MCStreamSpace
INVARIANTS
    WidthsMatchBytes
    PaddingAligns
    BytesMean
    PacksWhenWellFormed
