\* Three entries with ids from 1..4 (so ids may have gaps), batches of two
\* (so a batch can end mid-stream), and one restart.
CONSTANTS
    Fields <- MCFields
    RecordValues <- MCRecordValues
    Valid = Valid
    Corrupt = Corrupt
    MaxRecords = 3
    MaxId = 4
    MaxRestarts = 1
    Count = 2

SPECIFICATION Spec

INVARIANT AtMostOnePrintPerEntry

\* A process blocked in XREAD with nothing newer on the stream, or dead with
\* no restart left, takes no further step.
CHECK_DEADLOCK FALSE
