\* Nothing is lost, cut off or crashed; three dispatches and a retry each, and
\* a stream that is open at any time.
SPECIFICATION StreamSpec
CONSTANTS
    j1 = j1
    Jobs = {j1}
    MaxTasks = 3
    MaxRetries = 1
    MaxFaults = 0
INVARIANTS
    UnfinishedIsCarried
    OneQuestionPerJob
    JournalStartsFresh
    DetailIsCoherent
CHECK_DEADLOCK FALSE
