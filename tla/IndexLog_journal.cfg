SPECIFICATION Spec
CONSTANTS
    Threads = {t1, t2}
    BUF_ITEMS = 2
    WriteFailures = {"nothing", "short"}
    MaxItems = 5
    MaxCrashes = 1
    None = None
INVARIANTS TypeOK JournalExact FlushDurableUnlessFailed FetchedInOrder
