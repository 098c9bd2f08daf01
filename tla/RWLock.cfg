SPECIFICATION FairSpec
CONSTANT Threads = {t1, t2, t3, t4}
INVARIANTS TypeOK MutualExclusion CountersExact NoLostWakeup
PROPERTIES ReaderPriority RefinesSharedLock WaitersGetIn
