\* No symmetry: one of the properties is a liveness property.
SPECIFICATION FairSpec
CONSTANT Threads = {t1, t2, t3, t4}
INVARIANTS
    ExclusiveUntilOverwritten
    FreeMutexHasNoForgottenSleeper
PROPERTIES
    OrphanedForGood
    FreeLockIsTaken
