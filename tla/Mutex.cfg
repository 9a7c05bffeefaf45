\* Four contexts contend for one lock.  No symmetry: the run checks liveness.
CONSTANT Procs = {c1, c2, c3, c4}
SPECIFICATION MutexSpec
INVARIANT MutexTypeOK
INVARIANT MutualExclusion
PROPERTY DeadlockFreedom
PROPERTY ImplementsSpinLock
