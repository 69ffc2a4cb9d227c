\* Threads contend for the caches of one key id whose master key changes; weak
\* fairness of the running threads (and so no symmetry).
CONSTANTS
  Threads = {t1, t2}
  KeyIds = {v1}
  Materials = {m1, m2}
  Absent = Absent
  Malformed = Malformed
  NoKey = NoKey
  Free = Free
SPECIFICATION FairSpec
INVARIANTS TypeOK UsesConfiguredKey
PROPERTIES LockReleased
