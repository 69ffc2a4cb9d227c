--------------------------- MODULE KeyCacheProofs ---------------------------
(* Type correctness and the two safety invariants of KeyCache, for any     *)
(* number of threads, key ids and master keys.                             *)
EXTENDS KeyCache, TLAPS

-----------------------------------------------------------------------------
(* The inductive invariant.                                                *)

\* _cache_lock is held exactly by the thread between Acquire and its release.
LockInv == \A t \in Threads : (pc[t] \in {"locked", "derive"}) <=> (lock = t)

\* An entry whose key id has not changed since the clear is of the configured key,
\* and so is the one that is about to be stored.
CleanCacheInv ==
  /\ \A p \in Clearable, k \in KeyIds : k \notin dirty[p] => cache[p][k] \in {NoKey, keys[k]}
  /\ \A t \in Threads :
       (pc[t] = "derive" /\ job[t].purpose \in Clearable /\ job[t].kid \notin dirty[job[t].purpose])
         => job[t].mat = keys[job[t].kid]

\* The history bit means what its comment says.
FreshInv == \A t \in Threads : job[t].fresh => job[t].kid \notin dirty[job[t].purpose]

\* Whatever is configured, cached or on its way was configured for that key id.
KnownInv ==
  /\ \A k \in KeyIds : keys[k] \in Materials => keys[k] \in known[k]
  /\ \A p \in Purposes, k \in KeyIds : cache[p][k] # NoKey => cache[p][k] \in known[k]
  /\ \A t \in Threads :
       \/ pc[t] \in {"derive", "use"}
       \/ pc[t] \in {"wait", "locked"} /\ job[t].purpose = "hash"
       => job[t].mat \in known[job[t].kid]

IInv ==
  /\ TypeOK
  /\ LockInv
  /\ CleanCacheInv
  /\ FreshInv
  /\ KnownInv
  /\ UsesConfiguredKey

-----------------------------------------------------------------------------
LEMMA SomeJobType == SomeJob \in Job /\ SomeJob.kid \in KeyIds /\ ~SomeJob.fresh
<1>1. (CHOOSE k \in KeyIds : TRUE) \in KeyIds
  BY SentinelAssumption
<1> QED  BY <1>1 DEF SomeJob, Job, Purposes, Slot

LEMMA StaleJobType == \A j \in Job : [j EXCEPT !.fresh = FALSE] \in Job
<1> SUFFICES ASSUME NEW j \in Job PROVE [j EXCEPT !.fresh = FALSE] \in Job
  OBVIOUS
<1> QED  BY DEF Job

LEMMA InitIInv == Init => IInv
<1> SUFFICES ASSUME Init PROVE IInv
  OBVIOUS
<1> USE SomeJobType, SentinelAssumption DEF Init
<1>1. TypeOK
  BY DEF TypeOK, Setting, Slot
<1>2. LockInv
  BY DEF LockInv
<1>3. CleanCacheInv
  BY DEF CleanCacheInv, Clearable, Purposes
<1>4. FreshInv
  BY DEF FreshInv
<1>5. KnownInv
  BY DEF KnownInv
<1>6. UsesConfiguredKey
  BY DEF UsesConfiguredKey
<1> QED  BY <1>1, <1>2, <1>3, <1>4, <1>5, <1>6 DEF IInv

LEMMA TypeNext == TypeOK /\ [Next]_vars => TypeOK'
<1> SUFFICES ASSUME TypeOK, [Next]_vars PROVE TypeOK'
  OBVIOUS
<1> USE DEF TypeOK, Purposes, Clearable, Setting, Slot, Job, settings, Goto
<1>1. ASSUME NEW t \in Threads, NEW p \in Clearable, StartClear(t, p) PROVE TypeOK'
  BY <1>1, SomeJobType DEF StartClear, SomeJob
<1>2. ASSUME NEW t \in Threads, NEW p \in Clearable, NEW k \in KeyIds, StartCipher(t, p, k) PROVE TypeOK'
  BY <1>2 DEF StartCipher, Start
<1>3. ASSUME NEW t \in Threads, NEW k \in KeyIds, StartHash(t, k) PROVE TypeOK'
  BY <1>3 DEF StartHash, Start
<1>4. ASSUME NEW t \in Threads, MasterKeyForHash(t) PROVE TypeOK'
  <2>1. CASE ~Usable(job[t].kid)
    BY <1>4, <2>1, SomeJobType DEF MasterKeyForHash, Return
  <2>2. CASE Usable(job[t].kid)
    <3>1. job' = [job EXCEPT ![t].mat = keys[job[t].kid]]
      BY <1>4, <2>2 DEF MasterKeyForHash
    <3>2. job' \in [Threads -> Job]
      BY <3>1, <2>2 DEF Usable
    <3> QED  BY <1>4, <2>2, <3>2 DEF MasterKeyForHash
  <2> QED  BY <2>1, <2>2
<1>5. ASSUME NEW t \in Threads, Acquire(t) PROVE TypeOK'
  BY <1>5 DEF Acquire
<1>6. ASSUME NEW t \in Threads, Hit(t) PROVE TypeOK'
  BY <1>6 DEF Hit, Cached
<1>7. ASSUME NEW t \in Threads, Miss(t) PROVE TypeOK'
  BY <1>7 DEF Miss, Usable
<1>8. ASSUME NEW t \in Threads, MissRaises(t) PROVE TypeOK'
  BY <1>8, SomeJobType DEF MissRaises, Return
<1>9. ASSUME NEW t \in Threads, DeriveAndStore(t) PROVE TypeOK'
  BY <1>9 DEF DeriveAndStore
<1>10. ASSUME NEW t \in Threads, Use(t) PROVE TypeOK'
  BY <1>10, SomeJobType DEF Use, Return
<1>11. ASSUME NEW t \in Threads, ClearCache(t) PROVE TypeOK'
  BY <1>11, SomeJobType DEF ClearCache, Return
<1>12. ASSUME NEW k \in KeyIds, NEW s \in Setting, ChangeMasterKey(k, s) PROVE TypeOK'
  <2>1. job' \in [Threads -> Job]
    BY <1>12, StaleJobType DEF ChangeMasterKey
  <2>2. dirty' \in [Purposes -> SUBSET KeyIds]
    BY <1>12 DEF ChangeMasterKey
  <2>3. known' \in [KeyIds -> SUBSET Materials]
    BY <1>12 DEF ChangeMasterKey
  <2> QED  BY <1>12, <2>1, <2>2, <2>3 DEF ChangeMasterKey
<1>13. CASE UNCHANGED vars
  BY <1>13 DEF vars
<1> QED
  BY <1>1, <1>2, <1>3, <1>4, <1>5, <1>6, <1>7, <1>8, <1>9, <1>10, <1>11, <1>12, <1>13 DEF Next, Begin, Continue

LEMMA LockNext == TypeOK /\ LockInv /\ [Next]_vars => LockInv'
<1> SUFFICES ASSUME TypeOK, LockInv, [Next]_vars PROVE LockInv'
  OBVIOUS
<1> USE DEF TypeOK, LockInv, settings, Goto
<1>1. ASSUME NEW t \in Threads, NEW p \in Clearable, StartClear(t, p) PROVE LockInv'
  BY <1>1 DEF StartClear
<1>2. ASSUME NEW t \in Threads, NEW p \in Clearable, NEW k \in KeyIds, StartCipher(t, p, k) PROVE LockInv'
  BY <1>2 DEF StartCipher, Start
<1>3. ASSUME NEW t \in Threads, NEW k \in KeyIds, StartHash(t, k) PROVE LockInv'
  BY <1>3 DEF StartHash, Start
<1>4. ASSUME NEW t \in Threads, MasterKeyForHash(t) PROVE LockInv'
  BY <1>4 DEF MasterKeyForHash, Return
<1>5. ASSUME NEW t \in Threads, Acquire(t) PROVE LockInv'
  BY <1>5, SentinelAssumption DEF Acquire
<1>6. ASSUME NEW t \in Threads, Hit(t) PROVE LockInv'
  BY <1>6, SentinelAssumption DEF Hit
<1>7. ASSUME NEW t \in Threads, Miss(t) PROVE LockInv'
  <2>1. pc' = [pc EXCEPT ![t] = "derive"] /\ pc[t] = "locked" /\ lock' = lock
    BY <1>7 DEF Miss
  <2> QED  BY <2>1
<1>8. ASSUME NEW t \in Threads, MissRaises(t) PROVE LockInv'
  BY <1>8, SentinelAssumption DEF MissRaises, Return
<1>9. ASSUME NEW t \in Threads, DeriveAndStore(t) PROVE LockInv'
  BY <1>9, SentinelAssumption DEF DeriveAndStore
<1>10. ASSUME NEW t \in Threads, Use(t) PROVE LockInv'
  BY <1>10 DEF Use, Return
<1>11. ASSUME NEW t \in Threads, ClearCache(t) PROVE LockInv'
  BY <1>11 DEF ClearCache, Return
<1>12. ASSUME NEW k \in KeyIds, NEW s \in Setting, ChangeMasterKey(k, s) PROVE LockInv'
  BY <1>12 DEF ChangeMasterKey
<1>13. CASE UNCHANGED vars
  BY <1>13 DEF vars
<1> QED
  BY <1>1, <1>2, <1>3, <1>4, <1>5, <1>6, <1>7, <1>8, <1>9, <1>10, <1>11, <1>12, <1>13 DEF Next, Begin, Continue

LEMMA CleanCacheNext == TypeOK /\ LockInv /\ CleanCacheInv /\ [Next]_vars => CleanCacheInv'
<1> SUFFICES ASSUME TypeOK, LockInv, CleanCacheInv, [Next]_vars PROVE CleanCacheInv'
  OBVIOUS
<1> USE DEF TypeOK, LockInv, CleanCacheInv, Clearable, Purposes, Job, settings, Goto
<1>1. ASSUME NEW t \in Threads, NEW p \in Clearable, StartClear(t, p) PROVE CleanCacheInv'
  BY <1>1, SomeJobType DEF StartClear, SomeJob
<1>2. ASSUME NEW t \in Threads, NEW p \in Clearable, NEW k \in KeyIds, StartCipher(t, p, k) PROVE CleanCacheInv'
  BY <1>2 DEF StartCipher, Start
<1>3. ASSUME NEW t \in Threads, NEW k \in KeyIds, StartHash(t, k) PROVE CleanCacheInv'
  BY <1>3 DEF StartHash, Start
<1>4. ASSUME NEW t \in Threads, MasterKeyForHash(t) PROVE CleanCacheInv'
  BY <1>4 DEF MasterKeyForHash, Return
<1>5. ASSUME NEW t \in Threads, Acquire(t) PROVE CleanCacheInv'
  BY <1>5 DEF Acquire
<1>6. ASSUME NEW t \in Threads, Hit(t) PROVE CleanCacheInv'
  BY <1>6 DEF Hit
<1>7. ASSUME NEW t \in Threads, Miss(t) PROVE CleanCacheInv'
  BY <1>7 DEF Miss, Usable
<1>8. ASSUME NEW t \in Threads, MissRaises(t) PROVE CleanCacheInv'
  BY <1>8 DEF MissRaises, Return
<1>9. ASSUME NEW t \in Threads, DeriveAndStore(t) PROVE CleanCacheInv'
  BY <1>9 DEF DeriveAndStore
<1>10. ASSUME NEW t \in Threads, Use(t) PROVE CleanCacheInv'
  BY <1>10 DEF Use, Return
<1>11. ASSUME NEW t \in Threads, ClearCache(t) PROVE CleanCacheInv'
  BY <1>11, SentinelAssumption DEF ClearCache, Return
<1>12. ASSUME NEW k \in KeyIds, NEW s \in Setting, ChangeMasterKey(k, s) PROVE CleanCacheInv'
  BY <1>12 DEF ChangeMasterKey
<1>13. CASE UNCHANGED vars
  BY <1>13 DEF vars
<1> QED
  BY <1>1, <1>2, <1>3, <1>4, <1>5, <1>6, <1>7, <1>8, <1>9, <1>10, <1>11, <1>12, <1>13 DEF Next, Begin, Continue

LEMMA FreshNext == TypeOK /\ FreshInv /\ [Next]_vars => FreshInv'
<1> SUFFICES ASSUME TypeOK, FreshInv, [Next]_vars PROVE FreshInv'
  OBVIOUS
<1> USE DEF TypeOK, FreshInv, Clearable, Purposes, Job, settings, Goto
<1>1. ASSUME NEW t \in Threads, NEW p \in Clearable, StartClear(t, p) PROVE FreshInv'
  BY <1>1, SomeJobType DEF StartClear, SomeJob
<1>2. ASSUME NEW t \in Threads, NEW p \in Clearable, NEW k \in KeyIds, StartCipher(t, p, k) PROVE FreshInv'
  BY <1>2 DEF StartCipher, Start
<1>3. ASSUME NEW t \in Threads, NEW k \in KeyIds, StartHash(t, k) PROVE FreshInv'
  BY <1>3 DEF StartHash, Start
<1>4. ASSUME NEW t \in Threads, MasterKeyForHash(t) PROVE FreshInv'
  BY <1>4, SomeJobType DEF MasterKeyForHash, Return, Usable
<1>5. ASSUME NEW t \in Threads, Acquire(t) PROVE FreshInv'
  BY <1>5 DEF Acquire
<1>6. ASSUME NEW t \in Threads, Hit(t) PROVE FreshInv'
  BY <1>6 DEF Hit
<1>7. ASSUME NEW t \in Threads, Miss(t) PROVE FreshInv'
  BY <1>7 DEF Miss
<1>8. ASSUME NEW t \in Threads, MissRaises(t) PROVE FreshInv'
  BY <1>8, SomeJobType DEF MissRaises, Return
<1>9. ASSUME NEW t \in Threads, DeriveAndStore(t) PROVE FreshInv'
  BY <1>9 DEF DeriveAndStore
<1>10. ASSUME NEW t \in Threads, Use(t) PROVE FreshInv'
  BY <1>10, SomeJobType DEF Use, Return
<1>11. ASSUME NEW t \in Threads, ClearCache(t) PROVE FreshInv'
  BY <1>11, SomeJobType DEF ClearCache, Return
<1>12. ASSUME NEW k \in KeyIds, NEW s \in Setting, ChangeMasterKey(k, s) PROVE FreshInv'
  BY <1>12 DEF ChangeMasterKey
<1>13. CASE UNCHANGED vars
  BY <1>13 DEF vars
<1> QED
  BY <1>1, <1>2, <1>3, <1>4, <1>5, <1>6, <1>7, <1>8, <1>9, <1>10, <1>11, <1>12, <1>13 DEF Next, Begin, Continue

LEMMA KnownNext == TypeOK /\ KnownInv /\ [Next]_vars => KnownInv'
<1> SUFFICES ASSUME TypeOK, KnownInv, [Next]_vars PROVE KnownInv'
  OBVIOUS
<1> USE DEF TypeOK, KnownInv, Clearable, Purposes, Setting, Job, settings, Goto
<1>1. ASSUME NEW t \in Threads, NEW p \in Clearable, StartClear(t, p) PROVE KnownInv'
  BY <1>1, SomeJobType DEF StartClear, SomeJob
<1>2. ASSUME NEW t \in Threads, NEW p \in Clearable, NEW k \in KeyIds, StartCipher(t, p, k) PROVE KnownInv'
  BY <1>2 DEF StartCipher, Start
<1>3. ASSUME NEW t \in Threads, NEW k \in KeyIds, StartHash(t, k) PROVE KnownInv'
  BY <1>3 DEF StartHash, Start
<1>4. ASSUME NEW t \in Threads, MasterKeyForHash(t) PROVE KnownInv'
  BY <1>4, SomeJobType DEF MasterKeyForHash, Return, Usable
<1>5. ASSUME NEW t \in Threads, Acquire(t) PROVE KnownInv'
  BY <1>5 DEF Acquire
<1>6. ASSUME NEW t \in Threads, Hit(t) PROVE KnownInv'
  BY <1>6 DEF Hit, Cached
<1>7. ASSUME NEW t \in Threads, Miss(t) PROVE KnownInv'
  BY <1>7 DEF Miss, Usable
<1>8. ASSUME NEW t \in Threads, MissRaises(t) PROVE KnownInv'
  BY <1>8, SomeJobType DEF MissRaises, Return
<1>9. ASSUME NEW t \in Threads, DeriveAndStore(t) PROVE KnownInv'
  BY <1>9 DEF DeriveAndStore
<1>10. ASSUME NEW t \in Threads, Use(t) PROVE KnownInv'
  BY <1>10, SomeJobType DEF Use, Return
<1>11. ASSUME NEW t \in Threads, ClearCache(t) PROVE KnownInv'
  BY <1>11, SomeJobType DEF ClearCache, Return
<1>12. ASSUME NEW k \in KeyIds, NEW s \in Setting, ChangeMasterKey(k, s) PROVE KnownInv'
  BY <1>12 DEF ChangeMasterKey
<1>13. CASE UNCHANGED vars
  BY <1>13 DEF vars
<1> QED
  BY <1>1, <1>2, <1>3, <1>4, <1>5, <1>6, <1>7, <1>8, <1>9, <1>10, <1>11, <1>12, <1>13 DEF Next, Begin, Continue

LEMMA ConfiguredNext == TypeOK /\ CleanCacheInv /\ FreshInv /\ UsesConfiguredKey /\ [Next]_vars => UsesConfiguredKey'
<1> SUFFICES ASSUME TypeOK, CleanCacheInv, FreshInv, UsesConfiguredKey, [Next]_vars PROVE UsesConfiguredKey'
  OBVIOUS
<1> USE DEF TypeOK, CleanCacheInv, FreshInv, UsesConfiguredKey, Clearable, Purposes, Job, settings, Goto
<1>1. ASSUME NEW t \in Threads, NEW p \in Clearable, StartClear(t, p) PROVE UsesConfiguredKey'
  BY <1>1 DEF StartClear
<1>2. ASSUME NEW t \in Threads, NEW p \in Clearable, NEW k \in KeyIds, StartCipher(t, p, k) PROVE UsesConfiguredKey'
  BY <1>2 DEF StartCipher, Start
<1>3. ASSUME NEW t \in Threads, NEW k \in KeyIds, StartHash(t, k) PROVE UsesConfiguredKey'
  BY <1>3 DEF StartHash, Start
<1>4. ASSUME NEW t \in Threads, MasterKeyForHash(t) PROVE UsesConfiguredKey'
  BY <1>4 DEF MasterKeyForHash, Return
<1>5. ASSUME NEW t \in Threads, Acquire(t) PROVE UsesConfiguredKey'
  BY <1>5 DEF Acquire
<1>6. ASSUME NEW t \in Threads, Hit(t) PROVE UsesConfiguredKey'
  BY <1>6 DEF Hit, Cached
<1>7. ASSUME NEW t \in Threads, Miss(t) PROVE UsesConfiguredKey'
  BY <1>7 DEF Miss
<1>8. ASSUME NEW t \in Threads, MissRaises(t) PROVE UsesConfiguredKey'
  BY <1>8 DEF MissRaises, Return
<1>9. ASSUME NEW t \in Threads, DeriveAndStore(t) PROVE UsesConfiguredKey'
  BY <1>9 DEF DeriveAndStore
<1>10. ASSUME NEW t \in Threads, Use(t) PROVE UsesConfiguredKey'
  BY <1>10 DEF Use, Return
<1>11. ASSUME NEW t \in Threads, ClearCache(t) PROVE UsesConfiguredKey'
  BY <1>11 DEF ClearCache, Return
<1>12. ASSUME NEW k \in KeyIds, NEW s \in Setting, ChangeMasterKey(k, s) PROVE UsesConfiguredKey'
  BY <1>12 DEF ChangeMasterKey
<1>13. CASE UNCHANGED vars
  BY <1>13 DEF vars
<1> QED
  BY <1>1, <1>2, <1>3, <1>4, <1>5, <1>6, <1>7, <1>8, <1>9, <1>10, <1>11, <1>12, <1>13 DEF Next, Begin, Continue

LEMMA NextIInv == IInv /\ [Next]_vars => IInv'
BY TypeNext, LockNext, CleanCacheNext, FreshNext, KnownNext, ConfiguredNext DEF IInv

-----------------------------------------------------------------------------
\* Every variable keeps its type.
THEOREM TypeCorrect == Spec => []TypeOK
<1>1. IInv => TypeOK
  BY DEF IInv
<1> QED  BY InitIInv, NextIInv, <1>1, PTL DEF Spec

\* A call of encrypt or decrypt that began after clear_cache returned uses the
\* configured master key, whichever threads were deriving keys meanwhile.
THEOREM ClearedCallsUseConfiguredKey == Spec => []UsesConfiguredKey
<1>1. IInv => UsesConfiguredKey
  BY DEF IInv
<1> QED  BY InitIInv, NextIInv, <1>1, PTL DEF Spec

\* No call, a blind index hash included, runs with a master key of another key id.
THEOREM CallsUseKeyOfTheirId == Spec => []UsesKeyOfItsId
<1>1. IInv => UsesKeyOfItsId
  BY DEF IInv, KnownInv, UsesKeyOfItsId
<1> QED  BY InitIInv, NextIInv, <1>1, PTL DEF Spec
=============================================================================
