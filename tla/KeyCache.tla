------------------------------ MODULE KeyCache ------------------------------
(***************************************************************************)
(* The derived-key caches of django_field_encryption/encryption.py, shared *)
(* by all the threads of one process, under settings whose master keys may *)
(* be replaced, added and removed while calls are running.                 *)
(*                                                                         *)
(* A derived key is determined by (master key, key id, purpose), so it is  *)
(* represented by the master key it was derived from; the key id and the   *)
(* purpose are those of the cache entry.                                   *)
(***************************************************************************)

CONSTANTS
  Threads,     \* threads of one process
  KeyIds,      \* key ids that DATA_PROTECTION_KEYS may have
  Materials,   \* well-formed 32-byte master keys
  Absent,      \* the key id is not in DATA_PROTECTION_KEYS
  Malformed,   \* it is, with a value that is not 32 bytes long
  NoKey,       \* no key in this slot
  Free         \* nobody holds _cache_lock

ASSUME SentinelAssumption ==
  /\ {Absent, Malformed, NoKey} \cap Materials = {}
  /\ Free \notin Threads
  /\ KeyIds # {}

VARIABLES
  keys,    \* settings.DATA_PROTECTION_KEYS
  cache,   \* _field_key_cache, _file_key_cache and _hash_key_cache
  lock,    \* _cache_lock: the thread that holds it, or Free
  pc,      \* where each thread is in its call
  job,     \* the locals of that call
  known,   \* history: the master keys each key id has had
  dirty    \* history: the key ids changed since a cache was last cleared

settings == <<keys, known, dirty>>
vars     == <<keys, cache, lock, pc, job, known, dirty>>

Purposes  == {"field", "file", "hash"}
Clearable == {"field", "file"}      \* the caches that have a clear_cache
Setting   == Materials \cup {Absent, Malformed}
Slot      == Materials \cup {NoKey}

\* fresh is history: when the call began its cache had been cleared since the
\* key id last changed, and the key id has not changed since.
Job == [purpose: Purposes, kid: KeyIds, mat: Slot, fresh: BOOLEAN]

TypeOK ==
  /\ keys \in [KeyIds -> Setting]
  /\ cache \in [Purposes -> [KeyIds -> Slot]]
  /\ lock \in Threads \cup {Free}
  /\ pc \in [Threads -> {"idle", "prefetch", "wait", "locked", "derive", "use", "clear"}]
  /\ job \in [Threads -> Job]
  /\ known \in [KeyIds -> SUBSET Materials]
  /\ dirty \in [Purposes -> SUBSET KeyIds]

SomeJob == [purpose |-> "field", kid |-> CHOOSE k \in KeyIds : TRUE,
            mat |-> NoKey, fresh |-> FALSE]

Init ==
  /\ keys \in [KeyIds -> Setting]
  /\ cache = [p \in Purposes |-> [k \in KeyIds |-> NoKey]]
  /\ lock = Free
  /\ pc = [t \in Threads |-> "idle"]
  /\ job = [t \in Threads |-> SomeJob]
  /\ known = [k \in KeyIds |-> {keys[k]} \cap Materials]
  /\ dirty = [p \in Purposes |-> {}]

-----------------------------------------------------------------------------
(* Calls.  A thread starts one, takes its steps and is idle again.  The    *)
(* locals of an idle thread mean nothing.                                  *)

Goto(t, l) == pc' = [pc EXCEPT ![t] = l]

Start(t, l, p, k) ==
  /\ pc[t] = "idle"
  /\ Goto(t, l)
  /\ job' = [job EXCEPT ![t] = [purpose |-> p, kid |-> k, mat |-> NoKey,
                                fresh |-> k \notin dirty[p]]]
  /\ UNCHANGED <<settings, cache, lock>>

\* encrypt and decrypt of the two encryptors: k is the active key id or the one
\* the caller names, for decrypt the one in front of the ciphertext.
StartCipher(t, p, k) == p \in Clearable /\ Start(t, "wait", p, k)

\* compute_hash reads the master key before it takes the lock.
StartHash(t, k) == Start(t, "prefetch", "hash", k)

Usable(k) == keys[k] \in Materials

\* The result is returned or raised; which of them is not told apart here.
Return(t) ==
  /\ Goto(t, "idle")
  /\ job' = [job EXCEPT ![t] = SomeJob]

MasterKeyForHash(t) ==
  /\ pc[t] = "prefetch"
  /\ \/ /\ Usable(job[t].kid)
        /\ Goto(t, "wait")
        /\ job' = [job EXCEPT ![t].mat = keys[job[t].kid]]
     \/ /\ ~Usable(job[t].kid)
        /\ Return(t)
  /\ UNCHANGED <<settings, cache, lock>>

Acquire(t) ==
  /\ pc[t] = "wait"
  /\ lock = Free
  /\ lock' = t
  /\ Goto(t, "locked")
  /\ UNCHANGED <<settings, cache, job>>

Cached(t) == cache[job[t].purpose][job[t].kid]

\* Variant (fault): the cache key leaves out the key id.
HitAnyKeyId(t) ==
  /\ pc[t] = "locked"
  /\ \E k \in KeyIds :
       /\ cache[job[t].purpose][k] # NoKey
       /\ job' = [job EXCEPT ![t].mat = cache[job[t].purpose][k]]
  /\ lock' = Free
  /\ Goto(t, "use")
  /\ UNCHANGED <<settings, cache>>

Hit(t) ==
  /\ pc[t] = "locked"
  /\ Cached(t) # NoKey
  /\ job' = [job EXCEPT ![t].mat = Cached(t)]
  /\ lock' = Free
  /\ Goto(t, "use")
  /\ UNCHANGED <<settings, cache>>

\* Variant (fault): a missing key is taken for one that needs no reading.
MissUnchecked(t) ==
  /\ pc[t] = "locked"
  /\ Cached(t) = NoKey
  /\ Goto(t, "derive")
  /\ job' = [job EXCEPT ![t].mat = IF job[t].purpose = "hash" THEN @ ELSE keys[job[t].kid]]
  /\ UNCHANGED <<settings, cache, lock>>

\* A miss: the field and file caches read the master key with the lock held,
\* the hash cache uses the one that was read before.
Miss(t) ==
  /\ pc[t] = "locked"
  /\ Cached(t) = NoKey
  /\ job[t].purpose = "hash" \/ Usable(job[t].kid)
  /\ Goto(t, "derive")
  /\ job' = [job EXCEPT ![t].mat = IF job[t].purpose = "hash" THEN @ ELSE keys[job[t].kid]]
  /\ UNCHANGED <<settings, cache, lock>>

\* Variant (fault): the lock stays held when _get_master_key raises.
MissRaisesHoldingLock(t) ==
  /\ pc[t] = "locked"
  /\ Cached(t) = NoKey
  /\ job[t].purpose # "hash" /\ ~Usable(job[t].kid)
  /\ Return(t)
  /\ UNCHANGED <<settings, cache, lock>>

MissRaises(t) ==
  /\ pc[t] = "locked"
  /\ Cached(t) = NoKey
  /\ job[t].purpose # "hash" /\ ~Usable(job[t].kid)
  /\ lock' = Free
  /\ Return(t)
  /\ UNCHANGED <<settings, cache>>

DeriveAndStore(t) ==
  /\ pc[t] = "derive"
  /\ cache' = [cache EXCEPT ![job[t].purpose][job[t].kid] = job[t].mat]
  /\ lock' = Free
  /\ Goto(t, "use")
  /\ UNCHANGED <<settings, job>>

\* AES-GCM or HMAC with the key obtained, outside the lock.
Use(t) ==
  /\ pc[t] = "use"
  /\ Return(t)
  /\ UNCHANGED <<settings, cache, lock>>

-----------------------------------------------------------------------------
(* Clearing, and changing the settings.                                    *)

StartClear(t, p) ==
  /\ pc[t] = "idle"
  /\ Goto(t, "clear")
  /\ job' = [job EXCEPT ![t] = [SomeJob EXCEPT !.purpose = p]]
  /\ UNCHANGED <<settings, cache, lock>>

\* Variant (fault): clear_cache does not take the lock.
ClearCacheUnlocked(t) ==
  /\ pc[t] = "clear"
  /\ cache' = [cache EXCEPT ![job[t].purpose] = [k \in KeyIds |-> NoKey]]
  /\ dirty' = [dirty EXCEPT ![job[t].purpose] = {}]
  /\ Return(t)
  /\ UNCHANGED <<keys, known, lock>>

ClearCache(t) ==
  /\ pc[t] = "clear"
  /\ lock = Free
  /\ cache' = [cache EXCEPT ![job[t].purpose] = [k \in KeyIds |-> NoKey]]
  /\ dirty' = [dirty EXCEPT ![job[t].purpose] = {}]
  /\ Return(t)
  /\ UNCHANGED <<keys, known, lock>>

\* The master key of a key id is replaced, added or removed.
ChangeMasterKey(k, s) ==
  /\ s # keys[k]
  /\ keys' = [keys EXCEPT ![k] = s]
  /\ known' = [known EXCEPT ![k] = @ \cup ({s} \cap Materials)]
  /\ dirty' = [p \in Purposes |-> dirty[p] \cup {k}]
  /\ job' = [t \in Threads |->
              IF job[t].kid = k THEN [job[t] EXCEPT !.fresh = FALSE] ELSE job[t]]
  /\ UNCHANGED <<cache, lock, pc>>

-----------------------------------------------------------------------------
Begin(t) ==
  \/ \E p \in Clearable : StartClear(t, p)
  \/ \E p \in Clearable, k \in KeyIds : StartCipher(t, p, k)
  \/ \E k \in KeyIds : StartHash(t, k)

Continue(t) ==
  \/ MasterKeyForHash(t) \/ Acquire(t) \/ Hit(t) \/ Miss(t) \/ MissRaises(t)
  \/ DeriveAndStore(t) \/ Use(t) \/ ClearCache(t)

Next ==
  \/ \E t \in Threads : Begin(t) \/ Continue(t)
  \/ \E k \in KeyIds, s \in Setting : ChangeMasterKey(k, s)

Spec == Init /\ [][Next]_vars

\* A thread that is running keeps running; no call need ever be started.
FairSpec == Spec /\ \A t \in Threads : WF_vars(Continue(t))

-----------------------------------------------------------------------------
(* Properties.                                                             *)

\* After a master key changed and clear_cache returned, encrypt and decrypt use
\* the configured key, whatever was in flight when the cache was cleared: a
\* call that began after it, its key id unchanged since, never gets the old one.
UsesConfiguredKey ==
  \A t \in Threads :
    (pc[t] = "use" /\ job[t].purpose \in Clearable /\ job[t].fresh)
      => job[t].mat = keys[job[t].kid]

\* Every call runs with a master key that was at some time configured for the
\* very key id it names, the one encrypt writes in front of the ciphertext.
UsesKeyOfItsId ==
  \A t \in Threads : pc[t] = "use" => job[t].mat \in known[job[t].kid]

\* A thread that holds _cache_lock gives it back, also when the key it looks
\* up is missing or malformed.
LockReleased == \A t \in Threads : (lock = t) ~> (lock # t)
=============================================================================
