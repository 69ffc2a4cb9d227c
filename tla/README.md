# Specifications of django-field-encryption

TLA+ models of the package `django_field_encryption`, the TLC runs that check
them on small instances, and TLAPS proofs of their main properties. Paths below
are relative to the repository; `encryption.py`, `fields.py` and so on are in
`django_field_encryption/`.

    tlc -config Table.cfg MCTable.tla         # one run, see "Runs"
    tlapm EncryptedTableProofs.tla            # one proof module, see "Proofs"

## 1. The system

| Component | State | Operations | Interacts with |
|---|---|---|---|
| Settings and master keys, `conf.py` | none: reads `settings` on every call | `_get_keys_config`, `_get_active_key_id`, `_get_master_key` | called by the encryptors; replaced by a deployment, by tests, by the demo's `switch_key` |
| Derived-key caches, `encryption.py` 35-48 | three dictionaries, one lock, all per process | `_get_aesgcm` (two), `_derive_hash_key`, `clear_cache` (two) | shared by all threads; reads the settings on a miss |
| `FieldEncryptor` | none | `encrypt`, `decrypt`, `is_encrypted`, `can_decrypt`, `rotate_value` | uses the field cache |
| `FileEncryptor` | none | `encrypt`, `decrypt`, `is_encrypted` | uses the file cache |
| Encrypted fields, `fields.py` | the rows of the table, the attributes of instances | `from_db_value`, `to_python`, `get_prep_value`, called by Django on load, `full_clean` and save | `FieldEncryptor`, with a static AAD `model:field` |
| Blind index, `fields.py` 304-343 | a hash column | `pre_save` receiver, `compute_hash` | hash cache |
| Rotation, `rotation.py` and the command `rotate_encryption_keys` | `last_pk`, the batch, counts | `rotate_keys`, `rotate_model_fields` | reads and writes the same rows as the application, in another process |
| File storage, `storage.py` | files of the underlying storage | `_save`, `_open`, `delete`, `exists`, `get_available_name` | Django's `Storage.save` above, `FileSystemStorage._save` below |
| Admin mixins, `admin.py` | none | masking, search by hash | `compute_hash` |
| `generate_encryption_key` | none | prints a key | |
| README recipes, demo | the instances a loop has loaded; rows that name files | backfill, emergency rotation, recomputation of hashes, `rotate_all`, `switch_key`, document views | all of the above |

What is hard here:

* **Threads.** The caches are filled on a miss, with the settings read at that
  time, while other threads clear them.
* **Deployments.** Key rotation is a rollout: for a time, workers with different
  settings load and save the same rows.
* **Silent fallbacks.** A column that is not strict hands through what it cannot
  decrypt, and stores in the clear what it cannot encrypt. What was handed
  through comes back on the next save.
* **Rotation** runs next to the application, reads and writes in different
  steps, may die, and is run again.
* **Files** are encrypted for a name before that name is certain, and a row that
  is to refer to a file is inserted after the file was saved.
* **The hash column** is a second copy of a text, under a key of its own. A save
  may write one and not the other, and a change of the active key changes what a
  lookup computes.
* **Loops over all rows** load everything first and save one row at a time.

What makes each part correct: a call uses the key that is configured, for the
key id that it writes in front of the ciphertext, and the lock is given back
(caches); a strict column holds texts encrypted exactly once, and the
application cannot tell it from a plain column (fields); every worker can read
every row during the documented rollout (fields and settings); a rotation
examines every row once, moves on with every step, changes keys and not texts, and never lets
plaintext into the table (rotation); a saved file keeps its content and opens
(storage), and a document keeps its own file (documents); no two rows have the
same text in a unique index, and a lookup finds the rows with a text that were
hashed with the key it goes by (blind index);
what a loop has saved needs no key from before it, keeps its text and has its hash (recipes).

## 2. Modules

    PlainTable <--refined by-- EncryptedTable --EXTENDS--> Cipher
                                 ^          ^
                    BlindIndex --+          +-- Rotation
                       ^
                    Recipes
    FileStorage <-- Documents        KeyCache

An arrow points to the module that is extended. `MCKeyCache`, `MCTable`,
`MCBlindIndex`, `MCRecipes` and `MCRotation` give values to the constants;
`KeyCacheProofs`, `EncryptedTableProofs`, `BlindIndexProofs`, `RotationProofs`,
`RecipesProofs`, `FileStorageProofs` and `DocumentsProofs` extend the module they
are named after; `RolloutProofs`, `BlindIndexProofs` and `RotationProofs` extend
`EncryptedTableProofs` as well, and `RecipesProofs` extends `BlindIndexProofs`, so
that what a worker's step does is proved once.

**KeyCache** is one process: threads, the three caches (`cache[purpose][key id]`),
`_cache_lock`, and the settings, which may change at any time. A call is a
sequence of steps cut where another thread can get in between: wait for the
lock, look up, read the master key and derive (`derive`, lock held), store and
release, use the key. `compute_hash` reads the master key first, without the
lock (`prefetch`). A derived key is represented by the master key it comes
from. `known`, `dirty` and the `fresh` bit of a call are history: they are never
read by an action.

**Cipher** has no variables. It is what the encryptor and the column do to one
value, as operators of a configuration `c`: `IsEncrypted`, `Opens` (decrypt),
`Encrypt`, and on top of them `Read`/`ReadRaises` (`_decrypt_value`) and
`Write`/`WriteRaises` (`_encrypt_value`) with the options `strict`, `key_id` and
`enforce_aad`. A value is a text in zero or more layers of encryption, each with
its key id, master key and AAD. Texts are opaque except for what stands before
their first `:` (`TextPrefix`), because the code takes that for a key id, and
for whether base64 follows it (`Lookalikes`). The empty string, which the
fields read as it is and write encrypted, is left out.

**EncryptedTable** is the tables and the workers that use them through the ORM. A
query is one step, with the conversions of its values. A primary key stands for
a row of one of the models; `FieldsOf` says which columns that model has. Each
worker holds at most one instance. `FullClean` is `Model.full_clean`: it replaces attributes one
by one, so that one that raises leaves those before it replaced; any order of
the columns is allowed. The length validator runs there too: it decrypts what it
measures and lets the error of a malformed key through (`ValidatorRaises`). A
strict column's `to_python` raises on plaintext, so that `full_clean`, and with it
a ModelForm, never accepts a text for a strict column. `Save` is an UPDATE that turns into an INSERT when
the row is gone, as Django does it. `Redeploy` takes a worker to the next
settings of `Rollout`; `MaxLag` bounds how far workers are apart.

**PlainTable** is the promise: the same operations on plain columns, without
encryption. `EncryptedTable!Plaintext` instantiates it for the strict columns
with a refinement mapping that takes a stored value to its text (`Stored`) and
an attribute to what it shows (`Shown`), or to `Garbled` if that is ciphertext.

**BlindIndex** extends EncryptedTable by the hash column of one model. A hash is
the key and the value it was made of. `StoreHash` is the `pre_save` receiver,
which runs in every save, and `IndexedSaveField` the saves that name only some of
the columns: with `PartialSaves` also those that write a text without its hash or
a hash without its text, which `outdated` remembers as history. The unique
constraint is `Unique`. The receiver hashes with the `key_id` of its field, or else
with the active key (`IndexKey`). Lookups (`Matches`) are `compute_hash(x)` as
documented, that is, always with the active key; they and the admin's search
(`SearchResults`) write nothing and are operators of a configuration.

**Recipes** extends BlindIndex by one loop over all rows beside the workers:
the demo's `rotate_all`, the emergency rotation of docs/security.md and the
README's recomputation of hashes. `StartLoop` loads everything by one query,
`LoopSave` is one iteration, and the loop ends, raises (`IterationRaises`) or dies
anywhere. `RotateValue` is `FieldEncryptor.rotate_value`, as the recipes call it:
on what a column shows. `rotate_all` runs in a thread of one of the workers
(`host`); the other two are scripts, in a process of their own. `SwitchKey` is the
demo's `switch_key`, which changes a setting of the whole process, and so the
`loopConf` of a `rotate_all` that runs in it. It may come between two iterations
and in the middle of one: each attribute is rotated in some settings the process
has had since the iteration began (`since`, `by`), and the save, which is the only
query of an iteration, takes the last. `swept`, `raced` and `actives` are history.

**Rotation** extends EncryptedTable by one process that rotates columns while
the workers go on. `rotate_keys` goes through the models of an application,
`rotate_model_fields` through the columns of one; the command repeats both loops.
`Scopes` holds the sequences of columns this comes to: those of one model, or of
one after the other, and once more for a proxy, which has the same table. The
loop over a column is modelled once: `Start`, `ReadBatch` (the query
and the loop over its rows), `WriteBatch` (the transaction), `NextColumn`, and
`ReadFails`/`WriteFails` where an exception ends the whole call. `RawValue` is
where the query's `values_list` applies `from_db_value`. `Crash` may come at
any time; `Start` begins again from the first row, possibly with other settings
(`rotConf`). `seen`, `steady` and `raced`
are history.

**FileStorage** is `BaseEncryptedStorage` over `FileSystemStorage`. An upload
asks for an available name, encrypts for it, creates the file exclusively or
asks for another name, writes, returns. Django's part is taken from how
`storage.py` calls it: `Storage.save` (names), `FileSystemStorage._save`
(exclusive creation, renaming on collision). A file with the state `partial`
stands for one not completely written; what can be read of it is never taken for
its content. A file is not deleted while it is written: nobody knows its name yet.

**Documents** composes FileStorage with the demo's table of documents: a row is
inserted after its file was saved, with the name that `save` returned, and
deleting a document leaves the file behind. `left` holds the names nobody refers
to, which a clean-up may delete with `storage.delete`; the repository has none, so
that `CleanUp` is an assumption about a careful one, and nothing shown of it is
said of the code.

**MCTable** defines rollouts, and initial rows: those the column wrote, those
written without AAD, and those that the README's backfill encrypts twice.

Operators whose comment begins with "Variant (fault)" are mutated forms of the
definition that follows them. Each property has at least one that breaks it.

## 3. Runs

| Config, module | Properties | Instance |
|---|---|---|
| KeyCacheOneId, MCKeyCache | `TypeOK`, `UsesConfiguredKey`, `LockReleased` (liveness) | 2 threads, 1 key id, 2 master keys |
| KeyCacheTwoIds, MCKeyCache | `UsesKeyOfItsId` | 2 threads, 2 key ids, 1 master key |
| Table, MCTable | `TypeOK`, `StrictOnceEncrypted`, `EveryRowReadable`, `StrictColumnsArePlain` (refinement) | 2 workers, 1 row, 2 columns, 4 settings |
| BlindIndex, MCBlindIndex | `IndexTypeOK`, `UniqueTexts`, `LookupFindsTexts`, `StrictColumnsArePlain` | 2 workers, 2 rows, 1 column with a pinned unique index, partial saves, workers whose active key is the pinned one or another |
| AdminSearch, MCBlindIndex | violates `AdminSearchFinds` | the same with one row, its key not pinned, no partial saves |
| Recipes, MCRecipes | `RecipeTypeOK`, `OldKeyNotNeeded`, `SweptRowsIndexed`, `DecryptGivesTexts`, `LookupFindsTexts`, `LoopKeepsTexts` (action property) | 1 worker, 1 loop, in the worker's process or another, switches of the active key, 2 rows, backfilled ones among them, an index that is not pinned |
| RotationScan, MCRotation | `RotTypeOK`, `EveryRowExaminedOnce`, `NoPlaintextStored`, `LastRowReached` (liveness), `RotationProgresses` (action property) | 3 rows, batches of 2, 1 strict column, 1 worker, rotations with a good or a malformed key |
| RotationValues, MCRotation | `RotationReencrypts` (action property) | 2 models with a column and a row each, one of them with a proxy, 2 workers |
| RotationCompletes, MCRotation | violates `RotationCompletes` | |
| RotationLostSave, MCRotation | violates `RotationKeepsTexts` | |
| Documents | `TypeOK`, `DocTypeOK`, `SavedFileKept`, `DocumentsKeepFiles`, `NoFileLost` (action property) | 2 uploads, 3 names, 3 contents, 2 documents |
| FileStorageCollision, FileStorage | violates `SavedFileOpens` | 2 uploads, 3 names, 3 contents |

**Why the bounds are enough.** A race over a cache entry needs the thread that
fills it and the one that clears it, either of which can be the one that uses it
next, and an old and a new master key. Key ids interact only when entries are
confused, which takes two. In the table rows do not interact, and neither do
columns except through an exception in one of them, so that one row with one
strict column and one that is not is enough for the values; two workers are
needed for a reader and a writer with different settings. A unique index relates
two rows, and so BlindIndex and Recipes have two. The scan of a
rotation depends on rows before, in and after a batch: three rows in batches of
two. RotationValues is about values, so that one row of each of two models is
enough; its scopes have the first model twice, with the other in between. Three
names let an upload collide and still be given a name that a third
party may delete. `MaxLayers` = 2 caps re-encryption, which could go on for
ever in a column that is not strict: one layer more than is right is where the
difference shows. Rows are interchangeable in
Recipes, which is why that run uses symmetry; it checks no liveness. The only text in
Recipes has a colon in it: that is what
`rotate_value` takes for a key id, and `rotate_all`, which asks `can_decrypt`
first, passes over it where the emergency rotation raises. What a save without the hash leaves behind (`PartialSaves`) is
in the BlindIndex run alone; the theorems about Recipes hold with and without such
saves. `LastRowReached` is `RowReached` for the last
of three rows: it is the one in front of which all others can be inserted and
deleted again and again. Rows after a row cannot delay it, and so the bound on
the primary keys cuts off nothing that matters to it. `MaxLag` bounds how far
workers are apart in a rollout: it is 1 in Table, where that is the hypothesis of
`EveryRowReadable`; elsewhere it is no restriction, so that in BlindIndex
workers meet rows they cannot decrypt. `CorrectedRollout` begins with a mistake in
the new key that is taken back.

**Fairness.** `KeyCache!FairSpec`: a thread in the middle of a call is scheduled
again (weak fairness of its steps); no call need be made and no setting need
change. `Acquire` is only weakly fair, as `threading.Lock` is not a queue;
`LockReleased` is about the holder, not about those who wait.
`Rotation!FairRotSpec`: the process that rotates is not starved. Workers,
deployments and crashes are never assumed to happen. That a rotation ends is not
claimed: with primary keys that grow, workers may insert rows after `last_pk` for
ever, and the `while True` of rotation.py:48 follows them. What the code does
guarantee is stated instead: a row that was there is reached (`RowReached`), and
each step leaves rows or a column behind (`RotationProgresses`), so that only new
rows can keep it going.

CHECK_DEADLOCK is never turned off: every system here can always take a step.

**What the violations show**

* `AdminSearchFinds`: `get_search_results` takes the rows with the hash from the
  queryset that the search of `search_fields` has already restricted, and so adds
  none to it (README.md:377).
* `RotationCompletes`: the values that rotation reads were decrypted by the field
  on the way, so that it skips them and "rotates" only rows that show a layer
  after one decryption (docs/configuration.md:60).
* `RotationKeepsTexts`: a save between the read and the write of a batch is lost.
* `SavedFileOpens`: after a collision the file has another name than the one in
  its AAD, and can never be opened again.

**Met while modelling, and not the subject of a run**

* The two documented `clear_cache` calls leave the hash cache alone, which
  nothing clears (docs/configuration.md:179).
* A column with `strict=False` stores plaintext when its key is missing or malformed,
  whatever docs/security.md:215 says of the database. `NoPlaintextStored` is checked
  where all columns are strict.
* The README's backfill encrypts a value and assigns it to an encrypted column, which
  encrypts it again; `BackfilledRows` starts from its result. The recipes handle
  such rows, rotation takes one layer off.
* A read error in one row ends a rotation for all rows after it, and a loop does not
  start; an error while saving ends both for the rows left. What was saved before
  stays.
* The README's recomputation may raise `IntegrityError` half-way: while some rows have
  the new hash and some the old one, a worker can store a text that another row has.
* `EncryptedJSONField.to_python` parses every `str` it is given, also a value that
  is a JSON string, so that `full_clean` may change its type (fields.py:259).
* A save that names the source in `update_fields` and not the hash leaves a row
  that lookups miss, until it is saved whole.
* The documented lookup, `compute_hash(x)` (README.md:188, docs/security.md:240), uses
  the active key, and the receiver that of the field's `key_id`: after the active
  key changed, lookups on a pinned index find nothing unless they pass `key_id`
  too. Recomputing the hashes, which docs/security.md asks for, does not help, as the
  receiver hashes with the pinned key again. `LookupFindsTexts` says exactly this.
* The recomputation gives a row that was saved since it was loaded the hash of its
  old text, and the demo's `rotate_all` overwrites saves made since it loaded, and
  inserts deleted rows again.
* `rotate_all` reports that all profiles were rotated to the key that was active when
  the request came in, although a `switch_key` in the same process meanwhile makes
  it write under another (views.py:130, 157).
* docs/configuration.md:30 says that the highest sorted key id is used if
  `DATA_PROTECTION_ACTIVE_KEY_ID` is not set; `_get_active_key_id` raises
  `ConfigurationError` (conf.py:59).
* README.md:403 says that `rotate_value` returns None for a value that is already under
  the active key; it returns the value (encryption.py:156).

## 4. Proofs

All for any values of the constants that satisfy the named assumptions of the
modules (`SentinelAssumption`, `CipherAssumption`, `TableAssumption`, `IndexAssumption`,
`RecipeAssumption`, `RotationAssumption`, `FileAssumption`), which state that sentinels are not ordinary values and that the
constants have their types.

**KeyCacheProofs** proves `TypeOK`, `UsesConfiguredKey` and `UsesKeyOfItsId`. The
last two are not inductive. The strengthening says that exactly the thread
between `Acquire` and its release holds the lock (`LockInv`), that an entry of a
cleared cache is of the configured key and so is the one a thread is about to
store (`CleanCacheInv`: this is what fails when `clear_cache` does not
take the lock), that `fresh` means what it says, and that every master key on its
way to a use was configured for its key id (`KnownInv`).

**EncryptedTableProofs** proves `TypeOK`, and for strict columns, if the rows from
before were encrypted once (`OwnInitialRows`), `StrictOnceEncrypted` and the
refinement `StrictColumnsArePlain`. The missing half of the induction is
`InstancesShowTexts`: attributes of strict columns are never ciphertext, so
that saving them adds exactly one layer. It needs that reading a value encrypted
once yields its text or raises (`ReadStrict`), that writing a text encrypts it
once or raises (`WriteStrict`), and that `full_clean` lets no text of a strict
column pass (`CleanStrict`). Nothing is assumed about the settings, about who is
ahead of whom, or about `key_id` and `enforce_aad`. The refinement is proved
action by action; `FullClean` is a stutter, `Redeploy` implements `Forget`.

**RolloutProofs** proves `EveryRowReadable` for any sequence of settings in which the
key for new values has the same master key in all later settings, and in those
earlier ones that a worker may still run with (`Staged`), if the rows from before
were encrypted at most once and can be read throughout (`ReadableBefore`). The
invariant (`RolloutInv`) looks ahead: what a row holds is readable not only in a
worker's settings but in all it will be redeployed with (`ReadableFrom`), workers are
at most `MaxLag` apart, and instances show texts. Settings that are no
mistake only because nothing can be encrypted with them, such as the malformed key
in `CorrectedRollout`, satisfy `Staged`.

**RotationProofs** proves `RotTypeOK`, `EveryRowExaminedOnce`, `NoPlaintextStored` and the
action properties `RotationProgresses` and `RotationReencrypts`. The scan needs that everything counted is
at or before `last_pk`, that steady rows up to there were counted (`Scanned`), and
that a batch is disjoint from what was counted before, so that cardinalities add up.
`RotationProgresses` follows from the types in this invariant: the new `last_pk` is
one of the rows that were ahead, and is not ahead of itself.
`NoPlaintextStored` is for strict columns only (`OnlyStrict`); it fails for others.
`RotationReencrypts` needs the gap between the two steps of a batch: of a row that is
not `raced`, the pending update is still what reading it now would give (`Pending`),
and no None is ever encrypted (`NullsBare`), or a batch could write None in place of
a ciphertext. Its hypotheses are that a process that rotates can encrypt for
columns that are not strict (`KeysForRotation`: with a malformed active key such
a column would be written in the clear), and that `NullsBare` held before.
For rows that only the column has written (`OwnInitialRows`), it proves more of
strict columns: what the query returns of them is a text, so that nothing is ever
due (`StrictScanInv`), no step of a rotation changes one
(`RotationSkipsStrictColumns`: the violation of `RotationCompletes` is no
accident of its instance), they stay encrypted once, and the table refines
PlainTable while it is rotated, a rotation being nothing but stutters.

**FileStorageProofs** proves `TypeOK`, `SavedFileKept` and `NoFileLost`, from the
invariant that a file created by an upload holds what that upload wrote
(`OwnFile`), that no two write to the same (`OneWriter`), and that content is
bound to the name `_save` was given (`BoundToGiven`).

**BlindIndexProofs** proves `IndexTypeOK` and `LookupFindsTexts` for an index over a strict
column whose key is pinned or follows the active one, whatever settings the
workers run with and whatever saves leave the hash behind; `UniqueTexts` only where
it is pinned (`Pinned`), as equal texts have different hashes under different keys. The
hypotheses (`IndexedStrictly`) are that a key the index hashes with has the same
master key wherever it can be used, and can be used in the first settings
(`IndexKeysKept`), that the rows from before could be read and hashed
(`IndexableRows`) and were encrypted once. The
properties are not inductive by themselves: the invariant (`IndexInv`) says that the hash of
every row that is not `outdated` is one of its text under a key of some settings
(`IsHashOf`), that no two rows share a hash, and contains the invariant of EncryptedTableProofs, without which an
instance could show ciphertext and its hash would be that of ciphertext. Each
step is one of EncryptedTable (`StepsOfTable`), so that this part is not
proved again, and neither is the refinement of PlainTable (`IndexedTableIsPlain`),
which needs no more than `OwnInitialRows`.

**RecipesProofs** proves all six properties of the Recipes run, and two more that
earlier modules prove without a loop. `RecipeInv` adds to the types that the
process of a loop has some of the deployed settings, those of its host if it has
one, that `since` contains them and that their keys, other than the active id,
never change under a loop: a switch changes nothing else. `actives` has all their
active ids. `LoadInv` is what the loop knows of a row
it has left: if nobody wrote it since, it is still there and shows what was
loaded.

| Theorem | Invariant | Hypotheses |
|---|---|---|
| `RecipeTypeCorrect` | `RecipeInv` | none |
| `LoopsKeepTexts` | `LoadInv` | all columns are strict |
| `SweptRowsAreIndexed` | `SweptInv` | the indexed column is strict |
| `DecryptionGivesTexts` | `LayerInv` | `KeysKept`, `LegibleBefore` |
| `OldKeysNotNeeded` | `KeyInv` | the same, and `Unpinned` |
| `LoopsEncryptOnce` | `StrictLoopInv` | `OwnInitialRows` |
| `LookupsFindBesideLoops` | `IndexLoopInv` | `IndexedStrictly` |
| `LoopsKeepTextsUnique` | `IndexLoopInv` | the same, and `Pinned` |

The hypotheses are what the code needs. A column that is not strict hands
ciphertext through to the loop, which then saves a layer more, and stores a text in
the clear if the key is malformed; its hash would be that of what it could not
decrypt. `KeysKept` says that a key that can be used is the same in
all settings: a loop and the workers have settings of their own. Under it `LayerInv` describes every value as a text, possibly encrypted
without AAD before it was assigned (`Legible`: that is what the README's backfill
does), and possibly encrypted by its column (`LegibleIn`), each layer under a
key that all settings have. `LegibleBefore` is this invariant of the rows from
before, backfilled rows included. A column with `key_id=` is written under its pin and not under the
active key, whence `Unpinned`. `LoopsEncryptOnce` excludes backfilled rows: of
those strict columns hold two layers from the start. That a recomputation
may save the hash of a text that a worker has replaced meanwhile does not
contradict `LookupsFindBesideLoops`: such a row is `outdated` from then on. `Recipes.cfg` satisfies
the hypotheses of the first five, and TLC checked the invariants there before
they were proved; those of the last three on the same instance with
`OwnRows`, its index pinned and not.

**DocumentsProofs** proves that every behaviour of Documents is one of FileStorage
(`DocumentsUseStorage`), and from it `DocTypeOK` and `DocumentsKeepFiles`. Missing
for the induction are that a name has one owner, be it a document, an upload
that has created the file, or the list of files left behind (`OneOwner`), that an
upload on its way to the INSERT holds the content it was sent (`Sends`), and
that the file of a document is complete and holds what was uploaded (`Belongs`).

Only model-checked: liveness (`LockReleased`, `LastRowReached`), which is beyond the
prover. Everything else that a passing run checks is also a theorem. The
violations are found by TLC, and are no subject of a proof except for the part of
`RotationCompletes` named above. `StrictColumnsArePlain` is not stated of
Recipes: a loop that saves what it loaded over a later save is no operation of
a plain table by any of its workers.

## 5. Not modelled, and the plan

Planned: the JSON layer of `EncryptedJSONField` in Cipher (`to_python` parses every
`str`), and the file header (length byte of the key id, minimal length) as pure
operators, with lemmas that say what each of them returns.

Not planned: models that inherit from others (the receiver of a BlindIndexField is
connected for the class that declares it, fields.py:324), and the limit of
`max_file_size` in bytes.

Left out for good: cryptography (AES-GCM is taken to accept exactly what was made
with the same key and AAD), nonces and their collisions, display code of the admin,
`deconstruct` and lookups, `generate_encryption_key`, and storage backends other
than the file system.
