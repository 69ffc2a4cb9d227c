------------------------------ MODULE Rotation ------------------------------
(***************************************************************************)
(* rotate_keys and rotate_model_fields of rotation.py, and the management  *)
(* command that repeats them, running beside the workers of                *)
(* EncryptedTable.                                                         *)
(*                                                                         *)
(* A batch is read by one query and written by one transaction; between    *)
(* the two the workers go on.  What the query returns has passed through   *)
(* the column's from_db_value, and what the transaction writes passes      *)
(* through its get_prep_value.                                             *)
(***************************************************************************)
EXTENDS EncryptedTable, FiniteSets

CONSTANTS
  Scopes,      \* what is rotated: columns of one model, or of one model after
               \* the other, and again of a proxy
  BatchSize,   \* batch_size
  RotConfs     \* settings that a process that rotates may run with

ASSUME RotationAssumption ==
  /\ Pks \subseteq Nat /\ IsFiniteSet(Pks)
  /\ Scopes \subseteq Seq(Columns)
  /\ BatchSize \in Nat \ {0}
  /\ RotConfs \subseteq Config

VARIABLES
  rotConf,  \* the settings of the process that rotates
  phase,    \* "idle", "read", "write", "done", or "failed": it raised
  todo,     \* the columns left; the first is being rotated
  dryRun,   \* dry_run
  cursor,   \* last_pk: the last primary key read, or NoPk
  updates,  \* primary key |-> decrypted value, read but not yet written
  rotated, skipped,  \* the counts of this column
  seen,     \* history: the primary keys read for this column
  steady,   \* history: those whose row was there since the scan of it began
  raced     \* history: the rows workers wrote since the batch was read

scan    == <<todo, dryRun, cursor, updates, rotated, skipped, seen>>
rotVars == <<rotConf, phase, scan, steady, raced>>
allVars == <<vars, rotVars>>

Phases == {"idle", "read", "write", "done", "failed"}

RotTypeOK ==
  /\ rotConf \in RotConfs
  /\ phase \in Phases
  /\ todo \in Seq(Columns)
  /\ dryRun \in BOOLEAN
  /\ cursor \in Pks \cup {NoPk}
  /\ DOMAIN updates \subseteq Pks /\ \A p \in DOMAIN updates : updates[p] \in Value
  /\ rotated \in Nat /\ skipped \in Nat
  /\ seen \subseteq Pks /\ steady \subseteq Pks /\ raced \subseteq Pks

RotInit ==
  /\ Init
  /\ rotConf \in RotConfs
  /\ phase = "idle" /\ todo = <<>> /\ dryRun = FALSE
  /\ cursor = NoPk /\ updates = <<>> /\ rotated = 0 /\ skipped = 0
  /\ seen = {} /\ steady = {} /\ raced = {}

fieldName == Head(todo)

\* model.objects.all(), for the model a column belongs to.
RowsOf(col) == {p \in present : col \in FieldsOf[p]}

-----------------------------------------------------------------------------
\* _should_rotate_value: a separator, another key id than the active one in
\* front of it, and FieldEncryptor.decrypt, called without AAD, succeeds.
ShouldRotate(v) ==
  /\ v # NullValue
  /\ Prefix(v) \notin {NoSeparator, rotConf.active}
  /\ Opens(rotConf, v, NoAad)

\* Variant (fault): last_pk starts at 0, which a primary key can be.
StartColumnAtZero(fields) ==
  /\ todo' = fields
  /\ phase' = IF fields = <<>> THEN "done" ELSE "read"
  /\ cursor' = 0 /\ updates' = <<>> /\ rotated' = 0 /\ skipped' = 0
  /\ seen' = {} /\ steady' = RowsOf(Head(fields)) /\ raced' = {}

\* Each column starts from the first row.
StartColumn(fields) ==
  /\ todo' = fields
  /\ phase' = IF fields = <<>> THEN "done" ELSE "read"
  /\ cursor' = NoPk /\ updates' = <<>> /\ rotated' = 0 /\ skipped' = 0
  /\ seen' = {} /\ raced' = {}
  /\ steady' = IF fields = <<>> THEN {} ELSE RowsOf(Head(fields))

\* An exception, or the death of the process, takes the locals with it.
Abandon(l) ==
  /\ phase' = l
  /\ todo' = <<>> /\ dryRun' = FALSE
  /\ cursor' = NoPk /\ updates' = <<>> /\ rotated' = 0 /\ skipped' = 0
  /\ seen' = {} /\ steady' = {} /\ raced' = {}
  /\ UNCHANGED <<vars, rotConf>>

\* A process is started with the settings c.  Without an active key id or any
\* key the call raises, or the command prints an error, and nothing is done.
Configured(c) == c.active # NoKey /\ \E k \in KeyIds : c.keys[k] # Absent
Start(c, fields, dry) ==
  /\ phase \in {"idle", "done", "failed"}
  /\ Configured(c)
  /\ rotConf' = c
  /\ StartColumn(fields)
  /\ dryRun' = dry
  /\ UNCHANGED vars

\* model.objects.all().order_by('pk').filter(pk__gt=last_pk)[:batch_size]
Ahead == {p \in RowsOf(fieldName) : cursor = NoPk \/ p > cursor}
\* Variant (fault): no order_by('pk').
IsBatchUnordered(B) ==
  /\ B # {} /\ Cardinality(B) <= BatchSize
  /\ Cardinality(B) = BatchSize \/ B = Ahead
IsBatch(B) ==
  /\ B # {} /\ Cardinality(B) <= BatchSize
  /\ \A p \in B, q \in Ahead \ B : p < q
  /\ Cardinality(B) = BatchSize \/ B = Ahead

\* last_pk after the batch B.
\* Variant (fault): it moves on only as far as there was something to rotate.
MoveOnDue(B, due) ==
  cursor' \in due \cup {cursor} /\ (due # {} => cursor' \in due /\ \A p \in due : p <= cursor')
MoveOn(B, due) == cursor' \in B /\ \A p \in B : p <= cursor'

\* The raw_value of a row: what values_list returns of it.
RawValue(p) == Read(rotConf, fieldName, row[p][fieldName])

ReadBatch ==
  /\ phase = "read"
  /\ \E B \in SUBSET Ahead :
       /\ IsBatch(B)
       /\ \A p \in B : ~ReadRaises(rotConf, fieldName, row[p][fieldName])
       /\ LET due == {p \in B : ShouldRotate(RawValue(p))} IN
            /\ updates' = [p \in due |-> Peel(RawValue(p))]
            /\ rotated' = rotated + Cardinality(due)
            /\ skipped' = skipped + Cardinality(B \ due)
            /\ phase' = IF due # {} /\ ~dryRun THEN "write" ELSE "read"
            /\ MoveOn(B, due)
       /\ seen' = seen \cup B
  /\ raced' = {}
  /\ UNCHANGED <<vars, rotConf, todo, dryRun, steady>>

\* One row a strict column cannot decrypt ends the whole rotation.
ReadFails ==
  /\ phase = "read"
  /\ \E B \in SUBSET Ahead : IsBatch(B) /\ \E p \in B : ReadRaises(rotConf, fieldName, row[p][fieldName])
  /\ Abandon("failed")

\* The transaction: bulk_update of the rows that are still there.
WriteBatch ==
  /\ phase = "write"
  /\ \A p \in DOMAIN updates : ~WriteRaises(rotConf, fieldName, updates[p])
  /\ row' = [p \in Pks |-> IF p \in present \cap DOMAIN updates
                           THEN [row[p] EXCEPT ![fieldName] = Write(rotConf, fieldName, updates[p])]
                           ELSE row[p]]
  /\ phase' = "read"
  /\ UNCHANGED <<present, holding, inst, stage, rotConf, scan, steady, raced>>

\* Variant (fault): the error is caught and the batch tried again.
WriteFailsRetried ==
  /\ phase = "write"
  /\ \E p \in DOMAIN updates : WriteRaises(rotConf, fieldName, updates[p])
  /\ UNCHANGED allVars
WriteFails ==
  /\ phase = "write"
  /\ \E p \in DOMAIN updates : WriteRaises(rotConf, fieldName, updates[p])
  /\ Abandon("failed")

\* No more rows: the next column, of this or the next model, or the end.
NextColumn ==
  /\ phase = "read"
  /\ Ahead = {}
  /\ StartColumn(Tail(todo))
  /\ UNCHANGED <<vars, rotConf, dryRun>>

\* The process dies; the batches that were committed stay.
Crash ==
  /\ phase \in {"read", "write"}
  /\ Abandon("idle")

\* A worker's step, as the histories see it.
WorkerStep ==
  /\ Next
  /\ steady' = steady \cap present'
  /\ raced' = IF phase = "write" THEN raced \cup {p \in Pks : row'[p] # row[p]} ELSE raced
  /\ UNCHANGED <<rotConf, phase, scan>>

-----------------------------------------------------------------------------
Rotate  == ReadBatch \/ ReadFails \/ WriteBatch \/ WriteFails \/ NextColumn
Begin   == \E c \in RotConfs, fields \in Scopes, dry \in BOOLEAN : Start(c, fields, dry)
RotNext == WorkerStep \/ Rotate \/ Crash \/ Begin

RotSpec == RotInit /\ [][RotNext]_allVars

\* The process that rotates is not starved by the workers.
FairRotSpec == RotSpec /\ WF_allVars(Rotate)

-----------------------------------------------------------------------------
(* Properties.                                                             *)

\* The scan by primary key misses no row that was there all along and counts
\* no row twice, whatever rows come and go while it runs.
EveryRowExaminedOnce ==
  phase \in {"read", "write"} =>
    /\ \A p \in steady : p \in seen \/ p \in Ahead
    /\ rotated + skipped = Cardinality(seen)

\* What rotation writes over a row no worker has written since it was read is
\* the text that stood there, under the key for new values, readable, and with
\* no more layers than before.  A dry run writes nothing.
RotationReencrypts ==
  [][WriteBatch =>
       /\ ~dryRun
       /\ \A p \in present \ raced : row'[p] # row[p] =>
            LET old == row[p][fieldName]   new == row'[p][fieldName] IN
            /\ row'[p] = [row[p] EXCEPT ![fieldName] = new]
            /\ new.text = old.text /\ Len(new.layers) <= Len(old.layers)
            /\ Prefix(new) = WriteKey(rotConf, fieldName) /\ Unlocks(rotConf, fieldName, new)]_allVars

Running == phase \in {"read", "write"}

\* A row that a rotation has ahead of it is reached, unless it is deleted or the
\* rotation fails or dies, however many rows workers insert meanwhile: only those
\* with a smaller primary key can delay it.  That the rotation ends is more than the
\* code promises: it need not while rows are inserted behind the last one for ever.
RowReached(p) == Running /\ p \in Ahead ~> p \in seen \/ p \notin present \/ ~Running

\* The loop of rotation.py does not spin: each step of it ends it, leaves a column
\* behind or leaves fewer rows ahead, but for the write that follows such a step, so
\* that it ends once workers insert fewer rows ahead of it than it reads.
RotationProgresses ==
  [][Rotate => \/ ~Running'
               \/ Len(todo') < Len(todo)
               \/ todo' = todo /\ Ahead' \subseteq Ahead /\ Ahead' # Ahead
               \/ todo' = todo /\ Ahead' = Ahead /\ phase = "write" /\ phase' = "read"]_allVars

\* docs/configuration.md: "Re-encrypt all existing data with the active key".
\* After a rotation, with no key pinned, every encrypted value is under it.
RotationCompletes ==
  (phase = "done" /\ ~dryRun) =>
     \A p \in present, f \in Columns :
        row[p][f].layers # <<>> => Prefix(row[p][f]) = rotConf.active

\* docs/configuration.md: "Re-encrypt all existing data".  Rotation changes the
\* key and never the text of a row.
RotationKeepsTexts ==
  [][WriteBatch => \A p \in Pks, f \in Columns : row'[p][f].text = row[p][f].text]_allVars
=============================================================================
