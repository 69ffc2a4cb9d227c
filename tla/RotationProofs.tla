--------------------------- MODULE RotationProofs ---------------------------
(* Rotation for any number of workers, rows, columns and models, any batch *)
(* size and any settings: what its runs check on three rows, or on one row *)
(* of each of two models.                                                  *)
EXTENDS Rotation, EncryptedTableProofs, FiniteSetTheorems

\* The scan has gone through the rows up to last_pk, and through no others.
Scanned ==
  Running =>
    /\ todo # <<>>
    /\ steady \subseteq RowsOf(fieldName)
    /\ cursor = NoPk => seen = {}
    /\ cursor # NoPk =>
         /\ \A p \in seen : p <= cursor
         /\ \A p \in steady : p <= cursor => p \in seen
    /\ rotated + skipped = Cardinality(seen)

ScanInv == TypeOK /\ RotTypeOK /\ Scanned

-----------------------------------------------------------------------------
(* Types, and the scan.                                                    *)

LEMMA FiniteRows == ASSUME NEW S \in SUBSET Pks PROVE IsFiniteSet(S) /\ Cardinality(S) \in Nat
BY RotationAssumption, FS_Subset, FS_CardinalityType

LEMMA DisjointUnion ==
  ASSUME NEW S, NEW T, IsFiniteSet(S), IsFiniteSet(T), S \cap T = {}
  PROVE  Cardinality(S \cup T) = Cardinality(S) + Cardinality(T)
<1>1. Cardinality(S \cap T) = 0
  BY FS_EmptySet
<1>2. Cardinality(S) \in Nat /\ Cardinality(T) \in Nat
  BY FS_CardinalityType
<1>3. Cardinality(S \cup T) = Cardinality(S) + Cardinality(T) - Cardinality(S \cap T)
  BY FS_Union
<1> QED  BY <1>1, <1>2, <1>3

\* A rotation without locals.
LEMMA NoLocals ==
  ASSUME NEW u, u = <<>>
  PROVE  u \in Seq(Columns) /\ DOMAIN u \subseteq Pks /\ \A p \in DOMAIN u : u[p] \in Value
<1>1. DOMAIN u = {}
  <2>1. Len(u) = 0 /\ u \in Seq(Columns)
    OBVIOUS
  <2> QED  BY <2>1, LenProperties
<1> QED  BY <1>1

LEMMA ScanInit == RotInit => ScanInv
<1> SUFFICES ASSUME RotInit PROVE ScanInv
  OBVIOUS
<1>1. TypeOK
  BY TypeInit DEF RotInit
<1>2. RotTypeOK
  BY NoLocals DEF RotInit, RotTypeOK, Phases
<1>3. Scanned
  BY DEF RotInit, Scanned, Running
<1> QED  BY <1>1, <1>2, <1>3 DEF ScanInv

\* Each column is scanned from the first row.
LEMMA StartColumnScans ==
  ASSUME TypeOK, NEW fields \in Seq(Columns), StartColumn(fields), UNCHANGED vars,
         rotConf' \in RotConfs, dryRun' \in BOOLEAN
  PROVE  ScanInv'
<1>1. TypeOK' /\ present' = present
  BY DEF TypeOK, vars
<1>2. fields # <<>> => RowsOf(Head(fields)) \subseteq Pks
  BY DEF RowsOf, TypeOK
<1>3. RotTypeOK'
  BY <1>2 DEF StartColumn, RotTypeOK, Phases
<1>4. Scanned'
  BY <1>1, FS_EmptySet DEF StartColumn, Scanned, Running, RowsOf, fieldName
<1> QED  BY <1>1, <1>3, <1>4 DEF ScanInv

LEMMA AbandonScans ==
  ASSUME ScanInv, NEW l \in {"idle", "failed"}, Abandon(l)
  PROVE  ScanInv'
<1>1. TypeOK'
  BY DEF ScanInv, Abandon, TypeOK, vars
<1>2. RotTypeOK'
  BY NoLocals DEF ScanInv, Abandon, RotTypeOK, Phases
<1>3. Scanned'
  BY DEF Abandon, Scanned, Running
<1> QED  BY <1>1, <1>2, <1>3 DEF ScanInv

LEMMA ReadBatchScans == ASSUME ScanInv, ReadBatch PROVE ScanInv'
<1> USE DEF ScanInv
<1>1. PICK B \in SUBSET Ahead :
        LET due == {p \in B : ShouldRotate(RawValue(p))} IN
        /\ IsBatch(B)
        /\ updates' = [p \in due |-> Peel(RawValue(p))]
        /\ rotated' = rotated + Cardinality(due)
        /\ skipped' = skipped + Cardinality(B \ due)
        /\ phase' = IF due # {} /\ ~dryRun THEN "write" ELSE "read"
        /\ cursor' \in B /\ \A p \in B : p <= cursor'
        /\ seen' = seen \cup B
  BY DEF ReadBatch, MoveOn
<1> DEFINE due == {p \in B : ShouldRotate(RawValue(p))}
<1>2. /\ phase = "read" /\ Running /\ todo # <<>>
      /\ raced' = {} /\ todo' = todo /\ steady' = steady /\ dryRun' = dryRun /\ rotConf' = rotConf
      /\ UNCHANGED vars
  BY DEF ReadBatch, Scanned, Running
<1>3. TypeOK'
  BY <1>2 DEF TypeOK, vars
<1>4. B \subseteq Pks /\ Pks \subseteq Nat /\ NoPk \notin Pks
  BY RotationAssumption, TableAssumption DEF Ahead, RowsOf, TypeOK
<1>5. /\ IsFiniteSet(due) /\ Cardinality(due) \in Nat
      /\ IsFiniteSet(B \ due) /\ Cardinality(B \ due) \in Nat
      /\ IsFiniteSet(B) /\ IsFiniteSet(seen)
  BY <1>4, FiniteRows DEF RotTypeOK
<1>6. fieldName \in Columns /\ fieldName' = fieldName
  BY <1>2 DEF RotTypeOK, fieldName
<1>7. \A p \in due : Peel(RawValue(p)) \in Value
  <2> SUFFICES ASSUME NEW p \in due PROVE Peel(RawValue(p)) \in Value
    OBVIOUS
  <2>1. rotConf \in Config /\ row[p][fieldName] \in Value
    BY <1>4, <1>6, RotationAssumption DEF RotTypeOK, TypeOK
  <2>2. RawValue(p) \in Value
    BY <2>1, <1>6, ReadType DEF RawValue
  <2>3. RawValue(p).layers # <<>>
    BY DEF ShouldRotate, Opens
  <2> QED  BY <2>2, <2>3, PeelType
<1>8. RotTypeOK'
  <2>1. DOMAIN updates' \subseteq Pks /\ \A p \in DOMAIN updates' : updates'[p] \in Value
    BY <1>1, <1>4, <1>7
  <2>2. rotated' \in Nat /\ skipped' \in Nat
    BY <1>1, <1>5 DEF RotTypeOK
  <2>3. phase' \in Phases
    BY <1>1 DEF Phases
  <2>4. cursor' \in Pks /\ seen' \subseteq Pks
    BY <1>1, <1>4 DEF RotTypeOK
  <2> QED  BY <1>2, <2>1, <2>2, <2>3, <2>4 DEF RotTypeOK
<1>9. Scanned'
  <2>1. todo' # <<>> /\ steady' \subseteq RowsOf(fieldName)'
    BY <1>2, <1>6 DEF Scanned, RowsOf, vars
  <2>2. cursor' \in Nat /\ cursor' # NoPk
    BY <1>1, <1>4
  <2>3. \A p \in B : p \in Nat /\ (cursor # NoPk => cursor \in Nat /\ p > cursor)
    BY <1>1, <1>4 DEF Ahead, RotTypeOK
  <2>4. \A p \in seen' : p <= cursor'
    <3> SUFFICES ASSUME NEW p \in seen, p \notin B PROVE p <= cursor'
      BY <1>1
    <3>1. cursor # NoPk /\ p <= cursor /\ p \in Nat
      BY <1>2, <1>4 DEF Scanned, RotTypeOK
    <3> QED  BY <1>1, <2>2, <2>3, <3>1
  <2>5. \A p \in steady' : p <= cursor' => p \in seen'
    <3> SUFFICES ASSUME NEW p \in steady, p <= cursor', p \notin B PROVE p \in seen
      BY <1>1, <1>2
    <3>1. p \in RowsOf(fieldName) /\ p \in Nat
      BY <1>2, <1>4 DEF Scanned, RotTypeOK
    <3>2. p \notin Ahead
      BY <1>1, <2>2, <3>1 DEF IsBatch
    <3>3. cursor # NoPk /\ cursor \in Nat /\ ~(p > cursor)
      BY <1>4, <3>1, <3>2 DEF Ahead, RotTypeOK
    <3> QED  BY <1>2, <3>1, <3>3 DEF Scanned
  <2>6. rotated' + skipped' = Cardinality(seen')
    <3>1. seen \cap B = {}
      <4> SUFFICES ASSUME NEW p \in seen, p \in B PROVE FALSE
        OBVIOUS
      <4>1. cursor # NoPk /\ p <= cursor
        BY <1>2 DEF Scanned
      <4> QED  BY <2>3, <4>1
    <3>2. Cardinality(seen \cup B) = Cardinality(seen) + Cardinality(B)
      BY <1>5, <3>1, DisjointUnion
    <3>3. due \cap (B \ due) = {} /\ B = due \cup (B \ due)
      OBVIOUS
    <3>4. Cardinality(B) = Cardinality(due) + Cardinality(B \ due)
      BY <1>5, <3>3, DisjointUnion
    <3>5. Cardinality(seen) = rotated + skipped /\ rotated \in Nat /\ skipped \in Nat
      BY <1>2 DEF Scanned, RotTypeOK
    <3> HIDE DEF due
    <3>6. rotated' = rotated + Cardinality(due) /\ skipped' = skipped + Cardinality(B \ due)
      BY <1>1 DEF due
    <3> QED  BY <1>1, <1>5, <3>2, <3>4, <3>5, <3>6
  <2> QED  BY <2>1, <2>2, <2>4, <2>5, <2>6 DEF Scanned
<1> QED  BY <1>3, <1>8, <1>9

LEMMA WriteBatchType ==
  ASSUME TypeOK, RotTypeOK, todo # <<>>, WriteBatch
  PROVE  TypeOK'
<1>1. rotConf \in Config /\ fieldName \in Columns
  BY RotationAssumption DEF RotTypeOK, fieldName
<1>2. \A p \in DOMAIN updates : Write(rotConf, fieldName, updates[p]) \in Value
  BY <1>1, WriteType DEF RotTypeOK
<1>3. row' \in [Pks -> [Columns -> Value]]
  BY <1>2 DEF WriteBatch, TypeOK
<1> QED  BY <1>3 DEF WriteBatch, TypeOK

LEMMA ScanNext == ScanInv /\ [RotNext]_allVars => ScanInv'
<1> SUFFICES ASSUME ScanInv, [RotNext]_allVars PROVE ScanInv'
  OBVIOUS
<1> USE DEF ScanInv
<1>1. CASE WorkerStep
  <2>1. TypeOK'
    BY <1>1, TypeNext DEF WorkerStep
  <2>2. present' \subseteq Pks
    BY <2>1 DEF TypeOK
  <2>3. RotTypeOK'
    <3>1. steady' \subseteq Pks /\ raced' \subseteq Pks
      BY <1>1 DEF WorkerStep, RotTypeOK
    <3> QED  BY <1>1, <3>1 DEF WorkerStep, scan, RotTypeOK
  <2>4. Scanned'
    BY <1>1 DEF WorkerStep, scan, Scanned, Running, RowsOf, fieldName
  <2> QED  BY <2>1, <2>3, <2>4
<1>2. CASE ReadBatch
  BY <1>2, ReadBatchScans
<1>3. CASE WriteBatch
  <2>1. todo # <<>> /\ TypeOK'
    BY <1>3, WriteBatchType DEF WriteBatch, Scanned, Running
  <2>2. RotTypeOK'
    BY <1>3 DEF WriteBatch, scan, RotTypeOK, Phases
  <2>3. Scanned'
    BY <1>3 DEF WriteBatch, scan, Scanned, Running, RowsOf, fieldName
  <2> QED  BY <2>1, <2>2, <2>3
<1>4. CASE ReadFails \/ WriteFails \/ Crash
  BY <1>4, AbandonScans DEF ReadFails, WriteFails, Crash
<1>5. CASE NextColumn
  <2>1. todo # <<>> /\ todo \in Seq(Columns)
    BY <1>5 DEF NextColumn, Scanned, Running, RotTypeOK
  <2>2. Tail(todo) \in Seq(Columns)
    BY <2>1
  <2> QED  BY <1>5, <2>2, StartColumnScans DEF NextColumn, RotTypeOK
<1>6. CASE Begin
  <2>1. PICK c \in RotConfs, fields \in Scopes, dry \in BOOLEAN : Start(c, fields, dry)
    BY <1>6 DEF Begin
  <2>2. fields \in Seq(Columns)
    BY RotationAssumption
  <2> QED  BY <2>1, <2>2, StartColumnScans DEF Start
<1>7. CASE UNCHANGED allVars
  <2>1. TypeOK'
    BY <1>7 DEF allVars, vars, TypeOK
  <2> QED  BY <1>7, <2>1 DEF allVars, vars, rotVars, scan, RotTypeOK, Scanned, Running, RowsOf, fieldName
<1> QED  BY <1>1, <1>2, <1>3, <1>4, <1>5, <1>6, <1>7 DEF RotNext, Rotate

\* Every variable of the rotation keeps its type, beside any workers and on any
\* number of models.
THEOREM RotationTypeCorrect == RotSpec => []RotTypeOK
<1>1. ScanInv => RotTypeOK
  BY DEF ScanInv
<1> QED  BY <1>1, ScanInit, ScanNext, PTL DEF RotSpec

\* A scan in batches of any size misses no row that was there since it began,
\* and counts none twice, whatever rows workers insert and delete meanwhile.
THEOREM RowsExaminedOnce == RotSpec => []EveryRowExaminedOnce
<1>1. ScanInv => EveryRowExaminedOnce
  <2> SUFFICES ASSUME ScanInv, Running PROVE EveryRowExaminedOnce
    BY DEF EveryRowExaminedOnce, Running
  <2>1. \A p \in steady : p \in seen \/ p \in Ahead
    <3> SUFFICES ASSUME NEW p \in steady, p \notin seen PROVE p \in Ahead
      OBVIOUS
    <3>1. p \in RowsOf(fieldName) /\ (cursor = NoPk \/ ~(p <= cursor))
      BY DEF ScanInv, Scanned
    <3>2. p \in Nat /\ (cursor = NoPk \/ cursor \in Nat)
      BY RotationAssumption DEF ScanInv, RotTypeOK
    <3> QED  BY <3>1, <3>2 DEF Ahead
  <2> QED  BY <2>1 DEF ScanInv, Scanned, EveryRowExaminedOnce
<1> QED  BY <1>1, ScanInit, ScanNext, PTL DEF RotSpec

\* A step of a rotation reads rows it leaves behind, leaves a column behind, writes
\* what it has read or ends it, with batches of any size, over tables of any size and
\* whatever workers insert and delete: the loop does not spin.
THEOREM RotationAlwaysProgresses == RotSpec => RotationProgresses
<1> DEFINE Progress ==
      Rotate => \/ ~Running'
                \/ Len(todo') < Len(todo)
                \/ todo' = todo /\ Ahead' \subseteq Ahead /\ Ahead' # Ahead
                \/ todo' = todo /\ Ahead' = Ahead /\ phase = "write" /\ phase' = "read"
<1>1. ScanInv => Progress
  <2> SUFFICES ASSUME ScanInv, Rotate, Running' PROVE Progress
    OBVIOUS
  <2>1. CASE ReadBatch
    <3>1. PICK B \in SUBSET Ahead : IsBatch(B) /\ cursor' \in B /\ \A p \in B : p <= cursor'
      BY <2>1 DEF ReadBatch, MoveOn
    <3>2. UNCHANGED <<vars, todo>>
      BY <2>1 DEF ReadBatch
    <3>3. Ahead \subseteq Pks /\ Pks \subseteq Nat /\ NoPk \notin Pks /\ cursor \in Pks \cup {NoPk}
      BY RotationAssumption, TableAssumption DEF ScanInv, TypeOK, RotTypeOK, Ahead, RowsOf
    <3>4. Ahead' = {p \in RowsOf(fieldName) : p > cursor'}
      BY <3>1, <3>2, <3>3 DEF Ahead, RowsOf, fieldName, vars
    <3>5. Ahead = {p \in RowsOf(fieldName) : cursor = NoPk \/ p > cursor}
      BY DEF Ahead
    <3>6. cursor' \in Nat /\ (cursor = NoPk \/ (cursor \in Nat /\ cursor' > cursor))
      BY <3>1, <3>3, <3>5
    <3>7. RowsOf(fieldName) \subseteq Nat
      BY <3>3 DEF ScanInv, TypeOK, RowsOf
    <3>8. Ahead' \subseteq Ahead /\ cursor' \in Ahead /\ cursor' \notin Ahead'
      BY <3>1, <3>4, <3>5, <3>6, <3>7
    <3> QED  BY <3>2, <3>8
  <2>2. CASE WriteBatch
    <3>1. phase = "write" /\ phase' = "read" /\ UNCHANGED <<present, todo, cursor>>
      BY <2>2 DEF WriteBatch, scan
    <3> QED  BY <3>1 DEF Ahead, RowsOf, fieldName
  <2>3. CASE ReadFails \/ WriteFails
    BY <2>3 DEF ReadFails, WriteFails, Abandon, Running
  <2>4. CASE NextColumn
    <3>1. todo' = Tail(todo) /\ todo \in Seq(Columns) /\ todo # <<>>
      BY <2>4 DEF NextColumn, StartColumn, ScanInv, RotTypeOK, Scanned, Running
    <3>2. Len(Tail(todo)) = Len(todo) - 1 /\ Len(todo) \in Nat
      BY <3>1
    <3>3. Len(todo') = Len(todo) - 1
      BY <3>1, <3>2, Zenon
    <3>4. Len(todo') < Len(todo)
      BY <3>2, <3>3
    <3> QED  BY <3>4
  <2> QED  BY <2>1, <2>2, <2>3, <2>4 DEF Rotate
<1>2. ScanInv /\ [RotNext]_allVars => [Progress]_allVars
  BY <1>1
<1>3. RotSpec => [][Progress]_allVars
  BY <1>2, ScanInit, ScanNext, PTL DEF RotSpec
<1> QED  BY <1>3 DEF RotationProgresses

-----------------------------------------------------------------------------
(* Strict columns alone: nothing is ever stored in the clear.              *)

Encrypted(v) == v = NullValue \/ v.layers # <<>>

RowsEncrypted == \A p \in Pks, col \in Columns : Encrypted(row[p][col])

\* The assumptions: every column is strict, and no row from before is plain.
OnlyStrict ==
  /\ StrictCols = Columns
  /\ \A r \in InitialRows, col \in Columns : Encrypted(r[col])

LEMMA WriteEncrypts ==
  ASSUME OnlyStrict, NEW c \in Config, NEW col \in Columns, NEW v \in Value, ~WriteRaises(c, col, v)
  PROVE  Encrypted(Write(c, col, v))
<1>1. CASE v = NullValue
  BY <1>1 DEF Write, Encrypted
<1>2. CASE v # NullValue
  <2> DEFINE l == [kid |-> WriteKey(c, col), mat |-> c.keys[WriteKey(c, col)], aad |-> col]
  <2>1. Write(c, col, v) = Wrap(l, v) /\ KeyUsable(c, WriteKey(c, col))
    BY <1>2 DEF OnlyStrict, WriteRaises, Write, Encrypt
  <2>2. l \in Layer
    BY <2>1, WriteKeyType, UsableLayer
  <2> HIDE DEF l
  <2>3. Wrap(l, v) \in Value /\ Len(Wrap(l, v).layers) = Len(v.layers) + 1
    BY <2>2, WrapType
  <2>4. v.layers \in Seq(Layer) /\ Wrap(l, v).layers \in Seq(Layer)
    BY <2>3 DEF Value
  <2>5. Wrap(l, v).layers # <<>>
    BY <2>3, <2>4
  <2> QED  BY <2>1, <2>5 DEF Encrypted
<1> QED  BY <1>1, <1>2

LEMMA BlankEncrypted == \A col \in Columns : Encrypted(Blank[col])
BY DEF Blank, Encrypted

LEMMA EncryptedInit == OnlyStrict /\ Init => RowsEncrypted
<1> SUFFICES ASSUME OnlyStrict, Init PROVE RowsEncrypted
  OBVIOUS
<1>1. PICK old \in [Pks -> InitialRows] :
        row = [p \in Pks |-> IF p \in present THEN InModel(p, old[p]) ELSE Blank]
  BY DEF Init
<1>2. ASSUME NEW p \in Pks, NEW col \in Columns PROVE Encrypted(row[p][col])
  <2>1. old[p] \in InitialRows
    OBVIOUS
  <2>2. Encrypted(InModel(p, old[p])[col])
    BY <2>1 DEF InModel, OnlyStrict, Encrypted
  <2> QED  BY <1>1, <2>2, BlankEncrypted
<1> QED  BY <1>2 DEF RowsEncrypted

LEMMA PreparedEncrypts ==
  ASSUME OnlyStrict, TypeOK, NEW w \in Workers, NEW f \in [Columns -> Value], Preparable(w, f)
  PROVE  \A col \in Columns : Encrypted(Prepared(w, f)[col])
BY ConfType, WriteEncrypts DEF Prepared, Preparable

LEMMA EncryptedTableStep ==
  ASSUME OnlyStrict, TypeOK, RowsEncrypted, Next
  PROVE  RowsEncrypted'
<1> USE DEF RowsEncrypted
<1>1. PICK w \in Workers : Step(w)
  BY DEF Next
<1>2. ASSUME NEW p \in Pks, NEW f \in [Columns -> Texts \cup {Null}], Create(w, p, f)
      PROVE  RowsEncrypted'
  <2> DEFINE new == InModel(p, [col \in Columns |-> Plain(f[col])])
  <2>1. new \in [Columns -> Value]
    BY NewShowsTexts
  <2>2. Preparable(w, new) /\ row' = [row EXCEPT ![p] = Prepared(w, new)]
    BY <1>2 DEF Create
  <2> HIDE DEF new
  <2>3. \A col \in Columns : Encrypted(Prepared(w, new)[col])
    BY <2>1, <2>2, PreparedEncrypts
  <2> QED  BY <2>2, <2>3 DEF TypeOK
<1>3. ASSUME Save(w) PROVE RowsEncrypted'
  <2>1. Preparable(w, inst[w]) /\ row' = [row EXCEPT ![holding[w]] = Prepared(w, inst[w])]
    BY <1>3 DEF Save
  <2>2. \A col \in Columns : Encrypted(Prepared(w, inst[w])[col])
    BY <2>1, PreparedEncrypts DEF TypeOK
  <2> QED  BY <2>1, <2>2 DEF TypeOK
<1>4. ASSUME NEW col \in Columns, SaveField(w, col) PROVE RowsEncrypted'
  <2>1. Encrypted(Write(Conf(w), col, inst[w][col]))
    BY <1>4, ConfType, WriteEncrypts DEF SaveField, TypeOK
  <2> QED  BY <1>4, <2>1 DEF SaveField, TypeOK
<1>5. ASSUME Delete(w) PROVE RowsEncrypted'
  BY <1>5, BlankEncrypted DEF Delete, TypeOK
<1>6. ASSUME row' = row PROVE RowsEncrypted'
  BY <1>6
<1> QED
  BY <1>1, <1>2, <1>3, <1>4, <1>5, <1>6 DEF Step, Load, Assign, FullClean, Redeploy, db

LEMMA EncryptedNext ==
  OnlyStrict /\ ScanInv /\ RowsEncrypted /\ [RotNext]_allVars => RowsEncrypted'
<1> SUFFICES ASSUME OnlyStrict, ScanInv, RowsEncrypted, [RotNext]_allVars PROVE RowsEncrypted'
  OBVIOUS
<1>1. CASE WorkerStep
  BY <1>1, EncryptedTableStep DEF WorkerStep, ScanInv
<1>2. CASE WriteBatch
  <2>1. rotConf \in Config /\ fieldName \in Columns
    BY <1>2, RotationAssumption
    DEF WriteBatch, ScanInv, Scanned, Running, RotTypeOK, fieldName
  <2>2. \A p \in DOMAIN updates : Encrypted(Write(rotConf, fieldName, updates[p]))
    BY <1>2, <2>1, WriteEncrypts DEF WriteBatch, ScanInv, RotTypeOK
  <2> QED  BY <1>2, <2>2 DEF WriteBatch, RowsEncrypted, ScanInv, TypeOK
<1>3. CASE row' = row
  BY <1>3 DEF RowsEncrypted
<1> QED
  BY <1>1, <1>2, <1>3
  DEF RotNext, Rotate, Begin, Start, ReadBatch, ReadFails, WriteFails, NextColumn, Crash, Abandon, allVars, vars

\* With strict columns only, neither rotations, also with a malformed key or cut
\* off anywhere, nor workers ever leave a value in the clear.
THEOREM NoPlaintextEver == OnlyStrict => (RotSpec => []NoPlaintextStored)
<1> SUFFICES ASSUME OnlyStrict PROVE RotSpec => []NoPlaintextStored
  OBVIOUS
<1>1. RotInit => ScanInv /\ RowsEncrypted
  BY ScanInit, EncryptedInit DEF RotInit
<1>2. ScanInv /\ RowsEncrypted /\ [RotNext]_allVars => (ScanInv /\ RowsEncrypted)'
  BY ScanNext, EncryptedNext
<1>3. ScanInv /\ RowsEncrypted => NoPlaintextStored
  BY DEF ScanInv, TypeOK, RowsEncrypted, Encrypted, NoPlaintextStored
<1> QED  BY <1>1, <1>2, <1>3, PTL DEF RotSpec

-----------------------------------------------------------------------------
(* What a batch writes.                                                    *)

\* The assumptions: a process that rotates can encrypt for the columns that
\* would take a plain value, and no row from before holds an encrypted None.
KeysForRotation ==
  \A c \in RotConfs, col \in Columns \ StrictCols : KeyUsable(c, WriteKey(c, col))

Bare(v) == v.text = Null => v.layers = <<>>

NullsBareBefore == \A r \in InitialRows, col \in Columns : Bare(r[col])

\* None is never encrypted.
NullsBare ==
  /\ \A p \in Pks, col \in Columns : Bare(row[p][col])
  /\ \A w \in Workers, col \in Columns : Bare(inst[w][col])

\* What is about to be written was read from a row that is still as it was.
Pending ==
  phase = "write" =>
    /\ ~dryRun
    /\ \A p \in DOMAIN updates : updates[p].text # Null
    /\ \A p \in DOMAIN updates \ raced :
         ShouldRotate(RawValue(p)) /\ updates[p] = Peel(RawValue(p))

BatchInv == ScanInv /\ NullsBare /\ Pending

LEMMA PlainBare == \A x : Bare(Plain(x))
BY DEF Plain, Bare

LEMMA PeelText ==
  ASSUME NEW v, Bare(v), v.layers # <<>>
  PROVE  Peel(v).text = v.text /\ v.text # Null
BY DEF Bare, Peel

LEMMA ReadBare ==
  ASSUME NEW c, NEW col, NEW v, Bare(v)
  PROVE  Bare(Read(c, col, v)) /\ Read(c, col, v).text = v.text
<1>1. CASE Unlocks(c, col, v)
  <2>1. v.layers # <<>>
    BY <1>1 DEF Unlocks, Opens
  <2> QED  BY <2>1, PeelText DEF Read, Bare
<1>2. CASE ~Unlocks(c, col, v)
  BY <1>2 DEF Read
<1> QED  BY <1>1, <1>2

LEMMA WriteBare ==
  ASSUME NEW c, NEW col, NEW v \in Value, Bare(v)
  PROVE  Bare(Write(c, col, v))
<1>1. CASE v = NullValue
  BY <1>1 DEF Write
<1>2. CASE v # NullValue
  <2>1. v.text # Null
    BY <1>2 DEF Bare, Value, NullValue, Plain
  <2>2. Write(c, col, v).text = v.text
    BY DEF Write, Encrypt, Wrap
  <2> QED  BY <2>1, <2>2 DEF Bare
<1> QED  BY <1>1, <1>2

LEMMA BareInit == NullsBareBefore /\ Init => NullsBare
<1> SUFFICES ASSUME NullsBareBefore, Init PROVE NullsBare
  OBVIOUS
<1>1. PICK old \in [Pks -> InitialRows] :
        row = [p \in Pks |-> IF p \in present THEN InModel(p, old[p]) ELSE Blank]
  BY DEF Init
<1>2. ASSUME NEW p \in Pks, NEW col \in Columns PROVE Bare(row[p][col])
  <2>1. Bare(old[p][col])
    BY DEF NullsBareBefore
  <2>2. row[p][col] = old[p][col] \/ row[p][col] = NullValue
    BY <1>1 DEF InModel, Blank
  <2> QED  BY <2>1, <2>2, PlainBare DEF NullValue
<1>3. \A w \in Workers, col \in Columns : Bare(inst[w][col])
  BY PlainBare DEF Init, Blank, NullValue
<1> QED  BY <1>2, <1>3 DEF NullsBare

LEMMA PreparedBare ==
  ASSUME NEW w \in Workers, NEW f \in [Columns -> Value], \A col \in Columns : Bare(f[col])
  PROVE  \A col \in Columns : Bare(Prepared(w, f)[col])
BY WriteBare DEF Prepared

LEMMA BareTableStep == TypeOK /\ NullsBare /\ Next => NullsBare'
<1> SUFFICES ASSUME TypeOK, NullsBare, Next PROVE NullsBare'
  OBVIOUS
<1> USE DEF NullsBare, TypeOK
<1>1. PICK w \in Workers : Step(w)
  BY DEF Next
<1>2. \A col \in Columns : Bare(Blank[col])
  BY PlainBare DEF Blank, NullValue
<1>3. ASSUME NEW p \in Pks, Load(w, p) PROVE NullsBare'
  <2>1. \A col \in Columns : Bare(Read(Conf(w), col, row[p][col]))
    BY ReadBare
  <2> QED  BY <1>3, <2>1 DEF Load, db
<1>4. ASSUME NEW p \in Pks, NEW f \in [Columns -> Texts \cup {Null}], Create(w, p, f)
      PROVE  NullsBare'
  <2> DEFINE new == InModel(p, [col \in Columns |-> Plain(f[col])])
  <2>1. new \in [Columns -> Value] /\ \A col \in Columns : Bare(new[col])
    BY NewShowsTexts DEF Bare
  <2>2. row' = [row EXCEPT ![p] = Prepared(w, new)] /\ inst' = [inst EXCEPT ![w] = new]
    BY <1>4 DEF Create
  <2> HIDE DEF new
  <2>3. \A col \in Columns : Bare(Prepared(w, new)[col])
    BY <2>1, PreparedBare
  <2> QED  BY <2>1, <2>2, <2>3
<1>5. ASSUME NEW col \in Columns, SaveField(w, col) PROVE NullsBare'
  <2>1. Bare(Write(Conf(w), col, inst[w][col]))
    BY WriteBare
  <2> QED  BY <1>5, <2>1 DEF SaveField
<1>6. ASSUME NEW col \in Columns, NEW x \in Texts \cup {Null}, Assign(w, col, x) PROVE NullsBare'
  BY <1>6, PlainBare DEF Assign, db
<1>7. ASSUME FullClean(w) PROVE NullsBare'
  <2>1. PICK cleaned \in SUBSET Columns :
          inst' = [inst EXCEPT ![w] = [col \in Columns |->
                    IF col \in cleaned THEN Read(Conf(w), col, @[col]) ELSE @[col]]]
    BY <1>7 DEF FullClean
  <2>2. \A col \in Columns : Bare(Read(Conf(w), col, inst[w][col]))
    BY ReadBare
  <2> QED  BY <1>7, <2>1, <2>2 DEF FullClean, db
<1>8. ASSUME Save(w) PROVE NullsBare'
  <2>1. \A col \in Columns : Bare(Prepared(w, inst[w])[col])
    BY PreparedBare
  <2> QED  BY <1>8, <2>1 DEF Save
<1>9. ASSUME Delete(w) \/ Redeploy(w) PROVE NullsBare'
  BY <1>9, <1>2 DEF Delete, Redeploy, db
<1> QED  BY <1>1, <1>3, <1>4, <1>5, <1>6, <1>7, <1>8, <1>9 DEF Step

\* The query: what it returns of a row is the text of the row.
LEMMA ReadBatchPends == ASSUME BatchInv, ReadBatch PROVE Pending'
<1>1. PICK B \in SUBSET Ahead :
        LET due == {p \in B : ShouldRotate(RawValue(p))} IN
        /\ updates' = [p \in due |-> Peel(RawValue(p))]
        /\ phase' = IF due # {} /\ ~dryRun THEN "write" ELSE "read"
  BY DEF ReadBatch
<1>2. /\ fieldName \in Columns /\ fieldName' = fieldName
      /\ dryRun' = dryRun /\ row' = row /\ rotConf' = rotConf
  BY DEF ReadBatch, BatchInv, ScanInv, Scanned, Running, RotTypeOK, fieldName, vars
<1>3. B \subseteq Pks
  BY DEF Ahead, RowsOf, BatchInv, ScanInv, TypeOK
<1>4. ASSUME NEW p \in DOMAIN updates'
      PROVE  /\ ShouldRotate(RawValue(p)) /\ updates'[p] = Peel(RawValue(p))
             /\ updates'[p].text # Null
  <2>1. p \in B /\ ShouldRotate(RawValue(p)) /\ updates'[p] = Peel(RawValue(p))
    BY <1>1, <1>4
  <2>2. Bare(RawValue(p))
    BY <1>2, <1>3, <2>1, ReadBare DEF RawValue, BatchInv, NullsBare
  <2>3. RawValue(p).layers # <<>>
    BY <2>1 DEF ShouldRotate, Opens
  <2> QED  BY <2>1, <2>2, <2>3, PeelText
<1>5. \A p : RawValue(p)' = RawValue(p) /\ (ShouldRotate(RawValue(p)) <=> ShouldRotate(RawValue(p))')
  BY <1>2 DEF RawValue, ShouldRotate
<1>6. phase' = "write" => ~dryRun'
  BY <1>1, <1>2
<1> QED  BY <1>4, <1>5, <1>6 DEF Pending

LEMMA WorkerStepPends == ASSUME BatchInv, WorkerStep PROVE Pending'
<1> SUFFICES ASSUME phase = "write" PROVE Pending'
  BY DEF WorkerStep, Pending
<1>1. /\ raced' = raced \cup {p \in Pks : row'[p] # row[p]}
      /\ updates' = updates /\ fieldName' = fieldName /\ dryRun' = dryRun /\ rotConf' = rotConf
  BY DEF WorkerStep, scan, fieldName
<1>2. ASSUME NEW p \in DOMAIN updates \ raced' PROVE row'[p] = row[p]
  BY <1>1, <1>2 DEF BatchInv, ScanInv, RotTypeOK
<1>3. ASSUME NEW p \in DOMAIN updates \ raced'
      PROVE  RawValue(p)' = RawValue(p) /\ (ShouldRotate(RawValue(p)) <=> ShouldRotate(RawValue(p))')
  BY <1>1, <1>2, <1>3 DEF RawValue, ShouldRotate
<1> QED  BY <1>1, <1>3 DEF BatchInv, Pending

LEMMA WriteBatchBare == ASSUME BatchInv, WriteBatch PROVE NullsBare'
<1>1. \A p \in DOMAIN updates : Bare(Write(rotConf, fieldName, updates[p]))
  BY WriteBare DEF WriteBatch, BatchInv, ScanInv, RotTypeOK, Pending, Bare
<1> QED  BY <1>1 DEF WriteBatch, BatchInv, ScanInv, TypeOK, NullsBare

LEMMA BatchNext == BatchInv /\ [RotNext]_allVars => BatchInv'
<1> SUFFICES ASSUME BatchInv, [RotNext]_allVars PROVE NullsBare' /\ Pending'
  BY ScanNext DEF BatchInv
<1>1. CASE WorkerStep
  BY <1>1, WorkerStepPends, BareTableStep DEF WorkerStep, BatchInv, ScanInv
<1>2. CASE ReadBatch
  BY <1>2, ReadBatchPends DEF ReadBatch, vars, BatchInv, NullsBare
<1>3. CASE WriteBatch
  BY <1>3, WriteBatchBare DEF WriteBatch, Pending
<1>4. CASE ReadFails \/ WriteFails \/ Crash \/ NextColumn \/ Begin
  BY <1>4
  DEF ReadFails, WriteFails, Crash, Abandon, NextColumn, Begin, Start, StartColumn, vars,
      BatchInv, NullsBare, Pending
<1>5. CASE UNCHANGED allVars
  BY <1>5
  DEF allVars, vars, rotVars, scan, BatchInv, NullsBare, Pending, RawValue, ShouldRotate, fieldName
<1> QED  BY <1>1, <1>2, <1>3, <1>4, <1>5 DEF RotNext, Rotate

\* One value on its way from the row through the rotation and back.
LEMMA Reencrypted ==
  ASSUME NEW c \in Config, NEW col \in Columns, NEW old \in Value, Bare(old),
         NEW raw, raw = Read(c, col, old), Opens(c, raw, NoAad),
         KeyUsable(c, WriteKey(c, col)), NEW new, new = Write(c, col, Peel(raw))
  PROVE  /\ new.text = old.text /\ Len(new.layers) <= Len(old.layers)
         /\ Prefix(new) = WriteKey(c, col) /\ Unlocks(c, col, new)
<1>1. raw \in Value /\ Bare(raw) /\ raw.text = old.text /\ raw.layers # <<>>
  BY ReadType, ReadBare DEF Opens
<1>2. Len(raw.layers) <= Len(old.layers) /\ Len(old.layers) \in Nat /\ Len(raw.layers) \in Nat
  <2>1. CASE raw = old
    BY <2>1 DEF Value
  <2>2. CASE raw = Peel(old) /\ old.layers # <<>>
    BY <1>1, <2>2, PeelType DEF Value
  <2> QED  BY <2>1, <2>2 DEF Read, Unlocks, Opens
<1> DEFINE v == Peel(raw)
           l == [kid |-> WriteKey(c, col), mat |-> c.keys[WriteKey(c, col)], aad |-> col]
<1>3. v \in Value /\ v.text = old.text /\ v.text # Null /\ Len(v.layers) = Len(raw.layers) - 1
  BY <1>1, PeelType, PeelText
<1>4. v # NullValue
  BY <1>3 DEF NullValue, Plain
<1>5. new = Wrap(l, v)
  BY <1>4 DEF Write, Encrypt
<1>6. l \in Layer
  BY WriteKeyType, UsableLayer
<1>7. l.kid = WriteKey(c, col) /\ c.keys[l.kid] = l.mat /\ l.aad = col
  OBVIOUS
<1> HIDE DEF v, l
<1>8. /\ new \in Value /\ new.text = v.text /\ new.layers[1] = l
      /\ Len(new.layers) = Len(v.layers) + 1
  BY <1>3, <1>5, <1>6, WrapType
<1>9. new.layers # <<>> /\ Head(new.layers) = l /\ Len(v.layers) \in Nat
  BY <1>3, <1>8 DEF Value
<1> QED  BY <1>2, <1>3, <1>7, <1>8, <1>9 DEF Prefix, Unlocks, Opens

\* Whatever rows, workers and models there are: over a row that nobody wrote
\* since it was read, a rotation writes the text that stood there, under the key
\* for new values, readable, and in no more layers than before.
THEOREM RotationReencryptsRows ==
  KeysForRotation /\ NullsBareBefore => (RotSpec => RotationReencrypts)
<1> SUFFICES ASSUME KeysForRotation, NullsBareBefore PROVE RotSpec => RotationReencrypts
  OBVIOUS
<1> DEFINE Reencrypts ==
      WriteBatch =>
        /\ ~dryRun
        /\ \A p \in present \ raced : row'[p] # row[p] =>
             LET old == row[p][fieldName]   new == row'[p][fieldName] IN
             /\ row'[p] = [row[p] EXCEPT ![fieldName] = new]
             /\ new.text = old.text /\ Len(new.layers) <= Len(old.layers)
             /\ Prefix(new) = WriteKey(rotConf, fieldName) /\ Unlocks(rotConf, fieldName, new)
<1>1. RotInit => BatchInv
  BY ScanInit, BareInit DEF RotInit, BatchInv, Pending
<1>2. BatchInv /\ [RotNext]_allVars => BatchInv'
  BY BatchNext
<1>3. BatchInv => Reencrypts
  <2> SUFFICES ASSUME BatchInv, WriteBatch PROVE Reencrypts
    OBVIOUS
  <2>1. ~dryRun /\ TypeOK /\ rotConf \in RotConfs /\ rotConf \in Config /\ fieldName \in Columns
    BY RotationAssumption
    DEF BatchInv, Pending, WriteBatch, ScanInv, Scanned, Running, RotTypeOK, fieldName
  <2>2. ASSUME NEW p \in present \ raced, row'[p] # row[p], NEW new, new = row'[p][fieldName]
        PROVE  /\ row'[p] = [row[p] EXCEPT ![fieldName] = new]
               /\ new.text = row[p][fieldName].text
               /\ Len(new.layers) <= Len(row[p][fieldName].layers)
               /\ Prefix(new) = WriteKey(rotConf, fieldName) /\ Unlocks(rotConf, fieldName, new)
    <3>1. p \in Pks /\ row[p] \in [Columns -> Value]
      BY <2>1 DEF TypeOK
    <3>2. /\ p \in DOMAIN updates
          /\ row'[p] = [row[p] EXCEPT ![fieldName] = Write(rotConf, fieldName, updates[p])]
      BY <2>2, <3>1 DEF WriteBatch
    <3>3. new = Write(rotConf, fieldName, updates[p])
      BY <2>1, <2>2, <3>1, <3>2
    <3>4. /\ Opens(rotConf, RawValue(p), NoAad) /\ updates[p] = Peel(RawValue(p))
          /\ updates[p].text # Null
      BY <2>2, <3>2 DEF BatchInv, Pending, WriteBatch, ShouldRotate
    <3>5. KeyUsable(rotConf, WriteKey(rotConf, fieldName))
      <4>1. updates[p] # NullValue /\ ~WriteRaises(rotConf, fieldName, updates[p])
        BY <3>2, <3>4 DEF WriteBatch, NullValue, Plain
      <4> QED  BY <2>1, <4>1 DEF KeysForRotation, WriteRaises
    <3>6. row[p][fieldName] \in Value /\ Bare(row[p][fieldName])
      BY <2>1, <3>1 DEF BatchInv, NullsBare
    <3> QED  BY <2>1, <3>2, <3>3, <3>4, <3>5, <3>6, Reencrypted DEF RawValue
  <2> QED  BY <2>1, <2>2
<1>4. BatchInv /\ [RotNext]_allVars => [Reencrypts]_allVars
  BY <1>3
<1>5. RotSpec => [][Reencrypts]_allVars
  BY <1>1, <1>2, <1>4, PTL DEF RotSpec
<1> QED  BY <1>5 DEF RotationReencrypts
-----------------------------------------------------------------------------
(* Strict columns.  Their from_db_value hands rotation the text, in which  *)
(* there is nothing to rotate.                                             *)

StrictScanInv ==
  /\ ScanInv
  /\ StrictInv
  /\ phase = "write" => fieldName \notin StrictCols

\* What a step of the rotating process leaves alone.
SameStrict == \A p \in Pks, col \in StrictCols : row'[p][col] = row[p][col]

LEMMA RunningTypes ==
  ASSUME ScanInv, Running
  PROVE  rotConf \in Config /\ fieldName \in Columns
BY RotationAssumption DEF ScanInv, Scanned, Running, RotTypeOK, fieldName

LEMMA NothingDue ==
  ASSUME StrictScanInv, Running, fieldName \in StrictCols, NEW p \in Pks,
         ~ReadRaises(rotConf, fieldName, row[p][fieldName])
  PROVE  ~ShouldRotate(RawValue(p))
<1>1. rotConf \in Config /\ fieldName \in Columns
  BY RunningTypes DEF StrictScanInv
<1>2. row[p][fieldName] \in Value /\ OnceEncrypted(fieldName, row[p][fieldName])
  BY <1>1 DEF StrictScanInv, StrictInv, TypeOK, StrictOnceEncrypted
<1>3. RawValue(p).layers = <<>>
  BY <1>1, <1>2, ReadStrict DEF RawValue
<1> QED  BY <1>3 DEF ShouldRotate, Opens

LEMMA StrictScanInit == OwnInitialRows /\ RotInit => StrictScanInv
BY ScanInit, StrictInit DEF RotInit, StrictScanInv

\* A batch of a strict column is counted as skipped.
LEMMA ReadBatchSparesStrict ==
  ASSUME StrictScanInv, ReadBatch, phase' = "write"
  PROVE  fieldName \notin StrictCols
<1> SUFFICES ASSUME fieldName \in StrictCols PROVE FALSE
  OBVIOUS
<1>1. PICK B \in SUBSET Ahead :
        /\ \A p \in B : ~ReadRaises(rotConf, fieldName, row[p][fieldName])
        /\ LET due == {p \in B : ShouldRotate(RawValue(p))} IN
             phase' = IF due # {} /\ ~dryRun THEN "write" ELSE "read"
  BY DEF ReadBatch
<1>2. PICK p \in B : ShouldRotate(RawValue(p))
  BY <1>1
<1>3. p \in Pks /\ Running
  BY DEF Ahead, RowsOf, StrictScanInv, ScanInv, TypeOK, ReadBatch, Running
<1> QED  BY <1>1, <1>2, <1>3, NothingDue

LEMMA RotateSparesStrict ==
  ASSUME StrictScanInv, Rotate \/ Crash \/ Begin
  PROVE  SameStrict /\ UNCHANGED <<present, holding, inst, stage>>
<1>1. CASE WriteBatch
  <2>1. fieldName \notin StrictCols
    BY <1>1 DEF WriteBatch, StrictScanInv
  <2>2. \A p \in Pks : row'[p] \in {row[p], [row[p] EXCEPT ![fieldName] = Write(rotConf, fieldName, updates[p])]}
    BY <1>1 DEF WriteBatch
  <2>3. \A p \in Pks : row[p] \in [Columns -> Value]
    BY DEF StrictScanInv, StrictInv, TypeOK
  <2>4. ASSUME NEW p \in Pks, NEW col \in StrictCols PROVE row'[p][col] = row[p][col]
    BY <2>1, <2>2, <2>3, CipherAssumption
  <2> QED  BY <1>1, <2>4 DEF WriteBatch, SameStrict
<1>2. CASE UNCHANGED vars
  BY <1>2 DEF vars, SameStrict
<1> QED
  BY <1>1, <1>2
  DEF Rotate, Begin, Start, ReadBatch, ReadFails, WriteFails, NextColumn, Crash, Abandon

LEMMA StrictScanNext == StrictScanInv /\ [RotNext]_allVars => StrictScanInv'
<1> SUFFICES ASSUME StrictScanInv, [RotNext]_allVars PROVE StrictScanInv'
  OBVIOUS
<1>1. ScanInv'
  BY ScanNext DEF StrictScanInv
<1>2. StrictInv'
  <2>1. CASE WorkerStep
    BY <2>1, StrictNext DEF WorkerStep, StrictScanInv
  <2>2. CASE Rotate \/ Crash \/ Begin
    BY <1>1, <2>2, RotateSparesStrict
    DEF StrictScanInv, ScanInv, StrictInv, SameStrict, StrictOnceEncrypted, InstancesShowTexts
  <2>3. CASE UNCHANGED allVars
    BY <2>3, StrictNext DEF allVars, StrictScanInv
  <2> QED  BY <2>1, <2>2, <2>3 DEF RotNext
<1>3. phase' = "write" => fieldName' \notin StrictCols
  <2> SUFFICES ASSUME phase' = "write" PROVE fieldName' \notin StrictCols
    OBVIOUS
  <2>1. CASE ReadBatch
    BY <2>1, ReadBatchSparesStrict DEF ReadBatch, fieldName
  <2>2. CASE WorkerStep \/ UNCHANGED allVars
    BY <2>2 DEF WorkerStep, allVars, rotVars, scan, fieldName, StrictScanInv
  <2>3. CASE ReadFails \/ WriteBatch \/ WriteFails \/ NextColumn \/ Crash \/ Begin
    BY <2>3
    DEF ReadFails, WriteBatch, WriteFails, NextColumn, Crash, Abandon, Begin, Start, StartColumn
  <2> QED  BY <2>1, <2>2, <2>3 DEF RotNext, Rotate
<1> QED  BY <1>1, <1>2, <1>3 DEF StrictScanInv

\* No rotation, of whatever columns, with whatever settings and however often it
\* is repeated, changes what a strict column holds if only the column has written
\* to it: every row is skipped.  RotationCompletes is violated for this reason,
\* and not because of the values chosen for its run.
THEOREM RotationSkipsStrictColumns ==
  OwnInitialRows =>
    (RotSpec => [][Rotate => \A p \in Pks, col \in StrictCols : row'[p][col] = row[p][col]]_allVars)
<1> SUFFICES ASSUME OwnInitialRows PROVE RotSpec => [][Rotate => SameStrict]_allVars
  BY DEF SameStrict
<1>1. StrictScanInv /\ [RotNext]_allVars => [Rotate => SameStrict]_allVars
  BY RotateSparesStrict
<1> QED  BY <1>1, StrictScanInit, StrictScanNext, PTL DEF RotSpec

\* Strict columns hold texts encrypted once, also while rotations run.
THEOREM RotationLeavesOnceEncrypted == OwnInitialRows => (RotSpec => []StrictOnceEncrypted)
<1> SUFFICES ASSUME OwnInitialRows PROVE RotSpec => []StrictOnceEncrypted
  OBVIOUS
<1>1. StrictScanInv => StrictOnceEncrypted
  BY DEF StrictScanInv, StrictInv
<1> QED  BY <1>1, StrictScanInit, StrictScanNext, PTL DEF RotSpec

\* A step of a rotation is a stutter of the table of plain columns.
LEMMA RotationRefinementStep ==
  StrictScanInv /\ StrictScanInv' /\ [RotNext]_allVars => [Plaintext!Next]_(Plaintext!vars)
<1> SUFFICES ASSUME StrictScanInv, StrictScanInv', [RotNext]_allVars
             PROVE  [Plaintext!Next]_(Plaintext!vars)
  OBVIOUS
<1>1. CASE WorkerStep \/ UNCHANGED allVars
  BY <1>1, RefinementStep DEF WorkerStep, allVars, StrictScanInv
<1>2. CASE Rotate \/ Crash \/ Begin
  <2>1. SameStrict /\ UNCHANGED <<present, holding, inst, stage>>
    BY <1>2, RotateSparesStrict
  <2>2. RowBar' = RowBar /\ InstBar' = InstBar
    BY <2>1 DEF RowBar, InstBar, SameStrict
  <2> QED  BY <2>1, <2>2 DEF Plaintext!vars, RowBar, InstBar
<1> QED  BY <1>1, <1>2 DEF RotNext

\* To the workers a strict column stays a plain one while keys are rotated, also
\* when a rotation fails or its process dies.
THEOREM RotatedColumnsArePlain == OwnInitialRows => (RotSpec => StrictColumnsArePlain)
<1> SUFFICES ASSUME OwnInitialRows PROVE RotSpec => Plaintext!Spec
  BY DEF StrictColumnsArePlain
<1>1. RotInit => StrictScanInv /\ Plaintext!Init
  BY StrictScanInit, RefinementInit DEF RotInit, StrictScanInv
<1> QED  BY <1>1, StrictScanNext, RotationRefinementStep, PTL DEF RotSpec, Plaintext!Spec
=============================================================================
