------------------------ MODULE EncryptedTableProofs ------------------------
(* Strict columns for any number of workers, rows and columns, and any     *)
(* sequence of settings: what is stored is encrypted exactly once, and the *)
(* table behaves as one of plain columns.                                  *)
EXTENDS EncryptedTable, SequenceTheorems, TLAPS

-----------------------------------------------------------------------------
(* The operators on one value.                                             *)

LEMMA PlainType == \A x \in Texts \cup {Null} : Plain(x) \in Value
BY DEF Plain, Value, Layer

LEMMA WrapType ==
  ASSUME NEW l \in Layer, NEW v \in Value
  PROVE  /\ Wrap(l, v) \in Value
         /\ Len(Wrap(l, v).layers) = Len(v.layers) + 1
         /\ Wrap(l, v).layers[1] = l
         /\ Wrap(l, v).text = v.text
<1>1. v.layers \in Seq(Layer)
  BY DEF Value
<1>2. <<l>> \in Seq(Layer) /\ Len(<<l>>) = 1
  OBVIOUS
<1>3. <<l>> \o v.layers \in Seq(Layer)
  BY <1>1, <1>2
<1>4. Wrap(l, v) = [layers |-> <<l>> \o v.layers, text |-> v.text]
  BY DEF Wrap
<1>5. Len(<<l>> \o v.layers) = Len(v.layers) + 1 /\ (<<l>> \o v.layers)[1] = l
  BY <1>1, <1>2
<1>6. v.text \in Texts \cup {Null}
  BY DEF Value
<1> QED  BY <1>3, <1>4, <1>5, <1>6 DEF Value

LEMMA PeelType ==
  ASSUME NEW v \in Value, v.layers # <<>>
  PROVE  /\ Peel(v) \in Value
         /\ Len(Peel(v).layers) = Len(v.layers) - 1
         /\ Peel(v).text = v.text
<1>1. v.layers \in Seq(Layer) /\ Tail(v.layers) \in Seq(Layer)
  BY DEF Value
<1>2. Peel(v) = [layers |-> Tail(v.layers), text |-> v.text]
  BY DEF Peel
<1> QED  BY <1>1, <1>2 DEF Value

\* A key the code can encrypt with makes a layer.
LEMMA UsableLayer ==
  ASSUME NEW c \in Config, NEW kid \in KeyIds \cup {NoKey}, NEW aad \in Columns \cup {NoAad},
         KeyUsable(c, kid)
  PROVE  [kid |-> kid, mat |-> c.keys[kid], aad |-> aad] \in Layer
BY DEF KeyUsable, Layer, Config

LEMMA WriteKeyType ==
  ASSUME NEW c \in Config, NEW col \in Columns
  PROVE  WriteKey(c, col) \in KeyIds \cup {NoKey}
BY CipherAssumption DEF WriteKey, Config

LEMMA ReadType ==
  ASSUME NEW c \in Config, NEW col \in Columns, NEW v \in Value
  PROVE  Read(c, col, v) \in Value
BY PeelType DEF Read, Unlocks, Opens

LEMMA WriteType ==
  ASSUME NEW c \in Config, NEW col \in Columns, NEW v \in Value
  PROVE  Write(c, col, v) \in Value
BY WriteKeyType, UsableLayer, WrapType DEF Write, Encrypt

\* Reading a strict column that holds a text encrypted once yields the text.
LEMMA ReadStrict ==
  ASSUME NEW c \in Config, NEW col \in StrictCols, NEW v \in Value,
         OnceEncrypted(col, v), ~ReadRaises(c, col, v)
  PROVE  Read(c, col, v).layers = <<>> /\ Read(c, col, v).text = v.text
<1>1. CASE v = NullValue
  BY <1>1 DEF Read, NullValue, Plain
<1>2. CASE v # NullValue
  <2>1. Read(c, col, v) = Peel(v) /\ v.layers # <<>>
    BY <1>2 DEF ReadRaises, Read, Unlocks, Opens
  <2>2. Len(v.layers) = 1 /\ v.layers \in Seq(Layer)
    BY <1>2 DEF OnceEncrypted, Value
  <2>3. Peel(v).layers = Tail(v.layers)
    BY DEF Peel
  <2>4. Tail(v.layers) \in Seq(Layer) /\ Len(Tail(v.layers)) = 0
    BY <2>1, <2>2, HeadTailProperties
  <2>5. Tail(v.layers) = <<>>
    BY <2>4, EmptySeq
  <2> QED  BY <2>1, <2>3, <2>5, PeelType
<1> QED  BY <1>1, <1>2

\* Writing a text to a strict column encrypts it exactly once.
LEMMA WriteStrict ==
  ASSUME NEW c \in Config, NEW col \in StrictCols, NEW v \in Value,
         v.layers = <<>>, ~WriteRaises(c, col, v)
  PROVE  /\ OnceEncrypted(col, Write(c, col, v))
         /\ Write(c, col, v).text = v.text
         /\ v # NullValue => Len(Write(c, col, v).layers) = 1
<1>0. col \in Columns
  BY CipherAssumption
<1>1. CASE v = NullValue
  BY <1>1 DEF Write, OnceEncrypted
<1>2. CASE v # NullValue
  <2> DEFINE l == [kid |-> WriteKey(c, col), mat |-> c.keys[WriteKey(c, col)], aad |-> col]
  <2>1. Write(c, col, v) = Wrap(l, v) /\ KeyUsable(c, WriteKey(c, col))
    BY <1>2 DEF WriteRaises, Write, Encrypt
  <2>2. l \in Layer /\ l.aad = col
    BY <1>0, <2>1, WriteKeyType, UsableLayer
  <2>3. Len(v.layers) = 0
    OBVIOUS
  <2> HIDE DEF l
  <2>4. /\ Len(Wrap(l, v).layers) = Len(v.layers) + 1
        /\ Wrap(l, v).layers[1] = l
        /\ Wrap(l, v).text = v.text
    BY <2>2, WrapType
  <2>5. Len(Wrap(l, v).layers) = 1
    BY <2>3, <2>4
  <2> QED  BY <2>1, <2>2, <2>4, <2>5 DEF OnceEncrypted
<1> QED  BY <1>1, <1>2

\* A strict column accepts no text in to_python.
LEMMA CleanStrict ==
  ASSUME NEW c \in Config, NEW col \in StrictCols, NEW v \in Value,
         v.layers = <<>>, ~ReadRaises(c, col, v)
  PROVE  v = NullValue /\ Read(c, col, v) = v
BY DEF ReadRaises, Unlocks, Opens, Read

-----------------------------------------------------------------------------
(* Type correctness.                                                       *)

LEMMA ConfType == ASSUME TypeOK, NEW w \in Workers PROVE Conf(w) \in Config
BY TableAssumption DEF TypeOK, Conf

LEMMA BlankType == Blank \in [Columns -> Value]
BY PlainType DEF Blank, NullValue

LEMMA InModelType ==
  ASSUME NEW p \in Pks, NEW r \in [Columns -> Value]
  PROVE  /\ InModel(p, r) \in [Columns -> Value]
         /\ \A col \in Columns : InModel(p, r)[col] \in {r[col], NullValue}
BY PlainType DEF InModel, NullValue

\* The attributes of a new instance are texts.
LEMMA NewShowsTexts ==
  ASSUME NEW p \in Pks, NEW f \in [Columns -> Texts \cup {Null}],
         NEW new, new = InModel(p, [col \in Columns |-> Plain(f[col])])
  PROVE  /\ new \in [Columns -> Value]
         /\ \A col \in Columns : new[col].layers = <<>> /\ new[col].text \in Texts \cup {Null}
<1> DEFINE g == [col \in Columns |-> Plain(f[col])]
<1>1. g \in [Columns -> Value]
  BY PlainType
<1>2. ASSUME NEW col \in Columns
      PROVE g[col].layers = <<>> /\ g[col].text \in Texts \cup {Null}
  BY DEF Plain
<1> HIDE DEF g
<1>3. new \in [Columns -> Value] /\ \A col \in Columns : new[col] \in {g[col], NullValue}
  BY <1>1, InModelType DEF g
<1>4. NullValue.layers = <<>> /\ NullValue.text = Null
  BY DEF NullValue, Plain
<1>5. ASSUME NEW col \in Columns
      PROVE  new[col].layers = <<>> /\ new[col].text \in Texts \cup {Null}
  <2>1. CASE new[col] = g[col]
    BY <1>2, <2>1
  <2>2. CASE new[col] = NullValue
    BY <1>4, <2>2
  <2> QED  BY <1>3, <2>1, <2>2
<1> QED  BY <1>3, <1>5

LEMMA TypeInit == Init => TypeOK
<1> SUFFICES ASSUME Init PROVE TypeOK
  OBVIOUS
<1>1. row \in [Pks -> [Columns -> Value]]
  <2>1. PICK old \in [Pks -> InitialRows] :
          row = [p \in Pks |-> IF p \in present THEN InModel(p, old[p]) ELSE Blank]
    BY DEF Init
  <2>2. ASSUME NEW p \in Pks PROVE InModel(p, old[p]) \in [Columns -> Value]
    BY InModelType, TableAssumption
  <2> QED  BY <2>1, <2>2, BlankType
<1>2. 1 \in 1..Len(Rollout)
  BY TableAssumption, EmptySeq
<1> QED  BY <1>1, <1>2, BlankType DEF Init, TypeOK

LEMMA TypeNext == TypeOK /\ [Next]_vars => TypeOK'
<1> SUFFICES ASSUME TypeOK, [Next]_vars PROVE TypeOK'
  OBVIOUS
<1>1. ASSUME NEW w \in Workers, NEW p \in Pks, Load(w, p) PROVE TypeOK'
  <2>1. [col \in Columns |-> Read(Conf(w), col, row[p][col])] \in [Columns -> Value]
    BY ConfType, ReadType DEF TypeOK
  <2> QED  BY <1>1, <2>1 DEF Load, TypeOK, db
<1>2. ASSUME NEW w \in Workers, NEW p \in Pks, NEW f \in [Columns -> Texts \cup {Null}],
             Create(w, p, f)
      PROVE TypeOK'
  <2> DEFINE new == InModel(p, [col \in Columns |-> Plain(f[col])])
  <2>1. new \in [Columns -> Value]
    BY NewShowsTexts
  <2>2. Prepared(w, new) \in [Columns -> Value]
    BY <2>1, ConfType, WriteType DEF Prepared
  <2> HIDE DEF new
  <2> QED  BY <1>2, <2>1, <2>2 DEF Create, TypeOK, new
<1>3. ASSUME NEW w \in Workers, NEW col \in Columns, SaveField(w, col) PROVE TypeOK'
  <2>1. holding[w] \in Pks /\ inst[w][col] \in Value
    BY <1>3 DEF SaveField, TypeOK
  <2>2. Write(Conf(w), col, inst[w][col]) \in Value
    BY <2>1, ConfType, WriteType
  <2>3. [row[holding[w]] EXCEPT ![col] = Write(Conf(w), col, inst[w][col])] \in [Columns -> Value]
    BY <2>1, <2>2 DEF TypeOK
  <2> QED  BY <1>3, <2>1, <2>3 DEF SaveField, TypeOK
<1>4. ASSUME NEW w \in Workers, NEW col \in Columns, NEW x \in Texts \cup {Null},
             Assign(w, col, x)
      PROVE TypeOK'
  <2>1. [inst[w] EXCEPT ![col] = Plain(x)] \in [Columns -> Value]
    BY PlainType DEF TypeOK
  <2> QED  BY <1>4, <2>1 DEF Assign, TypeOK, db
<1>5. ASSUME NEW w \in Workers, FullClean(w) PROVE TypeOK'
  <2>1. PICK cleaned \in SUBSET Columns :
          inst' = [inst EXCEPT ![w] = [col \in Columns |->
                    IF col \in cleaned THEN Read(Conf(w), col, @[col]) ELSE @[col]]]
    BY <1>5 DEF FullClean
  <2>2. \A col \in Columns : Read(Conf(w), col, inst[w][col]) \in Value
    BY ConfType, ReadType DEF TypeOK
  <2> QED  BY <1>5, <2>1, <2>2 DEF FullClean, TypeOK, db
<1>6. ASSUME NEW w \in Workers, Save(w) PROVE TypeOK'
  <2>1. holding[w] \in Pks
    BY <1>6 DEF Save, TypeOK
  <2>2. Prepared(w, inst[w]) \in [Columns -> Value]
    BY ConfType, WriteType DEF Prepared, TypeOK
  <2> QED  BY <1>6, <2>1, <2>2 DEF Save, TypeOK
<1>7. ASSUME NEW w \in Workers, Delete(w) PROVE TypeOK'
  BY <1>7, BlankType DEF Delete, TypeOK
<1>8. ASSUME NEW w \in Workers, Redeploy(w) PROVE TypeOK'
  BY <1>8, BlankType, TableAssumption, LenProperties DEF Redeploy, TypeOK, db
<1>9. CASE UNCHANGED vars
  BY <1>9 DEF vars, TypeOK
<1> QED
  BY <1>1, <1>2, <1>3, <1>4, <1>5, <1>6, <1>7, <1>8, <1>9 DEF Next, Step

\* Every variable keeps its type.
THEOREM TableTypeCorrect == Spec => []TypeOK
BY TypeInit, TypeNext, PTL DEF Spec

-----------------------------------------------------------------------------
(* Strict columns are encrypted exactly once.  An instance must show their *)
(* texts in the clear, or saving it would encrypt ciphertext.              *)

\* What previous releases wrote to strict columns was encrypted once as well.
OwnInitialRows == \A r \in InitialRows, col \in StrictCols : OnceEncrypted(col, r[col])

InstancesShowTexts == \A w \in Workers, col \in StrictCols : inst[w][col].layers = <<>>

StrictInv == TypeOK /\ StrictOnceEncrypted /\ InstancesShowTexts

LEMMA BlankStrict ==
  ASSUME NEW col \in StrictCols PROVE OnceEncrypted(col, Blank[col]) /\ Blank[col].layers = <<>>
BY CipherAssumption DEF Blank, OnceEncrypted, NullValue, Plain

LEMMA StrictInit == OwnInitialRows /\ Init => StrictInv
<1> SUFFICES ASSUME OwnInitialRows, Init PROVE StrictInv
  OBVIOUS
<1>1. StrictOnceEncrypted
  <2>1. PICK old \in [Pks -> InitialRows] :
          row = [p \in Pks |-> IF p \in present THEN InModel(p, old[p]) ELSE Blank]
    BY DEF Init
  <2>2. ASSUME NEW p \in Pks, NEW col \in StrictCols PROVE OnceEncrypted(col, InModel(p, old[p])[col])
    <3>1. InModel(p, old[p])[col] \in {old[p][col], NullValue}
      BY InModelType, TableAssumption, CipherAssumption
    <3> QED  BY <3>1 DEF OwnInitialRows, OnceEncrypted
  <2> QED  BY <2>1, <2>2, BlankStrict DEF StrictOnceEncrypted
<1>2. InstancesShowTexts
  BY BlankStrict DEF Init, InstancesShowTexts
<1> QED  BY <1>1, <1>2, TypeInit DEF StrictInv

\* A row prepared from texts is encrypted once.
LEMMA PreparedStrict ==
  ASSUME TypeOK, NEW w \in Workers, NEW f \in [Columns -> Value], Preparable(w, f),
         NEW col \in StrictCols, f[col].layers = <<>>
  PROVE  /\ OnceEncrypted(col, Prepared(w, f)[col])
         /\ Prepared(w, f)[col].text = f[col].text
         /\ f[col] # NullValue => Len(Prepared(w, f)[col].layers) = 1
<1>1. col \in Columns /\ f[col] \in Value /\ ~WriteRaises(Conf(w), col, f[col])
  BY CipherAssumption DEF Preparable
<1>2. Prepared(w, f)[col] = Write(Conf(w), col, f[col])
  BY <1>1 DEF Prepared
<1> QED  BY <1>1, <1>2, ConfType, WriteStrict

\* full_clean leaves strict columns as they are: it gets past none but NULLs.
LEMMA CleanKeepsStrict ==
  ASSUME StrictInv, NEW w \in Workers, FullClean(w)
  PROVE  \A u \in Workers, col \in StrictCols : inst'[u][col] = inst[u][col]
<1> USE CipherAssumption DEF StrictInv
<1>1. PICK cleaned \in SUBSET Columns :
        /\ \A col \in cleaned : ~ReadRaises(Conf(w), col, inst[w][col])
        /\ inst' = [inst EXCEPT ![w] = [col \in Columns |->
                  IF col \in cleaned THEN Read(Conf(w), col, @[col]) ELSE @[col]]]
  BY DEF FullClean, CleanRaises
<1>2. ASSUME NEW col \in StrictCols, col \in cleaned
      PROVE  Read(Conf(w), col, inst[w][col]) = inst[w][col]
  <2>1. inst[w][col] \in Value /\ inst[w][col].layers = <<>>
    BY DEF TypeOK, InstancesShowTexts
  <2>2. ~ReadRaises(Conf(w), col, inst[w][col])
    BY <1>1, <1>2
  <2>3. Conf(w) \in Config
    BY ConfType
  <2> QED  BY <2>1, <2>2, <2>3, CleanStrict
<1> QED  BY <1>1, <1>2 DEF TypeOK

LEMMA StrictNext == StrictInv /\ [Next]_vars => StrictInv'
<1> SUFFICES ASSUME StrictInv, [Next]_vars PROVE StrictInv'
  OBVIOUS
<1> USE CipherAssumption DEF StrictInv
<1>0. TypeOK'
  BY TypeNext
<1>1. ASSUME NEW w \in Workers, NEW p \in Pks, Load(w, p) PROVE StrictInv'
  <2>1. ASSUME NEW col \in StrictCols PROVE Read(Conf(w), col, row[p][col]).layers = <<>>
    BY <1>1, ConfType, ReadStrict DEF Load, TypeOK, StrictOnceEncrypted
  <2> QED  BY <1>0, <1>1, <2>1 DEF Load, TypeOK, db, StrictOnceEncrypted, InstancesShowTexts
<1>2. ASSUME NEW w \in Workers, NEW p \in Pks, NEW f \in [Columns -> Texts \cup {Null}],
             Create(w, p, f)
      PROVE StrictInv'
  <2> DEFINE new == InModel(p, [col \in Columns |-> Plain(f[col])])
  <2>1. new \in [Columns -> Value] /\ \A col \in StrictCols : new[col].layers = <<>>
    BY NewShowsTexts
  <2>2. Preparable(w, new) /\ row' = [row EXCEPT ![p] = Prepared(w, new)]
        /\ inst' = [inst EXCEPT ![w] = new]
    BY <1>2 DEF Create
  <2> HIDE DEF new
  <2>3. \A col \in StrictCols : OnceEncrypted(col, Prepared(w, new)[col])
    BY <2>1, <2>2, PreparedStrict
  <2> QED  BY <1>0, <2>1, <2>2, <2>3 DEF TypeOK, StrictOnceEncrypted, InstancesShowTexts
<1>3. ASSUME NEW w \in Workers, NEW c \in Columns, SaveField(w, c) PROVE StrictInv'
  <2>1. ASSUME c \in StrictCols PROVE OnceEncrypted(c, Write(Conf(w), c, inst[w][c]))
    <3>1. inst[w][c] \in Value /\ inst[w][c].layers = <<>>
      BY <2>1 DEF TypeOK, InstancesShowTexts
    <3>2. ~WriteRaises(Conf(w), c, inst[w][c])
      BY <1>3 DEF SaveField
    <3> QED  BY <2>1, <3>1, <3>2, ConfType, WriteStrict
  <2>2. holding[w] \in Pks
    BY <1>3 DEF SaveField, TypeOK
  <2> QED  BY <1>0, <1>3, <2>1, <2>2 DEF SaveField, TypeOK, StrictOnceEncrypted, InstancesShowTexts
<1>4. ASSUME NEW w \in Workers, NEW c \in Columns, NEW x \in Texts \cup {Null},
             Assign(w, c, x)
      PROVE StrictInv'
  BY <1>0, <1>4 DEF Assign, TypeOK, db, Plain, StrictOnceEncrypted, InstancesShowTexts
<1>5. ASSUME NEW w \in Workers, FullClean(w) PROVE StrictInv'
  <2>1. \A u \in Workers, col \in StrictCols : inst'[u][col] = inst[u][col]
    BY <1>5, CleanKeepsStrict
  <2> QED  BY <1>0, <1>5, <2>1 DEF FullClean, db, StrictOnceEncrypted, InstancesShowTexts
<1>6. ASSUME NEW w \in Workers, Save(w) PROVE StrictInv'
  <2>1. \A col \in StrictCols : OnceEncrypted(col, Prepared(w, inst[w])[col])
    BY <1>6, PreparedStrict DEF Save, TypeOK, InstancesShowTexts
  <2>2. holding[w] \in Pks
    BY <1>6 DEF Save, TypeOK
  <2> QED  BY <1>0, <1>6, <2>1, <2>2 DEF Save, TypeOK, StrictOnceEncrypted, InstancesShowTexts
<1>7. ASSUME NEW w \in Workers, Delete(w) PROVE StrictInv'
  BY <1>0, <1>7, BlankStrict DEF Delete, TypeOK, StrictOnceEncrypted, InstancesShowTexts
<1>8. ASSUME NEW w \in Workers, Redeploy(w) PROVE StrictInv'
  BY <1>0, <1>8, BlankStrict DEF Redeploy, TypeOK, db, StrictOnceEncrypted, InstancesShowTexts
<1>9. CASE UNCHANGED vars
  BY <1>0, <1>9 DEF vars, StrictOnceEncrypted, InstancesShowTexts
<1> QED
  BY <1>1, <1>2, <1>3, <1>4, <1>5, <1>6, <1>7, <1>8, <1>9 DEF Next, Step

\* A strict column never holds plaintext, ciphertext of ciphertext, or a value
\* bound to another column, whatever settings the workers save it with.
THEOREM StrictColumnsOnceEncrypted == OwnInitialRows => (Spec => []StrictOnceEncrypted)
<1> SUFFICES ASSUME OwnInitialRows PROVE Spec => []StrictOnceEncrypted
  OBVIOUS
<1>1. Init => StrictInv
  BY StrictInit
<1>2. StrictInv => StrictOnceEncrypted
  BY DEF StrictInv
<1> QED  BY <1>1, <1>2, StrictNext, PTL DEF Spec

-----------------------------------------------------------------------------
(* Strict columns implement plain columns: PlainTable under the mapping of *)
(* stored values and attributes to texts.                                  *)

TextOrNull == Texts \cup {Null}
RowBar == [p \in Pks |-> [col \in StrictCols |-> Stored(row[p][col])]]
InstBar == [w \in Workers |-> [col \in StrictCols |-> Shown(inst[w][col])]]

LEMMA StoredOnce ==
  ASSUME NEW col \in StrictCols, NEW v \in Value, OnceEncrypted(col, v)
  PROVE  Stored(v) = v.text /\ Stored(v) \in TextOrNull
BY DEF Stored, OnceEncrypted, NullValue, Plain, Value, TextOrNull

LEMMA ShownText ==
  ASSUME NEW v \in Value, v.layers = <<>>
  PROVE  Shown(v) = v.text /\ Shown(v) \in TextOrNull
BY DEF Shown, Value, TextOrNull

\* The two facts every step of the simulation rests on: in a strict column a
\* row stands for its text, and an attribute shows its text.
LEMMA Mapped ==
  ASSUME StrictInv
  PROVE  /\ \A p \in Pks, col \in StrictCols :
              Stored(row[p][col]) = row[p][col].text /\ Stored(row[p][col]) \in TextOrNull
         /\ \A w \in Workers, col \in StrictCols :
              Shown(inst[w][col]) = inst[w][col].text /\ Shown(inst[w][col]) \in TextOrNull
<1> USE CipherAssumption DEF StrictInv
<1>1. ASSUME NEW p \in Pks, NEW col \in StrictCols
      PROVE Stored(row[p][col]) = row[p][col].text /\ Stored(row[p][col]) \in TextOrNull
  BY StoredOnce DEF TypeOK, StrictOnceEncrypted
<1>2. ASSUME NEW w \in Workers, NEW col \in StrictCols
      PROVE Shown(inst[w][col]) = inst[w][col].text /\ Shown(inst[w][col]) \in TextOrNull
  BY ShownText DEF TypeOK, InstancesShowTexts
<1> QED  BY <1>1, <1>2

LEMMA RefinementInit == StrictInv /\ Init => Plaintext!Init
<1> SUFFICES ASSUME StrictInv, Init PROVE Plaintext!Init
  OBVIOUS
<1> QED  BY Mapped DEF Plaintext!Init, Init, TextOrNull

LEMMA RefinementStep ==
  StrictInv /\ StrictInv' /\ [Next]_vars => [Plaintext!Next]_(Plaintext!vars)
<1> SUFFICES ASSUME StrictInv, StrictInv', [Next]_vars PROVE [Plaintext!Next]_(Plaintext!vars)
  OBVIOUS
<1> USE CipherAssumption
<1>t. TypeOK
  BY DEF StrictInv
<1>1. ASSUME NEW w \in Workers, NEW p \in Pks, Load(w, p) PROVE Plaintext!Load(w, p)
  <2>1. ASSUME NEW col \in StrictCols
        PROVE  Shown(Read(Conf(w), col, row[p][col])) = Stored(row[p][col])
    <3>1. ~ReadRaises(Conf(w), col, row[p][col]) /\ row[p][col] \in Value
      BY <1>1, <1>t DEF Load, TypeOK
    <3>2. OnceEncrypted(col, row[p][col])
      BY DEF StrictInv, StrictOnceEncrypted
    <3>3. Read(Conf(w), col, row[p][col]).layers = <<>>
          /\ Read(Conf(w), col, row[p][col]).text = row[p][col].text
      BY <1>t, <3>1, <3>2, ConfType, ReadStrict
    <3> QED  BY <3>1, <3>2, <3>3, StoredOnce DEF Shown
  <2>2. InstBar' = [InstBar EXCEPT ![w] = RowBar[p]]
    BY <1>1, <1>t, <2>1 DEF Load, InstBar, RowBar, TypeOK
  <2> QED  BY <1>1, <2>2 DEF Load, Plaintext!Load, InstBar, RowBar, db
<1>2. ASSUME NEW w \in Workers, NEW p \in Pks, NEW f \in [Columns -> Texts \cup {Null}],
             Create(w, p, f)
      PROVE \E g \in [StrictCols -> Texts \cup {Null, Garbled}] : Plaintext!Create(w, p, g)
  <2> DEFINE new == InModel(p, [col \in Columns |-> Plain(f[col])])
             g   == [col \in StrictCols |-> new[col].text]
  <2>1. new \in [Columns -> Value]
        /\ \A col \in StrictCols : new[col].layers = <<>> /\ new[col].text \in Texts \cup {Null}
    BY NewShowsTexts
  <2>2. Preparable(w, new) /\ row' = [row EXCEPT ![p] = Prepared(w, new)]
        /\ inst' = [inst EXCEPT ![w] = new]
    BY <1>2 DEF Create
  <2> HIDE DEF new
  <2>3. ASSUME NEW col \in StrictCols PROVE Stored(Prepared(w, new)[col]) = new[col].text
    <3>1. Prepared(w, new)[col] \in Value
      BY <2>1, <1>t, ConfType, WriteType DEF Prepared
    <3> QED  BY <1>t, <2>1, <2>2, <3>1, PreparedStrict, StoredOnce
  <2>4. [col \in StrictCols |-> Stored(Prepared(w, new)[col])] = g
    BY <2>3
  <2>5. [col \in StrictCols |-> Shown(new[col])] = g
    <3>1. ASSUME NEW col \in StrictCols PROVE Shown(new[col]) = new[col].text
      BY <2>1, ShownText
    <3> QED  BY <3>1
  <2>6. RowBar' = [RowBar EXCEPT ![p] = [col \in StrictCols |-> Stored(Prepared(w, new)[col])]]
    BY <1>t, <2>2 DEF RowBar, TypeOK
  <2>7. InstBar' = [InstBar EXCEPT ![w] = [col \in StrictCols |-> Shown(new[col])]]
    BY <1>t, <2>2 DEF InstBar, TypeOK
  <2>8. g \in [StrictCols -> Texts \cup {Null, Garbled}]
    BY <2>1
  <2>9. Plaintext!Create(w, p, g)
    BY <1>2, <2>4, <2>5, <2>6, <2>7 DEF Create, Plaintext!Create, RowBar, InstBar
  <2> QED  BY <2>8, <2>9
<1>3. ASSUME NEW w \in Workers, NEW c \in Columns, SaveField(w, c)
      PROVE  (c \in StrictCols /\ Plaintext!SaveField(w, c)) \/ UNCHANGED Plaintext!vars
  <2> DEFINE v == Write(Conf(w), c, inst[w][c])
  <2>1. holding[w] \in Pks /\ row' = [row EXCEPT ![holding[w]][c] = v]
    BY <1>3, <1>t DEF SaveField, TypeOK
  <2>2. CASE c \in StrictCols
    <3>1. inst[w][c] \in Value /\ inst[w][c].layers = <<>>
      BY <1>t, <2>2 DEF TypeOK, StrictInv, InstancesShowTexts
    <3>2. ~WriteRaises(Conf(w), c, inst[w][c])
      BY <1>3 DEF SaveField
    <3>3. v \in Value /\ OnceEncrypted(c, v) /\ v.text = inst[w][c].text
      BY <1>t, <2>2, <3>1, <3>2, ConfType, WriteStrict, WriteType
    <3>4. Stored(v) = Shown(inst[w][c])
      BY <2>2, <3>1, <3>3, StoredOnce, ShownText
    <3> HIDE DEF v
    <3>5. RowBar' = [RowBar EXCEPT ![holding[w]][c] = InstBar[w][c]]
      BY <1>t, <2>1, <2>2, <3>4 DEF RowBar, InstBar, TypeOK
    <3> QED  BY <1>3, <2>2, <3>5 DEF SaveField, Plaintext!SaveField, RowBar, InstBar
  <2>3. CASE c \notin StrictCols
    <3> HIDE DEF v
    <3>1. RowBar' = RowBar
      BY <1>t, <2>1, <2>3 DEF RowBar, TypeOK
    <3> QED  BY <1>3, <3>1 DEF SaveField, Plaintext!vars, RowBar
  <2> QED  BY <2>2, <2>3
<1>4. ASSUME NEW w \in Workers, NEW c \in Columns, NEW x \in Texts \cup {Null}, Assign(w, c, x)
      PROVE  (c \in StrictCols /\ Plaintext!Assign(w, c, x)) \/ UNCHANGED Plaintext!vars
  <2>1. inst' = [inst EXCEPT ![w][c] = Plain(x)]
    BY <1>4 DEF Assign
  <2>2. CASE c \in StrictCols
    <3>1. Shown(Plain(x)) = x
      BY DEF Shown, Plain
    <3>2. InstBar' = [InstBar EXCEPT ![w][c] = x]
      BY <1>t, <2>1, <2>2, <3>1 DEF InstBar, TypeOK
    <3> QED  BY <1>4, <2>2, <3>2 DEF Assign, Plaintext!Assign, InstBar, db
  <2>3. CASE c \notin StrictCols
    <3>1. InstBar' = InstBar
      BY <1>t, <2>1, <2>3 DEF InstBar, TypeOK
    <3> QED  BY <1>4, <3>1 DEF Assign, Plaintext!vars, InstBar, db
  <2> QED  BY <2>2, <2>3
<1>5. ASSUME NEW w \in Workers, FullClean(w) PROVE UNCHANGED Plaintext!vars
  <2>1. \A u \in Workers, col \in StrictCols : inst'[u][col] = inst[u][col]
    BY <1>5, CleanKeepsStrict
  <2>2. InstBar' = InstBar
    BY <2>1 DEF InstBar
  <2> QED  BY <1>5, <2>2 DEF FullClean, Plaintext!vars, InstBar, db
<1>6. ASSUME NEW w \in Workers, Save(w) PROVE Plaintext!Save(w)
  <2>1. ASSUME NEW col \in StrictCols
        PROVE  Stored(Prepared(w, inst[w])[col]) = Shown(inst[w][col])
    <3>1. inst[w] \in [Columns -> Value] /\ inst[w][col].layers = <<>>
      BY <1>t DEF TypeOK, StrictInv, InstancesShowTexts
    <3>2. Prepared(w, inst[w])[col] \in Value
      BY <1>t, <3>1, ConfType, WriteType DEF Prepared
    <3>3. Preparable(w, inst[w])
      BY <1>6 DEF Save
    <3> QED  BY <1>t, <3>1, <3>2, <3>3, PreparedStrict, StoredOnce, ShownText
  <2>2. RowBar' = [RowBar EXCEPT ![holding[w]] = InstBar[w]]
    BY <1>6, <1>t, <2>1 DEF Save, RowBar, InstBar, TypeOK
  <2> QED  BY <1>6, <2>2 DEF Save, Plaintext!Save, RowBar, InstBar
<1>b. /\ \A col \in StrictCols : Stored(Blank[col]) = Null /\ Shown(Blank[col]) = Null
  BY DEF Blank, Stored, Shown, NullValue, Plain
<1>7. ASSUME NEW w \in Workers, Delete(w) PROVE Plaintext!Delete(w)
  <2>1. RowBar' = [RowBar EXCEPT ![holding[w]] = [col \in StrictCols |-> Null]]
    BY <1>7, <1>t, <1>b DEF Delete, RowBar, TypeOK
  <2>2. InstBar' = [InstBar EXCEPT ![w] = [col \in StrictCols |-> Null]]
    BY <1>7, <1>t, <1>b DEF Delete, InstBar, TypeOK
  <2> QED  BY <1>7, <2>1, <2>2 DEF Delete, Plaintext!Delete, Plaintext!Blank, RowBar, InstBar
<1>8. ASSUME NEW w \in Workers, Redeploy(w) PROVE Plaintext!Forget(w)
  <2>1. InstBar' = [InstBar EXCEPT ![w] = [col \in StrictCols |-> Null]]
    BY <1>8, <1>t, <1>b DEF Redeploy, InstBar, TypeOK
  <2> QED  BY <1>8, <2>1 DEF Redeploy, Plaintext!Forget, Plaintext!Blank, InstBar, db
<1>9. CASE UNCHANGED vars
  BY <1>9 DEF vars, Plaintext!vars
<1> QED
  BY <1>1, <1>2, <1>3, <1>4, <1>5, <1>6, <1>7, <1>8, <1>9 DEF Next, Step, Plaintext!Next

\* The strict columns of a table behave as plain columns: encryption, changes of
\* settings and workers with different keys are not to be seen, other than in
\* calls that raise.
THEOREM StrictColumnsImplementPlain == OwnInitialRows => (Spec => StrictColumnsArePlain)
<1> SUFFICES ASSUME OwnInitialRows PROVE Spec => Plaintext!Spec
  BY DEF StrictColumnsArePlain
<1>1. Init => StrictInv /\ Plaintext!Init
  BY StrictInit, RefinementInit
<1> QED  BY <1>1, StrictNext, RefinementStep, PTL DEF Spec, Plaintext!Spec
=============================================================================
