---------------------------- MODULE RolloutProofs ---------------------------
(* The documented order of a rollout, for any sequence of settings, number *)
(* of workers, rows and columns, and any options of the columns: if a key  *)
(* is everywhere a worker may be by the time another one encrypts with it, *)
(* and stays, every worker can decrypt every row.                          *)
EXTENDS EncryptedTableProofs

Readable(c, col, v) == v.layers # <<>> => IsEncrypted(c, v) /\ Unlocks(c, col, v)

\* The assumptions: the key for new values of a column has the same master key in
\* all later settings, and in the earlier ones that a worker may still run with;
\* the rows from before were encrypted once, or not, and stay readable.
Staged ==
  \A i, j \in 1..Len(Rollout), col \in Columns :
    LET kid == WriteKey(Rollout[i], col) IN
    i <= j + MaxLag /\ KeyUsable(Rollout[i], kid) => Rollout[j].keys[kid] = Rollout[i].keys[kid]

ReadableBefore ==
  \A r \in InitialRows, col \in Columns :
    /\ Len(r[col].layers) <= 1
    /\ \A j \in 1..Len(Rollout) : Readable(Rollout[j], col, r[col])

\* Readable for a worker that is at stage n, now and after its redeployments.
ReadableFrom(n, col, v) ==
  /\ Len(v.layers) <= 1
  /\ \A j \in n..Len(Rollout) : Readable(Rollout[j], col, v)

RolloutInv ==
  /\ TypeOK
  /\ \A u, w \in Workers : stage[u] <= stage[w] + MaxLag
  /\ \A w \in Workers, p \in Pks, col \in Columns : ReadableFrom(stage[w], col, row[p][col])
  /\ \A w \in Workers, col \in Columns : inst[w][col].layers = <<>>

-----------------------------------------------------------------------------
LEMMA PlainReadable ==
  ASSUME NEW n, NEW col, NEW v, v.layers = <<>>
  PROVE  ReadableFrom(n, col, v)
BY DEF ReadableFrom, Readable

\* A value that is readable and encrypted at most once is read as a text.
LEMMA ReadsText ==
  ASSUME NEW c, NEW col, NEW v \in Value, Len(v.layers) <= 1, Readable(c, col, v)
  PROVE  Read(c, col, v).layers = <<>>
<1>1. CASE v.layers = <<>>
  BY <1>1 DEF Read, Unlocks, Opens
<1>2. CASE v.layers # <<>>
  <2>1. Read(c, col, v) = Peel(v)
    BY <1>2 DEF Read, Readable, NullValue, Plain
  <2>2. v.layers \in Seq(Layer) /\ Peel(v).layers = Tail(v.layers)
    BY DEF Value, Peel
  <2>3. Tail(v.layers) \in Seq(Layer) /\ Len(Tail(v.layers)) = 0
    <3>1. Len(v.layers) \in Nat /\ Len(v.layers) # 0
      BY <1>2, <2>2, EmptySeq
    <3>2. \A n \in Nat : n # 0 /\ n <= 1 => n = 1
      OBVIOUS
    <3>3. Len(v.layers) = 1
      BY <3>1, <3>2
    <3> QED  BY <1>2, <2>2, <3>3, HeadTailProperties
  <2> QED  BY <2>1, <2>2, <2>3, EmptySeq
<1> QED  BY <1>1, <1>2

\* What a worker writes of a text, every other one can read, now and later.
LEMMA WritesReadable ==
  ASSUME Staged, RolloutInv, NEW u \in Workers, NEW w \in Workers, NEW col \in Columns,
         NEW v \in Value, v.layers = <<>>
  PROVE  ReadableFrom(stage[w], col, Write(Conf(u), col, v))
<1> DEFINE kid == WriteKey(Conf(u), col)
           l   == [kid |-> kid, mat |-> Conf(u).keys[kid], aad |-> col]
<1>1. /\ stage[u] \in 1..Len(Rollout) /\ stage[w] \in 1..Len(Rollout)
      /\ stage[u] <= stage[w] + MaxLag /\ MaxLag \in Nat /\ Len(Rollout) \in Nat
      /\ Conf(u) = Rollout[stage[u]] /\ Conf(u) \in Config
  BY ConfType, TableAssumption, LenProperties DEF RolloutInv, TypeOK, Conf
<1>2. CASE v # NullValue /\ KeyUsable(Conf(u), kid)
  <2>1. Write(Conf(u), col, v) = Wrap(l, v)
    BY <1>2 DEF Write, Encrypt
  <2>2. kid \in KeyIds /\ Conf(u).keys[kid] \in Materials /\ Absent \notin Materials
    BY <1>1, <1>2, WriteKeyType, CipherAssumption DEF KeyUsable
  <2>3. l \in Layer
    BY <2>2 DEF Layer
  <2>4. LET s == Wrap(l, v).layers IN s # <<>> /\ Head(s) = l /\ Len(s) <= 1
    <3> HIDE DEF l
    <3>1. Len(v.layers) = 0
      OBVIOUS
    <3>2. /\ Wrap(l, v) \in Value /\ Wrap(l, v).layers[1] = l
          /\ Len(Wrap(l, v).layers) = Len(v.layers) + 1
      BY <2>3, WrapType
    <3>3. Wrap(l, v).layers \in Seq(Layer)
      BY <3>2 DEF Value
    <3> QED  BY <3>1, <3>2, <3>3
  <2>5. ASSUME NEW j \in stage[w]..Len(Rollout)
        PROVE  Readable(Rollout[j], col, Wrap(l, v))
    <3>1. j \in 1..Len(Rollout) /\ stage[u] <= j + MaxLag
      BY <1>1
    <3>2. Rollout[j].keys[kid] = Conf(u).keys[kid]
      BY <1>1, <1>2, <3>1 DEF Staged
    <3>3. l.kid = kid /\ l.mat = Conf(u).keys[kid] /\ l.aad = col
      OBVIOUS
    <3> HIDE DEF l
    <3> QED  BY <2>2, <2>4, <3>2, <3>3 DEF Readable, IsEncrypted, Prefix, Unlocks, Opens
  <2> HIDE DEF l
  <2> QED  BY <2>1, <2>4, <2>5 DEF ReadableFrom
<1>3. CASE ~(v # NullValue /\ KeyUsable(Conf(u), kid))
  BY <1>3, PlainReadable DEF Write
<1> QED  BY <1>2, <1>3

LEMMA RolloutInit == ReadableBefore /\ Init => RolloutInv
<1> SUFFICES ASSUME ReadableBefore, Init PROVE RolloutInv
  OBVIOUS
<1>1. PICK old \in [Pks -> InitialRows] :
        row = [p \in Pks |-> IF p \in present THEN InModel(p, old[p]) ELSE Blank]
  BY DEF Init
<1>2. ASSUME NEW w \in Workers, NEW p \in Pks, NEW col \in Columns
      PROVE  ReadableFrom(stage[w], col, row[p][col])
  <2>1. stage[w] = 1 /\ ReadableFrom(1, col, old[p][col])
    BY DEF Init, ReadableBefore, ReadableFrom
  <2>2. row[p][col] = old[p][col] \/ row[p][col] = NullValue
    BY <1>1 DEF InModel, Blank
  <2> QED  BY <2>1, <2>2, PlainReadable DEF NullValue, Plain
<1>3. \A u, w \in Workers : stage[u] <= stage[w] + MaxLag
  BY TableAssumption DEF Init
<1>4. \A w \in Workers, col \in Columns : inst[w][col].layers = <<>>
  BY DEF Init, Blank, NullValue, Plain
<1> QED  BY <1>2, <1>3, <1>4, TypeInit DEF RolloutInv

LEMMA RolloutNext == Staged /\ RolloutInv /\ [Next]_vars => RolloutInv'
<1> SUFFICES ASSUME Staged, RolloutInv, [Next]_vars PROVE RolloutInv'
  OBVIOUS
<1> USE DEF RolloutInv
<1>0. TypeOK /\ TypeOK'
  BY TypeNext
<1>1. CASE UNCHANGED vars
  BY <1>0, <1>1 DEF vars
<1>2. ASSUME NEW w \in Workers, NEW p \in Pks, Load(w, p) PROVE RolloutInv'
  <2>1. \A col \in Columns : Read(Conf(w), col, row[p][col]).layers = <<>>
    <3> SUFFICES ASSUME NEW col \in Columns PROVE Read(Conf(w), col, row[p][col]).layers = <<>>
      OBVIOUS
    <3>1. stage[w] \in stage[w]..Len(Rollout) /\ row[p][col] \in Value
      BY <1>0, TableAssumption, LenProperties DEF TypeOK
    <3> QED  BY <3>1, ReadsText DEF ReadableFrom, Conf
  <2> QED  BY <1>0, <1>2, <2>1 DEF Load, db, TypeOK
<1>3. ASSUME NEW u \in Workers, NEW p \in Pks, NEW f \in [Columns -> Texts \cup {Null}],
             Create(u, p, f)
      PROVE  RolloutInv'
  <2> DEFINE new == InModel(p, [col \in Columns |-> Plain(f[col])])
  <2>1. new \in [Columns -> Value] /\ \A col \in Columns : new[col].layers = <<>>
    BY NewShowsTexts
  <2>2. /\ row' = [row EXCEPT ![p] = Prepared(u, new)]
        /\ inst' = [inst EXCEPT ![u] = new] /\ stage' = stage
    BY <1>3 DEF Create
  <2> HIDE DEF new
  <2>3. \A w \in Workers, col \in Columns : ReadableFrom(stage[w], col, Prepared(u, new)[col])
    BY <2>1, WritesReadable DEF Prepared
  <2> QED  BY <1>0, <2>1, <2>2, <2>3 DEF TypeOK
<1>4. ASSUME NEW u \in Workers, NEW col \in Columns, SaveField(u, col) PROVE RolloutInv'
  <2>1. \A w \in Workers : ReadableFrom(stage[w], col, Write(Conf(u), col, inst[u][col]))
    BY <1>0, WritesReadable DEF TypeOK
  <2> QED  BY <1>0, <1>4, <2>1 DEF SaveField, TypeOK
<1>5. ASSUME NEW u \in Workers, Save(u) PROVE RolloutInv'
  <2>1. \A w \in Workers, col \in Columns : ReadableFrom(stage[w], col, Prepared(u, inst[u])[col])
    BY <1>0, WritesReadable DEF Prepared, TypeOK
  <2> QED  BY <1>0, <1>5, <2>1 DEF Save, TypeOK
<1>6. ASSUME NEW u \in Workers, Delete(u) PROVE RolloutInv'
  <2>1. \A w \in Workers, col \in Columns :
          Blank[col].layers = <<>> /\ ReadableFrom(stage[w], col, Blank[col])
    BY PlainReadable DEF Blank, NullValue, Plain
  <2> QED  BY <1>0, <1>6, <2>1 DEF Delete, TypeOK
<1>7. ASSUME NEW u \in Workers, NEW col \in Columns, NEW x \in Texts \cup {Null},
             Assign(u, col, x)
      PROVE  RolloutInv'
  BY <1>0, <1>7 DEF Assign, Plain, db, TypeOK
<1>8. ASSUME NEW u \in Workers, FullClean(u) PROVE RolloutInv'
  <2>1. \A col \in Columns : Read(Conf(u), col, inst[u][col]) = inst[u][col]
    BY DEF Read, Unlocks, Opens
  <2> QED  BY <1>0, <1>8, <2>1 DEF FullClean, db, TypeOK
<1>9. ASSUME NEW u \in Workers, Redeploy(u) PROVE RolloutInv'
  <2>1. /\ stage' = [stage EXCEPT ![u] = @ + 1] /\ row' = row
        /\ \A w \in Workers : stage[u] + 1 <= stage[w] + MaxLag \/ w = u
        /\ inst' = [inst EXCEPT ![u] = Blank]
    BY <1>9 DEF Redeploy, db
  <2>2. \A w \in Workers : stage[w] \in Nat /\ stage'[w] \in Nat /\ stage[w] <= stage'[w]
    BY <1>0, <2>1 DEF TypeOK
  <2>3. \A v, w \in Workers : stage'[v] <= stage'[w] + MaxLag
    BY <1>0, <2>1, <2>2, TableAssumption DEF TypeOK
  <2>4. \A w \in Workers, p \in Pks, col \in Columns : ReadableFrom(stage'[w], col, row'[p][col])
    BY <2>1, <2>2, TableAssumption, LenProperties DEF ReadableFrom
  <2>5. \A w \in Workers, col \in Columns : inst'[w][col].layers = <<>>
    BY <1>0, <2>1 DEF Blank, NullValue, Plain, TypeOK
  <2> QED  BY <1>0, <2>3, <2>4, <2>5
<1> QED
  BY <1>1, <1>2, <1>3, <1>4, <1>5, <1>6, <1>7, <1>8, <1>9 DEF Next, Step

\* In a rollout in the documented order every worker can decrypt every
\* ciphertext, also what workers that are ahead of it wrote.
THEOREM EveryRowStaysReadable == Staged /\ ReadableBefore => (Spec => []EveryRowReadable)
<1> SUFFICES ASSUME Staged, ReadableBefore PROVE Spec => []EveryRowReadable
  OBVIOUS
<1>1. Init => RolloutInv
  BY RolloutInit
<1>2. RolloutInv /\ [Next]_vars => RolloutInv'
  BY RolloutNext
<1>3. RolloutInv => EveryRowReadable
  <2> SUFFICES ASSUME RolloutInv, NEW w \in Workers, NEW p \in present, NEW col \in Columns
               PROVE  Readable(Conf(w), col, row[p][col])
    BY DEF EveryRowReadable, Readable
  <2>1. stage[w] \in stage[w]..Len(Rollout) /\ p \in Pks
    BY TableAssumption, LenProperties DEF RolloutInv, TypeOK
  <2> QED  BY <2>1 DEF RolloutInv, ReadableFrom, Conf
<1> QED  BY <1>1, <1>2, <1>3, PTL DEF Spec
=============================================================================
