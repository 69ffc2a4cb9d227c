-------------------------- MODULE BlindIndexProofs --------------------------
(* A blind index over a strict column, its key pinned or not, for any      *)
(* number of workers, rows and texts and any sequence of settings that     *)
(* replaces no key it hashes with: what lookups find; and that texts are   *)
(* unique if its key is pinned.                                            *)
EXTENDS BlindIndex, EncryptedTableProofs

\* The assumptions: a key id the index hashes with in some settings has the same
\* master key wherever it has one at all; at first it has one.
IndexKeysKept ==
  /\ KeyUsable(Rollout[1], IndexKey(Rollout[1]))
  /\ \A i, j \in 1..Len(Rollout) :
       LET kid == IndexKey(Rollout[i]) IN
       KeyUsable(Rollout[i], kid) /\ KeyUsable(Rollout[j], kid) =>
         Rollout[j].keys[kid] = Rollout[i].keys[kid]

\* The rows from before hold texts that the first settings can decrypt.
IndexableRows ==
  \A r \in InitialRows :
    /\ r[Indexed].text = Null => r[Indexed] = NullValue
    /\ ~ReadRaises(Rollout[1], Indexed, r[Indexed])

IndexedStrictly == OwnInitialRows /\ IndexKeysKept /\ IndexableRows /\ Indexed \in StrictCols

Pinned == IndexPin \in KeyIds

\* A hash of a text: that in some of the settings.
IsHashOf(h, x) ==
  IF x = Null THEN h = NoHash
  ELSE \E i \in 1..Len(Rollout) :
         /\ KeyUsable(Rollout[i], IndexKey(Rollout[i]))
         /\ h = ComputeHash(Rollout[i], IndexKey(Rollout[i]), Plain(x))

IndexInv ==
  /\ StrictInv
  /\ IndexTypeOK
  /\ \A p \in Pks : row[p][Indexed].text = Null => row[p][Indexed] = NullValue
  /\ \A p \in present \ outdated : IsHashOf(hash[p], row[p][Indexed].text)
  /\ \A p, q \in present : hash[p] = hash[q] /\ hash[p] # NoHash => p = q

-----------------------------------------------------------------------------
(* Hashes.                                                                 *)

\* A hash is typed, and tells of what it is one.
LEMMA HashTells ==
  ASSUME NEW x \in Texts \cup {Null}, NEW h, IsHashOf(h, x)
  PROVE  /\ h \in Hash \cup {NoHash}
         /\ x = Null => h = NoHash
         /\ x # Null => h # NoHash /\ h.of = Plain(x)
<1>1. CASE x = Null
  BY <1>1 DEF IsHashOf
<1>2. CASE x # Null
  <2>1. PICK i \in 1..Len(Rollout) :
          /\ KeyUsable(Rollout[i], IndexKey(Rollout[i]))
          /\ h = ComputeHash(Rollout[i], IndexKey(Rollout[i]), Plain(x))
    BY <1>2 DEF IsHashOf
  <2> DEFINE kid == IndexKey(Rollout[i])
  <2>2. Rollout[i] \in Config
    BY TableAssumption
  <2>3. kid \in KeyIds
    BY <2>1, <2>2, IndexAssumption DEF IndexKey, KeyUsable, Config
  <2>4. Rollout[i].keys[kid] \in Materials /\ Plain(x) \in Value
    BY <2>1, PlainType DEF KeyUsable
  <2>5. h = [kid |-> kid, mat |-> Rollout[i].keys[kid], of |-> Plain(x)]
    BY <2>1 DEF ComputeHash
  <2> HIDE DEF kid
  <2>6. h \in Hash /\ h.of = Plain(x)
    BY <2>3, <2>4, <2>5 DEF Hash
  <2> QED  BY <1>2, <2>6, IndexAssumption
<1> QED  BY <1>1, <1>2

LEMMA HashOfText ==
  ASSUME NEW x \in Texts \cup {Null}, NEW h, IsHashOf(h, x), h # NoHash
  PROVE  x # Null /\ h.of = Plain(x) /\ h.of.layers = <<>>
<1>1. x # Null /\ h.of = Plain(x)
  BY HashTells
<1>2. Plain(x).layers = <<>>
  BY DEF Plain
<1> QED  BY <1>1, <1>2

\* Different texts have different hashes.
LEMMA HashInjective ==
  ASSUME NEW x \in Texts \cup {Null}, NEW y \in Texts \cup {Null}, NEW h,
         IsHashOf(h, x), IsHashOf(h, y)
  PROVE  x = y
<1>1. /\ x = Null => h = NoHash
      /\ x # Null => h # NoHash /\ h.of = Plain(x)
  BY HashTells
<1>2. /\ y = Null => h = NoHash
      /\ y # Null => h # NoHash /\ h.of = Plain(y)
  BY HashTells
<1> QED  BY <1>1, <1>2 DEF Plain

\* With a pinned key, a text has one hash.
LEMMA PinnedHash ==
  ASSUME IndexKeysKept, Pinned, NEW x, NEW g, NEW h, IsHashOf(g, x), IsHashOf(h, x)
  PROVE  g = h
<1>1. CASE x = Null
  BY <1>1 DEF IsHashOf
<1>2. CASE x # Null
  <2>1. \A c : IndexKey(c) = IndexPin
    BY CipherAssumption DEF IndexKey, Pinned
  <2>2. PICK i \in 1..Len(Rollout) : /\ KeyUsable(Rollout[i], IndexPin)
                                     /\ g = ComputeHash(Rollout[i], IndexPin, Plain(x))
    BY <1>2, <2>1 DEF IsHashOf
  <2>3. PICK j \in 1..Len(Rollout) : /\ KeyUsable(Rollout[j], IndexPin)
                                     /\ h = ComputeHash(Rollout[j], IndexPin, Plain(x))
    BY <1>2, <2>1 DEF IsHashOf
  <2>4. Rollout[j].keys[IndexPin] = Rollout[i].keys[IndexPin]
    BY <2>1, <2>2, <2>3 DEF IndexKeysKept
  <2> QED  BY <2>2, <2>3, <2>4 DEF ComputeHash
<1> QED  BY <1>1, <1>2

LEMMA PlainValue == ASSUME NEW v \in Value, v.layers = <<>> PROVE v = Plain(v.text)
BY DEF Value, Plain

\* What the receiver computes from a text is a hash of it, in any of the settings.
LEMMA PreSaveText ==
  ASSUME NEW i \in 1..Len(Rollout), NEW v \in Value, v.layers = <<>>,
         ~HashRaises(Rollout[i], v), NEW h
  PROVE  IsHashOf(PreSave(Rollout[i], v, h), v.text)
<1>1. v = Plain(v.text)
  BY PlainValue
<1>2. CASE v = NullValue
  BY <1>2 DEF PreSave, IsHashOf, NullValue, Plain
<1>3. CASE v # NullValue
  <2>1. v.text # Null
    BY <1>1, <1>3 DEF NullValue
  <2>2. KeyUsable(Rollout[i], IndexKey(Rollout[i]))
    BY <1>3 DEF HashRaises
  <2>3. PreSave(Rollout[i], v, h) = ComputeHash(Rollout[i], IndexKey(Rollout[i]), Plain(v.text))
    BY <1>1, <1>3 DEF PreSave
  <2> QED  BY <2>1, <2>2, <2>3 DEF IsHashOf
<1> QED  BY <1>2, <1>3

LEMMA StoreHashIn ==
  ASSUME NEW i \in 1..Len(Rollout), NEW p \in Pks, NEW v \in Value, v.layers = <<>>,
         StoreHash(Rollout[i], p, v)
  PROVE  \E g : /\ IsHashOf(g, v.text)
                /\ hash' = [hash EXCEPT ![p] = g]
                /\ \A q \in present \ {p} : hash[q] = g => g = NoHash
<1> DEFINE g == PreSave(Rollout[i], v, hash[p])
<1>1. ~HashRaises(Rollout[i], v) /\ Unique(p, g)
  BY DEF StoreHash, Storable
<1>2. IsHashOf(g, v.text) /\ v.text \in Texts \cup {Null}
  BY <1>1, PreSaveText DEF Value
<1>3. hash' = [hash EXCEPT ![p] = g]
  BY DEF StoreHash
<1> HIDE DEF g
<1>4. g # NoHash => g.of.layers = <<>>
  BY <1>2, HashOfText
<1>5. \A q \in present \ {p} : hash[q] = g => g = NoHash
  BY <1>1, <1>4 DEF Unique
<1> QED  BY <1>2, <1>3, <1>5

LEMMA StoreHashText ==
  ASSUME IndexInv, NEW w \in Workers, NEW p \in Pks, NEW v \in Value, v.layers = <<>>,
         StoreHash(Conf(w), p, v)
  PROVE  \E g : /\ IsHashOf(g, v.text)
                /\ hash' = [hash EXCEPT ![p] = g]
                /\ \A q \in present \ {p} : hash[q] = g => g = NoHash
<1>1. stage[w] \in 1..Len(Rollout) /\ Conf(w) = Rollout[stage[w]]
  BY DEF IndexInv, StrictInv, TypeOK, Conf
<1>2. StoreHash(Rollout[stage[w]], p, v)
  BY <1>1
<1> QED  BY <1>1, <1>2, StoreHashIn

-----------------------------------------------------------------------------
LEMMA IndexInvInit == IndexedStrictly /\ IndexInit => IndexInv
<1> SUFFICES ASSUME IndexedStrictly, IndexInit PROVE IndexInv
  OBVIOUS
<1> USE DEF IndexedStrictly
<1>1. StrictInv
  BY StrictInit DEF IndexInit
<1>2. Rollout[1] \in Config /\ 1 \in 1..Len(Rollout)
  BY TableAssumption, EmptySeq
<1>3. Indexed \in Columns
  BY IndexAssumption
<1>4. ASSUME NEW p \in Pks
      PROVE  /\ row[p][Indexed].text = Null => row[p][Indexed] = NullValue
             /\ IsHashOf(hash[p], row[p][Indexed].text)
             /\ row[p][Indexed].text \in Texts \cup {Null}
  <2> DEFINE v == row[p][Indexed]
             t == Read(Rollout[1], Indexed, v)
  <2>1. v \in Value /\ OnceEncrypted(Indexed, v)
    BY <1>1, <1>3 DEF StrictInv, TypeOK, StrictOnceEncrypted
  <2>2. v = NullValue \/ \E r \in InitialRows : v = r[Indexed]
    <3>1. PICK old \in [Pks -> InitialRows] :
            row = [q \in Pks |-> IF q \in present THEN InModel(q, old[q]) ELSE Blank]
      BY DEF IndexInit, Init
    <3> QED  BY <1>3, <3>1 DEF InModel, Blank
  <2>3. ~ReadRaises(Rollout[1], Indexed, v) /\ (v.text = Null => v = NullValue)
    BY <2>2 DEF IndexableRows, ReadRaises
  <2>4. t.layers = <<>> /\ t.text = v.text /\ t \in Value
    BY <1>2, <1>3, <2>1, <2>3, ReadStrict, ReadType
  <2>5. hash[p] = PreSave(Rollout[1], t, NoHash)
    BY DEF IndexInit
  <2>6. ~HashRaises(Rollout[1], t)
    BY DEF HashRaises, IndexKeysKept
  <2> HIDE DEF v, t
  <2>7. IsHashOf(hash[p], t.text)
    BY <1>2, <2>4, <2>5, <2>6, PreSaveText
  <2> QED  BY <2>1, <2>3, <2>4, <2>7 DEF v, Value
<1>5. hash \in [Pks -> Hash \cup {NoHash}]
  <2>1. \A p \in Pks : hash[p] \in Hash \cup {NoHash}
    BY <1>4, HashTells
  <2> QED  BY <2>1 DEF IndexInit
<1>6. ASSUME NEW p \in present, NEW q \in present, hash[p] = hash[q], hash[p] # NoHash PROVE p = q
  <2>1. p \in Pks /\ Unique(p, hash[p])
    BY <1>1 DEF IndexInit, StrictInv, TypeOK
  <2>2. hash[p].of.layers = <<>>
    <3>1. IsHashOf(hash[p], row[p][Indexed].text) /\ row[p][Indexed].text \in Texts \cup {Null}
      BY <1>4, <2>1
    <3> QED  BY <1>6, <3>1, HashOfText
  <2> QED  BY <1>6, <2>1, <2>2 DEF Unique
<1> QED  BY <1>1, <1>4, <1>5, <1>6 DEF IndexInv, IndexTypeOK, IndexInit, StrictInv, TypeOK

\* Each action is a step of the table.
LEMMA StepsOfTable == [IndexNext]_indexVars => [Next]_vars
<1> SUFFICES ASSUME IndexNext PROVE Next
  BY DEF indexVars, vars
<1>1. PICK w \in Workers : IndexedStep(w)
  BY DEF IndexNext
<1>2. Step(w)
  BY <1>1 DEF IndexedStep, IndexedCreate, IndexedSave, IndexedSaveField, IndexedDelete, Unindexed, Step
<1> QED  BY <1>2 DEF Next

\* A row that is written together with a hash of the text x.
LEMMA SavedTogether ==
  ASSUME IndexedStrictly, IndexInv, StrictInv', NEW p \in Pks, NEW x \in Texts \cup {Null},
         NEW g, IsHashOf(g, x), hash' = [hash EXCEPT ![p] = g],
         \A q \in present \ {p} : hash[q] = g => g = NoHash,
         present' \subseteq present \cup {p},
         \A q \in Pks \ {p} : row'[q][Indexed] = row[q][Indexed],
         row'[p][Indexed].text = Null => row'[p][Indexed] = NullValue,
         \A q \in Pks \ {p} : q \in outdated' <=> q \in outdated,
         outdated' \subseteq Pks,
         p \in outdated' \/ p \notin present' \/ row'[p][Indexed].text = x
  PROVE  IndexInv'
<1> USE DEF IndexInv, IndexTypeOK
<1>p. present \subseteq Pks /\ present' \subseteq Pks
  BY DEF StrictInv, TypeOK
<1>1. hash' \in [Pks -> Hash \cup {NoHash}]
  <2>1. g \in Hash \cup {NoHash}
    BY HashTells
  <2> QED  BY <2>1
<1>2. \A q \in Pks : row'[q][Indexed].text = Null => row'[q][Indexed] = NullValue
  OBVIOUS
<1>3. \A q \in present' \ outdated' : IsHashOf(hash'[q], row'[q][Indexed].text)
  <2> TAKE q \in present' \ outdated'
  <2>1. CASE q = p
    BY <1>p, <2>1
  <2>2. CASE q # p
    <3>1. hash'[q] = hash[q] /\ row'[q][Indexed] = row[q][Indexed] /\ q \in present \ outdated
      BY <1>p, <2>2
    <3> QED  BY <3>1
  <2> QED  BY <2>1, <2>2
<1>4. ASSUME NEW q \in present', NEW r \in present', hash'[q] = hash'[r], hash'[q] # NoHash
      PROVE  q = r
  BY <1>4, <1>p
<1> QED  BY <1>1, <1>2, <1>3, <1>4

\* Writing a text: what is stored has it.
LEMMA WrittenText ==
  ASSUME NEW c \in Config, Indexed \in StrictCols, NEW v \in Value, v.layers = <<>>,
         ~WriteRaises(c, Indexed, v)
  PROVE  /\ Write(c, Indexed, v).text = v.text
         /\ v.text = Null => Write(c, Indexed, v) = NullValue
<1>1. Write(c, Indexed, v).text = v.text
  BY WriteStrict
<1>2. v.text = Null => v = NullValue
  BY PlainValue DEF NullValue
<1> QED  BY <1>1, <1>2 DEF Write

LEMMA IndexInvNext == IndexedStrictly /\ IndexInv /\ [IndexNext]_indexVars => IndexInv'
<1> SUFFICES ASSUME IndexedStrictly, IndexInv, [IndexNext]_indexVars PROVE IndexInv'
  OBVIOUS
<1>a. Indexed \in StrictCols /\ Indexed \in Columns
  BY IndexAssumption DEF IndexedStrictly
<1>b. StrictInv' /\ StrictInv /\ TypeOK /\ TypeOK'
  BY StepsOfTable, StrictNext DEF IndexInv, StrictInv
<1>c. \A w \in Workers : /\ inst[w][Indexed] \in Value /\ inst[w][Indexed].layers = <<>>
                          /\ inst[w][Indexed].text \in Texts \cup {Null}
                          /\ Conf(w) \in Config
  BY <1>a, <1>b, ConfType DEF StrictInv, TypeOK, InstancesShowTexts, Value
<1>h. outdated \subseteq Pks /\ hash \in [Pks -> Hash \cup {NoHash}]
  BY DEF IndexInv, IndexTypeOK
<1>1. ASSUME NEW w \in Workers, NEW p \in Pks, NEW f \in [Columns -> Texts \cup {Null}],
             IndexedCreate(w, p, f)
      PROVE  IndexInv'
  <2> DEFINE new == InModel(p, [col \in Columns |-> Plain(f[col])])
             v   == Plain(f[Indexed])
  <2>1. v \in Value /\ v.layers = <<>> /\ v.text \in Texts \cup {Null}
    BY <1>a, PlainType DEF Plain
  <2>2. new \in [Columns -> Value] /\ new[Indexed] = v
    BY <1>a, NewShowsTexts, IndexAssumption DEF InModel
  <2>3. /\ StoreHash(Conf(w), p, v)
        /\ outdated' = outdated \ {p} /\ present' = present \cup {p}
        /\ row' = [row EXCEPT ![p] = Prepared(w, new)] /\ Preparable(w, new)
    BY <1>1 DEF IndexedCreate, Create
  <2> HIDE DEF new, v
  <2>4. row'[p][Indexed] = Write(Conf(w), Indexed, v) /\ ~WriteRaises(Conf(w), Indexed, v)
    BY <1>a, <1>b, <2>2, <2>3 DEF Prepared, Preparable, TypeOK
  <2>5. row'[p][Indexed].text = v.text /\ (v.text = Null => row'[p][Indexed] = NullValue)
    BY <1>a, <1>c, <2>1, <2>4, WrittenText
  <2>6. PICK g : /\ IsHashOf(g, v.text)
                /\ hash' = [hash EXCEPT ![p] = g]
                /\ \A q \in present \ {p} : hash[q] = g => g = NoHash
    BY <1>a, <2>1, <2>3, StoreHashText
  <2>7. \A q \in Pks \ {p} : row'[q][Indexed] = row[q][Indexed]
    BY <1>b, <2>3 DEF TypeOK
  <2> QED  BY <1>b, <1>h, <2>1, <2>3, <2>5, <2>6, <2>7, SavedTogether
<1>2. ASSUME NEW w \in Workers, IndexedSave(w) PROVE IndexInv'
  <2> DEFINE p == holding[w]
             v == inst[w][Indexed]
  <2>1. p \in Pks
    BY <1>2, <1>b DEF IndexedSave, Save, TypeOK
  <2>2. v \in Value /\ v.layers = <<>> /\ v.text \in Texts \cup {Null}
    BY <1>c
  <2>3. /\ StoreHash(Conf(w), p, v)
        /\ outdated' = outdated \ {p} /\ present' = present \cup {p}
        /\ row' = [row EXCEPT ![p] = Prepared(w, inst[w])] /\ Preparable(w, inst[w])
    BY <1>2 DEF IndexedSave, Save
  <2>4. row'[p][Indexed] = Write(Conf(w), Indexed, v) /\ ~WriteRaises(Conf(w), Indexed, v)
    BY <1>a, <1>b, <2>1, <2>3 DEF Prepared, Preparable, TypeOK
  <2>7. \A q \in Pks \ {p} : row'[q][Indexed] = row[q][Indexed]
    BY <1>b, <2>3 DEF TypeOK
  <2> HIDE DEF p, v
  <2>5. row'[p][Indexed].text = v.text /\ (v.text = Null => row'[p][Indexed] = NullValue)
    BY <1>a, <1>c, <2>2, <2>4, WrittenText
  <2>6. PICK g : /\ IsHashOf(g, v.text)
                /\ hash' = [hash EXCEPT ![p] = g]
                /\ \A q \in present \ {p} : hash[q] = g => g = NoHash
    BY <1>a, <2>1, <2>2, <2>3, StoreHashText
  <2> QED  BY <1>b, <1>h, <2>1, <2>2, <2>3, <2>5, <2>6, <2>7, SavedTogether
<1>3. ASSUME NEW w \in Workers, NEW col \in Columns, NEW both \in BOOLEAN,
             IndexedSaveField(w, col, both)
      PROVE  IndexInv'
  <2> DEFINE p == holding[w]
             v == inst[w][Indexed]
  <2>1. p \in Pks /\ p \in present /\ present' = present
    BY <1>3, <1>b DEF IndexedSaveField, SaveField, TypeOK
  <2>2. v \in Value /\ v.layers = <<>> /\ v.text \in Texts \cup {Null}
    BY <1>c
  <2>3. /\ row' = [row EXCEPT ![p][col] = Write(Conf(w), col, inst[w][col])]
        /\ ~WriteRaises(Conf(w), col, inst[w][col])
    BY <1>3 DEF IndexedSaveField, SaveField
  <2>7. \A q \in Pks \ {p} : row'[q][Indexed] = row[q][Indexed]
    BY <1>b, <2>3 DEF TypeOK
  <2>8. col # Indexed => row'[p][Indexed] = row[p][Indexed]
    BY <1>a, <1>b, <2>1, <2>3 DEF TypeOK
  <2>9. col = Indexed => row'[p][Indexed] = Write(Conf(w), Indexed, v) /\ ~WriteRaises(Conf(w), Indexed, v)
    BY <1>a, <1>b, <2>1, <2>3 DEF TypeOK
  <2>o. /\ outdated' \in {outdated, outdated \cup {p}, outdated \ {p}}
        /\ both /\ col # Indexed => p \in outdated'
        /\ ~both /\ col = Indexed => p \in outdated'
        /\ ~both => outdated \subseteq outdated'
    BY <1>3 DEF IndexedSaveField
  <2>s. both => StoreHash(Conf(w), p, v)
    BY <1>3 DEF IndexedSaveField
  <2>u. ~both => hash' = hash
    BY <1>3 DEF IndexedSaveField
  <2> HIDE DEF p, v
  <2>5. /\ col = Indexed => row'[p][Indexed].text = v.text
        /\ row'[p][Indexed].text = Null => row'[p][Indexed] = NullValue
    <3>1. CASE col = Indexed
      BY <1>a, <1>c, <2>2, <2>9, <3>1, WrittenText
    <3>2. CASE col # Indexed
      BY <2>1, <2>8, <3>2 DEF IndexInv
    <3> QED  BY <3>1, <3>2
  <2>b. CASE both
    <3>1. PICK g : /\ IsHashOf(g, v.text)
                  /\ hash' = [hash EXCEPT ![p] = g]
                  /\ \A q \in present \ {p} : hash[q] = g => g = NoHash
      BY <1>a, <2>1, <2>2, <2>s, <2>b, StoreHashText
    <3>2. p \in outdated' \/ row'[p][Indexed].text = v.text
      BY <2>5, <2>o, <2>b
    <3>3. outdated' \subseteq Pks /\ \A q \in Pks \ {p} : q \in outdated' <=> q \in outdated
      BY <1>h, <2>1, <2>o
    <3> QED  BY <1>b, <2>1, <2>2, <2>5, <2>7, <3>1, <3>2, <3>3, SavedTogether
  <2>n. CASE ~both
    <3>1. \A q \in present' \ outdated' : q \in Pks /\ row'[q][Indexed] = row[q][Indexed] /\ q \notin outdated
      BY <1>b, <2>1, <2>7, <2>8, <2>o, <2>n DEF TypeOK
    <3>2. \A q \in Pks : row'[q][Indexed].text = Null => row'[q][Indexed] = NullValue
      BY <2>5, <2>7 DEF IndexInv
    <3>3. IndexTypeOK'
      BY <1>h, <2>1, <2>o, <2>u, <2>n DEF IndexTypeOK
    <3> QED  BY <1>b, <2>1, <2>u, <2>n, <3>1, <3>2, <3>3 DEF IndexInv
  <2> QED  BY <2>b, <2>n
<1>4. ASSUME NEW w \in Workers, IndexedDelete(w) PROVE IndexInv'
  <2> DEFINE p == holding[w]
  <2>1. p \in Pks
    BY <1>4, <1>b DEF IndexedDelete, Delete, TypeOK
  <2>2. /\ hash' = [hash EXCEPT ![p] = NoHash] /\ outdated' = outdated \ {p}
        /\ present' = present \ {p} /\ row' = [row EXCEPT ![p] = Blank]
    BY <1>4 DEF IndexedDelete, Delete
  <2>3. IsHashOf(NoHash, Null)
    BY DEF IsHashOf
  <2>4. /\ row'[p][Indexed] = NullValue
        /\ \A q \in Pks \ {p} : row'[q][Indexed] = row[q][Indexed]
    BY <1>a, <1>b, <2>1, <2>2 DEF TypeOK, Blank
  <2> HIDE DEF p
  <2> QED  BY <1>b, <1>h, <2>1, <2>2, <2>3, <2>4, SavedTogether
<1>5. ASSUME UNCHANGED <<present, row, hash, outdated>> PROVE IndexInv'
  BY <1>5, <1>b DEF IndexInv, IndexTypeOK
<1>6. ASSUME NEW w \in Workers, Unindexed(w) PROVE IndexInv'
  BY <1>5, <1>6 DEF Unindexed, Load, Assign, FullClean, Redeploy, db
<1>7. CASE UNCHANGED indexVars
  BY <1>5, <1>7 DEF indexVars, vars
<1> QED
  BY <1>1, <1>2, <1>3, <1>4, <1>6, <1>7 DEF IndexNext, IndexedStep

\* What the invariant means for the texts of rows, and for lookups.
LEMMA IndexInvUnique == ASSUME IndexedStrictly, Pinned, IndexInv PROVE UniqueTexts
<1> SUFFICES ASSUME NEW p \in present \ outdated, NEW q \in present \ outdated,
                    row[p][Indexed] # NullValue, row[q][Indexed].text = row[p][Indexed].text
             PROVE  p = q
  BY DEF UniqueTexts, HasText
<1>1. p \in Pks /\ row[p][Indexed].text \in Texts \cup {Null} /\ row[p][Indexed].text # Null
  BY IndexAssumption DEF IndexInv, StrictInv, TypeOK, Value
<1>2. IsHashOf(hash[p], row[p][Indexed].text) /\ IsHashOf(hash[q], row[p][Indexed].text)
  BY DEF IndexInv
<1>3. hash[p] # NoHash /\ hash[p] = hash[q]
  BY <1>1, <1>2, HashTells, PinnedHash DEF IndexedStrictly
<1> QED  BY <1>3 DEF IndexInv

LEMMA IndexInvFinds == ASSUME IndexedStrictly, IndexInv PROVE LookupFindsTexts
<1> SUFFICES ASSUME NEW w \in Workers, NEW x \in Texts, CanHash(Conf(w)),
                    NEW p \in present \ outdated
             PROVE  hash[p] = ComputeHash(Conf(w), Conf(w).active, Plain(x))
                      <=> HasText(p, x) /\ HashedWith(p, Conf(w).active)
  BY DEF LookupFindsTexts, Matches
<1> DEFINE kid == Conf(w).active
           t   == row[p][Indexed].text
<1>1. /\ stage[w] \in 1..Len(Rollout) /\ Conf(w) = Rollout[stage[w]]
      /\ KeyUsable(Conf(w), kid) /\ x # Null
  BY CipherAssumption DEF IndexInv, StrictInv, TypeOK, Conf, CanHash
<1>2. /\ row[p][Indexed] \in Value /\ OnceEncrypted(Indexed, row[p][Indexed])
      /\ t \in Texts \cup {Null} /\ IsHashOf(hash[p], t)
  BY IndexAssumption
  DEF IndexInv, StrictInv, TypeOK, Value, StrictOnceEncrypted, IndexedStrictly
<1>3. HasText(p, x) <=> t = x
  <2>1. Len(NullValue.layers) <= 1
    <3>1. NullValue.layers = <<>>
      BY DEF NullValue, Plain
    <3>2. Len(<<>>) <= 1
      OBVIOUS
    <3> QED  BY <3>1, <3>2
  <2>2. Len(row[p][Indexed].layers) <= 1
    <3>1. CASE row[p][Indexed] = NullValue
      BY <2>1, <3>1
    <3>2. CASE Len(row[p][Indexed].layers) = 1
      BY <3>2
    <3> QED  BY <1>2, <3>1, <3>2 DEF OnceEncrypted
  <2> QED  BY <2>2 DEF HasText
<1>4. t # Null =>
        \E i \in 1..Len(Rollout) :
          /\ KeyUsable(Rollout[i], IndexKey(Rollout[i]))
          /\ hash[p] = ComputeHash(Rollout[i], IndexKey(Rollout[i]), Plain(t))
  BY <1>2 DEF IsHashOf
<1>k. IndexPin # NoKey => \A c : IndexKey(c) = IndexPin
  BY DEF IndexKey
<1> HIDE DEF kid, t
<1>5. ASSUME hash[p] = ComputeHash(Conf(w), kid, Plain(x))
      PROVE  t = x /\ HashedWith(p, kid)
  <2>1. hash[p].of = Plain(x) /\ hash[p].kid = kid
    BY <1>5 DEF ComputeHash
  <2>2. hash[p] # NoHash
    <3>1. Conf(w) \in Config /\ kid # NoKey /\ Conf(w).keys[kid] \in Materials
      BY <1>1, TableAssumption DEF KeyUsable
    <3>2. kid \in KeyIds /\ Plain(x) \in Value
      BY <3>1, PlainType DEF Config, kid
    <3>3. hash[p] \in Hash
      BY <1>5, <3>1, <3>2 DEF ComputeHash, Hash
    <3> QED  BY <3>3, IndexAssumption
  <2>3. t # Null /\ hash[p].of = Plain(t)
    BY <1>2, <2>2, HashOfText
  <2>4. t = x
    BY <2>1, <2>3 DEF Plain
  <2>5. PICK i \in 1..Len(Rollout) :
          hash[p] = ComputeHash(Rollout[i], IndexKey(Rollout[i]), Plain(t))
    BY <1>4, <2>3
  <2>6. IndexKey(Rollout[i]) = kid
    BY <2>1, <2>5 DEF ComputeHash
  <2>7. IndexPin # NoKey => kid = IndexPin
    BY <1>k, <2>6
  <2> QED  BY <2>1, <2>2, <2>4, <2>7 DEF HashedWith
<1>6. ASSUME t = x, HashedWith(p, kid)
      PROVE  hash[p] = ComputeHash(Conf(w), kid, Plain(x))
  <2>1. PICK i \in 1..Len(Rollout) :
          /\ KeyUsable(Rollout[i], IndexKey(Rollout[i]))
          /\ hash[p] = ComputeHash(Rollout[i], IndexKey(Rollout[i]), Plain(x))
    BY <1>1, <1>4, <1>6
  <2>2. IndexKey(Rollout[i]) = kid
    BY <1>6, <1>k, <2>1 DEF HashedWith, ComputeHash
  <2>3. Conf(w).keys[kid] = Rollout[i].keys[kid]
    BY <1>1, <2>1, <2>2 DEF IndexedStrictly, IndexKeysKept
  <2> QED  BY <2>1, <2>2, <2>3 DEF ComputeHash
<1> QED  BY <1>3, <1>5, <1>6 DEF kid

-----------------------------------------------------------------------------
\* Every variable of BlindIndex keeps its type.
THEOREM IndexTypeCorrect == IndexedStrictly => (IndexSpec => []IndexTypeOK)
<1> SUFFICES ASSUME IndexedStrictly PROVE IndexSpec => []IndexTypeOK
  OBVIOUS
<1>1. IndexInit => IndexInv
  BY IndexInvInit
<1>2. IndexInv /\ [IndexNext]_indexVars => IndexInv'
  BY IndexInvNext
<1>3. IndexInv => IndexTypeOK
  BY DEF IndexInv
<1> QED  BY <1>1, <1>2, <1>3, PTL DEF IndexSpec

\* If the key is pinned, no two rows have the same text, but for those whose hash a
\* save left out.
THEOREM TextsAreUnique == IndexedStrictly /\ Pinned => (IndexSpec => []UniqueTexts)
<1> SUFFICES ASSUME IndexedStrictly, Pinned PROVE IndexSpec => []UniqueTexts
  OBVIOUS
<1>1. IndexInit => IndexInv
  BY IndexInvInit
<1>2. IndexInv /\ [IndexNext]_indexVars => IndexInv'
  BY IndexInvNext
<1>3. IndexInv => UniqueTexts
  BY IndexInvUnique
<1> QED  BY <1>1, <1>2, <1>3, PTL DEF IndexSpec

\* The documented lookup, with the active key, finds no row without the text and
\* every row with it that was hashed under that key, in all settings that can
\* compute a hash at all: whether the key of the index is pinned, to the active one
\* or another, or follows the active one from setting to setting.
THEOREM LookupsFindTexts == IndexedStrictly => (IndexSpec => []LookupFindsTexts)
<1> SUFFICES ASSUME IndexedStrictly PROVE IndexSpec => []LookupFindsTexts
  OBVIOUS
<1>1. IndexInit => IndexInv
  BY IndexInvInit
<1>2. IndexInv /\ [IndexNext]_indexVars => IndexInv'
  BY IndexInvNext
<1>3. IndexInv => LookupFindsTexts
  BY IndexInvFinds
<1> QED  BY <1>1, <1>2, <1>3, PTL DEF IndexSpec

\* A blind index beside it takes nothing from a strict column: the rows, which
\* are saved with their hashes and refused when one is taken, still behave as
\* rows of plain columns.
THEOREM IndexedTableIsPlain == OwnInitialRows => (IndexSpec => StrictColumnsArePlain)
<1> SUFFICES ASSUME OwnInitialRows PROVE IndexSpec => Plaintext!Spec
  BY DEF StrictColumnsArePlain
<1>1. IndexInit => StrictInv /\ Plaintext!Init
  BY StrictInit, RefinementInit DEF IndexInit
<1>2. StrictInv /\ [IndexNext]_indexVars => StrictInv'
  BY StepsOfTable, StrictNext
<1>3. StrictInv /\ StrictInv' /\ [IndexNext]_indexVars => [Plaintext!Next]_(Plaintext!vars)
  BY StepsOfTable, RefinementStep
<1> QED  BY <1>1, <1>2, <1>3, PTL DEF IndexSpec, Plaintext!Spec
=============================================================================
