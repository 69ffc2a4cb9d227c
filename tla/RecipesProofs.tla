---------------------------- MODULE RecipesProofs ----------------------------
(* Loops over all rows for any number of workers, rows, columns and texts  *)
(* and any settings, with any kind of save beside them.                    *)
EXTENDS Recipes, BlindIndexProofs

Settings == {Rollout[i] : i \in 1..Len(Rollout)}

-----------------------------------------------------------------------------
(* The invariants.                                                         *)

RecipeInv ==
  /\ TypeOK /\ RecipeTypeOK
  /\ DOMAIN hash = Pks
  /\ loopConf \in Settings /\ (host \in Workers => loopConf = Conf(host))
  /\ \A c \in since : c \in Settings /\ c.keys = loopConf.keys /\ c.active \in actives
  /\ recipe # "none" => loopConf.active \in actives
  /\ swept \cap DOMAIN queue = {}

\* A row that is left and that nobody wrote since is as it was loaded.
Loaded ==
  \A p \in DOMAIN queue \ raced :
    /\ p \in present
    /\ \A col \in Columns : /\ ~ReadRaises(loopConf, col, row[p][col])
                            /\ queue[p][col] = Read(loopConf, col, row[p][col])

LoadInv == RecipeInv /\ Loaded

SweptInv == LoadInv /\ SweptRowsIndexed

\* A layer that can be opened in all settings.
Known(l) == \A c \in Settings : c.keys[l.kid] = l.mat

\* What a column may show: a text, or one that was encrypted without AAD before
\* it was assigned to the column.
Legible(v) ==
  \/ v.layers = <<>>
  \/ Known(Head(v.layers)) /\ Head(v.layers).aad = NoAad /\ Peel(v).layers = <<>>

AadsOf(col) == {col} \cup IF col \in AadCols THEN {} ELSE {NoAad}

\* What a column may hold: that, as it is or encrypted by the column.
LegibleIn(col, v) ==
  \/ Legible(v)
  \/ /\ v.layers # <<>> /\ Known(Head(v.layers)) /\ Head(v.layers).aad \in AadsOf(col)
     /\ Legible(Peel(v))

TableLegible ==
  /\ \A p \in Pks, col \in Columns : LegibleIn(col, row[p][col])
  /\ \A w \in Workers, col \in Columns : Legible(inst[w][col])

LayerInv ==
  /\ RecipeInv
  /\ TableLegible
  /\ \A p \in DOMAIN queue, col \in Columns : Legible(queue[p][col])

\* No layer is under another key id than these.
OnlyUnder(kids, v) == \A i \in DOMAIN v.layers : v.layers[i].kid \in kids

Reencrypted ==
  recipe \in Rotations =>
    \A p \in swept, col \in Columns : OnlyUnder(actives, row[p][col])

KeyInv == LayerInv /\ Reencrypted

\* A loop that has loaded strict columns has loaded texts.
QueueShowsTexts == \A p \in DOMAIN queue, col \in StrictCols : queue[p][col].layers = <<>>

StrictLoopInv == LoadInv /\ StrictInv /\ QueueShowsTexts

IndexLoopInv == StrictLoopInv /\ IndexInv

-----------------------------------------------------------------------------
(* The assumptions.                                                        *)

\* A key that something can be encrypted with is the same in all settings.
KeysKept ==
  \A c \in Settings, d \in Settings :
    /\ KeyUsable(c, c.active) => d.keys[c.active] = c.keys[c.active]
    /\ \A col \in Columns :
         KeyUsable(c, WriteKey(c, col)) => d.keys[WriteKey(c, col)] = c.keys[WriteKey(c, col)]

\* The rows from before can be read, those of the README's backfill among them.
LegibleBefore == \A r \in InitialRows, col \in Columns : LegibleIn(col, r[col])

\* No column has a key_id= option.
Unpinned == \A col \in Columns : Pin[col] = NoKey

-----------------------------------------------------------------------------
(* The operators of the loops.                                             *)

\* Peeling undoes wrapping.
LEMMA PeelWrap ==
  ASSUME NEW l \in Layer, NEW v \in Value
  PROVE  /\ Wrap(l, v).layers # <<>> /\ Head(Wrap(l, v).layers) = l
         /\ Peel(Wrap(l, v)) = v
<1>1. v.layers \in Seq(Layer) /\ v = [layers |-> v.layers, text |-> v.text]
  BY DEF Value
<1>2. Wrap(l, v) = [layers |-> <<l>> \o v.layers, text |-> v.text]
  BY DEF Wrap
<1>3. <<l>> \o v.layers # <<>> /\ Head(<<l>> \o v.layers) = l
  BY <1>1
<1>4. Tail(<<l>> \o v.layers) = v.layers
  BY <1>1
<1> QED  BY <1>1, <1>2, <1>3, <1>4 DEF Peel

\* In the settings that wrote it, a column shows what was written.
LEMMA ReadWrite ==
  ASSUME NEW c \in Config, NEW col \in StrictCols, NEW v \in Value, ~WriteRaises(c, col, v)
  PROVE  Read(c, col, Write(c, col, v)) = v
<1>0. col \in Columns
  BY CipherAssumption
<1>1. CASE v = NullValue
  BY <1>1 DEF Write, Read
<1>2. CASE v # NullValue
  <2> DEFINE kid == WriteKey(c, col)
             l == [kid |-> kid, mat |-> c.keys[kid], aad |-> col]
             new == Wrap(l, v)
  <2>1. Write(c, col, v) = new /\ KeyUsable(c, kid)
    BY <1>2 DEF WriteRaises, Write, Encrypt
  <2>2. l \in Layer /\ kid \in KeyIds /\ l.mat # Absent
    BY <1>0, <2>1, WriteKeyType, UsableLayer, CipherAssumption DEF KeyUsable
  <2>3. l.kid = kid /\ c.keys[l.kid] = l.mat /\ l.aad = col
    OBVIOUS
  <2> HIDE DEF kid, l
  <2>4. new.layers # <<>> /\ Head(new.layers) = l /\ Peel(new) = v
    BY <2>2, PeelWrap
  <2> HIDE DEF new
  <2>5. new # NullValue
    BY <2>4 DEF NullValue, Plain
  <2>6. IsEncrypted(c, new) /\ Unlocks(c, col, new)
    BY <2>2, <2>3, <2>4 DEF IsEncrypted, Prefix, Unlocks, Opens
  <2> QED  BY <2>1, <2>4, <2>5, <2>6 DEF Read
<1> QED  BY <1>1, <1>2

\* What rotate_value makes of a value: nothing else, or a layer in place of a
\* layer.
LEMMA RotateForm ==
  ASSUME NEW c \in Config, NEW v \in Value, ~RotateRaises(c, v)
  PROVE  \/ RotateValue(c, v) = v /\ ~Rotatable(c, v)
         \/ /\ KeyUsable(c, c.active) /\ v.layers # <<>>
            /\ RotateValue(c, v) = Wrap([kid |-> c.active, mat |-> c.keys[c.active], aad |-> NoAad], Peel(v))
BY DEF RotateRaises, RotateValue, Encrypt, Opens

LEMMA ActiveLayer ==
  ASSUME NEW c \in Config, KeyUsable(c, c.active)
  PROVE  [kid |-> c.active, mat |-> c.keys[c.active], aad |-> NoAad] \in Layer
<1>1. c.active \in KeyIds \cup {NoKey}
  BY DEF Config
<1> QED  BY <1>1, UsableLayer

LEMMA RotatedKeepsText ==
  ASSUME NEW c \in Config, NEW v \in Value, ~RotateRaises(c, v)
  PROVE  /\ RotateValue(c, v) \in Value
         /\ RotateValue(c, v).text = v.text
         /\ Len(RotateValue(c, v).layers) = Len(v.layers)
         /\ RotateValue(c, v) = NullValue => v = NullValue
<1> DEFINE l == [kid |-> c.active, mat |-> c.keys[c.active], aad |-> NoAad]
<1>1. CASE RotateValue(c, v) = v
  BY <1>1
<1>2. CASE /\ KeyUsable(c, c.active) /\ v.layers # <<>>
           /\ RotateValue(c, v) = Wrap(l, Peel(v))
  <2>1. l \in Layer
    BY <1>2, ActiveLayer
  <2>2. Peel(v) \in Value /\ Len(Peel(v).layers) = Len(v.layers) - 1 /\ Peel(v).text = v.text
    BY <1>2, PeelType
  <2> HIDE DEF l
  <2>3. /\ Wrap(l, Peel(v)) \in Value /\ Wrap(l, Peel(v)).text = Peel(v).text
        /\ Len(Wrap(l, Peel(v)).layers) = Len(Peel(v).layers) + 1
        /\ Wrap(l, Peel(v)).layers # <<>>
    BY <2>1, <2>2, WrapType, PeelWrap
  <2>4. Wrap(l, Peel(v)) # NullValue
    BY <2>3 DEF NullValue, Plain
  <2>5. Len(v.layers) \in Nat
    BY DEF Value
  <2> QED  BY <1>2, <2>2, <2>3, <2>4, <2>5
<1> QED  BY <1>1, <1>2, RotateForm

LEMMA RotatedType ==
  ASSUME NEW c \in Config, NEW v \in Value, Chosen(v) => ~RotateRaises(c, v)
  PROVE  /\ Rotated(c, v) \in Value
         /\ Rotated(c, v).text = v.text
         /\ Len(Rotated(c, v).layers) = Len(v.layers)
         /\ Rotated(c, v) = NullValue => v = NullValue
BY RotatedKeepsText DEF Rotated

\* What a value is read as depends on the keys and not on which is active.
LEMMA ReadBySameKeys ==
  ASSUME NEW c, NEW d, d.keys = c.keys, NEW col, NEW v
  PROVE  Read(d, col, v) = Read(c, col, v) /\ ReadRaises(d, col, v) = ReadRaises(c, col, v)
<1>1. IsEncrypted(d, v) = IsEncrypted(c, v) /\ Unlocks(d, col, v) = Unlocks(c, col, v)
  BY DEF IsEncrypted, Unlocks, Opens
<1> QED  BY <1>1 DEF Read, ReadRaises

-----------------------------------------------------------------------------
(* The shape of the steps, and the types.                                  *)

LEMMA SettingsType == Settings \subseteq Config
BY TableAssumption DEF Settings

LEMMA WorkerSettings == ASSUME TypeOK, NEW w \in Workers PROVE Conf(w) \in Settings
BY DEF TypeOK, Conf, Settings

\* A step of a worker is one of the table, or takes another active key.
LEMMA WorkerMoves ==
  ASSUME WorkerStep
  PROVE  [Next]_vars \/ \E w \in Workers, s \in 1..Len(Rollout) : SwitchKey(w, s)
<1>1. CASE \E w \in Workers : WorkerMove(w)
  BY <1>1, StepsOfTable DEF WorkerMove, IndexNext
<1> QED  BY <1>1 DEF WorkerStep

LEMMA StageOfStep ==
  ASSUME TypeOK, NEW w \in Workers, IndexedStep(w), NEW u \in Workers \ {w}
  PROVE  stage'[u] = stage[u]
BY DEF TypeOK, IndexedStep, IndexedCreate, Create, IndexedSave, Save, IndexedSaveField, SaveField,
       IndexedDelete, Delete, Unindexed, Load, Assign, FullClean, Redeploy

\* What workers make of the loop's process: another active key at the most.
LEMMA WorkerOnProcess ==
  ASSUME RecipeInv, WorkerStep
  PROVE  /\ host' = host /\ (host' \in Workers => loopConf' = Conf(host)')
         /\ loopConf' \in Settings /\ loopConf'.keys = loopConf.keys
         /\ actives \subseteq actives' /\ actives' \subseteq KeyIds \cup {NoKey}
         /\ \A c \in since' : c \in Settings /\ c.keys = loopConf'.keys /\ c.active \in actives'
         /\ recipe # "none" => loopConf'.active \in actives'
<1>0. /\ TypeOK /\ loopConf \in Settings /\ (host \in Workers => loopConf = Conf(host))
      /\ \A c \in since : c \in Settings /\ c.keys = loopConf.keys /\ c.active \in actives
      /\ recipe # "none" => loopConf.active \in actives
      /\ host \in Workers \cup {NoWorker} /\ actives \subseteq KeyIds \cup {NoKey}
  BY DEF RecipeInv, RecipeTypeOK
<1>1. ASSUME NEW w \in Workers, WorkerMove(w)
      PROVE  UNCHANGED process /\ (host' \in Workers => loopConf' = Conf(host)')
  <2>1. UNCHANGED process /\ IndexedStep(w) /\ (w = host => stage' = stage)
    BY <1>1 DEF WorkerMove
  <2>2. ASSUME host \in Workers PROVE stage'[host] = stage[host]
    BY <1>0, <2>1, <2>2, StageOfStep
  <2> QED  BY <1>0, <2>1, <2>2 DEF process, Conf
<1>2. CASE \E w \in Workers : WorkerMove(w)
  BY <1>0, <1>1, <1>2 DEF process
<1>3. ASSUME NEW w \in Workers, NEW s \in 1..Len(Rollout), SwitchKey(w, s), w # host
      PROVE  UNCHANGED process /\ (host' \in Workers => loopConf' = Conf(host)')
  <2>1. UNCHANGED process /\ stage' = [stage EXCEPT ![w] = s]
    BY <1>3 DEF SwitchKey
  <2>2. ASSUME host \in Workers PROVE stage'[host] = stage[host]
    BY <1>0, <1>3, <2>1, <2>2 DEF TypeOK
  <2> QED  BY <1>0, <2>1, <2>2 DEF process, Conf
<1>4. ASSUME NEW w \in Workers, NEW s \in 1..Len(Rollout), SwitchKey(w, s), w = host
      PROVE  /\ host' = host /\ loopConf' = Rollout[s] /\ Rollout[s].keys = loopConf.keys
             /\ since' = since \cup {Rollout[s]} /\ actives' = actives \cup {Rollout[s].active}
             /\ Conf(host)' = Rollout[s]
  <2>1. /\ stage' = [stage EXCEPT ![w] = s] /\ Rollout[s].keys = Conf(w).keys
        /\ host' = host /\ loopConf' = Rollout[s]
        /\ since' = since \cup {Rollout[s]} /\ actives' = actives \cup {Rollout[s].active}
    BY <1>4 DEF SwitchKey
  <2>2. stage'[host] = s
    BY <1>0, <1>4, <2>1 DEF TypeOK
  <2> QED  BY <1>0, <1>4, <2>1, <2>2 DEF Conf
<1>5. \A s \in 1..Len(Rollout) : Rollout[s] \in Settings /\ Rollout[s].active \in KeyIds \cup {NoKey}
  <2>1. \A c \in Config : c.active \in KeyIds \cup {NoKey}
    BY DEF Config
  <2> QED  BY <2>1, TableAssumption DEF Settings
<1>6. ASSUME NEW w \in Workers, NEW s \in 1..Len(Rollout), SwitchKey(w, s), w = host
      PROVE  /\ host' = host /\ (host' \in Workers => loopConf' = Conf(host)')
             /\ loopConf' \in Settings /\ loopConf'.keys = loopConf.keys
             /\ actives \subseteq actives' /\ actives' \subseteq KeyIds \cup {NoKey}
             /\ \A c \in since' : c \in Settings /\ c.keys = loopConf'.keys /\ c.active \in actives'
             /\ loopConf'.active \in actives'
  BY <1>0, <1>4, <1>5, <1>6
<1> QED  BY <1>0, <1>2, <1>3, <1>6 DEF WorkerStep, process

\* What no worker wrote, be it saved already or still left, is as it was.
LEMMA WorkerShape ==
  ASSUME RecipeInv, WorkerStep
  PROVE  /\ TypeOK' /\ DOMAIN hash' = Pks
         /\ UNCHANGED <<recipe, queue>>
         /\ swept' \subseteq swept /\ raced' \subseteq Pks /\ raced \subseteq raced'
         /\ \A p \in swept' : row'[p] = row[p] /\ hash'[p] = hash[p]
         /\ \A p \in DOMAIN queue \ raced' :
              row'[p] = row[p] /\ (p \in present => p \in present')
<1> USE DEF RecipeInv, RecipeTypeOK
<1>1. TypeOK'
  <2>1. ASSUME NEW w \in Workers, NEW s \in 1..Len(Rollout), SwitchKey(w, s) PROVE TypeOK'
    BY <2>1 DEF SwitchKey, TypeOK
  <2> QED  BY <2>1, WorkerMoves, TypeNext DEF TypeOK
<1>2. DOMAIN hash' = Pks
  BY DEF WorkerStep, WorkerMove, IndexedStep, IndexedCreate, IndexedSave, IndexedSaveField,
         IndexedDelete, Unindexed, StoreHash, SwitchKey
<1> DEFINE written == {p \in Pks : DbRow(p)' # DbRow(p)}
<1>3. /\ swept' = swept \ written /\ raced' = raced \cup (written \cap DOMAIN queue)
      /\ UNCHANGED <<recipe, queue>>
  BY DEF WorkerStep
<1>4. \A p \in Pks \ written : row'[p] = row[p] /\ hash'[p] = hash[p] /\ (p \in present <=> p \in present')
  BY DEF DbRow
<1> HIDE DEF written
<1> QED  BY <1>1, <1>2, <1>3, <1>4

\* What an iteration of a rotating loop saves, its attributes rotated in the settings
\* "by".
SavesRotated(p, by) ==
  /\ \A col \in Columns :
       /\ by[col] \in since /\ by[col] \in Config
       /\ Rotated(by[col], queue[p][col]) \in Value
       /\ Chosen(queue[p][col]) => ~RotateRaises(by[col], queue[p][col])
       /\ ~WriteRaises(loopConf, col, Rotated(by[col], queue[p][col]))
  /\ row' = [row EXCEPT ![p] =
       [col \in Columns |-> Write(loopConf, col, Rotated(by[col], queue[p][col]))]]
  /\ hash' = [hash EXCEPT ![p] =
       PreSave(loopConf, Rotated(by[Indexed], queue[p][Indexed]), hash[p])]

LEMMA RotateShape ==
  ASSUME RecipeInv, NEW p \in DOMAIN queue, NEW by \in [Columns -> since],
         ~IterationRaises(p, by), RotateAndSave(p, by)
  PROVE  SavesRotated(p, by)
<1>1. ASSUME NEW col \in Columns
      PROVE  /\ by[col] \in since /\ by[col] \in Config /\ queue[p][col] \in Value
             /\ Chosen(queue[p][col]) => ~RotateRaises(by[col], queue[p][col])
             /\ ~WriteRaises(loopConf, col, Rotated(by[col], queue[p][col]))
  <2>1. recipe \in Rotations /\ ~IterationRaises(p, by)
    BY DEF RotateAndSave
  <2>2. /\ Chosen(queue[p][col]) => ~RotateRaises(by[col], queue[p][col])
        /\ ~WriteRaises(loopConf, col, Rotated(by[col], queue[p][col]))
    BY <2>1 DEF IterationRaises
  <2> QED  BY <2>2, SettingsType DEF RecipeInv, RecipeTypeOK
<1>2. \A col \in Columns : Rotated(by[col], queue[p][col]) \in Value
  BY <1>1, RotatedType
<1> QED  BY <1>1, <1>2 DEF SavesRotated, RotateAndSave, StoreHash

LEMMA SaveShape ==
  ASSUME RecipeInv, NEW p \in Pks, LoopSave(p)
  PROVE  /\ p \in DOMAIN queue /\ loopConf \in Config /\ queue[p] \in [Columns -> Value]
         /\ UNCHANGED <<holding, inst, stage, recipe, host, loopConf, actives>>
         /\ since' = {loopConf} /\ loopConf.active \in actives
         /\ DOMAIN queue' = DOMAIN queue \ {p} /\ \A q \in DOMAIN queue' : queue'[q] = queue[q]
         /\ swept' = (IF p \in raced THEN swept ELSE swept \cup {p}) /\ raced' = raced \ {p}
         /\ present \subseteq present' /\ present' \subseteq present \cup {p}
         /\ DOMAIN hash' = Pks /\ \A q \in Pks \ {p} : row'[q] = row[q] /\ hash'[q] = hash[q]
         /\ \/ recipe \in Rotations /\ \E by \in [Columns -> since] : SavesRotated(p, by)
            \/ /\ recipe = "recompute" /\ row' = row /\ present' = present
               /\ hash'[p] = PreSave(loopConf, queue[p][Indexed], hash[p])
<1> USE DEF RecipeInv, RecipeTypeOK
<1>1. p \in DOMAIN queue /\ loopConf \in Config /\ queue[p] \in [Columns -> Value]
  BY DEF LoopSave
<1>2. /\ UNCHANGED <<holding, inst, stage, recipe, host, loopConf, actives>>
      /\ since' = {loopConf}
      /\ DOMAIN queue' = DOMAIN queue \ {p} /\ \A q \in DOMAIN queue' : queue'[q] = queue[q]
      /\ swept' = (IF p \in raced THEN swept ELSE swept \cup {p}) /\ raced' = raced \ {p}
  BY DEF LoopSave
<1>3. PICK by \in [Columns -> since] :
        ~IterationRaises(p, by) /\ (RotateAndSave(p, by) \/ RecomputeHash(p))
  BY DEF LoopSave
<1>4. CASE RotateAndSave(p, by)
  <2>1. recipe \in Rotations /\ recipe # "none" /\ present' = present \cup {p}
    BY <1>4 DEF RotateAndSave, Rotations
  <2>2. SavesRotated(p, by)
    BY <1>1, <1>3, <1>4, RotateShape
  <2>3. DOMAIN row = Pks
    BY DEF TypeOK
  <2>4. DOMAIN hash' = Pks /\ \A q \in Pks \ {p} : row'[q] = row[q] /\ hash'[q] = hash[q]
    BY <2>2, <2>3 DEF SavesRotated
  <2> QED  BY <1>1, <1>2, <2>1, <2>2, <2>4
<1>5. CASE RecomputeHash(p)
  BY <1>1, <1>2, <1>5 DEF RecomputeHash, StoreHash
<1> QED  BY <1>3, <1>4, <1>5

LEMMA SaveTypes == ASSUME RecipeInv, NEW p \in Pks, LoopSave(p) PROVE RecipeInv'
<1>0. /\ TypeOK /\ RecipeTypeOK /\ swept \cap DOMAIN queue = {} /\ loopConf \in Settings
      /\ host \in Workers => loopConf = Conf(host)
  BY DEF RecipeInv
<1>1. /\ UNCHANGED <<holding, inst, stage, recipe, host, loopConf, actives>>
      /\ since' = {loopConf} /\ loopConf.active \in actives
      /\ present' \subseteq present \cup {p} /\ DOMAIN hash' = Pks
      /\ p \in DOMAIN queue /\ loopConf \in Config
  BY SaveShape
<1>2. /\ DOMAIN queue' = DOMAIN queue \ {p} /\ \A q \in DOMAIN queue' : queue'[q] = queue[q]
      /\ swept' \subseteq swept \cup {p} /\ raced' \subseteq raced
  BY SaveShape
<1>3. row' \in [Pks -> [Columns -> Value]]
  <2>1. CASE row' = row
    BY <1>0, <2>1 DEF TypeOK
  <2>2. ASSUME NEW by \in [Columns -> since], SavesRotated(p, by)
        PROVE  row' \in [Pks -> [Columns -> Value]]
    <3>1. [col \in Columns |-> Write(loopConf, col, Rotated(by[col], queue[p][col]))]
            \in [Columns -> Value]
      BY <1>1, <2>2, WriteType DEF SavesRotated
    <3> QED  BY <1>0, <2>2, <3>1 DEF SavesRotated, TypeOK
  <2> QED  BY <2>1, <2>2, SaveShape
<1>4. TypeOK'
  BY <1>0, <1>1, <1>3 DEF TypeOK
<1>5. RecipeTypeOK'
  BY <1>0, <1>1, <1>2 DEF RecipeTypeOK
<1>6. swept' \cap DOMAIN queue' = {}
  BY <1>0, <1>2
<1>7. (host' \in Workers => loopConf' = Conf(host)')
  BY <1>0, <1>1 DEF Conf
<1> QED  BY <1>0, <1>1, <1>4, <1>5, <1>6, <1>7 DEF RecipeInv

LEMMA NothingLeft == ASSUME NEW q, q = <<>> PROVE DOMAIN q = {}
<1>1. Len(q) = 0 /\ q \in Seq(Pks)
  OBVIOUS
<1> QED  BY <1>1, LenProperties

\* Without a loop there is nothing to say about what is left.
LEMMA StopShape ==
  ASSUME LoopStops
  PROVE  /\ recipe' = "none" /\ DOMAIN queue' = {} /\ swept' = {} /\ raced' = {}
         /\ host' = NoWorker /\ loopConf' \in Settings /\ since' = {} /\ actives' = {}
         /\ UNCHANGED indexVars
<1>1. DOMAIN queue' = {}
  BY NothingLeft DEF LoopStops
<1>2. Rollout[1] \in Settings
  BY TableAssumption, EmptySeq DEF Settings
<1> QED  BY <1>1, <1>2 DEF LoopStops

LEMMA RecipeInvInit == RecipeInit => RecipeInv
<1> SUFFICES ASSUME RecipeInit PROVE RecipeInv
  OBVIOUS
<1>1. TypeOK /\ DOMAIN hash = Pks
  BY TypeInit DEF RecipeInit, IndexInit
<1>2. DOMAIN queue = {}
  BY NothingLeft DEF RecipeInit
<1>3. Rollout[1] \in Settings
  BY TableAssumption, EmptySeq DEF Settings
<1> QED
  BY <1>1, <1>2, <1>3, SettingsType, RecipeAssumption DEF RecipeInit, RecipeInv, RecipeTypeOK

LEMMA StartTypes ==
  ASSUME RecipeInv, NEW r \in Rotations \cup {"recompute"}, NEW w \in Workers, StartLoop(r, w)
  PROVE  RecipeInv'
<1>1. Conf(w) \in Settings /\ Conf(w) \in Config
  BY WorkerSettings, SettingsType DEF RecipeInv
<1>2. \A p \in present : [col \in Columns |-> Read(Conf(w), col, row[p][col])] \in [Columns -> Value]
  BY <1>1, ReadType DEF RecipeInv, TypeOK
<1>3. TypeOK' /\ DOMAIN hash' = Pks
  BY DEF RecipeInv, StartLoop, indexVars, vars, TypeOK
<1>4. /\ host' \in {w, NoWorker} /\ loopConf' = Conf(w) /\ since' = {Conf(w)}
      /\ actives' = {Conf(w).active} /\ stage' = stage
  BY DEF StartLoop, InProcessOf, indexVars, vars
<1>5. /\ (host' \in Workers => loopConf' = Conf(host)')
      /\ Conf(w).active \in KeyIds \cup {NoKey}
  BY <1>1, <1>4, RecipeAssumption DEF Conf, Config
<1>6. /\ recipe' = r /\ DOMAIN queue' = present
      /\ queue' = [p \in present |-> [col \in Columns |-> Read(Conf(w), col, row[p][col])]]
      /\ swept' = {} /\ raced' = {} /\ present \subseteq Pks
  BY DEF StartLoop, RecipeInv, TypeOK
<1> QED  BY <1>1, <1>2, <1>3, <1>4, <1>5, <1>6 DEF RecipeInv, RecipeTypeOK

LEMMA RecipeInvNext == RecipeInv /\ [RecipeNext]_recipeVars => RecipeInv'
<1> SUFFICES ASSUME RecipeInv, [RecipeNext]_recipeVars PROVE RecipeInv'
  OBVIOUS
<1>1. CASE WorkerStep
  <2>1. since' \subseteq Config /\ loopConf' \in Config
    BY <1>1, WorkerOnProcess, SettingsType
  <2> QED  BY <1>1, <2>1, WorkerShape, WorkerOnProcess DEF RecipeInv, RecipeTypeOK
<1>2. ASSUME NEW p \in Pks, LoopSave(p) PROVE RecipeInv'
  BY <1>2, SaveTypes
<1>3. ASSUME NEW r \in Rotations \cup {"recompute"}, NEW w \in Workers, StartLoop(r, w)
      PROVE  RecipeInv'
  BY <1>3, StartTypes
<1>4. CASE LoopStops
  <2>1. TypeOK' /\ DOMAIN hash' = Pks
    BY <1>4, StopShape DEF RecipeInv, indexVars, vars, TypeOK
  <2> QED  BY <1>4, <2>1, StopShape, SettingsType, RecipeAssumption DEF RecipeInv, RecipeTypeOK
<1>5. CASE UNCHANGED recipeVars
  BY <1>5 DEF recipeVars, loopVars, process, indexVars, vars, RecipeInv, RecipeTypeOK, TypeOK, Conf
<1> QED
  BY <1>1, <1>2, <1>3, <1>4, <1>5 DEF RecipeNext, LoopEnds, LoopRaises, LoopDies

\* Every variable of Recipes keeps its type, whatever settings the workers run
\* with and whatever the rows held before.
THEOREM RecipeTypeCorrect == RecipeSpec => []RecipeTypeOK
<1>1. RecipeInv => RecipeTypeOK
  BY DEF RecipeInv
<1> QED  BY <1>1, RecipeInvInit, RecipeInvNext, PTL DEF RecipeSpec
-----------------------------------------------------------------------------
(* What is left to save is what the rows hold.                             *)

LEMMA LoadedInit == RecipeInit => Loaded
BY NothingLeft DEF RecipeInit, Loaded

LEMMA LoadedNext == LoadInv /\ [RecipeNext]_recipeVars => Loaded'
<1> SUFFICES ASSUME LoadInv, [RecipeNext]_recipeVars PROVE Loaded'
  OBVIOUS
<1> USE DEF Loaded
<1>0. RecipeInv /\ Loaded
  BY DEF LoadInv
<1>1. CASE WorkerStep
  <2>1. /\ queue' = queue /\ raced \subseteq raced'
        /\ \A p \in DOMAIN queue \ raced' : row'[p] = row[p] /\ (p \in present => p \in present')
    BY <1>0, <1>1, WorkerShape
  <2>2. loopConf'.keys = loopConf.keys
    BY <1>0, <1>1, WorkerOnProcess
  <2>3. \A col \in Columns : \A v :
          /\ Read(loopConf', col, v) = Read(loopConf, col, v)
          /\ ReadRaises(loopConf', col, v) = ReadRaises(loopConf, col, v)
    BY <2>2, ReadBySameKeys
  <2> QED  BY <1>0, <2>1, <2>3
<1>2. ASSUME NEW p \in Pks, LoopSave(p) PROVE Loaded'
  <2>1. /\ loopConf' = loopConf /\ raced' = raced \ {p} /\ present \subseteq present'
        /\ DOMAIN queue' = DOMAIN queue \ {p} /\ \A q \in DOMAIN queue' : queue'[q] = queue[q]
        /\ \A q \in Pks \ {p} : row'[q] = row[q]
    BY <1>0, <1>2, SaveShape
  <2>2. DOMAIN queue \subseteq Pks
    BY <1>0 DEF RecipeInv, RecipeTypeOK
  <2>3. \A q \in DOMAIN queue' \ raced' :
          q \in DOMAIN queue \ raced /\ row'[q] = row[q] /\ queue'[q] = queue[q]
    BY <2>1, <2>2
  <2> QED  BY <1>0, <2>1, <2>3
<1>3. ASSUME NEW r \in Rotations \cup {"recompute"}, NEW w \in Workers, StartLoop(r, w)
      PROVE  Loaded'
  BY <1>3 DEF StartLoop, InProcessOf, indexVars, vars
<1>4. CASE LoopStops
  BY <1>4, StopShape
<1>5. CASE UNCHANGED recipeVars
  BY <1>0, <1>5 DEF recipeVars, loopVars, process, indexVars, vars
<1> QED
  BY <1>1, <1>2, <1>3, <1>4, <1>5 DEF RecipeNext, LoopEnds, LoopRaises, LoopDies

LEMMA LoadInvInit == RecipeInit => LoadInv
BY RecipeInvInit, LoadedInit DEF LoadInv

LEMMA LoadInvNext == LoadInv /\ [RecipeNext]_recipeVars => LoadInv'
BY RecipeInvNext, LoadedNext DEF LoadInv

\* One value on its way from the row through a rotating loop and back.
LEMMA RotatedAndWritten ==
  ASSUME loopConf \in Config, NEW by \in Config, NEW col \in StrictCols, NEW old \in Value,
         ~ReadRaises(loopConf, col, old), NEW v, v = Read(loopConf, col, old),
         Chosen(v) => ~RotateRaises(by, v), ~WriteRaises(loopConf, col, Rotated(by, v))
  PROVE  /\ Write(loopConf, col, Rotated(by, v)).text = old.text
         /\ Len(Write(loopConf, col, Rotated(by, v)).layers) <= Len(old.layers)
<1>0. col \in Columns
  BY CipherAssumption
<1>n. Len(old.layers) \in Nat
  BY DEF Value
<1> DEFINE u == Rotated(by, v)
<1>1. CASE old = NullValue
  <2>1. v = NullValue
    BY <1>1 DEF Read
  <2>2. u = NullValue
    BY <2>1 DEF Rotated, RotateValue, Rotatable
  <2>3. Write(loopConf, col, u) = old
    BY <1>1, <2>2 DEF Write
  <2> QED  BY <1>n, <2>3
<1>2. CASE old # NullValue
  <2>1. v = Peel(old) /\ old.layers # <<>>
    BY <1>2 DEF ReadRaises, Read, Unlocks, Opens
  <2>2. v \in Value /\ Len(v.layers) = Len(old.layers) - 1 /\ v.text = old.text
    BY <2>1, PeelType
  <2>3. u \in Value /\ u.text = v.text /\ Len(u.layers) = Len(v.layers)
    BY <2>2, RotatedType
  <2> HIDE DEF u
  <2>4. CASE u = NullValue
    <3>1. Write(loopConf, col, u) = u
      BY <2>4 DEF Write
    <3> QED  BY <1>n, <2>2, <2>3, <3>1 DEF u
  <2>5. CASE u # NullValue
    <3> DEFINE l == [kid |-> WriteKey(loopConf, col), mat |-> loopConf.keys[WriteKey(loopConf, col)],
                     aad |-> col]
    <3>1. Write(loopConf, col, u) = Wrap(l, u) /\ KeyUsable(loopConf, WriteKey(loopConf, col))
      BY <2>5 DEF WriteRaises, Write, Encrypt, u
    <3>2. l \in Layer
      BY <1>0, <3>1, WriteKeyType, UsableLayer
    <3> HIDE DEF l
    <3>3. Wrap(l, u).text = u.text /\ Len(Wrap(l, u).layers) = Len(u.layers) + 1
      BY <2>3, <3>2, WrapType
    <3> QED  BY <1>n, <2>2, <2>3, <3>1, <3>3 DEF u
  <2> QED  BY <2>4, <2>5
<1> QED  BY <1>1, <1>2

\* With strict columns only, whatever a loop, workers and changes of keys do:
\* of a row that nobody wrote since it was loaded, a loop keeps the text, adds no
\* layer, and inserts none again that was deleted.
THEOREM LoopsKeepTexts == StrictCols = Columns => (RecipeSpec => LoopKeepsTexts)
<1> SUFFICES ASSUME StrictCols = Columns PROVE RecipeSpec => LoopKeepsTexts
  OBVIOUS
<1> DEFINE Keeps ==
      \A p \in Pks \ raced : LoopSave(p) =>
        /\ p \in present
        /\ \A col \in Columns :
             /\ row'[p][col].text = row[p][col].text
             /\ Len(row'[p][col].layers) <= Len(row[p][col].layers)
<1>1. LoadInv => Keeps
  <2> SUFFICES ASSUME LoadInv, NEW p \in Pks \ raced, LoopSave(p)
               PROVE  /\ p \in present
                      /\ \A col \in Columns :
                           /\ row'[p][col].text = row[p][col].text
                           /\ Len(row'[p][col].layers) <= Len(row[p][col].layers)
    OBVIOUS
  <2>1. RecipeInv /\ Loaded /\ TypeOK
    BY DEF LoadInv, RecipeInv
  <2>2. p \in DOMAIN queue /\ loopConf \in Config
    BY <2>1, SaveShape
  <2>3. p \in present
    BY <2>1, <2>2 DEF Loaded
  <2>4. ASSUME NEW col \in Columns
        PROVE  /\ row[p][col] \in Value /\ Len(row[p][col].layers) \in Nat
               /\ ~ReadRaises(loopConf, col, row[p][col])
               /\ queue[p][col] = Read(loopConf, col, row[p][col])
    BY <2>1, <2>2 DEF Loaded, TypeOK, Value
  <2>5. CASE row' = row
    BY <2>3, <2>4, <2>5
  <2>6. ASSUME NEW by \in [Columns -> since], SavesRotated(p, by), NEW col \in Columns
        PROVE  /\ row'[p][col].text = row[p][col].text
               /\ Len(row'[p][col].layers) <= Len(row[p][col].layers)
    <3>1. row'[p][col] = Write(loopConf, col, Rotated(by[col], queue[p][col]))
      BY <2>1, <2>6 DEF SavesRotated, TypeOK
    <3>2. /\ by[col] \in Config
          /\ Chosen(queue[p][col]) => ~RotateRaises(by[col], queue[p][col])
          /\ ~WriteRaises(loopConf, col, Rotated(by[col], queue[p][col]))
      BY <2>6 DEF SavesRotated
    <3> QED  BY <2>2, <2>4, <3>1, <3>2, RotatedAndWritten
  <2> QED  BY <2>1, <2>3, <2>5, <2>6, SaveShape
<1>2. LoadInv /\ [RecipeNext]_recipeVars => [Keeps]_recipeVars
  BY <1>1
<1>3. RecipeSpec => [][Keeps]_recipeVars
  BY <1>2, LoadInvInit, LoadInvNext, PTL DEF RecipeSpec
<1> QED  BY <1>3 DEF LoopKeepsTexts

-----------------------------------------------------------------------------
(* The hashes of what was saved.                                           *)

\* A hash that a loop may give to what a column shows.
HashedFor(h, v) ==
  IF v = NullValue THEN h = NoHash
  ELSE \E kid \in IF IndexPin # NoKey THEN {IndexPin} ELSE actives :
         h = ComputeHash(loopConf, kid, v)

LEMMA SweptNext ==
  ASSUME Indexed \in StrictCols
  PROVE  SweptInv /\ [RecipeNext]_recipeVars => SweptRowsIndexed'
<1> SUFFICES ASSUME SweptInv, [RecipeNext]_recipeVars PROVE SweptRowsIndexed'
  OBVIOUS
<1> USE DEF SweptRowsIndexed
<1>0. RecipeInv /\ Loaded /\ SweptRowsIndexed /\ TypeOK
  BY DEF SweptInv, LoadInv, RecipeInv
<1>1. CASE WorkerStep
  <2>1. swept' \subseteq swept /\ \A p \in swept' : row'[p] = row[p] /\ hash'[p] = hash[p]
    BY <1>0, <1>1, WorkerShape
  <2>2. loopConf'.keys = loopConf.keys /\ actives \subseteq actives'
    BY <1>0, <1>1, WorkerOnProcess
  <2>3. \A v : Read(loopConf', Indexed, v) = Read(loopConf, Indexed, v)
    BY <2>2, ReadBySameKeys
  <2>4. \A kid, v : ComputeHash(loopConf', kid, v) = ComputeHash(loopConf, kid, v)
    BY <2>2 DEF ComputeHash
  <2> QED  BY <1>0, <2>1, <2>2, <2>3, <2>4 DEF HashedFor
<1>2. ASSUME NEW p \in Pks, LoopSave(p) PROVE SweptRowsIndexed'
  <2>1. /\ loopConf' = loopConf /\ loopConf \in Config /\ p \in DOMAIN queue
        /\ actives' = actives /\ loopConf.active \in actives
        /\ swept' = (IF p \in raced THEN swept ELSE swept \cup {p})
        /\ \A q \in Pks \ {p} : row'[q] = row[q] /\ hash'[q] = hash[q]
    BY <1>0, <1>2, SaveShape
  <2>2. p \notin swept /\ swept \subseteq Pks /\ Indexed \in Columns
    BY <1>0, <2>1, IndexAssumption DEF RecipeInv, RecipeTypeOK
  <2>p. \A v, h : HashedFor(PreSave(loopConf, v, h), v)
    BY <2>1 DEF PreSave, HashedFor, IndexKey
  <2> DEFINE shown == Read(loopConf, Indexed, row'[p][Indexed])
  <2>3. ASSUME p \notin raced
        PROVE  HashedFor(hash'[p], shown)
    <3>1. CASE /\ row' = row
               /\ hash'[p] = PreSave(loopConf, queue[p][Indexed], hash[p])
      <4>1. shown = queue[p][Indexed]
        BY <1>0, <2>1, <2>2, <2>3, <3>1 DEF Loaded
      <4> QED  BY <2>p, <3>1, <4>1
    <3>2. ASSUME NEW by \in [Columns -> since], SavesRotated(p, by)
          PROVE  HashedFor(hash'[p], shown)
      <4> DEFINE v == Rotated(by[Indexed], queue[p][Indexed])
      <4>1. v \in Value /\ ~WriteRaises(loopConf, Indexed, v)
        BY <2>2, <3>2 DEF SavesRotated
      <4>2. row'[p][Indexed] = Write(loopConf, Indexed, v) /\ hash'[p] = PreSave(loopConf, v, hash[p])
        BY <1>0, <2>2, <3>2 DEF SavesRotated, TypeOK, RecipeInv
      <4> HIDE DEF v
      <4>3. shown = v
        BY <2>1, <4>1, <4>2, ReadWrite
      <4> QED  BY <2>p, <4>2, <4>3
    <3> QED  BY <1>0, <1>2, <2>2, <3>1, <3>2, SaveShape
  <2> QED  BY <1>0, <2>1, <2>2, <2>3 DEF HashedFor
<1>3. ASSUME NEW r \in Rotations \cup {"recompute"}, NEW w \in Workers, StartLoop(r, w)
      PROVE  SweptRowsIndexed'
  BY <1>3 DEF StartLoop
<1>4. CASE LoopStops
  BY <1>4, StopShape
<1>5. CASE UNCHANGED recipeVars
  BY <1>0, <1>5 DEF recipeVars, loopVars, process, indexVars, vars
<1> QED
  BY <1>1, <1>2, <1>3, <1>4, <1>5 DEF RecipeNext, LoopEnds, LoopRaises, LoopDies

\* Over a strict column, a row that a loop has saved has the hash of what the column
\* shows, as long as nobody writes it: under the pinned key or one that was active in
\* the loop's process, also when that is switched in the middle of the loop.
THEOREM SweptRowsAreIndexed == Indexed \in StrictCols => (RecipeSpec => []SweptRowsIndexed)
<1> SUFFICES ASSUME Indexed \in StrictCols PROVE RecipeSpec => []SweptRowsIndexed
  OBVIOUS
<1>1. RecipeInit => SweptInv
  BY LoadInvInit DEF SweptInv, SweptRowsIndexed, RecipeInit
<1>2. SweptInv /\ [RecipeNext]_recipeVars => SweptInv'
  BY LoadInvNext, SweptNext DEF SweptInv
<1>3. SweptInv => SweptRowsIndexed
  BY DEF SweptInv
<1> QED  BY <1>1, <1>2, <1>3, PTL DEF RecipeSpec
-----------------------------------------------------------------------------
(* The layers of what is stored and shown, of columns of any kind.         *)

LEMMA TextLegible == \A v : v.layers = <<>> => Legible(v)
BY DEF Legible

LEMMA BlankLegible == \A col \in Columns : Blank[col].layers = <<>>
BY DEF Blank, NullValue, Plain

LEMMA ReadKeepsLegible ==
  ASSUME NEW c, NEW col, NEW v, Legible(v)
  PROVE  Legible(Read(c, col, v))
<1>1. CASE Read(c, col, v) = v
  BY <1>1
<1>2. CASE Read(c, col, v) = Peel(v) /\ v.layers # <<>>
  <2>1. Peel(v).layers = <<>>
    BY <1>2 DEF Legible
  <2> QED  BY <1>2, <2>1, TextLegible
<1> QED  BY <1>1, <1>2 DEF Read, Unlocks, Opens

\* What a column shows is legible.
LEMMA ReadLegible ==
  ASSUME NEW c \in Settings, NEW col \in Columns, NEW v \in Value, LegibleIn(col, v)
  PROVE  Legible(Read(c, col, v))
<1>1. CASE Legible(v)
  BY <1>1, ReadKeepsLegible
<1>2. CASE ~Legible(v)
  <2>1. /\ v.layers # <<>> /\ Known(Head(v.layers)) /\ Head(v.layers).aad \in AadsOf(col)
        /\ Legible(Peel(v))
    BY <1>2 DEF LegibleIn
  <2>2. Head(v.layers) \in Layer
    BY <2>1 DEF Value
  <2>3. c.keys[Head(v.layers).kid] = Head(v.layers).mat
    BY <2>1 DEF Known
  <2>4. Unlocks(c, col, v)
    BY <2>1, <2>3 DEF Unlocks, Opens, AadsOf
  <2>5. IsEncrypted(c, v)
    BY <2>1, <2>2, <2>3, CipherAssumption DEF IsEncrypted, Prefix, Layer
  <2>6. v # NullValue
    BY <2>1 DEF NullValue, Plain
  <2> QED  BY <2>1, <2>4, <2>5, <2>6 DEF Read
<1> QED  BY <1>1, <1>2

LEMMA WriteLegible ==
  ASSUME KeysKept, NEW c \in Settings, NEW col \in Columns, NEW v \in Value, Legible(v)
  PROVE  LegibleIn(col, Write(c, col, v))
<1>1. CASE v # NullValue /\ KeyUsable(c, WriteKey(c, col))
  <2> DEFINE l == [kid |-> WriteKey(c, col), mat |-> c.keys[WriteKey(c, col)], aad |-> col]
  <2>1. Write(c, col, v) = Wrap(l, v) /\ l.aad = col
    BY <1>1 DEF Write, Encrypt
  <2>2. l \in Layer /\ Known(l)
    <3>1. c \in Config
      BY SettingsType
    <3> QED  BY <1>1, <3>1, WriteKeyType, UsableLayer DEF KeysKept, Known
  <2> HIDE DEF l
  <2>3. Wrap(l, v).layers # <<>> /\ Head(Wrap(l, v).layers) = l /\ Peel(Wrap(l, v)) = v
    BY <2>2, PeelWrap
  <2> QED  BY <2>1, <2>2, <2>3 DEF LegibleIn, AadsOf
<1>2. CASE ~(v # NullValue /\ KeyUsable(c, WriteKey(c, col)))
  BY <1>2 DEF Write, LegibleIn
<1> QED  BY <1>1, <1>2

\* rotate_value makes one legible value of another.
LEMMA RotateLegible ==
  ASSUME KeysKept, NEW c \in Settings, NEW v \in Value, Legible(v), ~RotateRaises(c, v)
  PROVE  Legible(RotateValue(c, v))
<1> DEFINE l == [kid |-> c.active, mat |-> c.keys[c.active], aad |-> NoAad]
<1>0. c \in Config
  BY SettingsType
<1>1. CASE RotateValue(c, v) = v
  BY <1>1
<1>2. CASE /\ KeyUsable(c, c.active) /\ v.layers # <<>>
           /\ RotateValue(c, v) = Wrap(l, Peel(v))
  <2>1. l \in Layer /\ Known(l) /\ l.aad = NoAad
    BY <1>0, <1>2, ActiveLayer DEF KeysKept, Known
  <2>2. Peel(v) \in Value /\ Peel(v).layers = <<>>
    BY <1>2, PeelType DEF Legible
  <2> HIDE DEF l
  <2>3. Head(Wrap(l, Peel(v)).layers) = l /\ Peel(Wrap(l, Peel(v))) = Peel(v)
    BY <2>1, <2>2, PeelWrap
  <2> QED  BY <1>2, <2>1, <2>2, <2>3 DEF Legible
<1> QED  BY <1>0, <1>1, <1>2, RotateForm

LEMMA RotatedLegible ==
  ASSUME KeysKept, NEW c \in Settings, NEW v \in Value, Legible(v), Chosen(v) => ~RotateRaises(c, v)
  PROVE  Legible(Rotated(c, v))
BY RotateLegible DEF Rotated

LEMMA LegibleInit == LegibleBefore /\ Init => TableLegible
<1> SUFFICES ASSUME LegibleBefore, Init PROVE TableLegible
  OBVIOUS
<1>1. PICK old \in [Pks -> InitialRows] :
        row = [p \in Pks |-> IF p \in present THEN InModel(p, old[p]) ELSE Blank]
  BY DEF Init
<1>2. ASSUME NEW p \in Pks, NEW col \in Columns PROVE LegibleIn(col, row[p][col])
  <2>1. LegibleIn(col, old[p][col])
    BY DEF LegibleBefore
  <2>2. NullValue.layers = <<>>
    BY DEF NullValue, Plain
  <2>3. row[p][col] = old[p][col] \/ row[p][col] = NullValue
    BY <1>1 DEF InModel, Blank
  <2> QED  BY <2>1, <2>2, <2>3, TextLegible DEF LegibleIn
<1>3. \A w \in Workers, col \in Columns : Legible(inst[w][col])
  BY BlankLegible, TextLegible DEF Init
<1> QED  BY <1>2, <1>3 DEF TableLegible

LEMMA PreparedLegible ==
  ASSUME KeysKept, TypeOK, NEW w \in Workers, NEW f \in [Columns -> Value],
         \A col \in Columns : Legible(f[col])
  PROVE  \A col \in Columns : LegibleIn(col, Prepared(w, f)[col])
BY WorkerSettings, WriteLegible DEF Prepared

LEMMA LegibleTableStep ==
  ASSUME KeysKept, TypeOK, TableLegible, Next
  PROVE  TableLegible'
<1> USE DEF TableLegible, TypeOK
<1>1. PICK w \in Workers : Step(w)
  BY DEF Next
<1>c. Conf(w) \in Settings
  BY WorkerSettings
<1>b. \A col \in Columns : Legible(Blank[col]) /\ LegibleIn(col, Blank[col])
  BY BlankLegible, TextLegible DEF LegibleIn
<1>2. ASSUME NEW p \in Pks, Load(w, p) PROVE TableLegible'
  <2>1. \A col \in Columns : Legible(Read(Conf(w), col, row[p][col]))
    BY <1>c, ReadLegible
  <2> QED  BY <1>2, <2>1 DEF Load, db
<1>3. ASSUME NEW p \in Pks, NEW f \in [Columns -> Texts \cup {Null}], Create(w, p, f)
      PROVE  TableLegible'
  <2> DEFINE new == InModel(p, [col \in Columns |-> Plain(f[col])])
  <2>1. new \in [Columns -> Value] /\ \A col \in Columns : Legible(new[col])
    BY NewShowsTexts, TextLegible
  <2>2. row' = [row EXCEPT ![p] = Prepared(w, new)] /\ inst' = [inst EXCEPT ![w] = new]
    BY <1>3 DEF Create
  <2> HIDE DEF new
  <2>3. \A col \in Columns : LegibleIn(col, Prepared(w, new)[col])
    BY <2>1, PreparedLegible
  <2> QED  BY <2>1, <2>2, <2>3
<1>4. ASSUME NEW col \in Columns, SaveField(w, col) PROVE TableLegible'
  <2>1. LegibleIn(col, Write(Conf(w), col, inst[w][col]))
    BY <1>c, WriteLegible
  <2> QED  BY <1>4, <2>1 DEF SaveField
<1>5. ASSUME NEW col \in Columns, NEW x \in Texts \cup {Null}, Assign(w, col, x)
      PROVE  TableLegible'
  <2>1. Legible(Plain(x))
    BY TextLegible DEF Plain
  <2> QED  BY <1>5, <2>1 DEF Assign, db
<1>6. ASSUME FullClean(w) PROVE TableLegible'
  <2>1. PICK cleaned \in SUBSET Columns :
          inst' = [inst EXCEPT ![w] = [col \in Columns |->
                    IF col \in cleaned THEN Read(Conf(w), col, @[col]) ELSE @[col]]]
    BY <1>6 DEF FullClean
  <2>2. \A col \in Columns : Legible(Read(Conf(w), col, inst[w][col]))
    BY ReadKeepsLegible
  <2> QED  BY <1>6, <2>1, <2>2 DEF FullClean, db
<1>7. ASSUME Save(w) PROVE TableLegible'
  <2>1. \A col \in Columns : LegibleIn(col, Prepared(w, inst[w])[col])
    BY PreparedLegible
  <2> QED  BY <1>7, <2>1 DEF Save
<1>8. ASSUME Delete(w) \/ Redeploy(w) PROVE TableLegible'
  BY <1>8, <1>b DEF Delete, Redeploy, db
<1> QED  BY <1>1, <1>2, <1>3, <1>4, <1>5, <1>6, <1>7, <1>8 DEF Step

LEMMA LayerInvInit == LegibleBefore /\ RecipeInit => LayerInv
<1> SUFFICES ASSUME LegibleBefore, RecipeInit PROVE LayerInv
  OBVIOUS
<1>1. TableLegible
  BY LegibleInit DEF RecipeInit, IndexInit
<1>2. DOMAIN queue = {}
  BY NothingLeft DEF RecipeInit
<1> QED  BY <1>1, <1>2, RecipeInvInit DEF LayerInv

\* What a loop writes.
LEMMA SaveLegible ==
  ASSUME KeysKept, LayerInv, NEW p \in Pks, LoopSave(p)
  PROVE  LayerInv'
<1>1. RecipeInv /\ RecipeInv' /\ TableLegible /\ TypeOK /\ loopConf \in Settings
  BY SaveTypes DEF LayerInv, RecipeInv
<1>2. /\ p \in DOMAIN queue /\ queue[p] \in [Columns -> Value] /\ inst' = inst
      /\ DOMAIN queue' = DOMAIN queue \ {p} /\ \A q \in DOMAIN queue' : queue'[q] = queue[q]
  BY <1>1, SaveShape
<1>3. \A q \in DOMAIN queue', col \in Columns : Legible(queue'[q][col])
  BY <1>2 DEF LayerInv
<1>4. CASE row' = row
  BY <1>1, <1>2, <1>3, <1>4 DEF LayerInv, TableLegible
<1>5. ASSUME NEW by \in [Columns -> since], SavesRotated(p, by) PROVE LayerInv'
  <2>1. ASSUME NEW col \in Columns
        PROVE  LegibleIn(col, Write(loopConf, col, Rotated(by[col], queue[p][col])))
    <3>1. Legible(queue[p][col]) /\ queue[p][col] \in Value /\ by[col] \in Settings
      BY <1>1, <1>2, <1>5 DEF SavesRotated, LayerInv, RecipeInv
    <3>2. Legible(Rotated(by[col], queue[p][col]))
      BY <1>5, <3>1, RotatedLegible DEF SavesRotated
    <3>3. Rotated(by[col], queue[p][col]) \in Value
      BY <1>5 DEF SavesRotated
    <3> QED  BY <1>1, <3>2, <3>3, WriteLegible
  <2>2. \A q \in Pks, col \in Columns : LegibleIn(col, row'[q][col])
    BY <1>1, <1>5, <2>1 DEF SavesRotated, TypeOK, TableLegible
  <2> QED  BY <1>1, <1>2, <1>3, <2>2 DEF LayerInv, TableLegible
<1> QED  BY <1>1, <1>4, <1>5, SaveShape

LEMMA LayerInvNext == KeysKept /\ LayerInv /\ [RecipeNext]_recipeVars => LayerInv'
<1> SUFFICES ASSUME KeysKept, LayerInv, [RecipeNext]_recipeVars PROVE LayerInv'
  OBVIOUS
<1>0. RecipeInv /\ RecipeInv' /\ TableLegible /\ TypeOK
  BY RecipeInvNext DEF LayerInv, RecipeInv
<1>1. CASE WorkerStep
  <2>1. TableLegible'
    <3>1. CASE UNCHANGED <<row, inst>>
      BY <1>0, <3>1 DEF TableLegible
    <3> QED  BY <1>0, <1>1, <3>1, WorkerMoves, LegibleTableStep DEF SwitchKey, vars
  <2>2. queue' = queue
    BY <1>1 DEF WorkerStep
  <2> QED  BY <1>0, <2>1, <2>2 DEF LayerInv
<1>2. ASSUME NEW p \in Pks, LoopSave(p) PROVE LayerInv'
  BY <1>2, SaveLegible
<1>3. ASSUME NEW r \in Rotations \cup {"recompute"}, NEW w \in Workers, StartLoop(r, w)
      PROVE  LayerInv'
  <2>1. Conf(w) \in Settings /\ present \subseteq Pks
    BY <1>0, WorkerSettings DEF TypeOK
  <2>2. \A p \in present, col \in Columns : Legible(Read(Conf(w), col, row[p][col]))
    BY <1>0, <2>1, ReadLegible DEF TypeOK, TableLegible
  <2>3. /\ queue' = [p \in present |-> [col \in Columns |-> Read(Conf(w), col, row[p][col])]]
        /\ row' = row /\ inst' = inst
    BY <1>3 DEF StartLoop, indexVars, vars
  <2> QED  BY <1>0, <2>2, <2>3 DEF LayerInv, TableLegible
<1>4. CASE LoopStops
  BY <1>0, <1>4, StopShape DEF LayerInv, TableLegible, indexVars, vars
<1>5. CASE UNCHANGED recipeVars
  BY <1>0, <1>5 DEF LayerInv, TableLegible, recipeVars, loopVars, process, indexVars, vars
<1> QED
  BY <1>1, <1>2, <1>3, <1>4, <1>5 DEF RecipeNext, LoopEnds, LoopRaises, LoopDies

\* If keys that are in use stay, no settings make the removal of encryption store
\* ciphertext in the new column, also while loops and workers with other active
\* keys go on, and whether columns are strict, pinned or bound to their AAD.
THEOREM DecryptionGivesTexts ==
  KeysKept /\ LegibleBefore => (RecipeSpec => []DecryptGivesTexts)
<1> SUFFICES ASSUME KeysKept, LegibleBefore PROVE RecipeSpec => []DecryptGivesTexts
  OBVIOUS
<1>1. RecipeInit => LayerInv
  BY LayerInvInit
<1>2. LayerInv /\ [RecipeNext]_recipeVars => LayerInv'
  BY LayerInvNext
<1>3. LayerInv => DecryptGivesTexts
  <2> SUFFICES ASSUME LayerInv, NEW w \in Workers, NEW p \in present, NEW col \in Columns,
                      NEW v, v = Read(Conf(w), col, row[p][col]), v.layers # <<>>
               PROVE  Len(v.layers) = 1 /\ Opens(Conf(w), v, NoAad)
    BY DEF DecryptGivesTexts
  <2>1. /\ TypeOK /\ Conf(w) \in Settings /\ Conf(w) \in Config
        /\ row[p][col] \in Value /\ LegibleIn(col, row[p][col])
    BY WorkerSettings, SettingsType DEF LayerInv, RecipeInv, TypeOK, TableLegible
  <2>2. v \in Value /\ Legible(v)
    BY <2>1, ReadType, ReadLegible
  <2>3. /\ Known(Head(v.layers)) /\ Head(v.layers).aad = NoAad /\ Peel(v).layers = <<>>
        /\ Len(Peel(v).layers) = Len(v.layers) - 1 /\ Len(v.layers) \in Nat
    BY <2>2, PeelType DEF Legible, Value
  <2>4. Len(<<>>) = 0
    OBVIOUS
  <2>5. Len(v.layers) = 1
    BY <2>3, <2>4
  <2> QED  BY <2>1, <2>3, <2>5 DEF Opens, Known
<1> QED  BY <1>1, <1>2, <1>3, PTL DEF RecipeSpec
-----------------------------------------------------------------------------
(* The keys of what was saved by a rotating loop.                          *)

LEMMA NoneUnder == ASSUME NEW kids, NEW v, v.layers = <<>> PROVE OnlyUnder(kids, v)
BY NothingLeft DEF OnlyUnder

LEMMA WrapUnder ==
  ASSUME NEW kids, NEW l \in Layer, l.kid \in kids, NEW v \in Value, OnlyUnder(kids, v)
  PROVE  OnlyUnder(kids, Wrap(l, v))
<1>1. v.layers \in Seq(Layer) /\ Wrap(l, v).layers = <<l>> \o v.layers
  BY DEF Value, Wrap
<1>2. ASSUME NEW i \in DOMAIN (<<l>> \o v.layers) PROVE (<<l>> \o v.layers)[i].kid \in kids
  <2>1. i = 1 \/ (i - 1 \in DOMAIN v.layers /\ (<<l>> \o v.layers)[i] = v.layers[i - 1])
    BY <1>1
  <2>2. (<<l>> \o v.layers)[1] = l
    BY <1>1
  <2> QED  BY <2>1, <2>2 DEF OnlyUnder
<1> QED  BY <1>1, <1>2 DEF OnlyUnder

\* rotate_all leaves nothing out that has a layer, as its key is configured.
LEMMA LegibleChosen ==
  ASSUME loopConf \in Settings, NEW v \in Value, Legible(v), v.layers # <<>>
  PROVE  Chosen(v)
<1>1. Head(v.layers) \in Layer /\ loopConf.keys[Head(v.layers).kid] = Head(v.layers).mat
  BY DEF Legible, Known, Value
<1>2. IsEncrypted(loopConf, v)
  BY <1>1, CipherAssumption DEF IsEncrypted, Prefix, Layer
<1> QED  BY <1>2 DEF Chosen, NullValue, Plain

LEMMA RotatedUnder ==
  ASSUME loopConf \in Settings, NEW c \in Settings, c.active \in actives,
         NEW v \in Value, Legible(v), Chosen(v) => ~RotateRaises(c, v)
  PROVE  OnlyUnder(actives, Rotated(c, v))
<1> DEFINE l == [kid |-> c.active, mat |-> c.keys[c.active], aad |-> NoAad]
<1>0. c \in Config
  BY SettingsType
<1>1. CASE v.layers = <<>>
  <2>1. Rotated(c, v) = v
    BY <1>0, <1>1, RotateForm DEF Rotated
  <2> QED  BY <1>1, <2>1, NoneUnder
<1>2. CASE v.layers # <<>>
  <2>1. Chosen(v) /\ Rotated(c, v) = RotateValue(c, v) /\ ~RotateRaises(c, v)
    BY <1>2, LegibleChosen DEF Rotated
  <2>2. /\ Peel(v) \in Value /\ Peel(v).layers = <<>> /\ v.layers \in Seq(Layer)
        /\ Len(Peel(v).layers) = Len(v.layers) - 1
    BY <1>2, PeelType DEF Legible, Value
  <2>3. CASE RotateValue(c, v) = v /\ ~Rotatable(c, v)
    <3>1. Prefix(v) \in {NoSeparator, c.active}
      BY <1>2, <2>3 DEF Rotatable, NullValue, Plain
    <3>2. Head(v.layers) \in Layer /\ Prefix(v) = Head(v.layers).kid
      BY <1>2, <2>2 DEF Prefix
    <3>3. Head(v.layers).kid = c.active
      BY <3>1, <3>2, CipherAssumption DEF Layer
    <3>4. Len(<<>>) = 0 /\ Len(v.layers) \in Nat
      BY <2>2
    <3>5. Len(v.layers) = 1
      BY <2>2, <3>4
    <3>6. DOMAIN v.layers = {1} /\ v.layers[1] = Head(v.layers)
      BY <1>2, <2>2, <3>5
    <3> QED  BY <2>1, <2>3, <3>3, <3>6 DEF OnlyUnder
  <2>4. CASE KeyUsable(c, c.active) /\ RotateValue(c, v) = Wrap(l, Peel(v))
    <3>1. l \in Layer /\ l.kid \in actives
      BY <1>0, <2>4, ActiveLayer
    <3> HIDE DEF l
    <3>2. OnlyUnder(actives, Wrap(l, Peel(v)))
      BY <2>2, <3>1, NoneUnder, WrapUnder
    <3> QED  BY <2>1, <2>4, <3>2
  <2> QED  BY <1>0, <2>1, <2>3, <2>4, RotateForm
<1> QED  BY <1>1, <1>2

LEMMA WrittenUnder ==
  ASSUME Unpinned, loopConf \in Settings, loopConf.active \in actives,
         NEW col \in Columns, NEW v \in Value, OnlyUnder(actives, v)
  PROVE  OnlyUnder(actives, Write(loopConf, col, v))
<1>1. WriteKey(loopConf, col) = loopConf.active /\ loopConf \in Config
  BY SettingsType DEF WriteKey, Unpinned
<1> DEFINE l == [kid |-> loopConf.active, mat |-> loopConf.keys[loopConf.active], aad |-> col]
<1>2. CASE v # NullValue /\ KeyUsable(loopConf, loopConf.active)
  <2>1. l \in Layer /\ l.kid \in actives
    BY <1>1, <1>2, UsableLayer, WriteKeyType
  <2>2. Write(loopConf, col, v) = Wrap(l, v)
    BY <1>1, <1>2 DEF Write, Encrypt
  <2> HIDE DEF l
  <2> QED  BY <2>1, <2>2, WrapUnder
<1>3. CASE ~(v # NullValue /\ KeyUsable(loopConf, loopConf.active))
  BY <1>1, <1>3 DEF Write
<1> QED  BY <1>2, <1>3

LEMMA ReencryptedNext ==
  KeysKept /\ Unpinned /\ KeyInv /\ [RecipeNext]_recipeVars => Reencrypted'
<1> SUFFICES ASSUME KeysKept, Unpinned, KeyInv, [RecipeNext]_recipeVars PROVE Reencrypted'
  OBVIOUS
<1> USE DEF Reencrypted
<1>0. RecipeInv /\ LayerInv /\ Reencrypted /\ TypeOK /\ loopConf \in Settings
  BY DEF KeyInv, LayerInv, RecipeInv
<1>1. CASE WorkerStep
  <2>1. /\ recipe' = recipe /\ swept' \subseteq swept
        /\ \A p \in swept' : row'[p] = row[p]
    BY <1>0, <1>1, WorkerShape
  <2>2. actives \subseteq actives'
    BY <1>0, <1>1, WorkerOnProcess
  <2> QED  BY <1>0, <2>1, <2>2 DEF OnlyUnder
<1>2. ASSUME NEW p \in Pks, LoopSave(p) PROVE Reencrypted'
  <2> SUFFICES ASSUME recipe \in Rotations, NEW q \in swept', NEW col \in Columns
               PROVE  OnlyUnder(actives, row'[q][col])
    <3>1. recipe' = recipe /\ actives' = actives
      BY <1>0, <1>2, SaveShape
    <3> QED  BY <3>1 DEF OnlyUnder
  <2>1. /\ p \in DOMAIN queue /\ queue[p] \in [Columns -> Value] /\ loopConf.active \in actives
        /\ swept' \subseteq swept \cup {p} /\ \A r \in Pks \ {p} : row'[r] = row[r]
    BY <1>0, <1>2, SaveShape
  <2>2. p \notin swept /\ swept \subseteq Pks /\ "recompute" \notin Rotations
    BY <1>0, <2>1 DEF RecipeInv, RecipeTypeOK, Rotations
  <2>3. CASE q # p
    BY <1>0, <2>1, <2>2, <2>3
  <2>4. CASE q = p
    <3>1. PICK by \in [Columns -> since] : SavesRotated(p, by)
      BY <1>0, <1>2, <2>2, SaveShape
    <3>2. /\ Legible(queue[p][col]) /\ queue[p][col] \in Value
          /\ by[col] \in Settings /\ by[col].active \in actives
      BY <1>0, <2>1, <3>1 DEF SavesRotated, LayerInv, RecipeInv
    <3>3. OnlyUnder(actives, Rotated(by[col], queue[p][col]))
      BY <1>0, <3>1, <3>2, RotatedUnder DEF SavesRotated
    <3>4. /\ row'[p][col] = Write(loopConf, col, Rotated(by[col], queue[p][col]))
          /\ Rotated(by[col], queue[p][col]) \in Value
      BY <1>0, <3>1 DEF SavesRotated, TypeOK
    <3> QED  BY <1>0, <2>1, <2>4, <3>3, <3>4, WrittenUnder
  <2> QED  BY <2>3, <2>4
<1>3. ASSUME NEW r \in Rotations \cup {"recompute"}, NEW w \in Workers, StartLoop(r, w)
      PROVE  Reencrypted'
  BY <1>3 DEF StartLoop
<1>4. CASE LoopStops
  BY <1>4, StopShape
<1>5. CASE UNCHANGED recipeVars
  BY <1>0, <1>5 DEF recipeVars, loopVars, process, indexVars, vars, OnlyUnder
<1> QED
  BY <1>1, <1>2, <1>3, <1>4, <1>5 DEF RecipeNext, LoopEnds, LoopRaises, LoopDies

\* Once a loop has saved a row of columns without key_id=, no key is needed for any
\* layer of it but those that were active in the loop's process while it ran, however
\* often it was switched and whatever rows there are, in the backfilled ones of which
\* the inner layer is rotated as well.
THEOREM OldKeysNotNeeded ==
  KeysKept /\ LegibleBefore /\ Unpinned => (RecipeSpec => []OldKeyNotNeeded)
<1> SUFFICES ASSUME KeysKept, LegibleBefore, Unpinned PROVE RecipeSpec => []OldKeyNotNeeded
  OBVIOUS
<1>1. RecipeInit => KeyInv
  BY LayerInvInit DEF KeyInv, Reencrypted, RecipeInit
<1>2. KeyInv /\ [RecipeNext]_recipeVars => KeyInv'
  BY LayerInvNext, ReencryptedNext DEF KeyInv
<1>3. KeyInv => OldKeyNotNeeded
  BY DEF KeyInv, Reencrypted, OnlyUnder, OldKeyNotNeeded
<1> QED  BY <1>1, <1>2, <1>3, PTL DEF RecipeSpec
-----------------------------------------------------------------------------
(* Beside loops, strict columns and an index over one are                 *)
(* what EncryptedTableProofs and BlindIndexProofs show them to be without. *)

LEMMA QueueNext ==
  ASSUME StrictLoopInv, [RecipeNext]_recipeVars
  PROVE  QueueShowsTexts'
<1> USE DEF QueueShowsTexts
<1>0. RecipeInv /\ QueueShowsTexts /\ TypeOK /\ StrictOnceEncrypted /\ StrictCols \subseteq Columns
  BY CipherAssumption DEF StrictLoopInv, LoadInv, StrictInv
<1>1. CASE WorkerStep
  BY <1>0, <1>1, WorkerShape
<1>2. ASSUME NEW p \in Pks, LoopSave(p) PROVE QueueShowsTexts'
  <2>1. DOMAIN queue' = DOMAIN queue \ {p} /\ \A q \in DOMAIN queue' : queue'[q] = queue[q]
    BY <1>0, <1>2, SaveShape
  <2> QED  BY <1>0, <2>1
<1>3. ASSUME NEW r \in Rotations \cup {"recompute"}, NEW w \in Workers, StartLoop(r, w)
      PROVE  QueueShowsTexts'
  <2>1. ASSUME NEW p \in present, NEW col \in StrictCols
        PROVE  Read(Conf(w), col, row[p][col]).layers = <<>>
    <3>1. row[p][col] \in Value /\ OnceEncrypted(col, row[p][col]) /\ Conf(w) \in Config
      BY <1>0, ConfType DEF TypeOK, StrictOnceEncrypted
    <3>2. ~ReadRaises(Conf(w), col, row[p][col])
      BY <1>0, <1>3 DEF StartLoop
    <3> QED  BY <3>1, <3>2, ReadStrict
  <2> QED  BY <1>0, <1>3, <2>1 DEF StartLoop
<1>4. CASE LoopStops
  BY <1>4, StopShape
<1>5. CASE UNCHANGED recipeVars
  BY <1>0, <1>5 DEF recipeVars, loopVars
<1> QED
  BY <1>1, <1>2, <1>3, <1>4, <1>5 DEF RecipeNext, LoopEnds, LoopRaises, LoopDies

\* A rotating loop saves the texts it has loaded.
LEMMA RotateSavesTexts ==
  ASSUME StrictLoopInv, NEW p \in DOMAIN queue, NEW by \in [Columns -> since],
         ~IterationRaises(p, by), RotateAndSave(p, by), NEW col \in StrictCols
  PROVE  /\ queue[p][col] \in Value /\ queue[p][col].layers = <<>>
         /\ Rotated(by[col], queue[p][col]) = queue[p][col]
         /\ row'[p][col] = Write(loopConf, col, queue[p][col])
         /\ ~WriteRaises(loopConf, col, queue[p][col])
<1>0. RecipeInv /\ TypeOK /\ col \in Columns
  BY CipherAssumption DEF StrictLoopInv, LoadInv, StrictInv
<1>1. queue[p] \in [Columns -> Value] /\ p \in Pks
  BY <1>0 DEF RecipeInv, RecipeTypeOK
<1>2. /\ by[col] \in Config
      /\ Chosen(queue[p][col]) => ~RotateRaises(by[col], queue[p][col])
      /\ ~WriteRaises(loopConf, col, Rotated(by[col], queue[p][col]))
      /\ row' = [row EXCEPT ![p] =
            [k \in Columns |-> Write(loopConf, k, Rotated(by[k], queue[p][k]))]]
  BY <1>0, RotateShape DEF SavesRotated
<1>3. queue[p][col] \in Value /\ queue[p][col].layers = <<>>
  BY <1>0, <1>1 DEF StrictLoopInv, QueueShowsTexts
<1>4. Rotated(by[col], queue[p][col]) = queue[p][col]
  BY <1>2, <1>3, RotateForm DEF Rotated
<1> QED  BY <1>0, <1>1, <1>2, <1>3, <1>4 DEF TypeOK

LEMMA StrictSave == ASSUME StrictLoopInv, NEW p \in Pks, LoopSave(p) PROVE StrictInv'
<1>0. RecipeInv /\ TypeOK /\ StrictInv /\ StrictCols \subseteq Columns
  BY CipherAssumption DEF StrictLoopInv, LoadInv, StrictInv
<1>1. TypeOK' /\ inst' = inst /\ loopConf \in Config /\ p \in DOMAIN queue
  BY <1>0, SaveShape, SaveTypes DEF RecipeInv
<1>2. CASE RecomputeHash(p)
  BY <1>0, <1>1, <1>2 DEF RecomputeHash, StrictInv, StrictOnceEncrypted, InstancesShowTexts
<1>3. ASSUME NEW by \in [Columns -> since], ~IterationRaises(p, by), RotateAndSave(p, by)
      PROVE  StrictInv'
  <2>1. \A col \in StrictCols : OnceEncrypted(col, row'[p][col])
    BY <1>1, <1>3, RotateSavesTexts, WriteStrict
  <2>2. \A q \in Pks \ {p} : row'[q] = row[q]
    BY <1>0, SaveShape
  <2> QED  BY <1>0, <1>1, <2>1, <2>2 DEF StrictInv, StrictOnceEncrypted, InstancesShowTexts
<1> QED  BY <1>2, <1>3 DEF LoopSave

LEMMA StrictLoopInit == OwnInitialRows /\ RecipeInit => StrictLoopInv
<1> SUFFICES ASSUME OwnInitialRows, RecipeInit PROVE StrictLoopInv
  OBVIOUS
<1>1. DOMAIN queue = {}
  BY NothingLeft DEF RecipeInit
<1> QED
  BY <1>1, LoadInvInit, StrictInit DEF RecipeInit, IndexInit, StrictLoopInv, QueueShowsTexts

LEMMA StrictLoopNext == StrictLoopInv /\ [RecipeNext]_recipeVars => StrictLoopInv'
<1> SUFFICES ASSUME StrictLoopInv, [RecipeNext]_recipeVars PROVE StrictInv'
  BY LoadInvNext, QueueNext DEF StrictLoopInv
<1>0. StrictInv /\ TypeOK'
  BY RecipeInvNext DEF StrictLoopInv, LoadInv, RecipeInv
<1>1. ASSUME UNCHANGED <<row, inst>> PROVE StrictInv'
  BY <1>0, <1>1 DEF StrictInv, StrictOnceEncrypted, InstancesShowTexts
<1>2. CASE WorkerStep
  BY <1>0, <1>1, <1>2, WorkerMoves, StrictNext DEF SwitchKey
<1>3. ASSUME NEW p \in Pks, LoopSave(p) PROVE StrictInv'
  BY <1>3, StrictSave
<1>4. ASSUME NEW r \in Rotations \cup {"recompute"}, NEW w \in Workers, StartLoop(r, w)
      PROVE  StrictInv'
  BY <1>1, <1>4 DEF StartLoop, indexVars, vars
<1>5. CASE LoopStops \/ UNCHANGED recipeVars
  BY <1>1, <1>5 DEF LoopStops, recipeVars, indexVars, vars
<1> QED
  BY <1>2, <1>3, <1>4, <1>5 DEF RecipeNext, LoopEnds, LoopRaises, LoopDies

\* Loops encrypt what strict columns hold exactly once, as workers do, unless the
\* rows from before were encrypted twice.
THEOREM LoopsEncryptOnce == OwnInitialRows => (RecipeSpec => []StrictOnceEncrypted)
<1> SUFFICES ASSUME OwnInitialRows PROVE RecipeSpec => []StrictOnceEncrypted
  OBVIOUS
<1>1. RecipeInit => StrictLoopInv
  BY StrictLoopInit
<1>2. StrictLoopInv => StrictOnceEncrypted
  BY DEF StrictLoopInv, StrictInv
<1> QED  BY <1>1, <1>2, StrictLoopNext, PTL DEF RecipeSpec

LEMMA RotateKeepsIndex ==
  ASSUME IndexedStrictly, IndexLoopInv, NEW p \in Pks, LoopSave(p), NEW by \in [Columns -> since],
         ~IterationRaises(p, by), RotateAndSave(p, by)
  PROVE  IndexInv'
<1>0. /\ RecipeInv /\ IndexInv /\ StrictLoopInv /\ TypeOK /\ outdated \subseteq Pks
      /\ Indexed \in StrictCols /\ Indexed \in Columns /\ loopConf \in Config
      /\ p \in DOMAIN queue
  BY IndexAssumption, SettingsType
  DEF IndexLoopInv, StrictLoopInv, LoadInv, RecipeInv, IndexInv, IndexTypeOK, IndexedStrictly, LoopSave
<1>1. PICK i \in 1..Len(Rollout) : loopConf = Rollout[i]
  BY <1>0 DEF RecipeInv, Settings
<1> DEFINE v == queue[p][Indexed]
<1>2. /\ v \in Value /\ v.layers = <<>> /\ v.text \in Texts \cup {Null}
      /\ row'[p][Indexed] = Write(loopConf, Indexed, v) /\ ~WriteRaises(loopConf, Indexed, v)
      /\ Rotated(by[Indexed], v) = v
  BY <1>0, RotateSavesTexts DEF Value
<1>3. StoreHash(Rollout[i], p, v) /\ present' = present \cup {p} /\ outdated' = outdated \ {p}
  BY <1>1, <1>2 DEF RotateAndSave
<1>4. \A q \in Pks \ {p} : row'[q][Indexed] = row[q][Indexed]
  BY <1>0, SaveShape
<1> HIDE DEF v
<1>5. row'[p][Indexed].text = v.text /\ (v.text = Null => row'[p][Indexed] = NullValue)
  BY <1>0, <1>2, WrittenText
<1>6. PICK g : /\ IsHashOf(g, v.text)
               /\ hash' = [hash EXCEPT ![p] = g]
               /\ \A q \in present \ {p} : hash[q] = g => g = NoHash
  BY <1>0, <1>2, <1>3, StoreHashIn
<1>7. StrictInv'
  BY <1>0, StrictSave
<1> QED  BY <1>0, <1>2, <1>3, <1>4, <1>5, <1>6, <1>7, SavedTogether

\* The recomputation stores the hash of the text it has loaded: of another one
\* than the row has only if somebody wrote the row since.
LEMMA RecomputeKeepsIndex ==
  ASSUME IndexedStrictly, IndexLoopInv, NEW p \in Pks, LoopSave(p), RecomputeHash(p)
  PROVE  IndexInv'
<1>0. /\ RecipeInv /\ Loaded /\ IndexInv /\ StrictLoopInv /\ StrictInv /\ TypeOK
      /\ outdated \subseteq Pks /\ Indexed \in StrictCols /\ Indexed \in Columns
  BY IndexAssumption
  DEF IndexLoopInv, StrictLoopInv, LoadInv, RecipeInv, IndexInv, IndexTypeOK, IndexedStrictly
<1>1. PICK i \in 1..Len(Rollout) : loopConf = Rollout[i]
  BY <1>0 DEF RecipeInv, Settings
<1>2. p \in DOMAIN queue /\ loopConf \in Config /\ queue[p] \in [Columns -> Value]
  BY <1>0, SaveShape
<1>3. row' = row /\ present' = present
  BY DEF RecomputeHash
<1>4. StrictInv'
  BY <1>0, StrictSave
<1> DEFINE v == queue[p][Indexed]
<1>5. v \in Value /\ v.layers = <<>> /\ v.text \in Texts \cup {Null}
  BY <1>0, <1>2 DEF StrictLoopInv, QueueShowsTexts, Value
<1>6. /\ StoreHash(Rollout[i], p, v)
      /\ outdated' = IF p \in raced THEN outdated \cup {p} ELSE outdated \ {p}
  BY <1>1 DEF RecomputeHash
<1>7. p \notin raced => row[p][Indexed].text = v.text
  <2> SUFFICES ASSUME p \notin raced PROVE row[p][Indexed].text = v.text
    OBVIOUS
  <2>1. v = Read(loopConf, Indexed, row[p][Indexed]) /\ ~ReadRaises(loopConf, Indexed, row[p][Indexed])
    BY <1>0, <1>2 DEF Loaded
  <2>2. row[p][Indexed] \in Value /\ OnceEncrypted(Indexed, row[p][Indexed])
    BY <1>0 DEF TypeOK, StrictInv, StrictOnceEncrypted
  <2> QED  BY <1>0, <1>2, <2>1, <2>2, ReadStrict
<1>8. row[p][Indexed].text = Null => row[p][Indexed] = NullValue
  BY <1>0 DEF IndexInv
<1> HIDE DEF v
<1>9. PICK g : /\ IsHashOf(g, v.text)
               /\ hash' = [hash EXCEPT ![p] = g]
               /\ \A q \in present \ {p} : hash[q] = g => g = NoHash
  BY <1>0, <1>5, <1>6, StoreHashIn
<1>10. p \in outdated' \/ row'[p][Indexed].text = v.text
  BY <1>3, <1>6, <1>7
<1>11. outdated' \subseteq Pks /\ \A q \in Pks \ {p} : q \in outdated' <=> q \in outdated
  BY <1>0, <1>6
<1> QED
  BY <1>0, <1>3, <1>4, <1>5, <1>8, <1>9, <1>10, <1>11, SavedTogether

LEMMA IndexLoopInit == IndexedStrictly /\ RecipeInit => IndexLoopInv
BY StrictLoopInit, IndexInvInit DEF IndexedStrictly, RecipeInit, IndexLoopInv

LEMMA IndexLoopNext == IndexedStrictly /\ IndexLoopInv /\ [RecipeNext]_recipeVars => IndexLoopInv'
<1> SUFFICES ASSUME IndexedStrictly, IndexLoopInv, [RecipeNext]_recipeVars PROVE IndexInv'
  BY StrictLoopNext DEF IndexLoopInv
<1>0. IndexInv /\ StrictInv'
  BY StrictLoopNext DEF IndexLoopInv, StrictLoopInv
<1>1. ASSUME UNCHANGED <<present, row, hash, outdated>> PROVE IndexInv'
  BY <1>0, <1>1 DEF IndexInv, IndexTypeOK
<1>2. CASE WorkerStep
  <2>1. ASSUME NEW w \in Workers, WorkerMove(w) PROVE IndexInv'
    BY <1>0, <2>1, IndexInvNext DEF WorkerMove, IndexNext
  <2>2. ASSUME NEW w \in Workers, NEW s \in 1..Len(Rollout), SwitchKey(w, s) PROVE IndexInv'
    BY <1>1, <2>2 DEF SwitchKey
  <2> QED  BY <1>2, <2>1, <2>2 DEF WorkerStep
<1>3. ASSUME NEW p \in Pks, LoopSave(p) PROVE IndexInv'
  BY <1>3, RotateKeepsIndex, RecomputeKeepsIndex DEF LoopSave
<1>4. ASSUME NEW r \in Rotations \cup {"recompute"}, NEW w \in Workers, StartLoop(r, w)
      PROVE  IndexInv'
  BY <1>1, <1>4 DEF StartLoop, indexVars, vars
<1>5. CASE LoopStops \/ UNCHANGED recipeVars
  BY <1>1, <1>5 DEF LoopStops, recipeVars, indexVars, vars
<1> QED
  BY <1>2, <1>3, <1>4, <1>5 DEF RecipeNext, LoopEnds, LoopRaises, LoopDies

\* Loops do not break an index with a pinned key, also when they save rows as they
\* were before a worker wrote them: texts stay unique.
THEOREM LoopsKeepTextsUnique == IndexedStrictly /\ Pinned => (RecipeSpec => []UniqueTexts)
<1> SUFFICES ASSUME IndexedStrictly, Pinned PROVE RecipeSpec => []UniqueTexts
  OBVIOUS
<1>1. RecipeInit => IndexLoopInv
  BY IndexLoopInit
<1>2. IndexLoopInv /\ [RecipeNext]_recipeVars => IndexLoopInv'
  BY IndexLoopNext
<1>3. IndexLoopInv => UniqueTexts
  BY IndexInvUnique DEF IndexLoopInv
<1> QED  BY <1>1, <1>2, <1>3, PTL DEF RecipeSpec

\* In the middle of a loop as well, lookups find no row without the text and every
\* row with it that was hashed under the key they go by, but for those a recomputation
\* gave the hash of what they had held before.
THEOREM LookupsFindBesideLoops == IndexedStrictly => (RecipeSpec => []LookupFindsTexts)
<1> SUFFICES ASSUME IndexedStrictly PROVE RecipeSpec => []LookupFindsTexts
  OBVIOUS
<1>1. RecipeInit => IndexLoopInv
  BY IndexLoopInit
<1>2. IndexLoopInv /\ [RecipeNext]_recipeVars => IndexLoopInv'
  BY IndexLoopNext
<1>3. IndexLoopInv => LookupFindsTexts
  BY IndexInvFinds DEF IndexLoopInv
<1> QED  BY <1>1, <1>2, <1>3, PTL DEF RecipeSpec
=============================================================================
