--------------------------- MODULE EncryptedTable ---------------------------
(***************************************************************************)
(* Tables with encrypted columns, and the workers of a deployment that     *)
(* load, change and save instances of their models.  Every worker runs     *)
(* with the settings it was started with; a rollout takes the workers, one *)
(* by one, through a sequence of settings, so that at any time several of  *)
(* them are in use.  The tables are kept as one: each primary key stands   *)
(* for a row of one of the models, whose columns it has.                   *)
(*                                                                         *)
(* Queries are autocommitted: each is one step.  The fields' from_db_value *)
(* runs on the rows a query returned and get_prep_value on the values it   *)
(* sends, so that each conversion is in the step of its query.  A query    *)
(* whose conversions raise changes nothing and is not a step.              *)
(***************************************************************************)
EXTENDS Cipher

CONSTANTS
  Workers, Pks, NoPk,
  FieldsOf,     \* primary key |-> the encrypted columns of its model
  InitialRows,  \* what rows written before may hold
  Rollout,      \* the successive settings
  MaxLag,       \* how many settings one worker may be ahead of another
  MaxLayers,    \* bound on the layers of a stored value
  Garbled       \* what the application sees of ciphertext it is handed

ASSUME TableAssumption ==
  /\ NoPk \notin Pks
  /\ FieldsOf \in [Pks -> SUBSET Columns]
  /\ InitialRows \subseteq [Columns -> Value] /\ InitialRows # {}
  /\ Rollout \in Seq(Config) /\ Rollout # <<>>
  /\ MaxLag \in Nat /\ MaxLayers \in Nat

VARIABLES
  present,  \* primary keys with a row
  row,      \* their columns, as stored
  holding,  \* primary key of the instance each worker holds
  inst,     \* its attributes, as the application sees them
  stage     \* the settings each worker runs with

db       == <<present, row>>
vars     == <<present, row, holding, inst, stage>>

TypeOK ==
  /\ present \in SUBSET Pks
  /\ row \in [Pks -> [Columns -> Value]]
  /\ holding \in [Workers -> Pks \cup {NoPk}]
  /\ inst \in [Workers -> [Columns -> Value]]
  /\ stage \in [Workers -> 1..Len(Rollout)]

\* What stands for an absent row or a dropped instance.
Blank == [col \in Columns |-> NullValue]

\* A row or instance as far as its model goes; in other models' columns is nothing.
InModel(p, r) == [col \in Columns |-> IF col \in FieldsOf[p] THEN r[col] ELSE NullValue]

Init ==
  /\ present \in SUBSET Pks
  /\ \E old \in [Pks -> InitialRows] :
       row = [p \in Pks |-> IF p \in present THEN InModel(p, old[p]) ELSE Blank]
  /\ holding = [w \in Workers |-> NoPk]
  /\ inst = [w \in Workers |-> Blank]
  /\ stage = [w \in Workers |-> 1]

Conf(w) == Rollout[stage[w]]

-----------------------------------------------------------------------------
\* Model.objects.get(pk=p): from_db_value of every column.
Load(w, p) ==
  /\ p \in present
  /\ \A col \in Columns : ~ReadRaises(Conf(w), col, row[p][col])
  /\ holding' = [holding EXCEPT ![w] = p]
  /\ inst' = [inst EXCEPT ![w] = [col \in Columns |-> Read(Conf(w), col, row[p][col])]]
  /\ UNCHANGED <<db, stage>>

\* instance.col = x
Assign(w, col, x) ==
  /\ holding[w] # NoPk /\ col \in FieldsOf[holding[w]]
  /\ inst' = [inst EXCEPT ![w][col] = Plain(x)]
  /\ UNCHANGED <<db, holding, stage>>

\* EncryptedMaxLengthValidator decrypts what it is to measure, without AAD.  It
\* passes over a DecryptionError and not over the InvalidKeyError of a malformed
\* master key.
ValidatorRaises(c, v) == v # NullValue /\ IsEncrypted(c, v) /\ c.keys[Prefix(v)] = Malformed
CleanRaises(c, col, v) == ReadRaises(c, col, v) \/ ValidatorRaises(c, Read(c, col, v))

\* instance.full_clean(): to_python and the validators of one column after the
\* other.  A column keeps its value if a validator rejects it, and once anything
\* but a ValidationError was raised for it or for one before it.
FullClean(w) ==
  /\ holding[w] # NoPk
  /\ \E cleaned \in SUBSET Columns :
       /\ \A col \in cleaned : ~CleanRaises(Conf(w), col, inst[w][col])
       /\ inst' = [inst EXCEPT ![w] = [col \in Columns |->
                    IF col \in cleaned THEN Read(Conf(w), col, @[col]) ELSE @[col]]]
  /\ UNCHANGED <<db, holding, stage>>

\* The bound that caps the encryption of what is encrypted already.
Room(v) == Len(v.layers) < MaxLayers

\* get_prep_value of every column, for the UPDATE or INSERT of f.
\* Variant (fault): get_db_prep_value prepares what is prepared already.
PreparedTwice(w, f) ==
  [col \in Columns |-> Write(Conf(w), col, Write(Conf(w), col, f[col]))]
Prepared(w, f) == [col \in Columns |-> Write(Conf(w), col, f[col])]
Preparable(w, f) ==
  \A col \in Columns : ~WriteRaises(Conf(w), col, f[col]) /\ Room(f[col])

\* Model.objects.create(...): the database assigns the primary key p.
Create(w, p, f) ==
  LET new == InModel(p, [col \in Columns |-> Plain(f[col])]) IN
  /\ p \notin present
  /\ Preparable(w, new)
  /\ present' = present \cup {p}
  /\ row' = [row EXCEPT ![p] = Prepared(w, new)]
  /\ holding' = [holding EXCEPT ![w] = p]
  /\ inst' = [inst EXCEPT ![w] = new]
  /\ UNCHANGED stage

\* instance.save(): an UPDATE of all columns, then an INSERT if it met no row.
Save(w) ==
  /\ holding[w] # NoPk
  /\ Preparable(w, inst[w])
  /\ present' = present \cup {holding[w]}
  /\ row' = [row EXCEPT ![holding[w]] = Prepared(w, inst[w])]
  /\ UNCHANGED <<holding, inst, stage>>

\* instance.save(update_fields=[col]): an UPDATE of one column; it raises if it
\* meets no row.
SaveField(w, col) ==
  /\ holding[w] \in present /\ col \in FieldsOf[holding[w]]
  /\ ~WriteRaises(Conf(w), col, inst[w][col]) /\ Room(inst[w][col])
  /\ row' = [row EXCEPT ![holding[w]][col] = Write(Conf(w), col, inst[w][col])]
  /\ UNCHANGED <<present, holding, inst, stage>>

\* instance.delete(), which takes the primary key from the instance.
Delete(w) ==
  /\ holding[w] # NoPk
  /\ present' = present \ {holding[w]}
  /\ holding' = [holding EXCEPT ![w] = NoPk]
  /\ row' = [row EXCEPT ![holding[w]] = Blank]
  /\ inst' = [inst EXCEPT ![w] = Blank]
  /\ UNCHANGED stage

\* The worker is restarted with the next settings; its instance is lost.
Redeploy(w) ==
  /\ stage[w] < Len(Rollout)
  /\ \A u \in Workers : stage[w] + 1 <= stage[u] + MaxLag \/ u = w
  /\ stage' = [stage EXCEPT ![w] = @ + 1]
  /\ holding' = [holding EXCEPT ![w] = NoPk]
  /\ inst' = [inst EXCEPT ![w] = Blank]
  /\ UNCHANGED db

-----------------------------------------------------------------------------
Step(w) ==
  \/ \E p \in Pks : Load(w, p) \/ \E f \in [Columns -> Texts \cup {Null}] : Create(w, p, f)
  \/ \E col \in Columns : SaveField(w, col) \/ \E x \in Texts \cup {Null} : Assign(w, col, x)
  \/ FullClean(w) \/ Save(w) \/ Delete(w) \/ Redeploy(w)

Next == \E w \in Workers : Step(w)

Spec == Init /\ [][Next]_vars

-----------------------------------------------------------------------------
(* Properties.                                                             *)

\* A stored value of a strict column is a text encrypted exactly once, bound to
\* this column or to nothing: whatever settings the workers run with, no value
\* is stored in the clear, encrypted twice, or under another column's AAD.
OnceEncrypted(col, v) ==
  \/ v = NullValue
  \/ /\ Len(v.layers) = 1
     /\ v.layers[1].aad \in {col, NoAad}

StrictOnceEncrypted ==
  \A p \in Pks, col \in StrictCols : OnceEncrypted(col, row[p][col])

\* While workers are at most one step apart in a rollout that adds a key before
\* it makes it the active one, every worker can decrypt every ciphertext, also
\* what workers with later settings wrote.
EveryRowReadable ==
  \A w \in Workers, p \in present, col \in Columns :
    row[p][col].layers # <<>> =>
      IsEncrypted(Conf(w), row[p][col]) /\ Unlocks(Conf(w), col, row[p][col])

\* docs/security.md: "The database stores encrypted values, not plaintext."
NoPlaintextStored ==
  \A p \in present, col \in Columns : row[p][col] = NullValue \/ row[p][col].layers # <<>>

\* The strict columns behave as plain columns: a stored value stands for its
\* text, and an instance shows texts and never ciphertext.
Stored(v) == IF v = NullValue THEN Null ELSE IF Len(v.layers) = 1 THEN v.text ELSE Garbled
Shown(v)  == IF v.layers = <<>> THEN v.text ELSE Garbled

Plaintext == INSTANCE PlainTable WITH
  Columns  <- StrictCols,
  Contents <- Texts \cup {Null, Garbled},
  row      <- [p \in Pks |-> [col \in StrictCols |-> Stored(row[p][col])]],
  inst     <- [w \in Workers |-> [col \in StrictCols |-> Shown(inst[w][col])]]

StrictColumnsArePlain == Plaintext!Spec
=============================================================================
