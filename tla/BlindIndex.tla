----------------------------- MODULE BlindIndex -----------------------------
(***************************************************************************)
(* A BlindIndexField over one encrypted column of EncryptedTable: a column *)
(* with the keyed hash of the text, which a pre_save receiver computes     *)
(* whenever an instance is saved, and which unique lookups and the admin's *)
(* search go by.                                                           *)
(*                                                                         *)
(* The receiver sets an attribute that the save which called it writes to  *)
(* the hash column, or does not write; nothing else reads the attribute,   *)
(* so that only the column is kept.  The column is unique: a save that     *)
(* would repeat a hash raises IntegrityError, changes nothing and is not a *)
(* step.                                                                   *)
(***************************************************************************)
EXTENDS EncryptedTable

CONSTANTS
  Indexed,      \* the source_field
  IndexPin,     \* key_id= of the BlindIndexField, or NoKey
  PartialSaves, \* does the application name the source in update_fields and
                \* not the hash, or the hash and not the source?
  NoHash        \* None, NULL in the database

VARIABLES
  hash,     \* the hash column of every row
  outdated  \* history: the rows whose source and hash were last saved apart

indexVars == <<vars, hash, outdated>>

\* HMAC is taken to be injective: a hash is what it was made of.
Hash == [kid: KeyIds, mat: Materials, of: Value]

ASSUME IndexAssumption ==
  /\ Indexed \in Columns
  /\ \A p \in Pks : FieldsOf[p] = Columns  \* there is one model
  /\ IndexPin \in KeyIds \cup {NoKey}
  /\ PartialSaves \in BOOLEAN
  /\ NoHash \notin Hash

IndexTypeOK ==
  /\ hash \in [Pks -> Hash \cup {NoHash}]
  /\ outdated \subseteq Pks

-----------------------------------------------------------------------------
\* compute_hash(v, key_id=kid).  It raises when kid has no master key or a
\* malformed one, that is, unless KeyUsable(c, kid).
ComputeHash(c, kid, v) == [kid |-> kid, mat |-> c.keys[kid], of |-> v]

\* The key id the receiver hashes with: its field's, or else the active one.
\* Variant (fault): key_id is not passed on.
IndexKeyActive(c) == c.active
IndexKey(c) == IF IndexPin # NoKey THEN IndexPin ELSE c.active

\* BlindIndexField._compute_hash on an instance whose source attribute is v and
\* whose row has the hash h.
HashRaises(c, v) == v # NullValue /\ ~KeyUsable(c, IndexKey(c))
\* Variant (fault): nothing is done when there is nothing to hash.
PreSaveKeeping(c, v, h) == IF v = NullValue THEN h ELSE ComputeHash(c, IndexKey(c), v)
PreSave(c, v, h) == IF v = NullValue THEN NoHash ELSE ComputeHash(c, IndexKey(c), v)

\* unique=True, as the database enforces it for a row p.  No two ciphertexts
\* are equal, and so are no two hashes of them.
Unique(p, h) ==
  ~\E q \in present \ {p} : hash[q] = h /\ h # NoHash /\ h.of.layers = <<>>

\* The INSERT or UPDATE of row p with the hash of the source v, which raises
\* if no hash can be computed or another row has it.
Storable(c, p, v) == ~HashRaises(c, v) /\ Unique(p, PreSave(c, v, hash[p]))
\* Variant (fault): the source is stored instead of its hash.
StoreSource(c, p, v) ==
  /\ Storable(c, p, v)
  /\ hash' = [hash EXCEPT ![p] = v]
StoreHash(c, p, v) ==
  /\ Storable(c, p, v)
  /\ hash' = [hash EXCEPT ![p] = PreSave(c, v, @)]

-----------------------------------------------------------------------------
\* The rows from before were saved with the first settings.
IndexInit ==
  /\ Init
  /\ hash = [p \in Pks |-> PreSave(Rollout[1], Read(Rollout[1], Indexed, row[p][Indexed]), NoHash)]
  /\ \A p \in present : Unique(p, hash[p])
  /\ outdated = {}

IndexedCreate(w, p, f) ==
  /\ Create(w, p, f)
  /\ StoreHash(Conf(w), p, Plain(f[Indexed]))
  /\ outdated' = outdated \ {p}

IndexedSave(w) ==
  /\ Save(w)
  /\ StoreHash(Conf(w), holding[w], inst[w][Indexed])
  /\ outdated' = outdated \ {holding[w]}

\* save(update_fields=...) of a column and, if "both", of the hash column.  The
\* receiver runs in any case, but what it computes is lost unless the hash is
\* among the fields.
IndexedSaveField(w, col, both) ==
  /\ SaveField(w, col)
  /\ \/ both /\ StoreHash(Conf(w), holding[w], inst[w][Indexed])
     \/ ~both /\ ~HashRaises(Conf(w), inst[w][Indexed]) /\ UNCHANGED hash
  /\ \/ both /\ col = Indexed /\ outdated' = outdated \ {holding[w]}
     \/ ~both /\ col # Indexed /\ UNCHANGED outdated
     \/ PartialSaves /\ (both <=> col # Indexed) /\ outdated' = outdated \cup {holding[w]}

IndexedDelete(w) ==
  /\ Delete(w)
  /\ hash' = [hash EXCEPT ![holding[w]] = NoHash]
  /\ outdated' = outdated \ {holding[w]}

\* Loads, assignments, validation and deployments do not touch the index.
Unindexed(w) ==
  /\ \/ \E p \in Pks : Load(w, p)
     \/ \E col \in Columns, x \in Texts \cup {Null} : Assign(w, col, x)
     \/ FullClean(w)
     \/ Redeploy(w)
  /\ UNCHANGED <<hash, outdated>>

IndexedStep(w) ==
  \/ \E p \in Pks, f \in [Columns -> Texts \cup {Null}] : IndexedCreate(w, p, f)
  \/ \E col \in Columns, both \in BOOLEAN : IndexedSaveField(w, col, both)
  \/ IndexedSave(w) \/ IndexedDelete(w) \/ Unindexed(w)

IndexNext == \E w \in Workers : IndexedStep(w)

IndexSpec == IndexInit /\ [][IndexNext]_indexVars

-----------------------------------------------------------------------------
(* Lookups.  They write nothing, so that they are not steps.               *)

\* Model.objects.filter(hash=compute_hash(x)) in a process with settings c: no
\* key id is passed, so that the active one is used, whatever the field's is.
CanHash(c)    == KeyUsable(c, c.active)
Matches(c, x) == {p \in present : hash[p] = ComputeHash(c, c.active, Plain(x))}

\* EncryptedSearchMixin.get_search_results, Q being the rows that the search of
\* ModelAdmin found by search_fields.
SearchResults(c, Q, x) == Q \cup (Q \cap Matches(c, x))

-----------------------------------------------------------------------------
(* Properties.                                                             *)

\* The column shows the text, that is, not a ciphertext of it that was assigned.
HasText(p, x) == row[p][Indexed].text = x /\ Len(row[p][Indexed].layers) <= 1

\* No two rows have the same text in the indexed column, as if unique=True had
\* been declared for it, except those whose hash a save left out: with an index
\* whose key is pinned, also while workers have different active keys and save
\* what they loaded before.
UniqueTexts ==
  \A p, q \in present \ outdated :
    row[p][Indexed] # NullValue /\ HasText(q, row[p][Indexed].text) => p = q

\* Was p hashed with the key id kid, as far as its receiver had a choice?
HashedWith(p, kid) ==
  IF IndexPin # NoKey THEN kid = IndexPin ELSE hash[p] # NoHash /\ hash[p].kid = kid

\* Whatever settings a worker and those before it ran with, a lookup by hash
\* finds no row without the text, and every row with it that was hashed with the
\* key that is active where the lookup runs: no other, while the key is another
\* than the pinned one, and those saved or recomputed since it became active, if
\* none is pinned.  Rows whose hash a save left out aside, until they are saved.
LookupFindsTexts ==
  \A w \in Workers, x \in Texts :
    CanHash(Conf(w)) =>
      Matches(Conf(w), x) \ outdated =
        {p \in present \ outdated : HasText(p, x) /\ HashedWith(p, Conf(w).active)}

\* README.md: EncryptedSearchMixin "enables searching by blind index hash".  The
\* rows whose hash is that of the search term are among the results, whatever
\* search_fields found.
AdminSearchFinds ==
  \A w \in Workers, x \in Texts, Q \in SUBSET present :
    CanHash(Conf(w)) => Matches(Conf(w), x) \subseteq SearchResults(Conf(w), Q, x)
=============================================================================
