------------------------------- MODULE Cipher -------------------------------
(***************************************************************************)
(* What FieldEncryptor and the encrypted model fields do to one value, as  *)
(* functions of the configuration of the process that calls them.          *)
(*                                                                         *)
(* A string is a text wrapped in zero or more layers of encryption,        *)
(* outermost first.  A layer records the key id written in front of it,    *)
(* the master key it was made with and the AAD it is bound to; the nonce   *)
(* is left out, nothing depends on it.  Decryption succeeds on a layer made *)
(* with the same master key and the same AAD, as AES-GCM guarantees.       *)
(***************************************************************************)
EXTENDS Sequences, Naturals

CONSTANTS
  Columns,      \* encrypted columns of a model
  StrictCols,   \* those declared strict=True
  AadCols,      \* those declared enforce_aad=True
  Pin,          \* column |-> its key_id= option, or NoKey
  KeyIds, Materials, Absent, Malformed, NoKey,
  NoAad,        \* aad=None
  Texts,        \* plaintexts
  TextPrefix,   \* text |-> what stands before its first ':'
  Foreign,      \* ... something that is no key id
  NoSeparator,  \* ... there is no ':' in it
  Lookalikes,   \* the texts "<key id>:<base64 of at least 12 bytes>"
  Null          \* None, NULL in the database

Layer  == [kid: KeyIds, mat: Materials, aad: Columns \cup {NoAad}]
Value  == [layers: Seq(Layer), text: Texts \cup {Null}]
Config == [keys: [KeyIds -> Materials \cup {Absent, Malformed}], active: KeyIds \cup {NoKey}]

ASSUME CipherAssumption ==
  /\ StrictCols \subseteq Columns /\ AadCols \subseteq Columns
  /\ Pin \in [Columns -> KeyIds \cup {NoKey}]
  /\ {Absent, Malformed} \cap Materials = {}
  /\ {NoKey, Foreign, NoSeparator} \cap KeyIds = {}
  /\ Foreign # NoSeparator
  /\ NoAad \notin Columns
  /\ Null \notin Texts
  /\ TextPrefix \in [Texts -> KeyIds \cup {Foreign, NoSeparator}]
  /\ \A x \in Lookalikes : x \in Texts /\ TextPrefix[x] \in KeyIds

Plain(x) == [layers |-> <<>>, text |-> x]
NullValue == Plain(Null)

Wrap(l, v) == [layers |-> <<l>> \o v.layers, text |-> v.text]
Peel(v)    == [layers |-> Tail(v.layers), text |-> v.text]

-----------------------------------------------------------------------------
(* FieldEncryptor.  c is the configuration, v a value that is not None.    *)

\* encrypted.split(PREFIX_SEPARATOR, 1)[0]
Prefix(v) == IF v.layers # <<>> THEN Head(v.layers).kid ELSE TextPrefix[v.text]

\* is_encrypted, which can_decrypt repeats: a configured key id in front of at
\* least 12 bytes of base64; whether the value decrypts is not asked.
IsEncrypted(c, v) ==
  /\ Prefix(v) \in KeyIds
  /\ c.keys[Prefix(v)] # Absent
  /\ v.layers # <<>> \/ v.text \in Lookalikes

\* decrypt(v, aad) removes a layer.  It returns a value without a separator as
\* it is, and raises on everything else.
Opens(c, v, aad) ==
  /\ v.layers # <<>>
  /\ c.keys[Head(v.layers).kid] = Head(v.layers).mat
  /\ Head(v.layers).aad = aad

\* encrypt(v, kid, aad) adds a layer, or raises when the key id is unset,
\* unknown or has a malformed master key.
KeyUsable(c, kid) == kid # NoKey /\ c.keys[kid] \in Materials
\* Variant (fault): the AAD is not passed on.
EncryptNoAad(c, v, kid, aad) == Wrap([kid |-> kid, mat |-> c.keys[kid], aad |-> NoAad], v)
Encrypt(c, v, kid, aad) == Wrap([kid |-> kid, mat |-> c.keys[kid], aad |-> aad], v)

-----------------------------------------------------------------------------
(* EncryptedFieldMixin.                                                    *)

\* The AAD of a column is its "<model label>:<field name>": the column itself.
Unlocks(c, col, v) ==
  Opens(c, v, col) \/ (col \notin AadCols /\ Opens(c, v, NoAad))

\* _decrypt_value, for from_db_value and to_python: it raises on what a strict
\* column cannot decrypt and hands it through in any other column.
\* Variant (fault): a strict column returns the ciphertext it cannot decrypt.
ReadRaisesNever(c, col, v) == FALSE
ReadRaises(c, col, v) ==
  v # NullValue /\ col \in StrictCols /\ ~(IsEncrypted(c, v) /\ Unlocks(c, col, v))
Read(c, col, v) ==
  IF v # NullValue /\ IsEncrypted(c, v) /\ Unlocks(c, col, v) THEN Peel(v) ELSE v

\* _encrypt_value, for get_prep_value: it raises if a strict column cannot be
\* encrypted and writes the value as it is in any other column.
WriteKey(c, col) == IF Pin[col] # NoKey THEN Pin[col] ELSE c.active
\* Variant (fault): a strict column falls back to the plain value.
WriteRaisesNever(c, col, v) == FALSE
WriteRaises(c, col, v) ==
  v # NullValue /\ col \in StrictCols /\ ~KeyUsable(c, WriteKey(c, col))
\* Variant (fault): a malformed master key is not noticed.
WriteUnchecked(c, col, v) ==
  IF v # NullValue /\ WriteKey(c, col) # NoKey
    THEN Encrypt(c, v, WriteKey(c, col), col) ELSE v
Write(c, col, v) ==
  IF v # NullValue /\ KeyUsable(c, WriteKey(c, col))
    THEN Encrypt(c, v, WriteKey(c, col), col) ELSE v
=============================================================================
