------------------------------ MODULE MCTable -------------------------------
(* EncryptedTable on small sets: settings that are rolled out, texts, and  *)
(* the rows that are there before.                                         *)
EXTENDS EncryptedTable, TLC

CONSTANTS v1, v2, m1, m2, ssn, email, plain, forged, note

\* "forged" is a text the user typed that starts with a key id and a separator
\* and goes on in base64; "note" is one with a colon in it.
MCTextPrefix == plain :> NoSeparator @@ forged :> v1
OnePlainText == plain :> NoSeparator
OneNote      == note :> Foreign
OneModel     == [p \in Pks |-> Columns]
NoPins       == [col \in Columns |-> NoKey]

Both(active) == [keys |-> v1 :> m1 @@ v2 :> m2, active |-> active]
OnlyV1       == [keys |-> v1 :> m1 @@ v2 :> Absent, active |-> v1]
BadV2        == [keys |-> v1 :> m1 @@ v2 :> Malformed, active |-> v2]

\* A mistake in the new key that is taken back, and then the documented order:
\* add the key, make it the active one.
CorrectedRollout == <<OnlyV1, BadV2, Both(v1), Both(v2)>>

\* Rows the column itself wrote, and rows written with FieldEncryptor.encrypt.
Sealed(aad, x) == Wrap([kid |-> v1, mat |-> m1, aad |-> aad], Plain(x))
OwnRows    == {[col \in Columns |-> Sealed(col, plain)]}
\* A column for which enforce_aad was declared has none of the latter left.
ReadableRows == OwnRows \cup
  {[col \in Columns |-> Sealed(IF col \in AadCols THEN col ELSE NoAad, plain)]}
LegacyRows == OwnRows \cup {[col \in Columns |-> Sealed(NoAad, plain)]}

\* Rows that were encrypted before they were assigned to the column, as the
\* README's backfill does, beside those the column wrote.
Backfilled(f) == Wrap([kid |-> v1, mat |-> m1, aad |-> f], Sealed(NoAad, plain))
BackfilledRows == OwnRows \cup {[f \in Columns |-> Backfilled(f)]}
=============================================================================
