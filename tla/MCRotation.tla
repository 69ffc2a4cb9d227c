----------------------------- MODULE MCRotation -----------------------------
(* Rotation on small sets, run with the new key active while the workers   *)
(* still use the old one.                                                  *)
EXTENDS Rotation, MCTable

\* rotate_model_fields, and rotate_keys on two models, the first with a proxy.
OneField  == {<<ssn>>}
TwoModels == {<<email>>, <<ssn, email, ssn>>}
TwoTables == 1 :> {ssn} @@ 2 :> {email}
NewKey       == {Both(v2)}
NewKeyMaybe  == {Both(v2), BadV2}
OldSettings  == <<Both(v1)>>

\* Of three rows, the one that the others can delay.
LastRowReached == RowReached(3)

\* Rows of all three kinds.
LegacyOrBackfilledRows == LegacyRows \cup BackfilledRows
=============================================================================
