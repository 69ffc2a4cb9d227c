\* A strict column and one that is not, workers at most one deployment apart,
\* and one of the deployments with a malformed key.
CONSTANTS
  v1 = v1   v2 = v2   m1 = m1   m2 = m2   ssn = ssn   email = email
  plain = plain   forged = forged   note = note
  Columns = {ssn, email}
  StrictCols = {ssn}
  AadCols = {email}
  Pin <- NoPins
  KeyIds = {v1, v2}
  Materials = {m1, m2}
  Absent = Absent   Malformed = Malformed   NoKey = NoKey   NoAad = NoAad
  Texts = {plain, forged}
  TextPrefix <- MCTextPrefix
  Foreign = Foreign   NoSeparator = NoSeparator   Lookalikes = {forged}
  Null = Null   Garbled = Garbled
  Workers = {w1, w2}
  Pks = {1}
  NoPk = NoPk
  FieldsOf <- OneModel
  InitialRows <- ReadableRows
  Rollout <- CorrectedRollout
  MaxLag = 1
  MaxLayers = 2
SPECIFICATION Spec
INVARIANTS TypeOK StrictOnceEncrypted EveryRowReadable
PROPERTIES StrictColumnsArePlain
