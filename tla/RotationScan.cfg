\* Three rows that come and go, batches of two, one strict column.
CONSTANTS
  v1 = v1   v2 = v2   m1 = m1   m2 = m2   ssn = ssn   email = email
  plain = plain   forged = forged   note = note
  Columns = {ssn}
  StrictCols = {ssn}
  AadCols = {}
  Pin <- NoPins
  KeyIds = {v1, v2}
  Materials = {m1, m2}
  Absent = Absent   Malformed = Malformed   NoKey = NoKey   NoAad = NoAad
  Texts = {plain}
  TextPrefix <- OnePlainText
  Foreign = Foreign   NoSeparator = NoSeparator   Lookalikes = {}
  Null = Null   Garbled = Garbled
  Workers = {w1}
  Pks = {1, 2, 3}
  NoPk = NoPk
  FieldsOf <- OneModel
  InitialRows <- BackfilledRows
  Rollout <- OldSettings
  MaxLag = 3
  MaxLayers = 2
  Scopes <- OneField
  BatchSize = 2
  RotConfs <- NewKeyMaybe
SPECIFICATION FairRotSpec
INVARIANTS RotTypeOK EveryRowExaminedOnce NoPlaintextStored
PROPERTIES LastRowReached RotationProgresses
