\* A worker saves between the reading and the writing of a batch.
CONSTANTS
  v1 = v1   v2 = v2   m1 = m1   m2 = m2   ssn = ssn   email = email
  plain = plain   forged = forged   note = note
  Columns = {ssn}
  StrictCols = {ssn}
  AadCols = {}
  Pin <- NoPins
  KeyIds = {v1, v2}
  Materials = {m1, m2}
  Absent = Absent   Malformed = Malformed   NoKey = NoKey   NoAad = NoAad
  Texts = {plain, forged}
  TextPrefix <- MCTextPrefix
  Foreign = Foreign   NoSeparator = NoSeparator   Lookalikes = {forged}
  Null = Null   Garbled = Garbled
  Workers = {w1}
  Pks = {1}
  NoPk = NoPk
  FieldsOf <- OneModel
  InitialRows <- BackfilledRows
  Rollout <- OldSettings
  MaxLag = 3
  MaxLayers = 2
  Scopes <- OneField
  BatchSize = 1
  RotConfs <- NewKey
SPECIFICATION RotSpec
PROPERTIES RotationKeepsTexts
