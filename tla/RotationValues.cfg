\* Two models, one with a strict column and one with enforce_aad, a row of each.
CONSTANTS
  v1 = v1   v2 = v2   m1 = m1   m2 = m2   ssn = ssn   email = email
  plain = plain   forged = forged   note = note
  Columns = {ssn, email}
  StrictCols = {ssn}
  AadCols = {email}
  Pin <- NoPins
  KeyIds = {v1, v2}
  Materials = {m1, m2}
  Absent = Absent   Malformed = Malformed   NoKey = NoKey   NoAad = NoAad
  Texts = {plain, forged}
  TextPrefix <- MCTextPrefix
  Foreign = Foreign   NoSeparator = NoSeparator   Lookalikes = {forged}
  Null = Null   Garbled = Garbled
  Workers = {w1, w2}
  Pks = {1, 2}
  NoPk = NoPk
  FieldsOf <- TwoTables
  InitialRows <- LegacyOrBackfilledRows
  Rollout <- OldSettings
  MaxLag = 3
  MaxLayers = 2
  Scopes <- TwoModels
  BatchSize = 1
  RotConfs <- NewKey
SPECIFICATION RotSpec
PROPERTIES RotationReencrypts
