\* Nobody else at work, rows as the column writes them.
CONSTANTS
  v1 = v1   v2 = v2   m1 = m1   m2 = m2   ssn = ssn   email = email
  plain = plain   forged = forged   note = note
  Columns = {ssn}
  StrictCols = {ssn}
  AadCols = {}
  Pin <- NoPins
  KeyIds = {v1, v2}
  Materials = {m1, m2}
  Absent = Absent   Malformed = Malformed   NoKey = NoKey   NoAad = NoAad
  Texts = {plain, forged}
  TextPrefix <- MCTextPrefix
  Foreign = Foreign   NoSeparator = NoSeparator   Lookalikes = {forged}
  Null = Null   Garbled = Garbled
  Workers = {}
  Pks = {1, 2, 3}
  NoPk = NoPk
  FieldsOf <- OneModel
  InitialRows <- OwnRows
  Rollout <- OldSettings
  MaxLag = 3
  MaxLayers = 2
  Scopes <- OneField
  BatchSize = 2
  RotConfs <- NewKey
SPECIFICATION RotSpec
INVARIANTS RotationCompletes
