\* Two uploads at a time compete for three names; one content is too large.
CONSTANTS
  Uploaders = {u1, u2}
  Names = {n1, n2, n3}
  Data = {d1, d2, big}
  Oversized = {big}
  DocIds = {k1, k2}
  Nothing = Nothing   NoAad = NoAad   Failure = Failure
SPECIFICATION DocSpec
INVARIANTS TypeOK DocTypeOK SavedFileKept DocumentsKeepFiles
PROPERTIES NoFileLost
