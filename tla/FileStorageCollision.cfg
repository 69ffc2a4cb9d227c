\* Two uploads ask for the same name before either has created its file.
CONSTANTS
  Uploaders = {u1, u2}
  Names = {n1, n2, n3}
  Data = {d1, d2, big}
  Oversized = {big}
  Nothing = Nothing   NoAad = NoAad   Failure = Failure
SPECIFICATION Spec
INVARIANTS SavedFileOpens
