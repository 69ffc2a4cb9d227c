------------------------- MODULE FileStorageProofs --------------------------
(* File storage for any number of uploads, names and contents: what the    *)
(* runs of FileStorage check on two uploads and three names.               *)
EXTENDS FileStorage, TLAPS

\* The file an upload has created is its own: it holds what the upload wrote,
\* under the AAD the upload encrypted it with.
OwnFile ==
  \A u \in Uploaders :
    /\ pc[u] = "write" => files[up[u].name].state = "partial"
    /\ pc[u] = "saved" => files[up[u].name].state = "encrypted"
    /\ pc[u] \in {"write", "saved"} =>
         /\ files[up[u].name].data = up[u].data
         /\ files[up[u].name].aad = up[u].aad

\* No two uploads write to the same file.
OneWriter ==
  \A u, v \in Uploaders :
    (pc[u] = "write" /\ pc[v] = "write" /\ up[u].name = up[v].name) => u = v

\* What is encrypted is bound to the name that _save was given.
BoundToGiven ==
  \A u \in Uploaders : pc[u] \in {"create", "write", "saved"} => up[u].aad = up[u].given

IInv == TypeOK /\ OwnFile /\ OneWriter /\ BoundToGiven

LEMMA InvInit == Init => IInv
<1> SUFFICES ASSUME Init PROVE IInv
  OBVIOUS
<1>1. TypeOK
  BY DEF Init, TypeOK, NoUpload
<1> QED  BY <1>1 DEF Init, IInv, OwnFile, OneWriter, BoundToGiven

LEMMA InvNext == IInv /\ [Next]_vars => IInv'
<1> SUFFICES ASSUME IInv, [Next]_vars PROVE IInv'
  OBVIOUS
<1> USE FileAssumption DEF Goto
<1>t. TypeOK
  BY DEF IInv
\* The steps that change no file and take an upload to a place where it has none.
<1> DEFINE Quiet(u) == /\ UNCHANGED files
                       /\ \A v \in Uploaders : v # u => pc'[v] = pc[v] /\ up'[v] = up[v]
                       /\ pc'[u] \in {"idle", "save", "create"}
                       /\ pc'[u] = "create" => up'[u].aad = up'[u].given
<1>q. ASSUME NEW u \in Uploaders, Quiet(u), TypeOK' PROVE IInv'
  <2>1. OwnFile'
    BY <1>q DEF IInv, OwnFile
  <2>2. OneWriter' /\ BoundToGiven'
    BY <1>q DEF IInv, OneWriter, BoundToGiven
  <2> QED  BY <1>q, <2>1, <2>2 DEF IInv
<1>1. ASSUME NEW u \in Uploaders, NEW n \in Names, NEW d \in Data, RequestSave(u, n, d)
      PROVE IInv'
  <2>1. TypeOK'
    BY <1>1, <1>t DEF RequestSave, TypeOK
  <2>2. Quiet(u)
    BY <1>1, <1>t DEF RequestSave, TypeOK
  <2> QED  BY <1>q, <2>1, <2>2
<1>2. ASSUME NEW u \in Uploaders, EncryptContent(u) PROVE IInv'
  <2>1. TypeOK'
    BY <1>2, <1>t DEF EncryptContent, TypeOK
  <2>2. Quiet(u)
    BY <1>2, <1>t DEF EncryptContent, TypeOK
  <2> QED  BY <1>q, <2>1, <2>2
<1>3. ASSUME NEW u \in Uploaders, Reject(u) \/ Return(u) \/ Crash(u) PROVE IInv'
  <2>1. TypeOK'
    BY <1>3, <1>t DEF Reject, Return, Crash, TypeOK, NoUpload
  <2>2. Quiet(u)
    BY <1>3, <1>t DEF Reject, Return, Crash, TypeOK
  <2> QED  BY <1>q, <2>1, <2>2
<1>4. ASSUME NEW u \in Uploaders, Rename(u) PROVE IInv'
  <2>1. TypeOK'
    BY <1>4, <1>t DEF Rename, TypeOK
  <2>2. Quiet(u)
    BY <1>4, <1>t DEF Rename, IInv, BoundToGiven, TypeOK
  <2> QED  BY <1>q, <2>1, <2>2
<1>5. ASSUME NEW u \in Uploaders, CreateFile(u) PROVE IInv'
  <2>1. up[u].name \in Names /\ files[up[u].name].state = "absent"
    BY <1>5, <1>t DEF CreateFile, Exists, TypeOK
  <2>2. TypeOK'
    BY <1>5, <1>t, <2>1 DEF CreateFile, TypeOK, File
  <2>3. \A v \in Uploaders : pc[v] \in {"write", "saved"} => up[v].name # up[u].name
    BY <2>1 DEF IInv, OwnFile
  <2>4. OwnFile'
    BY <1>5, <1>t, <2>1, <2>3 DEF CreateFile, TypeOK, IInv, OwnFile
  <2>5. OneWriter' /\ BoundToGiven'
    BY <1>5, <1>t, <2>3 DEF CreateFile, TypeOK, IInv, OneWriter, BoundToGiven
  <2> QED  BY <2>2, <2>4, <2>5 DEF IInv
<1>6. ASSUME NEW u \in Uploaders, FinishSave(u) PROVE IInv'
  <2>1. up[u].name \in Names /\ files[up[u].name].state = "partial"
    BY <1>6 DEF FinishSave, IInv, OwnFile, TypeOK
  <2>2. TypeOK'
    BY <1>6, <1>t, <2>1 DEF FinishSave, TypeOK, File
  <2>3. \A v \in Uploaders : v # u /\ pc[v] \in {"write", "saved"} => up[v].name # up[u].name
    BY <1>6, <2>1 DEF FinishSave, IInv, OwnFile, OneWriter
  <2>4. OwnFile'
    BY <1>6, <1>t, <2>1, <2>3 DEF FinishSave, TypeOK, IInv, OwnFile, File
  <2>5. OneWriter' /\ BoundToGiven'
    BY <1>6, <1>t DEF FinishSave, TypeOK, IInv, OneWriter, BoundToGiven
  <2> QED  BY <2>2, <2>4, <2>5 DEF IInv
<1>7. ASSUME NEW n \in Names, DeleteFile(n) PROVE IInv'
  <2>1. TypeOK'
    BY <1>7, <1>t DEF DeleteFile, TypeOK, NoFile, File, NoUpload
  <2>2. \A v \in Uploaders : pc'[v] \in {"create", "write", "saved"} =>
          /\ pc'[v] = pc[v] /\ up'[v] = up[v]
          /\ pc[v] \in {"write", "saved"} => up[v].name # n
    BY <1>7 DEF DeleteFile
  <2>3. \A m \in Names : m # n => files'[m] = files[m]
    BY <1>7, <1>t DEF DeleteFile, TypeOK
  <2>4. OwnFile'
    BY <1>t, <2>2, <2>3 DEF IInv, OwnFile, TypeOK
  <2>5. OneWriter' /\ BoundToGiven'
    BY <2>2 DEF IInv, OneWriter, BoundToGiven
  <2> QED  BY <2>1, <2>4, <2>5 DEF IInv
<1>8. CASE UNCHANGED vars
  BY <1>8 DEF vars, IInv, TypeOK, OwnFile, OneWriter, BoundToGiven
<1> QED
  BY <1>1, <1>2, <1>3, <1>4, <1>5, <1>6, <1>7, <1>8 DEF Next, Upload

-----------------------------------------------------------------------------
\* Every variable keeps its type.
THEOREM FilesTypeCorrect == Spec => []TypeOK
<1>1. IInv => TypeOK
  BY DEF IInv
<1> QED  BY <1>1, InvInit, InvNext, PTL DEF Spec

\* A saved file keeps its content, and opens under the name _save was given.
THEOREM SavedFilesAreKept == Spec => []SavedFileKept
<1>1. IInv => SavedFileKept
  <2> SUFFICES ASSUME IInv, NEW u \in Uploaders, pc[u] = "saved"
               PROVE  /\ files[up[u].name].state = "encrypted"
                      /\ files[up[u].name].data = up[u].data
                      /\ up[u].name = up[u].given => Opened(up[u].name) = up[u].data
    BY DEF SavedFileKept
  <2> QED  BY DEF IInv, OwnFile, BoundToGiven, Opened, Opens
<1> QED  BY <1>1, InvInit, InvNext, PTL DEF Spec

\* No file that could be opened becomes unreadable or other than it was, short
\* of its deletion.
THEOREM NoReadableFileIsLost == Spec => NoFileLost
<1> DEFINE Kept == \A n \in Names :
                     (Opened(n) # Failure /\ Opened(n)' # Opened(n)) => ~Exists(n)'
<1>1. IInv /\ [Next]_vars => [Kept]_vars
  <2> SUFFICES ASSUME IInv, Next PROVE Kept
    BY DEF Opened, Opens, Exists, vars
  <2>1. CASE UNCHANGED files
    BY <2>1 DEF Opened, Opens
  <2>2. ASSUME NEW u \in Uploaders, CreateFile(u) \/ FinishSave(u) PROVE Kept
    <3>1. up[u].name \in Names /\ files \in [Names -> File]
      BY <2>2 DEF IInv, TypeOK, CreateFile, FinishSave
    <3>2. Opened(up[u].name) = Failure
      BY <2>2 DEF CreateFile, FinishSave, Exists, IInv, OwnFile, Opened, Opens
    <3>3. \A n \in Names : n # up[u].name => Opened(n)' = Opened(n)
      BY <2>2, <3>1 DEF CreateFile, FinishSave, Opened, Opens
    <3> QED  BY <3>2, <3>3
  <2>3. ASSUME NEW m \in Names, DeleteFile(m) PROVE Kept
    BY <2>3 DEF IInv, TypeOK, DeleteFile, Opened, Opens, Exists, NoFile
  <2>4. ASSUME NEW u \in Uploaders, Upload(u) PROVE Kept
    BY <2>1, <2>2, <2>4 DEF Upload, RequestSave, EncryptContent, Reject, Rename, Return, Crash
  <2> QED  BY <2>3, <2>4 DEF Next
<1> QED  BY <1>1, InvInit, InvNext, PTL DEF Spec, NoFileLost
=============================================================================
