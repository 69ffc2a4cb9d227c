-------------------------- MODULE DocumentsProofs ---------------------------
(* Documents for any number of uploads, names, contents and rows: what its *)
(* run checks on two uploads, three names and two rows.                    *)
EXTENDS Documents, FileStorageProofs

\* An upload owns the file it has created until its caller goes on.
Owns(u, n) == pc[u] \in {"write", "saved"} /\ up[u].name = n
OneOwner   == \A u, v \in Uploaders, n \in Names : Owns(u, n) /\ Owns(v, n) => u = v

Refers(k, n) == doc[k] # NoDoc /\ doc[k].name = n

\* A file belongs to an upload, to one document, or was left behind; what
\* belongs to anybody is there.
Belongs ==
  /\ \A k \in DocIds, n \in Names : Refers(k, n) =>
       /\ files[n].state = "encrypted" /\ files[n].data = doc[k].sent
       /\ n \notin left
       /\ \A u \in Uploaders : ~Owns(u, n)
       /\ \A j \in DocIds : Refers(j, n) => j = k
  /\ \A n \in left : Exists(n) /\ \A u \in Uploaders : ~Owns(u, n)

Sends == \A u \in Uploaders : pc[u] # "idle" => up[u].data \in Data

DInv == IInv /\ Sends /\ DocTypeOK /\ OneOwner /\ Belongs

-----------------------------------------------------------------------------
(* What the documents do to the storage is what FileStorage allows.        *)

LEMMA StepsOfStorage == DocNext => [Next]_vars
<1> SUFFICES ASSUME DocNext PROVE [Next]_vars
  OBVIOUS
<1>1. ASSUME NEW u \in Uploaders,
             Uploading(u) \/ Interrupted(u) \/ \E k \in DocIds : InsertDocument(u, k)
      PROVE Upload(u)
  BY <1>1 DEF Uploading, Interrupted, InsertDocument, Upload
<1>2. ASSUME NEW k \in DocIds, DeleteDocument(k) PROVE UNCHANGED vars
  BY <1>2 DEF DeleteDocument
<1>3. ASSUME NEW n \in Names, CleanUp(n) PROVE DeleteFile(n)
  BY <1>3 DEF CleanUp
<1> QED  BY <1>1, <1>2, <1>3 DEF DocNext, Next

\* A storage with documents is a storage: what holds of FileStorage holds of the
\* storage the demo uses.
THEOREM DocumentsUseStorage == DocSpec => Spec
<1>1. DocInit => Init
  BY DEF DocInit
<1>2. [DocNext]_docVars => [Next]_vars
  BY StepsOfStorage DEF docVars, vars
<1> QED  BY <1>1, <1>2, PTL DEF DocSpec, Spec

-----------------------------------------------------------------------------
LEMMA SendsNext == TypeOK /\ Sends /\ [Next]_vars => Sends'
<1> SUFFICES ASSUME TypeOK, Sends, [Next]_vars PROVE Sends'
  OBVIOUS
<1> USE DEF TypeOK, Sends, Goto
<1>1. ASSUME NEW u \in Uploaders, Upload(u) PROVE Sends'
  BY <1>1 DEF Upload, RequestSave, EncryptContent, Reject, CreateFile, Rename, FinishSave, Return, Crash
<1>2. ASSUME NEW n \in Names, DeleteFile(n) PROVE Sends'
  BY <1>2 DEF DeleteFile
<1> QED  BY <1>1, <1>2 DEF Next, vars

LEMMA DocInvInit == DocInit => DInv
<1> SUFFICES ASSUME DocInit PROVE DInv
  OBVIOUS
<1>1. IInv
  BY InvInit DEF DocInit
<1>4. Sends
  BY DEF DocInit, Init, Sends
<1>2. DocTypeOK
  BY DEF DocInit, DocTypeOK
<1>3. OneOwner /\ Belongs
  BY DEF DocInit, Init, OneOwner, Belongs, Owns, Refers
<1> QED  BY <1>1, <1>2, <1>3, <1>4 DEF DInv

\* Steps of the uploads that leave the files and their owners alone, or take
\* owners away.
LEMMA BelongsStays ==
  ASSUME DInv, UNCHANGED <<files, doc, left>>,
         \A u \in Uploaders, n \in Names : Owns(u, n)' => Owns(u, n)
  PROVE  DocTypeOK' /\ OneOwner' /\ Belongs'
<1>1. DocTypeOK' /\ OneOwner'
  BY DEF DInv, DocTypeOK, OneOwner
<1>2. \A k \in DocIds, n \in Names : Refers(k, n)' = Refers(k, n)
  BY DEF Refers
<1>3. \A n \in Names : Exists(n)' = Exists(n)
  BY DEF Exists
<1>4. left \subseteq Names
  BY DEF DInv, DocTypeOK
<1> QED  BY <1>1, <1>2, <1>3, <1>4 DEF DInv, Belongs

LEMMA DocInvNext == DInv /\ [DocNext]_docVars => DInv'
<1> SUFFICES ASSUME DInv, [DocNext]_docVars PROVE DInv'
  OBVIOUS
<1> USE FileAssumption
<1>t. TypeOK /\ OwnFile /\ IInv
  BY DEF DInv, IInv
<1>d. doc \in [DocIds -> [name: Names, sent: Data] \cup {NoDoc}] /\ left \subseteq Names
  BY DEF DInv, DocTypeOK
<1>i. IInv' /\ Sends'
  BY <1>t, StepsOfStorage, InvNext, SendsNext DEF DInv, docVars, vars
<1>1. ASSUME NEW u \in Uploaders,
             \/ \E n \in Names, d \in Data : RequestSave(u, n, d)
             \/ EncryptContent(u) \/ Reject(u) \/ Rename(u),
             UNCHANGED <<doc, left>>
      PROVE DInv'
  <2>1. UNCHANGED files
    BY <1>1 DEF RequestSave, EncryptContent, Reject, Rename
  <2>2. \A v \in Uploaders, n \in Names : Owns(v, n)' => Owns(v, n)
    BY <1>1, <1>t DEF RequestSave, EncryptContent, Reject, Rename, Goto, Owns, TypeOK
  <2> QED  BY <1>1, <1>i, <2>1, <2>2, BelongsStays DEF DInv
<1>2. ASSUME NEW u \in Uploaders, CreateFile(u), UNCHANGED <<doc, left>> PROVE DInv'
  <2> DEFINE m == up[u].name
  <2>1. m \in Names /\ ~Exists(m)
    BY <1>2, <1>t DEF CreateFile, TypeOK
  <2>2. \A n \in Names : n # m => files'[n] = files[n]
    BY <1>2, <1>t DEF CreateFile, TypeOK
  <2>3. \A v \in Uploaders, n \in Names : Owns(v, n)' <=> Owns(v, n) \/ (v = u /\ n = m)
    BY <1>2, <1>t DEF CreateFile, Goto, Owns, TypeOK
  <2>4. \A v \in Uploaders : ~Owns(v, m)
    BY <2>1, <1>t DEF Owns, OwnFile, Exists
  <2>5. m \notin left /\ \A k \in DocIds : ~Refers(k, m)
    BY <2>1 DEF DInv, Belongs, Exists
  <2>6. \A k \in DocIds, n \in Names : Refers(k, n)' = Refers(k, n)
    BY <1>2 DEF Refers
  <2>7. OneOwner'
    BY <2>3, <2>4 DEF DInv, OneOwner
  <2>8. Belongs'
    BY <1>2, <1>d, <2>1, <2>2, <2>3, <2>5, <2>6 DEF DInv, Belongs, Exists
  <2> QED  BY <1>2, <1>i, <2>7, <2>8 DEF DInv, DocTypeOK
<1>3. ASSUME NEW u \in Uploaders, FinishSave(u), UNCHANGED <<doc, left>> PROVE DInv'
  <2> DEFINE m == up[u].name
  <2>1. m \in Names /\ Owns(u, m) /\ files[m].state = "partial"
    BY <1>3, <1>t DEF FinishSave, TypeOK, Owns, OwnFile
  <2>2. /\ \A n \in Names : n # m => files'[n] = files[n]
        /\ files'[m].state = "encrypted"
    BY <1>3, <1>t, <2>1 DEF FinishSave, TypeOK, File
  <2>3. \A v \in Uploaders, n \in Names : Owns(v, n)' <=> Owns(v, n)
    BY <1>3, <1>t DEF FinishSave, Goto, Owns, TypeOK
  <2>4. \A k \in DocIds : ~Refers(k, m)
    BY <2>1 DEF DInv, Belongs
  <2>5. \A k \in DocIds, n \in Names : Refers(k, n)' = Refers(k, n)
    BY <1>3 DEF Refers
  <2>6. \A n \in Names : Exists(n) => Exists(n)'
    BY <2>2 DEF Exists
  <2>7. OneOwner'
    BY <2>3 DEF DInv, OneOwner
  <2>8. Belongs'
    BY <1>3, <1>d, <2>1, <2>2, <2>3, <2>4, <2>5, <2>6 DEF DInv, Belongs
  <2> QED  BY <1>3, <1>i, <2>7, <2>8 DEF DInv, DocTypeOK
<1>4. ASSUME NEW u \in Uploaders, NEW k \in DocIds, InsertDocument(u, k) PROVE DInv'
  <2> DEFINE m == up[u].name
  <2>1. /\ m \in Names /\ up[u].data \in Data /\ Owns(u, m)
        /\ files[m].state = "encrypted" /\ files[m].data = up[u].data
    <3>1. pc[u] = "saved"
      BY <1>4 DEF InsertDocument, Return
    <3>2. m \in Names /\ files[m].state = "encrypted" /\ files[m].data = up[u].data
      BY <1>t, <3>1 DEF TypeOK, OwnFile
    <3> QED  BY <1>t, <3>1, <3>2 DEF DInv, Sends, Owns
  <2>2. UNCHANGED <<files, left>> /\ doc' = [doc EXCEPT ![k] = [name |-> m, sent |-> up[u].data]]
    BY <1>4 DEF InsertDocument, Return
  <2>3. \A v \in Uploaders, n \in Names : Owns(v, n)' <=> Owns(v, n) /\ v # u
    BY <1>4, <1>t DEF InsertDocument, Return, Goto, Owns, TypeOK
  <2>4. \A j \in DocIds, n \in Names : Refers(j, n)' <=> IF j = k THEN n = m ELSE Refers(j, n)
    BY <1>d, <2>1, <2>2 DEF Refers, NoDoc
  <2>5. m \notin left /\ \A j \in DocIds : ~Refers(j, m)
    BY <2>1 DEF DInv, Belongs
  <2>6. \A n \in Names : Exists(n) => Exists(n)'
    BY <2>2 DEF Exists
  <2>7. OneOwner'
    BY <2>3 DEF DInv, OneOwner
  <2>a. ASSUME NEW v \in Uploaders, NEW n \in Names, n = m PROVE ~Owns(v, n)'
    BY <2>1, <2>3, <2>a DEF DInv, OneOwner
  <2>b. ASSUME NEW j \in DocIds, NEW n \in Names, Refers(j, n)'
        PROVE  /\ files'[n].state = "encrypted" /\ files'[n].data = doc'[j].sent
               /\ n \notin left'
               /\ \A v \in Uploaders : ~Owns(v, n)'
               /\ \A i \in DocIds : Refers(i, n)' => i = j
    <3>1. CASE j = k
      <4>1. n = m /\ doc'[k].sent = up[u].data
        BY <1>d, <2>2, <2>4, <2>b, <3>1
      <4> QED  BY <2>1, <2>2, <2>4, <2>5, <2>a, <3>1, <4>1
    <3>2. CASE j # k
      <4>1. Refers(j, n) /\ n # m /\ doc'[j] = doc[j]
        BY <1>d, <2>2, <2>4, <2>5, <2>b, <3>2
      <4> QED  BY <2>2, <2>3, <2>4, <3>2, <4>1 DEF DInv, Belongs
    <3> QED  BY <3>1, <3>2
  <2>8. Belongs'
    <3>1. \A n \in left' : Exists(n)' /\ \A v \in Uploaders : ~Owns(v, n)'
      BY <1>d, <2>2, <2>3, <2>6 DEF DInv, Belongs
    <3> QED  BY <2>b, <3>1 DEF Belongs
  <2>9. DocTypeOK'
    BY <1>d, <2>1, <2>2 DEF DocTypeOK
  <2> QED  BY <1>i, <2>7, <2>8, <2>9 DEF DInv
<1>5. ASSUME NEW u \in Uploaders, Interrupted(u) PROVE DInv'
  <2>1. UNCHANGED <<files, doc>>
    BY <1>5 DEF Interrupted, Crash, Return
  <2>2. \A v \in Uploaders, n \in Names : Owns(v, n)' <=> Owns(v, n) /\ v # u
    BY <1>5, <1>t DEF Interrupted, Crash, Return, Goto, Owns, TypeOK
  <2>3. OneOwner'
    BY <2>2 DEF DInv, OneOwner
  <2>4. \A n \in left' : n \in Names /\ (n \in left \/ Owns(u, n))
    BY <1>5, <1>d, <1>t DEF Interrupted, Crash, Return, Owns, TypeOK
  <2>5. \A n \in left' : Exists(n) /\ \A v \in Uploaders : ~Owns(v, n)'
    <3>1. \A n \in Names : Owns(u, n) => Exists(n) /\ \A v \in Uploaders : Owns(v, n) => v = u
      BY <1>t DEF Owns, OwnFile, Exists, DInv, OneOwner
    <3> QED  BY <2>2, <2>4, <3>1 DEF DInv, Belongs
  <2>6. Belongs'
    BY <2>1, <2>2, <2>4, <2>5 DEF DInv, Belongs, Refers, Exists
  <2>7. DocTypeOK'
    BY <1>d, <2>1, <2>4 DEF DocTypeOK
  <2> QED  BY <1>i, <2>3, <2>6, <2>7 DEF DInv
<1>6. ASSUME NEW k \in DocIds, DeleteDocument(k) PROVE DInv'
  <2> DEFINE m == doc[k].name
  <2>1. m \in Names /\ Refers(k, m) /\ UNCHANGED vars /\ left' = left \cup {m}
    BY <1>6, <1>d DEF DeleteDocument, Refers
  <2>2. \A j \in DocIds, n \in Names : Refers(j, n)' <=> Refers(j, n) /\ j # k
    BY <1>6, <1>d DEF DeleteDocument, Refers
  <2>3. OneOwner' /\ \A v \in Uploaders, n \in Names : Owns(v, n)' <=> Owns(v, n)
    BY <2>1 DEF vars, Owns, DInv, OneOwner
  <2>4. Exists(m) /\ \A v \in Uploaders : ~Owns(v, m)
    BY <2>1 DEF DInv, Belongs, Exists
  <2>5. \A j \in DocIds \ {k} : ~Refers(j, m) /\ doc'[j] = doc[j]
    BY <1>6, <1>d, <2>1 DEF DeleteDocument, DInv, Belongs
  <2>6. Belongs'
    BY <1>d, <2>1, <2>2, <2>3, <2>4, <2>5 DEF vars, DInv, Belongs, Exists
  <2>7. DocTypeOK'
    BY <1>6, <1>d, <2>1 DEF DeleteDocument, DocTypeOK
  <2> QED  BY <1>i, <2>3, <2>6, <2>7 DEF DInv
<1>7. ASSUME NEW m \in Names, CleanUp(m) PROVE DInv'
  <2>1. m \in left /\ left' = left \ {m} /\ doc' = doc /\ DeleteFile(m)
    BY <1>7 DEF CleanUp
  <2>2. \A n \in Names : n # m => files'[n] = files[n]
    BY <1>t, <2>1 DEF DeleteFile, TypeOK
  <2>3. \A v \in Uploaders, n \in Names : Owns(v, n)' => Owns(v, n)
    BY <1>t, <2>1 DEF DeleteFile, Owns, TypeOK, NoUpload
  <2>4. \A k \in DocIds : ~Refers(k, m)
    BY <2>1 DEF DInv, Belongs
  <2>5. \A k \in DocIds, n \in Names : Refers(k, n)' = Refers(k, n)
    BY <2>1 DEF Refers
  <2>6. OneOwner'
    BY <2>3 DEF DInv, OneOwner
  <2>7. Belongs'
    BY <1>d, <2>1, <2>2, <2>3, <2>4, <2>5 DEF DInv, Belongs, Exists
  <2>8. DocTypeOK'
    BY <1>d, <2>1 DEF DocTypeOK
  <2> QED  BY <1>i, <2>6, <2>7, <2>8 DEF DInv
<1>8. CASE UNCHANGED docVars
  <2>1. UNCHANGED <<files, doc, left>> /\ \A v \in Uploaders, n \in Names : Owns(v, n)' => Owns(v, n)
    BY <1>8 DEF docVars, vars, Owns
  <2> QED  BY <1>i, <2>1, BelongsStays DEF DInv
<1> QED
  BY <1>1, <1>2, <1>3, <1>4, <1>5, <1>6, <1>7, <1>8 DEF DocNext, Uploading

-----------------------------------------------------------------------------
\* Every variable of Documents keeps its type.
THEOREM DocumentsTypeCorrect == DocSpec => []DocTypeOK
<1>1. DInv => DocTypeOK
  BY DEF DInv
<1> QED  BY <1>1, DocInvInit, DocInvNext, PTL DEF DocSpec

\* A document keeps its own file from its upload to its deletion.
THEOREM DocumentsKeepTheirFiles == DocSpec => []DocumentsKeepFiles
<1>1. DInv => DocumentsKeepFiles
  <2> SUFFICES ASSUME DInv, NEW k \in DocIds, doc[k] # NoDoc
               PROVE  LET n == doc[k].name IN
                      /\ \A j \in DocIds : doc[j] # NoDoc /\ doc[j].name = n => j = k
                      /\ files[n].state = "encrypted" /\ files[n].data = doc[k].sent
                      /\ files[n].aad = n => Opened(n) = doc[k].sent
    BY DEF DocumentsKeepFiles
  <2>1. doc[k].name \in Names /\ Refers(k, doc[k].name)
    BY DEF DInv, DocTypeOK, Refers
  <2> QED  BY <2>1 DEF DInv, Belongs, Refers, Opened, Opens
<1> QED  BY <1>1, DocInvInit, DocInvNext, PTL DEF DocSpec
=============================================================================
