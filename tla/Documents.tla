----------------------------- MODULE Documents ------------------------------
(***************************************************************************)
(* The demo's documents: a table whose rows hold the names of files in an  *)
(* encrypted storage.  Saving a new document first saves the file and then *)
(* inserts the row; deleting one deletes the row and not the file.  Files  *)
(* that no row refers to may be deleted later with storage.delete.         *)
(***************************************************************************)
EXTENDS FileStorage

CONSTANT DocIds  \* primary keys

VARIABLES
  doc,   \* the rows: name of the file and, as history, the content uploaded
  left   \* names of the files that were left behind

docVars == <<vars, doc, left>>

NoDoc == [name |-> Nothing, sent |-> Nothing]

DocTypeOK ==
  /\ doc \in [DocIds -> [name: Names, sent: Data] \cup {NoDoc}]
  /\ left \subseteq Names

\* The files from before belong to nobody.
DocInit ==
  /\ Init
  /\ doc = [k \in DocIds |-> NoDoc]
  /\ left = {n \in Names : Exists(n)}

-----------------------------------------------------------------------------
\* document_upload: the save of the FileField, up to its return.
Uploading(u) ==
  /\ \/ \E n \in Names, d \in Data : RequestSave(u, n, d)
     \/ EncryptContent(u) \/ Reject(u) \/ CreateFile(u) \/ Rename(u) \/ FinishSave(u)
  /\ UNCHANGED <<doc, left>>

\* Variant (fault): the row gets the name that save was given.
InsertGiven(u, k) ==
  /\ Return(u)
  /\ doc[k] = NoDoc
  /\ doc' = [doc EXCEPT ![k] = [name |-> up[u].given, sent |-> up[u].data]]
  /\ UNCHANGED left

\* ... and the INSERT of the row, with the name that save returned.
InsertDocument(u, k) ==
  /\ Return(u)
  /\ doc[k] = NoDoc
  /\ doc' = [doc EXCEPT ![k] = [name |-> up[u].name, sent |-> up[u].data]]
  /\ UNCHANGED left

\* The process dies before it has inserted the row, or the INSERT fails.
Interrupted(u) ==
  /\ Crash(u) \/ Return(u)
  /\ left' = IF pc[u] = "create" THEN left ELSE left \cup {up[u].name}
  /\ UNCHANGED doc

\* Variant (fault): the file's name is taken from the row once it is deleted.
DeleteDocumentFirst(k) ==
  /\ doc[k] # NoDoc
  /\ doc' = [doc EXCEPT ![k] = NoDoc]
  /\ left' = left \cup {doc'[k].name}
  /\ UNCHANGED vars

\* document_delete
DeleteDocument(k) ==
  /\ doc[k] # NoDoc
  /\ doc' = [doc EXCEPT ![k] = NoDoc]
  /\ left' = left \cup {doc[k].name}
  /\ UNCHANGED vars

\* Somebody removes what was left behind.
CleanUp(n) ==
  /\ n \in left
  /\ DeleteFile(n)
  /\ left' = left \ {n}
  /\ UNCHANGED doc

DocNext ==
  \/ \E u \in Uploaders : Uploading(u) \/ Interrupted(u) \/ \E k \in DocIds : InsertDocument(u, k)
  \/ \E k \in DocIds : DeleteDocument(k)
  \/ \E n \in Names : CleanUp(n)

DocSpec == DocInit /\ [][DocNext]_docVars

-----------------------------------------------------------------------------
(* Properties.                                                             *)

\* A document keeps its file from the upload until its deletion, whatever is
\* uploaded, interrupted, deleted and cleaned up meanwhile: no other document
\* has it, it holds what was uploaded, and document_download returns that unless
\* the underlying storage had given the file another name.
DocumentsKeepFiles ==
  \A k \in DocIds : doc[k] # NoDoc =>
    LET n == doc[k].name IN
    /\ \A j \in DocIds : doc[j] # NoDoc /\ doc[j].name = n => j = k
    /\ files[n].state = "encrypted" /\ files[n].data = doc[k].sent
    /\ files[n].aad = n => Opened(n) = doc[k].sent
=============================================================================
