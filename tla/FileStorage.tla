---------------------------- MODULE FileStorage -----------------------------
(***************************************************************************)
(* BaseEncryptedStorage of storage.py over a FileSystemStorage: uploads    *)
(* that run at the same time, deletions, the death of an uploading         *)
(* process, and what a download returns.                                   *)
(*                                                                         *)
(* Django's Storage.save asks for an available name and passes it to       *)
(* _save.  The underlying _save creates the file exclusively and, when     *)
(* somebody else took the name meanwhile, asks for another one and tries   *)
(* again; it returns the name it used.                                     *)
(***************************************************************************)
CONSTANTS
  Uploaders,
  Names,      \* file names
  Data,       \* contents
  Oversized,  \* contents larger than max_file_size
  Nothing,    \* no file, no name, no content
  NoAad, Failure

ASSUME FileAssumption ==
  /\ Oversized \subseteq Data
  /\ Nothing \notin Names \cup Data /\ NoAad \notin Names
  /\ Failure \notin Data

VARIABLES
  files,  \* name |-> the file on disk
  pc,     \* where each upload is
  up      \* its locals: the name _save was given, its AAD, the content, and the
          \* name the underlying _save uses

vars == <<files, pc, up>>

\* A file is "absent", "plain", "encrypted", or a "partial" one whose content
\* is still being written, or was when its writer died.
File     == [state: {"absent", "plain", "encrypted", "partial"},
             aad: Names \cup {NoAad}, data: Data \cup {Nothing}]
NoFile   == [state |-> "absent", aad |-> NoAad, data |-> Nothing]
NoUpload == [given |-> Nothing, name |-> Nothing, aad |-> NoAad, data |-> Nothing]

TypeOK ==
  /\ files \in [Names -> File]
  /\ pc \in [Uploaders -> {"idle", "save", "create", "write", "saved"}]
  /\ up \in [Uploaders -> [given: Names \cup {Nothing}, name: Names \cup {Nothing},
                           aad: Names \cup {NoAad}, data: Data \cup {Nothing}]]
  /\ \A u \in Uploaders : pc[u] # "idle" => {up[u].given, up[u].name} \subseteq Names

\* Files from before: in the clear, or encrypted without AAD or for their name.
Init ==
  /\ files \in [Names -> File]
  /\ \A n \in Names :
       \/ files[n] = NoFile
       \/ files[n].data # Nothing /\ files[n].state = "plain" /\ files[n].aad = NoAad
       \/ files[n].data # Nothing /\ files[n].state = "encrypted" /\ files[n].aad \in {n, NoAad}
  /\ pc = [u \in Uploaders |-> "idle"]
  /\ up = [u \in Uploaders |-> NoUpload]

Exists(n) == files[n].state # "absent"

Goto(u, l) == pc' = [pc EXCEPT ![u] = l]

-----------------------------------------------------------------------------
\* get_available_name: the name asked for, or one with a random suffix.
Available(n, got) == ~Exists(got) /\ (got = n \/ Exists(n))

\* Storage.save(n, content)
RequestSave(u, n, d) ==
  /\ pc[u] = "idle"
  /\ \E got \in Names :
       /\ Available(n, got)
       /\ up' = [up EXCEPT ![u] = [given |-> got, name |-> got, aad |-> NoAad, data |-> d]]
  /\ Goto(u, "save")
  /\ UNCHANGED files

\* Variant (fault): the AAD is content.name, the name of the file uploaded.
EncryptForContentName(u) ==
  /\ pc[u] = "save"
  /\ up[u].data \notin Oversized
  /\ \E n \in Names : up' = [up EXCEPT ![u].aad = n]
  /\ Goto(u, "create")
  /\ UNCHANGED files

\* _save encrypts the content, the name it was given as AAD.
EncryptContent(u) ==
  /\ pc[u] = "save"
  /\ up[u].data \notin Oversized
  /\ up' = [up EXCEPT ![u].aad = up[u].given]
  /\ Goto(u, "create")
  /\ UNCHANGED files

\* ... or it raises: the content is too large, or no usable key is configured.
Reject(u) ==
  /\ pc[u] = "save"
  /\ up' = [up EXCEPT ![u] = NoUpload]
  /\ Goto(u, "idle")
  /\ UNCHANGED files

\* Variant (fault): an existing file is opened and truncated.
CreateOver(u) ==
  /\ pc[u] = "create"
  /\ files' = [files EXCEPT ![up[u].name] =
                 [state |-> "partial", aad |-> up[u].aad, data |-> up[u].data]]
  /\ Goto(u, "write")
  /\ UNCHANGED up

\* The underlying _save: open with O_CREAT and O_EXCL.
CreateFile(u) ==
  /\ pc[u] = "create"
  /\ ~Exists(up[u].name)
  /\ files' = [files EXCEPT ![up[u].name] =
                 [state |-> "partial", aad |-> up[u].aad, data |-> up[u].data]]
  /\ Goto(u, "write")
  /\ UNCHANGED up

\* ... or FileExistsError: another name, for what is already encrypted.
Rename(u) ==
  /\ pc[u] = "create"
  /\ Exists(up[u].name)
  /\ \E got \in Names : Available(up[u].name, got) /\ up' = [up EXCEPT ![u].name = got]
  /\ UNCHANGED <<files, pc>>

\* Variant (fault): the name the underlying storage returned is not passed on.
FinishWithoutName(u) ==
  /\ pc[u] = "write"
  /\ files' = [files EXCEPT ![up[u].name].state = "encrypted"]
  /\ up' = [up EXCEPT ![u].name = Nothing]
  /\ Goto(u, "saved")

\* The content is written and save returns the name.
FinishSave(u) ==
  /\ pc[u] = "write"
  /\ files' = [files EXCEPT ![up[u].name].state = "encrypted"]
  /\ Goto(u, "saved")
  /\ UNCHANGED up

\* storage.delete(n), of a file that was saved, now or earlier, or left behind.
DeleteFile(n) ==
  LET owners == {u \in Uploaders : pc[u] = "saved" /\ up[u].name = n} IN
  /\ Exists(n)
  /\ \A u \in Uploaders : pc[u] = "write" => up[u].name # n
  /\ files' = [files EXCEPT ![n] = NoFile]
  /\ pc' = [u \in Uploaders |-> IF u \in owners THEN "idle" ELSE pc[u]]
  /\ up' = [u \in Uploaders |-> IF u \in owners THEN NoUpload ELSE up[u]]

\* The caller goes on; its file stays.
Return(u) ==
  /\ pc[u] = "saved"
  /\ up' = [up EXCEPT ![u] = NoUpload]
  /\ Goto(u, "idle")
  /\ UNCHANGED files

\* The uploading process dies; the file it created stays.
Crash(u) ==
  /\ pc[u] \in {"create", "write"}
  /\ up' = [up EXCEPT ![u] = NoUpload]
  /\ Goto(u, "idle")
  /\ UNCHANGED files

-----------------------------------------------------------------------------
Upload(u) ==
  \/ \E n \in Names, d \in Data : RequestSave(u, n, d)
  \/ EncryptContent(u) \/ Reject(u) \/ CreateFile(u) \/ Rename(u)
  \/ FinishSave(u) \/ Return(u) \/ Crash(u)

Next == (\E u \in Uploaders : Upload(u)) \/ (\E n \in Names : DeleteFile(n))

Spec == Init /\ [][Next]_vars

\* What _open(n) returns: the content, with the name as AAD or else without any;
\* a file that is not encrypted is returned as it is.
Opens(n) ==
  \/ files[n].state = "plain"
  \/ files[n].state = "encrypted" /\ files[n].aad \in {n, NoAad}
Opened(n) == IF Opens(n) THEN files[n].data ELSE Failure

-----------------------------------------------------------------------------
(* Properties.                                                             *)

\* A saved file keeps its content under the name that save returned, whatever
\* other uploads do, and it can be opened unless the underlying storage gave
\* it another name than the one it was encrypted for.
SavedFileKept ==
  \A u \in Uploaders : pc[u] = "saved" =>
    /\ files[up[u].name].state = "encrypted"
    /\ files[up[u].name].data = up[u].data
    /\ up[u].name = up[u].given => Opened(up[u].name) = up[u].data

\* No step makes a file that could be opened unreadable or changes what is read,
\* short of deleting it.
NoFileLost ==
  [][\A n \in Names : (Opened(n) # Failure /\ Opened(n)' # Opened(n)) => ~Exists(n)']_vars

\* README.md: "Wrap any Django Storage backend with transparent encryption".
\* A saved file can be opened under the name that save returned.
SavedFileOpens ==
  \A u \in Uploaders : pc[u] = "saved" => Opened(up[u].name) = up[u].data
=============================================================================
