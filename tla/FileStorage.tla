----------------------------- MODULE FileStorage -----------------------------
(***************************************************************************)
(* The files of an app: a row of _files and an object in the bucket of the *)
(* app for each.  Nothing makes the two one: an upload puts the object and *)
(* then inserts the row, a deletion removes the object and then the row,   *)
(* and either may be cut short, or see the bucket of the app replaced.     *)
(* A request keeps the bucket it began with.                               *)
(***************************************************************************)
EXTENDS Naturals, FiniteSets

CONSTANTS FileReqs,  \* requests in flight at once
          Buckets, NoBucket,
          MaxFiles   \* bound: uploads ever begun

ASSUME FileBounds == MaxFiles \in Nat \ {0} /\ NoBucket \notin Buckets

VARIABLES bucket,    \* storage_config of the app
          uploads,   \* uploads so far; the number of one is its key
          object,    \* the buckets that hold an object of each key
          file,      \* _files
          home,      \* the bucket each file was uploaded to
          fileReq,   \* requests in flight
          halfDone,  \* history: files of which only one half was dealt with
          strayed    \* history: objects whose file was deleted in another bucket

fileVars == <<bucket, uploads, object, file, home, fileReq, halfDone, strayed>>

-----------------------------------------------------------------------------
FileKeys == 1 .. MaxFiles
FileIdle == [pc |-> "idle", key |-> 0, bucket |-> NoBucket]
FileReq == [pc : {"idle", "put", "insert", "undo", "remove", "forget"}, key : 0 .. MaxFiles, bucket : Buckets \cup {NoBucket}]

FileInit ==
    /\ bucket \in Buckets
    /\ uploads = 0
    /\ object = [k \in FileKeys |-> {}]
    /\ file = {}
    /\ home = [k \in FileKeys |-> NoBucket]
    /\ fileReq = [r \in FileReqs |-> FileIdle]
    /\ halfDone = {} /\ strayed = {}

FileAt(r, pc) == fileReq[r].pc = pc
FileStep(r, pc) == fileReq' = [fileReq EXCEPT ![r].pc = pc]
FileDone(r) == fileReq' = [fileReq EXCEPT ![r] = FileIdle]

-----------------------------------------------------------------------------
(* Upload.                                                                 *)

HandleFileUpload(r) ==
    /\ FileAt(r, "idle")
    /\ uploads < MaxFiles
    /\ uploads' = uploads + 1
    /\ home' = [home EXCEPT ![uploads + 1] = bucket]
    /\ fileReq' = [fileReq EXCEPT ![r] = [pc |-> "put", key |-> uploads + 1, bucket |-> bucket]]
    /\ UNCHANGED <<bucket, object, file, halfDone, strayed>>

Upload(r) ==
    LET q == fileReq[r] IN
    /\ FileAt(r, "put")
    /\ object' = [object EXCEPT ![q.key] = @ \cup {q.bucket}]
    /\ FileStep(r, "insert")
    /\ UNCHANGED <<bucket, uploads, file, home, halfDone, strayed>>

InsertFile(r) ==
    /\ FileAt(r, "insert")
    /\ file' = file \cup {fileReq[r].key}
    /\ FileDone(r)
    /\ UNCHANGED <<bucket, uploads, object, home, halfDone, strayed>>

\* The answer of the insert does not come, whether or not the row was committed.
InsertFails(r) ==
    /\ FileAt(r, "insert")
    /\ \/ file' = file \cup {fileReq[r].key} /\ halfDone' = halfDone \cup {fileReq[r].key}
       \/ UNCHANGED <<file, halfDone>>
    /\ FileStep(r, "undo")
    /\ UNCHANGED <<bucket, uploads, object, home, strayed>>

UndoUpload(r) ==
    LET q == fileReq[r] IN
    /\ FileAt(r, "undo")
    /\ object' = [object EXCEPT ![q.key] = @ \ {q.bucket}]
    /\ FileDone(r)
    /\ UNCHANGED <<bucket, uploads, file, home, halfDone, strayed>>

\* A step is refused, the caller goes away (and with it what the request would undo), the
\* pod dies: between the two halves of a file, one stays.
FileRequestEnds(r) ==
    /\ ~FileAt(r, "idle")
    /\ halfDone' = IF fileReq[r].pc \in {"insert", "undo", "forget"} THEN halfDone \cup {fileReq[r].key} ELSE halfDone
    /\ FileDone(r)
    /\ UNCHANGED <<bucket, uploads, object, file, home, strayed>>

-----------------------------------------------------------------------------
(* Deletion, twice over if asked for twice.                                *)

HandleFileDelete(r) ==
    /\ FileAt(r, "idle")
    /\ \E k \in file : fileReq' = [fileReq EXCEPT ![r] = [pc |-> "remove", key |-> k, bucket |-> bucket]]
    /\ UNCHANGED <<bucket, uploads, object, file, home, halfDone, strayed>>

\* Mutant: the object is left where it is.
RemoveNothing(r) ==
    /\ FileAt(r, "remove")
    /\ FileStep(r, "forget")
    /\ UNCHANGED <<bucket, uploads, object, file, home, halfDone, strayed>>

\* That the bucket has no such object is a success too.
RemoveObject(r) ==
    LET q == fileReq[r] IN
    /\ FileAt(r, "remove")
    /\ object' = [object EXCEPT ![q.key] = @ \ {q.bucket}]
    /\ FileStep(r, "forget")
    /\ UNCHANGED <<bucket, uploads, file, home, halfDone, strayed>>

ForgetFile(r) ==
    LET q == fileReq[r] IN
    /\ FileAt(r, "forget")
    /\ file' = file \ {q.key}
    /\ strayed' = IF q.bucket = home[q.key] THEN strayed ELSE strayed \cup {q.key}
    /\ FileDone(r)
    /\ UNCHANGED <<bucket, uploads, object, home, halfDone>>

-----------------------------------------------------------------------------
\* The bucket of the app is replaced; no object moves.
UpdateAppStorageConfig(b) ==
    /\ b # bucket
    /\ bucket' = b
    /\ UNCHANGED <<uploads, object, file, home, fileReq, halfDone, strayed>>

FileNext ==
    \/ \E b \in Buckets : UpdateAppStorageConfig(b)
    \/ \E r \in FileReqs :
        \/ HandleFileUpload(r) \/ Upload(r) \/ InsertFile(r) \/ InsertFails(r) \/ UndoUpload(r)
        \/ HandleFileDelete(r) \/ RemoveObject(r) \/ ForgetFile(r)
        \/ FileRequestEnds(r)

FileSpec == FileInit /\ [][FileNext]_fileVars

-----------------------------------------------------------------------------
\* The bucket, the rows, the objects and the requests have their types.
FileTypeOK ==
    /\ bucket \in Buckets /\ uploads \in 0 .. MaxFiles
    /\ object \in [FileKeys -> SUBSET Buckets] /\ home \in [FileKeys -> Buckets \cup {NoBucket}]
    /\ file \subseteq FileKeys
    /\ fileReq \in [FileReqs -> FileReq]
    /\ halfDone \cup strayed \subseteq FileKeys

AtWork(k, pcs) == \E r \in FileReqs : fileReq[r].pc \in pcs /\ fileReq[r].key = k

\* A file that is listed can be downloaded from the bucket it was uploaded to, unless a
\* deletion of it is under way or was cut short, or the insert of its row was taken for failed.
\* (HandleFileUpload, HandleFileDelete: the object first, then the row)
FileHasItsObject ==
    \A k \in file : home[k] \in object[k] \/ k \in halfDone \/ AtWork(k, {"forget"})

\* An object that no row names is being uploaded, or its upload or deletion was cut short,
\* or the bucket of the app was replaced before the file was deleted.
\* (HandleFileDelete asks the bucket of today for an object of yesterday's)
ObjectHasItsFile ==
    \A k \in FileKeys \ file :
        object[k] # {} => k \in halfDone \cup strayed \/ AtWork(k, {"put", "insert", "undo"})

\* An upload or a deletion that fails half way leaves rows and objects apart only as named.
FilesMatchObjects == FileHasItsObject /\ ObjectHasItsFile
=============================================================================
