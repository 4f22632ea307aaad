-------------------------------- MODULE Objects --------------------------------
(***************************************************************************)
(* Object storage: LocalStorage, MemoryStorage and S3Storage (src/storage/), *)
(* and the presigned uploads and downloads of the S3 backend.                *)
(*                                                                          *)
(* An object's bytes are two halves, written one after the other.  On disk a *)
(* name refers to an inode, and a writer keeps the inode it opened whatever  *)
(* its name becomes.  asyncio.to_thread lets a put's thread run on when the  *)
(* caller is cancelled, so any two threads may run at once.                  *)
(***************************************************************************)
EXTENDS Integers, FiniteSets

CONSTANTS
    ObjectKeys,  \* object keys
    OwnerOf,     \* the user under whose prefix each key lies
    Datas,       \* contents, of the same size
    PutThreads,  \* puts and deletes running at once
    NoData       \* bytes not written

ASSUME ObjectsAssumption ==
    NoData \notin Datas /\ DOMAIN OwnerOf = ObjectKeys /\ ObjectKeys # {}

VARIABLES
    backend,    \* constant: local, memory or s3
    names,      \* each key's inode, 0 for no object
    temps,      \* the inode of each key's temp file, 0 for none
    files,      \* the two halves of each inode
    threads,    \* each thread: state, key, data, the inode it has open
    grants,     \* presigned uploads not yet used: owner, key
    kept,       \* history: what was last published under each key, NoData after a delete
    overlapped  \* history: keys two threads wrote at once

objectVars == <<backend, names, temps, files, threads, grants, kept, overlapped>>

Inodes == 1..(Cardinality(ObjectKeys) + Cardinality(PutThreads))
Owners == {OwnerOf[k] : k \in ObjectKeys}
Blank == <<NoData, NoData>>
NoThread == [state |-> "idle", key |-> CHOOSE k \in ObjectKeys : TRUE, data |-> NoData, fd |-> 0]

ObjectsTypeOK ==
    /\ backend \in {"local", "memory", "s3"}
    /\ names \in [ObjectKeys -> {0} \union Inodes] /\ temps \in [ObjectKeys -> {0} \union Inodes]
    /\ files \in [Inodes -> (Datas \union {NoData}) \X (Datas \union {NoData})]
    /\ threads \in [PutThreads -> [state : {"idle", "sent", "opened", "half", "written", "cleanup", "head"},
                                   key : ObjectKeys, data : Datas \union {NoData}, fd : {0} \union Inodes]]
    /\ grants \subseteq [owner : Owners, key : ObjectKeys]
    /\ kept \in [ObjectKeys -> Datas \union {NoData}] /\ overlapped \subseteq ObjectKeys

ObjectsInit ==
    /\ backend \in {"local", "memory", "s3"}
    /\ names = [k \in ObjectKeys |-> 0] /\ temps = [k \in ObjectKeys |-> 0]
    /\ files = [i \in Inodes |-> Blank] /\ threads = [t \in PutThreads |-> NoThread]
    /\ grants = {} /\ kept = [k \in ObjectKeys |-> NoData] /\ overlapped = {}

-----------------------------------------------------------------------------
(* Inodes.                                                                 *)

Used == {names[k] : k \in ObjectKeys} \union {temps[k] : k \in ObjectKeys} \union {threads[p].fd : p \in PutThreads}
FreeInodes == Inodes \ Used
FreeInode == CHOOSE i \in FreeInodes : TRUE

\* What a reader of the key gets; NoData twice is an empty file.
Content(k) == files[names[k]]
Writing(k) == {t \in PutThreads : threads[t].key = k /\ threads[t].state \in {"opened", "half", "written", "cleanup"}}

\* A whole object appears under the key at once, in an inode of its own.
PublishObject(k, d) ==
    /\ FreeInodes # {}
    /\ names' = [names EXCEPT ![k] = FreeInode]
    /\ files' = [files EXCEPT ![FreeInode] = <<d, d>>]
    /\ kept' = [kept EXCEPT ![k] = d]

-----------------------------------------------------------------------------
(* put.                                                                    *)

\* put: the key and the upload are validated (a refusal changes nothing), then the backend
\* is called: MemoryStorage stores at once, the others from a thread.
Put(t, k, d) ==
    /\ threads[t].state = "idle"
    /\ IF backend = "memory" THEN PublishObject(k, d) /\ UNCHANGED threads
       ELSE /\ threads' = [threads EXCEPT ![t] = [state |-> "sent", key |-> k, data |-> d, fd |-> 0]]
            /\ UNCHANGED <<names, files, kept>>
    /\ UNCHANGED <<backend, temps, grants, overlapped>>

\* put_object runs, or fails.
S3Put(t) ==
    /\ backend = "s3" /\ threads[t].state = "sent"
    /\ \/ PublishObject(threads[t].key, threads[t].data)
       \/ UNCHANGED <<names, files, kept>>
    /\ threads' = [threads EXCEPT ![t] = NoThread]
    /\ UNCHANGED <<backend, temps, grants, overlapped>>

\* mutant: the object itself is opened and written in place.
OpenInPlace(k) == IF names[k] = 0 THEN FreeInode ELSE names[k]

\* The name every put of the key gives its temp file: it is created, or cut to nothing.
OpenTemp(k) == IF temps[k] = 0 THEN FreeInode ELSE temps[k]

\* _put_sync, write_bytes: open, or fail.
OpenFile(t) ==
    /\ backend = "local" /\ threads[t].state = "sent"
    /\ LET k == threads[t].key
           i == OpenTemp(k)
       IN \/ /\ FreeInodes # {}
             /\ threads' = [threads EXCEPT ![t].state = "opened", ![t].fd = i]
             /\ files' = [files EXCEPT ![i] = Blank] /\ temps' = [temps EXCEPT ![k] = i]
             /\ overlapped' = IF Writing(k) = {} THEN overlapped ELSE overlapped \union {k}
          \/ /\ threads' = [threads EXCEPT ![t].state = "cleanup"]
             /\ UNCHANGED <<files, temps>>
             /\ overlapped' = IF Writing(k) = {} THEN overlapped ELSE overlapped \union {k}
    /\ UNCHANGED <<backend, names, grants, kept>>

\* write_bytes: half of the bytes, or an error.
WriteHalf(t) ==
    /\ threads[t].state \in {"opened", "half"}
    /\ \/ LET h == IF threads[t].state = "opened" THEN 1 ELSE 2
          IN /\ files' = [files EXCEPT ![threads[t].fd][h] = threads[t].data]
             /\ threads' = [threads EXCEPT ![t].state = IF h = 1 THEN "half" ELSE "written"]
       \/ UNCHANGED files /\ threads' = [threads EXCEPT ![t].state = "cleanup"]
    /\ UNCHANGED <<backend, names, temps, grants, kept, overlapped>>

\* mutant: a write that failed is published all the same.
AnyWritten(t) == threads[t].state \in {"written", "half"}

Written(t) == threads[t].state = "written"

\* tmp.replace(path): the temp file, whosever it is, becomes the object; without one it fails.
ReplaceFile(t) ==
    /\ Written(t)
    /\ LET k == threads[t].key
       IN IF temps[k] = 0 THEN UNCHANGED <<names, temps, kept>>
          ELSE /\ names' = [names EXCEPT ![k] = temps[k]] /\ temps' = [temps EXCEPT ![k] = 0]
               /\ kept' = [kept EXCEPT ![k] = threads[t].data]
    /\ threads' = [threads EXCEPT ![t].state = "cleanup", ![t].fd = 0]
    /\ UNCHANGED <<backend, files, grants, overlapped>>

\* finally: tmp.unlink(missing_ok=True), whosever it is.
UnlinkTemp(t) ==
    /\ threads[t].state = "cleanup"
    /\ temps' = [temps EXCEPT ![threads[t].key] = 0]
    /\ threads' = [threads EXCEPT ![t] = NoThread]
    /\ UNCHANGED <<backend, names, files, grants, kept, overlapped>>

-----------------------------------------------------------------------------
(* delete and the presigned requests.                                      *)

\* delete: unlink or del at once; S3 asks for the head first.
Delete(t, k) ==
    /\ threads[t].state = "idle" /\ names[k] # 0
    /\ IF backend = "s3"
       THEN /\ threads' = [threads EXCEPT ![t] = [NoThread EXCEPT !.state = "head", !.key = k]]
            /\ UNCHANGED <<names, kept>>
       ELSE /\ names' = [names EXCEPT ![k] = 0] /\ kept' = [kept EXCEPT ![k] = NoData]
            /\ UNCHANGED threads
    /\ UNCHANGED <<backend, temps, files, grants, overlapped>>

\* delete_object: whatever is there by then.
S3Delete(t) ==
    /\ threads[t].state = "head"
    /\ \/ /\ names' = [names EXCEPT ![threads[t].key] = 0]
          /\ kept' = [kept EXCEPT ![threads[t].key] = NoData]
       \/ UNCHANGED <<names, kept>>
    /\ threads' = [threads EXCEPT ![t] = NoThread]
    /\ UNCHANGED <<backend, temps, files, grants, overlapped>>

OwnedBy(o, k) == OwnerOf[k] = o

\* build_object_key: a uuid nothing else has.
FreshKey(k) == names[k] = 0 /\ \A g \in grants : g.key # k

PresignUpload(o, k) ==
    /\ backend = "s3" /\ OwnedBy(o, k) /\ FreshKey(k)
    /\ grants' = grants \union {[owner |-> o, key |-> k]}
    /\ UNCHANGED <<backend, names, temps, files, threads, kept, overlapped>>

\* The browser posts to S3 directly, once or again, until the form expires.
PostUpload(g, d) ==
    /\ g \in grants /\ PublishObject(g.key, d)
    /\ grants' \in {grants, grants \ {g}}
    /\ UNCHANGED <<backend, temps, threads, overlapped>>

ObjectsNext ==
    \/ \E t \in PutThreads :
          \/ S3Put(t) \/ OpenFile(t) \/ WriteHalf(t) \/ ReplaceFile(t) \/ UnlinkTemp(t) \/ S3Delete(t)
          \/ \E k \in ObjectKeys : Delete(t, k) \/ \E d \in Datas : Put(t, k, d)
    \/ \E o \in Owners, k \in ObjectKeys : PresignUpload(o, k)
    \/ \E g \in grants, d \in Datas : PostUpload(g, d)

ObjectsSpec == ObjectsInit /\ [][ObjectsNext]_objectVars

-----------------------------------------------------------------------------
(* Properties.                                                             *)

\* An object is what the last successful put, upload or delete of its key left, whole, through
\* failed and abandoned writes; on disk, unless two puts of the key ran at once.
ObjectsAreWhole ==
    \A k \in ObjectKeys \ overlapped :
        IF kept[k] = NoData THEN names[k] = 0 ELSE names[k] # 0 /\ Content(k) = <<kept[k], kept[k]>>

\* "a reader never observes a half-written object" (src/storage/local.py:61): whoever reads a
\* key finds both halves of one put.
ReaderSeesWhole ==
    \A k \in ObjectKeys : names[k] # 0 => \E d \in Datas : Content(k) = <<d, d>>
=============================================================================
