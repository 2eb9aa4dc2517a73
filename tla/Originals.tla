----------------------------- MODULE Originals ------------------------------
(***************************************************************************)
(* Documents and the originals kept of them, in their row or as an object  *)
(* of a bucket (storage-postgres/documents.rs, originals.rs,               *)
(* storage-s3/lib.rs).                                                     *)
(*                                                                         *)
(* Imports and the migration of rows hold a shared lock of the database    *)
(* from before their upload to the end of their transaction; whoever       *)
(* removes an object holds it alone.  A row is never changed but by the    *)
(* migration, and never deleted.                                           *)
(***************************************************************************)
EXTENDS Naturals, FiniteSets

CONSTANTS
    Contents,       \* digests, unique for an owner
    Keys,           \* object keys, a new one for each upload
    Writers,        \* requests that import, and operators that migrate
    Collectors,     \* operators that collect
    None,
    MaxStoreFaults  \* bound of a behaviour

VARIABLES
    doc,            \* documents: None, "inline" or the key of the original
    object,         \* the bucket: "absent", "recent" or "old" (24 h and more)
    writer, collector,
    reader,         \* the key that a request read in a row
    storeFaults

originalVars == <<doc, object, writer, collector, reader, storeFaults>>

NotWriting == [pc |-> "idle", doc |-> None, key |-> None, migrates |-> FALSE]
NotCollecting == [pc |-> "idle", key |-> None]

OriginalsTypeOK ==
    /\ doc \in [Contents -> {None, "inline"} \cup Keys]
    /\ object \in [Keys -> {"absent", "recent", "old"}]
    /\ writer \in [Writers -> [pc: {"idle", "put", "verify", "commit"},
                               doc: Contents \cup {None}, key: Keys \cup {None},
                               migrates: BOOLEAN]]
    /\ collector \in [Collectors -> [pc: {"idle", "listed", "locked", "remove"},
                                     key: Keys \cup {None}]]
    /\ reader \in Keys \cup {None}
    /\ storeFaults \in 0 .. MaxStoreFaults

\* Some rows date from before the bucket was configured.
OriginalsInit ==
    /\ doc \in [Contents -> {None, "inline"}]
    /\ object = [k \in Keys |-> "absent"]
    /\ writer = [w \in Writers |-> NotWriting]
    /\ collector = [c \in Collectors |-> NotCollecting]
    /\ reader = None
    /\ storeFaults = 0

-----------------------------------------------------------------------------
(* The lock, and the keys that were drawn.                                 *)

Writing(w) == writer[w].pc # "idle"
Alone(c) == collector[c].pc \in {"locked", "remove"}

\* pg_advisory_xact_lock_shared; a writer waits up to 5 s and gives up.
SharedLock == \A c \in Collectors : ~Alone(c)

\* Mutation: the collector relies on the age of an object.
NoLock == TRUE

\* pg_try_advisory_xact_lock
ExclusiveLock == (\A w \in Writers : ~Writing(w)) /\ \A c \in Collectors : ~Alone(c)

Unused(k) ==
    /\ object[k] = "absent" /\ \A c \in Contents : doc[c] # k
    /\ \A w \in Writers : writer[w].key # k
    /\ \A c \in Collectors : collector[c].key # k
    /\ reader # k

Faulty == storeFaults < MaxStoreFaults /\ storeFaults' = storeFaults + 1

Release(w) == writer' = [writer EXCEPT ![w] = NotWriting]

-----------------------------------------------------------------------------
(* Imports and the migration.                                              *)

\* insert_document: the unique row comes before the upload, so that one that
\* imports the same content waits for it, and then fails.
Insert(w, c) ==
    /\ ~Writing(w) /\ SharedLock
    /\ doc[c] = None /\ \A x \in Writers : writer[x].doc # c
    /\ \E k \in Keys :
        /\ Unused(k)
        /\ writer' = [writer EXCEPT ![w] =
                        [pc |-> "put", doc |-> c, key |-> k, migrates |-> FALSE]]
    /\ UNCHANGED <<doc, object, collector, reader, storeFaults>>

\* migrate_originals locks the row of a document, or skips it.
Migrate(w, c) ==
    /\ ~Writing(w) /\ SharedLock
    /\ doc[c] = "inline" /\ \A x \in Writers : writer[x].doc # c
    /\ \E k \in Keys :
        /\ Unused(k)
        /\ writer' = [writer EXCEPT ![w] =
                        [pc |-> "put", doc |-> c, key |-> k, migrates |-> TRUE]]
    /\ UNCHANGED <<doc, object, collector, reader, storeFaults>>

Upload(w) ==
    /\ writer[w].pc = "put"
    /\ object' = [object EXCEPT ![writer[w].key] = "recent"]
    /\ writer' = [writer EXCEPT ![w].pc = IF writer[w].migrates THEN "verify" ELSE "commit"]
    /\ UNCHANGED <<doc, collector, reader, storeFaults>>

\* The upload fails, with or without an object; the transaction rolls back.
UploadFails(w) ==
    /\ writer[w].pc = "put" /\ Faulty
    /\ \E state \in {"absent", "recent"} :
        object' = [object EXCEPT ![writer[w].key] = state]
    /\ Release(w)
    /\ UNCHANGED <<doc, collector, reader>>

\* What was stored is read back before the inline original is dropped.
Verify(w) ==
    /\ writer[w].pc = "verify"
    /\ writer' = [writer EXCEPT ![w].pc = "commit"]
    /\ UNCHANGED <<doc, object, collector, reader, storeFaults>>

Commit(w) ==
    /\ writer[w].pc = "commit"
    /\ doc' = [doc EXCEPT ![writer[w].doc] = writer[w].key]
    /\ Release(w)
    /\ UNCHANGED <<object, collector, reader, storeFaults>>

\* The reading back fails, the process dies, or the answer to the commit is
\* lost: whether it committed or not, the object stays.
CommitUnsure(w) ==
    /\ writer[w].pc \in {"verify", "commit"} /\ Faulty
    /\ doc' \in IF writer[w].pc = "verify" THEN {doc}
                ELSE {doc, [doc EXCEPT ![writer[w].doc] = writer[w].key]}
    /\ Release(w)
    /\ UNCHANGED <<object, collector, reader>>

-----------------------------------------------------------------------------
(* collect_originals, for one entry of a page that was listed before.      *)

ListPage(c) ==
    /\ collector[c].pc = "idle"
    /\ \E k \in Keys :
        /\ object[k] # "absent"
        /\ collector' = [collector EXCEPT ![c] = [pc |-> "listed", key |-> k]]
    /\ UNCHANGED <<doc, object, writer, reader, storeFaults>>

Lock(c) ==
    /\ collector[c].pc = "listed"
    /\ collector' = [collector EXCEPT ![c] =
                        IF ExclusiveLock THEN [@ EXCEPT !.pc = "locked"] ELSE NotCollecting]
    /\ UNCHANGED <<doc, object, writer, reader, storeFaults>>

\* No row refers to the object, and it is old; both are read under the lock.
Judge(c) ==
    LET k == collector[c].key IN
    /\ collector[c].pc = "locked"
    /\ collector' = [collector EXCEPT ![c] =
            IF (\A d \in Contents : doc[d] # k) /\ object[k] = "old"
            THEN [@ EXCEPT !.pc = "remove"] ELSE NotCollecting]
    /\ UNCHANGED <<doc, object, writer, reader, storeFaults>>

Remove(c) ==
    /\ collector[c].pc = "remove"
    /\ object' = [object EXCEPT ![collector[c].key] = "absent"]
    /\ collector' = [collector EXCEPT ![c] = NotCollecting]
    /\ UNCHANGED <<doc, writer, reader, storeFaults>>

\* The operator stops it, or the bucket or the database does not answer.
CollectFails(c) ==
    /\ collector[c].pc # "idle" /\ Faulty
    /\ collector' = [collector EXCEPT ![c] = NotCollecting]
    /\ UNCHANGED <<doc, object, writer, reader>>

-----------------------------------------------------------------------------
(* Requests that read, and time.                                           *)

\* get_document reads the row, then the object it names.
ReadRow ==
    /\ reader = None
    /\ \E c \in Contents : doc[c] \in Keys /\ reader' = doc[c]
    /\ UNCHANGED <<doc, object, writer, collector, storeFaults>>

ReadObject ==
    /\ reader # None /\ object[reader] # "absent"
    /\ reader' = None
    /\ UNCHANGED <<doc, object, writer, collector, storeFaults>>

\* A day passes; it may even pass during an upload.
GrowOld ==
    /\ \E k \in Keys : /\ object[k] = "recent"
                       /\ object' = [object EXCEPT ![k] = "old"]
    /\ UNCHANGED <<doc, writer, collector, reader, storeFaults>>

Import == \E w \in Writers, c \in Contents : Insert(w, c)

Write ==
    \E w \in Writers :
        Upload(w) \/ UploadFails(w) \/ Verify(w) \/ Commit(w) \/ CommitUnsure(w)

\* The two modes of the operator program.
Maintain ==
    \/ \E w \in Writers, c \in Contents : Migrate(w, c)
    \/ \E c \in Collectors :
        ListPage(c) \/ Lock(c) \/ Judge(c) \/ Remove(c) \/ CollectFails(c)

Detail == ReadRow \/ ReadObject

OriginalsNext == Import \/ Write \/ Maintain \/ Detail \/ GrowOld

-----------------------------------------------------------------------------
(* The original that a row names, or that a request is about to fetch, is  *)
(* in the bucket: no collection removes it between its upload and the      *)
(* commit, and no failed commit does (originals.rs:182, documents.rs:98).  *)
OriginalsAreKept ==
    /\ \A c \in Contents : doc[c] \in Keys => object[doc[c]] # "absent"
    /\ reader # None => object[reader] # "absent"

=============================================================================
