---------------------------- MODULE MessageCache ----------------------------
(***************************************************************************)
(* The messages of a conversation and the cache in front of them           *)
(* (storage-postgres/messages.rs, conversations.rs, storage-redis/         *)
(* message_cache.rs and .lua, api-server/messages.rs).                     *)
(*                                                                         *)
(* The revision of the row counts messages and the deletion: it fences the *)
(* cache, which never decides who may read.  A call to the cache has 2 s;  *)
(* one that is given up may still reach it, after anything that followed.  *)
(***************************************************************************)
EXTENDS Naturals, Sequences, SequencesExt

CONSTANTS
    Messages,       \* request identities of messages
    Readers,        \* requests that list the conversation
    Janitors,       \* loops of reconcile_message_deletions, one for each server
    None,
    Quota,          \* messages of a conversation: 100
    MaxReads, MaxDeletes, MaxCacheFaults  \* bounds of a behaviour

VARIABLES
    row,            \* the row of conversations with its messages
    cache,          \* the snapshot that Redis holds, or None
    late,           \* puts that were given up and are still on their way
    reader, janitor,
    reads, deletes, cacheFaults,
    log             \* observation: every message that was accepted, in order

cacheVars == <<row, cache, late, reader, janitor, reads, deletes, cacheFaults, log>>

Snapshots == [revision: 0 .. Quota + 1, deleted: BOOLEAN, messages: Seq(Messages)]
Tombstone(rev) == [revision |-> rev, deleted |-> TRUE, messages |-> <<>>]

NotReading == [pc |-> "idle", from |-> 0, snap |-> None]
Waiting == [pc |-> "idle", revision |-> 0]

CacheTypeOK ==
    /\ row \in [revision: 0 .. Quota + MaxDeletes, deleted: BOOLEAN, pending: BOOLEAN,
                kept: BOOLEAN, messages: Seq(Messages)]
    /\ (cache = None \/ cache \in Snapshots) /\ \A s \in late : s \in Snapshots
    /\ \A r \in Readers :
        /\ reader[r].pc \in {"idle", "revision", "snapshot", "put", "served"}
        /\ reader[r].from \in 0 .. Quota
        /\ reader[r].snap = None \/ reader[r].snap \in Snapshots
    /\ janitor \in [Janitors -> [pc: {"idle", "put", "ack"}, revision: Nat]]
    /\ reads \in 0 .. MaxReads /\ deletes \in 0 .. MaxDeletes
    /\ cacheFaults \in 0 .. MaxCacheFaults
    /\ log \in Seq(Messages)

CacheInit ==
    /\ row = [revision |-> 0, deleted |-> FALSE, pending |-> FALSE, kept |-> TRUE,
              messages |-> <<>>]
    /\ cache = None /\ late = {}
    /\ reader = [r \in Readers |-> NotReading]
    /\ janitor = [j \in Janitors |-> Waiting]
    /\ reads = 0 /\ deletes = 0 /\ cacheFaults = 0
    /\ log = <<>>

-----------------------------------------------------------------------------
(* The rows.                                                               *)

MayAppend == row.revision < Quota

\* append_message, of a request that was not used.
AppendMessage(m) ==
    /\ ~row.deleted /\ m \notin ToSet(row.messages)
    /\ MayAppend
    /\ row' = [row EXCEPT !.revision = @ + 1, !.messages = Append(@, m)]
    /\ log' = Append(log, m)
    /\ UNCHANGED <<cache, late, reader, janitor, reads, deletes, cacheFaults>>

\* delete_conversation, which may be repeated.
Delete ==
    /\ row.kept /\ deletes < MaxDeletes
    /\ deletes' = deletes + 1
    /\ row' = [row EXCEPT !.revision = IF row.deleted THEN @ ELSE @ + 1,
                          !.deleted = TRUE, !.pending = TRUE, !.messages = <<>>]
    /\ UNCHANGED <<cache, late, reader, janitor, reads, cacheFaults, log>>

\* create_conversation removes rows that were deleted 24 h ago; whatever the
\* cache held of them ended 30 min after it was put.
Forget ==
    /\ row.kept /\ row.deleted /\ cache = None /\ late = {}
    /\ \A r \in Readers : reader[r].pc # "put"
    /\ row' = [row EXCEPT !.kept = FALSE, !.pending = FALSE]
    /\ UNCHANGED <<cache, late, reader, janitor, reads, deletes, cacheFaults, log>>

-----------------------------------------------------------------------------
(* The cache.                                                              *)

Newer(snap) == cache = None \/ cache.revision < snap.revision

\* message_cache.lua
Put(snap) == cache' = IF Newer(snap) THEN snap ELSE cache

\* validate in message_cache.rs.
Valid(snap) ==
    /\ snap.revision <= Quota + 1
    /\ ~snap.deleted => snap.revision = Len(snap.messages)

\* What a call of put can do: it runs; it fails; or it is given up on its way.
Called(snap) ==
    \/ Put(snap) /\ UNCHANGED <<late, cacheFaults>>
    \/ /\ cacheFaults < MaxCacheFaults /\ cacheFaults' = cacheFaults + 1
       /\ late' \in {late, late \cup {snap}}
       /\ UNCHANGED cache

LatePut ==
    /\ \E snap \in late : Put(snap) /\ late' = late \ {snap}
    /\ UNCHANGED <<row, reader, janitor, reads, deletes, cacheFaults, log>>

\* An entry lives 30 min, far longer than a put that is under way.
Expire ==
    /\ cache # None
    /\ cache.deleted => late = {} /\ \A r \in Readers : reader[r].pc # "put"
    /\ cache' = None
    /\ UNCHANGED <<row, late, reader, janitor, reads, deletes, cacheFaults, log>>

-----------------------------------------------------------------------------
(* list: the revision, the cache, and the rows when the cache is behind.   *)

At(r, pc, snap) == reader' = [reader EXCEPT ![r].pc = pc, ![r].snap = snap]

ReadRevision(r) ==
    /\ reader[r].pc \in {"idle", "served"} /\ reads < MaxReads
    /\ ~row.deleted
    /\ reads' = reads + 1
    /\ reader' = [reader EXCEPT ![r] =
                    [pc |-> "revision", from |-> row.revision, snap |-> None]]
    /\ UNCHANGED <<row, cache, late, janitor, deletes, cacheFaults, log>>

\* Mutation: what the cache holds is answered whatever its revision.
AnyHit(r) == cache # None /\ ~cache.deleted

Hit(r) == cache # None /\ ~cache.deleted /\ cache.revision = reader[r].from

\* A cache that fails is a miss.
ReadCache(r) ==
    /\ reader[r].pc = "revision"
    /\ \/ Hit(r) /\ At(r, "served", cache)
       \/ At(r, "snapshot", None)
    /\ UNCHANGED <<row, cache, late, janitor, reads, deletes, cacheFaults, log>>

\* message_snapshot, under a shared lock of the row.
ReadSnapshot(r) ==
    /\ reader[r].pc = "snapshot"
    /\ IF row.deleted THEN At(r, "idle", None)
       ELSE At(r, "put", [revision |-> row.revision, deleted |-> FALSE,
                          messages |-> row.messages])
    /\ UNCHANGED <<row, cache, late, janitor, reads, deletes, cacheFaults, log>>

\* The answer does not depend on the put.
PutSnapshot(r) ==
    /\ reader[r].pc = "put"
    /\ IF Valid(reader[r].snap) THEN Called(reader[r].snap)
       ELSE UNCHANGED <<cache, late, cacheFaults>>
    /\ At(r, "served", reader[r].snap)
    /\ UNCHANGED <<row, janitor, reads, deletes, log>>

-----------------------------------------------------------------------------
(* reconcile_message_deletions                                             *)

LoadDeletion(j) ==
    /\ janitor[j].pc = "idle" /\ row.pending
    /\ janitor' = [janitor EXCEPT ![j] = [pc |-> "put", revision |-> row.revision]]
    /\ UNCHANGED <<row, cache, late, reader, reads, deletes, cacheFaults, log>>

PutTombstone(j) ==
    LET snap == Tombstone(janitor[j].revision) IN
    /\ janitor[j].pc = "put"
    /\ IF Valid(snap)
       THEN /\ Called(snap)
            /\ janitor' = [janitor EXCEPT ![j].pc =
                            IF cacheFaults' = cacheFaults THEN "ack" ELSE "idle"]
       ELSE /\ janitor' = [janitor EXCEPT ![j].pc = "idle"]
            /\ UNCHANGED <<cache, late, cacheFaults>>
    /\ UNCHANGED <<row, reader, reads, deletes, log>>

\* acknowledge_cache_deletion
Acknowledge(j) ==
    /\ janitor[j].pc = "ack"
    /\ row' = IF row.deleted /\ row.revision = janitor[j].revision
              THEN [row EXCEPT !.pending = FALSE] ELSE row
    /\ janitor' = [janitor EXCEPT ![j] = Waiting]
    /\ UNCHANGED <<cache, late, reader, reads, deletes, cacheFaults, log>>

\* The server restarts, or the store does not answer.
JanitorStops(j) ==
    /\ janitor[j].pc # "idle" /\ cacheFaults < MaxCacheFaults
    /\ cacheFaults' = cacheFaults + 1
    /\ janitor' = [janitor EXCEPT ![j] = Waiting]
    /\ UNCHANGED <<row, cache, late, reader, reads, deletes, log>>

List(r) == ReadRevision(r) \/ ReadCache(r) \/ ReadSnapshot(r) \/ PutSnapshot(r)
Reconcile(j) == LoadDeletion(j) \/ PutTombstone(j) \/ Acknowledge(j)

Post == \E m \in Messages : AppendMessage(m)

CacheNext ==
    \/ Post
    \/ Delete \/ Forget \/ LatePut \/ Expire
    \/ \E r \in Readers : List(r)
    \/ \E j \in Janitors : Reconcile(j) \/ JanitorStops(j)

-----------------------------------------------------------------------------
(* A list answers with the messages of one revision, and with one that was *)
(* current while the request ran: never with what it was before            *)
(* (messages.rs:43).                                                       *)
ReadsAreCurrent ==
    \A r \in Readers : reader[r].pc = "served" =>
        LET snap == reader[r].snap IN
        /\ snap.revision >= reader[r].from
        /\ snap.messages = SubSeq(log, 1, snap.revision)

(* Once the deletion is acknowledged the cache holds no message of the     *)
(* conversation, whatever put was still under way (message_cache.lua:7).   *)
DeletedIsPurged ==
    row.deleted /\ ~row.pending => cache = None \/ cache.deleted

(* A deletion reaches the cache: its tombstone is accepted at the quota of *)
(* messages too, and a lost answer repeats it (message_cache.rs:27).       *)
DeletionsReachCache == row.pending ~> ~row.pending

=============================================================================
