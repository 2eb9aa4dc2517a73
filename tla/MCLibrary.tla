----------------------------- MODULE MCLibrary -----------------------------
(***************************************************************************)
(* Instances of IndexJobs, MessageCache, Originals and TextRelay, which do *)
(* not wait for one another: a behaviour takes the steps of one, and       *)
(* `part` says of which.                                                   *)
(***************************************************************************)
EXTENDS IndexJobs, TLC

CONSTANTS
    d1,
    Messages, Readers, Janitors, Quota, MaxReads, MaxDeletes, MaxCacheFaults,
    Contents, Keys, Writers, Collectors, MaxStoreFaults,
    Texts, Capacity

VARIABLES
    part,
    row, cache, late, reader, janitor, reads, deletes, cacheFaults, log,
    doc, object, writer, collector, fetching, storeFaults,
    executor, events, relay, wire, sub, view, status

\* Two batches, the second of them short.
OneDocument == d1 :> 3

C == INSTANCE MessageCache
O == INSTANCE Originals WITH reader <- fetching
T == INSTANCE TextRelay

\* None is none of the values it stands beside.
ASSUME OriginalsAssumption ==
    /\ "inline" \notin Keys /\ None \notin Keys \cup Contents \cup {"inline"}
    /\ MaxStoreFaults \in Nat

ASSUME CacheAssumption ==
    /\ Quota \in Nat /\ MaxReads \in Nat /\ MaxDeletes \in Nat /\ MaxCacheFaults \in Nat
    /\ None \notin C!Snapshots

ASSUME TextAssumption ==
    Texts \subseteq Nat /\ Capacity \in Nat /\ None \notin Nat \cup T!Packets

cacheVars == <<row, cache, late, reader, janitor, reads, deletes, cacheFaults, log>>
originalVars == <<doc, object, writer, collector, fetching, storeFaults>>
textVars == <<executor, events, relay, wire, sub, view, status>>

allVars == <<part, vars, cacheVars, originalVars, textVars>>

MCInit ==
    /\ part \in {"index", "cache", "originals", "text"}
    /\ Init /\ C!CacheInit /\ O!OriginalsInit /\ T!TextInit
    /\ part = "originals" \/ \A c \in Contents : doc[c] = None

Index(A) ==
    part = "index" /\ A /\ UNCHANGED <<part, cacheVars, originalVars, textVars>>
Cached(A) ==
    part = "cache" /\ A /\ UNCHANGED <<part, vars, originalVars, textVars>>
Text(A) ==
    part = "text" /\ A /\ UNCHANGED <<part, vars, cacheVars, originalVars>>

IndexStep == Index(Next)
CacheStep == Cached(C!CacheNext)
OriginalsStep ==
    part = "originals" /\ O!OriginalsNext /\ UNCHANGED <<part, vars, cacheVars, textVars>>
TextStep == Text(T!TextNext)

MCNext == IndexStep \/ CacheStep \/ OriginalsStep \/ TextStep

\* Time passes, and the loops of the servers and an execution go on.
MCFairness ==
    /\ \A d \in Documents :
        WF_allVars(Index(LeaseLapses(d))) /\ WF_allVars(Index(DelayPasses(d)))
    /\ \A w \in Workers : WF_allVars(Index(Running(w)))
    /\ \A j \in Janitors : WF_allVars(Cached(C!Reconcile(j)))
    /\ WF_allVars(Text(T!Execute))

MCSpec == MCInit /\ [][MCNext]_allVars /\ MCFairness

(* A list answers with the messages of one revision, one that was current  *)
(* while it ran, and a deletion that is acknowledged has left nothing in   *)
(* the cache (MessageCache).                                               *)
ReadsAreCurrent ==
    C!CacheTypeOK /\ C!ReadsAreCurrent /\ C!DeletedIsPurged

(* The original that a row or a request names is in the bucket             *)
(* (Originals).                                                            *)
OriginalsAreKept == O!OriginalsTypeOK /\ O!OriginalsAreKept

(* What a browser shows of a text has no gap (TextRelay).                  *)
ShownWithoutGaps == T!TextTypeOK /\ T!ShownWithoutGaps

(* A job of the index ends, a deletion reaches the cache, and an execution *)
(* ends whoever watches its text (IndexJobs, MessageCache, TextRelay).     *)
WorkConcludes ==
    /\ JobsEnd /\ C!DeletionsReachCache
    /\ part = "text" => T!ExecutionConcludes

=============================================================================
