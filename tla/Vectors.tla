------------------------------ MODULE Vectors ------------------------------
(***************************************************************************)
(* The vectors of the chunks of documents, in a store of their own         *)
(* (storage-qdrant/lib.rs): the writes of the index, the search that looks *)
(* up what it finds (knowledge/retrieval.rs), and the program that removes *)
(* the vectors that a deleted document leaves behind, a page at a time     *)
(* (knowledge/vector_maintenance.rs, bin/vector-maintenance.rs).           *)
(*                                                                         *)
(* One user and one model are looked at.  A point is named by its place in *)
(* the order of point ids, which is not that of documents; points of       *)
(* others are in the same collection and stay.  The operator keeps the two *)
(* promises without which the program refuses to apply: the collection     *)
(* belongs to this database, and writers are stopped and drained.          *)
(***************************************************************************)
EXTENDS Naturals, FiniteSets

CONSTANTS
    Points,         \* point ids, a finite subset of Nat \ {0}
    Own,            \* those of the user and the model
    Document,       \* in [Own -> documents]: the one whose chunk it is
    PageSize,       \* of list_references: 100 in the code
    MaxStoreErrors  \* bound on calls of a store that fail

VARIABLES
    doc,            \* documents: a UUID is never used again
    vectors,        \* the points of the collection
    writes,         \* insert_embeddings under way
    stopped,        \* writers are, and have drained
    search,         \* one retrieve
    sweep,          \* one run of the maintenance program
    chain,          \* observation: runs that go on where the last one ended
    landed,         \* observation: points that were written
    storeErrors

documentVars == <<doc, vectors, writes, landed>>
sweepVars == <<sweep, chain>>
vectorVars == <<documentVars, stopped, search, sweepVars, storeErrors>>

Documents == {Document[p] : p \in Own}

\* Mutation: a deleted document is still found.
Imported(p) == doc[Document[p]] # "unborn"

Present(p) == doc[Document[p]] = "present"

Gone == {p \in Own : doc[Document[p]] = "gone"}
Least(S) == CHOOSE p \in S : \A q \in S : p <= q

NoSearch == [pc |-> "idle", found |-> {}, hits |-> {}, gone |-> {}]
NoSweep == [pc |-> "idle", after |-> 0, apply |-> FALSE, left |-> {},
            eligible |-> {}, next |-> 0]
NoChain == [due |-> {}, at |-> 0, done |-> FALSE]

VectorsTypeOK ==
    /\ doc \in [Documents -> {"unborn", "present", "gone"}]
    /\ vectors \cup writes \cup landed \subseteq Points /\ stopped \in BOOLEAN
    /\ search.pc \in {"idle", "verify", "done"}
    /\ search.found \cup search.hits \cup search.gone \subseteq Own
    /\ sweep.pc \in {"idle", "list", "check", "remove"}
    /\ sweep.left \cup sweep.eligible \subseteq Own
    /\ storeErrors \in 0 .. MaxStoreErrors

VectorsInit ==
    /\ doc = [d \in Documents |-> "unborn"]
    /\ vectors = Points \ Own /\ landed = Points \ Own
    /\ writes = {} /\ stopped = FALSE
    /\ search = NoSearch /\ sweep = NoSweep
    /\ chain = NoChain
    /\ storeErrors = 0

Fails == storeErrors < MaxStoreErrors /\ storeErrors' = storeErrors + 1

-----------------------------------------------------------------------------
(* Documents and the index. *)

Import(d) ==
    /\ doc[d] = "unborn" /\ ~stopped /\ doc' = [doc EXCEPT ![d] = "present"]
    /\ UNCHANGED <<vectors, writes, landed, stopped, search, sweepVars, storeErrors>>

\* The row goes, with its user: no operation of the service deletes it alone.
\* The vectors stay behind.
Delete(d) ==
    /\ doc[d] = "present" /\ doc' = [doc EXCEPT ![d] = "gone"]
    /\ UNCHANGED <<vectors, writes, landed, stopped, search, sweepVars, storeErrors>>

\* insert_embeddings of a chunk that was read while its document was there.
Write(p) ==
    /\ ~stopped /\ Present(p) /\ p \notin landed \cup writes
    /\ writes' = writes \cup {p}
    /\ UNCHANGED <<doc, vectors, landed, stopped, search, sweepVars, storeErrors>>

\* It takes effect, whatever has become of the document.
Land(p) ==
    /\ p \in writes /\ writes' = writes \ {p}
    /\ vectors' = vectors \cup {p} /\ landed' = landed \cup {p}
    /\ UNCHANGED <<doc, stopped, search, sweepVars, storeErrors>>

-----------------------------------------------------------------------------
(* retrieve. *)

\* similar_search: points of the user and the model.  Which of them are near
\* enough is not looked at.
Search ==
    /\ search.pc \in {"idle", "done"}
    /\ search' = [pc |-> "verify", found |-> vectors \cap Own, hits |-> {}, gone |-> Gone \cap vectors]
    /\ UNCHANGED <<documentVars, stopped, sweepVars, storeErrors>>

\* get_document_text, once for a document: its points are hits while it is
\* there, and a store that fails ends the search without any.
LookUp ==
    LET p == Least(search.found)
        same == {q \in search.found : Document[q] = Document[p]}
    IN
    /\ search.pc = "verify" /\ search.found # {}
    /\ \/ /\ search' = [search EXCEPT !.found = @ \ same,
               !.hits = IF Present(p) THEN @ \cup same ELSE @]
          /\ UNCHANGED storeErrors
       \/ Fails /\ search' = NoSearch
    /\ UNCHANGED <<documentVars, stopped, sweepVars>>

-----------------------------------------------------------------------------
(* The maintenance program. *)

\* The operator stops the writers and waits for what is under way, or starts
\* them again.
Drain ==
    /\ ~stopped /\ writes = {} /\ sweep.pc = "idle" /\ stopped' = TRUE
    /\ UNCHANGED <<documentVars, search, sweepVars, storeErrors>>
Resume ==
    /\ stopped /\ sweep.pc = "idle" /\ stopped' = FALSE /\ chain' = NoChain
    /\ UNCHANGED <<documentVars, search, sweep, storeErrors>>

\* gc, as a preview or applied, from the start or from the last cursor.
Gc(after, apply) ==
    /\ sweep.pc = "idle" /\ after \in {0, sweep.next} /\ apply => stopped
    /\ sweep' = [NoSweep EXCEPT !.pc = "list", !.after = after, !.apply = apply]
    /\ chain' = IF apply /\ after = 0
                THEN [NoChain EXCEPT !.due = Gone \cap vectors] ELSE chain
    /\ UNCHANGED <<documentVars, stopped, search, storeErrors>>

\* Any call of a store may fail and ends the run; the operator still has the
\* cursor it was started with.
Abort ==
    /\ sweep.pc # "idle" /\ Fails
    /\ sweep' = [NoSweep EXCEPT !.next = sweep.after]
    /\ \/ UNCHANGED vectors
       \/ sweep.pc = "remove" /\ vectors' = vectors \ {Least(sweep.eligible)}
    /\ UNCHANGED <<doc, writes, landed, stopped, search, chain>>

\* The first points of the user and model from the cursor on.
Page(after) ==
    LET from == {p \in vectors \cap Own : p >= after}
    IN  {p \in from : Cardinality({q \in from : q < p}) < PageSize}

\* list_references: the next cursor is the first point that is not listed.
ListReferences ==
    LET page == Page(sweep.after)
        rest == {p \in vectors \cap Own : p > sweep.after /\ \A q \in page : p > q}
    IN
    /\ sweep.pc = "list"
    /\ sweep' = [sweep EXCEPT !.pc = "check", !.left = page,
                              !.next = IF rest = {} THEN 0 ELSE Least(rest)]
    /\ UNCHANGED <<documentVars, stopped, search, chain, storeErrors>>

\* document_exists answers no.
Orphan(p) == ~Present(p)

\* The first pass over the page, with document_exists for each reference.
CheckReference ==
    LET p == Least(sweep.left) IN
    /\ sweep.pc = "check" /\ sweep.left # {}
    /\ sweep' = [sweep EXCEPT !.left = @ \ {p},
                              !.eligible = IF Orphan(p) THEN @ \cup {p} ELSE @]
    /\ UNCHANGED <<documentVars, stopped, search, chain, storeErrors>>

\* The second pass, of an applied run, asks again before it removes.
Recheck ==
    LET p == Least(sweep.eligible) IN
    /\ sweep.pc = "check" /\ sweep.left = {} /\ sweep.apply /\ sweep.eligible # {}
    /\ sweep' = IF Orphan(p) THEN [sweep EXCEPT !.pc = "remove"]
                ELSE [sweep EXCEPT !.eligible = @ \ {p}]
    /\ UNCHANGED <<documentVars, stopped, search, chain, storeErrors>>

Remove ==
    LET p == Least(sweep.eligible) IN
    /\ sweep.pc = "remove" /\ vectors' = vectors \ {p}
    /\ sweep' = [sweep EXCEPT !.pc = "check", !.eligible = @ \ {p}]
    /\ UNCHANGED <<doc, writes, landed, stopped, search, chain, storeErrors>>

\* The report is printed, with the cursor of the next page.
Report ==
    /\ sweep.pc = "check" /\ sweep.left = {} /\ (sweep.apply => sweep.eligible = {})
    /\ sweep' = [NoSweep EXCEPT !.next = sweep.next]
    /\ chain' = IF sweep.apply /\ sweep.after = chain.at
                THEN [chain EXCEPT !.at = sweep.next, !.done = sweep.next = 0] ELSE chain
    /\ UNCHANGED <<documentVars, stopped, search, storeErrors>>

Maintain == Abort \/ ListReferences \/ CheckReference \/ Recheck \/ Remove \/ Report

VectorsNext ==
    \/ \E d \in Documents : Import(d) \/ Delete(d)
    \/ \E p \in Own : Write(p) \/ Land(p)
    \/ Search \/ LookUp
    \/ Drain \/ Resume \/ Maintain
    \/ \E after \in Points \cup {0}, apply \in BOOLEAN : Gc(after, apply)

-----------------------------------------------------------------------------
(* Properties. *)

\* A vector is only ever removed when its document is gone, whatever fails
\* and whoever writes during a preview or between two runs (an applied run has
\* the writers stopped), and never one of another user or model
\* (collect_vectors, remove).
OnlyOrphansAreRemoved == \A p \in landed \ vectors : p \in Own /\ ~Present(p)

\* Runs that each go on where the last one ended, with the writers stopped,
\* pass by no vector of a document that was gone when the first began, with
\* the pages moving under them as points are removed and runs fail and are
\* repeated (collect_vectors, list_references).
SweepIsComplete == \A p \in chain.due \cap vectors : ~chain.done /\ p >= chain.at

\* A search shows nothing of a document that was deleted before it began,
\* though its vectors are still there (retrieve).
HitsAreLive == search.hits \cap search.gone = {}

\* The three of them.
VectorsAreSound ==
    OnlyOrphansAreRemoved /\ SweepIsComplete /\ HitsAreLive
=============================================================================
