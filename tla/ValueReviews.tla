---------------------------- MODULE ValueReviews ----------------------------
(***************************************************************************)
(* Reviews that let a model score the entries of a day, and the connection *)
(* to a subscription they may be scored through                            *)
(* (storage-postgres/feed_value.rs, feed_value_execution.rs,               *)
(* feed_value_local.rs, subscription_connections.rs,                       *)
(* agent-core/feed_value_execution.rs, feed_value_local.rs).               *)
(*                                                                         *)
(* Every operation locks its owner and first writes down what the clock    *)
(* has ended; one that is refused rolls that back with the rest.  Triggers *)
(* withdraw reviews in the transaction that changes what they rest on.     *)
(***************************************************************************)
EXTENDS Naturals

CONSTANTS
    Reviews,        \* requests of one owner
    Executors,      \* futures of execute_subscription_value, execute_local_value
    None,
    LastRevision,   \* the revision of a connection the table ends at: 1000
    MaxSource, MaxFaults    \* bounds of a behaviour

VARIABLES
    source,         \* version of entries, subscriptions and preferences
    conn,           \* the row of subscription_connections
    review,         \* rows of feed_value_reviews
    runner,         \* executors, with their copy of the claimed row
    faults,         \* processes that died, acknowledgements that were lost
    calls           \* observation: calls of the model, for each review

Consented == {"draft", "authorized"}
Live == Consented \cup {"running", "succeeded"}
Final == {"unknown", "cancelled", "expired", "invalidated"}
Modes == {"api", "subscription", "local"}
Versions == 0 .. MaxSource

NoReview == [status |-> "none", mode |-> None, snapshot |-> None, quoted |-> 0,
             late |-> FALSE, token |-> None, overdue |-> FALSE, sent |-> FALSE,
             scores |-> None]
Idle == [pc |-> "idle", req |-> None, copy |-> NoReview, output |-> None]

\* What the code calls configuration_version is the revision of the connection.
ReviewType ==
    [status: {"none"} \cup Live \cup Final, mode: Modes \cup {None},
     snapshot: Versions \cup {None}, quoted: 0 .. LastRevision, late: BOOLEAN,
     token: Executors \cup {None}, overdue: BOOLEAN, sent: BOOLEAN,
     scores: Versions \cup {None}]

ReviewsTypeOK ==
    /\ source \in Versions
    /\ conn \in [status: {"absent", "active", "expired", "revoked"},
                 rev: 0 .. LastRevision, late: BOOLEAN]
    /\ review \in [Reviews -> ReviewType]
    /\ runner \in [Executors ->
                    [pc: {"idle", "claimed", "verified", "marked", "finish"},
                     req: Reviews \cup {None}, copy: ReviewType,
                     output: Versions \cup {None}]]
    /\ faults \in 0 .. MaxFaults /\ calls \in [Reviews -> 0 .. 2]

ReviewsInit ==
    /\ source = 0
    /\ conn = [status |-> "absent", rev |-> 0, late |-> FALSE]
    /\ review = [r \in Reviews |-> NoReview]
    /\ runner = [e \in Executors |-> Idle]
    /\ faults = 0
    /\ calls = [r \in Reviews |-> 0]

-----------------------------------------------------------------------------
(* What is withdrawn, and what has lapsed.                                 *)

End(row, status) ==
    [row EXCEPT !.status = status, !.snapshot = None, !.scores = None]

\* Mutation: the trigger as it was before reviews were executed.
WithdrawnConsent(row) ==
    IF row.status \in Consented THEN End(row, "invalidated") ELSE row

\* invalidate_feed_value_reviews, the update of subscription_connection_changed.
Withdrawn(row) == IF row.status \in Live THEN End(row, "invalidated") ELSE row

\* subscription_connection_changed: the reviews priced by the connection.
OfConnection(rows) ==
    [r \in Reviews |-> IF rows[r].mode = "subscription"
                       THEN Withdrawn(rows[r]) ELSE rows[r]]

\* subscription_connections::expire, and the reviews once it ran.
Lapsed == conn.status = "active" /\ conn.late
ExpiredConn ==
    IF Lapsed THEN [conn EXCEPT !.status = "expired", !.rev = @ + 1] ELSE conn
KeptReviews == IF Lapsed THEN OfConnection(review) ELSE review

\* feed_value::expire
Expired(row) ==
    CASE row.status \in Consented /\ row.late -> End(row, "expired")
      [] row.status = "running" /\ row.overdue -> End(row, "unknown")
      [] OTHER -> row
Rows == [r \in Reviews |-> Expired(KeptReviews[r])]

\* The table refuses a revision past its last: an expiry that needs one more
\* would fail every operation of the owner.
ExpiryFits == ExpiredConn.rev <= LastRevision

\* check_quote
QuoteHolds(row) ==
    row.mode = "subscription" =>
        ExpiredConn.status = "active" /\ row.quoted = ExpiredConn.rev

-----------------------------------------------------------------------------
(* The connection.                                                         *)

\* Mutation: renewals may take every revision the table has.
RenewableToTheEnd(rev) == rev < LastRevision

\* Renewals leave the last two revisions to an expiry and a revocation.
Renewable(rev) == rev < LastRevision - 2

\* save_subscription_connection with what the row does not hold already;
\* otherwise it is a read.
SaveConnection ==
    /\ ExpiryFits /\ Renewable(ExpiredConn.rev)
    /\ conn' = [status |-> "active", rev |-> ExpiredConn.rev + 1, late |-> FALSE]
    /\ review' = IF conn.status = "absent" THEN review ELSE OfConnection(review)
    /\ UNCHANGED <<source, runner, faults, calls>>

RevokeConnection ==
    /\ ExpiryFits /\ ExpiredConn.rev \in 1 .. LastRevision - 1
    /\ ExpiredConn.status # "revoked"
    /\ conn' = [ExpiredConn EXCEPT !.status = "revoked", !.rev = @ + 1]
    /\ review' = OfConnection(review)
    /\ UNCHANGED <<source, runner, faults, calls>>

\* get and list, and a save or revocation that finds its work done.
ReadConnection ==
    /\ ExpiryFits /\ conn' = ExpiredConn /\ review' = KeptReviews
    /\ UNCHANGED <<source, runner, faults, calls>>

-----------------------------------------------------------------------------
(* The owner's requests.                                                   *)

\* An operation on reviews that commits: row r becomes `row`.
Commit(r, row) ==
    /\ ExpiryFits
    /\ conn' = ExpiredConn
    /\ review' = [Rows EXCEPT ![r] = row]
    /\ UNCHANGED <<source, faults>>

\* preview_feed_value, of entries of the day under the preferences.
Preview(r, m) ==
    LET row == [NoReview EXCEPT !.status = "draft", !.mode = m, !.snapshot = source,
                    !.quoted = IF m = "subscription" THEN ExpiredConn.rev ELSE 0]
    IN  /\ review[r].status = "none"
        /\ QuoteHolds(row)
        /\ Commit(r, row)
        /\ UNCHANGED <<runner, calls>>

\* The snapshot of the day of the preview is taken again and compared.
Approve(r) ==
    /\ Rows[r].status = "draft"
    /\ QuoteHolds(Rows[r]) /\ Rows[r].snapshot = source
    /\ Commit(r, [Rows[r] EXCEPT !.status = "authorized"])
    /\ UNCHANGED <<runner, calls>>

Cancel(r) ==
    /\ review[r].status # "none"
    /\ Commit(r, IF Rows[r].status \in Consented \cup {"running"}
                 THEN End(Rows[r], "cancelled") ELSE Rows[r])
    /\ UNCHANGED <<runner, calls>>

\* get, list, audit and every repeated request.
Read(r) ==
    /\ review[r].status # "none"
    /\ Commit(r, Rows[r])
    /\ UNCHANGED <<runner, calls>>

ReviewRequests ==
    \E r \in Reviews :
        (\E m \in Modes : Preview(r, m)) \/ Approve(r) \/ Cancel(r) \/ Read(r)

-----------------------------------------------------------------------------
(* An execution.                                                           *)

Goto(e, pc, output) ==
    runner' = [runner EXCEPT ![e].pc = pc, ![e].output = output]
Stop(e) == runner' = [runner EXCEPT ![e] = Idle]

\* claim_value: a review that is paid by the call has no executor.
Claim(e, r) ==
    LET row == [Rows[r] EXCEPT !.status = "running", !.token = e] IN
    /\ runner[e].pc = "idle"
    /\ Rows[r].status = "authorized" /\ Rows[r].mode # "api"
    /\ QuoteHolds(Rows[r]) /\ Rows[r].snapshot = source
    /\ Commit(r, row)
    /\ runner' = [runner EXCEPT ![e] =
                    [pc |-> "claimed", req |-> r, copy |-> row, output |-> None]]
    /\ UNCHANGED calls

\* The account is verified within 10 s, or the target is the configured one.
Verify(e) ==
    /\ runner[e].pc = "claimed"
    /\ \E pc \in {"verified", "finish"} : Goto(e, pc, None)
    /\ UNCHANGED <<source, conn, review, faults, calls>>

Markable(row) == row.status = "running" /\ ~row.sent

\* The row is the one that was claimed, and what it rests on is unchanged.
Unchanged(e, row) ==
    /\ row = runner[e].copy /\ QuoteHolds(row)
    /\ row.mode = "local" => row.snapshot = source

Marked(row) == [row EXCEPT !.sent = TRUE]

\* begin_subscription_value, begin_local_value
BeginCall(e) ==
    LET r == runner[e].req IN
    /\ runner[e].pc = "verified"
    /\ Rows[r].token = e
    /\ IF Markable(Rows[r])
       THEN /\ Unchanged(e, Rows[r])
            /\ Commit(r, Marked(Rows[r])) /\ Goto(e, "marked", None)
       ELSE Commit(r, Rows[r]) /\ Goto(e, "finish", None)
    /\ UNCHANGED calls

\* The proof ran out, the row is not the claimed one, or the store failed: the
\* claim stays until its deadline.
Refused(e) ==
    /\ runner[e].pc \in {"verified", "finish"}
    /\ Stop(e)
    /\ UNCHANGED <<source, conn, review, faults, calls>>

\* The one call; an error and the 60 s timeout leave no output.
Score(e) ==
    /\ runner[e].pc = "marked"
    /\ calls' = [calls EXCEPT ![runner[e].req] = @ + 1]
    /\ \E output \in {runner[e].copy.snapshot, None} : Goto(e, "finish", output)
    /\ UNCHANGED <<source, conn, review, faults>>

\* Scores count only for a request that was marked and if they decode.
Outcome(row, output) ==
    IF row.status # "running" THEN row
    ELSE IF output # None /\ row.sent
         THEN [row EXCEPT !.status = "succeeded", !.scores = output]
         ELSE End(row, "unknown")

\* finish_value
Finish(e) ==
    LET r == runner[e].req IN
    /\ runner[e].pc = "finish"
    /\ Rows[r].token = e
    /\ Rows[r].status = "running" => QuoteHolds(Rows[r])
    /\ Commit(r, Outcome(Rows[r], runner[e].output))
    /\ Stop(e) /\ UNCHANGED calls

\* The process dies, or the answer of the store is lost: nothing is sent again.
Dies(e) ==
    /\ faults < MaxFaults /\ runner[e].pc # "idle"
    /\ faults' = faults + 1
    /\ Stop(e)
    /\ UNCHANGED <<source, conn, review, calls>>

Execution ==
    \E e \in Executors :
        \/ \E r \in Reviews : Claim(e, r)
        \/ Verify(e) \/ BeginCall(e) \/ Refused(e) \/ Score(e) \/ Finish(e)
        \/ Dies(e)

-----------------------------------------------------------------------------
(* The clock, and what the reviews rest on.                                *)

\* An entry, a subscription or the preferences change: all the owner's reviews.
SourceChanges ==
    /\ source < MaxSource
    /\ source' = source + 1
    /\ review' = [r \in Reviews |-> Withdrawn(review[r])]
    /\ UNCHANGED <<conn, runner, faults, calls>>

\* A claim ends with its review at the latest, and a review with the
\* connection it was quoted for.
Late(row) == [row EXCEPT !.late = TRUE, !.overdue = TRUE]

ReviewLapses ==
    /\ \E r \in Reviews :
        /\ review[r].status \in Live /\ ~review[r].late
        /\ review' = [review EXCEPT ![r] = Late(@)]
    /\ UNCHANGED <<source, conn, runner, faults, calls>>

ClaimLapses ==
    /\ \E r \in Reviews :
        /\ review[r].status = "running" /\ ~review[r].overdue
        /\ review' = [review EXCEPT ![r].overdue = TRUE]
    /\ UNCHANGED <<source, conn, runner, faults, calls>>

ConnectionLapses ==
    /\ conn.status = "active" /\ ~conn.late
    /\ conn' = [conn EXCEPT !.late = TRUE]
    /\ review' = [r \in Reviews |->
                    IF review[r].mode = "subscription" /\ review[r].status \in Live
                    THEN Late(review[r]) ELSE review[r]]
    /\ UNCHANGED <<source, runner, faults, calls>>

Clock == ReviewLapses \/ ClaimLapses \/ ConnectionLapses

ConnectionRequests == SaveConnection \/ RevokeConnection \/ ReadConnection

ReviewsNext ==
    ConnectionRequests \/ ReviewRequests \/ Execution \/ SourceChanges \/ Clock

-----------------------------------------------------------------------------
(* Scores are kept only while everything they were computed from and paid  *)
(* with is what the user approved: entries, preferences, connection        *)
(* (0035_feed_value_execution.sql:17, feed_value_execution.rs:196).        *)
ScoresAreCurrent ==
    \A r \in Reviews : review[r].status = "succeeded" =>
        /\ review[r].scores = source /\ review[r].snapshot = source
        /\ review[r].mode = "subscription" =>
             conn.status = "active" /\ conn.rev = review[r].quoted

(* A model is asked at most once for a review, behind its durable marker,  *)
(* and never for one that was not claimed                                  *)
(* (feed_value_execution.rs:75).                                           *)
CallBehindMarker ==
    \A r \in Reviews :
        /\ calls[r] <= 1
        /\ calls[r] = 1 => review[r].sent /\ review[r].token # None

(* Whatever renewals came before, a connection can still expire and then   *)
(* be revoked: without a revision for it every operation of the owner      *)
(* would fail (subscription_connections.rs:78, :133).                      *)
RevisionsSuffice ==
    /\ conn.status = "active" => conn.rev + 2 <= LastRevision
    /\ conn.status = "expired" => conn.rev + 1 <= LastRevision
    /\ conn.rev <= LastRevision

=============================================================================
