------------------------------ MODULE Recovery ------------------------------
(***************************************************************************)
(* Backup and restore of the database (scripts/recovery-lib.mjs,           *)
(* recovery-restore.mjs, infra/postgres/recovery-quarantine.sql).  A       *)
(* backup is a snapshot: what was under way then may be done, and billed,  *)
(* before the restored database is put into service.  The restore          *)
(* therefore ends everything that is under way in the snapshot in the      *)
(* transaction that imports it, into a database nobody else can reach.     *)
(*                                                                         *)
(* Rows of different kinds do not touch one another: there is one row, of  *)
(* any kind, cut down to the statuses that lead to its effect outside of   *)
(* the database: a model call, a fetch, a delivery.  Sessions, credentials *)
(* and the configurations of paid models, which the script ends, too, are  *)
(* left out: users log in again and operators configure anew.              *)
(***************************************************************************)
EXTENDS Naturals, Sequences

CONSTANTS
    Kinds,          \* the kinds of work that are looked at, of DOMAIN Life
    MaxFaults,      \* bound on failures of the tools and strangers in the target
    None

\* The statuses of a row up to the one under which its effect is made.
Life ==
    [reply |-> <<"queued", "dispatching">>,
     planning |-> <<"draft", "queued", "dispatching">>,
     execution |-> <<"draft", "queued", "running">>,
     plan |-> <<"draft", "running">>,
     reminder |-> <<"draft", "scheduled", "running">>,
     schedule |-> <<"draft", "active">>,
     collection |-> <<"draft", "running">>,
     review |-> <<"draft", "authorized", "running">>,
     advice |-> <<"draft", "authorized", "running">>,
     answer |-> <<"draft", "authorized", "running">>,
     job |-> <<"queued", "running">>]

\* Kinds that are taken up in their last status, too, whenever they are due,
\* and kinds of which money is reserved when they are queued.
Standing == {"schedule", "job"}
Paid == {"reply", "planning", "execution"}

VARIABLES
    kind, row,      \* the row of the database that serves
    era,            \* which one: the old one, none, the restored one
    held,           \* a process of the service has claimed the row
    dump,           \* the row in the archive
    archive,        \* the state of its file
    target,         \* the database that is restored to
    client,         \* a connection to it that is not the tool's
    pc,             \* the next call of the restore
    faults,
    effects         \* observation: effects of the row under each database

serviceVars == <<row, era, held, effects>>
fileVars == <<dump, archive>>
recoveryVars ==
    <<kind, serviceVars, fileVars, target, client, pc, faults>>

Statuses(k) == {Life[k][i] : i \in DOMAIN Life[k]}
Final(k) == Life[k][Len(Life[k])]
Ends == {"none", "done", "cancelled", "unknown", "invalidated", "failed"}
Row == [status: Statuses(kind) \cup Ends,
        money: {"none", "held", "charged", "refunded", "retained"}]

RecoveryTypeOK ==
    /\ kind \in Kinds /\ row \in Row
    /\ era \in {"old", "down", "restored"} /\ held \in BOOLEAN
    /\ archive \in {"none", "whole", "damaged"}
    /\ archive # "none" => dump \in Row
    /\ target.content \in {"empty", "other", "restored"} /\ target.open \in BOOLEAN
    /\ target.content = "restored" => target.row \in Row
    /\ client \in BOOLEAN /\ faults \in 0 .. MaxFaults
    /\ effects \in [old: 0 .. 2, restored: 0 .. 2]

RecoveryInit ==
    /\ kind \in Kinds
    /\ row = [status |-> "none", money |-> "none"]
    /\ era = "old" /\ held = FALSE
    /\ dump = None /\ archive = "none"
    /\ target = [content |-> "empty", row |-> None, open |-> TRUE]
    /\ client = FALSE /\ pc = "idle" /\ faults = 0
    /\ effects = [old |-> 0, restored |-> 0]

Fault == faults < MaxFaults /\ faults' = faults + 1

-----------------------------------------------------------------------------
(* The service, on the old or on the restored database. *)

Serving == era # "down"
ServiceOnly == UNCHANGED <<kind, era, fileVars, target, client, pc, faults>>

\* Money is reserved for a row that is queued.
Reserved(status, money) ==
    IF kind \in Paid /\ status = "queued" THEN "held" ELSE money

\* A user makes the row; what is made after the restore is of no interest.
Create ==
    /\ era = "old" /\ row.status = "none"
    /\ row' = [status |-> Life[kind][1], money |-> Reserved(Life[kind][1], "none")]
    /\ UNCHANGED <<held, effects>> /\ ServiceOnly

\* Approvals and claims move the row on; the claim puts it into a process.
Advance ==
    \E i \in 2 .. Len(Life[kind]) :
        /\ Serving /\ row.status = Life[kind][i - 1]
        /\ row' = [status |-> Life[kind][i], money |-> Reserved(Life[kind][i], row.money)]
        /\ held' = (Life[kind][i] = Final(kind))
        /\ UNCHANGED effects /\ ServiceOnly

\* A lease lapses, or the next occurrence is due.
TakeUp ==
    /\ Serving /\ kind \in Standing /\ ~held /\ row.status = Final(kind)
    /\ held' = TRUE /\ UNCHANGED <<row, effects>> /\ ServiceOnly

\* The process makes the effect, and writes its end or does not.
Work ==
    /\ Serving /\ held /\ held' = FALSE
    /\ effects' = [effects EXCEPT ![era] = IF @ < 2 THEN @ + 1 ELSE @]
    /\ \/ UNCHANGED row
       \/ /\ row.status = Final(kind)
          /\ row' = [status |-> "done",
                     money |-> IF row.money = "held" THEN "charged" ELSE row.money]
    /\ ServiceOnly

\* The row is cancelled before its claim, and its money given back.
Cancel ==
    /\ Serving /\ row.status \in Statuses(kind) \ {Final(kind)}
    /\ row' = [status |-> "cancelled",
               money |-> IF row.money = "held" THEN "refunded" ELSE row.money]
    /\ UNCHANGED <<held, effects>> /\ ServiceOnly

\* The processes stop, whatever they are at.
Stop ==
    /\ era = "old" /\ era' = "down" /\ held' = FALSE
    /\ UNCHANGED <<kind, row, effects, fileVars, target, client, pc, faults>>

\* The service is started on the restored database.
Switch ==
    /\ era = "down" /\ target.open /\ target.content = "restored"
    /\ era' = "restored" /\ row' = target.row
    /\ UNCHANGED <<kind, held, effects, fileVars, target, client, pc, faults>>

-----------------------------------------------------------------------------
(* The archive and the target. *)

\* One repeatable-read snapshot; the manifest is written last and a failed
\* backup removes its directory.
Backup ==
    /\ era = "old" /\ archive = "none"
    /\ dump' = row /\ archive' = "whole"
    /\ UNCHANGED <<kind, serviceVars, target, client, pc, faults>>

\* A file of the backup changes.
Damage ==
    /\ archive = "whole" /\ Fault /\ archive' = "damaged"
    /\ UNCHANGED <<kind, serviceVars, dump, target, client, pc>>

\* Somebody else connects to the target, writes into it, goes.
Stranger ==
    /\ \/ /\ target.open /\ target.content # "restored" /\ ~client
          /\ Fault /\ client' = TRUE /\ UNCHANGED target
       \/ /\ client /\ target.content = "empty"
          /\ target' = [target EXCEPT !.content = "other"]
          /\ UNCHANGED <<client, faults>>
       \/ /\ client /\ client' = FALSE /\ UNCHANGED <<target, faults>>
    /\ UNCHANGED <<kind, serviceVars, fileVars, pc>>

-----------------------------------------------------------------------------
(* The restore. *)

At(p) == pc = p
Goto(p) == pc' = p
ToolOnly == UNCHANGED <<kind, serviceVars, fileVars, client>>

\* The call p of the tool succeeds: it changes the target as given and the
\* tool goes on.
Done(next) == Goto(next) /\ UNCHANGED faults

\* Sizes and digests of the files are those of the manifest.
Verify ==
    /\ At("idle") /\ archive = "whole" /\ Done("check")
    /\ UNCHANGED target /\ ToolOnly

\* emptyTarget: no object of a user, and no other connection.
EmptyTarget == target.content = "empty" /\ ~client

\* The first look; a closed database lets nobody in.
Check ==
    /\ At("check")
    /\ Done(IF EmptyTarget /\ target.open THEN "freeze" ELSE "idle")
    /\ UNCHANGED target /\ ToolOnly

\* New connections are refused.  If the answer to it does not come, the tool
\* does not open the database again.
Freeze ==
    /\ At("freeze")
    /\ \/ target' = [target EXCEPT !.open = FALSE] /\ Done("begin")
       \/ target' = [target EXCEPT !.open = FALSE] /\ Fault /\ Goto("idle")
       \/ Fault /\ Goto("idle") /\ UNCHANGED target
    /\ ToolOnly

\* The transaction begins and looks again, for who came in between.
Begin ==
    /\ At("begin")
    /\ \/ EmptyTarget /\ Done("import")
       \/ ~EmptyTarget /\ Done("thaw")
       \/ Fault /\ Goto("thaw")
    /\ UNCHANGED target /\ ToolOnly

\* What was frozen before anything was imported is opened again, and so is
\* what was imported, once its commit is confirmed; either call may fail.
Open ==
    /\ pc \in {"thaw", "open"}
    /\ \/ target' = [target EXCEPT !.open = TRUE] /\ Done("idle")
       \/ Fault /\ Goto("idle") /\ UNCHANGED target
    /\ ToolOnly

\* The status that the script gives to rows in the statuses of each set;
\* others stay as they are.
Quarantine ==
    [reply |-> [cancelled |-> {"queued"}, unknown |-> {"dispatching"}],
     planning |-> [cancelled |-> {"draft", "queued"}, unknown |-> {"dispatching"}],
     execution |-> [cancelled |-> {"draft"}, unknown |-> {"queued", "running"}],
     plan |-> [cancelled |-> {"draft"}, unknown |-> {"running"}],
     reminder |-> [cancelled |-> {"draft", "scheduled", "running"}],
     schedule |-> [cancelled |-> {"draft", "active"}],
     collection |-> [cancelled |-> {"draft"}, unknown |-> {"running"}],
     review |-> [invalidated |-> {"draft", "authorized"}, unknown |-> {"running"}],
     advice |-> [invalidated |-> {"draft", "authorized"}, unknown |-> {"running"}],
     answer |-> [invalidated |-> {}],
     job |-> [failed |-> {"queued", "running"}]]

Ended(status) ==
    LET to == {s \in DOMAIN Quarantine[kind] : status \in Quarantine[kind][s]}
    IN  IF to = {} THEN status ELSE CHOOSE s \in to : TRUE

\* Mutation: a claimed row keeps its status.
QuarantineWaiting(r) ==
    [status |-> IF r.status = Final(kind) THEN r.status ELSE Ended(r.status),
     money |-> IF r.money = "held" THEN "retained" ELSE r.money]

\* A row after the script: it has ended, and what was reserved for it is
\* kept in full.
Quarantined(r) ==
    [status |-> Ended(r.status),
     money |-> IF r.money = "held" THEN "retained" ELSE r.money]

\* Import, digest of what was read, quarantine and commit are one
\* transaction.  It fails as a whole and leaves the database closed, and so
\* does a commit whose answer is lost.
Import ==
    LET imported == [target EXCEPT !.content = "restored", !.row = Quarantined(dump)] IN
    /\ At("import")
    /\ \/ archive = "whole" /\ target' = imported /\ Done("open")
       \/ archive = "whole" /\ target' = imported /\ Fault /\ Goto("idle")
       \/ archive = "damaged" /\ UNCHANGED target /\ Done("idle")
       \/ Fault /\ Goto("idle") /\ UNCHANGED target
    /\ ToolOnly

\* The operator opens what was left closed, after a look at what it holds
\* (docs/design/postgres-recovery.md).
OpenByHand ==
    /\ At("idle") /\ ~target.open /\ target' = [target EXCEPT !.open = TRUE]
    /\ UNCHANGED <<pc, faults>> /\ ToolOnly

Restore == Verify \/ Check \/ Freeze \/ Begin \/ Open \/ Import

RecoveryNext ==
    \/ Create \/ Advance \/ TakeUp \/ Work \/ Cancel \/ Stop \/ Switch
    \/ Backup \/ Damage \/ Stranger
    \/ Restore \/ OpenByHand

RecoverySpec == RecoveryInit /\ [][RecoveryNext]_recoveryVars

-----------------------------------------------------------------------------
(* Properties. *)

\* Nothing that was under way in the snapshot is done on the restored
\* database, and what a provider may have billed for a reservation of the
\* snapshot stays charged in full, whenever the backup was taken, the service
\* stopped and the tool failed; and what the target held is never replaced.
RestoredRunsNothing ==
    /\ effects.restored = 0
    /\ target.content = "restored" =>
          /\ target.row.status \notin Statuses(kind)
          /\ dump.money = "held" => target.row.money = "retained"

\* While the import runs, the target is empty, closed, and nobody is in it
\* whose work it would replace or who would see half of it; the service only
\* ever starts on a whole import.
OthersAreSpared ==
    /\ At("import") => target.content = "empty" /\ ~target.open /\ ~client
    /\ target.content = "restored" => ~client

\* An intent that the snapshot holds is not carried out after the restore.
OldIntentsEnd == effects.restored = 0
=============================================================================
