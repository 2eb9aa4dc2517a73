------------------------------ MODULE Sessions ------------------------------
(***************************************************************************)
(* Web sessions and MCP credentials of one user (api-server/src/auth.rs,   *)
(* mcp_credentials.rs, storage-postgres/src/lib.rs, mcp_credentials.rs).   *)
(*                                                                         *)
(* A login reads the password hash, verifies it for as long as Argon2      *)
(* takes, and only then opens the transaction that makes the session; the  *)
(* issue of a credential authenticates its session first and opens its     *)
(* transaction later.  A reset of the password may come between.           *)
(*                                                                         *)
(* Every transaction holds a connection of the process's pool, also while  *)
(* it waits for the row of the user, and create_session asks the pool for  *)
(* a second one while it holds that row.                                   *)
(*                                                                         *)
(* Each login, reset and issue is made once.  Hashes are numbered: every   *)
(* one has its own salt.  The quotas only refuse more.                     *)
(***************************************************************************)
EXTENDS Integers, FiniteSets

CONSTANTS
    Logins, Resets, Issues, \* calls of login, set_password, create
    PoolSize,               \* connections of the process
    None

VARIABLES
    password,   \* users.password_hash
    session,    \* sessions: the one a login makes, and the hash it proved
    credential, \* mcp_credentials: the one an issue makes, likewise
    login, reset, issue

sessionVars == <<password, session, credential, login, reset, issue>>

Hashes == Nat
RowStates == {"none", "live", "over", "gone"}
Row == [state: RowStates, hash: Hashes]
NoRow == [state |-> "none", hash |-> 0]

SessionsTypeOK ==
    /\ password \in Hashes
    /\ session \in [Logins -> Row]
    /\ credential \in [Issues -> Row]
    /\ login \in [Logins ->
           [pc: {"idle", "waiting", "locking", "locked", "pruned", "ended"},
            hash: Hashes]]
    /\ reset \in [Resets -> {"idle", "waiting", "locking", "ended"}]
    /\ issue \in [Issues ->
           [pc: {"idle", "waiting", "locking", "ended"},
            by: Logins \cup {None}]]

SessionsInit ==
    /\ password = 0
    /\ session = [l \in Logins |-> NoRow]
    /\ credential = [i \in Issues |-> NoRow]
    /\ login = [l \in Logins |-> [pc |-> "idle", hash |-> 0]]
    /\ reset = [x \in Resets |-> "idle"]
    /\ issue = [i \in Issues |-> [pc |-> "idle", by |-> None]]

-----------------------------------------------------------------------------
(* The pool and the row of the user. *)

Free ==
    PoolSize
      - Cardinality({l \in Logins : login[l].pc \in {"locking", "locked", "pruned"}})
      - Cardinality({x \in Resets : reset[x] = "locking"})
      - Cardinality({i \in Issues : issue[i].pc = "locking"})

UserLocked == \E l \in Logins : login[l].pc \in {"locked", "pruned"}

\* Mutation: who waits for a connection waits for ever.
WaitsForEver == FALSE

\* The five seconds a request waits for a connection pass only while there
\* is none.
Exhausted == Free = 0

LoginAt(l, pc) == login' = [login EXCEPT ![l].pc = pc]
ResetAt(x, pc) == reset' = [reset EXCEPT ![x] = pc]
IssueAt(i, pc) == issue' = [issue EXCEPT ![i].pc = pc]

-----------------------------------------------------------------------------
(* Login. *)

\* A right password goes on with the hash it was verified against.
ReadHash(l) ==
    /\ login[l].pc = "idle" /\ Free > 0
    /\ \/ login' = [login EXCEPT ![l] = [pc |-> "waiting", hash |-> password]]
       \/ LoginAt(l, "ended")
    /\ UNCHANGED <<password, session, credential, reset, issue>>

StillProves(l) == login[l].hash = password

CreateSession(l) ==
    \/ /\ login[l].pc = "waiting" /\ Free > 0
       /\ LoginAt(l, "locking")
       /\ UNCHANGED session
    \/ /\ login[l].pc = "locking" /\ ~UserLocked
       /\ LoginAt(l, IF StillProves(l) THEN "locked" ELSE "ended")
       /\ UNCHANGED session
    \/ /\ login[l].pc = "locked" /\ Free > 0
       /\ session' = [k \in Logins |->
              IF session[k].state = "over"
              THEN [session[k] EXCEPT !.state = "gone"] ELSE session[k]]
       /\ LoginAt(l, "pruned")
    \/ /\ login[l].pc = "pruned"
       /\ session' = [session EXCEPT ![l] =
              [state |-> "live", hash |-> login[l].hash]]
       /\ LoginAt(l, "ended")

LoginTimesOut(l) ==
    /\ login[l].pc \in {"waiting", "locked"} /\ Exhausted
    /\ LoginAt(l, "ended")
    /\ UNCHANGED session

LoginStep(l) ==
    /\ CreateSession(l) \/ LoginTimesOut(l)
    /\ UNCHANGED <<password, credential, reset, issue>>

-----------------------------------------------------------------------------
(* Reset of the password. *)

StartReset(x) ==
    /\ reset[x] = "idle"
    /\ ResetAt(x, "waiting")
    /\ UNCHANGED <<password, session, credential, login, issue>>

Revoked(row) == IF row.state \in {"live", "over"} THEN [row EXCEPT !.state = "gone"]
                                                 ELSE row

\* The user is updated, credentials are revoked and sessions deleted in one
\* transaction; a new hash is one that never was.
SetPassword(x) ==
    /\ reset[x] = "locking" /\ ~UserLocked
    /\ password' = password + 1
    /\ credential' = [i \in Issues |-> Revoked(credential[i])]
    /\ session' = [l \in Logins |-> Revoked(session[l])]
    /\ ResetAt(x, "ended")

ResetStep(x) ==
    /\ \/ /\ reset[x] = "waiting"
          /\ \/ Free > 0 /\ ResetAt(x, "locking")
             \/ Exhausted /\ ResetAt(x, "ended")
          /\ UNCHANGED <<password, session, credential>>
       \/ SetPassword(x)
    /\ UNCHANGED <<login, issue>>

-----------------------------------------------------------------------------
(* MCP credentials. *)

\* current_user: the session is looked up long before it is used.
Authenticate(i, l) ==
    /\ issue[i].pc = "idle" /\ Free > 0
    /\ session[l].state = "live"
    /\ issue' = [issue EXCEPT ![i] = [pc |-> "waiting", by |-> l]]
    /\ UNCHANGED <<password, session, credential, login, reset>>

SessionHolds(i) == session[issue[i].by].state = "live"

CreateMcp(i) ==
    /\ issue[i].pc = "locking" /\ ~UserLocked
    /\ IF SessionHolds(i)
       THEN credential' = [credential EXCEPT ![i] =
                [state |-> "live", hash |-> session[issue[i].by].hash]]
       ELSE UNCHANGED credential
    /\ IssueAt(i, "ended")

IssueStep(i) ==
    /\ \/ /\ issue[i].pc = "waiting"
          /\ \/ Free > 0 /\ IssueAt(i, "locking")
             \/ Exhausted /\ IssueAt(i, "ended")
          /\ UNCHANGED credential
       \/ CreateMcp(i)
    /\ UNCHANGED <<password, session, login, reset>>

\* Only an authenticated user revokes, but possibly one whose session ended
\* after it was looked up.
RevokeMcp(i) ==
    /\ credential[i].state \in {"live", "over"} /\ Free > 0
    /\ credential' = [credential EXCEPT ![i] = Revoked(@)]
    /\ UNCHANGED <<password, session, login, reset, issue>>

-----------------------------------------------------------------------------
(* Sessions end. *)

Logout(l) ==
    /\ session[l].state \in {"live", "over"} /\ Free > 0
    /\ session' = [session EXCEPT ![l] = Revoked(@)]
    /\ UNCHANGED <<password, credential, login, reset, issue>>

\* Eight hours of a session or the days of a credential pass.
Expires ==
    /\ \/ \E l \in Logins :
              /\ session[l].state = "live"
              /\ session' = [session EXCEPT ![l].state = "over"]
              /\ UNCHANGED credential
       \/ \E i \in Issues :
              /\ credential[i].state = "live"
              /\ credential' = [credential EXCEPT ![i].state = "over"]
              /\ UNCHANGED session
    /\ UNCHANGED <<password, login, reset, issue>>

\* The client of a request hangs up: its future is dropped where it waits
\* and its transaction is rolled back.
HangsUp ==
    /\ \/ \E l \in Logins :
              /\ login[l].pc \in {"waiting", "locking", "locked", "pruned"}
              /\ LoginAt(l, "ended") /\ UNCHANGED <<reset, issue>>
       \/ \E x \in Resets :
              /\ reset[x] \in {"waiting", "locking"}
              /\ ResetAt(x, "ended") /\ UNCHANGED <<login, issue>>
       \/ \E i \in Issues :
              /\ issue[i].pc \in {"waiting", "locking"}
              /\ IssueAt(i, "ended") /\ UNCHANGED <<login, reset>>
    /\ UNCHANGED <<password, session, credential>>

SessionsNext ==
    \/ \E l \in Logins : ReadHash(l) \/ LoginStep(l) \/ Logout(l)
    \/ \E x \in Resets : StartReset(x) \/ ResetStep(x)
    \/ \E i \in Issues :
           \/ \E l \in Logins : Authenticate(i, l)
           \/ IssueStep(i) \/ RevokeMcp(i)
    \/ Expires \/ HangsUp

Busy ==
    \/ \E l \in Logins : login[l].pc \notin {"idle", "ended"}
    \/ \E x \in Resets : reset[x] \notin {"idle", "ended"}
    \/ \E i \in Issues : issue[i].pc \notin {"idle", "ended"}

GoesOn ==
    \/ \E l \in Logins : LoginStep(l)
    \/ \E x \in Resets : ResetStep(x)
    \/ \E i \in Issues : IssueStep(i)

\* The pool and the database give what is free to one of those that wait for
\* it, and an empty pool refuses after five seconds.  Nobody has to log in.
SessionsFairness == WF_sessionVars(GoesOn)

SessionsSpec == SessionsInit /\ [][SessionsNext]_sessionVars

-----------------------------------------------------------------------------
(* Properties. *)

\* Nothing that an old password opened outlives its reset: a session in use
\* was made with the password of today, and so was the session a credential
\* in use was issued on, although hash and session were read before.
NothingOutlivesReset ==
    /\ \A l \in Logins : session[l].state = "live" => session[l].hash = password
    /\ \A i \in Issues : credential[i].state = "live" => credential[i].hash = password

\* What one that waits needs to go on: a connection, or none to wait for, or
\* the row of the user.
Served == Free > 0 \/ Exhausted

LoginMayGo(l) ==
    \/ login[l].pc \in {"waiting", "locked"} /\ Served
    \/ login[l].pc = "locking" /\ ~UserLocked
    \/ login[l].pc = "pruned"

MayGo(pc) ==
    \/ pc = "waiting" /\ Served
    \/ pc = "locking" /\ ~UserLocked

\* The pool lends no connection it does not have, and while a request is
\* under way one of them can go on, however many there are and however small
\* the pool: who has the row of the user and asks for a second connection
\* does not wait for ever for those that hold one and wait for the row.
NobodyIsStuck ==
    /\ 0 <= Free
    /\ Busy => \/ \E l \in Logins : LoginMayGo(l)
               \/ \E x \in Resets : MayGo(reset[x])
               \/ \E i \in Issues : MayGo(issue[i].pc)

Stage == [idle |-> 0, waiting |-> 1, locking |-> 2, locked |-> 3, pruned |-> 4,
          ended |-> 5]

\* No request goes back, and each step of one that waits brings it forward:
\* it is over after at most five.
RequestsGoForward ==
    [][/\ \A l \in Logins : Stage[login'[l].pc] >= Stage[login[l].pc]
       /\ \A x \in Resets : Stage[reset'[x]] >= Stage[reset[x]]
       /\ \A i \in Issues : Stage[issue'[i].pc] >= Stage[issue[i].pc]
       /\ GoesOn => \/ \E l \in Logins : Stage[login'[l].pc] > Stage[login[l].pc]
                    \/ \E x \in Resets : Stage[reset'[x]] > Stage[reset[x]]
                    \/ \E i \in Issues : Stage[issue'[i].pc] > Stage[issue[i].pc]
      ]_sessionVars

\* Requests that hold a connection or the row of the user while they wait
\* for the other one do not keep one another for ever: all of them end.
RequestsEnd == Busy ~> ~Busy
=============================================================================
