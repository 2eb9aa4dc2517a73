------------------------------ MODULE MCAgents ------------------------------
(***************************************************************************)
(* One run for AgentPlans, Connect and Sessions, which do not wait for one *)
(* another: a behaviour takes the steps of one, and `part` says of which.  *)
(***************************************************************************)
EXTENDS AgentPlans, TLC

CONSTANTS
    k1,
    Labels, Commands, Clients, Accounts, MaxTokens, MaxFaults, None,
    Logins, Resets, Issues, PoolSize

\* What stands for nothing is none of what it stands in for.
ASSUME NoneAssumption ==
    /\ None \notin Commands \cup Labels \cup Accounts
    /\ MaxTokens \in Nat /\ MaxFaults \in Nat /\ PoolSize \in Nat

VARIABLES part, file, lock, command, live, issued, binding, faults,
          password, session, credential, login, reset, issue

C == INSTANCE Connect
S == INSTANCE Sessions

ASSUME RecordAssumption ==
    None \notin C!Registration \cup C!Credentials \cup C!Tokens

TwoSteps == k1 :> 2

connectVars == <<file, lock, command, live, issued, binding, faults>>

loginVars == <<password, session, credential, login, reset, issue>>

allVars == <<vars, connectVars, loginVars, part>>

MCInit ==
    /\ Init /\ C!ConnectInit /\ S!SessionsInit
    /\ part \in {"plans", "connect", "sessions"}

PlanStep == part = "plans" /\ Next /\ UNCHANGED <<connectVars, loginVars, part>>
ConnectStep ==
    part = "connect" /\ C!ConnectNext /\ UNCHANGED <<vars, loginVars, part>>
SessionStep ==
    part = "sessions" /\ S!SessionsNext /\ UNCHANGED <<vars, connectVars, part>>

MCSpec ==
    /\ MCInit
    /\ [][PlanStep \/ ConnectStep \/ SessionStep]_allVars
    /\ C!ConnectFairness /\ S!SessionsFairness

\* A label keeps its registration and its account and no session is lost by
\* the program itself (Connect); no session or credential of the web
\* interface outlives a reset of the password, and requests do not wait for
\* one another for ever (Sessions).
SessionsAreSound ==
    /\ [](C!ConnectTypeOK /\ C!SessionsAreKept) /\ C!IdentitiesAreFixed
    /\ [](S!SessionsTypeOK /\ S!NothingOutlivesReset /\ S!NobodyIsStuck)
    /\ S!RequestsGoForward

\* A command that has its prompt gives the lock of the accounts back
\* (Connect), and the row of the user and the connections that requests hold
\* while they wait are given back (Sessions).
LocksAreFreed == C!LockIsFreed /\ S!RequestsEnd
=============================================================================
