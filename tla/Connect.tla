------------------------------- MODULE Connect -------------------------------
(***************************************************************************)
(* The local program that signs in to a subscription and uses it           *)
(* (apps/api-server/src/bin/chatgpt-connect, llm-openai/src/chatgpt).      *)
(*                                                                         *)
(* Every command holds the lock of the credential directory from its first *)
(* read of the accounts to its end, across the browser's callback, the     *)
(* prompt it is typed and all requests.  The provider issues rotating      *)
(* refresh tokens: a token that was exchanged is dead, so an answer that   *)
(* is not saved costs the session.  A login may also be answered without   *)
(* one: that session ends with its access token.                           *)
(*                                                                         *)
(* A refresh token has the number of the answer it came with; of an access *)
(* token only its being over is kept, in every copy of the account.  Over  *)
(* begins 60 seconds before the end, when the program renews the token,    *)
(* or at once if there is none: what is over may still be taken or not.    *)
(***************************************************************************)
EXTENDS Integers, FiniteSets

CONSTANTS
    Labels,     \* local names of accounts
    Commands,   \* running programs
    Clients,    \* registrations the provider issues
    Accounts,   \* subjects a browser may sign in with
    MaxTokens,  \* bound on the answers that have tokens
    MaxFaults,  \* bound on crashes and answers that are lost or not verified
    None

VARIABLES
    file,       \* accounts.json: label -> registration or None
    lock,       \* the command that holds the lock, or None
    command,    \* command -> where it is and what it has read
    live,       \* client -> refresh tokens the provider would take
    issued,     \* answers with tokens so far
    binding,    \* the connection saved for the application, or None
    faults

vars == <<file, lock, command, live, issued, binding, faults>>

Tokens == 1 .. MaxTokens
Kinds == {"login", "logout", "models", "ask", "bind", "review"}

Credentials ==
    [refresh: Tokens \cup {None}, plan: BOOLEAN, over: BOOLEAN]

Registration ==
    [client: Clients, subject: Accounts \cup {None},
     credentials: Credentials \cup {None}]

Pending(client) == [client |-> client, subject |-> None, credentials |-> None]

SignedIn(r) == r # None /\ r.credentials # None
PlanEnabled(r) == SignedIn(r) /\ r.credentials.plan
Fresh(r) == PlanEnabled(r) /\ ~r.credentials.over
Renewable(r) == SignedIn(r) /\ r.credentials.refresh # None

Idle == [pc |-> "idle", kind |-> None, label |-> None, data |-> <<>>,
         account |-> None, answer |-> None]

ConnectTypeOK ==
    /\ file \in [Labels -> Registration \cup {None}]
    /\ lock \in Commands \cup {None}
    /\ \A c \in Commands :
           /\ command[c].pc \in {"idle", "waiting", "exchanging", "prompt",
                                 "opened", "answered", "ready", "claimed", "calling",
                                 "revoking", "revoked"}
           /\ command[c].kind \in Kinds \cup {None}
           /\ command[c].pc = "idle" \/ lock = c
    /\ live \in [Clients -> SUBSET Tokens]
    /\ issued \in 0 .. MaxTokens
    /\ binding \in {None} \cup [client: Clients, subject: Accounts]
    /\ faults \in 0 .. MaxFaults

ConnectInit ==
    /\ file = [l \in Labels |-> None]
    /\ lock = None
    /\ command = [c \in Commands |-> Idle]
    /\ live = [k \in Clients |-> {}]
    /\ issued = 0
    /\ binding = None
    /\ faults = 0

Local(c) == command[c].data[command[c].label]
Goto(c, pc) == command' = [command EXCEPT ![c].pc = pc]

\* A command that ends, in any way, gives the lock back.
End(c) ==
    /\ command' = [command EXCEPT ![c] = Idle]
    /\ lock' = None

-----------------------------------------------------------------------------
(* The store. *)

Lockable == lock = None

\* Store::open: a second command is refused, the accounts are read once.
Open(c, kind, label, pc, data) ==
    /\ command[c].pc = "idle"
    /\ Lockable
    /\ lock' = c
    /\ command' = [command EXCEPT ![c] =
           [pc |-> pc, kind |-> kind, label |-> label, data |-> data,
            account |-> None, answer |-> None]]

\* Store::save replaces the file as a whole.
Saved(data) == file' = data

-----------------------------------------------------------------------------
(* Signing in. *)

\* The listener is bound and the address shown.
StartLogin(c) ==
    /\ \E l \in Labels : Open(c, "login", l, "waiting", file)
    /\ UNCHANGED <<file, live, issued, binding, faults>>

\* PendingLogin::callback: the registration is new or the label's own.
AcceptsCallback(old, client) == old = None \/ old.client = client

\* login: a client another label has is refused; a new registration is kept
\* before its code is exchanged.
Registers(data, label, client) ==
    \/ data[label] # None
    \/ \A l \in Labels : data[l] = None \/ data[l].client # client

\* The first callback with the state of this transaction.
Callback(c, client, account) ==
    LET label == command[c].label
        data == command[c].data
        kept == IF data[label] = None
                THEN [data EXCEPT ![label] = Pending(client)] ELSE data
    IN
    /\ command[c].pc = "waiting"
    /\ IF AcceptsCallback(data[label], client) /\ Registers(data, label, client)
       THEN /\ Saved(kept)
            /\ command' = [command EXCEPT ![c].pc = "exchanging",
                                          ![c].data = kept,
                                          ![c].account = account]
            /\ UNCHANGED lock
       ELSE End(c) /\ UNCHANGED file
    /\ UNCHANGED <<live, issued, binding, faults>>

\* Five minutes without a callback, or a denial.
LoginTimesOut(c) == command[c].pc = "waiting"

Abandon(c) ==
    /\ LoginTimesOut(c)
    /\ End(c)
    /\ UNCHANGED <<file, live, issued, binding, faults>>

\* The provider exchanges the code.  Its answer may have a refresh token or
\* none, and an access token or none, which is over as it comes.
Exchange(c) ==
    /\ command[c].pc = "exchanging"
    /\ issued < MaxTokens
    /\ issued' = issued + 1
    /\ \E refresh \in {None, issued'}, plan, over \in BOOLEAN :
           /\ live' = [live EXCEPT ![Local(c).client] = @ \cup ({refresh} \ {None})]
           /\ command' = [command EXCEPT ![c].pc = "answered",
                  ![c].answer = [refresh |-> refresh, plan |-> plan, over |-> over]]
    /\ UNCHANGED <<file, lock, binding, faults>>

\* A label keeps the account it was first signed in with.
SameAccount(old, account) == old.subject = None \/ old.subject = account

\* The identity token is verified, the registration replaced and saved.
KeepLogin(c) ==
    LET label == command[c].label
        account == command[c].account
        data == [command[c].data EXCEPT ![label] =
                    [client |-> Local(c).client, subject |-> account,
                     credentials |-> command[c].answer]]
    IN
    /\ command[c].pc = "answered" /\ command[c].kind = "login"
    /\ IF SameAccount(Local(c), account) THEN Saved(data) ELSE UNCHANGED file
    /\ End(c)
    /\ UNCHANGED <<live, issued, binding, faults>>

-----------------------------------------------------------------------------
(* Signing out. *)

\* The credentials are cleared in memory before the provider is told; without
\* a refresh token there is nothing to tell it.  (A label that is not signed
\* in stays as it is.)
StartLogout(c) ==
    \E l \in Labels :
        LET data == [file EXCEPT ![l].credentials = None] IN
        /\ SignedIn(file[l])
        /\ Open(c, "logout", l,
                IF Renewable(file[l]) THEN "revoking" ELSE "revoked", data)
        /\ UNCHANGED <<file, live, issued, binding, faults>>

\* The revocation, and one that is not confirmed: done or not.
Revoke(c) ==
    LET k == Local(c).client
        old == file[command[c].label].credentials.refresh
    IN
    /\ command[c].pc = "revoking"
    /\ live' \in {live, [live EXCEPT ![k] = @ \ {old}]}
    /\ Goto(c, "revoked")
    /\ UNCHANGED <<file, lock, issued, binding, faults>>

\* The local credentials go in either case.
SaveLogout(c) ==
    /\ command[c].pc = "revoked"
    /\ Saved(command[c].data)
    /\ End(c)
    /\ UNCHANGED <<live, issued, binding, faults>>

-----------------------------------------------------------------------------
(* Using the subscription. *)

\* models, bind, and the run of a review, which was authorized when it was
\* read, before the lock was taken.
StartUse(c) ==
    /\ \E kind \in {"models", "bind", "review"}, l \in Labels :
           /\ PlanEnabled(file[l])
           /\ Open(c, kind, l, "opened", file)
    /\ UNCHANGED <<file, live, issued, binding, faults>>

\* ask takes the lock, and then reads its prompt to the end, before it looks
\* for the label.
StartAsk(c) ==
    /\ \E l \in Labels : Open(c, "ask", l, "prompt", file)
    /\ UNCHANGED <<file, live, issued, binding, faults>>

\* Whoever types the prompt ends it.  It may be none, too long or no text,
\* and the label unknown or without the permission.
ReadPrompt(c) ==
    /\ command[c].pc = "prompt"
    /\ \/ PlanEnabled(Local(c)) /\ Goto(c, "opened") /\ UNCHANGED lock
       \/ End(c)
    /\ UNCHANGED <<file, live, issued, binding, faults>>

\* refresh: the provider takes a live token once, and may keep it or rotate
\* it; a dead token is refused, and where there is none nothing is sent, and
\* the command ends.
Refresh(c) ==
    LET k == Local(c).client
        old == Local(c).credentials.refresh
    IN
    /\ command[c].pc = "opened"
    /\ ~Fresh(Local(c))
    /\ IF old \in live[k]
       THEN /\ issued < MaxTokens
            /\ issued' = issued + 1
            /\ \E rotated, plan \in BOOLEAN :
                   /\ live' = IF rotated
                              THEN [live EXCEPT ![k] = (@ \ {old}) \cup {issued'}]
                              ELSE live
                   /\ command' = [command EXCEPT ![c].pc = "answered",
                          ![c].answer =
                              [refresh |-> IF rotated THEN issued' ELSE old,
                               plan |-> plan, over |-> FALSE]]
            /\ UNCHANGED lock
       ELSE End(c) /\ UNCHANGED <<live, issued>>
    /\ UNCHANGED <<file, binding, faults>>

\* Mutation: the accounts are saved at the end of the command.
SavedLater(data) == UNCHANGED file

\* A rotation is saved before anything is done with it.
SavedFirst(data) == Saved(data)

KeepRefresh(c) ==
    LET data == [command[c].data EXCEPT ![command[c].label].credentials =
                    command[c].answer]
    IN
    /\ command[c].pc = "answered" /\ command[c].kind # "login"
    /\ SavedFirst(data)
    /\ command' = [command EXCEPT ![c].pc = "ready", ![c].data = data]
    /\ UNCHANGED <<lock, live, issued, binding, faults>>

Renewed(c) ==
    \/ command[c].pc = "ready"
    \/ command[c].pc = "opened" /\ Fresh(Local(c))

\* value-run and learning-run claim the review behind the refresh and before
\* the account is verified.  It is still authorized or not, and what becomes
\* of it is in ValueReviews and Advice.
Claim(c) ==
    /\ Renewed(c) /\ command[c].kind = "review"
    /\ \/ Goto(c, "claimed") /\ UNCHANGED lock
       \/ End(c)
    /\ UNCHANGED <<file, live, issued, binding, faults>>

\* The catalog is read, with the permission, and is all that models is for;
\* the model that is asked for may be missing in it.
Catalog(c) ==
    /\ IF command[c].kind = "review" THEN command[c].pc = "claimed"
                                     ELSE Renewed(c)
    /\ \/ /\ PlanEnabled(Local(c)) /\ command[c].kind # "models"
          /\ Goto(c, "calling") /\ UNCHANGED lock
       \/ End(c)
    /\ UNCHANGED <<file, live, issued, binding, faults>>

\* ask and the run of a review: one request, its stream complete or not;
\* nothing is saved here.
Ask(c) ==
    /\ command[c].pc = "calling" /\ command[c].kind \in {"ask", "review"}
    /\ End(c)
    /\ UNCHANGED <<file, live, issued, binding, faults>>

\* bind: the application keeps the identity of a connection, which a later
\* bind must repeat.
Bind(c) ==
    LET identity == [client |-> Local(c).client, subject |-> Local(c).subject] IN
    /\ command[c].pc = "calling" /\ command[c].kind = "bind"
    /\ binding' = IF binding = None THEN identity ELSE binding
    /\ End(c)
    /\ UNCHANGED <<file, live, issued, faults>>

-----------------------------------------------------------------------------
(* Failures. *)

\* A request is refused, or times out before the provider acts on it, or the
\* database does not answer.
RequestFails(c) ==
    /\ \/ command[c].pc \in {"exchanging", "ready", "claimed", "calling"}
       \/ command[c].pc = "opened" /\ ~Fresh(Local(c))
    /\ End(c)
    /\ UNCHANGED <<file, live, issued, binding, faults>>

\* The provider has answered, and the answer is lost or not verified.
AnswerLost(c) ==
    /\ faults < MaxFaults
    /\ faults' = faults + 1
    /\ command[c].pc = "answered"
    /\ End(c)
    /\ UNCHANGED <<file, live, issued, binding>>

\* The program is killed: the system gives its lock back.
Dies(c) ==
    /\ faults < MaxFaults
    /\ faults' = faults + 1
    /\ command[c].pc # "idle"
    /\ End(c)
    /\ UNCHANGED <<file, live, issued, binding>>

\* Time passes over the access token of a label, on disk and in memory.
Over(accounts, l) ==
    IF l \in DOMAIN accounts /\ SignedIn(accounts[l])
    THEN [accounts EXCEPT ![l].credentials.over = TRUE] ELSE accounts
TokenExpires ==
    /\ \E l \in Labels :
           /\ SignedIn(file[l]) /\ ~file[l].credentials.over
           /\ file' = Over(file, l)
           /\ command' = [c \in Commands |->
                  [command[c] EXCEPT !.data = Over(@, l)]]
    /\ UNCHANGED <<lock, live, issued, binding, faults>>

-----------------------------------------------------------------------------

Runs(c) ==
    \/ Abandon(c) \/ Exchange(c) \/ KeepLogin(c)
    \/ Revoke(c) \/ SaveLogout(c)
    \/ Refresh(c) \/ KeepRefresh(c) \/ Catalog(c)
    \/ Ask(c) \/ Bind(c) \/ Claim(c)
    \/ RequestFails(c)

ConnectNext ==
    \/ \E c \in Commands :
           \/ StartLogin(c) \/ StartLogout(c) \/ StartUse(c)
           \/ StartAsk(c) \/ ReadPrompt(c)
           \/ \E k \in Clients, a \in Accounts : Callback(c, k, a)
           \/ Runs(c) \/ AnswerLost(c) \/ Dies(c)
    \/ TokenExpires

\* A started command goes on: every request has a time limit of 90 seconds
\* and the wait for the browser one of five minutes.  Nobody has to start a
\* command, to sign in, or to end the prompt of an ask: that wait has no
\* limit, so ReadPrompt is not among what Runs.
ConnectFairness == \A c \in Commands : WF_vars(Runs(c))

-----------------------------------------------------------------------------
(* Properties. *)

\* Whatever is signed in, refused, lost or killed, a label keeps the client
\* it was registered with and the account it was first signed in with, no
\* two labels share a client, and the application's connection stays with
\* the account of a label.
IdentitiesAreFixed ==
    /\ [][\A l \in Labels : file[l] # None =>
              /\ file'[l] # None
              /\ file'[l].client = file[l].client
              /\ file[l].subject # None => file'[l].subject = file[l].subject]_vars
    /\ [](\A l, m \in Labels : file[l] # None /\ file[m] # None /\ l # m
              => file[l].client # file[m].client)
    /\ [](binding # None => \E l \in Labels :
              /\ file[l] # None
              /\ file[l].client = binding.client
              /\ file[l].subject = binding.subject)

\* No session is lost by the program itself: without a crash or a lost
\* answer, a refresh token that is saved is one the provider takes whenever
\* no command runs (a session that was answered without one has nothing to
\* lose but its access token); and what cannot be repeated, the claim of a
\* review and a call, is made with credentials that are already on disk.
SessionsAreKept ==
    /\ faults = 0 /\ lock = None =>
           \A l \in Labels : Renewable(file[l]) =>
               file[l].credentials.refresh \in live[file[l].client]
    /\ \A c \in Commands : command[c].pc \in {"claimed", "calling"} =>
           file[command[c].label] = Local(c)

\* A command that does not wait for its prompt, which is the first it does,
\* ends and gives the lock back: none waits for ever for a browser or a
\* provider.  An ask whose input stays open keeps the lock, and every other
\* command out, until the input ends or it is killed.
Working == \E c \in Commands : command[c].pc \notin {"idle", "prompt"}
LockIsFreed == Working ~> ~Working
=============================================================================
