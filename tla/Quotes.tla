-------------------------------- MODULE Quotes --------------------------------
(***************************************************************************)
(* The quotes of model requests (crates/agent-core/src/model_plan.rs): the *)
(* first phase is one planning call, the second a number of searches, each *)
(* embedded on its own, and one answer.  A quote is made for bounds of     *)
(* tokens and prices, approved as it was shown, and counted against the    *)
(* amount and the calls of the day.  The cost of a call is Budget's.       *)
(***************************************************************************)
EXTENDS Budget, Sums

CONSTANTS
    Quoted,         \* requests of one user, day and currency
    MaxSearches,    \* MAX_PLAN_TOOL_CALLS
    LimitSets,      \* [phase, daily, model, tool]: limits of a phase and a day
    MaxLife         \* MAX_QUOTE_LIFETIME_MS and the validity of prices, in ticks

Limited == [phase: Int, daily: Int, model: Int, tool: Int]

\* AgentQuote: the amounts of its calls, the calls and what binds them.
Quotations ==
    [amount: Nat, embedding: Nat, answer: Nat, chat: {1}, searches: Nat,
     limits: Limited, revision: {0, 1}, life: Nat]

ASSUME QuoteAssumption ==
    /\ MaxSearches \in Nat /\ MaxLife \in Nat
    /\ LimitSets \subseteq Limited
    /\ None \notin Quotations

VARIABLES
    quote,      \* request -> its last quote or None
    revision,   \* of the conversation all requests ask about
    approved,   \* request -> the quote its user consented to, or None
    day         \* AgentBudgetUsage: amount, model and tool calls

quoteVars == <<quote, revision, approved, day>>

QuotesInit ==
    /\ quote = [r \in Quoted |-> None]
    /\ revision = 0
    /\ approved = [r \in Quoted |-> None]
    /\ day = [amount |-> 0, model |-> 0, tool |-> 0]

\* validate_parameters.
ValidLimits(limits) ==
    /\ limits.phase > 0 /\ limits.daily > 0
    /\ limits.model > 0 /\ limits.tool > 0

ModelCalls(q) == q.chat + q.searches

\* AgentQuote::reserve_against: the whole quote fits into what a day has.
Reservable(used, q) ==
    /\ used.amount + q.amount <= MaxAmount
    /\ used.amount + q.amount <= q.limits.daily
    /\ used.model + ModelCalls(q) <= q.limits.model
    /\ used.tool + q.searches <= q.limits.tool

\* quote: within the phase, and within an empty day.
Offer(r, amount, embedding, answer, searches, limits, life) ==
    LET q == [amount |-> amount, embedding |-> embedding, answer |-> answer,
              chat |-> 1, searches |-> searches, limits |-> limits,
              revision |-> revision, life |-> life]
    IN
    /\ ValidLimits(limits)
    /\ amount <= limits.phase
    /\ Reservable([amount |-> 0, model |-> 0, tool |-> 0], q)
    /\ quote' = [quote EXCEPT ![r] = q]
    /\ UNCHANGED <<revision, approved, day>>

\* quote_model_planning: one call with input and output.
QuotePlanning(r, p, q, input, output, limits, life) ==
    /\ approved[r] = None
    /\ Quotable(p, q, input, output, limits.phase)
    /\ LET answer == Cost(p, q, input, output)
       IN Offer(r, answer, 0, answer, 0, limits, life)

\* Mutation: one embedding is priced for all of the searches.
OneEmbedding(embedding, searches, answer) == embedding + answer

Total(embedding, searches, answer) == embedding * searches + answer

\* quote_model_execution: the embeddings have no output.
QuoteExecution(r, p, input, answer, searches, limits, life) ==
    /\ approved[r] = None
    /\ QuotableInput(p, 0, input, 0, limits.phase)
    /\ Total(Cost(p, 0, input, 0), searches, answer) <= MaxAmount
    /\ LET embedding == Cost(p, 0, input, 0)
       IN Offer(r, Total(embedding, searches, answer), embedding, answer,
                searches, limits, life)

\* The reservations of the calls of an approved request.
CallsCost(q) == q.searches * q.embedding + q.answer

\* check_approval, and the reservation of the day: after the whole quote was
\* found to fit, its calls are reserved one by one.
Consent(r) ==
    /\ quote[r] # None
    /\ approved[r] = None
    /\ quote[r].life > 0
    /\ quote[r].revision = revision
    /\ Reservable(day, quote[r])
    /\ CallsCost(quote[r]) <= quote[r].limits.daily - day.amount
    /\ approved' = [approved EXCEPT ![r] = quote[r]]
    /\ day' = [amount |-> day.amount + CallsCost(quote[r]),
               model |-> day.model + ModelCalls(quote[r]),
               tool |-> day.tool + quote[r].searches]
    /\ UNCHANGED <<quote, revision>>

\* A message changes the conversation; time passes.
Edit ==
    /\ revision = 0
    /\ revision' = 1
    /\ UNCHANGED <<quote, approved, day>>
Wait ==
    /\ \E r \in Quoted : quote[r] # None /\ quote[r].life > 0
    /\ quote' = [r \in Quoted |->
           IF quote[r] = None THEN None
           ELSE [quote[r] EXCEPT !.life = IF @ > 0 THEN @ - 1 ELSE 0]]
    /\ UNCHANGED <<revision, approved, day>>

AnswerCosts ==
    {Cost(p, q, input, output) :
        p, q \in Prices \ {0}, input, output \in Tokens \ {0}}

QuoteSteps ==
    \/ \E r \in Quoted, limits \in LimitSets, p, q \in Prices,
          input, output \in Tokens :
           QuotePlanning(r, p, q, input, output, limits, MaxLife)
    \/ \E r \in Quoted, limits \in LimitSets, p \in Prices, input \in Tokens,
          answer \in AnswerCosts, searches \in 1 .. MaxSearches :
           /\ answer <= limits.phase
           /\ QuoteExecution(r, p, input, answer, searches, limits, MaxLife)
    \/ \E r \in Quoted : Consent(r)
    \/ Edit
    \/ Wait

\* The quotes keep no state of Budget.
QuotesNext == QuoteSteps /\ UNCHANGED vars

-----------------------------------------------------------------------------
(* Properties. *)

ApprovedOnes == {r \in Quoted : approved[r] # None}

\* What the approved requests take from the day.
AmountsOf ==
    [r \in Quoted |-> IF approved[r] = None THEN 0 ELSE approved[r].amount]
CallsOf ==
    [r \in Quoted |-> IF approved[r] = None THEN 0 ELSE 1 + approved[r].searches]
SearchesOf ==
    [r \in Quoted |-> IF approved[r] = None THEN 0 ELSE approved[r].searches]

\* The calls of the approved requests, each reserved on its own, cost what
\* their users were shown, and the day has all of them: their amounts, the
\* chat and embedding calls and the searches.  None of the three is above
\* the largest limit anyone consented to.
QuotesAddUp ==
    /\ day.amount = SumOf(AmountsOf)
    /\ day.model = SumOf(CallsOf)
    /\ day.tool = SumOf(SearchesOf)
    /\ ApprovedOnes # {} =>
           /\ \E r \in ApprovedOnes : day.amount <= approved[r].limits.daily
           /\ \E r \in ApprovedOnes : day.model <= approved[r].limits.model
           /\ \E r \in ApprovedOnes : day.tool <= approved[r].limits.tool

\* No amount is lost between a price and a day: a call is charged what it
\* used at least and what was reserved at most, and the reservations of a
\* request are what its user was shown (Budget, Quotes).
AmountsAddUp ==
    /\ ChargedWithinReserved /\ ChargeCoversUse
    /\ DayWithinLimit /\ QuotesAddUp
=============================================================================
