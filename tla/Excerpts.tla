------------------------------ MODULE Excerpts ------------------------------
(***************************************************************************)
(* What an answer of a local model may quote: the requests of the profiles *)
(* of llm-local (ollama_answer*.rs, answer.rs), what is decoded from their *)
(* outputs, and the validation of the result against the passages          *)
(* (knowledge/answer.rs).                                                  *)
(*                                                                         *)
(* A text is a sequence of words, "." and "nl": both end a unit, and "nl"  *)
(* is blank.  A profile makes its requests in order; what a model returns  *)
(* is any value of the shape asked for, or "bad" for everything that does  *)
(* not parse, names an unknown key or names one twice.                     *)
(***************************************************************************)
EXTENDS Naturals, SequencesExt

CONSTANTS
    SourceSets,     \* the passages of a question, sequences of texts
    MaxQuote,       \* tokens of a quote: stands for 400 characters
    MaxUnits,       \* units of the passages: stands for MAX_EXCERPTS
    MaxChecks,      \* requirements of a question: stands for 12
    MaxEvidence     \* bound on the keys one check names

VARIABLES
    profile,
    passages,
    stage,      \* "start", the request under way, or "ended"
    kinds,      \* the kinds the planner gave
    selection,  \* the keys the selection named
    checks,     \* what the verifier returned
    result      \* what the caller gets

excerptVars == <<profile, passages, stage, kinds, selection, checks, result>>

\* "guarded" also stands for question-first and evidence-bound, which change
\* the wording and the schema of its requests and nothing that is decoded.
Profiles == {"free", "select", "question", "guarded", "role"}

Stages(p) ==
    CASE p = "free" -> <<"write">>
      [] p = "select" -> <<"select", "verify">>
      [] p = "question" -> <<"plan", "verify">>
      [] OTHER -> <<"plan", "select", "verify">>

CheckKinds == {"value", "availability"}

\* What a verifier says of a requirement: of its support, or of the role of
\* its evidence, from which the support follows.
Verdicts(p) ==
    IF p = "role" THEN {"asserted_fact", "explicit_absence", "missing"}
    ELSE {"stated", "unavailable", "unsupported"}

Support(verdict) ==
    CASE verdict = "asserted_fact" -> "stated"
      [] verdict = "explicit_absence" -> "unavailable"
      [] verdict = "missing" -> "unsupported"
      [] OTHER -> verdict

-----------------------------------------------------------------------------
(* Texts. *)

Blank(tokens) == Range(tokens) \subseteq {"nl"}

\* Where a quote occurs, overlapping occurrences included.
Occurrences(text, quote) ==
    {i \in 1 .. Len(text) :
        /\ i + Len(quote) - 1 <= Len(text)
        /\ SubSeq(text, i, i + Len(quote) - 1) = quote}

Unique(text, quote) ==
    /\ ~Blank(quote) /\ Len(quote) <= MaxQuote
    /\ Cardinality(Occurrences(text, quote)) = 1

\* The units of a text, as intervals.
Units(text) ==
    {u \in (1 .. Len(text)) \X (1 .. Len(text)) :
        /\ u[1] <= u[2]
        /\ u[1] = 1 \/ text[u[1] - 1] \in {".", "nl"}
        /\ u[2] = Len(text) \/ text[u[2]] \in {".", "nl"}
        /\ \A i \in u[1] .. u[2] - 1 : text[i] \notin {".", "nl"}}

AllUnits(ps) == UNION {{<<s, u>> : u \in Units(ps[s])} : s \in DOMAIN ps}

QuotedUnit(ps, key) == SubSeq(ps[key[1]], key[2][1], key[2][2])

\* The excerpts offered: units that occur once in their passage.  A key is
\* the passage and the interval.
Catalog(ps) == {k \in AllUnits(ps) : Unique(ps[k[1]], QuotedUnit(ps, k))}

CatalogOf == [ps \in SourceSets |-> Catalog(ps)]

-----------------------------------------------------------------------------
(* Results. *)

Pending == [outcome |-> "pending", citations |-> <<>>]
FailedAnswer == [outcome |-> "failed", citations |-> <<>>]
Insufficient == [outcome |-> "insufficient", citations |-> <<>>]

\* knowledge/answer.rs, locate_quote.
Located(text, quote) == Unique(text, quote)

\* validate_output: the citations are of different passages, each at one
\* place of its passage, which is recorded.
Validated(ps, r) ==
    IF r.outcome # "answered" THEN r
    ELSE IF /\ r.citations # <<>> /\ Len(r.citations) <= Len(ps)
            /\ \A c \in Range(r.citations) :
                  c.id \in DOMAIN ps /\ Located(ps[c.id], c.quote)
            /\ \A i, j \in DOMAIN r.citations :
                  r.citations[i].id = r.citations[j].id => i = j
         THEN [r EXCEPT !.citations = [i \in DOMAIN @ |->
                 [id |-> @[i].id, quote |-> @[i].quote,
                  start |-> CHOOSE p \in Occurrences(ps[@[i].id], @[i].quote) : TRUE]]]
         ELSE [outcome |-> "rejected", citations |-> <<>>]

\* The places of the chosen units of one passage.
Covered(keys, s) ==
    UNION {k[2][1] .. k[2][2] : k \in {k \in keys : k[1] = s}}

Lowest(S) == CHOOSE n \in S : \A m \in S : n <= m
Highest(S) == CHOOSE n \in S : \A m \in S : n >= m

\* Only blank text may be swallowed between two chosen units.
GapsAreBlank(text, places) ==
    \A i \in (Lowest(places) .. Highest(places)) \ places : text[i] = "nl"

MergedQuote(ps, keys, s) ==
    SubSeq(ps[s], Lowest(Covered(keys, s)), Highest(Covered(keys, s)))

\* Numbers from the least to the greatest.
InOrder(ids) ==
    [i \in 1 .. Cardinality(ids) |->
        CHOOSE n \in ids : Cardinality({m \in ids : m <= n}) = i]

\* One quote for each passage with chosen units, in the order of passages.
Citations(ps, keys) ==
    LET cited == InOrder({k[1] : k \in keys})
    IN  IF \A s \in Range(cited) :
              /\ GapsAreBlank(ps[s], Covered(keys, s))
              /\ Unique(ps[s], MergedQuote(ps, keys, s))
        THEN [outcome |-> "answered",
              citations |-> [i \in DOMAIN cited |->
                [id |-> cited[i], quote |-> MergedQuote(ps, keys, cited[i])]]]
        ELSE FailedAnswer

Used(cs) == UNION {c.keys : c \in Range(cs)}

\* A stated or unavailable requirement names evidence.
EvidenceNamed(cs) ==
    \A c \in Range(cs) : Support(c.verdict) # "unsupported" => c.keys # {}

\* decode_verification: every requirement is met, by exactly the evidence
\* that was selected.
Met(kind, verdict) ==
    \/ Support(verdict) = "stated"
    \/ kind = "availability" /\ Support(verdict) = "unavailable"

Decided(ps, asked, cs, keys) ==
    IF ~EvidenceNamed(cs) THEN FailedAnswer
    ELSE IF /\ \A i \in DOMAIN cs : Met(asked[i], cs[i].verdict)
            /\ keys = Used(cs)
         THEN Citations(ps, keys)
         ELSE Insufficient

VerifierKinds(cs) == [i \in DOMAIN cs |-> cs[i].kind]

\* Mutation: pairs of a kind and a check, the longer list cut.
PlannedCut(ps, asked, cs) ==
    LET n == IF Len(asked) < Len(cs) THEN Len(asked) ELSE Len(cs)
        kept == SubSeq(cs, 1, n)
    IN  IF ~EvidenceNamed(cs) THEN FailedAnswer
        ELSE Decided(ps, asked, kept, Used(kept))

\* decode of the question profile: the kinds are those of the planner, the
\* selection is what the verifier used.
Planned(ps, asked, cs) ==
    IF ~EvidenceNamed(cs) THEN FailedAnswer
    ELSE IF Len(asked) # Len(cs) THEN Insufficient
         ELSE Decided(ps, asked, cs, Used(cs))

\* decode of the guarded profile: the same, and the selection agrees.
Guarded(ps, asked, cs, keys) ==
    LET r == Planned(ps, asked, cs) IN
    IF r.outcome = "answered" /\ keys # Used(cs) THEN Insufficient ELSE r

-----------------------------------------------------------------------------
(* Requests. *)

ExcerptsInit ==
    /\ profile \in Profiles /\ passages \in SourceSets
    /\ stage = "start" /\ kinds = <<>> /\ selection = {} /\ checks = <<>>
    /\ result = Pending

ExcerptsTypeOK ==
    /\ profile \in Profiles /\ passages \in SourceSets
    /\ stage \in {"start", "ended"} \cup Range(Stages(profile))
    /\ kinds \in BoundedSeq(CheckKinds, MaxChecks)
    /\ selection \subseteq AllUnits(passages)
    /\ Len(checks) <= MaxChecks
    /\ result.outcome \in {"pending", "failed", "insufficient", "answered", "rejected"}
    /\ (result.outcome = "pending") <=> (stage # "ended")

Conclude(r) == stage' = "ended" /\ result' = r

\* The request behind a stage, or the end.
Following(s) ==
    LET i == CHOOSE n \in DOMAIN Stages(profile) : Stages(profile)[n] = s
    IN  Stages(profile)[i + 1]

\* answer, prepare, catalog: no passage, no call.
AskModel ==
    /\ stage = "start"
    /\ IF passages = <<>> THEN Conclude(Insufficient)
       ELSE IF /\ profile # "free"
               /\ \/ CatalogOf[passages] = {}
                  \/ Cardinality(AllUnits(passages)) > MaxUnits
            THEN Conclude(FailedAnswer)
            ELSE stage' = Stages(profile)[1] /\ UNCHANGED result
    /\ UNCHANGED <<profile, passages, kinds, selection, checks>>

\* permit refuses, post fails, or the output is "bad".
RequestLost ==
    /\ stage \notin {"start", "ended"}
    /\ Conclude(FailedAnswer)
    /\ UNCHANGED <<profile, passages, kinds, selection, checks>>

\* decode_plan.
PlanAnswered ==
    /\ stage = "plan"
    /\ kinds' \in BoundedSeq(CheckKinds, MaxChecks) \ {<<>>}
    /\ stage' = Following("plan")
    /\ UNCHANGED <<profile, passages, selection, checks, result>>

\* decode_selection.
SelectAnswered ==
    /\ stage = "select"
    /\ selection' \in SUBSET CatalogOf[passages]
    /\ stage' = Following("select")
    /\ UNCHANGED <<profile, passages, kinds, checks, result>>

\* A check of the verifier; the question profile asks for no kind.
ChecksOf(p, ps) ==
    [keys : {K \in SUBSET CatalogOf[ps] : Cardinality(K) <= MaxEvidence},
     kind : IF p = "question" THEN {"value"} ELSE CheckKinds,
     verdict : Verdicts(p)]

\* The last request: its output is decoded with what came before.
VerifyAnswered ==
    /\ stage = "verify"
    /\ checks' \in BoundedSeq(ChecksOf(profile, passages), MaxChecks) \ {<<>>}
    /\ Conclude(Validated(passages,
           CASE profile = "select" ->
                  Decided(passages, VerifierKinds(checks'), checks', selection)
             [] profile = "question" -> Planned(passages, kinds, checks')
             [] OTHER -> Guarded(passages, kinds, checks', selection)))
    /\ UNCHANGED <<profile, passages, kinds, selection>>

\* What a model may write of its own: quotes of the passages or of none.
Writable(ps) ==
    {<<"elsewhere">>} \cup
        UNION {{SubSeq(ps[s], i, j) : i, j \in 1 .. Len(ps[s])} : s \in DOMAIN ps}

\* The single request of LocalAnswers and OllamaLocalAnswers.
WriteAnswered ==
    /\ stage = "write"
    /\ \/ Conclude(Insufficient)
       \/ \E ids \in BoundedSeq(DOMAIN passages \cup {0}, 2) :
            \E quotes \in [DOMAIN ids -> Writable(passages)] :
              Conclude(Validated(passages, [outcome |-> "answered",
                  citations |-> [i \in DOMAIN ids |-> [id |-> ids[i], quote |-> quotes[i]]]]))
    /\ UNCHANGED <<profile, passages, kinds, selection, checks>>

ExcerptsNext ==
    \/ AskModel \/ RequestLost \/ PlanAnswered
    \/ SelectAnswered \/ VerifyAnswered \/ WriteAnswered

-----------------------------------------------------------------------------
(* Properties. *)

Extractive == profile # "free"

NonBlank(text, places) == {i \in places : text[i] # "nl"}

\* The application quotes nothing that was not chosen: each quote of an
\* answer is at one place of its passage, and but for blanks it consists of
\* exactly the units both the selection and the verification named, of every
\* passage they named; and what is put together from chosen units is never
\* refused by the validation of the application.
QuotesAreEvidence ==
    /\ result.outcome = "answered" =>
          \A c \in Range(result.citations) :
             LET text == passages[c.id]
                 places == c.start .. c.start + Len(c.quote) - 1 IN
             /\ Occurrences(text, c.quote) = {c.start}
             /\ Extractive => NonBlank(text, places)
                               = NonBlank(text, Covered(Used(checks), c.id))
    /\ result.outcome = "answered" /\ Extractive =>
          /\ {c.id : c \in Range(result.citations)} = {k[1] : k \in Used(checks)}
          /\ "select" \in Range(Stages(profile)) => selection = Used(checks)
    /\ result.outcome = "rejected" => ~Extractive

\* An answer is given only when each requirement of the question has a check
\* of its own with evidence of its own, and an explicit absence counts for
\* availability alone, by the kind the planner gave without the passages.
RequirementsAreMet ==
    result.outcome = "answered" /\ Extractive =>
        LET asked == IF "plan" \in Range(Stages(profile)) THEN kinds
                     ELSE VerifierKinds(checks) IN
        /\ Len(asked) = Len(checks)
        /\ \A i \in DOMAIN checks :
              /\ checks[i].keys # {}
              /\ Support(checks[i].verdict) # "unsupported"
              /\ Support(checks[i].verdict) = "unavailable" => asked[i] = "availability"
=============================================================================
