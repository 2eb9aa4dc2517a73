------------------------------ MODULE BriefPlan ------------------------------
(***************************************************************************)
(* Planning the brief of a day (crates/feeds/src/brief.rs, plan_brief):    *)
(* the entries that were first seen that day are ranked, entries with the  *)
(* same content are shown once, and a subscription has a share of the      *)
(* items.  Briefs takes the entries a plan picks from here.                *)
(*                                                                         *)
(* An entry is [sub, key, usable, content, seen, hit]: `usable` when its   *)
(* subscription is enabled and it is not deleted, `hit` whether a keyword  *)
(* is found in the title, in the summary or not at all.  Times are counted *)
(* in quarters of a day from its start.  The selection takes one entry a   *)
(* step.                                                                   *)
(***************************************************************************)
EXTENDS Integers, FiniteSets, Sequences

CONSTANTS
    Inputs,                 \* [entries, as_of]: what the store loads
    DayEnd,                 \* the first instant of the next day
    MaxItems,               \* 20
    MaxPerSubscription,     \* 3
    None

VARIABLES
    input,
    ranked,     \* None, or the entries the selection has not come to
    items,      \* the entries selected so far, best first
    plan        \* None, an error or the counts of the brief

vars == <<input, ranked, items, plan>>

Init ==
    /\ input \in Inputs
    /\ ranked = None /\ items = <<>> /\ plan = None

\* The same entry must be the same in all of the snapshot.
Conflicting ==
    \E a, b \in input.entries : a.sub = b.sub /\ a.key = b.key /\ a # b

\* normalize: nothing is seen after the snapshot was taken.
Valid(e) == e.seen <= input.as_of

Eligible == {e \in input.entries : e.usable /\ e.seen >= 0 /\ e.seen < DayEnd}

\* Up to six hours old, up to twelve, older.
Freshness(age) == IF age <= 1 THEN 40 ELSE IF age <= 2 THEN 30 ELSE 20

HitPoints(hit) == CASE hit = "title" -> 12 [] hit = "summary" -> 6 [] OTHER -> 0

EntryScore(e) == Freshness(input.as_of - e.seen) + HitPoints(e.hit)

\* By score, then the newest, then by identity.
Before(a, b) ==
    \/ EntryScore(a) > EntryScore(b)
    \/ /\ EntryScore(a) = EntryScore(b)
       /\ \/ a.seen > b.seen
          \/ /\ a.seen = b.seen
             /\ a.sub < b.sub \/ (a.sub = b.sub /\ a.key < b.key)

Contents(entries) == {e.content : e \in entries}
Share(sub) == Cardinality({i \in DOMAIN items : items[i].sub = sub})

\* Only content that was selected makes another entry a duplicate.
Shown(e) == \E i \in DOMAIN items : items[i].content = e.content

Fits(e) == Len(items) < MaxItems /\ Share(e.sub) < MaxPerSubscription

\* plan_brief, until the entries are ranked: the first fault met is told.
Load ==
    /\ ranked = None /\ plan = None
    /\ \/ Conflicting /\ plan' = [status |-> "conflicting_duplicate"] /\ UNCHANGED ranked
       \/ /\ \E e \in input.entries : ~Valid(e)
          /\ plan' = [status |-> "invalid_entry"] /\ UNCHANGED ranked
       \/ /\ ~Conflicting /\ \A e \in input.entries : Valid(e)
          /\ ranked' = Eligible /\ UNCHANGED plan
    /\ UNCHANGED <<input, items>>

\* The best entry that is left.
Select ==
    /\ ranked # None
    /\ \E e \in ranked :
           /\ \A f \in ranked \ {e} : Before(e, f)
           /\ ranked' = ranked \ {e}
           /\ items' = IF ~Shown(e) /\ Fits(e) THEN Append(items, e) ELSE items
    /\ UNCHANGED <<input, plan>>

\* The counts are unsigned differences.
Plan ==
    /\ ranked = {} /\ plan = None
    /\ LET eligible == Cardinality(Eligible)
           duplicate == eligible - Cardinality(Contents(Eligible))
       IN plan' = [status |-> "planned", eligible |-> eligible, duplicate |-> duplicate,
                   omitted |-> eligible - duplicate - Len(items)]
    /\ UNCHANGED <<input, ranked, items>>

Next == Load \/ Select \/ Plan

-----------------------------------------------------------------------------
(* Properties. *)

\* A planned brief shows every content at most once and no subscription
\* more than its share; content is missing only where neither the brief nor
\* the subscription of any of its entries had room, and the counts the
\* reader is told add up without passing below zero.
BriefIsFair ==
    plan # None /\ plan.status = "planned" =>
        /\ \A i, j \in DOMAIN items :
               items[i].content = items[j].content => i = j
        /\ Len(items) <= MaxItems
        /\ \A i \in DOMAIN items : Share(items[i].sub) <= MaxPerSubscription
        /\ \A e \in Eligible :
               \/ Shown(e)
               \/ Len(items) = MaxItems
               \/ Share(e.sub) = MaxPerSubscription
        /\ plan.duplicate >= 0 /\ plan.omitted >= 0
        /\ plan.omitted = Cardinality(Contents(Eligible) \
               {items[i].content : i \in DOMAIN items})
=============================================================================
