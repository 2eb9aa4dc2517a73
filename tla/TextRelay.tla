------------------------------ MODULE TextRelay -----------------------------
(***************************************************************************)
(* The text of a review on its way to a browser, while the model writes it *)
(* (agent-core/learning_model_execution/progress.rs, text_bridge.rs,       *)
(* storage-redis/review_text.rs, storage/learning/review_text.rs,          *)
(* api-server/learning/text_events.rs).                                    *)
(*                                                                         *)
(* Four parties pass it on: the executor, which waits for none of them,    *)
(* the relay that publishes it, the task that is subscribed to it, and the *)
(* request that shows it.  Nothing is repeated: whoever misses a packet    *)
(* gives up, and what was shown is only a preview.                         *)
(***************************************************************************)
EXTENDS Naturals, Sequences, SequencesExt

CONSTANTS
    Texts,          \* fragments a model writes: 0 .. n - 1, told apart here
    Capacity,       \* of the channel of events, and of a subscription: 16
    None

VARIABLES
    executor,       \* its step, and what it has emitted
    events,         \* the channel of progress events: open, queue, sequence
    relay,          \* relay_progress and its Publisher
    wire,           \* packets published that a subscriber has not received
    sub,            \* the task and the channel of a Subscription
    view,           \* an Observation, with what it shows
    status          \* of the authorization, as the store has it

textVars == <<executor, events, relay, wire, sub, view, status>>

\* A fragment is cut in packets of at most 512 bytes: piece i of n.
Pieces == Texts \X {1, 2} \X {1, 2}

Deltas == {[kind |-> "delta", text |-> p] : p \in Pieces}
Notices == {[kind |-> k, text |-> None] : k \in {"clear", "end"}}
Packets == [sequence: Nat, detail: Deltas \cup Notices]

\* TextWindow: the sequence that is due, None before the first packet.
Fresh == [next |-> None, cleared |-> FALSE, ended |-> FALSE]

TextInit ==
    /\ executor = [pc |-> "sending", wrote |-> 0]
    /\ events = [open |-> TRUE, queue |-> <<>>, sequence |-> 0]
    /\ relay = [on |-> TRUE, due |-> 0, sequence |-> 0, rest |-> <<>>]
    /\ wire = <<>>
    /\ sub = [pc |-> "absent", queue |-> <<>>, window |-> Fresh]
    /\ view = [pc |-> "idle", packet |-> None, window |-> Fresh, shown |-> <<>>]
    /\ status = "running"

TextTypeOK ==
    /\ executor \in [pc: {"sending", "persisting", "storing", "done"}, wrote: Nat]
    /\ events.open \in BOOLEAN /\ Len(events.queue) <= Capacity
    /\ relay.on \in BOOLEAN /\ Len(relay.rest) <= 2
    /\ \A i \in 1 .. Len(wire) : wire[i] \in Packets
    /\ sub.pc \in {"absent", "on", "ended", "failed"} /\ Len(sub.queue) <= Capacity
    /\ view.pc \in {"idle", "waiting", "checking", "silent", "closed"}
    /\ status \in {"running", "final"}

-----------------------------------------------------------------------------
(* The executor, from the send marker on: its notices before that one pass *)
(* through the same channel and are dropped by the relay.                  *)

Event(kind, text) == [sequence |-> events.sequence, kind |-> kind, text |-> text]

Room == Len(events.queue) < Capacity

\* Publisher::send: a channel that is full, or that nobody reads, is closed
\* for good, and the executor goes on.
Sends(kind, text, last) ==
    events' = IF events.open /\ Room
              THEN [open |-> ~last, queue |-> Append(events.queue, Event(kind, text)),
                    sequence |-> events.sequence + 1]
              ELSE [events EXCEPT !.open = FALSE]

Emit ==
    /\ executor.pc = "sending" /\ executor.wrote \in Texts
    /\ executor' = [executor EXCEPT !.wrote = @ + 1]
    /\ Sends("delta", executor.wrote, FALSE)
    /\ UNCHANGED <<relay, wire, sub, view, status>>

\* The model ends, in whatever way, after some of what it would have written.
Answered ==
    /\ executor.pc = "sending"
    /\ executor' = [executor EXCEPT !.pc = "persisting"]
    /\ Sends("clear", None, FALSE)
    /\ UNCHANGED <<relay, wire, sub, view, status>>

\* finish_model_review
Persist ==
    /\ executor.pc = "persisting"
    /\ executor' = [executor EXCEPT !.pc = "storing"]
    /\ status' = "final"
    /\ UNCHANGED <<events, relay, wire, sub, view>>

\* Finished, or StorageFailure with the claim still in place.
Conclude ==
    /\ executor.pc \in {"persisting", "storing"}
    /\ executor' = [executor EXCEPT !.pc = "done"]
    /\ Sends("end", None, TRUE)
    /\ UNCHANGED <<relay, wire, sub, view, status>>

\* The authorization is cancelled, invalidated or ends meanwhile.
Withdrawn ==
    /\ status = "running" /\ status' = "final"
    /\ UNCHANGED <<executor, events, relay, wire, sub, view>>

-----------------------------------------------------------------------------
(* The relay.  Its receiver ends when it stops, and the channel with it.   *)

RelayStops ==
    /\ relay' = [relay EXCEPT !.on = FALSE]
    /\ events' = [events EXCEPT !.open = FALSE, !.queue = <<>>]

\* relay_progress takes an event; a fragment becomes one packet or two.
TakeEvent ==
    /\ relay.on /\ relay.rest = <<>> /\ events.queue # <<>>
    /\ LET e == Head(events.queue) IN
        IF e.sequence # relay.due THEN RelayStops
        ELSE /\ events' = [events EXCEPT !.queue = Tail(@)]
             /\ \E n \in {1, 2} :
                  relay' = [relay EXCEPT !.due = @ + 1,
                    !.rest = IF e.kind = "delta"
                             THEN [i \in 1 .. n |-> [kind |-> "delta", text |-> <<e.text, i, n>>]]
                             ELSE <<[kind |-> e.kind, text |-> None]>>]
    /\ UNCHANGED <<executor, wire, sub, view, status>>

Packet == [sequence |-> relay.sequence, detail |-> Head(relay.rest)]

\* Publisher::publish; a subscriber that is there may receive it.
Publish ==
    /\ relay.on /\ relay.rest # <<>>
    /\ \/ /\ relay' = [relay EXCEPT !.sequence = @ + 1, !.rest = Tail(@),
                                    !.on = Head(relay.rest).kind # "end"]
          /\ UNCHANGED events
       \/ RelayStops
    /\ wire' \in IF sub.pc = "on" THEN {wire, Append(wire, Packet)} ELSE {wire}
    /\ UNCHANGED <<executor, sub, view, status>>

-----------------------------------------------------------------------------
(* A window, of a subscription or of what is shown.                        *)

\* Mutation: a gap is passed over.
AcceptsAny(w, p) ==
    /\ ~w.ended
    /\ p.detail.kind = "delta" => ~w.cleared

\* TextWindow::accept
Accepts(w, p) ==
    /\ ~w.ended /\ w.next \in {None, p.sequence}
    /\ p.detail.kind = "delta" => ~w.cleared

Accepted(w, p) ==
    [next |-> p.sequence + 1, cleared |-> w.cleared \/ p.detail.kind = "clear",
     ended |-> p.detail.kind = "end"]

\* The task of a Subscription: anything but the packet that is due ends it.
Receive ==
    /\ sub.pc = "on" /\ wire # <<>>
    /\ wire' = Tail(wire)
    /\ LET p == Head(wire) IN
        sub' = IF ~Accepts(sub.window, p) \/ Len(sub.queue) >= Capacity
               THEN [sub EXCEPT !.pc = "failed"]
               ELSE [pc |-> IF p.detail.kind = "end" THEN "ended" ELSE "on",
                     queue |-> Append(sub.queue, p),
                     window |-> Accepted(sub.window, p)]
    /\ UNCHANGED <<executor, events, relay, view, status>>

\* The connection ends, or the 20 s of a subscription.
Disconnect ==
    /\ sub.pc = "on"
    /\ sub' = [sub EXCEPT !.pc = "failed"] /\ wire' = <<>>
    /\ UNCHANGED <<executor, events, relay, view, status>>

-----------------------------------------------------------------------------
(* The request.                                                            *)

Subscribe ==
    /\ view.pc = "idle" /\ status = "running"
    /\ sub' = [sub EXCEPT !.pc = "on"]
    /\ view' = [view EXCEPT !.pc = "waiting"]
    /\ UNCHANGED <<executor, events, relay, wire, status>>

\* Without an event that ends it a client throws its preview away.
Close ==
    /\ view' = [view EXCEPT !.pc = "closed", !.packet = None, !.shown = <<>>]
    /\ sub' = [sub EXCEPT !.pc = "failed", !.queue = <<>>]
    /\ wire' = <<>>

\* Subscription::next: a failure hides what is still queued.
NextPacket ==
    /\ view.pc = "waiting"
    /\ \/ sub.pc = "failed" /\ Close
       \/ /\ sub.pc # "failed" /\ sub.queue # <<>>
          /\ view' = [view EXCEPT !.pc = "checking", !.packet = Head(sub.queue)]
          /\ sub' = [sub EXCEPT !.queue = Tail(@)]
          /\ UNCHANGED wire
    /\ UNCHANGED <<executor, events, relay, status>>

\* check, and what observe_next makes of the packet.
ShowPacket ==
    LET p == view.packet IN
    /\ view.pc = "checking"
    /\ IF status = "final" \/ ~Accepts(view.window, p) THEN Close
       ELSE /\ view' =
                [pc |-> IF p.detail.kind = "end" THEN "silent" ELSE "waiting",
                 packet |-> None, window |-> Accepted(view.window, p),
                 shown |-> IF p.detail.kind = "delta"
                           THEN Append(view.shown, p.detail.text) ELSE <<>>]
            /\ UNCHANGED <<sub, wire>>
    /\ UNCHANGED <<executor, events, relay, status>>

\* The poll of every second finds the review ended, or the client is gone.
Leave ==
    /\ view.pc \in {"waiting", "checking", "silent"}
    /\ Close
    /\ UNCHANGED <<executor, events, relay, status>>

Execute == Emit \/ Answered \/ Persist \/ Conclude
Transport == TakeEvent \/ Publish \/ Receive \/ Disconnect
Observe == Subscribe \/ NextPacket \/ ShowPacket \/ Leave

TextNext == Execute \/ Transport \/ Observe \/ Withdrawn

-----------------------------------------------------------------------------
\* What follows piece p in what the model wrote.
Follows(p, q) ==
    IF p[2] < p[3] THEN q = <<p[1], p[2] + 1, p[3]>>
    ELSE q[1] = p[1] + 1 /\ q[2] = 1

(* What a browser shows is a run of what the model wrote without a gap: a  *)
(* packet that is lost between any two of the parties ends the preview     *)
(* instead of joining what was before it and after it                      *)
(* (review_text.rs:85, storage learning/review_text.rs:37).                *)
ShownWithoutGaps ==
    \A i \in 1 .. Len(view.shown) - 1 : Follows(view.shown[i], view.shown[i + 1])

(* Whoever watches, slowly or not at all, the execution comes to its end   *)
(* (progress.rs:81).                                                       *)
ExecutionConcludes == <>(executor.pc = "done")

=============================================================================
