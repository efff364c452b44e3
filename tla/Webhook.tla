------------------------------ MODULE Webhook ------------------------------
(***************************************************************************)
(* WebhookDispatcher (sdk/src/webhook.ts) and the receiver's verifyWebhook.*)
(*                                                                         *)
(* Deliveries are chained in memory: the head of the queue is posted up to *)
(* maxAttempts times, then dead-lettered.  A request whose attempt failed  *)
(* may have been processed, be dropped, or be processed later; a crash     *)
(* loses the queue.  The signature covers the body and the time of the     *)
(* attempt, so a body is its event's number here.                          *)
(***************************************************************************)
EXTENDS Integers, Sequences, SequencesExt, FiniteSets

CONSTANTS
    maxAttempts,
    tolerance,
    MaxEnqueued,    \* bound: events
    MaxClock        \* bound: the clock

ASSUME WebhookAssumption == {maxAttempts, tolerance, MaxEnqueued, MaxClock} \subseteq Nat \ {0}

VARIABLES
    enqueued,     \* events so far
    chainOf,      \* the promise chain: events not settled, the head being sent
    attempt,      \* attempts of the head that were started
    posting,      \* the request of the attempt in progress, or NoPost
    flying,       \* requests of failed attempts that may yet be processed
    receipts,     \* what verifyWebhook accepted: [event, signed, at]
    fate,         \* of each event
    clock

webhook == <<enqueued, chainOf, attempt, posting, flying, receipts, fate, clock>>

Events == 1..MaxEnqueued
NoPost == [event |-> 0, signed |-> 0]

WebhookInit ==
    /\ enqueued = 0 /\ chainOf = <<>> /\ attempt = 0 /\ posting = NoPost
    /\ flying = {} /\ receipts = <<>>
    /\ fate = [e \in Events |-> "none"]
    /\ clock = 0

-----------------------------------------------------------------------------
enqueue ==
    /\ enqueued < MaxEnqueued
    /\ enqueued' = enqueued + 1
    /\ chainOf' = Append(chainOf, enqueued + 1)
    /\ fate' = [fate EXCEPT ![enqueued + 1] = "queued"]
    /\ UNCHANGED <<attempt, posting, flying, receipts, clock>>

\* The body and the time of the attempt are signed.
signWebhook(e) == [event |-> e, signed |-> clock]

Post ==
    /\ chainOf # <<>> /\ posting = NoPost
    /\ attempt' = attempt + 1
    /\ posting' = signWebhook(Head(chainOf))
    /\ UNCHANGED <<enqueued, chainOf, flying, receipts, fate, clock>>

\* The head is settled, and its successor begins.
Settle(as) ==
    /\ chainOf' = Tail(chainOf) /\ attempt' = 0 /\ posting' = NoPost
    /\ fate' = [fate EXCEPT ![Head(chainOf)] = as]

\* After a backoff the head is posted again, or it is dead-lettered.
AfterFailure_Requeue ==
    /\ chainOf' = Append(Tail(chainOf), Head(chainOf)) /\ attempt' = 0 /\ posting' = NoPost
    /\ UNCHANGED fate
AfterFailure ==
    IF attempt < maxAttempts THEN posting' = NoPost /\ UNCHANGED <<chainOf, attempt, fate>>
                             ELSE Settle("dead letter")

verifyWebhook(r) == clock - r.signed <= tolerance
Processed(r) ==
    receipts' = IF verifyWebhook(r)
                THEN Append(receipts, [event |-> r.event, signed |-> r.signed, at |-> clock])
                ELSE receipts

\* The receiver processes the request and answers; the answer may be an error,
\* or lost.
Answered ==
    /\ posting # NoPost /\ Processed(posting)
    /\ (verifyWebhook(posting) /\ Settle("delivered")) \/ AfterFailure
    /\ UNCHANGED <<enqueued, flying, clock>>

\* No answer: the request is gone, or still on its way.
Unanswered ==
    /\ posting # NoPost
    /\ flying' \in {flying, flying \cup {posting}}
    /\ AfterFailure
    /\ UNCHANGED <<enqueued, receipts, clock>>

ProcessedLate ==
    /\ \E r \in flying : flying' = flying \ {r} /\ Processed(r)
    /\ UNCHANGED <<enqueued, chainOf, attempt, posting, fate, clock>>

\* The queue is in memory only; a request that was sent is sent.
CrashDispatcher ==
    /\ chainOf # <<>>
    /\ flying' = IF posting = NoPost THEN flying ELSE flying \cup {posting}
    /\ fate' = [e \in Events |-> IF Contains(chainOf, e) THEN "lost" ELSE fate[e]]
    /\ chainOf' = <<>> /\ attempt' = 0 /\ posting' = NoPost
    /\ UNCHANGED <<enqueued, receipts, clock>>

ClockTick ==
    /\ clock < MaxClock /\ clock' = clock + 1
    /\ UNCHANGED <<enqueued, chainOf, attempt, posting, flying, receipts, fate>>

WebhookNext ==
    \/ enqueue \/ Post \/ Answered \/ Unanswered \/ ProcessedLate
    \/ CrashDispatcher \/ ClockTick

WebhookSpec == WebhookInit /\ [][WebhookNext]_webhook

-----------------------------------------------------------------------------
(* Properties.                                                             *)

First(e) == CHOOSE i \in DOMAIN receipts :
                receipts[i].event = e /\ \A j \in 1..(i - 1) : receipts[j].event # e
Received(e) == \E i \in DOMAIN receipts : receipts[i].event = e

\* webhook.ts 88-91, 43-46: a slow endpoint cannot reorder events.  Whatever is
\* retried, processed twice or late: a delivered event was received, before any
\* event after it; only a dead-lettered or lost one is received late or never;
\* every event is in the queue, in order, until it is settled; an event is
\* received at most maxAttempts times, and never older than the tolerance.
DeliveriesAreOrdered ==
    /\ \A e \in Events :
        /\ fate[e] = "delivered" => Received(e)
        /\ fate[e] = "queued" <=> Contains(chainOf, e)
        /\ Cardinality({i \in DOMAIN receipts : receipts[i].event = e}) <= maxAttempts
        /\ fate[e] = "delivered" => \A f \in (e + 1)..MaxEnqueued :
                                        Received(f) => First(e) < First(f)
    /\ \A i, j \in DOMAIN chainOf : i < j => chainOf[i] < chainOf[j]
    /\ \A i \in DOMAIN receipts : receipts[i].at - receipts[i].signed <= tolerance
=============================================================================
