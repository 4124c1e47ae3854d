------------------------------- MODULE Webhook -------------------------------
(***************************************************************************)
(* Webhooks (node/webhook.go): the node puts events in a bounded queue     *)
(* without ever waiting, and one goroutine posts each of them to every URL *)
(* in turn, retrying what the receiver may yet accept.                     *)
(***************************************************************************)
EXTENDS Integers, Sequences, FiniteSets, FiniteSetsExt, Functions

CONSTANTS
    Urls,            \* receivers, numbered from 1
    WebhookQueue,    \* webhookQueue
    WebhookRetries,  \* webhookRetries
    MaxEmitted       \* events the node emits

VARIABLES
    emitted,         \* events so far; each is its number
    queue,
    posting,         \* [event, url, attempt] being delivered, event 0 if none
    delivered,       \* [Urls -> events its receiver accepted, in order]
    sent, failed, dropped,
    halted

hookVars == <<emitted, queue, posting, delivered, sent, failed, dropped, halted>>

Idle == [event |-> 0, url |-> 0, attempt |-> 0]

\* notify never waits: an event that does not fit is counted and dropped.
Notify ==
    /\ emitted < MaxEmitted /\ ~halted
    /\ emitted' = emitted + 1
    /\ IF Len(queue) < WebhookQueue
       THEN queue' = Append(queue, emitted + 1) /\ UNCHANGED dropped
       ELSE dropped' = dropped + 1 /\ UNCHANGED queue
    /\ UNCHANGED <<posting, delivered, sent, failed, halted>>

\* run takes the next event and posts it to the first URL.
Take ==
    /\ posting = Idle /\ queue # <<>> /\ ~halted
    /\ posting' = [event |-> Head(queue), url |-> 1, attempt |-> 0]
    /\ queue' = Tail(queue)
    /\ UNCHANGED <<emitted, delivered, sent, failed, dropped, halted>>

\* The delivery to this URL is over; the next URL, or the next event.
NextUrl ==
    posting' = IF posting.url + 1 \in Urls THEN [posting EXCEPT !.url = @ + 1, !.attempt = 0] ELSE Idle

PostAccepted ==
    /\ posting # Idle
    /\ delivered' = [delivered EXCEPT ![posting.url] = Append(@, posting.event)]
    /\ sent' = sent + 1
    /\ NextUrl
    /\ UNCHANGED <<emitted, queue, failed, dropped, halted>>

\* A 4xx is not retried.
PostRejected ==
    /\ posting # Idle
    /\ failed' = failed + 1
    /\ NextUrl
    /\ UNCHANGED <<emitted, queue, delivered, sent, dropped, halted>>

\* Mutant of PostFailed: an event nobody took goes back into the queue.
PostFailedRequeues ==
    /\ posting # Idle
    /\ posting' = Idle
    /\ queue' = Append(queue, posting.event)
    /\ UNCHANGED <<emitted, delivered, sent, failed, dropped, halted>>

\* A 5xx or no answer: wait and retry, a few times.  A stop cuts the wait short.
PostFailed ==
    /\ posting # Idle
    /\ IF posting.attempt < WebhookRetries
       THEN /\ posting' = IF halted THEN Idle ELSE [posting EXCEPT !.attempt = @ + 1]
            /\ UNCHANGED failed
       ELSE /\ NextUrl
            /\ failed' = failed + 1
    /\ UNCHANGED <<emitted, queue, delivered, sent, dropped, halted>>

\* A receiver that took the event answers 5xx, or its answer is lost.
PostLost ==
    /\ posting # Idle /\ posting.attempt < WebhookRetries /\ ~halted
    /\ delivered' = [delivered EXCEPT ![posting.url] = Append(@, posting.event)]
    /\ posting' = [posting EXCEPT !.attempt = @ + 1]
    /\ UNCHANGED <<emitted, queue, sent, failed, dropped, halted>>

Shutdown ==
    /\ ~halted
    /\ halted' = TRUE
    /\ UNCHANGED <<emitted, queue, posting, delivered, sent, failed, dropped>>

Init ==
    /\ emitted = 0 /\ queue = <<>> /\ posting = Idle
    /\ delivered = [u \in Urls |-> <<>>]
    /\ sent = 0 /\ failed = 0 /\ dropped = 0 /\ halted = FALSE

\* One attempt; the HTTP client's timeout ends those nobody answers.
Attempt == PostAccepted \/ PostRejected \/ PostFailed \/ PostLost

Next == Notify \/ Take \/ Attempt \/ Shutdown

Fairness == WF_hookVars(Take) /\ WF_hookVars(Attempt)

Spec == Init /\ [][Next]_hookVars /\ Fairness
-----------------------------------------------------------------------------
(***************************************************************************)
(* A receiver that is down holds nothing up: every event is settled, that  *)
(* is delivered or given up for every URL or dropped by the full queue, or *)
(* the node stops (deliver's bounded retries).  Settled events are counted *)
(* in sent and failed once per URL.                                        *)
(***************************************************************************)
EventsSettle == []<>(sent + failed = Cardinality(Urls) * (emitted - dropped) \/ halted)
=============================================================================
