------------------------------ MODULE Webhooks ------------------------------
(***************************************************************************)
(* 03-webhooks: a sender that posts what happens to its tasks to the URLs  *)
(* subscribed, all at once and each one time, and a receiver that drops    *)
(* the events it has seen.  Deliveries overtake each other; a receiver     *)
(* that is slow is given up on and may still get the event.                *)
(***************************************************************************)
EXTENDS Naturals, Sequences, Functions

CONSTANTS
    HookTasks,      \* ids of tasks
    HookSeeds,      \* done of the tasks that are there from the start
    Urls,
    ReceiverOf,     \* the process behind a URL: two may be the same
    NotSent,        \* the field is not in the request's body
    MaxFired        \* bound: events

ASSUME WebhooksAssumption ==
    /\ DOMAIN HookSeeds \subseteq HookTasks /\ HookSeeds \in [DOMAIN HookSeeds -> BOOLEAN]
    /\ Urls \subseteq DOMAIN ReceiverOf
    /\ MaxFired \in Nat

VARIABLES
    subscriptions,
    hookDone,       \* taskStore: done of the tasks there are
    fired,          \* the events: [type, task, done]
    deliveries,     \* those not over: [event, url, sender, arrived]
    processedIds,   \* receiver -> ids of this process's life
    handled         \* receiver -> how often it processed an event in this life

hookVars == <<subscriptions, hookDone, fired, deliveries, processedIds, handled>>

Receivers == Range(ReceiverOf)

HookInit ==
    /\ subscriptions = {}
    /\ hookDone = HookSeeds
    /\ fired = <<>>
    /\ deliveries = {}
    /\ processedIds = [r \in Receivers |-> {}]
    /\ handled = [r \in Receivers |-> [e \in 1 .. MaxFired |-> 0]]

HookSubscribe(url) ==
    /\ url \notin subscriptions
    /\ subscriptions' = subscriptions \cup {url}
    /\ UNCHANGED <<hookDone, fired, deliveries, processedIds, handled>>

HookUnsubscribe(url) ==
    /\ url \in subscriptions
    /\ subscriptions' = subscriptions \ {url}
    /\ UNCHANGED <<hookDone, fired, deliveries, processedIds, handled>>

\* One attempt for each URL; the request is answered when all are over.
fireWebhook(type, task, done) ==
    /\ Len(fired) < MaxFired
    /\ fired' = Append(fired, [type |-> type, task |-> task, done |-> done])
    /\ deliveries' = deliveries \cup
         {[event |-> Len(fired) + 1, url |-> u, sender |-> "waits", arrived |-> FALSE] : u \in subscriptions}

PostTask(task) ==
    /\ task \notin DOMAIN hookDone
    /\ hookDone' = [t \in DOMAIN hookDone \cup {task} |-> IF t = task THEN FALSE ELSE hookDone[t]]
    /\ fireWebhook("task.created", task, FALSE)
    /\ UNCHANGED <<subscriptions, processedIds, handled>>

\* All up to the first await, which comes after the store is written.
PatchTask(task, done) ==
    LET new == IF done = NotSent THEN hookDone[task] ELSE done
        type == IF new /\ ~hookDone[task] THEN "task.completed" ELSE "task.updated"
    IN  /\ hookDone' = [hookDone EXCEPT ![task] = new]
        /\ fireWebhook(type, task, new)
        /\ UNCHANGED <<subscriptions, processedIds, handled>>

-----------------------------------------------------------------------------

\* MUTANT: as ReceiveWebhook, but only an event whose sender still waits is remembered.
ReceiveUnanswered(d) ==
    LET r == ReceiverOf[d.url]
    IN  /\ ~d.arrived
        /\ IF d.event \in processedIds[r]
             THEN UNCHANGED <<processedIds, handled>>
             ELSE /\ processedIds' = [processedIds EXCEPT ![r] = @ \cup {e \in {d.event} : d.sender = "waits"}]
                  /\ handled' = [handled EXCEPT ![r][d.event] = @ + 1]
        /\ deliveries' = (deliveries \ {d}) \cup
             (IF d.sender = "waits" THEN {[d EXCEPT !.arrived = TRUE]} ELSE {})
        /\ UNCHANGED <<subscriptions, hookDone, fired>>

\* The receiver's handler.  Its answer is on the way back, unless given up.
ReceiveWebhook(d) ==
    LET r == ReceiverOf[d.url]
    IN  /\ ~d.arrived
        /\ IF d.event \in processedIds[r]
             THEN UNCHANGED <<processedIds, handled>>
             ELSE /\ processedIds' = [processedIds EXCEPT ![r] = @ \cup {d.event}]
                  /\ handled' = [handled EXCEPT ![r][d.event] = @ + 1]
        /\ deliveries' = (deliveries \ {d}) \cup
             (IF d.sender = "waits" THEN {[d EXCEPT !.arrived = TRUE]} ELSE {})
        /\ UNCHANGED <<subscriptions, hookDone, fired>>

\* The fetch ends: with the answer, or because the receiver cannot be reached.
DeliveryEnds(d) ==
    /\ deliveries' = deliveries \ {d}
    /\ UNCHANGED <<subscriptions, hookDone, fired, processedIds, handled>>

\* The timeout of the fetch; the request may reach the receiver all the same.
DeliveryTimesOut(d) ==
    /\ d.sender = "waits"
    /\ deliveries' = (deliveries \ {d}) \cup
         (IF d.arrived THEN {} ELSE {[d EXCEPT !.sender = "gaveUp"]})
    /\ UNCHANGED <<subscriptions, hookDone, fired, processedIds, handled>>

\* processedIds is in memory.
ReceiverRestarts(r) ==
    /\ processedIds[r] # {}
    /\ processedIds' = [processedIds EXCEPT ![r] = {}]
    /\ handled' = [handled EXCEPT ![r] = [e \in 1 .. MaxFired |-> 0]]
    /\ UNCHANGED <<subscriptions, hookDone, fired, deliveries>>

HookNext ==
    \/ \E url \in Urls : HookSubscribe(url) \/ HookUnsubscribe(url)
    \/ \E t \in HookTasks : PostTask(t)
    \/ \E t \in DOMAIN hookDone, done \in BOOLEAN \cup {NotSent} : PatchTask(t, done)
    \/ \E d \in deliveries : ReceiveWebhook(d) \/ DeliveryEnds(d) \/ DeliveryTimesOut(d)
    \/ \E r \in Receivers : ReceiverRestarts(r)

HookSpec == HookInit /\ [][HookNext]_hookVars

-----------------------------------------------------------------------------
(* Properties.                                                             *)

\* However PATCH requests overlap, task.completed is fired once for each time a
\* task gets done: between two of a task there is an event that reopens it.
CompletedOncePerCompletion ==
    \A i, j \in DOMAIN fired :
        (/\ i < j /\ fired[i].task = fired[j].task
         /\ fired[i].type = "task.completed" /\ fired[j].type = "task.completed") =>
            \E k \in i .. j : fired[k].task = fired[i].task /\ ~fired[k].done

\* A receiver reached by two URLs processes an event once in its life
\* (03-webhooks/README.md:65), also one that arrives after the sender gave up.
ProcessedOnce ==
    \A r \in Receivers, e \in 1 .. MaxFired : handled[r][e] <= 1

WebhookPromises == CompletedOncePerCompletion /\ ProcessedOnce
=============================================================================
