---------------------------- MODULE EventSourcing ----------------------------
(***************************************************************************)
(* 11-event-driven: the append-only event store, the task aggregate, the   *)
(* command handler that writes and the projections that read.              *)
(*                                                                         *)
(* handle() loads, decides and appends in one synchronous call.  A writer  *)
(* that keeps the aggregate it loaded and appends later, as the two in     *)
(* demo.ts:176 do, may find that its version is stale.                     *)
(***************************************************************************)
EXTENDS Naturals, SequencesExt

CONSTANTS
    Tasks,      \* aggregate ids
    Titles,     \* titles that are not blank
    Writers,    \* callers that load, decide and append in separate steps
    NoTitle,    \* the title "", rejected like every blank one
    NoAggregate,\* a writer holds nothing
    MaxEvents   \* bound: length of the log

ASSUME EventSourcingAssumption == NoTitle \notin Titles /\ MaxEvents \in Nat

VARIABLES
    log,            \* EventStore.log
    latestVersion,  \* EventStore.latestVersion, 0 where the map has no entry
    subscribed,     \* the projections in EventStore.subscribers
    rows,           \* TaskListView.rows, a partial function
    stats,          \* TaskStatsView: [total, completed]
    feed,           \* ActivityFeedView.feed, as indices of the events
    held            \* writer -> [task, state] it has loaded

eventVars == <<log, latestVersion, subscribed, rows, stats, feed, held>>

Projections == {"task-list-view", "task-stats-view", "activity-feed-view"}
Types == {"TaskCreated", "TaskCompleted", "TaskReopened", "TaskRenamed"}
AggregateState == [title : Titles \cup {NoTitle}, done : BOOLEAN, version : Nat, exists : BOOLEAN]
Event == [task : Tasks, type : Types, title : Titles \cup {NoTitle}, version : Nat]

-----------------------------------------------------------------------------
(* The aggregate: a fold of its events.                                    *)

emptyTaskState == [title |-> NoTitle, done |-> FALSE, version |-> 0, exists |-> FALSE]

Apply(state, event) ==
    [title   |-> IF event.type \in {"TaskCreated", "TaskRenamed"} THEN event.title ELSE state.title,
     done    |-> IF event.type \in {"TaskCompleted", "TaskReopened"}
                   THEN event.type = "TaskCompleted" ELSE state.done,
     version |-> event.version,
     exists  |-> state.exists \/ event.type = "TaskCreated"]

EventsOf(task, events) ==
    FoldLeft(LAMBDA found, e : IF e.task = task THEN Append(found, e) ELSE found, <<>>, events)

FromEvents(events) == FoldLeft(Apply, emptyTaskState, events)

Load(task) == FromEvents(EventsOf(task, log))

\* The decisions of handle(): a command that satisfies none is rejected and
\* changes nothing.  The title is that of the command, NoTitle if it has none.
Allowed(state, type, title) ==
    \/ type = "TaskCreated" /\ ~state.exists /\ title \in Titles
    \/ type = "TaskCompleted" /\ state.exists /\ ~state.done /\ title = NoTitle
    \/ type = "TaskReopened" /\ state.exists /\ state.done /\ title = NoTitle
    \/ type = "TaskRenamed" /\ state.exists /\ title \in Titles \ {state.title}

-----------------------------------------------------------------------------
(* The projections.                                                        *)

ListHandle(view, event) ==
    IF event.type = "TaskCreated"
      THEN [t \in DOMAIN view \cup {event.task} |->
              IF t = event.task THEN [title |-> event.title, done |-> FALSE] ELSE view[t]]
      ELSE IF event.task \notin DOMAIN view THEN view
      ELSE [view EXCEPT ![event.task] =
              CASE event.type = "TaskCompleted" -> [@ EXCEPT !.done = TRUE]
                [] event.type = "TaskReopened" -> [@ EXCEPT !.done = FALSE]
                [] event.type = "TaskRenamed" -> [@ EXCEPT !.title = event.title]]

StatsHandle(view, event) ==
    CASE event.type = "TaskCreated" -> [view EXCEPT !.total = @ + 1]
      [] event.type = "TaskCompleted" -> [view EXCEPT !.completed = @ + 1]
      [] event.type = "TaskReopened" -> [view EXCEPT !.completed = @ - 1]
      [] event.type = "TaskRenamed" -> view

FeedHandle(view, event) == Append(view, <<event.task, event.version>>)

NoStats == [total |-> 0, completed |-> 0]

\* Feed the projections of ps, whose views are those given, a run of events.
FeedTo(ps, listView, statsView, feedView, events) ==
    /\ rows' = IF "task-list-view" \in ps THEN FoldLeft(ListHandle, listView, events) ELSE rows
    /\ stats' = IF "task-stats-view" \in ps THEN FoldLeft(StatsHandle, statsView, events) ELSE stats
    /\ feed' = IF "activity-feed-view" \in ps THEN FoldLeft(FeedHandle, feedView, events) ELSE feed

-----------------------------------------------------------------------------
(* The store.                                                              *)

EventInit ==
    /\ log = <<>>
    /\ latestVersion = [t \in Tasks |-> 0]
    /\ subscribed = {}
    /\ rows = <<>>
    /\ stats = NoStats
    /\ feed = <<>>
    /\ held = [w \in Writers |-> NoAggregate]

\* MUTANT: as AppendEvent, without the version check.
AppendUnchecked(task, type, title, expectedVersion) ==
    LET event == [task |-> task, type |-> type, title |-> title,
                  version |-> latestVersion[task] + 1]
    IN  /\ Len(log) < MaxEvents
        /\ log' = Append(log, event)
        /\ latestVersion' = [latestVersion EXCEPT ![task] = event.version]
        /\ FeedTo(subscribed, rows, stats, feed, <<event>>)

\* append() with the version the caller expects; on a mismatch it throws.
AppendEvent(task, type, title, expectedVersion) ==
    LET event == [task |-> task, type |-> type, title |-> title,
                  version |-> latestVersion[task] + 1]
    IN  /\ Len(log) < MaxEvents
        /\ expectedVersion = latestVersion[task]
        /\ log' = Append(log, event)
        /\ latestVersion' = [latestVersion EXCEPT ![task] = event.version]
        /\ FeedTo(subscribed, rows, stats, feed, <<event>>)

Handle(task, type, title) ==
    LET state == Load(task)
    IN  /\ Allowed(state, type, title)
        /\ AppendEvent(task, type, title, state.version)
        /\ UNCHANGED <<subscribed, held>>

WriterLoads(w, task) ==
    /\ held[w] = NoAggregate
    /\ held' = [held EXCEPT ![w] = [task |-> task, state |-> Load(task)]]
    /\ UNCHANGED <<log, latestVersion, subscribed, rows, stats, feed>>

WriterAppends(w, type, title) ==
    /\ held[w] # NoAggregate
    /\ Allowed(held[w].state, type, title)
    /\ AppendEvent(held[w].task, type, title, held[w].state.version)
    /\ held' = [held EXCEPT ![w] = NoAggregate]
    /\ UNCHANGED subscribed

\* ConcurrencyError: the writer drops what it has loaded.
WriterIsStale(w) ==
    /\ held[w] # NoAggregate
    /\ held[w].state.version # latestVersion[held[w].task]
    /\ held' = [held EXCEPT ![w] = NoAggregate]
    /\ UNCHANGED <<log, latestVersion, subscribed, rows, stats, feed>>

\* A new projection subscribes: before the first event, or with replayExisting.
Subscribe(p) ==
    /\ p \notin subscribed
    /\ subscribed' = subscribed \cup {p}
    /\ FeedTo({p}, <<>>, NoStats, <<>>, log)
    /\ UNCHANGED <<log, latestVersion, held>>

\* MUTANT: as Rebuild, but a view is replayed onto what it holds.
RebuildUncleared ==
    /\ subscribed = Projections
    /\ FeedTo(Projections, rows, stats, feed, log)
    /\ UNCHANGED <<log, latestVersion, subscribed, held>>

\* clear() of every projection and replayTo() each, as in demo.ts:257.
Rebuild ==
    /\ subscribed = Projections
    /\ FeedTo(Projections, <<>>, NoStats, <<>>, log)
    /\ UNCHANGED <<log, latestVersion, subscribed, held>>

EventNext ==
    \/ \E t \in Tasks, type \in Types, title \in Titles \cup {NoTitle} : Handle(t, type, title)
    \/ \E w \in Writers, t \in Tasks : WriterLoads(w, t)
    \/ \E w \in Writers, type \in Types, title \in Titles \cup {NoTitle} : WriterAppends(w, type, title)
    \/ \E w \in Writers : WriterIsStale(w)
    \/ \E p \in Projections : Subscribe(p)
    \/ Rebuild

EventSpec == EventInit /\ [][EventNext]_eventVars

-----------------------------------------------------------------------------
(* Properties.                                                             *)

EventTypeOK ==
    /\ log \in Seq(Event)
    /\ latestVersion \in [Tasks -> Nat]
    /\ subscribed \subseteq Projections
    /\ \A t \in DOMAIN rows : rows[t] \in [title : Titles, done : BOOLEAN]
    /\ stats \in [total : Nat, completed : Nat]
    /\ feed \in Seq(Tasks \X Nat)
    /\ held \in [Writers -> [task : Tasks, state : AggregateState] \cup {NoAggregate}]

\* However writers with stale aggregates interleave with the command handler,
\* the versions of a task are 1, 2, 3, ... and each event was allowed in the
\* state its predecessors leave: no task is created or completed twice, though
\* append() itself looks at the version only (event-store.ts:81).
HistoryIsLegal ==
    /\ EventTypeOK
    /\ \A t \in Tasks :
         LET events == EventsOf(t, log)
         IN  /\ latestVersion[t] = Len(events)
             /\ \A i \in DOMAIN events :
                  /\ events[i].version = i
                  /\ Allowed(FromEvents(SubSeq(events, 1, i - 1)), events[i].type, events[i].title)

\* The read side and the write side interpret the log with code of their own.
\* A view that subscribed, at whatever length of the log, or was rebuilt shows
\* the tasks the aggregates have, and the counters count them.
ViewsMatchAggregates ==
    LET created == {t \in Tasks : Load(t).exists}
    IN  /\ "task-list-view" \in subscribed =>
             rows = [t \in created |-> [title |-> Load(t).title, done |-> Load(t).done]]
        /\ "task-stats-view" \in subscribed =>
             stats = [total |-> Cardinality(created),
                      completed |-> Cardinality({t \in created : Load(t).done})]
        /\ "activity-feed-view" \in subscribed =>
             feed = [i \in DOMAIN log |-> <<log[i].task, log[i].version>>]
=============================================================================
