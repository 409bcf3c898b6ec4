----------------------------- MODULE EventStream -----------------------------
(***************************************************************************)
(* 04-sse: the server that writes what happens to its tasks to every open  *)
(* stream, and the client that cuts the stream into events.  The transport *)
(* hands the client what was written in chunks of any length, which end    *)
(* wherever they may: in a line, between the two newlines that end an      *)
(* event, or inside a character of several bytes.  The client decodes each *)
(* chunk by itself, and such a character is lost to it.                    *)
(***************************************************************************)
EXTENDS Naturals, SequencesExt

CONSTANTS
    LiveIds,        \* ids of tasks
    Watchers,       \* streams, a Response each
    SeedIds,        \* tasks that are there from the start
    WideId,         \* the task whose title has a character of several bytes
    MaxPushes       \* bound: changes, heartbeats and reads of a stream after its init

ASSUME EventStreamAssumption == SeedIds \subseteq LiveIds /\ MaxPushes \in Nat

VARIABLES
    liveTasks,      \* taskStore: done of the tasks there are
    clients,        \* streams the server writes to
    wire,           \* written and not yet arrived, in symbols
    buffer,         \* the client's: what follows the last complete event
    told,           \* what the events the client has printed come to
    open,           \* streams whose client is there
    torn,           \* those of them of which a chunk ended inside a character (history)
    pushes          \* how many changes and heartbeats there were

streamVars == <<liveTasks, clients, wire, buffer, told, open, torn, pushes>>

\* A stream is made of lines and newlines; NL ends a line, two end an event.  The
\* data line holds tasks, or the id of a deleted one.  What comes of a line is put
\* together in the buffer, so it does not matter in how many chunks it comes, but
\* for the character of several bytes, which is garbled if it comes in two.
NL == [newline |-> "LF"]
TaskLine(tasks) == [tasks |-> tasks, garbled |-> FALSE]
Garbled(line) == [tasks |-> line.tasks, garbled |-> TRUE]
IdLine(id) == [id |-> id]
Lines(event, data) == <<[event |-> event], NL, data, NL, NL>>
Comment == <<[comment |-> "heartbeat"], NL, NL>>

StreamInit ==
    /\ liveTasks = [i \in SeedIds |-> FALSE]
    /\ clients = {}
    /\ wire = [c \in Watchers |-> <<>>]
    /\ buffer = [c \in Watchers |-> <<>>]
    /\ told = [c \in Watchers |-> <<>>]
    /\ open = {}
    /\ torn = {}
    /\ pushes = 0

\* One task, and tasks of which some are set.
Only(i, done) == [j \in {i} |-> done]
Updated(known, tasks) ==
    [j \in DOMAIN known \cup DOMAIN tasks |-> IF j \in DOMAIN tasks THEN tasks[j] ELSE known[j]]

-----------------------------------------------------------------------------
(* The server.                                                             *)

\* A write to a stream whose client has gone reaches nobody.
Written(cs, text) == [c \in Watchers |-> IF c \in cs \cap open THEN wire[c] \o text ELSE wire[c]]

\* GET /events: registration and initial state in one call.
OpenStream(c) ==
    /\ c \notin open \cup clients
    /\ open' = open \cup {c}
    /\ clients' = clients \cup {c}
    /\ wire' = [wire EXCEPT ![c] = Comment \o Lines("init", TaskLine(liveTasks))]
    /\ UNCHANGED <<liveTasks, buffer, told, torn, pushes>>

\* The client goes; the server learns of it later.
LeaveStream(c) ==
    /\ c \in open
    /\ open' = open \ {c}
    /\ wire' = [wire EXCEPT ![c] = <<>>]
    /\ buffer' = [buffer EXCEPT ![c] = <<>>]
    /\ told' = [told EXCEPT ![c] = <<>>]
    /\ torn' = torn \ {c}
    /\ UNCHANGED <<liveTasks, clients, pushes>>

\* The request's close event.
StreamCloses(c) ==
    /\ c \in clients \ open
    /\ clients' = clients \ {c}
    /\ UNCHANGED <<liveTasks, wire, buffer, told, open, torn, pushes>>

broadcast(event, data) ==
    /\ pushes < MaxPushes
    /\ pushes' = pushes + 1
    /\ wire' = Written(clients, Lines(event, data))
    /\ UNCHANGED <<clients, buffer, told, open, torn>>

PostLive(i) ==
    /\ i \notin DOMAIN liveTasks
    /\ liveTasks' = Updated(liveTasks, Only(i, FALSE))
    /\ broadcast("task.created", TaskLine(Only(i, FALSE)))

PatchLive(i, done) ==
    /\ i \in DOMAIN liveTasks
    /\ liveTasks' = [liveTasks EXCEPT ![i] = done]
    /\ broadcast(IF done /\ ~liveTasks[i] THEN "task.completed" ELSE "task.updated",
                 TaskLine(Only(i, done)))

DeleteLive(i) ==
    /\ i \in DOMAIN liveTasks
    /\ liveTasks' = [j \in DOMAIN liveTasks \ {i} |-> liveTasks[j]]
    /\ broadcast("task.deleted", IdLine(i))

Heartbeat(c) ==
    /\ c \in clients /\ pushes < MaxPushes
    /\ pushes' = pushes + 1
    /\ wire' = Written({c}, Comment)
    /\ UNCHANGED <<liveTasks, clients, buffer, told, open, torn>>

-----------------------------------------------------------------------------
(* The client.                                                             *)

\* split("\n\n"): the events that have ended, and the rest of the text.
Cut(cut, symbol) ==
    IF symbol = NL /\ cut.rest # <<>> /\ Last(cut.rest) = NL
    THEN [events |-> Append(cut.events, Front(cut.rest)), rest |-> <<>>]
    ELSE [events |-> cut.events, rest |-> Append(cut.rest, symbol)]

Split(text) == FoldLeft(Cut, [events |-> <<>>, rest |-> <<>>], text)

\* parseSSEEvent, and what its reader then knows of the tasks: an event without
\* data is skipped, and one without a type is a plain message.
Field(event, name) == {line[name] : line \in {l \in Range(event) : name \in DOMAIN l}}

\* The tasks of an event as they are printed.
Shown(tasks, event) ==
    [i \in DOMAIN tasks |-> [done |-> tasks[i], garbled |-> i = WideId /\ TRUE \in Field(event, "garbled")]]

Parsed(known, event) ==
    LET type == IF Field(event, "event") = {} THEN "message" ELSE CHOOSE e \in Field(event, "event") : TRUE
        tasks == Shown(CHOOSE d \in Field(event, "tasks") : TRUE, event)
    IN  CASE type = "task.deleted" -> [j \in DOMAIN known \ Field(event, "id") |-> known[j]]
          [] type = "init" /\ Field(event, "tasks") # {} -> tasks
          [] type \in {"task.created", "task.completed", "task.updated"} /\ Field(event, "tasks") # {} ->
               Updated(known, tasks)
          [] OTHER -> known

\* The first line of a text has the character of several bytes.
HoldsWide(text) == text # <<>> /\ "tasks" \in DOMAIN text[1] /\ WideId \in DOMAIN text[1].tasks

\* MUTANT: as ChunkArrives, but what is left of the last chunk is not kept.
ChunkAlone(c, n, inside) ==
    LET cut == Split(SubSeq(wire[c], 1, n))
        left == SubSeq(wire[c], n + 1, Len(wire[c]))
    IN  /\ c \in open /\ n <= Len(wire[c])
        /\ IF inside THEN HoldsWide(left) ELSE n > 0
        /\ wire' = [wire EXCEPT ![c] = IF inside THEN [left EXCEPT ![1] = Garbled(@)] ELSE left]
        /\ told' = [told EXCEPT ![c] = FoldLeft(Parsed, @, cut.events)]
        /\ buffer' = [buffer EXCEPT ![c] = cut.rest]
        /\ torn' = IF inside THEN torn \cup {c} ELSE torn
        /\ UNCHANGED <<liveTasks, clients, open, pushes>>

\* The next n symbols arrive and, if `inside', some bytes of the character in the
\* line that follows: neither those nor its other bytes can be decoded.
ChunkArrives(c, n, inside) ==
    LET cut == Split(buffer[c] \o SubSeq(wire[c], 1, n))
        left == SubSeq(wire[c], n + 1, Len(wire[c]))
    IN  /\ c \in open /\ n <= Len(wire[c])
        /\ IF inside THEN HoldsWide(left) ELSE n > 0
        /\ wire' = [wire EXCEPT ![c] = IF inside THEN [left EXCEPT ![1] = Garbled(@)] ELSE left]
        /\ told' = [told EXCEPT ![c] = FoldLeft(Parsed, @, cut.events)]
        /\ buffer' = [buffer EXCEPT ![c] = cut.rest]
        /\ torn' = IF inside THEN torn \cup {c} ELSE torn
        /\ UNCHANGED <<liveTasks, clients, open, pushes>>

StreamNext ==
    \/ \E c \in Watchers :
         \/ OpenStream(c) \/ LeaveStream(c) \/ StreamCloses(c) \/ Heartbeat(c)
         \/ \E n \in 0 .. Len(wire[c]), inside \in BOOLEAN : ChunkArrives(c, n, inside)
    \/ \E i \in LiveIds : PostLive(i) \/ DeleteLive(i) \/ \E done \in BOOLEAN : PatchLive(i, done)

StreamSpec == StreamInit /\ [][StreamNext]_streamVars

-----------------------------------------------------------------------------

\* Whenever a client opened its stream and wherever the chunks end, what it was
\* told, with what is left in its buffer and on the wire, comes to the tasks the
\* server has: no change falls between the initial state and the first event,
\* none is lost or told twice.  A chunk that ends inside a character may spoil the
\* title it is in, and nothing else (client.ts:42).
StreamsFollowStore ==
    \A c \in open :
        LET cut == Split(buffer[c] \o wire[c])
            known == FoldLeft(Parsed, told[c], cut.events)
        IN  /\ cut.rest = <<>>
            /\ DOMAIN known = DOMAIN liveTasks
            /\ \A i \in DOMAIN known : known[i].done = liveTasks[i]
            /\ \A i \in DOMAIN known : known[i].garbled => c \in torn /\ i = WideId
=============================================================================
