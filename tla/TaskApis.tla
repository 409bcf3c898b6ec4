------------------------------ MODULE TaskApis ------------------------------
(***************************************************************************)
(* The task APIs of 01-rest, 02-graphql, 06-grpc and 07-trpc: the same     *)
(* data behind four protocols (shared/types.ts:2), a store each.  One      *)
(* action is one call as a client means it, made to all four; how each     *)
(* reads it differs in titles that are blank or have spaces around them,   *)
(* and in fields left out.                                                 *)
(***************************************************************************)
EXTENDS Naturals

CONSTANTS
    Texts,      \* what titles say, spaces around it apart
    Absent,     \* a field the call leaves out
    MaxCalls    \* bound

\* A title: what it says, and whether there are spaces around it.
ApiTitles == [text : Texts \cup {""}, padded : BOOLEAN]
Empty == [text |-> "", padded |-> FALSE]
Blank == {Empty, [text |-> "", padded |-> TRUE]}
trim(title) == [text |-> title.text, padded |-> FALSE]

ASSUME TaskApisAssumption ==
    /\ MaxCalls \in Nat
    /\ "" \notin Texts
    /\ Absent \notin BOOLEAN \cup ApiTitles

VARIABLES
    stores,     \* api -> id -> [title, done]
    calls,      \* how many there were; a task's id is the call that created it
    complete,   \* every call so far had all its fields and no blank title (history)
    spaced      \* an update had a title with spaces around it (history)

apiVars == <<stores, calls, complete, spaced>>

Apis == {"rest", "graphql", "grpc", "trpc"}

ApiInit ==
    /\ stores = [a \in Apis |-> <<>>]
    /\ calls = 0
    /\ complete = TRUE
    /\ spaced = FALSE

-----------------------------------------------------------------------------

\* The store with a task created, unless the title is refused: REST and gRPC
\* trim before they look, tRPC's min(1) does not, GraphQL asks for any string.
WithTask(api, id, title) ==
    [i \in DOMAIN stores[api] \cup {id} |->
        IF i = id THEN [title |-> trim(title), done |-> FALSE] ELSE stores[api][i]]

RestCreated(id, title) == IF title \in Blank THEN stores["rest"] ELSE WithTask("rest", id, title)
GraphqlCreated(id, title) == WithTask("graphql", id, title)
GrpcCreated(id, title) == IF title \in Blank THEN stores["grpc"] ELSE WithTask("grpc", id, title)
TrpcCreated(id, title) == IF title = Empty THEN stores["trpc"] ELSE WithTask("trpc", id, title)

\* PUT replaces both fields and takes no blank title.
Put(task, title, done) ==
    IF title \in Blank \cup {Absent} \/ done = Absent THEN task
    ELSE [title |-> trim(title), done |-> done]

\* PATCH of REST, the webhook sender and the SSE server.
Patched(task, title, done) ==
    [title |-> IF title = Absent THEN task.title ELSE trim(title),
     done |-> IF done = Absent THEN task.done ELSE done]

GraphqlUpdated(task, title, done) == Patched(task, title, done)

\* MUTANT: as GrpcUpdated, with done read the way the title is.
GrpcUpdatedOr(task, title, done) ==
    [title |-> IF title \in {Absent, Empty} THEN task.title ELSE title,
     done |-> IF done = Absent THEN task.done ELSE done \/ task.done]

\* A field left out arrives as its default: "" keeps the title, but FALSE is
\* stored.  A title is stored as it comes, with its spaces.
GrpcUpdated(task, title, done) ==
    [title |-> IF title \in {Absent, Empty} THEN task.title ELSE title,
     done |-> IF done = Absent THEN FALSE ELSE done]

\* zod refuses the whole call for an empty title.
TrpcUpdated(task, title, done) ==
    IF title = Empty THEN task ELSE Patched(task, title, done)

\* The tasks listed under a filter on done; gRPC cannot tell a filter that is
\* left out from FALSE, though task.proto:50 calls it optional.
Matching(api, done) == {i \in DOMAIN stores[api] : stores[api][i].done = done}
RestListed(done) == IF done = Absent THEN DOMAIN stores["rest"] ELSE Matching("rest", done)
GraphqlListed(done) == IF done = Absent THEN DOMAIN stores["graphql"] ELSE Matching("graphql", done)
GrpcListed(done) == Matching("grpc", IF done = Absent THEN FALSE ELSE done)
TrpcListed(done) == IF done = Absent THEN DOMAIN stores["trpc"] ELSE Matching("trpc", done)

-----------------------------------------------------------------------------

\* One call made to all: `rest', `graphql', `grpc' and `trpc' are the new stores.
Call(rest, graphql, grpc, trpc) ==
    /\ calls < MaxCalls
    /\ calls' = calls + 1
    /\ stores' = [rest |-> rest, graphql |-> graphql, grpc |-> grpc, trpc |-> trpc]

CreateTask(title) ==
    LET id == calls + 1
    IN  /\ Call(RestCreated(id, title), GraphqlCreated(id, title), GrpcCreated(id, title),
                TrpcCreated(id, title))
        /\ complete' = (complete /\ title \notin Blank)
        /\ UNCHANGED spaced

\* An id the store does not have: 404, NOT_FOUND or null.
Change(api, id, task) ==
    IF id \in DOMAIN stores[api] THEN [stores[api] EXCEPT ![id] = task] ELSE stores[api]

\* The method is REST's.
UpdateTask(id, method, title, done) ==
    /\ Call(Change("rest", id, IF method = "PUT" THEN Put(stores["rest"][id], title, done)
                                               ELSE Patched(stores["rest"][id], title, done)),
            Change("graphql", id, GraphqlUpdated(stores["graphql"][id], title, done)),
            Change("grpc", id, GrpcUpdated(stores["grpc"][id], title, done)),
            Change("trpc", id, TrpcUpdated(stores["trpc"][id], title, done)))
    /\ complete' = (complete /\ title \notin Blank \cup {Absent} /\ done # Absent)
    /\ spaced' = (spaced \/ title \in {t \in ApiTitles : t.padded})

Without(api, id) == [i \in DOMAIN stores[api] \ {id} |-> stores[api][i]]

DeleteTask(id) ==
    /\ Call(Without("rest", id), Without("graphql", id), Without("grpc", id), Without("trpc", id))
    /\ UNCHANGED <<complete, spaced>>

ApiNext ==
    \/ \E title \in ApiTitles : CreateTask(title)
    \/ \E id \in 1 .. calls :
         \/ DeleteTask(id)
         \/ \E method \in {"PUT", "PATCH"}, title \in ApiTitles \cup {Absent},
               done \in BOOLEAN \cup {Absent} : UpdateTask(id, method, title, done)

ApiSpec == ApiInit /\ [][ApiNext]_apiVars

-----------------------------------------------------------------------------

\* gRPC's tasks with their titles trimmed.
GrpcTrimmed ==
    [i \in DOMAIN stores["grpc"] |-> [stores["grpc"][i] EXCEPT !.title = trim(@)]]

\* As long as every call has all its fields and no blank title: one store, but for
\* the spaces that gRPC alone keeps when a title is updated, and the same lists,
\* but for gRPC's without a filter, which has the unfinished tasks only.
SameWhenComplete ==
    /\ \A a \in Apis \ {"grpc"} : stores[a] = stores["rest"]
    /\ GrpcTrimmed = stores["rest"]
    /\ spaced \/ stores["grpc"] = stores["rest"]
    /\ \A done \in BOOLEAN :
         {GraphqlListed(done), GrpcListed(done), TrpcListed(done)} = {RestListed(done)}
    /\ {GraphqlListed(Absent), TrpcListed(Absent)} = {RestListed(Absent)}
    /\ GrpcListed(Absent) = RestListed(FALSE)

\* After any calls: gRPC may have reopened a task, never finished one by itself,
\* and may have kept a title that GraphQL has emptied, no other.
GrpcDiffersByDefaults ==
    \A i \in DOMAIN stores["grpc"] :
        /\ stores["grpc"][i].done => stores["graphql"][i].done
        /\ GrpcTrimmed[i].title # stores["graphql"][i].title => stores["graphql"][i].title = Empty

\* "Same data, different protocol" (shared/types.ts:2), as far as it goes: it holds
\* for complete calls but for what is said above of gRPC's spaces (06-grpc/server.ts:138) and
\* its list without a filter (line 175).  After any calls at all, gRPC's tasks
\* differ from GraphQL's in what its defaults bring about only, and the APIs hold the
\* same tasks but for those created with a blank title, which gRPC and REST never have.
ApisAgree ==
    /\ complete => SameWhenComplete
    /\ DOMAIN stores["rest"] = DOMAIN stores["grpc"]
    /\ DOMAIN stores["grpc"] \subseteq DOMAIN stores["trpc"]
    /\ DOMAIN stores["trpc"] \subseteq DOMAIN stores["graphql"]
    /\ GrpcDiffersByDefaults
=============================================================================
