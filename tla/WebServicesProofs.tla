------------------------- MODULE WebServicesProofs -------------------------
(***************************************************************************)
(* Proofs about the web services, each for its own specification: the task *)
(* APIs agree, webhooks announce a completion once and are processed once, *)
(* streams follow the store, a chat is one conversation, the gateway's     *)
(* limit, answers and dashboard are what its clients may rely on (chapters *)
(* 01 to 08), and the event-sourced tasks have a legal history that every  *)
(* view shows (chapter 11).                                                *)
(***************************************************************************)
EXTENDS Pushes, TaskApis, Gateway, EventSourcing, EventStream, FoldLemmas

-----------------------------------------------------------------------------
(* The task APIs: the stores themselves are compared, task by task.         *)

ApiTask == [title : ApiTitles, done : BOOLEAN]
TaskTypes == \A a \in Apis : stores[a] \in [DOMAIN stores[a] -> ApiTask]

\* What ApisAgree says of the stores, without the filters.
SameTasks ==
    complete => /\ \A a \in Apis \ {"grpc"} : stores[a] = stores["rest"]
                /\ GrpcTrimmed = stores["rest"]
                /\ spaced \/ stores["grpc"] = stores["rest"]

SameIds ==
    /\ DOMAIN stores["rest"] = DOMAIN stores["grpc"]
    /\ DOMAIN stores["grpc"] \subseteq DOMAIN stores["trpc"]
    /\ DOMAIN stores["trpc"] \subseteq DOMAIN stores["graphql"]

\* Ids count the calls, so a new one is free.
IdsCount == calls \in Nat /\ \A a \in Apis : DOMAIN stores[a] \subseteq 1 .. calls

ApiInv == TaskTypes /\ IdsCount /\ SameTasks /\ SameIds /\ GrpcDiffersByDefaults

\* A task as gRPC would have it if it trimmed.
TrimmedTask(task) == [task EXCEPT !.title = trim(@)]

\* trim is idempotent and leaves a title without spaces around it alone.
LEMMA Trimming ==
    ASSUME NEW title \in ApiTitles
    PROVE  /\ trim(title) \in ApiTitles /\ trim(trim(title)) = trim(title)
           /\ ~title.padded => trim(title) = title
           /\ trim(Empty) = Empty
<1>1. \A t \in ApiTitles : trim(t) = [text |-> t.text, padded |-> FALSE] /\ trim(t) \in ApiTitles
  <2>1. SUFFICES ASSUME NEW t \in ApiTitles
                 PROVE  trim(t) = [text |-> t.text, padded |-> FALSE] /\ trim(t) \in ApiTitles
    OBVIOUS
  <2>2. PICK x \in Texts \cup {""}, b \in BOOLEAN : t = [text |-> x, padded |-> b]
    BY DEF ApiTitles
  <2>3. trim(t) = [text |-> x, padded |-> FALSE] /\ t.text = x
    BY <2>2 DEF trim
  <2>4. [text |-> x, padded |-> FALSE] \in ApiTitles
    BY <2>2 DEF ApiTitles
  <2>5. QED
    BY <2>3, <2>4
<1>2. trim(trim(title)) = trim(title)
  BY <1>1
<1>3. title = [text |-> title.text, padded |-> title.padded]
  BY DEF ApiTitles
<1>4. Empty \in ApiTitles /\ Empty.text = "" /\ ~Empty.padded
  BY DEF ApiTitles, Empty
<1>5. trim(Empty) = Empty
  BY <1>1, <1>4 DEF Empty
<1>6. ~title.padded => trim(title) = title
  <2>1. title.padded \in BOOLEAN
    BY DEF ApiTitles
  <2>2. QED
    BY <1>1, <1>3, <2>1
<1>7. QED
  BY <1>1, <1>2, <1>5, <1>6

\* A task is trimmed by its title.
LEMMA TrimmingTasks ==
    ASSUME NEW task \in ApiTask
    PROVE  /\ TrimmedTask(task) = [title |-> trim(task.title), done |-> task.done]
           /\ TrimmedTask(task) \in ApiTask
  BY Trimming DEF TrimmedTask, ApiTask

\* The empty stores agree.
LEMMA ApiStarts == ApiInit => ApiInv
<1> SUFFICES ASSUME ApiInit PROVE ApiInv
  OBVIOUS
<1>1. \A a \in Apis : stores[a] = <<>> /\ DOMAIN stores[a] = {}
  BY DEF ApiInit
<1>2. TaskTypes
  <2>1. \A f : f = <<>> => f \in [{} -> ApiTask]
    OBVIOUS
  <2>2. QED
    BY <1>1, <2>1 DEF TaskTypes
<1>3. GrpcTrimmed = <<>>
  BY <1>1 DEF GrpcTrimmed, Apis
<1>4. QED
  BY <1>1, <1>2, <1>3 DEF ApiInit, ApiInv, IdsCount, SameTasks, SameIds, GrpcDiffersByDefaults, Apis

\* A call gives each store its new value.
LEMMA CallStores ==
    ASSUME NEW rest, NEW graphql, NEW grpc, NEW trpc, Call(rest, graphql, grpc, trpc)
    PROVE  /\ stores'["rest"] = rest /\ stores'["graphql"] = graphql
           /\ stores'["grpc"] = grpc /\ stores'["trpc"] = trpc
  BY DEF Call

\* create: with a title that is not blank the four stores get the same task under
\* the same id, and otherwise those that refuse it are the ones below.
LEMMA CreateTaskKeeps ==
    ASSUME NEW title \in ApiTitles, ApiInv, CreateTask(title)
    PROVE  ApiInv'
<1> DEFINE id == calls + 1
           made == [title |-> trim(title), done |-> FALSE]
<1>1. /\ stores'["rest"] = RestCreated(id, title) /\ stores'["graphql"] = GraphqlCreated(id, title)
      /\ stores'["grpc"] = GrpcCreated(id, title) /\ stores'["trpc"] = TrpcCreated(id, title)
      /\ complete' = (complete /\ title \notin Blank) /\ spaced' = spaced
  BY CallStores DEF CreateTask
<1>2. \A api \in Apis :
        /\ DOMAIN WithTask(api, id, title) = DOMAIN stores[api] \cup {id}
        /\ \A i \in DOMAIN stores[api] \cup {id} :
             WithTask(api, id, title)[i] = IF i = id THEN made ELSE stores[api][i]
  BY DEF WithTask
<1>3. made \in ApiTask /\ TrimmedTask(made) = made
  <2>1. made \in ApiTask
    BY Trimming DEF ApiTask
  <2>2. QED
    BY <2>1, Trimming, TrimmingTasks
<1>4. \A api \in Apis : WithTask(api, id, title) \in [DOMAIN WithTask(api, id, title) -> ApiTask]
  <2>1. SUFFICES ASSUME NEW api \in Apis
                 PROVE  WithTask(api, id, title) \in [DOMAIN stores[api] \cup {id} -> ApiTask]
    BY <1>2
  <2>2. \A i \in DOMAIN stores[api] : stores[api][i] \in ApiTask
    BY DEF ApiInv, TaskTypes
  <2>3. QED
    BY <1>3, <2>2 DEF WithTask
<1>5. \A a \in Apis : \/ stores'[a] = WithTask(a, id, title)
                      \/ stores'[a] = stores[a] /\ title \in Blank
  BY <1>1 DEF RestCreated, GraphqlCreated, GrpcCreated, TrpcCreated, Apis, Blank
<1>6. TaskTypes' /\ IdsCount'
  <2>1. TaskTypes'
    BY <1>4, <1>5 DEF ApiInv, TaskTypes
  <2>2. calls \in Nat /\ calls' = calls + 1 /\ \A a \in Apis : DOMAIN stores[a] \subseteq 1 .. calls
    BY DEF ApiInv, IdsCount, CreateTask, Call
  <2>3. \A a \in Apis : DOMAIN stores'[a] \subseteq 1 .. calls'
    <3>1. \A a \in Apis : DOMAIN stores'[a] \subseteq DOMAIN stores[a] \cup {id}
      BY <1>2, <1>5
    <3>2. id \in 1 .. calls' /\ 1 .. calls \subseteq 1 .. calls'
      BY <2>2
    <3>3. QED
      BY <2>2, <3>1, <3>2
  <2>4. QED
    BY <2>1, <2>2, <2>3 DEF IdsCount
<1>7. SameIds'
  BY <1>1, <1>2 DEF ApiInv, SameIds, RestCreated, GraphqlCreated, GrpcCreated, TrpcCreated, Apis, Blank
<1>8. SameTasks'
  <2>1. SUFFICES ASSUME complete'
                 PROVE  /\ \A a \in Apis \ {"grpc"} : stores'[a] = stores'["rest"]
                        /\ GrpcTrimmed' = stores'["rest"]
                        /\ spaced' \/ stores'["grpc"] = stores'["rest"]
    BY DEF SameTasks
  <2>2. /\ title \notin Blank
        /\ \A a \in Apis \ {"grpc"} : stores[a] = stores["rest"]
        /\ GrpcTrimmed = stores["rest"]
        /\ spaced \/ stores["grpc"] = stores["rest"]
    BY <1>1, <2>1 DEF ApiInv, SameTasks
  <2>3. \A a \in Apis : stores'[a] = WithTask(a, id, title)
    BY <1>5, <2>2
  <2>4. \A a, b \in Apis : stores[a] = stores[b] => WithTask(a, id, title) = WithTask(b, id, title)
    BY DEF WithTask
  <2>5. GrpcTrimmed' = stores'["rest"]
    <3>1. GrpcTrimmed' = [i \in DOMAIN stores'["grpc"] |-> TrimmedTask(stores'["grpc"][i])]
      BY DEF GrpcTrimmed, TrimmedTask
    <3>2. stores["rest"] = [i \in DOMAIN stores["grpc"] |-> TrimmedTask(stores["grpc"][i])]
      BY <2>2 DEF GrpcTrimmed, TrimmedTask
    <3>3. DOMAIN stores'["grpc"] = DOMAIN stores'["rest"]
      BY <1>7 DEF SameIds
    <3>4. \A i \in DOMAIN stores'["grpc"] : TrimmedTask(stores'["grpc"][i]) = stores'["rest"][i]
      <4>1. SUFFICES ASSUME NEW i \in DOMAIN stores'["grpc"]
                     PROVE  TrimmedTask(stores'["grpc"][i]) = stores'["rest"][i]
        OBVIOUS
      <4>2. /\ stores'["grpc"][i] = IF i = id THEN made ELSE stores["grpc"][i]
            /\ stores'["rest"][i] = IF i = id THEN made ELSE stores["rest"][i]
            /\ i = id \/ i \in DOMAIN stores["grpc"]
        BY <1>2, <2>3, <3>3 DEF Apis
      <4>3. QED
        BY <1>3, <3>2, <4>2
    <3>5. stores'["rest"] \in [DOMAIN stores'["rest"] -> ApiTask]
      BY <1>6 DEF TaskTypes, Apis
    <3>6. QED
      BY <3>1, <3>3, <3>4, <3>5
  <2>6. QED
    BY <1>1, <2>2, <2>3, <2>4, <2>5 DEF Apis
<1>9. GrpcDiffersByDefaults'
  <2>1. SUFFICES ASSUME NEW i \in DOMAIN stores'["grpc"]
                 PROVE  /\ stores'["grpc"][i].done => stores'["graphql"][i].done
                        /\ TrimmedTask(stores'["grpc"][i]).title # stores'["graphql"][i].title =>
                             stores'["graphql"][i].title = Empty
    BY DEF GrpcDiffersByDefaults, GrpcTrimmed, TrimmedTask
  <2>2. stores'["graphql"] = WithTask("graphql", id, title)
    BY <1>1 DEF GraphqlCreated
  <2>3. i \in DOMAIN stores["grpc"] /\ i \in DOMAIN stores["graphql"] =>
          /\ stores["grpc"][i].done => stores["graphql"][i].done
          /\ TrimmedTask(stores["grpc"][i]).title # stores["graphql"][i].title =>
               stores["graphql"][i].title = Empty
    BY DEF ApiInv, GrpcDiffersByDefaults, GrpcTrimmed, TrimmedTask
  <2>4. i \in DOMAIN stores'["graphql"]
    BY <1>7 DEF SameIds
  <2>5. CASE i = id /\ stores'["grpc"] = WithTask("grpc", id, title)
    <3>1. stores'["grpc"][i] = made /\ stores'["graphql"][i] = made
      BY <1>2, <2>2, <2>5 DEF Apis
    <3>2. QED
      BY <1>3, <3>1
  <2>6. CASE i # id
    <3>1. /\ stores'["grpc"][i] = stores["grpc"][i] /\ stores'["graphql"][i] = stores["graphql"][i]
          /\ i \in DOMAIN stores["grpc"] /\ i \in DOMAIN stores["graphql"]
      BY <1>2, <1>5, <2>2, <2>4, <2>6 DEF Apis
    <3>2. QED
      BY <2>3, <3>1
  <2>7. stores'["grpc"] = stores["grpc"] => i # id
    BY DEF ApiInv, IdsCount, Apis
  <2>8. QED
    BY <1>5, <2>5, <2>6, <2>7 DEF Apis
<1>10. QED
  BY <1>6, <1>7, <1>8, <1>9 DEF ApiInv

\* What an update with all fields does to a task of any of the APIs: gRPC's title,
\* once trimmed, is the others'.
LEMMA UpdatesAgree ==
    ASSUME NEW title \in ApiTitles, title \notin Blank, NEW done \in BOOLEAN,
           NEW task
    PROVE  /\ Put(task, title, done) = [title |-> trim(title), done |-> done]
           /\ Patched(task, title, done) = [title |-> trim(title), done |-> done]
           /\ GraphqlUpdated(task, title, done) = [title |-> trim(title), done |-> done]
           /\ TrpcUpdated(task, title, done) = [title |-> trim(title), done |-> done]
           /\ GrpcUpdated(task, title, done) = [title |-> title, done |-> done]
<1>1. title # Absent /\ done # Absent /\ title # Empty
  BY TaskApisAssumption DEF Blank
<1>2. QED
  BY <1>1 DEF Put, Patched, GraphqlUpdated, TrpcUpdated, GrpcUpdated

\* An update leaves a task a task.
LEMMA UpdatesAreTyped ==
    ASSUME NEW title \in ApiTitles \cup {Absent}, NEW done \in BOOLEAN \cup {Absent}, NEW task \in ApiTask
    PROVE  /\ Put(task, title, done) \in ApiTask /\ Patched(task, title, done) \in ApiTask
           /\ GraphqlUpdated(task, title, done) \in ApiTask /\ TrpcUpdated(task, title, done) \in ApiTask
           /\ GrpcUpdated(task, title, done) \in ApiTask
<1>1. task.title \in ApiTitles /\ task.done \in BOOLEAN
  BY DEF ApiTask
<1>2. title # Absent => title \in ApiTitles /\ trim(title) \in ApiTitles
  BY Trimming
<1>3. Put(task, title, done) \in ApiTask
  BY <1>2 DEF Put, ApiTask
<1>4. Patched(task, title, done) \in ApiTask
  BY <1>1, <1>2 DEF Patched, ApiTask
<1>5. GrpcUpdated(task, title, done) \in ApiTask
  BY <1>1, <1>2 DEF GrpcUpdated, ApiTask
<1>6. QED
  BY <1>3, <1>4, <1>5 DEF GraphqlUpdated, TrpcUpdated

\* What gRPC's defaults may do to a task that both have: reopen it, or keep a title
\* that GraphQL empties.
LEMMA DefaultsAreAll ==
    ASSUME NEW title \in ApiTitles \cup {Absent}, NEW done \in BOOLEAN \cup {Absent},
           NEW mine \in ApiTask, NEW other \in ApiTask, mine.done => other.done,
           trim(mine.title) # other.title => other.title = Empty
    PROVE  LET m == GrpcUpdated(mine, title, done)
               o == GraphqlUpdated(other, title, done)
           IN  /\ m.done => o.done
               /\ trim(m.title) # o.title => o.title = Empty
<1> DEFINE m == GrpcUpdated(mine, title, done)
           o == GraphqlUpdated(other, title, done)
<1>1. m.done = IF done = Absent THEN FALSE ELSE done
  BY DEF GrpcUpdated
<1>2. o.done = IF done = Absent THEN other.done ELSE done
  BY DEF GraphqlUpdated, Patched
<1>3. m.title = IF title \in {Absent, Empty} THEN mine.title ELSE title
  BY DEF GrpcUpdated
<1>4. o.title = IF title = Absent THEN other.title ELSE trim(title)
  BY DEF GraphqlUpdated, Patched
<1>5. trim(Empty) = Empty
  <2>1. Empty \in ApiTitles
    BY DEF Empty, ApiTitles
  <2>2. QED
    BY <2>1, Trimming
<1> HIDE DEF m, o
<1>6. m.done => o.done
  BY <1>1, <1>2
<1>7. trim(m.title) # o.title => o.title = Empty
  BY <1>3, <1>4, <1>5
<1>8. QED
  BY <1>6, <1>7 DEF m, o

\* update: no id comes or goes, and with all fields there the tasks become the same
\* one, but for gRPC's spaces.
LEMMA UpdateTaskKeeps ==
    ASSUME NEW id, NEW method, NEW title \in ApiTitles \cup {Absent}, NEW done \in BOOLEAN \cup {Absent},
           ApiInv, UpdateTask(id, method, title, done)
    PROVE  ApiInv'
<1> DEFINE byRest == IF method = "PUT" THEN Put(stores["rest"][id], title, done)
                                       ELSE Patched(stores["rest"][id], title, done)
           byGraphql == GraphqlUpdated(stores["graphql"][id], title, done)
           byGrpc == GrpcUpdated(stores["grpc"][id], title, done)
           byTrpc == TrpcUpdated(stores["trpc"][id], title, done)
<1>1. /\ stores'["rest"] = Change("rest", id, byRest)
      /\ stores'["graphql"] = Change("graphql", id, byGraphql)
      /\ stores'["grpc"] = Change("grpc", id, byGrpc)
      /\ stores'["trpc"] = Change("trpc", id, byTrpc)
      /\ complete' = (complete /\ title \notin Blank \cup {Absent} /\ done # Absent)
      /\ spaced' = (spaced \/ title \in {t \in ApiTitles : t.padded})
  BY CallStores DEF UpdateTask
<1>2. \A api \in Apis : \A task :
        /\ DOMAIN Change(api, id, task) = DOMAIN stores[api]
        /\ \A i \in DOMAIN stores[api] : Change(api, id, task)[i] = IF i = id THEN task ELSE stores[api][i]
  BY DEF Change
<1>3. \A api \in Apis : stores[api] \in [DOMAIN stores[api] -> ApiTask]
  BY DEF ApiInv, TaskTypes
<1>4. /\ id \in DOMAIN stores["rest"] => byRest \in ApiTask
      /\ id \in DOMAIN stores["graphql"] => byGraphql \in ApiTask
      /\ id \in DOMAIN stores["grpc"] => byGrpc \in ApiTask
      /\ id \in DOMAIN stores["trpc"] => byTrpc \in ApiTask
  BY <1>3, UpdatesAreTyped DEF Apis
<1>5. \A api \in Apis : \A task :
        (id \in DOMAIN stores[api] => task \in ApiTask) =>
          Change(api, id, task) \in [DOMAIN stores[api] -> ApiTask]
  BY <1>3 DEF Change
<1>6. complete' =>
        /\ title \in ApiTitles /\ title \notin Blank /\ done \in BOOLEAN
        /\ complete /\ ~spaced' => ~spaced /\ trim(title) = title
  BY <1>1, Trimming
<1>7. ASSUME complete'
      PROVE  /\ byRest = [title |-> trim(title), done |-> done]
             /\ byGraphql = [title |-> trim(title), done |-> done]
             /\ byTrpc = [title |-> trim(title), done |-> done]
             /\ byGrpc = [title |-> title, done |-> done]
  BY <1>6, <1>7, UpdatesAgree
<1>8. ASSUME NEW i \in DOMAIN stores["grpc"], id = i, i \in DOMAIN stores["graphql"]
      PROVE  /\ byGrpc.done => byGraphql.done
             /\ trim(byGrpc.title) # byGraphql.title => byGraphql.title = Empty
  <2>1. stores["grpc"][i] \in ApiTask /\ stores["graphql"][i] \in ApiTask
    BY <1>3, <1>8 DEF Apis
  <2>2. /\ stores["grpc"][i].done => stores["graphql"][i].done
        /\ TrimmedTask(stores["grpc"][i]).title # stores["graphql"][i].title =>
             stores["graphql"][i].title = Empty
    BY <1>8 DEF ApiInv, GrpcDiffersByDefaults, GrpcTrimmed, TrimmedTask
  <2>3. TrimmedTask(stores["grpc"][i]).title = trim(stores["grpc"][i].title)
    BY <2>1, TrimmingTasks
  <2>4. QED
    BY <1>8, <2>1, <2>2, <2>3, DefaultsAreAll
<1> HIDE DEF byRest, byGraphql, byGrpc, byTrpc
<1>9. \A a \in Apis : DOMAIN stores'[a] = DOMAIN stores[a] /\ stores'[a] \in [DOMAIN stores[a] -> ApiTask]
  BY <1>1, <1>2, <1>4, <1>5 DEF Apis
<1>10. TaskTypes' /\ SameIds' /\ IdsCount'
  <2>1. TaskTypes'
    BY <1>9 DEF TaskTypes
  <2>2. SameIds'
    BY <1>9 DEF ApiInv, SameIds, Apis
  <2>3. calls \in Nat /\ calls' = calls + 1 /\ \A a \in Apis : DOMAIN stores[a] \subseteq 1 .. calls
    BY DEF ApiInv, IdsCount, UpdateTask, Call
  <2>4. 1 .. calls \subseteq 1 .. calls'
    BY <2>3
  <2>5. QED
    BY <1>9, <2>1, <2>2, <2>3, <2>4 DEF IdsCount
<1>11. SameTasks'
  <2>1. SUFFICES ASSUME complete'
                 PROVE  /\ \A a \in Apis \ {"grpc"} : stores'[a] = stores'["rest"]
                        /\ GrpcTrimmed' = stores'["rest"]
                        /\ spaced' \/ stores'["grpc"] = stores'["rest"]
    BY DEF SameTasks
  <2>2. /\ complete /\ title \in ApiTitles
        /\ \A a \in Apis \ {"grpc"} : stores[a] = stores["rest"]
        /\ GrpcTrimmed = stores["rest"]
        /\ spaced \/ stores["grpc"] = stores["rest"]
    BY <1>1, <1>6, <2>1 DEF ApiInv, SameTasks
  <2>3. \A a, b \in Apis : stores[a] = stores[b] => \A task : Change(a, id, task) = Change(b, id, task)
    BY DEF Change
  <2>4. \A a \in Apis \ {"grpc"} : stores'[a] = stores'["rest"]
    BY <1>1, <1>7, <2>1, <2>2, <2>3 DEF Apis
  <2>5. GrpcTrimmed' = stores'["rest"]
    <3>1. GrpcTrimmed' = [i \in DOMAIN stores'["grpc"] |-> TrimmedTask(stores'["grpc"][i])]
      BY DEF GrpcTrimmed, TrimmedTask
    <3>2. stores["rest"] = [i \in DOMAIN stores["grpc"] |-> TrimmedTask(stores["grpc"][i])]
      BY <2>2 DEF GrpcTrimmed, TrimmedTask
    <3>3. DOMAIN stores'["grpc"] = DOMAIN stores["grpc"] /\ DOMAIN stores'["rest"] = DOMAIN stores["grpc"]
      BY <1>9, <3>2 DEF Apis
    <3>4. TrimmedTask(byGrpc) = byRest
      BY <1>7, <2>1 DEF TrimmedTask
    <3>5. \A i \in DOMAIN stores["grpc"] : TrimmedTask(stores'["grpc"][i]) = stores'["rest"][i]
      <4>1. SUFFICES ASSUME NEW i \in DOMAIN stores["grpc"]
                     PROVE  TrimmedTask(stores'["grpc"][i]) = stores'["rest"][i]
        OBVIOUS
      <4>2. /\ stores'["grpc"][i] = IF i = id THEN byGrpc ELSE stores["grpc"][i]
            /\ stores'["rest"][i] = IF i = id THEN byRest ELSE stores["rest"][i]
        BY <1>1, <1>2, <3>2 DEF Apis
      <4>3. QED
        BY <3>2, <3>4, <4>2
    <3>6. stores'["rest"] \in [DOMAIN stores'["rest"] -> ApiTask]
      BY <1>10 DEF TaskTypes, Apis
    <3>7. QED
      BY <3>1, <3>3, <3>5, <3>6
  <2>6. ~spaced' => stores'["grpc"] = stores'["rest"]
    <3>1. ~spaced' => stores["grpc"] = stores["rest"] /\ byGrpc = byRest
      BY <1>6, <1>7, <2>1, <2>2
    <3>2. QED
      BY <1>1, <2>3, <3>1 DEF Apis
  <2>7. QED
    BY <2>4, <2>5, <2>6
<1>12. GrpcDiffersByDefaults'
  <2>1. SUFFICES ASSUME NEW i \in DOMAIN stores'["grpc"]
                 PROVE  /\ stores'["grpc"][i].done => stores'["graphql"][i].done
                        /\ TrimmedTask(stores'["grpc"][i]).title # stores'["graphql"][i].title =>
                             stores'["graphql"][i].title = Empty
    BY DEF GrpcDiffersByDefaults, GrpcTrimmed, TrimmedTask
  <2>2. i \in DOMAIN stores["grpc"] /\ i \in DOMAIN stores["graphql"]
    BY <1>9 DEF ApiInv, SameIds, Apis
  <2>3. /\ stores'["grpc"][i] = IF i = id THEN byGrpc ELSE stores["grpc"][i]
        /\ stores'["graphql"][i] = IF i = id THEN byGraphql ELSE stores["graphql"][i]
    BY <1>1, <1>2, <2>2 DEF Apis
  <2>4. stores'["grpc"][i] \in ApiTask
    BY <1>9, <2>1 DEF Apis
  <2>5. TrimmedTask(stores'["grpc"][i]).title = trim(stores'["grpc"][i].title)
    BY <2>4, TrimmingTasks
  <2>6. CASE i = id
    BY <1>8, <2>2, <2>3, <2>5, <2>6
  <2>7. CASE i # id
    BY <2>2, <2>3, <2>7 DEF ApiInv, GrpcDiffersByDefaults, GrpcTrimmed, TrimmedTask
  <2>8. QED
    BY <2>6, <2>7
<1>13. QED
  BY <1>10, <1>11, <1>12 DEF ApiInv

\* delete takes the same id from every store.
LEMMA DeleteTaskKeeps ==
    ASSUME NEW id, ApiInv, DeleteTask(id)
    PROVE  ApiInv'
<1>1. /\ \A a \in Apis : stores'[a] = Without(a, id)
      /\ complete' = complete /\ spaced' = spaced /\ calls' = calls + 1
  BY CallStores DEF DeleteTask, Apis, Call
<1>2. \A a \in Apis :
        /\ DOMAIN Without(a, id) = DOMAIN stores[a] \ {id}
        /\ \A i \in DOMAIN stores[a] \ {id} : Without(a, id)[i] = stores[a][i]
  BY DEF Without
<1>3. TaskTypes'
  <2>1. SUFFICES ASSUME NEW a \in Apis PROVE stores'[a] \in [DOMAIN stores'[a] -> ApiTask]
    BY DEF TaskTypes
  <2>2. stores[a] \in [DOMAIN stores[a] -> ApiTask]
    BY DEF ApiInv, TaskTypes
  <2>3. Without(a, id) \in [DOMAIN stores[a] \ {id} -> ApiTask]
    BY <2>2 DEF Without
  <2>4. QED
    BY <1>1, <1>2, <2>3
<1>4. IdsCount'
  <2>1. calls \in Nat /\ \A a \in Apis : DOMAIN stores[a] \subseteq 1 .. calls
    BY DEF ApiInv, IdsCount
  <2>2. 1 .. calls \subseteq 1 .. calls'
    BY <1>1, <2>1
  <2>3. \A a \in Apis : DOMAIN stores'[a] \subseteq 1 .. calls'
    BY <1>1, <1>2, <2>1, <2>2
  <2>4. QED
    BY <1>1, <2>1, <2>3 DEF IdsCount
<1>5. SameIds'
  BY <1>1, <1>2 DEF ApiInv, SameIds, Apis
<1>6. SameTasks'
  <2>1. SUFFICES ASSUME complete'
                 PROVE  /\ \A a \in Apis \ {"grpc"} : stores'[a] = stores'["rest"]
                        /\ GrpcTrimmed' = stores'["rest"]
                        /\ spaced' \/ stores'["grpc"] = stores'["rest"]
    BY DEF SameTasks
  <2>2. /\ \A a \in Apis \ {"grpc"} : stores[a] = stores["rest"]
        /\ stores["rest"] = [i \in DOMAIN stores["grpc"] |-> TrimmedTask(stores["grpc"][i])]
        /\ spaced \/ stores["grpc"] = stores["rest"]
    BY <1>1, <2>1 DEF ApiInv, SameTasks, GrpcTrimmed, TrimmedTask
  <2>3. \A a, b \in Apis : stores[a] = stores[b] => Without(a, id) = Without(b, id)
    BY DEF Without
  <2>4. GrpcTrimmed' = [i \in DOMAIN stores["grpc"] \ {id} |-> TrimmedTask(stores["grpc"][i])]
    <3>1. GrpcTrimmed' = [i \in DOMAIN stores'["grpc"] |-> TrimmedTask(stores'["grpc"][i])]
      BY DEF GrpcTrimmed, TrimmedTask
    <3>2. QED
      BY <1>1, <1>2, <3>1 DEF Apis
  <2>5. Without("rest", id) = [i \in DOMAIN stores["grpc"] \ {id} |-> TrimmedTask(stores["grpc"][i])]
    BY <2>2 DEF Without
  <2>6. QED
    BY <1>1, <2>2, <2>3, <2>4, <2>5 DEF Apis
<1>7. GrpcDiffersByDefaults'
  <2>1. SUFFICES ASSUME NEW i \in DOMAIN stores'["grpc"]
                 PROVE  /\ stores'["grpc"][i].done => stores'["graphql"][i].done
                        /\ TrimmedTask(stores'["grpc"][i]).title # stores'["graphql"][i].title =>
                             stores'["graphql"][i].title = Empty
    BY DEF GrpcDiffersByDefaults, GrpcTrimmed, TrimmedTask
  <2>2. i \in DOMAIN stores["grpc"] \ {id} /\ i \in DOMAIN stores["graphql"] \ {id}
    BY <1>1, <1>2 DEF ApiInv, SameIds, Apis
  <2>3. stores'["grpc"][i] = stores["grpc"][i] /\ stores'["graphql"][i] = stores["graphql"][i]
    BY <1>1, <1>2, <2>2 DEF Apis
  <2>4. QED
    BY <2>2, <2>3 DEF ApiInv, GrpcDiffersByDefaults, GrpcTrimmed, TrimmedTask
<1>8. QED
  BY <1>3, <1>4, <1>5, <1>6, <1>7 DEF ApiInv

\* Stores with the same tasks, or the same but for spaces, list the same ids.
LEMMA ApiInvSuffices == ApiInv => ApisAgree
<1> SUFFICES ASSUME ApiInv PROVE ApisAgree
  OBVIOUS
<1>1. ASSUME complete PROVE SameWhenComplete
  <2>1. /\ \A a \in Apis \ {"grpc"} : stores[a] = stores["rest"]
        /\ GrpcTrimmed = stores["rest"]
        /\ spaced \/ stores["grpc"] = stores["rest"]
    BY <1>1 DEF ApiInv, SameTasks
  <2>2. \A a \in Apis : \A done : Matching(a, done) = Matching("rest", done)
    <3>1. \A i \in DOMAIN stores["grpc"] :
            stores["grpc"][i] \in ApiTask /\ stores["rest"][i] = TrimmedTask(stores["grpc"][i])
      BY <2>1 DEF ApiInv, TaskTypes, GrpcTrimmed, TrimmedTask, Apis
    <3>2. \A i \in DOMAIN stores["grpc"] : stores["rest"][i].done = stores["grpc"][i].done
      BY <3>1, TrimmingTasks
    <3>3. \A done : Matching("grpc", done) = Matching("rest", done)
      BY <3>2 DEF ApiInv, SameIds, Matching
    <3>4. \A a \in Apis \ {"grpc"} : \A done : Matching(a, done) = Matching("rest", done)
      BY <2>1 DEF Matching
    <3>5. QED
      BY <3>3, <3>4
  <2>3. \A done \in BOOLEAN :
          /\ GraphqlListed(done) = RestListed(done) /\ GrpcListed(done) = RestListed(done)
          /\ TrpcListed(done) = RestListed(done)
    BY <2>2, TaskApisAssumption DEF GraphqlListed, GrpcListed, TrpcListed, RestListed, Apis
  <2>4. /\ GraphqlListed(Absent) = RestListed(Absent) /\ TrpcListed(Absent) = RestListed(Absent)
        /\ GrpcListed(Absent) = RestListed(FALSE)
    BY <2>1, <2>2, TaskApisAssumption DEF GraphqlListed, GrpcListed, TrpcListed, RestListed, Apis
  <2>5. QED
    BY <2>1, <2>3, <2>4 DEF SameWhenComplete
<1>2. QED
  BY <1>1 DEF ApisAgree, ApiInv, SameIds

\* The four task APIs hold the same data (ApisAgree): as long as calls are complete,
\* the same tasks and lists but for the spaces around gRPC's titles and its list
\* without a filter; and always the same ids where titles are not blank, and in
\* gRPC's tasks no difference from GraphQL's but those its defaults make, whatever
\* titles there are and however long the sequence of calls.
THEOREM TheApisAgree == ApiSpec => []ApisAgree
<1>1. ApiInit => ApiInv
  BY ApiStarts
<1>2. ApiInv /\ [ApiNext]_apiVars => ApiInv'
  <2>1. ASSUME ApiInv, ApiNext PROVE ApiInv'
    BY <2>1, CreateTaskKeeps, UpdateTaskKeeps, DeleteTaskKeeps DEF ApiNext
  <2>2. ASSUME ApiInv, UNCHANGED apiVars PROVE ApiInv'
    BY <2>2 DEF ApiInv, TaskTypes, IdsCount, SameTasks, SameIds, GrpcDiffersByDefaults, GrpcTrimmed, apiVars
  <2>3. QED
    BY <2>1, <2>2
<1>3. QED
  BY <1>1, <1>2, ApiInvSuffices, PTL DEF ApiSpec

-----------------------------------------------------------------------------
(* Webhooks.                                                                *)

EventTypes == {"task.created", "task.updated", "task.completed"}
Announcement == [type : EventTypes, task : HookTasks, done : BOOLEAN]
Delivery == [event : 1 .. MaxFired, url : Urls, sender : {"waits", "gaveUp"}, arrived : BOOLEAN]

HookTypes ==
    /\ subscriptions \subseteq Urls
    /\ DOMAIN hookDone \subseteq HookTasks /\ hookDone \in [DOMAIN hookDone -> BOOLEAN]
    /\ fired \in Seq(Announcement) /\ Len(fired) <= MaxFired
    /\ deliveries \subseteq Delivery
    /\ processedIds \in [Receivers -> SUBSET (1 .. MaxFired)]

\* A receiver has processed the events whose ids it remembers, once each.
HandledAsRemembered ==
    handled = [r \in Receivers |-> [e \in 1 .. MaxFired |-> IF e \in processedIds[r] THEN 1 ELSE 0]]

\* The events tell the store: one that says a task is done, when it is not now, was
\* followed by one that says it is not.
EventsTellTheStore ==
    \A i \in DOMAIN fired :
        /\ fired[i].task \in DOMAIN hookDone
        /\ fired[i].type = "task.completed" => fired[i].done
        /\ (fired[i].done /\ ~hookDone[fired[i].task]) =>
             \E k \in DOMAIN fired : k >= i /\ fired[k].task = fired[i].task /\ ~fired[k].done

HookInv == HookTypes /\ HandledAsRemembered /\ EventsTellTheStore /\ CompletedOncePerCompletion

\* Nothing was fired, handled or remembered.
LEMMA HookStarts == HookInit => HookInv
<1> SUFFICES ASSUME HookInit PROVE HookInv
  OBVIOUS
<1>1. fired = <<>> /\ DOMAIN fired = {} /\ Len(fired) = 0
  BY DEF HookInit
<1>2. HookTypes
  BY <1>1, WebhooksAssumption DEF HookInit, HookTypes
<1>3. HandledAsRemembered
  BY DEF HookInit, HandledAsRemembered
<1>4. QED
  BY <1>1, <1>2, <1>3 DEF HookInv, EventsTellTheStore, CompletedOncePerCompletion

\* What firing does: one more event, which the subscribed URLs are sent.
LEMMA FireWebhook ==
    ASSUME NEW type \in EventTypes, NEW task \in HookTasks, NEW done \in BOOLEAN,
           HookTypes, fireWebhook(type, task, done)
    PROVE  /\ fired' \in Seq(Announcement) /\ Len(fired') = Len(fired) + 1 /\ Len(fired') <= MaxFired
           /\ Len(fired) \in Nat /\ DOMAIN fired = 1 .. Len(fired) /\ DOMAIN fired' = 1 .. Len(fired) + 1
           /\ \A i \in 1 .. Len(fired) : fired'[i] = fired[i]
           /\ fired'[Len(fired) + 1] = [type |-> type, task |-> task, done |-> done]
           /\ deliveries' \subseteq Delivery
<1> DEFINE event == [type |-> type, task |-> task, done |-> done]
<1>1. event \in Announcement /\ fired \in Seq(Announcement) /\ Len(fired) \in Nat /\ MaxFired \in Nat
  BY WebhooksAssumption DEF Announcement, HookTypes
<1>2. fired' = Append(fired, event) /\ Len(fired) < MaxFired
  BY DEF fireWebhook
<1>3. /\ fired' \in Seq(Announcement) /\ Len(fired') = Len(fired) + 1
      /\ DOMAIN fired = 1 .. Len(fired) /\ DOMAIN fired' = 1 .. Len(fired) + 1
      /\ \A i \in 1 .. Len(fired) : fired'[i] = fired[i]
      /\ fired'[Len(fired) + 1] = event
  <2> HIDE DEF event
  <2> QED
    BY <1>1, <1>2
<1>4. Len(fired') <= MaxFired
  BY <1>1, <1>2, <1>3
<1>5. Len(fired) + 1 \in 1 .. MaxFired
  BY <1>1, <1>2
<1>6. \A u \in subscriptions :
         [event |-> Len(fired) + 1, url |-> u, sender |-> "waits", arrived |-> FALSE] \in Delivery
  BY <1>5 DEF HookTypes, Delivery
<1>7. deliveries' \subseteq Delivery
  BY <1>6 DEF fireWebhook, HookTypes
<1>8. QED
  BY <1>1, <1>3, <1>4, <1>7

\* POST: the task is there and not done, as its event says.
LEMMA PostTaskKeeps ==
    ASSUME NEW task \in HookTasks, HookInv, PostTask(task)
    PROVE  HookInv'
<1> DEFINE n == Len(fired)
<1>1. HookTypes /\ fireWebhook("task.created", task, FALSE)
  BY DEF HookInv, PostTask
<1>2. /\ fired' \in Seq(Announcement) /\ Len(fired') <= MaxFired
      /\ n \in Nat /\ DOMAIN fired = 1 .. n /\ DOMAIN fired' = 1 .. n + 1
      /\ \A i \in 1 .. n : fired'[i] = fired[i]
      /\ fired'[n + 1] = [type |-> "task.created", task |-> task, done |-> FALSE]
      /\ deliveries' \subseteq Delivery
  BY <1>1, FireWebhook DEF EventTypes
<1>3. /\ task \notin DOMAIN hookDone
      /\ DOMAIN hookDone' = DOMAIN hookDone \cup {task}
      /\ \A t \in DOMAIN hookDone : hookDone'[t] = hookDone[t]
      /\ hookDone'[task] = FALSE
      /\ hookDone' \in [DOMAIN hookDone' -> BOOLEAN]
  BY <1>1 DEF PostTask, HookTypes
<1>4. HookTypes'
  BY <1>1, <1>2, <1>3 DEF PostTask, HookTypes
<1>5. HandledAsRemembered'
  BY DEF HookInv, HandledAsRemembered, PostTask
<1> HIDE DEF n
<1>6. EventsTellTheStore'
  <2>1. ASSUME NEW i \in 1 .. n + 1
        PROVE  /\ fired'[i].task \in DOMAIN hookDone'
               /\ fired'[i].type = "task.completed" => fired'[i].done
               /\ (fired'[i].done /\ ~hookDone'[fired'[i].task]) =>
                    \E k \in 1 .. n + 1 : k >= i /\ fired'[k].task = fired'[i].task /\ ~fired'[k].done
    <3>1. CASE i = n + 1
      BY <1>2, <1>3, <3>1
    <3>2. CASE i \in 1 .. n
      <4>1. /\ fired'[i] = fired[i] /\ fired[i].task \in DOMAIN hookDone
            /\ fired[i].type = "task.completed" => fired[i].done
            /\ (fired[i].done /\ ~hookDone[fired[i].task]) =>
                 \E k \in 1 .. n : k >= i /\ fired[k].task = fired[i].task /\ ~fired[k].done
        BY <1>2, <3>2 DEF HookInv, EventsTellTheStore
      <4>2. 1 .. n \subseteq 1 .. n + 1
        BY <1>2
      <4>3. QED
        BY <4>1, <4>2, <1>2, <1>3
    <3>3. QED
      BY <3>1, <3>2, <1>2
  <2>2. QED
    BY <2>1, <1>2 DEF EventsTellTheStore
<1>7. CompletedOncePerCompletion'
  <2>1. ASSUME NEW i \in 1 .. n + 1, NEW j \in 1 .. n + 1, i < j, fired'[i].task = fired'[j].task,
               fired'[i].type = "task.completed", fired'[j].type = "task.completed"
        PROVE  \E k \in i .. j : fired'[k].task = fired'[i].task /\ ~fired'[k].done
    <3>1. i \in 1 .. n /\ j \in 1 .. n
      BY <1>2, <2>1
    <3>2. \E k \in i .. j : fired[k].task = fired[i].task /\ ~fired[k].done
      BY <1>2, <2>1, <3>1 DEF HookInv, CompletedOncePerCompletion
    <3>3. i .. j \subseteq 1 .. n
      BY <3>1, <1>2
    <3>4. QED
      BY <3>1, <3>2, <3>3, <1>2
  <2>2. QED
    BY <2>1, <1>2 DEF CompletedOncePerCompletion
<1>8. QED
  BY <1>4, <1>5, <1>6, <1>7 DEF HookInv

\* PATCH: a completion is fired for a task that is not done, so the completion
\* before it was followed by an event that reopened the task.
LEMMA PatchTaskKeeps ==
    ASSUME NEW task \in DOMAIN hookDone, NEW done \in BOOLEAN \cup {NotSent}, HookInv,
           PatchTask(task, done)
    PROVE  HookInv'
<1>0. task \in HookTasks /\ hookDone[task] \in BOOLEAN /\ HookTypes
  BY DEF HookInv, HookTypes
<1>a. PICK n : n = Len(fired)
  OBVIOUS
<1>b. PICK new \in BOOLEAN, type \in EventTypes :
        /\ type = "task.completed" => new /\ ~hookDone[task]
        /\ hookDone' = [hookDone EXCEPT ![task] = new]
        /\ fireWebhook(type, task, new)
  <2> DEFINE nw == IF done = NotSent THEN hookDone[task] ELSE done
             ty == IF nw /\ ~hookDone[task] THEN "task.completed" ELSE "task.updated"
  <2>1. nw \in BOOLEAN /\ ty \in EventTypes
    <3>1. nw \in BOOLEAN
      BY <1>0
    <3> HIDE DEF nw
    <3>2. ty \in EventTypes
      BY DEF EventTypes
    <3>3. QED
      BY <3>1, <3>2
  <2>2. hookDone' = [hookDone EXCEPT ![task] = nw] /\ fireWebhook(ty, task, nw)
    BY DEF PatchTask
  <2>3. ty = "task.completed" => nw /\ ~hookDone[task]
    OBVIOUS
  <2> HIDE DEF nw, ty
  <2>4. QED
    BY <2>1, <2>2, <2>3
<1>2. /\ fired' \in Seq(Announcement) /\ Len(fired') <= MaxFired
      /\ n \in Nat /\ DOMAIN fired = 1 .. n /\ DOMAIN fired' = 1 .. n + 1
      /\ \A i \in 1 .. n : fired'[i] = fired[i]
      /\ fired'[n + 1] = [type |-> type, task |-> task, done |-> new]
      /\ deliveries' \subseteq Delivery
  BY <1>0, <1>a, <1>b, FireWebhook
<1>2a. fired'[n + 1].type = type /\ fired'[n + 1].task = task /\ fired'[n + 1].done = new
  BY <1>2
<1>3. /\ DOMAIN hookDone' = DOMAIN hookDone
      /\ \A t \in DOMAIN hookDone : t # task => hookDone'[t] = hookDone[t]
      /\ hookDone'[task] = new
      /\ hookDone' \in [DOMAIN hookDone' -> BOOLEAN]
  BY <1>0, <1>b DEF HookTypes
<1>4. HookTypes'
  BY <1>0, <1>2, <1>3 DEF PatchTask, HookTypes
<1>5. HandledAsRemembered'
  BY DEF HookInv, HandledAsRemembered, PatchTask
<1>6. EventsTellTheStore'
  <2>1. ASSUME NEW i \in 1 .. n + 1
        PROVE  /\ fired'[i].task \in DOMAIN hookDone'
               /\ fired'[i].type = "task.completed" => fired'[i].done
               /\ (fired'[i].done /\ ~hookDone'[fired'[i].task]) =>
                    \E k \in 1 .. n + 1 : k >= i /\ fired'[k].task = fired'[i].task /\ ~fired'[k].done
    <3>0. n + 1 \in 1 .. n + 1 /\ n + 1 >= i /\ 1 .. n \subseteq 1 .. n + 1
      BY <1>2
    <3>1. CASE i = n + 1
      BY <1>2a, <1>3, <1>b, <3>1
    <3>2. CASE i \in 1 .. n
      <4>1. /\ fired'[i] = fired[i] /\ fired[i].task \in DOMAIN hookDone
            /\ fired[i].type = "task.completed" => fired[i].done
            /\ (fired[i].done /\ ~hookDone[fired[i].task]) =>
                 \E k \in 1 .. n : k >= i /\ fired[k].task = fired[i].task /\ ~fired[k].done
        BY <1>2, <3>2 DEF HookInv, EventsTellTheStore
      <4>2. CASE fired[i].task = task
        BY <4>1, <4>2, <3>0, <1>2a, <1>3
      <4>3. CASE fired[i].task # task
        BY <4>1, <4>3, <3>0, <1>2, <1>3
      <4>4. QED
        BY <4>2, <4>3
    <3>3. QED
      BY <3>1, <3>2, <1>2
  <2>2. QED
    BY <2>1, <1>2 DEF EventsTellTheStore
<1>7. CompletedOncePerCompletion'
  <2>1. ASSUME NEW i \in 1 .. n + 1, NEW j \in 1 .. n + 1, i < j, fired'[i].task = fired'[j].task,
               fired'[i].type = "task.completed", fired'[j].type = "task.completed"
        PROVE  \E k \in i .. j : fired'[k].task = fired'[i].task /\ ~fired'[k].done
    <3>1. i \in 1 .. n /\ fired'[i] = fired[i] /\ i .. j \subseteq 1 .. n + 1
      BY <1>2, <2>1
    <3>2. CASE j \in 1 .. n
      <4>1. i .. j \subseteq 1 .. n /\ fired'[j] = fired[j]
        BY <3>1, <3>2, <1>2
      <4>2. \E k \in i .. j : fired[k].task = fired[i].task /\ ~fired[k].done
        BY <1>2, <2>1, <3>1, <3>2, <4>1 DEF HookInv, CompletedOncePerCompletion
      <4>3. QED
        BY <3>1, <4>1, <4>2, <1>2
    <3>3. CASE j = n + 1
      <4>1. fired[i].task = task /\ ~hookDone[task] /\ fired[i].type = "task.completed"
        BY <2>1, <3>1, <3>3, <1>2a, <1>b
      <4>2. \E k \in 1 .. n : k >= i /\ fired[k].task = fired[i].task /\ ~fired[k].done
        BY <3>1, <4>1, <1>2 DEF HookInv, EventsTellTheStore
      <4>3. \A k \in 1 .. n : k >= i => k \in i .. j
        BY <3>1, <3>3, <1>2
      <4>4. QED
        BY <3>1, <4>2, <4>3, <1>2
    <3>4. QED
      BY <3>2, <3>3, <1>2
  <2>2. QED
    BY <2>1, <1>2 DEF CompletedOncePerCompletion
<1>8. QED
  BY <1>4, <1>5, <1>6, <1>7 DEF HookInv

\* Steps that fire nothing and process nothing.
LEMMA HookQuiet ==
    ASSUME HookInv, UNCHANGED <<hookDone, fired, processedIds, handled>>,
           subscriptions' \subseteq Urls, deliveries' \subseteq Delivery
    PROVE  HookInv'
  BY DEF HookInv, HookTypes, HandledAsRemembered, EventsTellTheStore, CompletedOncePerCompletion

\* The receiver processes what it does not remember, and remembers it.
LEMMA ReceiveWebhookKeeps ==
    ASSUME NEW d \in deliveries, HookInv, ReceiveWebhook(d)
    PROVE  HookInv'
<1> DEFINE r == ReceiverOf[d.url]
<1>1. d \in Delivery /\ d.event \in 1 .. MaxFired /\ d.url \in Urls
  BY DEF HookInv, HookTypes, Delivery
<1>2. r \in Receivers
  BY <1>1, WebhooksAssumption DEF Receivers, Range
<1>3. deliveries' \subseteq Delivery
  <2>1. [d EXCEPT !.arrived = TRUE] \in Delivery
    BY <1>1 DEF Delivery
  <2>2. QED
    BY <2>1 DEF ReceiveWebhook, HookInv, HookTypes
<1>4. processedIds' \in [Receivers -> SUBSET (1 .. MaxFired)] /\ HandledAsRemembered'
  <2>1. CASE d.event \in processedIds[r]
    BY <2>1 DEF ReceiveWebhook, HookInv, HookTypes, HandledAsRemembered
  <2>2. CASE d.event \notin processedIds[r]
    <3>1. /\ processedIds' = [processedIds EXCEPT ![r] = @ \cup {d.event}]
          /\ handled' = [handled EXCEPT ![r][d.event] = @ + 1]
      BY <2>2 DEF ReceiveWebhook
    <3>a. PICK e : e = d.event
      OBVIOUS
    <3>b. PICK s : s = r
      OBVIOUS
    <3>c. /\ e \in 1 .. MaxFired /\ s \in Receivers /\ e \notin processedIds[s]
          /\ processedIds' = [processedIds EXCEPT ![s] = @ \cup {e}]
          /\ handled' = [handled EXCEPT ![s][e] = @ + 1]
      BY <1>1, <1>2, <2>2, <3>1, <3>a, <3>b
    <3> HIDE DEF r
    <3>2. processedIds' \in [Receivers -> SUBSET (1 .. MaxFired)]
      BY <3>c DEF HookInv, HookTypes
    <3>3. /\ \A q \in Receivers : q # s => processedIds'[q] = processedIds[q] /\ handled'[q] = handled[q]
          /\ processedIds'[s] = processedIds[s] \cup {e}
          /\ handled'[s] = [handled[s] EXCEPT ![e] = @ + 1]
          /\ handled' = [q \in Receivers |-> handled'[q]]
      BY <3>c DEF HookInv, HookTypes, HandledAsRemembered
    <3>4. handled'[s] = [x \in 1 .. MaxFired |-> IF x \in processedIds'[s] THEN 1 ELSE 0]
      <4>1. handled[s] = [x \in 1 .. MaxFired |-> IF x \in processedIds[s] THEN 1 ELSE 0]
        BY <3>c DEF HookInv, HandledAsRemembered
      <4>2. handled[s][e] = 0 /\ 0 + 1 = 1
        BY <3>c, <4>1
      <4>3. handled'[s] = [handled[s] EXCEPT ![e] = 1]
        BY <3>3, <4>2
      <4>4. QED
        BY <3>3, <3>c, <4>1, <4>3
    <3>6. \A q \in Receivers : handled'[q] = [x \in 1 .. MaxFired |-> IF x \in processedIds'[q] THEN 1 ELSE 0]
      BY <3>3, <3>4 DEF HookInv, HandledAsRemembered
    <3>7. HandledAsRemembered'
      BY <3>3, <3>6 DEF HandledAsRemembered
    <3>5. QED
      BY <3>2, <3>7
  <2>3. QED
    BY <2>1, <2>2
<1>5. QED
  BY <1>3, <1>4 DEF ReceiveWebhook, HookInv, HookTypes, EventsTellTheStore, CompletedOncePerCompletion

\* A delivery that ends changes neither store nor receiver.
LEMMA DeliveryEndsKeeps ==
    ASSUME NEW d \in deliveries, HookInv, DeliveryEnds(d)
    PROVE  HookInv'
<1>1. subscriptions' \subseteq Urls /\ deliveries' \subseteq Delivery
  BY DEF DeliveryEnds, HookInv, HookTypes
<1>2. QED
  BY <1>1, HookQuiet DEF DeliveryEnds

\* Nor does one that the sender gives up.
LEMMA DeliveryTimesOutKeeps ==
    ASSUME NEW d \in deliveries, HookInv, DeliveryTimesOut(d)
    PROVE  HookInv'
<1>1. d \in Delivery
  BY DEF HookInv, HookTypes
<1>2. [d EXCEPT !.sender = "gaveUp"] \in Delivery
  BY <1>1 DEF Delivery
<1>3. subscriptions' \subseteq Urls /\ deliveries' \subseteq Delivery
  BY <1>2 DEF DeliveryTimesOut, HookInv, HookTypes
<1>4. QED
  BY <1>3, HookQuiet DEF DeliveryTimesOut

\* A restart forgets the ids together with the life they belong to.
LEMMA ReceiverRestartsKeeps ==
    ASSUME NEW r \in Receivers, HookInv, ReceiverRestarts(r)
    PROVE  HookInv'
<1>1. processedIds' \in [Receivers -> SUBSET (1 .. MaxFired)] /\ HandledAsRemembered'
  BY DEF ReceiverRestarts, HookInv, HookTypes, HandledAsRemembered
<1>2. QED
  BY <1>1 DEF ReceiverRestarts, HookInv, HookTypes, EventsTellTheStore, CompletedOncePerCompletion

\* Subscribing changes who is sent the events to come.
LEMMA SubscriptionsKeep ==
    ASSUME NEW url \in Urls, HookInv, HookSubscribe(url) \/ HookUnsubscribe(url)
    PROVE  HookInv'
<1>1. subscriptions' \subseteq Urls /\ deliveries' \subseteq Delivery
  BY DEF HookSubscribe, HookUnsubscribe, HookInv, HookTypes
<1>2. QED
  BY <1>1, HookQuiet DEF HookSubscribe, HookUnsubscribe

\* A completion is announced once, and a receiver processes an event once in its life,
\* for all tasks, URLs and receivers, in whatever order deliveries arrive, are given up
\* or repeated.
THEOREM WebhooksKeepPromises == HookSpec => []WebhookPromises
<1>1. HookInit => HookInv
  BY HookStarts
<1>2. HookInv /\ [HookNext]_hookVars => HookInv'
  <2>1. ASSUME HookInv, HookNext PROVE HookInv'
    BY <2>1, SubscriptionsKeep, PostTaskKeeps, PatchTaskKeeps, ReceiveWebhookKeeps, DeliveryEndsKeeps,
       DeliveryTimesOutKeeps, ReceiverRestartsKeeps DEF HookNext
  <2>2. ASSUME HookInv, UNCHANGED hookVars PROVE HookInv'
    BY <2>2 DEF HookInv, HookTypes, HandledAsRemembered, EventsTellTheStore, CompletedOncePerCompletion,
                hookVars
  <2>3. QED
    BY <2>1, <2>2
<1>3. HookInv => WebhookPromises
  BY DEF HookInv, HandledAsRemembered, WebhookPromises, ProcessedOnce
<1>4. QED
  BY <1>1, <1>2, <1>3, PTL DEF HookSpec

-----------------------------------------------------------------------------
(* The chat server.                                                         *)

\* What has been said after the first j things.
Since(all, j) == SubSeq(all, j + 1, Len(all))

\* What a socket has heard and will hear.
Whole(h, t) == h \o t

\* Appending to the second part appends to the whole.
LEMMA AppendBehind ==
    ASSUME NEW S, NEW h \in Seq(S), NEW t \in Seq(S), NEW m \in S
    PROVE  h \o Append(t, m) = Append(h \o t, m)
  OBVIOUS

\* One more thing said: it goes behind what is on the way to a socket, and behind
\* what has been said since the socket joined.
LEMMA OneMoreSaid ==
    ASSUME NEW S, NEW h \in Seq(S), NEW t \in Seq(S), NEW all \in Seq(S), NEW m \in S,
           NEW j \in 0 .. Len(all)
    PROVE  Whole(h, t) = Since(all, j) => Whole(h, Append(t, m)) = Since(Append(all, m), j)
<1> DEFINE more == Append(all, m)
<1> DEFINE n == Len(all)
<1>1. n \in Nat /\ j \in Nat /\ j <= n
  BY LenProperties
<1>2. <<m>> \in Seq(S) /\ Len(<<m>>) = 1 /\ <<m>>[1] = m
  OBVIOUS
<1>3. more \in Seq(S) /\ Len(more) = n + 1 /\ more[n + 1] = m
  BY AppendProperties
<1>4. more = all \o <<m>>
  BY AppendIsConcat
<1>5. h \o Append(t, m) = Append(h \o t, m)
  BY AppendBehind
<1>6. SubSeq(more, j + 1, n) = SubSeq(all, j + 1, n)
  <2>1. CASE j = n
    <3>1. n < j + 1 /\ j + 1 \in Int /\ n \in Int
      BY <1>1, <2>1
    <3> HIDE DEF more, n
    <3>2. QED
      BY <3>1, SubSeqEmpty
  <2>2. CASE j < n
    <3>1. j + 1 \in 1 .. n /\ n \in 1 .. n
      BY <1>1, <2>2
    <3>2. QED
      BY <3>1, <1>2, <1>4, SubSeqOfConcat1
  <2>3. QED
    BY <1>1, <2>1, <2>2
<1>7. SubSeq(more, j + 1, n + 1) = SubSeq(more, j + 1, n) \o <<m>>
  <2>1. j + 1 \in 1 .. Len(more) /\ n + 1 \in j + 1 .. Len(more) /\ (n + 1) - 1 = n
    BY <1>1, <1>3
  <2> HIDE DEF more, n
  <2>2. SubSeq(more, j + 1, n + 1) = SubSeq(more, j + 1, (n + 1) - 1) \o <<more[n + 1]>>
    BY <2>1, <1>3, SubSeqRecursiveSecond
  <2>3. QED
    BY <2>1, <2>2, <1>3
<1>8. Append(SubSeq(all, j + 1, n), m) = SubSeq(all, j + 1, n) \o <<m>>
  <2>1. \A i \in j + 1 .. n : all[i] \in S
    BY <1>1, ElementOfSeq
  <2>2. SubSeq(all, j + 1, n) \in Seq(S)
    BY <1>1, <2>1, SubSeqProperties
  <2>3. PICK u \in Seq(S) : u = SubSeq(all, j + 1, n)
    BY <2>2
  <2>4. Append(u, m) = u \o <<m>>
    BY AppendIsConcat
  <2>5. QED
    BY <2>3, <2>4
<1> HIDE DEF more, n
<1>9. QED
  BY <1>3, <1>5, <1>6, <1>7, <1>8 DEF more, n, Whole, Since

\* The first thing on the way to a socket arrives.
LEMMA OneArrives ==
    ASSUME NEW S, NEW h \in Seq(S), NEW t \in Seq(S), t # <<>>
    PROVE  /\ Append(h, Head(t)) \in Seq(S) /\ Tail(t) \in Seq(S)
           /\ Append(h, Head(t)) \o Tail(t) = h \o t
<1>1. Head(t) \in S /\ Tail(t) \in Seq(S)
  BY HeadTailProperties
<1>2. <<Head(t)>> \in Seq(S) /\ Append(h, Head(t)) \in Seq(S)
  BY <1>1
<1>3. Append(h, Head(t)) = h \o <<Head(t)>>
  BY <1>1, AppendIsConcat
<1>4. <<Head(t)>> \o Tail(t) = t
  <2>1. Len(t) \in Nat \ {0}
    BY EmptySeq
  <2>2. 1 \in 1 .. Len(t) /\ Len(t) \in 1 .. Len(t) /\ 1 + 1 = 2
    BY <2>1
  <2>3. SubSeq(t, 1, Len(t)) = <<t[1]>> \o SubSeq(t, 1 + 1, Len(t))
    BY <2>2, SubSeqRecursiveFirst
  <2>4. SubSeq(t, 1, Len(t)) = t /\ Tail(t) = SubSeq(t, 2, Len(t)) /\ Head(t) = t[1]
    BY SubSeqFull, TailIsSubSeq
  <2>5. QED
    BY <2>2, <2>3, <2>4
<1>5. QED
  BY <1>1, <1>2, <1>3, <1>4, ConcatAssociative

Message == [kind : {"joined", "chat", "left"}, by : Names \cup {Anonymous}]

ChatTypes ==
    /\ readyState \in [Sockets -> {"none", "open", "closing"}]
    /\ DOMAIN names \subseteq Sockets /\ names \in [DOMAIN names -> Names]
    /\ said \in Seq(Message)
    /\ sent \in [Sockets -> Seq(Message)] /\ heard \in [Sockets -> Seq(Message)]
    /\ joinedAt \in [Sockets -> Nat] /\ \A s \in Sockets : joinedAt[s] <= Len(said)

\* Nothing is left of a socket that is not connected.
GoneIsGone ==
    \A s \in Sockets :
        readyState[s] = "none" => s \notin DOMAIN names /\ sent[s] = <<>> /\ heard[s] = <<>>

ChatInv == ChatTypes /\ GoneIsGone /\ OneConversation

\* What OneConversation says of one socket.
Hears(s) ==
    heard[s] \o sent[s] =
        IF s \in DOMAIN names THEN SubSeq(said, joinedAt[s] + 1, Len(said)) ELSE <<>>

\* Nobody has joined and nothing was said.
LEMMA ChatStarts == ChatInit => ChatInv
<1> SUFFICES ASSUME ChatInit PROVE ChatInv
  OBVIOUS
<1>1. <<>> \in Seq(Message) /\ Len(<<>>) = 0 /\ <<>> \o <<>> = <<>> /\ DOMAIN <<>> = {}
  BY EmptySeq, ConcatEmptySeq
<1>2. ChatTypes
  BY <1>1 DEF ChatInit, ChatTypes
<1>3. GoneIsGone
  BY <1>1 DEF ChatInit, GoneIsGone
<1>4. OneConversation
  BY <1>1 DEF ChatInit, OneConversation
<1>5. QED
  BY <1>2, <1>3, <1>4 DEF ChatInv

\* What a socket is called is a name or "anonymous".
LEMMA NamesAreNames == ChatInv => \A s \in Sockets : NameOf(s) \in Names \cup {Anonymous}
  BY DEF ChatInv, ChatTypes, NameOf

\* Something is said to those of `to' that are open: they hear it, and the others
\* what they heard before.
LEMMA SayKeeps ==
    ASSUME NEW m \in Message, NEW to, ChatInv,
           said' = Append(said, m),
           NEW s \in Sockets, s \in to => sent'[s] = Append(sent[s], m),
           s \notin to => sent'[s] = sent[s],
           heard'[s] = heard[s], joinedAt'[s] = joinedAt[s]
    PROVE  /\ s \in to /\ s \in DOMAIN names /\ Hears(s) =>
                heard'[s] \o sent'[s] = SubSeq(said', joinedAt'[s] + 1, Len(said'))
           /\ sent'[s] \in Seq(Message)
<1>1. /\ heard[s] \in Seq(Message) /\ sent[s] \in Seq(Message) /\ said \in Seq(Message)
      /\ joinedAt[s] \in Nat /\ joinedAt[s] <= Len(said) /\ Len(said) \in Nat
  BY DEF ChatInv, ChatTypes
<1>2. joinedAt[s] \in 0 .. Len(said)
  BY <1>1
<1>3. ASSUME s \in to, s \in DOMAIN names, Hears(s)
      PROVE  heard'[s] \o sent'[s] = SubSeq(said', joinedAt'[s] + 1, Len(said'))
  <2>1. heard[s] \o sent[s] = SubSeq(said, joinedAt[s] + 1, Len(said))
    BY <1>3 DEF Hears
  <2>2. heard[s] \o Append(sent[s], m)
          = SubSeq(Append(said, m), joinedAt[s] + 1, Len(Append(said, m)))
    <3>1. PICK h \in Seq(Message), t \in Seq(Message), all \in Seq(Message), j \in Nat :
            h = heard[s] /\ t = sent[s] /\ all = said /\ j = joinedAt[s]
      BY <1>1, <1>2
    <3>2. h \o t = SubSeq(all, j + 1, Len(all))
      BY <2>1, <3>1
    <3>a. j \in 0 .. Len(all)
      BY <1>2, <3>1
    <3>3. h \o Append(t, m) = SubSeq(Append(all, m), j + 1, Len(Append(all, m)))
      <4>1. Whole(h, t) = Since(all, j) => Whole(h, Append(t, m)) = Since(Append(all, m), j)
        BY <3>a, OneMoreSaid
      <4>2. QED
        BY <3>2, <4>1 DEF Whole, Since
    <3>4. QED
      BY <3>1, <3>3
  <2>3. QED
    BY <1>3, <2>2
<1>4. sent'[s] \in Seq(Message)
  BY <1>1, AppendProperties
<1>5. QED
  BY <1>3, <1>4

\* Saying something keeps the types.
LEMMA SaidGrows ==
    ASSUME NEW m \in Message, ChatInv, said' = Append(said, m)
    PROVE  /\ said' \in Seq(Message) /\ Len(said) \in Nat /\ Len(said') = Len(said) + 1
           /\ \A s \in Sockets : joinedAt[s] \in Nat /\ joinedAt[s] <= Len(said')
<1>1. said \in Seq(Message) /\ Len(said) \in Nat
  BY DEF ChatInv, ChatTypes
<1>2. said' \in Seq(Message) /\ Len(said') = Len(said) + 1
  BY <1>1, AppendProperties
<1>3. QED
  BY <1>1, <1>2 DEF ChatInv, ChatTypes

\* A socket that connects has heard nothing and waits for nothing.
LEMMA ConnectSocketKeeps ==
    ASSUME NEW s \in Sockets, ChatInv, ConnectSocket(s)
    PROVE  ChatInv'
<1>1. ChatTypes' /\ GoneIsGone'
  BY DEF ConnectSocket, ChatInv, ChatTypes, GoneIsGone
<1>2. <<>> \o <<>> = <<>>
  BY ConcatEmptySeq, EmptySeq
<1>3. OneConversation'
  BY <1>2 DEF ConnectSocket, ChatInv, ChatTypes, GoneIsGone, OneConversation
<1>4. QED
  BY <1>1, <1>3 DEF ChatInv

\* join: the socket hears its own joining first, and those who joined before it
\* hear it behind what they heard.
LEMMA JoinChatKeeps ==
    ASSUME NEW s \in Sockets, NEW name \in Names, ChatInv, JoinChat(s, name)
    PROVE  ChatInv'
<1> DEFINE m == [kind |-> "joined", by |-> name]
           to == {t \in DOMAIN names \cup {s} : readyState[t] = "open"}
<1>1. m \in Message
  BY DEF Message
<1>2. /\ readyState' = readyState /\ heard' = heard /\ readyState[s] = "open"
      /\ said' = Append(said, m)
      /\ sent' = [t \in Sockets |-> IF t \in to THEN Append(sent[t], m) ELSE sent[t]]
      /\ joinedAt' = [joinedAt EXCEPT ![s] = IF s \in DOMAIN names THEN @ ELSE Len(said)]
      /\ names' = [t \in DOMAIN names \cup {s} |-> IF t = s THEN name ELSE names[t]]
  BY DEF JoinChat, Say
<1>3. /\ said' \in Seq(Message) /\ Len(said) \in Nat /\ Len(said') = Len(said) + 1
      /\ \A t \in Sockets : joinedAt[t] \in Nat /\ joinedAt[t] <= Len(said')
  BY <1>1, <1>2, SaidGrows
<1> HIDE DEF m
<1>4. /\ sent' \in [Sockets -> Seq(Message)]
      /\ \A t \in Sockets : t \in to => sent'[t] = Append(sent[t], m)
      /\ \A t \in Sockets : t \notin to => sent'[t] = sent[t]
  <2>1. \A t \in Sockets : Append(sent[t], m) \in Seq(Message)
    BY <1>1, AppendProperties DEF ChatInv, ChatTypes
  <2>2. QED
    BY <1>2, <2>1 DEF ChatInv, ChatTypes
<1>5. ChatTypes'
  <2>1. joinedAt' \in [Sockets -> Nat] /\ \A t \in Sockets : joinedAt'[t] <= Len(said')
    BY <1>2, <1>3 DEF ChatInv, ChatTypes
  <2>2. DOMAIN names' \subseteq Sockets /\ names' \in [DOMAIN names' -> Names]
    BY <1>2 DEF ChatInv, ChatTypes
  <2>3. QED
    BY <1>2, <1>3, <1>4, <2>1, <2>2 DEF ChatInv, ChatTypes
<1>6. GoneIsGone'
  <2>1. ASSUME NEW t \in Sockets, readyState[t] = "none"
        PROVE  t \notin DOMAIN names' /\ sent'[t] = <<>> /\ heard'[t] = <<>>
    BY <1>2, <1>4, <2>1 DEF ChatInv, GoneIsGone
  <2>2. QED
    BY <1>2, <2>1 DEF GoneIsGone
<1>7. OneConversation'
  <2>1. ASSUME NEW t \in Sockets, readyState[t] = "open"
        PROVE  heard'[t] \o sent'[t] =
                 IF t \in DOMAIN names' THEN SubSeq(said', joinedAt'[t] + 1, Len(said')) ELSE <<>>
    <3>1. Hears(t)
      BY <2>1 DEF ChatInv, OneConversation, Hears
    <3>2. CASE t \in DOMAIN names
      <4>1. t \in to /\ t \in DOMAIN names' /\ joinedAt'[t] = joinedAt[t] /\ heard'[t] = heard[t]
        BY <1>2, <2>1, <3>2 DEF ChatInv, ChatTypes
      <4>2. QED
        BY <1>1, <1>2, <1>4, <3>1, <3>2, <4>1, SayKeeps
    <3>3. CASE t \notin DOMAIN names /\ t # s
      <4>1. t \notin to /\ t \notin DOMAIN names'
        BY <1>2, <3>3
      <4>2. QED
        BY <1>2, <1>4, <3>1, <3>3, <4>1 DEF Hears
    <3>4. CASE t \notin DOMAIN names /\ t = s
      <4>1. t \in to /\ t \in DOMAIN names' /\ joinedAt'[t] = Len(said) /\ heard'[t] = heard[t]
        BY <1>2, <2>1, <3>4 DEF ChatInv, ChatTypes
      <4>2. heard[t] \o sent[t] = <<>>
        BY <3>1, <3>4 DEF Hears
      <4>3. SubSeq(said, Len(said) + 1, Len(said)) = <<>>
        <5>1. Len(said) \in Int /\ Len(said) + 1 \in Int /\ Len(said) < Len(said) + 1
          BY <1>3
        <5>2. QED
          BY <5>1, SubSeqEmpty
      <4>4. Len(said) \in 0 .. Len(said)
        BY <1>3
      <4>5. heard[t] \in Seq(Message) /\ sent[t] \in Seq(Message) /\ said \in Seq(Message)
        BY DEF ChatInv, ChatTypes
      <4>6. heard[t] \o Append(sent[t], m) = SubSeq(Append(said, m), Len(said) + 1, Len(Append(said, m)))
        <5>1. heard[t] \o sent[t] = SubSeq(said, Len(said) + 1, Len(said))
          BY <4>2, <4>3
        <5>2. QED
          <6>1. PICK h \in Seq(Message), u \in Seq(Message), all \in Seq(Message), j \in Nat :
                  h = heard[t] /\ u = sent[t] /\ all = said /\ j = Len(said)
            BY <1>3, <4>5
          <6>2. h \o u = SubSeq(all, j + 1, Len(all))
            BY <5>1, <6>1
          <6>a. j \in 0 .. Len(all)
            BY <4>4, <6>1
          <6>3. h \o Append(u, m) = SubSeq(Append(all, m), j + 1, Len(Append(all, m)))
            <7>1. Whole(h, u) = Since(all, j) => Whole(h, Append(u, m)) = Since(Append(all, m), j)
              BY <1>1, <6>a, OneMoreSaid
            <7>2. QED
              BY <6>2, <7>1 DEF Whole, Since
          <6>4. QED
            BY <6>1, <6>3
      <4>7. QED
        BY <1>2, <1>4, <4>1, <4>6
    <3>5. QED
      BY <3>2, <3>3, <3>4
  <2>2. QED
    BY <1>2, <2>1 DEF OneConversation
<1>8. QED
  BY <1>5, <1>6, <1>7 DEF ChatInv

\* chat: all who have joined hear it.
LEMMA ChatMessageKeeps ==
    ASSUME NEW s \in Sockets, ChatInv, ChatMessage(s)
    PROVE  ChatInv'
<1> DEFINE m == [kind |-> "chat", by |-> NameOf(s)]
           to == {t \in DOMAIN names : readyState[t] = "open"}
<1>1. m \in Message
  BY NamesAreNames DEF Message
<1>2. /\ readyState' = readyState /\ heard' = heard /\ names' = names /\ joinedAt' = joinedAt
      /\ said' = Append(said, m)
      /\ sent' = [t \in Sockets |-> IF t \in to THEN Append(sent[t], m) ELSE sent[t]]
  BY DEF ChatMessage, Say
<1>3. /\ said' \in Seq(Message) /\ Len(said) \in Nat /\ Len(said') = Len(said) + 1
      /\ \A t \in Sockets : joinedAt[t] \in Nat /\ joinedAt[t] <= Len(said')
  BY <1>1, <1>2, SaidGrows
<1> HIDE DEF m
<1>4. /\ sent' \in [Sockets -> Seq(Message)]
      /\ \A t \in Sockets : t \in to => sent'[t] = Append(sent[t], m)
      /\ \A t \in Sockets : t \notin to => sent'[t] = sent[t]
  <2>1. \A t \in Sockets : Append(sent[t], m) \in Seq(Message)
    BY <1>1, AppendProperties DEF ChatInv, ChatTypes
  <2>2. QED
    BY <1>2, <2>1 DEF ChatInv, ChatTypes
<1>5. ChatTypes'
  BY <1>2, <1>3, <1>4 DEF ChatInv, ChatTypes
<1>6. GoneIsGone'
  BY <1>2, <1>4 DEF ChatInv, GoneIsGone
<1>7. OneConversation'
  <2>1. ASSUME NEW t \in Sockets, readyState[t] = "open"
        PROVE  heard'[t] \o sent'[t] =
                 IF t \in DOMAIN names' THEN SubSeq(said', joinedAt'[t] + 1, Len(said')) ELSE <<>>
    <3>1. Hears(t)
      BY <2>1 DEF ChatInv, OneConversation, Hears
    <3>2. CASE t \in DOMAIN names
      BY <1>1, <1>2, <1>4, <2>1, <3>1, <3>2, SayKeeps
    <3>3. CASE t \notin DOMAIN names
      BY <1>2, <1>4, <3>1, <3>3 DEF Hears
    <3>4. QED
      BY <3>2, <3>3
  <2>2. QED
    BY <1>2, <2>1 DEF OneConversation
<1>8. QED
  BY <1>5, <1>6, <1>7 DEF ChatInv

\* A socket that breaks off hears nothing more and is asked nothing more.
LEMMA SocketClosesKeeps ==
    ASSUME NEW s \in Sockets, ChatInv, SocketCloses(s)
    PROVE  ChatInv'
<1>1. ChatTypes' /\ GoneIsGone'
  BY DEF SocketCloses, ChatInv, ChatTypes, GoneIsGone
<1>2. OneConversation'
  BY DEF SocketCloses, ChatInv, ChatTypes, OneConversation
<1>3. QED
  BY <1>1, <1>2 DEF ChatInv

\* close: the socket is forgotten, and the others hear that it left.
LEMMA SocketClosedKeeps ==
    ASSUME NEW s \in Sockets, ChatInv, SocketClosed(s)
    PROVE  ChatInv'
<1> DEFINE m == [kind |-> "left", by |-> NameOf(s)]
           to == {t \in DOMAIN names : readyState[t] = "open"}
<1>1. m \in Message
  BY NamesAreNames DEF Message
<1>2. /\ readyState[s] = "closing" /\ readyState' = [readyState EXCEPT ![s] = "none"]
      /\ names' = [t \in DOMAIN names \ {s} |-> names[t]]
      /\ said' = Append(said, m)
      /\ sent' = [t \in Sockets |-> IF t = s THEN <<>>
                                    ELSE IF t \in to THEN Append(sent[t], m) ELSE sent[t]]
      /\ heard' = [heard EXCEPT ![s] = <<>>]
      /\ joinedAt' = [joinedAt EXCEPT ![s] = 0]
  BY DEF SocketClosed
<1>3. /\ said' \in Seq(Message) /\ Len(said) \in Nat /\ Len(said') = Len(said) + 1
      /\ \A t \in Sockets : joinedAt[t] \in Nat /\ joinedAt[t] <= Len(said')
  BY <1>1, <1>2, SaidGrows
<1> HIDE DEF m
<1>4. /\ sent' \in [Sockets -> Seq(Message)]
      /\ \A t \in Sockets \ {s} : t \in to => sent'[t] = Append(sent[t], m)
      /\ \A t \in Sockets \ {s} : t \notin to => sent'[t] = sent[t]
      /\ sent'[s] = <<>>
  <2>1. \A t \in Sockets : Append(sent[t], m) \in Seq(Message)
    BY <1>1, AppendProperties DEF ChatInv, ChatTypes
  <2>2. <<>> \in Seq(Message)
    BY EmptySeq
  <2>3. QED
    BY <1>2, <2>1, <2>2 DEF ChatInv, ChatTypes
<1>5. ChatTypes'
  <2>1. joinedAt' \in [Sockets -> Nat] /\ \A t \in Sockets : joinedAt'[t] <= Len(said')
    BY <1>2, <1>3 DEF ChatInv, ChatTypes
  <2>2. heard' \in [Sockets -> Seq(Message)]
    BY <1>2, EmptySeq DEF ChatInv, ChatTypes
  <2>3. DOMAIN names' \subseteq Sockets /\ names' \in [DOMAIN names' -> Names]
    BY <1>2 DEF ChatInv, ChatTypes
  <2>4. QED
    BY <1>2, <1>3, <1>4, <2>1, <2>2, <2>3 DEF ChatInv, ChatTypes
<1>6. GoneIsGone'
  <2>1. ASSUME NEW t \in Sockets, readyState'[t] = "none"
        PROVE  t \notin DOMAIN names' /\ sent'[t] = <<>> /\ heard'[t] = <<>>
    <3>1. CASE t = s
      BY <1>2, <1>4, <3>1 DEF ChatInv, ChatTypes
    <3>2. CASE t # s
      BY <1>2, <1>4, <2>1, <3>2 DEF ChatInv, ChatTypes, GoneIsGone
    <3>3. QED
      BY <3>1, <3>2
  <2>2. QED
    BY <2>1 DEF GoneIsGone
<1>7. OneConversation'
  <2>1. ASSUME NEW t \in Sockets, readyState'[t] = "open"
        PROVE  heard'[t] \o sent'[t] =
                 IF t \in DOMAIN names' THEN SubSeq(said', joinedAt'[t] + 1, Len(said')) ELSE <<>>
    <3>1. t # s /\ readyState[t] = "open" /\ joinedAt'[t] = joinedAt[t] /\ heard'[t] = heard[t]
      BY <1>2, <2>1 DEF ChatInv, ChatTypes
    <3>2. Hears(t)
      BY <3>1 DEF ChatInv, OneConversation, Hears
    <3>3. CASE t \in DOMAIN names
      <4>1. t \in to /\ t \in DOMAIN names'
        BY <1>2, <3>1, <3>3
      <4>2. sent'[t] = Append(sent[t], m)
        BY <1>4, <3>1, <4>1
      <4>3. heard'[t] \o sent'[t] = SubSeq(said', joinedAt'[t] + 1, Len(said'))
        BY <1>1, <1>2, <3>1, <3>2, <3>3, <4>1, <4>2, SayKeeps
      <4>4. QED
        BY <4>1, <4>3
    <3>4. CASE t \notin DOMAIN names
      <4>1. t \notin DOMAIN names' /\ sent'[t] = sent[t]
        BY <1>2, <1>4, <3>1, <3>4
      <4>2. QED
        BY <3>1, <3>2, <3>4, <4>1 DEF Hears
    <3>5. QED
      BY <3>3, <3>4
  <2>2. QED
    BY <2>1 DEF OneConversation
<1>8. QED
  BY <1>5, <1>6, <1>7 DEF ChatInv

\* What arrives moves from the way to what is heard.
LEMMA MessageArrivesKeeps ==
    ASSUME NEW s \in Sockets, ChatInv, MessageArrives(s)
    PROVE  ChatInv'
<1>1. /\ Append(heard[s], Head(sent[s])) \in Seq(Message) /\ Tail(sent[s]) \in Seq(Message)
      /\ Append(heard[s], Head(sent[s])) \o Tail(sent[s]) = heard[s] \o sent[s]
  <2>1. heard[s] \in Seq(Message) /\ sent[s] \in Seq(Message) /\ sent[s] # <<>>
    BY DEF MessageArrives, ChatInv, ChatTypes
  <2>2. QED
    BY <2>1, OneArrives
<1>2. /\ heard' = [heard EXCEPT ![s] = Append(heard[s], Head(sent[s]))]
      /\ sent' = [sent EXCEPT ![s] = Tail(sent[s])]
      /\ UNCHANGED <<readyState, names, said, joinedAt>> /\ readyState[s] = "open"
  BY DEF MessageArrives
<1>3. ChatTypes'
  BY <1>1, <1>2 DEF ChatInv, ChatTypes
<1>4. \A t \in Sockets : t # s => heard'[t] = heard[t] /\ sent'[t] = sent[t]
  BY <1>2 DEF ChatInv, ChatTypes
<1>5. heard'[s] \o sent'[s] = heard[s] \o sent[s]
  BY <1>1, <1>2 DEF ChatInv, ChatTypes
<1>6. GoneIsGone'
  BY <1>2, <1>4 DEF ChatInv, GoneIsGone
<1>7. OneConversation'
  BY <1>2, <1>4, <1>5 DEF ChatInv, OneConversation
<1>8. QED
  BY <1>3, <1>6, <1>7 DEF ChatInv

\* Every socket that has joined hears all that is said from its joining on, in order,
\* for any number of sockets and names.
THEOREM ChatIsOneConversation == ChatSpec => []OneConversation
<1>1. ChatInit => ChatInv
  BY ChatStarts
<1>2. ChatInv /\ [ChatNext]_chatVars => ChatInv'
  <2>1. ASSUME ChatInv, ChatNext PROVE ChatInv'
    BY <2>1, ConnectSocketKeeps, JoinChatKeeps, ChatMessageKeeps, SocketClosesKeeps, SocketClosedKeeps,
       MessageArrivesKeeps DEF ChatNext
  <2>2. ASSUME ChatInv, UNCHANGED chatVars PROVE ChatInv'
    BY <2>2 DEF ChatInv, ChatTypes, GoneIsGone, OneConversation, chatVars
  <2>3. QED
    BY <2>1, <2>2
<1>3. ChatInv => OneConversation
  BY DEF ChatInv
<1>4. QED
  BY <1>1, <1>2, <1>3, PTL DEF ChatSpec

\* Webhooks and chat tell what happens (PushesTellWhatHappens), for every sender, set of
\* receivers and chat.
THEOREM PushesAreTrue == PushSpec => []PushesTellWhatHappens
<1>1. QED
  BY WebhooksKeepPromises, ChatIsOneConversation, PTL DEF PushSpec, PushesTellWhatHappens

-----------------------------------------------------------------------------
(* The gateway.                                                             *)

Answers == {"none", "200", "201", "400", "401", "404", "429", "502"}
Backends == {"user-service", "order-service"}
Shows == UNION {[users -> SUBSET Nat] : users \in SUBSET Nat}
Request ==
    [at : Nat, answer : Answers, call : {"none", "sent", "performed", "failed"},
     usersRead : SUBSET Nat, ordersRead : SUBSET Nat, read : SUBSET Backends,
     shown : Shows, acknowledged : SUBSET Nat]

GatewayTypes ==
    /\ now \in Nat
    /\ arrivals \in Seq(Request)
    /\ userRows \subseteq Nat /\ orderRows \subseteq Nat
    /\ DOMAIN windows \subseteq ValidKeys
    /\ \A key \in DOMAIN windows : windows[key] \in [count : Nat, resetAt : Nat]

-----------------------------------------------------------------------------
\* The requests let through in the window that ends at `end', and in the one before.
InWindow(key, end) == {i \in Admitted(key) : arrivals[i].at + Window >= end}
InWindowBefore(key, end) ==
    {i \in Admitted(key) : arrivals[i].at + Window < end /\ arrivals[i].at + 2 * Window >= end}

\* The window [count, end] tells how many the client was let through.
Tells(key, count, end) ==
    /\ end <= now + Window
    /\ \A i \in Admitted(key) : arrivals[i].at <= end
    /\ Cardinality(InWindow(key, end)) = IF count <= MaxPerWindow THEN count ELSE MaxPerWindow
    /\ Cardinality(InWindowBefore(key, end)) <= MaxPerWindow

TwiceAtMost(key) ==
    \A t \in Nat :
        Cardinality({i \in Admitted(key) : arrivals[i].at \in t .. t + Window}) <= 2 * MaxPerWindow

WindowsTell ==
    /\ \A i \in DOMAIN arrivals : arrivals[i].at <= now
    /\ \A key \in ValidKeys : TwiceAtMost(key) /\ (key \notin DOMAIN windows => Admitted(key) = {})
    /\ \A key \in DOMAIN windows : Tells(key, windows[key].count, windows[key].resetAt)

RateInv == GatewayTypes /\ WindowsTell /\ RefusalsAreEarned

\* The fields the proofs calculate with are numbers.
LEMMA GatewayNumbers ==
    ASSUME GatewayTypes
    PROVE  /\ Window \in Nat /\ MaxPerWindow \in Nat /\ Timeout \in Nat /\ Horizon \in Nat /\ now \in Nat
           /\ Len(arrivals) \in Nat /\ DOMAIN arrivals = 1 .. Len(arrivals)
           /\ \A i \in DOMAIN arrivals : arrivals[i] \in Request /\ arrivals[i].at \in Nat
<1>1. Window \in Nat /\ MaxPerWindow \in Nat /\ Timeout \in Nat /\ Horizon \in Nat
  BY GatewayAssumption
<1>2. arrivals \in Seq(Request) /\ now \in Nat
  BY DEF GatewayTypes
<1>3. Len(arrivals) \in Nat /\ DOMAIN arrivals = 1 .. Len(arrivals)
  BY <1>2
<1>4. \A i \in DOMAIN arrivals : arrivals[i] \in Request
  BY <1>2, <1>3, ElementOfSeq
<1>5. \A r \in Request : r.at \in Nat
  BY DEF Request
<1>6. QED
  BY <1>1, <1>2, <1>3, <1>4, <1>5

\* The requests let through are finitely many.
LEMMA AdmittedAreFinite ==
    ASSUME GatewayTypes, NEW key
    PROVE  /\ Admitted(key) \subseteq DOMAIN arrivals /\ IsFiniteSet(Admitted(key))
           /\ \A S \in SUBSET Admitted(key) : IsFiniteSet(S) /\ Cardinality(S) \in Nat
<1>1. DOMAIN arrivals = 1 .. Len(arrivals) /\ Len(arrivals) \in Nat
  BY DEF GatewayTypes
<1>2. 1 \in Int /\ Len(arrivals) \in Int
  BY <1>1
<1>3. IsFiniteSet(DOMAIN arrivals)
  BY <1>1, <1>2, FS_Interval
<1>4. Admitted(key) \subseteq DOMAIN arrivals
  BY DEF Admitted
<1>5. QED
  BY <1>3, <1>4, FS_Subset, FS_CardinalityType

\* What lies in two sets of at most n has at most 2 * n elements.
LEMMA TwoSets ==
    ASSUME NEW A, NEW B, NEW C, NEW n \in Nat, IsFiniteSet(A), IsFiniteSet(B), C \subseteq A \cup B,
           Cardinality(A) <= n, Cardinality(B) <= n
    PROVE  Cardinality(C) <= 2 * n
<1>1. /\ IsFiniteSet(A \cup B) /\ Cardinality(A \cup B) = Cardinality(A) + Cardinality(B) - Cardinality(A \cap B)
  BY FS_Union
<1>2. IsFiniteSet(A \cap B)
  BY FS_Subset
<1>3. Cardinality(A \cap B) \in Nat /\ Cardinality(A) \in Nat /\ Cardinality(B) \in Nat
  BY <1>2, FS_CardinalityType
<1>4. Cardinality(C) <= Cardinality(A \cup B) /\ IsFiniteSet(C)
  BY <1>1, FS_Subset
<1>5. Cardinality(C) \in Nat
  BY <1>4, FS_CardinalityType
<1>6. QED
  BY <1>1, <1>3, <1>4, <1>5

\* What a window from now reaches, a window from later on reaches too.
LEMMA LaterReachesFurther ==
    ASSUME NEW early \in Nat, NEW late \in Nat, late >= early, NEW span \in Nat, NEW end \in Nat, end <= early + span
    PROVE  end <= late + span
  OBVIOUS

\* What is known of one client stays true when it is let nothing more.
LEMMA ClientKeeps ==
    ASSUME GatewayTypes, NEW key, Admitted(key)' = Admitted(key), now' \in Nat, now' >= now,
           \A i \in DOMAIN arrivals : arrivals'[i].at = arrivals[i].at
    PROVE  /\ TwiceAtMost(key) => TwiceAtMost(key)'
           /\ \A count, end \in Nat : Tells(key, count, end) => Tells(key, count, end)'
<1>1. Admitted(key) \subseteq DOMAIN arrivals /\ now \in Nat /\ Window \in Nat
  BY GatewayNumbers DEF Admitted
<1>2. ASSUME NEW t
      PROVE  {i \in Admitted(key)' : arrivals'[i].at \in t .. t + Window} =
               {i \in Admitted(key) : arrivals[i].at \in t .. t + Window}
  BY <1>1
<1>3. \A end : InWindow(key, end)' = InWindow(key, end) /\ InWindowBefore(key, end)' = InWindowBefore(key, end)
  BY <1>1 DEF InWindow, InWindowBefore
<1>4. ASSUME NEW count \in Nat, NEW end \in Nat, Tells(key, count, end)
      PROVE  Tells(key, count, end)'
  <2>0. end <= now + Window
    BY <1>4 DEF Tells
  <2>1. end <= now' + Window
    BY <1>1, <2>0, LaterReachesFurther
  <2>2. \A i \in Admitted(key) : arrivals'[i].at <= end
    BY <1>1, <1>4 DEF Tells
  <2>3. QED
    BY <1>3, <1>4, <2>1, <2>2 DEF Tells
<1>5. QED
  BY <1>2, <1>4 DEF TwiceAtMost

\* A refusal is earned when the client had used up the window before it.
Earned(i) ==
    Cardinality({j \in Admitted(script[i].key) : j < i /\ arrivals[j].at + Window >= arrivals[i].at}) >= MaxPerWindow

\* A refusal stays earned: what counts for it arrived before it.
LEMMA EarnedStays ==
    ASSUME GatewayTypes, script' = script,
           \A j \in DOMAIN arrivals : arrivals'[j].at = arrivals[j].at,
           NEW i \in DOMAIN arrivals, Earned(i),
           \A key : Admitted(key)' \cap DOMAIN arrivals = Admitted(key),
           \A key : Admitted(key)' \subseteq Nat \ {0}
    PROVE  Earned(i)'
<1>1. PICK key : key = script[i].key
  OBVIOUS
<1>2. DOMAIN arrivals = 1 .. Len(arrivals) /\ Len(arrivals) \in Nat /\ i \in 1 .. Len(arrivals)
  BY GatewayNumbers
<1>3. \A j \in Admitted(key)' : j < i => j \in Admitted(key)
  <2>1. ASSUME NEW j \in Admitted(key)', j < i PROVE j \in DOMAIN arrivals
    BY <1>2, <2>1
  <2>2. QED
    BY <2>1
<1>4. Admitted(key) \subseteq Admitted(key)' /\ Admitted(key) \subseteq DOMAIN arrivals
  BY DEF Admitted
<1>5. {j \in Admitted(key)' : j < i /\ arrivals'[j].at + Window >= arrivals'[i].at} =
        {j \in Admitted(key) : j < i /\ arrivals[j].at + Window >= arrivals[i].at}
  BY <1>3, <1>4
<1>6. QED
  BY <1>1, <1>5 DEF Earned

\* A step that lets nobody in and counts nobody keeps what is said of the windows.
LEMMA WindowsKeep ==
    ASSUME RateInv, GatewayTypes', UNCHANGED <<windows, script>>, now' >= now,
           DOMAIN arrivals \subseteq DOMAIN arrivals',
           \A key : Admitted(key)' = Admitted(key),
           \A i \in DOMAIN arrivals :
              /\ arrivals'[i].at = arrivals[i].at
              /\ arrivals'[i].answer = "429" <=> arrivals[i].answer = "429",
           \A i \in DOMAIN arrivals' \ DOMAIN arrivals :
              arrivals'[i].at <= now' /\ arrivals'[i].answer # "429"
    PROVE  RateInv'
<1>1. /\ GatewayTypes /\ now \in Nat /\ now' \in Nat /\ Window \in Nat
      /\ DOMAIN arrivals = 1 .. Len(arrivals) /\ Len(arrivals) \in Nat
      /\ \A i \in DOMAIN arrivals : arrivals[i].at \in Nat
  BY GatewayNumbers DEF RateInv, GatewayTypes
<1>2. \A i \in DOMAIN arrivals' : arrivals'[i].at <= now'
  <2>1. \A i \in DOMAIN arrivals : arrivals'[i].at <= now'
    BY <1>1 DEF RateInv, WindowsTell
  <2>2. QED
    BY <2>1
<1>3. ASSUME NEW key \in ValidKeys PROVE TwiceAtMost(key)' /\ (key \notin DOMAIN windows => Admitted(key)' = {})
  BY <1>1, ClientKeeps DEF RateInv, WindowsTell
<1>4. ASSUME NEW key \in DOMAIN windows PROVE Tells(key, windows[key].count, windows[key].resetAt)'
  <2>1. PICK c \in Nat, r \in Nat : windows[key] = [count |-> c, resetAt |-> r]
    BY <1>1 DEF GatewayTypes
  <2>2. Tells(key, c, r)
    BY <2>1 DEF RateInv, WindowsTell
  <2>3. Tells(key, c, r)'
    BY <1>1, <2>2, ClientKeeps
  <2>4. QED
    BY <2>1, <2>3
<1>5. WindowsTell'
  BY <1>2, <1>3, <1>4 DEF WindowsTell
<1>6. ASSUME NEW i \in DOMAIN arrivals', arrivals'[i].answer = "429" PROVE Earned(i)'
  <2>1. i \in DOMAIN arrivals /\ arrivals[i].answer = "429"
    BY <1>6
  <2>2. Earned(i)
    BY <2>1 DEF RateInv, RefusalsAreEarned, Earned
  <2>3. \A key : Admitted(key) \subseteq DOMAIN arrivals
    BY DEF Admitted
  <2>4. \A key : Admitted(key)' \cap DOMAIN arrivals = Admitted(key) /\ Admitted(key)' \subseteq Nat \ {0}
    BY <1>1, <2>3
  <2>5. QED
    BY <1>1, <2>1, <2>2, <2>4, EarnedStays
<1>7. RefusalsAreEarned'
  BY <1>6 DEF RefusalsAreEarned, Earned
<1>8. QED
  BY <1>5, <1>7 DEF RateInv

\* The window a request is counted in, before the request is there.
LEMMA CountedTells ==
    ASSUME RateInv, NEW key \in ValidKeys
    PROVE  LET w == CountRequest(key)
           IN  /\ w \in [count : Nat, resetAt : Nat] /\ w.count >= 1
               /\ now <= w.resetAt
               /\ Tells(key, w.count - 1, w.resetAt)
<1> DEFINE w == CountRequest(key)
           n == w.count - 1
           end == w.resetAt
<1>1. /\ now \in Nat /\ Window \in Nat /\ MaxPerWindow \in Nat
      /\ \A i \in Admitted(key) : arrivals[i].at \in Nat /\ arrivals[i].at <= now
  BY GatewayNumbers DEF RateInv, WindowsTell, Admitted
<1>2. CASE key \notin DOMAIN windows
  <2>1. w = [count |-> 1, resetAt |-> now + Window] /\ Admitted(key) = {}
    BY <1>2 DEF CountRequest, RateInv, WindowsTell
  <2>2. n = 0 /\ end = now + Window /\ InWindow(key, end) = {} /\ InWindowBefore(key, end) = {}
    BY <2>1, <1>1 DEF InWindow, InWindowBefore
  <2> HIDE DEF n, end
  <2>3. Tells(key, n, end)
    BY <2>1, <2>2, <1>1, FS_EmptySet DEF Tells
  <2>4. QED
    BY <2>1, <2>2, <2>3, <1>1 DEF n, end
<1>3. CASE key \in DOMAIN windows
  <2>a. PICK c \in Nat, r \in Nat : windows[key] = [count |-> c, resetAt |-> r]
    BY <1>3 DEF RateInv, GatewayTypes
  <2>b. Tells(key, c, r)
    BY <1>3, <2>a DEF RateInv, WindowsTell
  <2>1. CASE now > r
    <3>1. w = [count |-> 1, resetAt |-> now + Window]
      BY <2>1, <2>a, <1>3 DEF CountRequest
    <3>2. n = 0 /\ end = now + Window
      BY <3>1, <1>1
    <3> HIDE DEF n, end
    <3>3. InWindow(key, end) = {}
      <4>1. ASSUME NEW i \in Admitted(key) PROVE ~ (arrivals[i].at + Window >= end)
        BY <1>1, <2>1, <2>b, <3>2 DEF Tells
      <4>2. QED
        BY <4>1 DEF InWindow
    <3>4. InWindowBefore(key, end) \subseteq InWindow(key, r)
      <4>1. ASSUME NEW i \in Admitted(key), arrivals[i].at + 2 * Window >= end
            PROVE  arrivals[i].at + Window >= r
        BY <1>1, <2>1, <3>2, <4>1
      <4>2. QED
        BY <4>1 DEF InWindow, InWindowBefore
    <3>5. Cardinality(InWindowBefore(key, end)) <= MaxPerWindow
      <4>1. IsFiniteSet(InWindow(key, r)) /\ Cardinality(InWindow(key, r)) \in Nat
        BY AdmittedAreFinite DEF InWindow, RateInv
      <4>2. /\ Cardinality(InWindowBefore(key, end)) <= Cardinality(InWindow(key, r))
            /\ IsFiniteSet(InWindowBefore(key, end))
        BY <3>4, <4>1, FS_Subset
      <4>3. Cardinality(InWindowBefore(key, end)) \in Nat
        BY <4>2, FS_CardinalityType
      <4>4. Cardinality(InWindow(key, r)) <= MaxPerWindow
        BY <2>b, <1>1 DEF Tells
      <4>5. QED
        BY <4>1, <4>2, <4>3, <4>4, <1>1
    <3>6. Tells(key, n, end)
      <4>1. \A i \in Admitted(key) : arrivals[i].at <= end
        BY <1>1, <3>2
      <4>2. end <= now + Window /\ 0 <= MaxPerWindow
        BY <1>1, <3>2
      <4>3. QED
        BY <3>2, <3>3, <3>5, <4>1, <4>2, FS_EmptySet DEF Tells
    <3>7. QED
      BY <3>1, <3>2, <3>6, <1>1 DEF n, end
  <2>2. CASE ~ (now > r)
    <3>1. w = [count |-> c + 1, resetAt |-> r]
      BY <2>2, <2>a, <1>3 DEF CountRequest
    <3>2. n = c /\ end = r /\ w.count >= 1
      BY <3>1
    <3>3. QED
      BY <2>2, <2>b, <3>1, <3>2, <1>1
  <2>3. QED
    BY <2>1, <2>2
<1>4. QED
  BY <1>2, <1>3

\* One more request.
LEMMA RequestArrives ==
    ASSUME GatewayTypes, script' = script, NEW answer \in Answers,
           NEW call \in {"none", "sent", "performed", "failed"},
           arrivals' = Append(arrivals, Arrived(answer, call))
    PROVE  /\ arrivals' \in Seq(Request)
           /\ DOMAIN arrivals = 1 .. Len(arrivals) /\ DOMAIN arrivals' = 1 .. Len(arrivals) + 1
           /\ Len(arrivals) \in Nat
           /\ \A i \in DOMAIN arrivals : arrivals'[i] = arrivals[i]
           /\ arrivals'[Len(arrivals) + 1] = Arrived(answer, call)
           /\ Arrived(answer, call) \in Request
           /\ Arrived(answer, call).at = now /\ Arrived(answer, call).answer = answer
           /\ Arrived(answer, call).call = call /\ Arrived(answer, call).read = {}
           /\ Arrived(answer, call).acknowledged = {i \in DOMAIN arrivals : arrivals[i].answer = "201"}
<1>1. /\ arrivals \in Seq(Request) /\ DOMAIN arrivals = 1 .. Len(arrivals) /\ Len(arrivals) \in Nat
      /\ now \in Nat
  BY GatewayNumbers DEF GatewayTypes
<1>2. /\ Arrived(answer, call).at = now /\ Arrived(answer, call).answer = answer
      /\ Arrived(answer, call).call = call /\ Arrived(answer, call).read = {}
      /\ Arrived(answer, call).acknowledged = {i \in DOMAIN arrivals : arrivals[i].answer = "201"}
  BY DEF Arrived
<1>3. Arrived(answer, call) \in Request
  <2>1. {i \in DOMAIN arrivals : arrivals[i].answer = "201"} \subseteq Nat
    BY <1>1
  <2>2. <<>> \in Shows
    <3>1. \A f : f = <<>> => f \in [{} -> SUBSET Nat]
      OBVIOUS
    <3>2. QED
      BY <3>1 DEF Shows
  <2>3. QED
    BY <1>1, <2>1, <2>2 DEF Arrived, Request
<1>4. PICK r \in Request : r = Arrived(answer, call)
  BY <1>3
<1>5. /\ arrivals' \in Seq(Request) /\ Len(arrivals') = Len(arrivals) + 1
      /\ \A i \in 1 .. Len(arrivals) : arrivals'[i] = arrivals[i]
      /\ arrivals'[Len(arrivals) + 1] = r
  BY <1>1, <1>4, AppendProperties
<1>6. DOMAIN arrivals' = 1 .. Len(arrivals) + 1
  BY <1>5, LenProperties
<1>7. QED
  BY <1>1, <1>2, <1>3, <1>4, <1>5, <1>6

\* Who has been let through, then.
LEMMA AdmittedGrow ==
    ASSUME GatewayTypes, script' = script, NEW answer \in Answers,
           NEW call \in {"none", "sent", "performed", "failed"},
           arrivals' = Append(arrivals, Arrived(answer, call)), NEW key
    PROVE  LET n == Len(arrivals) + 1
           IN  Admitted(key)' = Admitted(key) \cup
                 (IF script[n].key = key /\ Kind(n) # "health" /\ answer \notin {"401", "429"}
                    THEN {n} ELSE {})
<1> DEFINE n == Len(arrivals) + 1
<1>1. /\ DOMAIN arrivals' = DOMAIN arrivals \cup {n} /\ n \notin DOMAIN arrivals
      /\ \A i \in DOMAIN arrivals : arrivals'[i] = arrivals[i]
      /\ arrivals'[n].answer = answer
  BY RequestArrives
<1> HIDE DEF n
<1>2. QED
  BY <1>1 DEF Admitted, Kind, n

\* A client's request, counted in its window, is turned away: the window was full
\* already.
LEMMA RefusedTells ==
    ASSUME RateInv, NEW key \in ValidKeys, NEW count \in Nat, NEW end \in Nat,
           Tells(key, count, end), now <= end, count >= MaxPerWindow, now' = now,
           Admitted(key)' = Admitted(key), script' = script,
           \A i \in DOMAIN arrivals : arrivals'[i].at = arrivals[i].at,
           NEW n, n = Len(arrivals) + 1, script[n].key = key, arrivals'[n].at = now
    PROVE  Tells(key, count + 1, end)' /\ TwiceAtMost(key)' /\ Earned(n)'
<1>1. /\ GatewayTypes /\ now \in Nat /\ Window \in Nat /\ MaxPerWindow \in Nat
      /\ DOMAIN arrivals = 1 .. Len(arrivals) /\ Len(arrivals) \in Nat
      /\ \A i \in DOMAIN arrivals : arrivals[i].at \in Nat
  BY GatewayNumbers DEF RateInv
<1>2. now' \in Nat /\ now' >= now
  BY <1>1
<1>3. Tells(key, count, end)' /\ (TwiceAtMost(key) => TwiceAtMost(key)')
  BY <1>1, <1>2, ClientKeeps
<1>4. Tells(key, count + 1, end)'
  <2>1. Cardinality(InWindow(key, end))' = MaxPerWindow
    BY <1>1, <1>3 DEF Tells
  <2>2. (IF count + 1 <= MaxPerWindow THEN count + 1 ELSE MaxPerWindow) = MaxPerWindow
    BY <1>1
  <2>3. QED
    BY <1>3, <2>1, <2>2 DEF Tells
<1>5. Earned(n)'
  <2>1. Cardinality(InWindow(key, end)) = MaxPerWindow
    BY <1>1 DEF Tells
  <2>2. /\ Admitted(key) \subseteq DOMAIN arrivals /\ IsFiniteSet(Admitted(key))
    BY <1>1, AdmittedAreFinite
  <2>3. {j \in Admitted(key)' : j < n /\ arrivals'[j].at + Window >= arrivals'[n].at} =
          {j \in Admitted(key) : arrivals[j].at + Window >= now}
    <3>1. \A j \in Admitted(key) : j < n /\ arrivals'[j].at = arrivals[j].at
      BY <1>1, <2>2
    <3>2. QED
      BY <3>1
  <2>4. InWindow(key, end) \subseteq {j \in Admitted(key) : arrivals[j].at + Window >= now}
    <3>1. ASSUME NEW j \in Admitted(key), arrivals[j].at + Window >= end
          PROVE  arrivals[j].at + Window >= now
      BY <1>1, <2>2, <3>1
    <3>2. QED
      BY <3>1 DEF InWindow
  <2>5. IsFiniteSet({j \in Admitted(key) : arrivals[j].at + Window >= now})
    BY <2>2, FS_Subset
  <2>6. /\ Cardinality(InWindow(key, end)) <= Cardinality({j \in Admitted(key) : arrivals[j].at + Window >= now})
    BY <2>4, <2>5, FS_Subset
  <2>7. Cardinality({j \in Admitted(key) : arrivals[j].at + Window >= now}) \in Nat
    BY <2>5, FS_CardinalityType
  <2>8. Cardinality({j \in Admitted(key)' : j < n /\ arrivals'[j].at + Window >= arrivals'[n].at}) >= MaxPerWindow
    BY <2>1, <2>3, <2>6, <2>7, <1>1
  <2>9. QED
    BY <2>8 DEF Earned
<1>6. TwiceAtMost(key)'
  BY <1>3 DEF RateInv, WindowsTell
<1>7. QED
  BY <1>4, <1>5, <1>6

\* A client's request is let through: an interval of a window's length that holds it
\* reaches back into one earlier window at most.
LEMMA LetInTells ==
    ASSUME RateInv, NEW key \in ValidKeys, NEW count \in Nat, NEW end \in Nat,
           Tells(key, count, end), now <= end, count + 1 <= MaxPerWindow, now' = now,
           NEW n, n = Len(arrivals) + 1, Admitted(key)' = Admitted(key) \cup {n},
           \A i \in DOMAIN arrivals : arrivals'[i].at = arrivals[i].at, arrivals'[n].at = now
    PROVE  Tells(key, count + 1, end)' /\ TwiceAtMost(key)'
<1>1. /\ GatewayTypes /\ now \in Nat /\ Window \in Nat /\ MaxPerWindow \in Nat
      /\ DOMAIN arrivals = 1 .. Len(arrivals) /\ Len(arrivals) \in Nat
      /\ \A i \in DOMAIN arrivals : arrivals[i].at \in Nat
  BY GatewayNumbers DEF RateInv
<1>2. /\ Admitted(key) \subseteq DOMAIN arrivals
      /\ \A S \in SUBSET Admitted(key) : IsFiniteSet(S) /\ Cardinality(S) \in Nat
  BY <1>1, AdmittedAreFinite
<1>3. n \notin DOMAIN arrivals /\ n \notin Admitted(key)
  BY <1>1, <1>2
<1>4. end <= now + Window
  BY DEF Tells
<1>5. InWindow(key, end)' = InWindow(key, end) \cup {n}
  <2>1. \A i \in Admitted(key) : arrivals'[i].at = arrivals[i].at
    BY <1>2
  <2>2. arrivals'[n].at + Window >= end
    BY <1>4
  <2>3. QED
    BY <2>1, <2>2 DEF InWindow
<1>6. InWindowBefore(key, end)' = InWindowBefore(key, end)
  <2>1. \A i \in Admitted(key) : arrivals'[i].at = arrivals[i].at
    BY <1>2
  <2>2. ~ (arrivals'[n].at + Window < end)
    BY <1>1, <1>4
  <2>3. QED
    BY <2>1, <2>2 DEF InWindowBefore
<1>7. IsFiniteSet(InWindow(key, end)) /\ IsFiniteSet(InWindowBefore(key, end)) /\ n \notin InWindow(key, end)
  BY <1>2, <1>3 DEF InWindow, InWindowBefore
<1>8. Cardinality(InWindow(key, end))' = count + 1 /\ IsFiniteSet(InWindow(key, end)')
  <2>1. /\ IsFiniteSet(InWindow(key, end) \cup {n})
        /\ Cardinality(InWindow(key, end) \cup {n}) =
             IF n \in InWindow(key, end) THEN Cardinality(InWindow(key, end)) ELSE Cardinality(InWindow(key, end)) + 1
    BY <1>7, FS_AddElement
  <2>2. Cardinality(InWindow(key, end)) = count
    BY <1>1 DEF Tells
  <2>3. QED
    BY <1>5, <1>7, <2>1, <2>2
<1>9. Tells(key, count + 1, end)'
  <2>1. \A i \in Admitted(key)' : arrivals'[i].at <= end
    BY <1>2 DEF Tells
  <2>2. end <= now' + Window
    BY <1>4
  <2>3. Cardinality(InWindowBefore(key, end))' <= MaxPerWindow
    BY <1>6 DEF Tells
  <2>4. QED
    BY <1>8, <2>1, <2>2, <2>3 DEF Tells
<1>10. ASSUME NEW t \in Nat
       PROVE  Cardinality({i \in Admitted(key)' : arrivals'[i].at \in t .. t + Window}) <= 2 * MaxPerWindow
  <2>1. \A i \in Admitted(key) : arrivals'[i].at = arrivals[i].at /\ arrivals[i].at \in Nat /\ i # n
    BY <1>1, <1>2, <1>3
  <2>2. CASE now \in t .. t + Window
    <3>1. {i \in Admitted(key)' : arrivals'[i].at \in t .. t + Window}
            \subseteq InWindow(key, end)' \cup InWindowBefore(key, end)
      <4>1. ASSUME NEW i \in Admitted(key), arrivals[i].at >= t, ~ (arrivals[i].at + Window >= end)
            PROVE  arrivals[i].at + 2 * Window >= end
        <5>1. PICK at \in Nat : at = arrivals[i].at /\ at >= t
          BY <2>1, <4>1
        <5>2. now <= t + Window /\ now \in Nat /\ Window \in Nat
          BY <1>1, <2>2
        <5>3. at + 2 * Window >= end
          BY <1>4, <5>1, <5>2
        <5>4. QED
          BY <5>1, <5>3
      <4>2. ASSUME NEW i \in Admitted(key), arrivals'[i].at \in t .. t + Window
            PROVE  i \in InWindow(key, end) \cup InWindowBefore(key, end)
        <5>1. arrivals[i].at >= t
          BY <1>1, <2>1, <4>2
        <5>2. CASE arrivals[i].at + Window >= end
          BY <5>2 DEF InWindow
        <5>3. CASE ~ (arrivals[i].at + Window >= end)
          <6>1. PICK a \in Nat : a = arrivals[i].at
            BY <2>1
          <6>2. PICK e \in Nat : e = end
            OBVIOUS
          <6>3. a + Window < e /\ a + 2 * Window >= e
            BY <1>1, <5>3, <6>1, <6>2, <4>1, <5>1
          <6>4. QED
            BY <6>1, <6>2, <6>3 DEF InWindowBefore
        <5>4. QED
          BY <5>2, <5>3
      <4>3. QED
        BY <4>2, <1>5
    <3>2. Cardinality(InWindow(key, end)') <= MaxPerWindow /\ Cardinality(InWindowBefore(key, end)) <= MaxPerWindow
      BY <1>8 DEF Tells
    <3>3. QED
      BY <1>1, <1>7, <1>8, <3>1, <3>2, TwoSets
  <2>3. CASE now \notin t .. t + Window
    <3>1. {i \in Admitted(key)' : arrivals'[i].at \in t .. t + Window} =
            {i \in Admitted(key) : arrivals[i].at \in t .. t + Window}
      BY <2>1, <2>3
    <3>2. QED
      BY <3>1 DEF RateInv, WindowsTell, TwiceAtMost
  <2>4. QED
    BY <2>2, <2>3
<1>11. QED
  BY <1>9, <1>10 DEF TwiceAtMost

\* A request with a valid key is counted first, and then turned away or let through.
LEMMA CountedKeeps ==
    ASSUME RateInv, NEW key \in ValidKeys, NEW w, w = CountRequest(key),
           script' = script, now' = now, UNCHANGED <<userRows, orderRows>>,
           windows' = [k \in DOMAIN windows \cup {key} |-> IF k = key THEN w ELSE windows[k]],
           NEW answer \in Answers, NEW call \in {"none", "sent", "performed", "failed"},
           arrivals' = Append(arrivals, Arrived(answer, call)),
           script[Len(arrivals) + 1].key = key, Kind(Len(arrivals) + 1) # "health",
           IF w.count > MaxPerWindow THEN answer = "429" ELSE answer \notin {"401", "429"}
    PROVE  RateInv'
<1>1. /\ GatewayTypes /\ now \in Nat /\ Window \in Nat /\ MaxPerWindow \in Nat
      /\ DOMAIN arrivals = 1 .. Len(arrivals) /\ Len(arrivals) \in Nat
      /\ \A i \in DOMAIN arrivals : arrivals[i].at \in Nat
  BY GatewayNumbers DEF RateInv
<1>n. PICK n : n = Len(arrivals) + 1
  OBVIOUS
<1>2. /\ w \in [count : Nat, resetAt : Nat] /\ w.count >= 1 /\ now <= w.resetAt
      /\ Tells(key, w.count - 1, w.resetAt)
  BY CountedTells
<1>c. PICK count \in Nat, end \in Nat : w = [count |-> count + 1, resetAt |-> end]
  <2>1. PICK c \in Nat, e \in Nat : w = [count |-> c, resetAt |-> e]
    BY <1>2
  <2>2. c - 1 \in Nat /\ c = (c - 1) + 1
    BY <1>2, <2>1
  <2>3. QED
    BY <2>1, <2>2
<1>3. Tells(key, count, end) /\ now <= end /\ w.count = count + 1 /\ w.resetAt = end
  <2>1. w.count = count + 1 /\ w.resetAt = end /\ (count + 1) - 1 = count
    BY <1>c
  <2>2. QED
    BY <1>2, <2>1
<1>4. /\ arrivals' \in Seq(Request)
      /\ DOMAIN arrivals' = DOMAIN arrivals \cup {n} /\ n \notin DOMAIN arrivals /\ n \in Nat \ {0}
      /\ \A i \in DOMAIN arrivals : arrivals'[i] = arrivals[i]
      /\ arrivals'[n].at = now /\ arrivals'[n].answer = answer
  BY <1>1, <1>n, RequestArrives
<1>5. GatewayTypes'
  <2>1. DOMAIN windows' \subseteq ValidKeys /\ \A k \in DOMAIN windows' : windows'[k] \in [count : Nat, resetAt : Nat]
    BY <1>1, <1>2 DEF GatewayTypes
  <2>2. QED
    BY <1>1, <1>4, <2>1 DEF GatewayTypes
<1>6. now' \in Nat /\ now' >= now
  BY <1>1
<1>7. /\ \A k : k # key => Admitted(k)' = Admitted(k)
      /\ Admitted(key)' = Admitted(key) \cup (IF answer \notin {"401", "429"} THEN {n} ELSE {})
  <2>1. \A k : Admitted(k)' = Admitted(k) \cup
                 (IF script[n].key = k /\ Kind(n) # "health" /\ answer \notin {"401", "429"} THEN {n} ELSE {})
    BY <1>1, <1>n, AdmittedGrow
  <2>2. script[n].key = key /\ Kind(n) # "health"
    BY <1>n
  <2>3. QED
    BY <2>1, <2>2
<1>8. ASSUME NEW k, k # key
      PROVE  /\ TwiceAtMost(k) => TwiceAtMost(k)'
             /\ \A c, e \in Nat : Tells(k, c, e) => Tells(k, c, e)'
  <2>1. \A i \in DOMAIN arrivals : arrivals'[i].at = arrivals[i].at
    BY <1>4
  <2>2. Admitted(k)' = Admitted(k)
    BY <1>7, <1>8
  <2>3. QED
    BY <1>1, <1>6, <2>1, <2>2, ClientKeeps
<1>9. Tells(key, count + 1, end)' /\ TwiceAtMost(key)' /\ (answer = "429" => Earned(n)')
  <2>1. \A i \in DOMAIN arrivals : arrivals'[i].at = arrivals[i].at
    BY <1>4
  <2>2. CASE w.count > MaxPerWindow
    <3>1. count >= MaxPerWindow /\ Admitted(key)' = Admitted(key) /\ script[n].key = key
      BY <2>2, <1>1, <1>3, <1>7, <1>n
    <3>2. Tells(key, count + 1, end)' /\ TwiceAtMost(key)' /\ Earned(n)'
      BY <1>3, <1>4, <1>n, <2>1, <3>1, RefusedTells
    <3>3. QED
      BY <3>2
  <2>3. CASE ~ (w.count > MaxPerWindow)
    <3>1. count + 1 <= MaxPerWindow /\ answer \notin {"401", "429"} /\ Admitted(key)' = Admitted(key) \cup {n}
      BY <2>3, <1>1, <1>3, <1>7
    <3>2. Tells(key, count + 1, end)' /\ TwiceAtMost(key)'
      BY <1>3, <1>4, <1>n, <2>1, <3>1, LetInTells
    <3>3. QED
      BY <3>1, <3>2
  <2>4. QED
    BY <2>2, <2>3
<1>10. WindowsTell'
  <2>1. \A i \in DOMAIN arrivals' : arrivals'[i].at <= now'
    BY <1>1, <1>4 DEF RateInv, WindowsTell
  <2>2. ASSUME NEW k \in ValidKeys PROVE TwiceAtMost(k)' /\ (k \notin DOMAIN windows' => Admitted(k)' = {})
    <3>1. CASE k = key
      BY <1>9, <3>1
    <3>2. CASE k # key
      BY <1>7, <1>8, <3>2 DEF RateInv, WindowsTell
    <3>3. QED
      BY <3>1, <3>2
  <2>3. ASSUME NEW k \in DOMAIN windows' PROVE Tells(k, windows[k].count, windows[k].resetAt)'
    <3>1. CASE k = key
      <4>1. windows'[k].count = count + 1 /\ windows'[k].resetAt = end
        BY <1>3, <3>1
      <4>2. QED
        BY <1>9, <3>1, <4>1
    <3>2. CASE k # key
      <4>1. k \in DOMAIN windows /\ windows'[k] = windows[k]
        BY <3>2
      <4>2. PICK c \in Nat, r \in Nat : windows[k] = [count |-> c, resetAt |-> r]
        BY <1>1, <4>1 DEF GatewayTypes
      <4>3. Tells(k, c, r)
        BY <4>1, <4>2 DEF RateInv, WindowsTell
      <4>4. Tells(k, c, r)'
        BY <1>8, <3>2, <4>3
      <4>5. windows'[k].count = c /\ windows'[k].resetAt = r
        BY <4>1, <4>2
      <4>6. QED
        BY <4>4, <4>5
    <3>3. QED
      BY <3>1, <3>2
  <2>4. QED
    BY <2>1, <2>2, <2>3 DEF WindowsTell
<1>11. ASSUME NEW i \in DOMAIN arrivals', arrivals'[i].answer = "429" PROVE Earned(i)'
  <2>1. CASE i = n
    BY <1>4, <1>9, <1>11, <2>1
  <2>2. CASE i \in DOMAIN arrivals
    <3>1. Earned(i)
      BY <1>4, <1>11, <2>2 DEF RateInv, RefusalsAreEarned, Earned
    <3>2. \A k : Admitted(k) \subseteq DOMAIN arrivals
      BY DEF Admitted
    <3>3. \A k : Admitted(k)' \cap DOMAIN arrivals = Admitted(k)
      BY <1>4, <1>7, <3>2
    <3>4. \A k : Admitted(k)' \subseteq Nat \ {0}
      BY <1>1, <1>4, <1>7, <3>2
    <3>5. \A j \in DOMAIN arrivals : arrivals'[j].at = arrivals[j].at
      BY <1>4
    <3>6. QED
      BY <1>1, <2>2, <3>1, <3>3, <3>4, <3>5, EarnedStays
  <2>3. QED
    BY <1>4, <2>1, <2>2
<1>12. RefusalsAreEarned'
  BY <1>11 DEF RefusalsAreEarned, Earned
<1>13. QED
  BY <1>5, <1>10, <1>12 DEF RateInv

-----------------------------------------------------------------------------
\* What is known of request i: its row is there when a backend performed it, what it
\* was told is so, what a dashboard read has the rows acknowledged before it and the
\* users of the orders among them, and it shows what it read.
Handled(i) ==
    LET a == arrivals[i]
    IN  /\ a.call = "performed" => /\ Kind(i) = "user" => i \in userRows
                                   /\ Kind(i) = "order" => i \in orderRows
        /\ (a.call = "performed" /\ a.answer = "none") => Kind(i) \in {"user", "order", "incomplete"}
        /\ a.answer = "201" => i \in userRows \cup orderRows
        /\ a.answer = "400" => Kind(i) = "incomplete"
        /\ a.answer \in {"401", "429"} => a.call = "none"
        /\ a.acknowledged \subseteq userRows \cup orderRows
        /\ a.read # {} => Kind(i) = "dashboard"
        /\ "user-service" \in a.read => {x \in a.acknowledged : Kind(x) = "user"} \subseteq a.usersRead
        /\ "order-service" \in a.read => {x \in a.acknowledged : Kind(x) = "order"} \subseteq a.ordersRead
        /\ UserPost(i) \subseteq userRows
        /\ "user-service" \in a.read => \A x \in a.acknowledged : UserPost(x) \subseteq a.usersRead
        /\ (Kind(i) = "dashboard" /\ a.answer = "200") =>
             a.read = Backends /\ a.shown = OrdersByUser(a.usersRead, a.ordersRead)

RowsArePerformed ==
    /\ \A x \in userRows : x \in DOMAIN arrivals /\ Kind(x) = "user" /\ arrivals[x].call = "performed"
    /\ \A x \in orderRows : x \in DOMAIN arrivals /\ Kind(x) = "order" /\ arrivals[x].call = "performed"

GatewayInv == RateInv /\ RowsArePerformed /\ \A i \in DOMAIN arrivals : Handled(i)

\* No request has arrived.
LEMMA GatewayStarts == GatewayInit => GatewayInv
<1> SUFFICES ASSUME GatewayInit PROVE GatewayInv
  OBVIOUS
<1>1. arrivals = <<>> /\ DOMAIN arrivals = {} /\ DOMAIN windows = {} /\ now = 0 /\ arrivals \in Seq(Request)
  BY DEF GatewayInit
<1>2. GatewayTypes
  BY <1>1 DEF GatewayTypes, GatewayInit
<1>3. \A key : Admitted(key) = {}
  BY <1>1 DEF Admitted
<1>4. MaxPerWindow \in Nat
  BY <1>2, GatewayNumbers
<1>5. \A key : TwiceAtMost(key)
  BY <1>3, <1>4, FS_EmptySet DEF TwiceAtMost
<1>6. RateInv
  BY <1>1, <1>2, <1>3, <1>5 DEF RateInv, WindowsTell, RefusalsAreEarned
<1>7. QED
  BY <1>1, <1>6 DEF GatewayInv, RowsArePerformed, GatewayInit

\* A step on a request that is there, and is turned away or not as before.
LEMMA ReplacedKeeps ==
    ASSUME RateInv, NEW i \in DOMAIN arrivals, NEW r \in Request, arrivals' = [arrivals EXCEPT ![i] = r],
           UNCHANGED <<script, now, windows>>, userRows' \subseteq Nat, orderRows' \subseteq Nat,
           r.at = arrivals[i].at, \A x \in {"401", "429"} : r.answer = x <=> arrivals[i].answer = x
    PROVE  /\ RateInv' /\ DOMAIN arrivals' = DOMAIN arrivals
           /\ arrivals'[i] = r /\ \A j \in DOMAIN arrivals : j # i => arrivals'[j] = arrivals[j]
<1>1. GatewayTypes /\ now \in Nat /\ DOMAIN arrivals = 1 .. Len(arrivals)
  BY GatewayNumbers DEF RateInv
<1>2. /\ DOMAIN arrivals' = DOMAIN arrivals
      /\ arrivals'[i] = r /\ \A j \in DOMAIN arrivals : j # i => arrivals'[j] = arrivals[j]
  OBVIOUS
<1>3. arrivals' \in Seq(Request)
  <2>1. arrivals \in Seq(Request) /\ i \in 1 .. Len(arrivals)
    BY <1>1 DEF GatewayTypes
  <2>2. QED
    BY <2>1, ExceptSeq
<1>4. GatewayTypes'
  BY <1>1, <1>3 DEF GatewayTypes
<1>5. \A j \in DOMAIN arrivals :
        /\ arrivals'[j].at = arrivals[j].at
        /\ arrivals'[j].answer = "401" <=> arrivals[j].answer = "401"
        /\ arrivals'[j].answer = "429" <=> arrivals[j].answer = "429"
  BY <1>2
<1>6. \A key : Admitted(key)' = Admitted(key)
  BY <1>2, <1>5 DEF Admitted, Kind
<1>7. now' >= now /\ DOMAIN arrivals \subseteq DOMAIN arrivals' /\ DOMAIN arrivals' \ DOMAIN arrivals = {}
  BY <1>1, <1>2
<1>8. RateInv'
  BY <1>4, <1>5, <1>6, <1>7, WindowsKeep
<1>9. QED
  BY <1>2, <1>8

\* What is known of the other requests stays true when rows are added.
LEMMA OthersHandled ==
    ASSUME NEW j, Handled(j), arrivals'[j] = arrivals[j], script' = script,
           userRows \subseteq userRows', orderRows \subseteq orderRows'
    PROVE  Handled(j)'
  BY DEF Handled, Kind, UserPost, OrdersByUser

\* A request has its fields, and rows are named by requests.
LEMMA RequestFields ==
    ASSUME GatewayInv, NEW i \in DOMAIN arrivals
    PROVE  /\ arrivals[i] \in Request /\ i \in Nat
           /\ userRows \subseteq Nat /\ orderRows \subseteq Nat /\ now \in Nat
  BY GatewayNumbers DEF GatewayInv, RateInv, GatewayTypes

\* The user service performs a POST: its row is there.
LEMMA PostUserKeeps ==
    ASSUME NEW i \in DOMAIN arrivals, GatewayInv, PostUser(i)
    PROVE  GatewayInv'
<1> DEFINE r == [arrivals[i] EXCEPT !.call = "performed"]
<1>0. RateInv /\ Handled(i) /\ arrivals[i].call = "sent" /\ Kind(i) = "user" /\ i \in Nat
  BY RequestFields DEF GatewayInv, PostUser, Performed
<1>1. r \in Request
  BY RequestFields DEF Request
<1>2. /\ arrivals' = [arrivals EXCEPT ![i] = r] /\ UNCHANGED <<script, now, windows, orderRows>>
      /\ userRows' = userRows \cup {i}
  BY DEF PostUser, Performed
<1>3. userRows' \subseteq Nat /\ orderRows' \subseteq Nat
  BY <1>2, <1>0, RequestFields
<1>4. /\ r.at = arrivals[i].at /\ r.answer = arrivals[i].answer /\ r.call = "performed"
      /\ r.read = arrivals[i].read /\ r.usersRead = arrivals[i].usersRead
      /\ r.ordersRead = arrivals[i].ordersRead /\ r.acknowledged = arrivals[i].acknowledged
      /\ r.shown = arrivals[i].shown
  BY RequestFields DEF Request
<1> HIDE DEF r
<1>5. /\ RateInv' /\ DOMAIN arrivals' = DOMAIN arrivals
      /\ arrivals'[i] = r /\ \A j \in DOMAIN arrivals : j # i => arrivals'[j] = arrivals[j]
  BY <1>0, <1>1, <1>2, <1>3, <1>4, ReplacedKeeps
<1>6. Handled(i)'
  BY <1>0, <1>2, <1>4, <1>5 DEF Handled, Kind, UserPost, OrdersByUser
<1>7. RowsArePerformed'
  BY <1>0, <1>2, <1>4, <1>5 DEF GatewayInv, RowsArePerformed, Kind
<1>8. \A j \in DOMAIN arrivals' : Handled(j)'
  BY <1>2, <1>5, <1>6, OthersHandled DEF GatewayInv
<1>9. QED
  BY <1>5, <1>7, <1>8 DEF GatewayInv

\* The order service performs a POST: its row is there unless it was incomplete.
LEMMA PostOrderKeeps ==
    ASSUME NEW i \in DOMAIN arrivals, GatewayInv, PostOrder(i)
    PROVE  GatewayInv'
<1> DEFINE r == [arrivals[i] EXCEPT !.call = "performed"]
<1>0. /\ RateInv /\ Handled(i) /\ arrivals[i].call = "sent" /\ Kind(i) \in {"order", "incomplete"} /\ i \in Nat
  BY RequestFields DEF GatewayInv, PostOrder, Performed
<1>1. r \in Request
  BY RequestFields DEF Request
<1>2. /\ arrivals' = [arrivals EXCEPT ![i] = r] /\ UNCHANGED <<script, now, windows, userRows>>
      /\ orderRows' = IF Kind(i) = "order" THEN orderRows \cup {i} ELSE orderRows
  BY DEF PostOrder, Performed
<1>3. userRows' \subseteq Nat /\ orderRows' \subseteq Nat /\ orderRows \subseteq orderRows'
  BY <1>2, <1>0, RequestFields
<1>4. /\ r.at = arrivals[i].at /\ r.answer = arrivals[i].answer /\ r.call = "performed"
      /\ r.read = arrivals[i].read /\ r.usersRead = arrivals[i].usersRead
      /\ r.ordersRead = arrivals[i].ordersRead /\ r.acknowledged = arrivals[i].acknowledged
      /\ r.shown = arrivals[i].shown
  BY RequestFields DEF Request
<1> HIDE DEF r
<1>5. /\ RateInv' /\ DOMAIN arrivals' = DOMAIN arrivals
      /\ arrivals'[i] = r /\ \A j \in DOMAIN arrivals : j # i => arrivals'[j] = arrivals[j]
  BY <1>0, <1>1, <1>2, <1>3, <1>4, ReplacedKeeps
<1>6. Handled(i)'
  BY <1>0, <1>2, <1>4, <1>5 DEF Handled, Kind, UserPost, OrdersByUser
<1>7. RowsArePerformed'
  BY <1>0, <1>2, <1>4, <1>5 DEF GatewayInv, RowsArePerformed, Kind
<1>8. \A j \in DOMAIN arrivals' : Handled(j)'
  BY <1>2, <1>3, <1>5, <1>6, OthersHandled DEF GatewayInv
<1>9. QED
  BY <1>5, <1>7, <1>8 DEF GatewayInv

\* A dashboard reads a service, which has every row acknowledged before.
LEMMA ReadRowsKeeps ==
    ASSUME NEW i \in DOMAIN arrivals, NEW service \in Backends, GatewayInv, ReadRows(i, service)
    PROVE  GatewayInv'
<1> DEFINE r == [arrivals[i] EXCEPT
                   !.read = @ \cup {service},
                   !.usersRead = IF service = "user-service" THEN userRows ELSE @,
                   !.ordersRead = IF service = "order-service" THEN orderRows ELSE @]
<1>0. /\ RateInv /\ RowsArePerformed /\ Handled(i) /\ arrivals[i].call = "sent" /\ Kind(i) = "dashboard"
      /\ service \notin arrivals[i].read
  BY DEF GatewayInv, ReadRows
<1>1. r \in Request
  BY RequestFields DEF Request
<1>2. /\ arrivals' = [arrivals EXCEPT ![i] = r]
      /\ UNCHANGED <<script, now, windows, userRows, orderRows>>
  BY DEF ReadRows
<1>3. userRows' \subseteq Nat /\ orderRows' \subseteq Nat
  BY <1>2, RequestFields
<1>4. /\ r.at = arrivals[i].at /\ r.answer = arrivals[i].answer /\ r.call = "sent"
      /\ r.read = arrivals[i].read \cup {service} /\ r.acknowledged = arrivals[i].acknowledged
      /\ r.usersRead = (IF service = "user-service" THEN userRows ELSE arrivals[i].usersRead)
      /\ r.ordersRead = (IF service = "order-service" THEN orderRows ELSE arrivals[i].ordersRead)
      /\ r.answer = arrivals[i].answer /\ r.shown = arrivals[i].shown
  BY <1>0, RequestFields DEF Request
<1> HIDE DEF r
<1>5. /\ RateInv' /\ DOMAIN arrivals' = DOMAIN arrivals
      /\ arrivals'[i] = r /\ \A j \in DOMAIN arrivals : j # i => arrivals'[j] = arrivals[j]
  BY <1>0, <1>1, <1>2, <1>3, <1>4, ReplacedKeeps
<1>6. Handled(i)'
  <2>1. /\ {x \in arrivals[i].acknowledged : Kind(x) = "user"} \subseteq userRows
        /\ {x \in arrivals[i].acknowledged : Kind(x) = "order"} \subseteq orderRows
    BY <1>0 DEF Handled, RowsArePerformed
  <2>2. arrivals[i].read \subseteq Backends
    BY RequestFields DEF Request
  <2>3. /\ "user-service" \in r.read => {x \in r.acknowledged : Kind(x) = "user"} \subseteq r.usersRead
        /\ "order-service" \in r.read => {x \in r.acknowledged : Kind(x) = "order"} \subseteq r.ordersRead
    BY <1>0, <1>4, <2>1, <2>2 DEF Handled, Backends
  <2>4. \A x \in arrivals[i].acknowledged : UserPost(x) \subseteq userRows
    <3>1. arrivals[i].acknowledged \subseteq DOMAIN arrivals
      BY <1>0 DEF Handled, RowsArePerformed
    <3>2. QED
      BY <3>1 DEF GatewayInv, Handled
  <2>5. "user-service" \in r.read => \A x \in r.acknowledged : UserPost(x) \subseteq r.usersRead
    BY <1>0, <1>4, <2>4 DEF Handled
  <2>6. r.answer # "200"
    BY <1>0, <1>4 DEF Handled, Backends
  <2>7. QED
    BY <1>0, <1>2, <1>4, <1>5, <2>3, <2>5, <2>6 DEF Handled, Kind, UserPost, OrdersByUser
<1>7. RowsArePerformed'
  BY <1>0, <1>2, <1>4, <1>5 DEF RowsArePerformed, Kind
<1>8. \A j \in DOMAIN arrivals' : Handled(j)'
  BY <1>2, <1>5, <1>6, OthersHandled DEF GatewayInv
<1>9. QED
  BY <1>5, <1>7, <1>8 DEF GatewayInv

\* A request is answered, or its call is over: no row comes or goes.
LEMMA AnsweredKeeps ==
    ASSUME NEW i \in DOMAIN arrivals, GatewayInv, NEW answer \in Answers,
           NEW call \in {"none", "sent", "performed", "failed"},
           NEW shown \in Shows,
           NEW r, r = [arrivals[i] EXCEPT !.answer = answer, !.call = call, !.shown = shown],
           arrivals' = [arrivals EXCEPT ![i] = r],
           UNCHANGED <<script, now, windows, userRows, orderRows>>,
           \A x \in {"401", "429"} : answer = x <=> arrivals[i].answer = x,
           arrivals[i].call = "performed" => call = "performed",
           call = "performed" => /\ Kind(i) = "user" => i \in userRows
                                 /\ Kind(i) = "order" => i \in orderRows,
           (call = "performed" /\ answer = "none") => Kind(i) \in {"user", "order", "incomplete"},
           answer = "201" => i \in userRows \cup orderRows,
           answer = "400" => Kind(i) = "incomplete",
           answer \in {"401", "429"} => call = "none",
           (Kind(i) = "dashboard" /\ answer = "200") =>
              /\ arrivals[i].read = Backends
              /\ shown = OrdersByUser(arrivals[i].usersRead, arrivals[i].ordersRead)
    PROVE  GatewayInv'
<1>0. RateInv /\ RowsArePerformed /\ Handled(i)
  BY DEF GatewayInv
<1>1. r \in Request
  BY RequestFields DEF Request
<1>3. userRows' \subseteq Nat /\ orderRows' \subseteq Nat
  BY RequestFields
<1>4. /\ r.at = arrivals[i].at /\ r.answer = answer /\ r.call = call
      /\ r.read = arrivals[i].read /\ r.usersRead = arrivals[i].usersRead
      /\ r.ordersRead = arrivals[i].ordersRead /\ r.acknowledged = arrivals[i].acknowledged
      /\ r.shown = shown
  BY RequestFields DEF Request
<1>5. /\ RateInv' /\ DOMAIN arrivals' = DOMAIN arrivals
      /\ arrivals'[i] = r /\ \A j \in DOMAIN arrivals : j # i => arrivals'[j] = arrivals[j]
  BY <1>0, <1>1, <1>3, <1>4, ReplacedKeeps
<1>6. Handled(i)'
  <2>1. \A j : Kind(j)' = Kind(j) /\ UserPost(j)' = UserPost(j)
    BY DEF Kind, UserPost
  <2>2. OrdersByUser(r.usersRead, r.ordersRead)' = OrdersByUser(arrivals[i].usersRead, arrivals[i].ordersRead)
    BY <1>4 DEF OrdersByUser
  <2>3. /\ r.call = "performed" => /\ Kind(i) = "user" => i \in userRows
                                   /\ Kind(i) = "order" => i \in orderRows
        /\ (r.call = "performed" /\ r.answer = "none") => Kind(i) \in {"user", "order", "incomplete"}
        /\ r.answer = "201" => i \in userRows \cup orderRows
        /\ r.answer = "400" => Kind(i) = "incomplete"
        /\ r.answer \in {"401", "429"} => r.call = "none"
        /\ (Kind(i) = "dashboard" /\ r.answer = "200") =>
             r.read = Backends /\ r.shown = OrdersByUser(arrivals[i].usersRead, arrivals[i].ordersRead)
    BY <1>4
  <2>4. /\ r.acknowledged \subseteq userRows \cup orderRows
        /\ r.read # {} => Kind(i) = "dashboard"
        /\ "user-service" \in r.read => {x \in r.acknowledged : Kind(x) = "user"} \subseteq r.usersRead
        /\ "order-service" \in r.read => {x \in r.acknowledged : Kind(x) = "order"} \subseteq r.ordersRead
        /\ UserPost(i) \subseteq userRows
        /\ "user-service" \in r.read => \A x \in r.acknowledged : UserPost(x) \subseteq r.usersRead
    BY <1>0, <1>4 DEF Handled
  <2>5. QED
    BY <1>5, <2>1, <2>2, <2>3, <2>4 DEF Handled
<1>7. RowsArePerformed'
  BY <1>0, <1>4, <1>5 DEF RowsArePerformed, Kind
<1>8. \A j \in DOMAIN arrivals' : Handled(j)'
  BY <1>5, <1>6, OthersHandled DEF GatewayInv
<1>9. QED
  BY <1>5, <1>7, <1>8 DEF GatewayInv

\* A backend that cannot be reached has written no row.
LEMMA CallFailsKeeps ==
    ASSUME NEW i \in DOMAIN arrivals, GatewayInv, CallFails(i)
    PROVE  GatewayInv'
<1>1. PICK answer : answer = (IF arrivals[i].answer = "none" THEN "502" ELSE arrivals[i].answer)
  OBVIOUS
<1>s. PICK shown : shown = arrivals[i].shown
  OBVIOUS
<1>2. PICK r : r = [arrivals[i] EXCEPT !.answer = answer, !.call = "failed", !.shown = shown]
  OBVIOUS
<1>3. arrivals[i] \in Request /\ answer \in Answers /\ shown \in Shows /\ Handled(i)
  BY <1>s, <1>1, RequestFields DEF Request, Answers, GatewayInv
<1>4. arrivals' = [arrivals EXCEPT ![i] = r] /\ arrivals[i].call = "sent"
  BY <1>s, <1>1, <1>2, <1>3 DEF CallFails, Request
<1>5. /\ UNCHANGED <<script, now, windows, userRows, orderRows>>
      /\ \A x \in {"401", "429"} : answer = x <=> arrivals[i].answer = x
      /\ answer = "201" => i \in userRows \cup orderRows
      /\ answer = "400" => Kind(i) = "incomplete"
      /\ answer \notin {"401", "429"}
      /\ (Kind(i) = "dashboard" /\ answer = "200") =>
           /\ arrivals[i].read = Backends
           /\ shown = OrdersByUser(arrivals[i].usersRead, arrivals[i].ordersRead)
  BY <1>s, <1>1, <1>3, <1>4 DEF CallFails, Handled
<1>6. QED
  BY <1>2, <1>3, <1>4, <1>5, AnsweredKeeps

\* The proxy passes the answer on: the row is there, or was refused.
LEMMA ProxyAnswersKeeps ==
    ASSUME NEW i \in DOMAIN arrivals, GatewayInv, ProxyAnswers(i)
    PROVE  GatewayInv'
<1>1. PICK answer : answer = (IF Kind(i) = "incomplete" THEN "400" ELSE "201")
  OBVIOUS
<1>s. PICK shown : shown = arrivals[i].shown
  OBVIOUS
<1>2. PICK r : r = [arrivals[i] EXCEPT !.answer = answer, !.call = "performed", !.shown = shown]
  OBVIOUS
<1>3. /\ arrivals[i] \in Request /\ shown \in Shows /\ answer \in Answers /\ Handled(i)
      /\ arrivals[i].answer = "none" /\ arrivals[i].call = "performed"
  BY <1>s, <1>1, RequestFields DEF Answers, GatewayInv, ProxyAnswers, Request
<1>4. arrivals' = [arrivals EXCEPT ![i] = r]
  BY <1>s, <1>1, <1>2, <1>3 DEF ProxyAnswers, Request
<1>5. /\ UNCHANGED <<script, now, windows, userRows, orderRows>>
      /\ \A x \in {"401", "429"} : answer = x <=> arrivals[i].answer = x
      /\ Kind(i) = "user" => i \in userRows
      /\ Kind(i) = "order" => i \in orderRows
      /\ answer = "201" => i \in userRows \cup orderRows
      /\ answer = "400" => Kind(i) = "incomplete"
      /\ answer \notin {"none", "200", "401", "429"}
  BY <1>1, <1>3 DEF ProxyAnswers, Handled
<1>6. QED
  BY <1>2, <1>3, <1>4, <1>5, AnsweredKeeps

\* The proxy answers 502, which promises nothing.
LEMMA ProxyGivesUpKeeps ==
    ASSUME NEW i \in DOMAIN arrivals, GatewayInv, ProxyGivesUp(i)
    PROVE  GatewayInv'
<1>1. PICK call : call = arrivals[i].call
  OBVIOUS
<1>s. PICK shown : shown = arrivals[i].shown
  OBVIOUS
<1>2. PICK r : r = [arrivals[i] EXCEPT !.answer = "502", !.call = call, !.shown = shown]
  OBVIOUS
<1>3. /\ arrivals[i] \in Request /\ shown \in Shows /\ call \in {"none", "sent", "performed", "failed"} /\ Handled(i)
      /\ "502" \in Answers /\ arrivals[i].answer = "none"
  BY <1>s, <1>1, RequestFields DEF Answers, GatewayInv, ProxyGivesUp, Request
<1>4. arrivals' = [arrivals EXCEPT ![i] = r]
  BY <1>s, <1>1, <1>2, <1>3 DEF ProxyGivesUp, Request
<1>5. /\ UNCHANGED <<script, now, windows, userRows, orderRows>>
      /\ call = "performed" => /\ Kind(i) = "user" => i \in userRows
                               /\ Kind(i) = "order" => i \in orderRows
  BY <1>1, <1>3 DEF ProxyGivesUp, Handled
<1>6. \A x \in {"401", "429"} : "502" = x <=> arrivals[i].answer = x
  BY <1>3
<1>7. PICK answer : answer = "502"
  OBVIOUS
<1>8. answer \notin {"none", "200", "201", "400", "401", "429"}
  BY <1>7
<1>9. QED
  BY <1>1, <1>2, <1>3, <1>4, <1>5, <1>6, <1>7, <1>8, AnsweredKeeps

\* The dashboard answers when it has read both services.
LEMMA DashboardAnswersKeeps ==
    ASSUME NEW i \in DOMAIN arrivals, GatewayInv, DashboardAnswers(i)
    PROVE  GatewayInv'
<1>s. PICK shown : shown = OrdersByUser(arrivals[i].usersRead, arrivals[i].ordersRead)
  OBVIOUS
<1>1. PICK r : r = [arrivals[i] EXCEPT !.answer = "200", !.call = "performed", !.shown = shown]
  OBVIOUS
<1>2. /\ arrivals[i] \in Request /\ "200" \in Answers /\ arrivals[i].answer = "none"
      /\ arrivals[i].read = Backends /\ Kind(i) = "dashboard"
  BY RequestFields DEF Answers, GatewayInv, DashboardAnswers, Handled, Backends
<1>3. arrivals' = [arrivals EXCEPT ![i] = r] /\ UNCHANGED <<script, now, windows, userRows, orderRows>>
  BY <1>s, <1>1, <1>2 DEF DashboardAnswers, Request
<1>4. shown \in Shows
  <2>1. arrivals[i].usersRead \subseteq Nat /\ arrivals[i].ordersRead \subseteq Nat
    BY <1>2 DEF Request
  <2>2. arrivals[i].usersRead \cup {Seeded} \in SUBSET Nat
    BY <2>1 DEF Seeded
  <2>3. shown \in [arrivals[i].usersRead \cup {Seeded} -> SUBSET Nat]
    BY <1>s, <2>1 DEF OrdersByUser
  <2>4. QED
    BY <2>2, <2>3 DEF Shows
<1>5. PICK answer, call : answer = "200" /\ call = "performed"
  OBVIOUS
<1>6. /\ r = [arrivals[i] EXCEPT !.answer = answer, !.call = call, !.shown = shown]
      /\ answer \in Answers /\ call \in {"none", "sent", "performed", "failed"}
      /\ \A x \in {"401", "429"} : answer = x <=> arrivals[i].answer = x
      /\ answer \notin {"none", "201", "400", "401", "429"}
      /\ Kind(i) \notin {"user", "order"}
  BY <1>1, <1>2, <1>5
<1>7. QED
  BY <1>s, <1>2, <1>3, <1>4, <1>5, <1>6, AnsweredKeeps

\* Time passes: what is known of the windows is about instants gone by.
LEMMA GatewayTickKeeps ==
    ASSUME GatewayInv, GatewayTick
    PROVE  GatewayInv'
<1>1. /\ RateInv /\ GatewayTypes /\ now \in Nat /\ now' = now + 1
      /\ UNCHANGED <<script, windows, arrivals, userRows, orderRows>>
  BY GatewayNumbers DEF GatewayInv, RateInv, GatewayTick
<1>2. now' \in Nat /\ now' >= now
  BY <1>1
<1>3. GatewayTypes' /\ \A key : Admitted(key)' = Admitted(key)
  BY <1>1, <1>2 DEF GatewayTypes, Admitted, Kind
<1>4. RateInv'
  BY <1>1, <1>2, <1>3, WindowsKeep
<1>5. \A i \in DOMAIN arrivals : Handled(i)'
  BY <1>1 DEF GatewayInv, Handled, Kind, UserPost, OrdersByUser
<1>6. QED
  BY <1>1, <1>4, <1>5 DEF GatewayInv, RowsArePerformed, Kind

\* A request arrives: /health passes, an unknown key is refused uncounted, and the
\* others are counted.
LEMMA NextArrivesKeeps ==
    ASSUME GatewayInv, NextArrives
    PROVE  GatewayInv'
<1>n. PICK n : n = Len(arrivals) + 1
  OBVIOUS
<1>k. PICK key, kind : key = script[n].key /\ kind = Kind(n)
  OBVIOUS
<1>1. Arrive(key, kind)
  BY <1>n, <1>k DEF NextArrives, Kind
<1>u. UserPost(n) \subseteq userRows
  BY <1>n DEF NextArrives
<1>2. RateInv /\ GatewayTypes /\ UNCHANGED <<script, now, userRows, orderRows>>
  BY <1>1 DEF Arrive, GatewayInv, RateInv
<1>3. \E answer \in Answers, call \in {"none", "sent"} :
        /\ arrivals' = Append(arrivals, Arrived(answer, call)) /\ RateInv'
        /\ answer \in {"401", "429"} => call = "none"
        /\ answer \notin {"201", "400"}
        /\ answer = "200" => kind = "health"
  <2>1. ASSUME NEW answer \in {"200", "401"}, UNCHANGED windows,
               arrivals' = Append(arrivals, Arrived(answer, "none")),
               answer = "401" \/ kind = "health"
        PROVE  RateInv'
    <3>0. answer \in Answers
      BY DEF Answers
    <3>1. /\ arrivals' \in Seq(Request) /\ now \in Nat
          /\ DOMAIN arrivals' = DOMAIN arrivals \cup {n}
          /\ \A i \in DOMAIN arrivals : arrivals'[i] = arrivals[i]
          /\ arrivals'[n].at = now /\ arrivals'[n].answer = answer
      BY <1>2, <1>n, <2>1, <3>0, RequestArrives DEF GatewayTypes
    <3>2. \A k : Admitted(k)' = Admitted(k)
      <4>1. \A k : Admitted(k)' = Admitted(k) \cup
                 (IF script[n].key = k /\ Kind(n) # "health" /\ answer \notin {"401", "429"} THEN {n} ELSE {})
        BY <1>2, <1>n, <2>1, <3>0, AdmittedGrow
      <4>2. QED
        BY <4>1, <2>1, <1>k
    <3>3. GatewayTypes'
      BY <1>2, <2>1, <3>1 DEF GatewayTypes
    <3>4. now' >= now
      BY <1>2, <3>1
    <3>5. \A i \in DOMAIN arrivals' \ DOMAIN arrivals : arrivals'[i].at <= now' /\ arrivals'[i].answer # "429"
      BY <1>2, <2>1, <3>1
    <3>6. QED
      BY <1>2, <2>1, <3>1, <3>2, <3>3, <3>4, <3>5, WindowsKeep
  <2>2. CASE kind = "health"
    <3>1. UNCHANGED windows /\ arrivals' = Append(arrivals, Arrived("200", "none"))
      BY <1>1, <2>2 DEF Arrive
    <3>2. QED
      BY <2>1, <2>2, <3>1 DEF Answers
  <2>3. CASE kind # "health" /\ key \notin ValidKeys
    <3>1. UNCHANGED windows /\ arrivals' = Append(arrivals, Arrived("401", "none"))
      BY <1>1, <2>3 DEF Arrive
    <3>2. QED
      BY <2>1, <2>3, <3>1 DEF Answers
  <2>4. CASE kind # "health" /\ key \in ValidKeys
    <3>1. PICK w : w = CountRequest(key)
      OBVIOUS
    <3>2. /\ windows' = [k \in DOMAIN windows \cup {key} |-> IF k = key THEN w ELSE windows[k]]
          /\ arrivals' = Append(arrivals, IF w.count > MaxPerWindow THEN Arrived("429", "none")
                                          ELSE IF kind = "unrouted" THEN Arrived("404", "none")
                                          ELSE Arrived("none", "sent"))
      BY <1>1, <2>4, <3>1 DEF Arrive
    <3>3. PICK answer \in Answers, call \in {"none", "sent"} :
            /\ arrivals' = Append(arrivals, Arrived(answer, call))
            /\ IF w.count > MaxPerWindow THEN answer = "429" ELSE answer \notin {"401", "429"}
            /\ answer = "429" => call = "none"
            /\ answer \in {"429", "404", "none"}
      <4>1. CASE w.count > MaxPerWindow
        BY <3>2, <4>1 DEF Answers
      <4>2. CASE ~ (w.count > MaxPerWindow) /\ kind = "unrouted"
        BY <3>2, <4>2 DEF Answers
      <4>3. CASE ~ (w.count > MaxPerWindow) /\ kind # "unrouted"
        BY <3>2, <4>3 DEF Answers
      <4>4. QED
        BY <4>1, <4>2, <4>3
    <3>4. script[Len(arrivals) + 1].key = key /\ Kind(Len(arrivals) + 1) # "health"
      BY <1>n, <1>k, <2>4
    <3>5. RateInv'
      BY <1>2, <2>4, <3>1, <3>2, <3>3, <3>4, CountedKeeps
    <3>6. QED
      BY <3>3, <3>5
  <2>5. QED
    BY <2>2, <2>3, <2>4
<1>4. PICK answer \in Answers, call \in {"none", "sent"} :
        /\ arrivals' = Append(arrivals, Arrived(answer, call)) /\ RateInv'
        /\ answer \in {"401", "429"} => call = "none"
        /\ answer \notin {"201", "400"}
        /\ answer = "200" => kind = "health"
  BY <1>3
<1>5. /\ DOMAIN arrivals' = DOMAIN arrivals \cup {n} /\ n \notin DOMAIN arrivals
      /\ \A i \in DOMAIN arrivals : arrivals'[i] = arrivals[i]
      /\ arrivals'[n].answer = answer /\ arrivals'[n].call = call /\ arrivals'[n].read = {}
      /\ arrivals'[n].acknowledged = {i \in DOMAIN arrivals : arrivals[i].answer = "201"}
  BY <1>2, <1>n, <1>4, RequestArrives
<1>6. Handled(n)'
  <2>1. {i \in DOMAIN arrivals : arrivals[i].answer = "201"} \subseteq userRows \cup orderRows
    BY DEF GatewayInv, Handled
  <2>2. Kind(n)' = kind
    BY <1>2, <1>k DEF Kind
  <2>3. UserPost(n)' = UserPost(n) /\ userRows' = userRows
    BY <1>2 DEF UserPost, Kind
  <2>4. QED
    BY <1>2, <1>u, <1>4, <1>5, <2>1, <2>2, <2>3 DEF Handled
<1>7. \A i \in DOMAIN arrivals : Handled(i)'
  BY <1>2, <1>5, OthersHandled DEF GatewayInv
<1>8. RowsArePerformed'
  BY <1>2, <1>5 DEF GatewayInv, RowsArePerformed, Kind
<1>9. QED
  BY <1>4, <1>5, <1>6, <1>7, <1>8 DEF GatewayInv

\* The four promises follow.
LEMMA GatewayInvPromises == GatewayInv => GatewayPromises
<1> SUFFICES ASSUME GatewayInv PROVE GatewayPromises
  OBVIOUS
<1>1. AtMostTwiceTheLimit
  <2>1. 0 .. now \subseteq Nat
    OBVIOUS
  <2>2. QED
    BY <2>1 DEF GatewayInv, RateInv, WindowsTell, TwiceAtMost, AtMostTwiceTheLimit
<1>2. RefusalsAreEarned
  BY DEF GatewayInv, RateInv
<1>3. AcknowledgedIsShown
  <2>1. ASSUME NEW i \in DOMAIN arrivals, Kind(i) = "dashboard", arrivals[i].answer = "200"
        PROVE  \A j \in arrivals[i].acknowledged :
                 /\ Kind(j) = "user" => j \in DOMAIN arrivals[i].shown
                 /\ Kind(j) = "order" =>
                      /\ j \in arrivals[i].ordersRead
                      /\ UserPost(j) \subseteq DOMAIN arrivals[i].shown
                      /\ \A u \in DOMAIN arrivals[i].shown :
                           j \in arrivals[i].shown[u] <=> script[j].user = u
    <3>1. /\ {x \in arrivals[i].acknowledged : Kind(x) = "user"} \subseteq arrivals[i].usersRead
          /\ {x \in arrivals[i].acknowledged : Kind(x) = "order"} \subseteq arrivals[i].ordersRead
          /\ \A x \in arrivals[i].acknowledged : UserPost(x) \subseteq arrivals[i].usersRead
          /\ arrivals[i].shown = OrdersByUser(arrivals[i].usersRead, arrivals[i].ordersRead)
      BY <2>1 DEF GatewayInv, Handled, Backends
    <3>2. /\ arrivals[i].usersRead \subseteq DOMAIN arrivals[i].shown
          /\ \A u \in DOMAIN arrivals[i].shown :
               arrivals[i].shown[u] = {o \in arrivals[i].ordersRead : script[o].user = u}
      BY <3>1 DEF OrdersByUser
    <3>3. QED
      BY <3>1, <3>2
  <2>2. QED
    BY <2>1 DEF AcknowledgedIsShown
<1>4. AnswersAreTrue
  BY DEF GatewayInv, Handled, RowsArePerformed, AnswersAreTrue
<1>5. QED
  BY <1>1, <1>2, <1>3, <1>4 DEF GatewayPromises

\* The gateway keeps its promises (GatewayPromises) for every traffic, set of keys,
\* window, limit and timeout.
THEOREM GatewayKeepsPromises == GatewaySpec => []GatewayPromises
<1>1. GatewayInit => GatewayInv
  BY GatewayStarts
<1>2. GatewayInv /\ [GatewayNext]_gatewayVars => GatewayInv'
  <2>1. ASSUME GatewayInv, GatewayNext PROVE GatewayInv'
    BY <2>1, NextArrivesKeeps, GatewayTickKeeps, PostUserKeeps, PostOrderKeeps, ReadRowsKeeps, CallFailsKeeps,
       ProxyAnswersKeeps, ProxyGivesUpKeeps, DashboardAnswersKeeps DEF GatewayNext, Backends
  <2>2. ASSUME GatewayInv, UNCHANGED gatewayVars PROVE GatewayInv'
    <3>1. /\ RateInv /\ GatewayTypes /\ now \in Nat /\ now' = now
          /\ UNCHANGED <<script, windows, arrivals, userRows, orderRows>>
      BY <2>2, GatewayNumbers DEF GatewayInv, RateInv, gatewayVars
    <3>2. now' >= now /\ GatewayTypes' /\ \A key : Admitted(key)' = Admitted(key)
      BY <3>1 DEF GatewayTypes, Admitted, Kind
    <3>3. RateInv'
      BY <3>1, <3>2, WindowsKeep
    <3>4. QED
      BY <2>2, <3>1, <3>3 DEF GatewayInv, RowsArePerformed, Handled, Kind, UserPost, OrdersByUser
  <2>3. QED
    BY <2>1, <2>2
<1>3. QED
  BY <1>1, <1>2, GatewayInvPromises, PTL DEF GatewaySpec

-----------------------------------------------------------------------------
(* Event sourcing.  The events of a task, its aggregate and the three      *)
(* views are folds of the log; as functions of a value and an event:       *)

Rows == UNION {[S -> [title : Titles \cup {NoTitle}, done : BOOLEAN]] : S \in SUBSET Tasks}
Counters == [total : Int, completed : Int]
FeedEntries == Seq(Tasks \X Nat)
Events == Seq(Event)

applying == [p \in AggregateState \X Event |-> Apply(p[1], p[2])]
listing == [p \in Rows \X Event |-> ListHandle(p[1], p[2])]
counting == [p \in Counters \X Event |-> StatsHandle(p[1], p[2])]
feeding == [p \in FeedEntries \X Event |-> FeedHandle(p[1], p[2])]
finding(task) == [p \in Events \X Event |-> IF p[2].task = task THEN Append(p[1], p[2]) ELSE p[1]]

\* Each takes a value of its type to one.
LEMMA ApplyingIsTyped == applying \in Operations(AggregateState, Event)
  BY DEF applying, Operations, Apply, AggregateState, Event, Types

\* What the list does of an event.
LEMMA ListingIsTyped == listing \in Operations(Rows, Event)
<1>1. ASSUME NEW view \in Rows, NEW e \in Event PROVE ListHandle(view, e) \in Rows
  <2>1. PICK S \in SUBSET Tasks : view \in [S -> [title : Titles \cup {NoTitle}, done : BOOLEAN]]
    BY DEF Rows
  <2>2. e.task \in Tasks /\ e.title \in Titles \cup {NoTitle} /\ e.type \in Types
    BY DEF Event
  <2>3. CASE e.type = "TaskCreated"
    <3>1. PICK v : v = [t \in DOMAIN view \cup {e.task} |->
                          IF t = e.task THEN [title |-> e.title, done |-> FALSE] ELSE view[t]]
      OBVIOUS
    <3>2. v \in [S \cup {e.task} -> [title : Titles \cup {NoTitle}, done : BOOLEAN]]
      <4>1. [title |-> e.title, done |-> FALSE] \in [title : Titles \cup {NoTitle}, done : BOOLEAN]
        BY <2>2
      <4>2. DOMAIN view = S
        BY <2>1
      <4>3. QED
        BY <2>1, <3>1, <4>1, <4>2
    <3>3. S \cup {e.task} \in SUBSET Tasks
      BY <2>2
    <3>4. ListHandle(view, e) = v
      BY <2>3, <3>1 DEF ListHandle
    <3>5. QED
      BY <3>2, <3>3, <3>4 DEF Rows
  <2>4. CASE e.type # "TaskCreated" /\ e.task \notin DOMAIN view
    BY <2>4 DEF ListHandle
  <2>5. CASE e.type # "TaskCreated" /\ e.task \in DOMAIN view
    <3>1. PICK row : row = CASE e.type = "TaskCompleted" -> [view[e.task] EXCEPT !.done = TRUE]
                             [] e.type = "TaskReopened" -> [view[e.task] EXCEPT !.done = FALSE]
                             [] e.type = "TaskRenamed" -> [view[e.task] EXCEPT !.title = e.title]
      OBVIOUS
    <3>2. e.task \in S /\ view[e.task] \in [title : Titles \cup {NoTitle}, done : BOOLEAN]
      BY <2>1, <2>5
    <3>3. row \in [title : Titles \cup {NoTitle}, done : BOOLEAN]
      BY <2>2, <2>5, <3>1, <3>2 DEF Types
    <3>4. ListHandle(view, e) = [view EXCEPT ![e.task] = row]
      BY <2>5, <3>1 DEF ListHandle
    <3>5. [view EXCEPT ![e.task] = row] \in [S -> [title : Titles \cup {NoTitle}, done : BOOLEAN]]
      BY <2>1, <3>2, <3>3
    <3>6. QED
      BY <3>4, <3>5 DEF Rows
  <2>6. QED
    BY <2>3, <2>4, <2>5
<1>2. QED
  BY <1>1 DEF listing, Operations

\* What the counters do of it.
LEMMA CountingIsTyped == counting \in Operations(Counters, Event)
<1>1. ASSUME NEW view \in Counters, NEW e \in Event PROVE StatsHandle(view, e) \in Counters
  BY DEF StatsHandle, Counters, Event, Types
<1>2. QED
  BY <1>1 DEF counting, Operations

\* What the feed does of it.
LEMMA FeedingIsTyped == feeding \in Operations(FeedEntries, Event)
<1>1. ASSUME NEW view \in FeedEntries, NEW e \in Event PROVE FeedHandle(view, e) \in FeedEntries
  <2>1. <<e.task, e.version>> \in Tasks \X Nat
    BY DEF Event
  <2>2. QED
    BY <2>1, AppendProperties DEF FeedHandle, FeedEntries
<1>2. QED
  BY <1>1 DEF feeding, Operations

\* What the filter of a task does of it.
LEMMA FindingIsTyped == \A task : finding(task) \in Operations(Events, Event)
<1>1. \A found \in Events, e \in Event : Append(found, e) \in Events
  BY AppendProperties DEF Events
<1>2. QED
  BY <1>1 DEF finding, Operations

\* The aggregate is such a fold.
LEMMA ApplyIsResult ==
    ASSUME NEW base \in AggregateState, NEW events \in Seq(Event)
    PROVE  FoldLeft(Apply, base, events) = Result(applying, base, events)
<1>1. PICK h \in [SUBSET DOMAIN events -> AggregateState] :
         \A s \in SUBSET DOMAIN events : h[s] = Turned(applying, base, events, h, s)
  <2>1. HasTable(AggregateState, applying, base, events)
    BY ApplyingIsTyped, FoldExists
  <2>2. QED
    BY <2>1 DEF HasTable
<1>2. \A s \in SUBSET DOMAIN events :
         s # {} => events[Max(s)] \in Event /\ s \ {Max(s)} \in SUBSET DOMAIN events
  BY TurnsAreTyped
<1>3. \A x \in AggregateState, e \in Event : applying[<<x, e>>] = Apply(x, e)
  BY DEF applying
<1>4. h = [s \in SUBSET DOMAIN events |->
             IF s = {} THEN base ELSE Apply(h[s \ {Max(s)}], events[Max(s)])]
  <2>1. ASSUME NEW s \in SUBSET DOMAIN events
        PROVE  h[s] = IF s = {} THEN base ELSE Apply(h[s \ {Max(s)}], events[Max(s)])
    BY <1>1, <1>2, <1>3 DEF Turned
  <2>2. QED
    BY <1>1, <2>1
<1>5. PICK g : /\ g = [s \in SUBSET DOMAIN events |->
                         IF s = {} THEN base ELSE Apply(g[s \ {Max(s)}], events[Max(s)])]
               /\ FoldLeft(Apply, base, events) = g[DOMAIN events]
  BY <1>4 DEF FoldLeft, MapThenFoldSet
<1>6. Tabulates(AggregateState, applying, base, events, g)
  <2>1. g[{}] = base
    BY <1>5
  <2>2. ASSUME NEW s \in SUBSET DOMAIN events, s # {}, g[s \ {Max(s)}] \in AggregateState
        PROVE  g[s] = applying[<<g[s \ {Max(s)}], events[Max(s)]>>]
    BY <1>2, <1>3, <1>5, <2>2
  <2>3. QED
    BY <2>1, <2>2 DEF Tabulates
<1>7. g[DOMAIN events] = Result(applying, base, events)
  BY <1>6, ApplyingIsTyped, FoldIsResult
<1>8. QED
  BY <1>5, <1>7

\* So is the list,
LEMMA ListIsResult ==
    ASSUME NEW base \in Rows, NEW events \in Seq(Event)
    PROVE  FoldLeft(ListHandle, base, events) = Result(listing, base, events)
<1>1. PICK h \in [SUBSET DOMAIN events -> Rows] :
         \A s \in SUBSET DOMAIN events : h[s] = Turned(listing, base, events, h, s)
  <2>1. HasTable(Rows, listing, base, events)
    BY ListingIsTyped, FoldExists
  <2>2. QED
    BY <2>1 DEF HasTable
<1>2. \A s \in SUBSET DOMAIN events :
         s # {} => events[Max(s)] \in Event /\ s \ {Max(s)} \in SUBSET DOMAIN events
  BY TurnsAreTyped
<1>3. \A x \in Rows, e \in Event : listing[<<x, e>>] = ListHandle(x, e)
  BY DEF listing
<1>4. h = [s \in SUBSET DOMAIN events |->
             IF s = {} THEN base ELSE ListHandle(h[s \ {Max(s)}], events[Max(s)])]
  <2>1. ASSUME NEW s \in SUBSET DOMAIN events
        PROVE  h[s] = IF s = {} THEN base ELSE ListHandle(h[s \ {Max(s)}], events[Max(s)])
    BY <1>1, <1>2, <1>3 DEF Turned
  <2>2. QED
    BY <1>1, <2>1
<1>5. PICK g : /\ g = [s \in SUBSET DOMAIN events |->
                         IF s = {} THEN base ELSE ListHandle(g[s \ {Max(s)}], events[Max(s)])]
               /\ FoldLeft(ListHandle, base, events) = g[DOMAIN events]
  BY <1>4 DEF FoldLeft, MapThenFoldSet
<1>6. Tabulates(Rows, listing, base, events, g)
  <2>1. g[{}] = base
    BY <1>5
  <2>2. ASSUME NEW s \in SUBSET DOMAIN events, s # {}, g[s \ {Max(s)}] \in Rows
        PROVE  g[s] = listing[<<g[s \ {Max(s)}], events[Max(s)]>>]
    BY <1>2, <1>3, <1>5, <2>2
  <2>3. QED
    BY <2>1, <2>2 DEF Tabulates
<1>7. g[DOMAIN events] = Result(listing, base, events)
  BY <1>6, ListingIsTyped, FoldIsResult
<1>8. QED
  BY <1>5, <1>7

\* and so are the counters,
LEMMA StatsIsResult ==
    ASSUME NEW base \in Counters, NEW events \in Seq(Event)
    PROVE  FoldLeft(StatsHandle, base, events) = Result(counting, base, events)
<1>1. PICK h \in [SUBSET DOMAIN events -> Counters] :
         \A s \in SUBSET DOMAIN events : h[s] = Turned(counting, base, events, h, s)
  <2>1. HasTable(Counters, counting, base, events)
    BY CountingIsTyped, FoldExists
  <2>2. QED
    BY <2>1 DEF HasTable
<1>2. \A s \in SUBSET DOMAIN events :
         s # {} => events[Max(s)] \in Event /\ s \ {Max(s)} \in SUBSET DOMAIN events
  BY TurnsAreTyped
<1>3. \A x \in Counters, e \in Event : counting[<<x, e>>] = StatsHandle(x, e)
  BY DEF counting
<1>4. h = [s \in SUBSET DOMAIN events |->
             IF s = {} THEN base ELSE StatsHandle(h[s \ {Max(s)}], events[Max(s)])]
  <2>1. ASSUME NEW s \in SUBSET DOMAIN events
        PROVE  h[s] = IF s = {} THEN base ELSE StatsHandle(h[s \ {Max(s)}], events[Max(s)])
    BY <1>1, <1>2, <1>3 DEF Turned
  <2>2. QED
    BY <1>1, <2>1
<1>5. PICK g : /\ g = [s \in SUBSET DOMAIN events |->
                         IF s = {} THEN base ELSE StatsHandle(g[s \ {Max(s)}], events[Max(s)])]
               /\ FoldLeft(StatsHandle, base, events) = g[DOMAIN events]
  BY <1>4 DEF FoldLeft, MapThenFoldSet
<1>6. Tabulates(Counters, counting, base, events, g)
  <2>1. g[{}] = base
    BY <1>5
  <2>2. ASSUME NEW s \in SUBSET DOMAIN events, s # {}, g[s \ {Max(s)}] \in Counters
        PROVE  g[s] = counting[<<g[s \ {Max(s)}], events[Max(s)]>>]
    BY <1>2, <1>3, <1>5, <2>2
  <2>3. QED
    BY <2>1, <2>2 DEF Tabulates
<1>7. g[DOMAIN events] = Result(counting, base, events)
  BY <1>6, CountingIsTyped, FoldIsResult
<1>8. QED
  BY <1>5, <1>7

\* the feed,
LEMMA FeedIsResult ==
    ASSUME NEW base \in FeedEntries, NEW events \in Seq(Event)
    PROVE  FoldLeft(FeedHandle, base, events) = Result(feeding, base, events)
<1>1. PICK h \in [SUBSET DOMAIN events -> FeedEntries] :
         \A s \in SUBSET DOMAIN events : h[s] = Turned(feeding, base, events, h, s)
  <2>1. HasTable(FeedEntries, feeding, base, events)
    BY FeedingIsTyped, FoldExists
  <2>2. QED
    BY <2>1 DEF HasTable
<1>2. \A s \in SUBSET DOMAIN events :
         s # {} => events[Max(s)] \in Event /\ s \ {Max(s)} \in SUBSET DOMAIN events
  BY TurnsAreTyped
<1>3. \A x \in FeedEntries, e \in Event : feeding[<<x, e>>] = FeedHandle(x, e)
  BY DEF feeding
<1>4. h = [s \in SUBSET DOMAIN events |->
             IF s = {} THEN base ELSE FeedHandle(h[s \ {Max(s)}], events[Max(s)])]
  <2>1. ASSUME NEW s \in SUBSET DOMAIN events
        PROVE  h[s] = IF s = {} THEN base ELSE FeedHandle(h[s \ {Max(s)}], events[Max(s)])
    BY <1>1, <1>2, <1>3 DEF Turned
  <2>2. QED
    BY <1>1, <2>1
<1>5. PICK g : /\ g = [s \in SUBSET DOMAIN events |->
                         IF s = {} THEN base ELSE FeedHandle(g[s \ {Max(s)}], events[Max(s)])]
               /\ FoldLeft(FeedHandle, base, events) = g[DOMAIN events]
  BY <1>4 DEF FoldLeft, MapThenFoldSet
<1>6. Tabulates(FeedEntries, feeding, base, events, g)
  <2>1. g[{}] = base
    BY <1>5
  <2>2. ASSUME NEW s \in SUBSET DOMAIN events, s # {}, g[s \ {Max(s)}] \in FeedEntries
        PROVE  g[s] = feeding[<<g[s \ {Max(s)}], events[Max(s)]>>]
    BY <1>2, <1>3, <1>5, <2>2
  <2>3. QED
    BY <2>1, <2>2 DEF Tabulates
<1>7. g[DOMAIN events] = Result(feeding, base, events)
  BY <1>6, FeedingIsTyped, FoldIsResult
<1>8. QED
  BY <1>5, <1>7

\* and the events of a task.
LEMMA FoundIsResult ==
    ASSUME NEW task, NEW base \in Events, NEW events \in Seq(Event)
    PROVE  FoldLeft(LAMBDA found, e : IF e.task = task THEN Append(found, e) ELSE found, base, events) = Result(finding(task), base, events)
<1>1. PICK h \in [SUBSET DOMAIN events -> Events] :
         \A s \in SUBSET DOMAIN events : h[s] = Turned(finding(task), base, events, h, s)
  <2>1. HasTable(Events, finding(task), base, events)
    BY FindingIsTyped, FoldExists
  <2>2. QED
    BY <2>1 DEF HasTable
<1>2. \A s \in SUBSET DOMAIN events :
         s # {} => events[Max(s)] \in Event /\ s \ {Max(s)} \in SUBSET DOMAIN events
  BY TurnsAreTyped
<1>3. \A x \in Events, e \in Event : finding(task)[<<x, e>>] = (IF e.task = task THEN Append(x, e) ELSE x)
  BY DEF finding
<1>4. h = [s \in SUBSET DOMAIN events |->
             IF s = {} THEN base ELSE (IF events[Max(s)].task = task THEN Append(h[s \ {Max(s)}], events[Max(s)]) ELSE h[s \ {Max(s)}])]
  <2>1. ASSUME NEW s \in SUBSET DOMAIN events
        PROVE  h[s] = IF s = {} THEN base ELSE (IF events[Max(s)].task = task THEN Append(h[s \ {Max(s)}], events[Max(s)]) ELSE h[s \ {Max(s)}])
    BY <1>1, <1>2, <1>3 DEF Turned
  <2>2. QED
    BY <1>1, <2>1
<1>5. PICK g : /\ g = [s \in SUBSET DOMAIN events |->
                         IF s = {} THEN base ELSE (IF events[Max(s)].task = task THEN Append(g[s \ {Max(s)}], events[Max(s)]) ELSE g[s \ {Max(s)}])]
               /\ FoldLeft(LAMBDA found, e : IF e.task = task THEN Append(found, e) ELSE found, base, events) = g[DOMAIN events]
  BY <1>4 DEF FoldLeft, MapThenFoldSet
<1>6. Tabulates(Events, finding(task), base, events, g)
  <2>1. g[{}] = base
    BY <1>5
  <2>2. ASSUME NEW s \in SUBSET DOMAIN events, s # {}, g[s \ {Max(s)}] \in Events
        PROVE  g[s] = finding(task)[<<g[s \ {Max(s)}], events[Max(s)]>>]
    <3>1. PICK x \in Events, e \in Event : x = g[s \ {Max(s)}] /\ e = events[Max(s)]
      BY <1>2, <2>2
    <3>2. g[s] = IF e.task = task THEN Append(x, e) ELSE x
      BY <1>5, <2>2, <3>1
    <3>3. QED
      BY <1>3, <3>1, <3>2
  <2>3. QED
    BY <2>1, <2>2 DEF Tabulates
<1>7. g[DOMAIN events] = Result(finding(task), base, events)
  BY <1>6, FindingIsTyped, FoldIsResult
<1>8. QED
  BY <1>5, <1>7


\* The aggregate of no events, and of one more.
LEMMA AggregateLaws ==
    ASSUME NEW events \in Events, NEW e \in Event
    PROVE  /\ FromEvents(<<>>) = emptyTaskState /\ FromEvents(events) \in AggregateState
           /\ FromEvents(Append(events, e)) = Apply(FromEvents(events), e)
<1>1. emptyTaskState \in AggregateState
  BY DEF emptyTaskState, AggregateState
<1>2. PICK more \in Seq(Event) : more = Append(events, e)
  BY AppendProperties DEF Events
<1>3. PICK none \in Seq(Event) : none = <<>>
  BY EmptySeq
<1>4. PICK few \in Seq(Event) : few = events
  BY DEF Events
<1>5. \A es \in Seq(Event) : FromEvents(es) = Result(applying, emptyTaskState, es)
  BY <1>1, ApplyIsResult DEF FromEvents
<1>6. Result(applying, emptyTaskState, none) = emptyTaskState
  BY <1>1, <1>3, ApplyingIsTyped, ResultOfNone
<1>7. Result(applying, emptyTaskState, few) \in AggregateState
  BY <1>1, ApplyingIsTyped, ResultIsTyped
<1>8. Result(applying, emptyTaskState, more) = applying[<<Result(applying, emptyTaskState, few), e>>]
  BY <1>1, <1>2, <1>4, ApplyingIsTyped, ResultOfAppend
<1>9. QED
  BY <1>2, <1>3, <1>4, <1>5, <1>6, <1>7, <1>8 DEF applying

\* The events of a task in no events, and in one more.
LEMMA FoundLaws ==
    ASSUME NEW events \in Events, NEW e \in Event, NEW task
    PROVE  /\ EventsOf(task, <<>>) = <<>> /\ EventsOf(task, events) \in Events
           /\ EventsOf(task, Append(events, e)) =
                IF e.task = task THEN Append(EventsOf(task, events), e) ELSE EventsOf(task, events)
<1>1. PICK none \in Events : none = <<>>
  BY EmptySeq DEF Events
<1>2. PICK more \in Seq(Event) : more = Append(events, e)
  BY AppendProperties DEF Events
<1>3. none \in Seq(Event)
  BY DEF Events
<1>4. PICK few \in Seq(Event) : few = events
  BY DEF Events
<1>5. \A es \in Seq(Event) : EventsOf(task, es) = Result(finding(task), none, es)
  BY <1>1, FoundIsResult DEF EventsOf
<1>6. Result(finding(task), none, none) = none
  BY <1>1, FindingIsTyped, ResultOfNone
<1>7. Result(finding(task), none, few) \in Events
  BY <1>1, FindingIsTyped, ResultIsTyped
<1>8. Result(finding(task), none, more) = finding(task)[<<Result(finding(task), none, few), e>>]
  BY <1>1, <1>2, <1>4, FindingIsTyped, ResultOfAppend
<1>9. QED
  BY <1>1, <1>2, <1>3, <1>4, <1>5, <1>6, <1>7, <1>8 DEF finding

\* A view of no events, of one more, and of one event after what it shows.
LEMMA ListLaws ==
    ASSUME NEW events \in Events, NEW e \in Event
    PROVE  /\ FoldLeft(ListHandle, <<>>, <<>>) = <<>> /\ <<>> \in Rows
           /\ FoldLeft(ListHandle, <<>>, events) \in Rows
           /\ FoldLeft(ListHandle, <<>>, Append(events, e)) = ListHandle(FoldLeft(ListHandle, <<>>, events), e)
           /\ \A view \in Rows : FoldLeft(ListHandle, view, <<e>>) = ListHandle(view, e)
<1>1. PICK start \in Rows : start = <<>>
  <2>1. <<>> \in [{} -> [title : Titles \cup {NoTitle}, done : BOOLEAN]]
    OBVIOUS
  <2>2. QED
    BY <2>1, Zenon DEF Rows
<1>2. PICK more \in Seq(Event) : more = Append(events, e)
  BY AppendProperties DEF Events
<1>3. PICK none \in Seq(Event) : none = <<>>
  BY EmptySeq
<1>4. PICK few \in Seq(Event) : few = events
  BY DEF Events
<1>5. PICK one \in Seq(Event) : one = <<e>>
  BY OneInSequence
<1>6. \A view \in Rows : \A es \in Seq(Event) : FoldLeft(ListHandle, view, es) = Result(listing, view, es)
  BY ListIsResult
<1>7. Result(listing, start, none) = start
  BY <1>3, ListingIsTyped, ResultOfNone
<1>8. Result(listing, start, few) \in Rows
  BY ListingIsTyped, ResultIsTyped
<1>9. Result(listing, start, more) = listing[<<Result(listing, start, few), e>>]
  BY <1>2, <1>4, ListingIsTyped, ResultOfAppend
<1>10. \A view \in Rows : Result(listing, view, one) = listing[<<view, e>>]
  BY <1>5, ListingIsTyped, ResultOfOne
<1>11. \A view \in Rows : listing[<<view, e>>] = ListHandle(view, e)
  BY DEF listing
<1>12. /\ FoldLeft(ListHandle, start, none) = start /\ FoldLeft(ListHandle, start, few) \in Rows
       /\ FoldLeft(ListHandle, start, more) = ListHandle(FoldLeft(ListHandle, start, few), e)
       /\ \A view \in Rows : FoldLeft(ListHandle, view, one) = ListHandle(view, e)
  BY <1>6, <1>7, <1>8, <1>9, <1>10, <1>11
<1>13. QED
  BY <1>1, <1>2, <1>3, <1>4, <1>5, <1>12

\* The same of the counters,
LEMMA StatsLaws ==
    ASSUME NEW events \in Events, NEW e \in Event
    PROVE  /\ FoldLeft(StatsHandle, NoStats, <<>>) = NoStats /\ NoStats \in Counters
           /\ FoldLeft(StatsHandle, NoStats, events) \in Counters
           /\ FoldLeft(StatsHandle, NoStats, Append(events, e)) = StatsHandle(FoldLeft(StatsHandle, NoStats, events), e)
           /\ \A view \in Counters : FoldLeft(StatsHandle, view, <<e>>) = StatsHandle(view, e)
<1>1. PICK start \in Counters : start = NoStats
  <2>1. NoStats \in Counters
    BY DEF NoStats, Counters
  <2>2. QED
    BY <2>1
<1>2. PICK more \in Seq(Event) : more = Append(events, e)
  BY AppendProperties DEF Events
<1>3. PICK none \in Seq(Event) : none = <<>>
  BY EmptySeq
<1>4. PICK few \in Seq(Event) : few = events
  BY DEF Events
<1>5. PICK one \in Seq(Event) : one = <<e>>
  BY OneInSequence
<1>6. \A view \in Counters : \A es \in Seq(Event) : FoldLeft(StatsHandle, view, es) = Result(counting, view, es)
  BY StatsIsResult
<1>7. Result(counting, start, none) = start
  BY <1>3, CountingIsTyped, ResultOfNone
<1>8. Result(counting, start, few) \in Counters
  BY CountingIsTyped, ResultIsTyped
<1>9. Result(counting, start, more) = counting[<<Result(counting, start, few), e>>]
  BY <1>2, <1>4, CountingIsTyped, ResultOfAppend
<1>10. \A view \in Counters : Result(counting, view, one) = counting[<<view, e>>]
  BY <1>5, CountingIsTyped, ResultOfOne
<1>11. \A view \in Counters : counting[<<view, e>>] = StatsHandle(view, e)
  BY DEF counting
<1>12. /\ FoldLeft(StatsHandle, start, none) = start /\ FoldLeft(StatsHandle, start, few) \in Counters
       /\ FoldLeft(StatsHandle, start, more) = StatsHandle(FoldLeft(StatsHandle, start, few), e)
       /\ \A view \in Counters : FoldLeft(StatsHandle, view, one) = StatsHandle(view, e)
  BY <1>6, <1>7, <1>8, <1>9, <1>10, <1>11
<1>13. QED
  BY <1>1, <1>2, <1>3, <1>4, <1>5, <1>12

\* and of the feed.
LEMMA FeedLaws ==
    ASSUME NEW events \in Events, NEW e \in Event
    PROVE  /\ FoldLeft(FeedHandle, <<>>, <<>>) = <<>> /\ <<>> \in FeedEntries
           /\ FoldLeft(FeedHandle, <<>>, events) \in FeedEntries
           /\ FoldLeft(FeedHandle, <<>>, Append(events, e)) = FeedHandle(FoldLeft(FeedHandle, <<>>, events), e)
           /\ \A view \in FeedEntries : FoldLeft(FeedHandle, view, <<e>>) = FeedHandle(view, e)
<1>1. PICK start \in FeedEntries : start = <<>>
  BY EmptySeq DEF FeedEntries
<1>2. PICK more \in Seq(Event) : more = Append(events, e)
  BY AppendProperties DEF Events
<1>3. PICK none \in Seq(Event) : none = <<>>
  BY EmptySeq
<1>4. PICK few \in Seq(Event) : few = events
  BY DEF Events
<1>5. PICK one \in Seq(Event) : one = <<e>>
  BY OneInSequence
<1>6. \A view \in FeedEntries : \A es \in Seq(Event) : FoldLeft(FeedHandle, view, es) = Result(feeding, view, es)
  BY FeedIsResult
<1>7. Result(feeding, start, none) = start
  BY <1>3, FeedingIsTyped, ResultOfNone
<1>8. Result(feeding, start, few) \in FeedEntries
  BY FeedingIsTyped, ResultIsTyped
<1>9. Result(feeding, start, more) = feeding[<<Result(feeding, start, few), e>>]
  BY <1>2, <1>4, FeedingIsTyped, ResultOfAppend
<1>10. \A view \in FeedEntries : Result(feeding, view, one) = feeding[<<view, e>>]
  BY <1>5, FeedingIsTyped, ResultOfOne
<1>11. \A view \in FeedEntries : feeding[<<view, e>>] = FeedHandle(view, e)
  BY DEF feeding
<1>12. /\ FoldLeft(FeedHandle, start, none) = start /\ FoldLeft(FeedHandle, start, few) \in FeedEntries
       /\ FoldLeft(FeedHandle, start, more) = FeedHandle(FoldLeft(FeedHandle, start, few), e)
       /\ \A view \in FeedEntries : FoldLeft(FeedHandle, view, one) = FeedHandle(view, e)
  BY <1>6, <1>7, <1>8, <1>9, <1>10, <1>11
<1>13. QED
  BY <1>1, <1>2, <1>3, <1>4, <1>5, <1>12

\* The folds of any events are of their types, and those of none are the empty ones.
LEMMA FoldsAreTyped ==
    ASSUME NEW events \in Events
    PROVE  /\ FromEvents(events) \in AggregateState /\ FromEvents(<<>>) = emptyTaskState
           /\ \A task : EventsOf(task, events) \in Events /\ EventsOf(task, <<>>) = <<>>
           /\ FoldLeft(ListHandle, <<>>, events) \in Rows /\ FoldLeft(ListHandle, <<>>, <<>>) = <<>>
           /\ FoldLeft(StatsHandle, NoStats, events) \in Counters
           /\ FoldLeft(StatsHandle, NoStats, <<>>) = NoStats
           /\ FoldLeft(FeedHandle, <<>>, events) \in FeedEntries /\ FoldLeft(FeedHandle, <<>>, <<>>) = <<>>
<1>1. PICK none \in Seq(Event) : none = <<>>
  BY EmptySeq
<1>2. PICK few \in Seq(Event) : few = events
  BY DEF Events
<1>3. emptyTaskState \in AggregateState /\ NoStats \in Counters
  BY DEF emptyTaskState, AggregateState, NoStats, Counters
<1>4. PICK start \in Rows : start = <<>>
  <2>1. <<>> \in [{} -> [title : Titles \cup {NoTitle}, done : BOOLEAN]]
    OBVIOUS
  <2>2. QED
    BY <2>1, Zenon DEF Rows
<1>5. PICK quiet \in FeedEntries : quiet = <<>>
  BY EmptySeq DEF FeedEntries
<1>6. PICK nothing \in Events : nothing = <<>>
  BY EmptySeq DEF Events
<1>7. FromEvents(few) \in AggregateState /\ FromEvents(none) = emptyTaskState
  <2>1. \A es \in Seq(Event) : FromEvents(es) = Result(applying, emptyTaskState, es)
    BY <1>3, ApplyIsResult DEF FromEvents
  <2>2. Result(applying, emptyTaskState, few) \in AggregateState /\ Result(applying, emptyTaskState, none) = emptyTaskState
    BY <1>1, <1>3, ApplyingIsTyped, ResultIsTyped, ResultOfNone
  <2>3. QED
    BY <2>1, <2>2
<1>8. FoldLeft(ListHandle, start, few) \in Rows /\ FoldLeft(ListHandle, start, none) = start
  <2>1. \A es \in Seq(Event) : FoldLeft(ListHandle, start, es) = Result(listing, start, es)
    BY ListIsResult
  <2>2. Result(listing, start, few) \in Rows /\ Result(listing, start, none) = start
    BY <1>1, ListingIsTyped, ResultIsTyped, ResultOfNone
  <2>3. QED
    BY <2>1, <2>2
<1>9. FoldLeft(StatsHandle, NoStats, few) \in Counters /\ FoldLeft(StatsHandle, NoStats, none) = NoStats
  <2>1. \A es \in Seq(Event) : FoldLeft(StatsHandle, NoStats, es) = Result(counting, NoStats, es)
    BY <1>3, StatsIsResult
  <2>2. Result(counting, NoStats, few) \in Counters /\ Result(counting, NoStats, none) = NoStats
    BY <1>1, <1>3, CountingIsTyped, ResultIsTyped, ResultOfNone
  <2>3. QED
    BY <2>1, <2>2
<1>10. FoldLeft(FeedHandle, quiet, few) \in FeedEntries /\ FoldLeft(FeedHandle, quiet, none) = quiet
  <2>1. \A es \in Seq(Event) : FoldLeft(FeedHandle, quiet, es) = Result(feeding, quiet, es)
    BY FeedIsResult
  <2>2. Result(feeding, quiet, few) \in FeedEntries /\ Result(feeding, quiet, none) = quiet
    BY <1>1, FeedingIsTyped, ResultIsTyped, ResultOfNone
  <2>3. QED
    BY <2>1, <2>2
<1>11. ASSUME NEW task PROVE EventsOf(task, few) \in Events /\ EventsOf(task, none) = nothing
  <2>1. \A es \in Seq(Event) : EventsOf(task, es) = Result(finding(task), nothing, es)
    BY <1>6, FoundIsResult DEF EventsOf
  <2>2. Result(finding(task), nothing, none) = nothing /\ Result(finding(task), nothing, few) \in Events
    BY <1>1, FindingIsTyped, ResultOfNone, ResultIsTyped
  <2>3. QED
    BY <2>1, <2>2
<1>12. QED
  BY <1>1, <1>2, <1>4, <1>5, <1>6, <1>7, <1>8, <1>9, <1>10, <1>11

\* What stood in a sequence stands there still when an element is appended.
LEMMA PrefixOfLonger ==
    ASSUME NEW E, NEW s \in Seq(E), NEW e \in E, NEW n \in 0 .. Len(s)
    PROVE  SubSeq(Append(s, e), 1, n) = SubSeq(s, 1, n)
<1>1. PICK m \in Nat : m = Len(s) /\ n \in 0 .. m
  BY LenProperties
<1>2. PICK longer \in Seq(E) : longer = Append(s, e)
  BY AppendProperties
<1>3. Len(longer) = m + 1 /\ \A i \in 1 .. m : longer[i] = s[i] /\ s[i] \in E
  BY <1>1, <1>2, AppendProperties, LenProperties
<1>4. \A i \in 1 .. n : longer[i] = s[i] /\ s[i] \in E /\ longer[i] \in E
  BY <1>1, <1>3
<1>5. PICK a : a = SubSeq(longer, 1, n)
  OBVIOUS
<1>6. PICK b : b = SubSeq(s, 1, n)
  OBVIOUS
<1>7. /\ a \in Seq(E) /\ Len(a) = IF 1 <= n THEN n - 1 + 1 ELSE 0
      /\ \A i \in 1 .. n - 1 + 1 : a[i] = longer[1 + i - 1]
  BY <1>4, <1>5, SubSeqProperties
<1>8. /\ b \in Seq(E) /\ Len(b) = IF 1 <= n THEN n - 1 + 1 ELSE 0
      /\ \A i \in 1 .. n - 1 + 1 : b[i] = s[1 + i - 1]
  BY <1>4, <1>6, SubSeqProperties
<1>9. Len(a) = n /\ Len(b) = n
  BY <1>7, <1>8
<1>10. \A i \in 1 .. n : a[i] = b[i]
  BY <1>4, <1>7, <1>8
<1>11. a = b
  BY <1>7, <1>8, <1>9, <1>10, SeqEqual
<1>12. QED
  BY <1>2, <1>5, <1>6, <1>11

\* The tasks that the command handler finds to exist, and those of them done.
Created == {t \in Tasks : Load(t).exists}
Done == {t \in Created : Load(t).done}

\* What a view shows that has been given every event of the log.
WholeList == FoldLeft(ListHandle, <<>>, log)
WholeStats == FoldLeft(StatsHandle, NoStats, log)
WholeFeed == FoldLeft(FeedHandle, <<>>, log)

\* A history: each event is numbered and was allowed after those before it.
Legal(events) ==
    \A i \in DOMAIN events :
       /\ events[i].version = i
       /\ Allowed(FromEvents(SubSeq(events, 1, i - 1)), events[i].type, events[i].title)

\* A task without events is in the initial state; one with events exists and has a title.
Existing(events) ==
    events # <<>> => FromEvents(events).exists /\ FromEvents(events).title \in Titles

HistoriesLegal ==
    \A t \in Tasks :
       /\ latestVersion[t] = Len(EventsOf(t, log))
       /\ Legal(EventsOf(t, log))
       /\ Existing(EventsOf(t, log))

\* A writer holds the aggregate as it was at the version it holds.
HeldWasLoaded ==
    \A w \in Writers : held[w] # NoAggregate =>
       LET events == EventsOf(held[w].task, log)
           n == held[w].state.version
       IN  n \in 0 .. Len(events) /\ held[w].state = FromEvents(SubSeq(events, 1, n))

\* The folds of the whole log, subscribed to or not, show what the aggregates are.
FoldsAgree ==
    /\ IsFiniteSet(Created)
    /\ WholeList = [t \in Created |-> [title |-> Load(t).title, done |-> Load(t).done]]
    /\ WholeStats = [total |-> Cardinality(Created), completed |-> Cardinality(Done)]
    /\ WholeFeed = [i \in DOMAIN log |-> <<log[i].task, log[i].version>>]

\* A view that subscribed shows the fold of the whole log.
ViewsAreFolds ==
    /\ "task-list-view" \in subscribed => rows = WholeList
    /\ "task-stats-view" \in subscribed => stats = WholeStats
    /\ "activity-feed-view" \in subscribed => feed = WholeFeed

EventInv == EventTypeOK /\ HistoriesLegal /\ HeldWasLoaded /\ FoldsAgree /\ ViewsAreFolds

\* The version of an aggregate is the number of its events.
LEMMA VersionCounts ==
    ASSUME NEW events \in Events, Legal(events)
    PROVE  FromEvents(events).version = Len(events)
<1>1. CASE events = <<>>
  <2>1. FromEvents(events) = emptyTaskState
    BY <1>1, FoldsAreTyped
  <2>2. QED
    BY <1>1, <2>1, EmptySeq DEF emptyTaskState
<1>2. CASE events # <<>>
  <2>1. PICK front \in Events, e \in Event : events = Append(front, e)
    BY <1>2, SequenceEmptyOrAppend DEF Events
  <2>2. FromEvents(events) = Apply(FromEvents(front), e)
    BY <2>1, AggregateLaws
  <2>3. PICK n \in Nat : n = Len(front)
    BY LenProperties DEF Events
  <2>4. Len(events) = n + 1 /\ events[n + 1] = e /\ DOMAIN events = 1 .. n + 1
    BY <2>1, <2>3, AppendProperties, LenProperties DEF Events
  <2>5. e.version = n + 1
    BY <2>4 DEF Legal
  <2>6. QED
    BY <2>2, <2>4, <2>5 DEF Apply
<1>3. QED
  BY <1>1, <1>2

\* What an event that is allowed makes of the aggregate.
LEMMA AllowedEvents ==
    ASSUME NEW a \in AggregateState, NEW e \in Event, Allowed(a, e.type, e.title),
           a.exists => a.title \in Titles
    PROVE  LET b == Apply(a, e) IN
           /\ b \in AggregateState /\ b.exists = TRUE /\ b.title \in Titles
           /\ \/ /\ e.type = "TaskCreated" /\ a.exists = FALSE /\ e.title \in Titles
                 /\ b.title = e.title /\ b.done = a.done
              \/ /\ e.type = "TaskCompleted" /\ a.exists = TRUE /\ a.done = FALSE
                 /\ b.title = a.title /\ b.done = TRUE
              \/ /\ e.type = "TaskReopened" /\ a.exists = TRUE /\ a.done = TRUE
                 /\ b.title = a.title /\ b.done = FALSE
              \/ /\ e.type = "TaskRenamed" /\ a.exists = TRUE /\ e.title \in Titles
                 /\ b.title = e.title /\ b.done = a.done
<1>1. /\ a.exists \in BOOLEAN /\ a.done \in BOOLEAN /\ a.title \in Titles \cup {NoTitle}
      /\ e.title \in Titles \cup {NoTitle} /\ e.version \in Nat
  BY DEF AggregateState, Event
<1>2. PICK b : b = Apply(a, e)
  OBVIOUS
<1>3. /\ b.title = IF e.type \in {"TaskCreated", "TaskRenamed"} THEN e.title ELSE a.title
      /\ b.done = IF e.type \in {"TaskCompleted", "TaskReopened"} THEN e.type = "TaskCompleted" ELSE a.done
      /\ b.version = e.version
      /\ b.exists = (a.exists \/ e.type = "TaskCreated")
  BY <1>2 DEF Apply
<1>4. b \in AggregateState
  BY <1>1, <1>2 DEF Apply, AggregateState
<1>5. CASE e.type = "TaskCreated" /\ ~a.exists /\ e.title \in Titles
  BY <1>1, <1>2, <1>3, <1>4, <1>5
<1>6. CASE e.type = "TaskCompleted" /\ a.exists /\ ~a.done /\ e.title = NoTitle
  BY <1>1, <1>2, <1>3, <1>4, <1>6
<1>7. CASE e.type = "TaskReopened" /\ a.exists /\ a.done /\ e.title = NoTitle
  BY <1>1, <1>2, <1>3, <1>4, <1>7
<1>8. CASE e.type = "TaskRenamed" /\ a.exists /\ e.title \in Titles \ {a.title}
  BY <1>1, <1>2, <1>3, <1>4, <1>8
<1>9. QED
  BY <1>5, <1>6, <1>7, <1>8 DEF Allowed

\* An event that is allowed keeps a history legal.
LEMMA LegalGrows ==
    ASSUME NEW events \in Events, NEW e \in Event, Legal(events), Existing(events),
           e.version = Len(events) + 1, Allowed(FromEvents(events), e.type, e.title)
    PROVE  Legal(Append(events, e)) /\ Existing(Append(events, e))
<1>1. PICK n \in Nat : n = Len(events) /\ DOMAIN events = 1 .. n
  BY LenProperties DEF Events
<1>2. PICK more \in Events : more = Append(events, e)
  BY AppendProperties DEF Events
<1>3. /\ DOMAIN more = 1 .. n + 1 /\ more[n + 1] = e
      /\ \A i \in 1 .. n : more[i] = events[i]
  BY <1>1, <1>2, AppendProperties, LenProperties DEF Events
<1>4. \A i \in 0 .. n : SubSeq(more, 1, i) = SubSeq(events, 1, i)
  BY <1>1, <1>2, PrefixOfLonger DEF Events
<1>5. SubSeq(events, 1, n) = events
  BY <1>1, SubSeqFull DEF Events
<1>6. ASSUME NEW i \in 1 .. n
      PROVE  /\ more[i].version = i
             /\ Allowed(FromEvents(SubSeq(more, 1, i - 1)), more[i].type, more[i].title)
  <2>1. i - 1 \in 0 .. n
    OBVIOUS
  <2>2. SubSeq(more, 1, i - 1) = SubSeq(events, 1, i - 1) /\ more[i] = events[i]
    BY <1>3, <1>4, <2>1
  <2>3. /\ events[i].version = i
        /\ Allowed(FromEvents(SubSeq(events, 1, i - 1)), events[i].type, events[i].title)
    BY <1>1 DEF Legal
  <2>4. QED
    BY <2>2, <2>3
<1>7. ASSUME NEW i, i = n + 1
      PROVE  /\ more[i].version = i
             /\ Allowed(FromEvents(SubSeq(more, 1, i - 1)), more[i].type, more[i].title)
  <2>1. i - 1 = n /\ n \in 0 .. n
    BY <1>7
  <2>2. SubSeq(more, 1, i - 1) = events /\ more[i] = e
    BY <1>3, <1>4, <1>5, <1>7, <2>1
  <2>3. QED
    BY <1>1, <1>7, <2>2
<1>8. Legal(more)
  <2>1. \A i \in 1 .. n + 1 : i \in 1 .. n \/ i = n + 1
    OBVIOUS
  <2>2. QED
    BY <1>3, <1>6, <1>7, <2>1 DEF Legal
<1>9. FromEvents(more) = Apply(FromEvents(events), e) /\ FromEvents(events) \in AggregateState
  BY <1>2, AggregateLaws
<1>10. e.type \in Types /\ e.title \in Titles \cup {NoTitle}
  BY DEF Event
<1>11. FromEvents(more).exists /\ FromEvents(more).title \in Titles
  <2>1. events = <<>> => FromEvents(events) = emptyTaskState
    BY FoldsAreTyped
  <2>2. FromEvents(events).exists => FromEvents(events).title \in Titles
    BY <2>1 DEF Existing, emptyTaskState
  <2>3. PICK a \in AggregateState : a = FromEvents(events)
    BY <1>9
  <2>4. Allowed(a, e.type, e.title) /\ (a.exists => a.title \in Titles) /\ FromEvents(more) = Apply(a, e)
    BY <1>9, <2>2, <2>3
  <2>5. Apply(a, e).exists = TRUE /\ Apply(a, e).title \in Titles
    BY <2>4, AllowedEvents
  <2>6. QED
    BY <2>4, <2>5
<1>12. QED
  BY <1>2, <1>8, <1>11 DEF Existing

\* What the invariant tells of the log and of each aggregate.
LEMMA Loaded ==
    ASSUME EventInv
    PROVE  /\ log \in Events
           /\ \A t \in Tasks :
                /\ EventsOf(t, log) \in Events
                /\ Load(t) \in AggregateState
                /\ Load(t).version = latestVersion[t] /\ latestVersion[t] = Len(EventsOf(t, log))
                /\ Load(t).exists => Load(t).title \in Titles
                /\ Load(t).exists = FALSE => Load(t) = emptyTaskState
<1>1. log \in Events
  BY DEF EventInv, EventTypeOK, Events
<1>2. ASSUME NEW t \in Tasks
      PROVE  /\ EventsOf(t, log) \in Events
             /\ Load(t) \in AggregateState
             /\ Load(t).version = latestVersion[t] /\ latestVersion[t] = Len(EventsOf(t, log))
             /\ Load(t).exists => Load(t).title \in Titles
             /\ Load(t).exists = FALSE => Load(t) = emptyTaskState
  <2>1. PICK es \in Events : es = EventsOf(t, log)
    BY <1>1, FoldsAreTyped
  <2>2. Load(t) = FromEvents(es)
    BY <2>1 DEF Load
  <2>3. latestVersion[t] = Len(es) /\ Legal(es) /\ Existing(es)
    BY <2>1 DEF EventInv, HistoriesLegal
  <2>4. FromEvents(es).version = Len(es) /\ FromEvents(es) \in AggregateState
    BY <2>3, FoldsAreTyped, VersionCounts
  <2>5. es = <<>> => FromEvents(es) = emptyTaskState
    BY FoldsAreTyped
  <2>6. FromEvents(es).exists => FromEvents(es).title \in Titles
    BY <2>3, <2>5 DEF Existing, emptyTaskState
  <2>7. FromEvents(es).exists = FALSE => FromEvents(es) = emptyTaskState
    BY <2>3, <2>5 DEF Existing
  <2>8. QED
    BY <2>1, <2>2, <2>3, <2>4, <2>6, <2>7
<1>3. QED
  BY <1>1, <1>2

\* An event that append() adds: what becomes of the events and the aggregates.
LEMMA Added ==
    ASSUME EventInv, NEW e \in Event, log' = Append(log, e), Allowed(Load(e.task), e.type, e.title)
    PROVE  /\ log' \in Events
           /\ \A t \in Tasks :
                /\ EventsOf(t, log') = IF t = e.task THEN Append(EventsOf(t, log), e) ELSE EventsOf(t, log)
                /\ Load(t)' = IF t = e.task THEN Apply(Load(t), e) ELSE Load(t)
           /\ Load(e.task)' \in AggregateState
<1>1. log \in Events /\ e.task \in Tasks
  BY Loaded DEF Event
<1>2. log' \in Events
  BY <1>1, AppendProperties DEF Events
<1>3. ASSUME NEW t \in Tasks
      PROVE  /\ EventsOf(t, log') = IF t = e.task THEN Append(EventsOf(t, log), e) ELSE EventsOf(t, log)
             /\ Load(t)' = IF t = e.task THEN Apply(Load(t), e) ELSE Load(t)
  <2>1. EventsOf(t, Append(log, e)) = IF e.task = t THEN Append(EventsOf(t, log), e) ELSE EventsOf(t, log)
    BY <1>1, FoundLaws
  <2>2. PICK es \in Events : es = EventsOf(t, log)
    BY Loaded
  <2>3. FromEvents(Append(es, e)) = Apply(FromEvents(es), e)
    BY AggregateLaws
  <2>4. Load(t)' = FromEvents(EventsOf(t, log')) /\ Load(t) = FromEvents(es)
    BY <2>2 DEF Load
  <2>5. QED
    BY <2>1, <2>2, <2>3, <2>4
<1>4. Load(e.task)' \in AggregateState
  <2>1. Load(e.task)' = FromEvents(EventsOf(e.task, log'))
    BY DEF Load
  <2>2. EventsOf(e.task, log') \in Events
    BY <1>2, FoldsAreTyped
  <2>3. QED
    BY <2>1, <2>2, FoldsAreTyped
<1>5. QED
  BY <1>2, <1>3, <1>4

\* The histories stay legal, and what the writers hold stays what they loaded.
LEMMA HistoriesGrow ==
    ASSUME EventInv, NEW e \in Event, log' = Append(log, e), Allowed(Load(e.task), e.type, e.title),
           e.version = latestVersion[e.task] + 1,
           latestVersion' = [latestVersion EXCEPT ![e.task] = e.version],
           \A w \in Writers : held'[w] # NoAggregate => held'[w] = held[w]
    PROVE  HistoriesLegal' /\ HeldWasLoaded'
<1>1. e.task \in Tasks /\ latestVersion \in [Tasks -> Nat]
  BY DEF Event, EventInv, EventTypeOK
<1>2. ASSUME NEW t \in Tasks
      PROVE  /\ latestVersion'[t] = Len(EventsOf(t, log'))
             /\ Legal(EventsOf(t, log')) /\ Existing(EventsOf(t, log'))
  <2>1. PICK es \in Events : es = EventsOf(t, log)
    BY Loaded
  <2>2. latestVersion[t] = Len(es) /\ Legal(es) /\ Existing(es) /\ Load(t) = FromEvents(es)
    BY <2>1 DEF EventInv, HistoriesLegal, Load
  <2>3. CASE t = e.task
    <3>1. EventsOf(t, log') = Append(es, e) /\ latestVersion'[t] = e.version
      BY <1>1, <2>1, <2>3, Added
    <3>2. Legal(Append(es, e)) /\ Existing(Append(es, e))
      BY <2>2, <2>3, LegalGrows
    <3>3. Len(Append(es, e)) = Len(es) + 1
      BY AppendProperties DEF Events
    <3>4. QED
      BY <2>2, <2>3, <3>1, <3>2, <3>3
  <2>4. CASE t # e.task
    BY <1>1, <2>1, <2>2, <2>4, Added
  <2>5. QED
    BY <2>3, <2>4
<1>3. ASSUME NEW w \in Writers, held'[w] # NoAggregate
      PROVE  /\ held'[w].state.version \in 0 .. Len(EventsOf(held'[w].task, log'))
             /\ held'[w].state = FromEvents(SubSeq(EventsOf(held'[w].task, log'), 1, held'[w].state.version))
  <2>1. held'[w] = held[w]
    BY <1>3
  <2>2. PICK t \in Tasks : t = held[w].task
    BY <1>3, <2>1 DEF EventInv, EventTypeOK
  <2>3. PICK es \in Events : es = EventsOf(t, log)
    BY Loaded
  <2>4. PICK n : n = held[w].state.version
    OBVIOUS
  <2>5. n \in 0 .. Len(es) /\ held[w].state = FromEvents(SubSeq(es, 1, n))
    BY <1>3, <2>1, <2>2, <2>3, <2>4 DEF EventInv, HeldWasLoaded
  <2>6. CASE t = e.task
    <3>1. EventsOf(t, log') = Append(es, e)
      BY <2>3, <2>6, Added
    <3>2. SubSeq(Append(es, e), 1, n) = SubSeq(es, 1, n)
      BY <2>5, PrefixOfLonger DEF Events
    <3>3. Len(Append(es, e)) = Len(es) + 1 /\ Len(es) \in Nat
      BY AppendProperties, LenProperties DEF Events
    <3>4. n \in 0 .. Len(Append(es, e))
      BY <2>5, <3>3
    <3>5. QED
      BY <2>1, <2>2, <2>4, <2>5, <3>1, <3>2, <3>4
  <2>7. CASE t # e.task
    <3>1. EventsOf(t, log') = es
      BY <2>3, <2>7, Added
    <3>2. QED
      BY <2>1, <2>2, <2>4, <2>5, <3>1
  <2>8. QED
    BY <2>6, <2>7
<1>4. HistoriesLegal'
  BY <1>2 DEF HistoriesLegal
<1>5. HeldWasLoaded'
  BY <1>3, Zenon DEF HeldWasLoaded
<1>6. QED
  BY <1>4, <1>5

\* The tasks that exist after an event that is allowed, and those of them done.
LEMMA CreatedGrows ==
    ASSUME EventInv, NEW e \in Event, log' = Append(log, e), Allowed(Load(e.task), e.type, e.title)
    PROVE  LET a == Load(e.task)
               b == Load(e.task)'
           IN  /\ Created' = Created \cup {e.task}
               /\ e.type = "TaskCreated" => e.task \notin Created
               /\ e.type # "TaskCreated" => e.task \in Created
               /\ \A t \in Created : t # e.task => Load(t)' = Load(t)
               /\ \/ e.type = "TaskCreated" /\ b.title = e.title /\ b.done = FALSE /\ Done' = Done
                  \/ /\ e.type = "TaskCompleted" /\ b.title = a.title /\ b.done = TRUE
                     /\ e.task \notin Done /\ Done' = Done \cup {e.task}
                  \/ /\ e.type = "TaskReopened" /\ b.title = a.title /\ b.done = FALSE
                     /\ e.task \in Done /\ Done' = Done \ {e.task}
                  \/ e.type = "TaskRenamed" /\ b.title = e.title /\ b.done = a.done /\ Done' = Done
<1>1. PICK task \in Tasks : task = e.task
  BY DEF Event
<1>2. PICK a \in AggregateState : a = Load(task)
  BY <1>1, Loaded
<1>3. PICK b : b = Load(task)'
  OBVIOUS
<1>4. b = Apply(a, e) /\ \A t \in Tasks : t # task => Load(t)' = Load(t)
  BY <1>1, <1>2, <1>3, Added
<1>5. (a.exists => a.title \in Titles) /\ (a.exists = FALSE => a = emptyTaskState)
  BY <1>1, <1>2, Loaded
<1>6. a.exists = FALSE => a.done = FALSE
  BY <1>5 DEF emptyTaskState
<1>7. Allowed(a, e.type, e.title)
  BY <1>1, <1>2
<1>8. /\ b \in AggregateState /\ b.exists = TRUE /\ b.title \in Titles
      /\ \/ /\ e.type = "TaskCreated" /\ a.exists = FALSE /\ e.title \in Titles
            /\ b.title = e.title /\ b.done = a.done
         \/ /\ e.type = "TaskCompleted" /\ a.exists = TRUE /\ a.done = FALSE
            /\ b.title = a.title /\ b.done = TRUE
         \/ /\ e.type = "TaskReopened" /\ a.exists = TRUE /\ a.done = TRUE
            /\ b.title = a.title /\ b.done = FALSE
         \/ /\ e.type = "TaskRenamed" /\ a.exists = TRUE /\ e.title \in Titles
            /\ b.title = e.title /\ b.done = a.done
  BY <1>4, <1>5, <1>7, AllowedEvents
<1>9. Created = {t \in Tasks : Load(t).exists} /\ Created' = {t \in Tasks : Load(t)'.exists}
  BY DEF Created
<1>10. Done = {t \in Created : Load(t).done} /\ Done' = {t \in Created' : Load(t)'.done}
  BY DEF Done
<1>11. task \in Created <=> a.exists = TRUE
  BY <1>2, <1>9 DEF AggregateState
<1>12. task \in Done <=> a.exists = TRUE /\ a.done = TRUE
  BY <1>2, <1>10, <1>11 DEF AggregateState
<1>13. \A t \in Tasks : t # task => (t \in Created' <=> t \in Created)
  BY <1>4, <1>9
<1>14. Created' = Created \cup {task}
  <2>1. task \in Created'
    BY <1>3, <1>8, <1>9
  <2>2. Created \subseteq Tasks /\ Created' \subseteq Tasks
    BY <1>9
  <2>3. QED
    BY <1>13, <2>1, <2>2
<1>15. \A t \in Tasks : t # task => (t \in Done' <=> t \in Done)
  BY <1>4, <1>10, <1>13
<1>16. Done \subseteq Tasks /\ Done' \subseteq Tasks /\ Created \subseteq Tasks
  BY <1>9, <1>10
<1>17. task \in Done' <=> b.done = TRUE
  BY <1>3, <1>8, <1>10, <1>14 DEF AggregateState
<1>18. /\ b.done = TRUE => Done' = Done \cup {task}
       /\ b.done = FALSE => Done' = Done \ {task}
  BY <1>15, <1>16, <1>17
<1>19. CASE e.type = "TaskCreated"
  <2>1. b.done = FALSE /\ task \notin Done /\ task \notin Created /\ b.title = e.title
    BY <1>6, <1>8, <1>11, <1>12, <1>19
  <2>2. Done' = Done
    BY <1>18, <2>1
  <2>3. QED
    BY <1>1, <1>2, <1>3, <1>4, <1>14, <1>16, <1>19, <2>1, <2>2
<1>20. CASE e.type = "TaskCompleted"
  <2>1. b.done = TRUE /\ task \notin Done /\ task \in Created /\ b.title = a.title
    BY <1>8, <1>11, <1>12, <1>20
  <2>2. QED
    BY <1>1, <1>2, <1>3, <1>4, <1>14, <1>16, <1>18, <1>20, <2>1
<1>21. CASE e.type = "TaskReopened"
  <2>1. b.done = FALSE /\ task \in Done /\ task \in Created /\ b.title = a.title
    BY <1>8, <1>11, <1>12, <1>21
  <2>2. QED
    BY <1>1, <1>2, <1>3, <1>4, <1>14, <1>16, <1>18, <1>21, <2>1
<1>22. CASE e.type = "TaskRenamed"
  <2>1. b.done = a.done /\ task \in Created /\ b.title = e.title /\ (task \in Done <=> a.done = TRUE)
    BY <1>8, <1>11, <1>12, <1>22
  <2>2. Done' = Done
    BY <1>18, <2>1, <1>2 DEF AggregateState
  <2>3. QED
    BY <1>1, <1>2, <1>3, <1>4, <1>14, <1>16, <1>22, <2>1, <2>2
<1>23. QED
  BY <1>8, <1>19, <1>20, <1>21, <1>22

\* So the folds of the whole log go on showing what the aggregates are.
LEMMA FoldsGrow ==
    ASSUME EventInv, NEW e \in Event, log' = Append(log, e), Allowed(Load(e.task), e.type, e.title)
    PROVE  FoldsAgree'
<1>1. PICK task \in Tasks : task = e.task
  BY DEF Event
<1>2. PICK b : b = Load(task)'
  OBVIOUS
<1>3. PICK a \in AggregateState : a = Load(task)
  BY <1>1, Loaded
<1>4. /\ Created' = Created \cup {task}
      /\ e.type = "TaskCreated" => task \notin Created
      /\ e.type # "TaskCreated" => task \in Created
      /\ \A t \in Created : t # task => Load(t)' = Load(t)
      /\ \/ e.type = "TaskCreated" /\ b.title = e.title /\ b.done = FALSE /\ Done' = Done
         \/ /\ e.type = "TaskCompleted" /\ b.title = a.title /\ b.done = TRUE
            /\ task \notin Done /\ Done' = Done \cup {task}
         \/ /\ e.type = "TaskReopened" /\ b.title = a.title /\ b.done = FALSE
            /\ task \in Done /\ Done' = Done \ {task}
         \/ e.type = "TaskRenamed" /\ b.title = e.title /\ b.done = a.done /\ Done' = Done
  BY <1>1, <1>2, <1>3, CreatedGrows
<1>5. IsFiniteSet(Created) /\ IsFiniteSet(Done)
  <2>1. IsFiniteSet(Created) /\ Done \subseteq Created
    BY DEF EventInv, FoldsAgree, Done
  <2>2. QED
    BY <2>1, FS_Subset
<1>6. IsFiniteSet(Created')
  BY <1>4, <1>5, FS_AddElement
<1>7. log \in Events
  BY Loaded
<1>8. WholeList' = [t \in Created' |-> [title |-> Load(t)'.title, done |-> Load(t)'.done]]
  <2>1. WholeList' = ListHandle(WholeList, e)
    BY <1>7, ListLaws DEF WholeList
  <2>2. WholeList = [t \in Created |-> [title |-> Load(t).title, done |-> Load(t).done]]
    BY DEF EventInv, FoldsAgree
  <2>3. DOMAIN WholeList = Created
    BY <2>2
  <2>4. PICK new : new = ListHandle(WholeList, e)
    OBVIOUS
  <2>5. /\ new = [t \in Created' |-> new[t]]
        /\ new[task] = [title |-> b.title, done |-> b.done]
        /\ \A t \in Created : t # task => new[t] = WholeList[t]
    <3>1. CASE e.type = "TaskCreated"
      <4>1. new = [t \in DOMAIN WholeList \cup {task} |->
                     IF t = task THEN [title |-> e.title, done |-> FALSE] ELSE WholeList[t]]
        BY <1>1, <2>4, <3>1 DEF ListHandle
      <4>2. QED
        BY <1>4, <2>3, <3>1, <4>1
    <3>2. CASE e.type # "TaskCreated"
      <4>1. task \in Created /\ Created' = Created
        BY <1>4, <3>2
      <4>2. WholeList[task] = [title |-> a.title, done |-> a.done]
        BY <1>3, <2>2, <4>1
      <4>3. PICK row : row = CASE e.type = "TaskCompleted" -> [WholeList[task] EXCEPT !.done = TRUE]
                               [] e.type = "TaskReopened" -> [WholeList[task] EXCEPT !.done = FALSE]
                               [] e.type = "TaskRenamed" -> [WholeList[task] EXCEPT !.title = e.title]
        OBVIOUS
      <4>4. row = [title |-> b.title, done |-> b.done]
        <5>1. PICK was : was = [title |-> a.title, done |-> a.done] /\ WholeList[task] = was
          BY <4>2
        <5>2. CASE e.type = "TaskCompleted" /\ b.title = a.title /\ b.done = TRUE
          <6>1. PICK flag : flag = TRUE
            OBVIOUS
          <6>2. row = [was EXCEPT !.done = flag]
            BY <4>3, <5>1, <5>2, <6>1
          <6>3. row = [title |-> a.title, done |-> flag]
            BY <5>1, <6>2
          <6>4. QED
            BY <5>2, <6>1, <6>3
        <5>3. CASE e.type = "TaskReopened" /\ b.title = a.title /\ b.done = FALSE
          <6>1. PICK flag : flag = FALSE
            OBVIOUS
          <6>2. row = [was EXCEPT !.done = flag]
            BY <4>3, <5>1, <5>3, <6>1
          <6>3. row = [title |-> a.title, done |-> flag]
            BY <5>1, <6>2
          <6>4. QED
            BY <5>3, <6>1, <6>3
        <5>4. CASE e.type = "TaskRenamed" /\ b.title = e.title /\ b.done = a.done
          BY <4>3, <5>1, <5>4
        <5>5. QED
          BY <1>4, <3>2, <5>2, <5>3, <5>4
      <4>5. new = [WholeList EXCEPT ![task] = row]
        BY <1>1, <2>3, <2>4, <3>2, <4>1, <4>3 DEF ListHandle
      <4>6. QED
        BY <2>2, <2>3, <4>1, <4>4, <4>5
    <3>3. QED
      BY <3>1, <3>2
  <2>6. ASSUME NEW t \in Created' PROVE new[t] = [title |-> Load(t)'.title, done |-> Load(t)'.done]
    <3>1. CASE t = task
      BY <1>2, <2>5, <3>1
    <3>2. CASE t # task
      BY <1>4, <2>2, <2>5, <3>2
    <3>3. QED
      BY <3>1, <3>2
  <2>7. new = [t \in Created' |-> [title |-> Load(t)'.title, done |-> Load(t)'.done]]
    BY <2>5, <2>6
  <2>8. QED
    BY <2>1, <2>4, <2>7
<1>9. WholeStats' = [total |-> Cardinality(Created'), completed |-> Cardinality(Done')]
  <2>1. WholeStats' = StatsHandle(WholeStats, e)
    BY <1>7, StatsLaws DEF WholeStats
  <2>2. PICK m \in Nat, n \in Nat : m = Cardinality(Created) /\ n = Cardinality(Done)
    BY <1>5, FS_CardinalityType
  <2>3. WholeStats = [total |-> m, completed |-> n]
    BY <2>2 DEF EventInv, FoldsAgree
  <2>4. /\ Cardinality(Created \cup {task}) = IF task \in Created THEN m ELSE m + 1
        /\ Cardinality(Done \cup {task}) = IF task \in Done THEN n ELSE n + 1
        /\ Cardinality(Done \ {task}) = IF task \in Done THEN n - 1 ELSE n
    BY <1>5, <2>2, FS_AddElement, FS_RemoveElement
  <2>5. QED
    BY <1>4, <2>1, <2>2, <2>3, <2>4 DEF StatsHandle
<1>10. WholeFeed' = [i \in DOMAIN log' |-> <<log'[i].task, log'[i].version>>]
  <2>1. WholeFeed' = Append(WholeFeed, <<e.task, e.version>>)
    <3>1. WholeFeed' = FeedHandle(WholeFeed, e)
      BY <1>7, FeedLaws DEF WholeFeed
    <3>2. QED
      BY <3>1 DEF FeedHandle
  <2>2. PICK f \in FeedEntries : f = WholeFeed
    BY <1>7, FoldsAreTyped DEF WholeFeed
  <2>3. PICK n \in Nat : n = Len(log) /\ DOMAIN log = 1 .. n
    BY <1>7, LenProperties DEF Events
  <2>4. f = [i \in 1 .. n |-> <<log[i].task, log[i].version>>]
    BY <2>2, <2>3 DEF EventInv, FoldsAgree
  <2>5. Len(f) = n
    BY <2>2, <2>4, LenProperties DEF FeedEntries
  <2>6. <<e.task, e.version>> \in Tasks \X Nat
    BY DEF Event
  <2>7. PICK g \in FeedEntries : g = Append(f, <<e.task, e.version>>)
    BY <2>6, AppendProperties DEF FeedEntries
  <2>8. DOMAIN g = 1 .. n + 1 /\ g[n + 1] = <<e.task, e.version>> /\ \A i \in 1 .. n : g[i] = f[i]
    BY <2>5, <2>6, <2>7, AppendProperties, LenProperties DEF FeedEntries
  <2>9. DOMAIN log' = 1 .. n + 1 /\ log'[n + 1] = e /\ \A i \in 1 .. n : log'[i] = log[i]
    BY <1>7, <2>3, AppendProperties, LenProperties DEF Events
  <2>10. g = [i \in 1 .. n + 1 |-> g[i]]
    BY <2>7, <2>8, LenProperties DEF FeedEntries
  <2>11. ASSUME NEW i \in 1 .. n + 1 PROVE g[i] = <<log'[i].task, log'[i].version>>
    <3>1. CASE i \in 1 .. n
      <4>1. g[i] = f[i] /\ f[i] = <<log[i].task, log[i].version>> /\ log'[i] = log[i]
        BY <2>4, <2>8, <2>9, <3>1
      <4>2. QED
        BY <4>1
    <3>2. CASE i = n + 1
      <4>1. g[i] = <<e.task, e.version>> /\ log'[i] = e
        BY <2>8, <2>9, <3>2
      <4>2. QED
        BY <4>1
    <3>3. i \in 1 .. n \/ i = n + 1
      OBVIOUS
    <3>4. QED
      BY <3>1, <3>2, <3>3
  <2>12. QED
    BY <2>1, <2>2, <2>7, <2>9, <2>10, <2>11
<1>11. QED
  BY <1>6, <1>8, <1>9, <1>10 DEF FoldsAgree

\* The types of the views, from what they show.
LEMMA ViewsTyped ==
    ASSUME FoldsAgree,
           \A t \in Created : Load(t).title \in Titles /\ Load(t).done \in BOOLEAN
    PROVE  /\ \A t \in DOMAIN WholeList : WholeList[t] \in [title : Titles, done : BOOLEAN]
           /\ WholeStats \in [total : Nat, completed : Nat]
<1>1. WholeList = [t \in Created |-> [title |-> Load(t).title, done |-> Load(t).done]]
  BY DEF FoldsAgree
<1>2. IsFiniteSet(Created) /\ Done \subseteq Created
  BY DEF FoldsAgree, Done
<1>3. Cardinality(Created) \in Nat /\ Cardinality(Done) \in Nat
  BY <1>2, FS_Subset, FS_CardinalityType
<1>4. QED
  BY <1>1, <1>3 DEF FoldsAgree

\* The event store takes an event in.
LEMMA AppendKeeps ==
    ASSUME EventInv, NEW task \in Tasks, NEW type \in Types, NEW title \in Titles \cup {NoTitle},
           NEW expectedVersion, Allowed(Load(task), type, title),
           AppendEvent(task, type, title, expectedVersion), subscribed' = subscribed,
           held' \in [Writers -> [task : Tasks, state : AggregateState] \cup {NoAggregate}],
           \A w \in Writers : held'[w] # NoAggregate => held'[w] = held[w]
    PROVE  EventInv'
<1>1. latestVersion \in [Tasks -> Nat] /\ log \in Seq(Event) /\ subscribed \subseteq Projections
  BY DEF EventInv, EventTypeOK
<1>2. PICK e \in Event : e = [task |-> task, type |-> type, title |-> title,
                              version |-> latestVersion[task] + 1]
  <2>1. latestVersion[task] + 1 \in Nat
    BY <1>1
  <2>2. [task |-> task, type |-> type, title |-> title, version |-> latestVersion[task] + 1] \in Event
    BY <2>1 DEF Event
  <2>3. QED
    BY <2>2
<1>3. /\ log' = Append(log, e) /\ latestVersion' = [latestVersion EXCEPT ![task] = e.version]
      /\ FeedTo(subscribed, rows, stats, feed, <<e>>)
  BY <1>2 DEF AppendEvent
<1>4. /\ e.task = task /\ e.type = type /\ e.title = title /\ e.version = latestVersion[task] + 1
      /\ e.version \in Nat
  BY <1>1, <1>2
<1>5. HistoriesLegal' /\ HeldWasLoaded'
  BY <1>3, <1>4, HistoriesGrow
<1>6. FoldsAgree'
  BY <1>3, <1>4, FoldsGrow
<1>7. log \in Events /\ log' \in Events
  BY <1>3, <1>4, Loaded, Added
<1>8. /\ WholeList \in Rows /\ WholeStats \in Counters /\ WholeFeed \in FeedEntries /\ WholeFeed' \in FeedEntries
  BY <1>7, FoldsAreTyped DEF WholeList, WholeStats, WholeFeed
<1>9. /\ WholeList' = ListHandle(WholeList, e) /\ WholeStats' = StatsHandle(WholeStats, e)
      /\ WholeFeed' = FeedHandle(WholeFeed, e)
  BY <1>3, <1>7, ListLaws, StatsLaws, FeedLaws DEF WholeList, WholeStats, WholeFeed
<1>10. /\ FoldLeft(ListHandle, WholeList, <<e>>) = WholeList'
       /\ FoldLeft(StatsHandle, WholeStats, <<e>>) = WholeStats'
       /\ FoldLeft(FeedHandle, WholeFeed, <<e>>) = WholeFeed'
  BY <1>7, <1>8, <1>9, ListLaws, StatsLaws, FeedLaws
<1>11. /\ IF "task-list-view" \in subscribed THEN rows' = WholeList' ELSE rows' = rows
       /\ IF "task-stats-view" \in subscribed THEN stats' = WholeStats' ELSE stats' = stats
       /\ IF "activity-feed-view" \in subscribed THEN feed' = WholeFeed' ELSE feed' = feed
  <2>1. /\ "task-list-view" \in subscribed => rows = WholeList
        /\ "task-stats-view" \in subscribed => stats = WholeStats
        /\ "activity-feed-view" \in subscribed => feed = WholeFeed
    BY DEF EventInv, ViewsAreFolds
  <2>2. /\ rows' = IF "task-list-view" \in subscribed THEN FoldLeft(ListHandle, rows, <<e>>) ELSE rows
        /\ stats' = IF "task-stats-view" \in subscribed THEN FoldLeft(StatsHandle, stats, <<e>>) ELSE stats
        /\ feed' = IF "activity-feed-view" \in subscribed THEN FoldLeft(FeedHandle, feed, <<e>>) ELSE feed
    BY <1>3 DEF FeedTo
  <2>3. QED
    BY <1>10, <2>1, <2>2
<1>12. ViewsAreFolds'
  BY <1>11 DEF ViewsAreFolds
<1>13. /\ \A t \in DOMAIN WholeList' : WholeList'[t] \in [title : Titles, done : BOOLEAN]
       /\ WholeStats' \in [total : Nat, completed : Nat]
  <2>1. ASSUME NEW t \in Created' PROVE Load(t)'.title \in Titles /\ Load(t)'.done \in BOOLEAN
    <3>1. t \in Tasks /\ Load(t)'.exists
      BY DEF Created
    <3>2. PICK es \in Events : es = EventsOf(t, log')
      BY <1>7, FoldsAreTyped
    <3>3. Load(t)' = FromEvents(es) /\ Existing(es) /\ FromEvents(es) \in AggregateState
      BY <1>5, <3>1, <3>2, FoldsAreTyped DEF HistoriesLegal, Load
    <3>4. es # <<>>
      <4>1. es = <<>> => FromEvents(es) = emptyTaskState
        BY FoldsAreTyped
      <4>2. QED
        BY <3>1, <3>3, <4>1 DEF emptyTaskState
    <3>5. QED
      BY <3>3, <3>4 DEF Existing, AggregateState
  <2>2. WholeList' = [t \in Created' |-> [title |-> Load(t)'.title, done |-> Load(t)'.done]]
    BY <1>6 DEF FoldsAgree
  <2>3. WholeStats' = [total |-> Cardinality(Created'), completed |-> Cardinality(Done')]
    BY <1>6 DEF FoldsAgree
  <2>4. IsFiniteSet(Created') /\ Done' \subseteq Created'
    BY <1>6 DEF FoldsAgree, Done
  <2>5. Cardinality(Created') \in Nat /\ Cardinality(Done') \in Nat
    BY <2>4, FS_Subset, FS_CardinalityType
  <2>6. QED
    BY <2>1, <2>2, <2>3, <2>5
<1>14. EventTypeOK'
  <2>1. latestVersion' \in [Tasks -> Nat]
    BY <1>1, <1>3, <1>4
  <2>2. \A t \in DOMAIN rows' : rows'[t] \in [title : Titles, done : BOOLEAN]
    BY <1>11, <1>13 DEF EventInv, EventTypeOK
  <2>3. stats' \in [total : Nat, completed : Nat]
    BY <1>11, <1>13 DEF EventInv, EventTypeOK
  <2>4. feed' \in Seq(Tasks \X Nat)
    BY <1>8, <1>11 DEF EventInv, EventTypeOK, FeedEntries
  <2>5. QED
    BY <1>1, <1>7, <2>1, <2>2, <2>3, <2>4 DEF EventTypeOK, Events
<1>15. QED
  BY <1>5, <1>6, <1>12, <1>14 DEF EventInv

\* handle() loads and appends in one call.
LEMMA HandleKeeps ==
    ASSUME EventInv, NEW t \in Tasks, NEW type \in Types, NEW title \in Titles \cup {NoTitle},
           Handle(t, type, title)
    PROVE  EventInv'
<1>1. held' = held /\ held \in [Writers -> [task : Tasks, state : AggregateState] \cup {NoAggregate}]
  BY DEF Handle, EventInv, EventTypeOK
<1>2. QED
  BY <1>1, AppendKeeps DEF Handle

\* A writer whose version is the latest has the aggregate as it is now.
LEMMA WriterAppendsKeeps ==
    ASSUME EventInv, NEW w \in Writers, NEW type \in Types, NEW title \in Titles \cup {NoTitle},
           WriterAppends(w, type, title)
    PROVE  EventInv'
<1>1. /\ held \in [Writers -> [task : Tasks, state : AggregateState] \cup {NoAggregate}]
      /\ held[w] # NoAggregate
  BY DEF WriterAppends, EventInv, EventTypeOK
<1>2. PICK task \in Tasks : task = held[w].task
  BY <1>1
<1>3. PICK n : n = held[w].state.version
  OBVIOUS
<1>4. PICK es \in Events : es = EventsOf(task, log)
  BY Loaded
<1>5. n = latestVersion[task] /\ latestVersion[task] = Len(es) /\ Load(task) = FromEvents(es)
  BY <1>2, <1>3, <1>4, Loaded DEF WriterAppends, AppendEvent, Load
<1>6. held[w].state = FromEvents(SubSeq(es, 1, n))
  BY <1>1, <1>2, <1>3, <1>4 DEF EventInv, HeldWasLoaded
<1>7. SubSeq(es, 1, n) = es
  BY <1>5, SubSeqFull DEF Events
<1>8. Allowed(Load(task), type, title)
  BY <1>5, <1>6, <1>7 DEF WriterAppends
<1>9. /\ held' \in [Writers -> [task : Tasks, state : AggregateState] \cup {NoAggregate}]
      /\ \A v \in Writers : held'[v] # NoAggregate => held'[v] = held[v]
  BY <1>1 DEF WriterAppends
<1>10. AppendEvent(task, type, title, n) /\ subscribed' = subscribed
  BY <1>2, <1>3 DEF WriterAppends
<1>11. QED
  BY <1>8, <1>9, <1>10, AppendKeeps

\* What only changes what the writers hold.
LEMMA HoldingKeeps ==
    ASSUME EventInv, UNCHANGED <<log, latestVersion, subscribed, rows, stats, feed>>,
           held' \in [Writers -> [task : Tasks, state : AggregateState] \cup {NoAggregate}],
           HeldWasLoaded'
    PROVE  EventInv'
<1>1. EventTypeOK'
  BY DEF EventInv, EventTypeOK
<1>2. HistoriesLegal'
  BY DEF EventInv, HistoriesLegal
<1>3. Created' = Created /\ Done' = Done /\ \A t : Load(t)' = Load(t)
  BY DEF Created, Done, Load
<1>4. FoldsAgree'
  BY <1>3 DEF EventInv, FoldsAgree, WholeList, WholeStats, WholeFeed
<1>5. ViewsAreFolds'
  BY DEF EventInv, ViewsAreFolds, WholeList, WholeStats, WholeFeed
<1>6. QED
  BY <1>1, <1>2, <1>4, <1>5 DEF EventInv

\* A writer loads.
LEMMA WriterLoadsKeeps ==
    ASSUME EventInv, NEW w \in Writers, NEW t \in Tasks, WriterLoads(w, t)
    PROVE  EventInv'
<1>1. held \in [Writers -> [task : Tasks, state : AggregateState] \cup {NoAggregate}]
  BY DEF EventInv, EventTypeOK
<1>2. PICK a \in AggregateState : a = Load(t)
  BY Loaded
<1>3. held' = [held EXCEPT ![w] = [task |-> t, state |-> a]] /\ log' = log
  BY <1>2 DEF WriterLoads
<1>4. held' \in [Writers -> [task : Tasks, state : AggregateState] \cup {NoAggregate}]
  BY <1>1, <1>3
<1>5. PICK es \in Events : es = EventsOf(t, log)
  BY Loaded
<1>6. PICK n \in Nat : n = Len(es)
  BY LenProperties DEF Events
<1>7. a.version = n /\ a = FromEvents(es) /\ SubSeq(es, 1, n) = es
  BY <1>2, <1>5, <1>6, Loaded, SubSeqFull DEF Load, Events
<1>8. ASSUME NEW v \in Writers, held'[v] # NoAggregate
      PROVE  /\ held'[v].state.version \in 0 .. Len(EventsOf(held'[v].task, log'))
             /\ held'[v].state = FromEvents(SubSeq(EventsOf(held'[v].task, log'), 1, held'[v].state.version))
  <2>1. CASE v = w
    <3>1. held'[v].task = t /\ held'[v].state = a
      BY <1>1, <1>3, <2>1
    <3>2. EventsOf(held'[v].task, log') = es
      BY <1>3, <1>5, <3>1
    <3>3. held'[v].state.version = n
      BY <1>7, <3>1
    <3>4. n \in 0 .. Len(es)
      BY <1>6
    <3>5. a = FromEvents(SubSeq(es, 1, n))
      BY <1>7
    <3>6. QED
      BY <3>1, <3>2, <3>3, <3>4, <3>5, Zenon
  <2>2. CASE v # w
    <3>1. held'[v] = held[v]
      BY <1>1, <1>3, <2>2
    <3>2. /\ held[v].state.version \in 0 .. Len(EventsOf(held[v].task, log))
          /\ held[v].state = FromEvents(SubSeq(EventsOf(held[v].task, log), 1, held[v].state.version))
      BY <1>8, <3>1 DEF EventInv, HeldWasLoaded
    <3>3. log' = log
      BY <1>3
    <3>4. QED
      BY <3>1, <3>2, <3>3, Zenon
  <2>3. QED
    BY <2>1, <2>2
<1>9. HeldWasLoaded'
  BY <1>8, Zenon DEF HeldWasLoaded
<1>10. QED
  BY <1>4, <1>9, HoldingKeeps DEF WriterLoads

\* A writer gives up.
LEMMA WriterIsStaleKeeps ==
    ASSUME EventInv, NEW w \in Writers, WriterIsStale(w)
    PROVE  EventInv'
<1>1. /\ held \in [Writers -> [task : Tasks, state : AggregateState] \cup {NoAggregate}]
      /\ held' = [held EXCEPT ![w] = NoAggregate] /\ log' = log
  BY DEF EventInv, EventTypeOK, WriterIsStale
<1>2. \A v \in Writers : held'[v] # NoAggregate => held'[v] = held[v]
  BY <1>1
<1>3. HeldWasLoaded'
  BY <1>1, <1>2 DEF EventInv, HeldWasLoaded
<1>4. held' \in [Writers -> [task : Tasks, state : AggregateState] \cup {NoAggregate}]
  BY <1>1
<1>5. QED
  BY <1>3, <1>4, HoldingKeeps DEF WriterIsStale

\* Views that are given the whole log, on subscribing or after clear().
LEMMA ReplayKeeps ==
    ASSUME EventInv, NEW ps \in SUBSET Projections, FeedTo(ps, <<>>, NoStats, <<>>, log),
           subscribed' = subscribed \cup ps, UNCHANGED <<log, latestVersion, held>>
    PROVE  EventInv'
<1>1. /\ rows' = IF "task-list-view" \in ps THEN WholeList ELSE rows
      /\ stats' = IF "task-stats-view" \in ps THEN WholeStats ELSE stats
      /\ feed' = IF "activity-feed-view" \in ps THEN WholeFeed ELSE feed
  BY DEF FeedTo, WholeList, WholeStats, WholeFeed
<1>2. /\ Created' = Created /\ Done' = Done /\ \A t : Load(t)' = Load(t)
      /\ WholeList' = WholeList /\ WholeStats' = WholeStats /\ WholeFeed' = WholeFeed
  BY DEF Created, Done, Load, WholeList, WholeStats, WholeFeed
<1>3. FoldsAgree'
  BY <1>2 DEF EventInv, FoldsAgree
<1>4. ViewsAreFolds'
  BY <1>1, <1>2 DEF EventInv, ViewsAreFolds
<1>5. HistoriesLegal' /\ HeldWasLoaded'
  BY DEF EventInv, HistoriesLegal, HeldWasLoaded
<1>6. \A t \in Created : Load(t).title \in Titles /\ Load(t).done \in BOOLEAN
  BY Loaded DEF Created, AggregateState
<1>7. /\ \A t \in DOMAIN WholeList : WholeList[t] \in [title : Titles, done : BOOLEAN]
      /\ WholeStats \in [total : Nat, completed : Nat]
  BY <1>6, ViewsTyped DEF EventInv
<1>8. WholeFeed \in FeedEntries
  BY Loaded, FoldsAreTyped DEF WholeFeed
<1>9. EventTypeOK'
  BY <1>1, <1>7, <1>8 DEF EventInv, EventTypeOK, FeedEntries
<1>10. QED
  BY <1>3, <1>4, <1>5, <1>9 DEF EventInv

\* The store starts empty, without subscribers.
LEMMA EventStarts == EventInit => EventInv
<1> SUFFICES ASSUME EventInit PROVE EventInv
  OBVIOUS
<1>1. PICK none \in Events : none = <<>>
  BY EmptySeq DEF Events
<1>2. log = none /\ DOMAIN log = {} /\ \A S : log \in Seq(S)
  BY <1>1, EmptySeq DEF EventInit
<1>3. /\ FromEvents(none) = emptyTaskState /\ \A t : EventsOf(t, log) = none
      /\ WholeList = <<>> /\ WholeStats = NoStats /\ WholeFeed = <<>>
  BY <1>1, <1>2, FoldsAreTyped DEF WholeList, WholeStats, WholeFeed
<1>4. Created = {} /\ Done = {}
  BY <1>3 DEF Created, Done, Load, emptyTaskState
<1>5. HistoriesLegal
  BY <1>1, <1>3, EmptySeq DEF EventInit, HistoriesLegal, Legal, Existing
<1>6. HeldWasLoaded
  BY DEF EventInit, HeldWasLoaded
<1>7. FoldsAgree
  <2>1. IsFiniteSet(Created) /\ Cardinality(Created) = 0 /\ Cardinality(Done) = 0
    BY <1>4, FS_EmptySet
  <2>2. <<>> = [t \in {} |-> [title |-> Load(t).title, done |-> Load(t).done]]
    OBVIOUS
  <2>3. <<>> = [i \in {} |-> <<log[i].task, log[i].version>>]
    OBVIOUS
  <2>4. QED
    BY <1>2, <1>3, <1>4, <2>1, <2>2, <2>3 DEF FoldsAgree, NoStats
<1>8. ViewsAreFolds
  BY DEF EventInit, ViewsAreFolds
<1>9. EventTypeOK
  BY <1>2, EmptySeq DEF EventInit, EventTypeOK, NoStats
<1>10. QED
  BY <1>5, <1>6, <1>7, <1>8, <1>9 DEF EventInv

\* Nothing happens.
LEMMA EventQuiet == EventInv /\ UNCHANGED eventVars => EventInv'
<1> SUFFICES ASSUME EventInv, UNCHANGED eventVars PROVE EventInv'
  OBVIOUS
<1>1. held' \in [Writers -> [task : Tasks, state : AggregateState] \cup {NoAggregate}]
  BY DEF eventVars, EventInv, EventTypeOK
<1>2. HeldWasLoaded'
  BY DEF eventVars, EventInv, HeldWasLoaded
<1>3. QED
  BY <1>1, <1>2, HoldingKeeps DEF eventVars

\* Every step keeps the invariant.
LEMMA EventStepsKeep == EventInv /\ [EventNext]_eventVars => EventInv'
<1>1. ASSUME EventInv, EventNext PROVE EventInv'
  <2>1. ASSUME NEW p \in Projections, Subscribe(p) PROVE EventInv'
    <3>1. {p} \in SUBSET Projections /\ FeedTo({p}, <<>>, NoStats, <<>>, log)
      BY <2>1 DEF Subscribe
    <3>2. QED
      BY <1>1, <2>1, <3>1, ReplayKeeps DEF Subscribe
  <2>2. ASSUME Rebuild PROVE EventInv'
    <3>1. Projections \in SUBSET Projections /\ FeedTo(Projections, <<>>, NoStats, <<>>, log)
      BY <2>2 DEF Rebuild
    <3>2. subscribed' = subscribed \cup Projections /\ UNCHANGED <<log, latestVersion, held>>
      BY <2>2 DEF Rebuild
    <3>3. QED
      BY <1>1, <3>1, <3>2, ReplayKeeps
  <2>3. QED
    BY <1>1, <2>1, <2>2, HandleKeeps, WriterLoadsKeeps, WriterAppendsKeeps, WriterIsStaleKeeps DEF EventNext
<1>2. QED
  BY <1>1, EventQuiet

\* However stale writers and the command handler interleave, each task's events are
\* numbered 1, 2, 3, ... and each was allowed after those before it (HistoryIsLegal):
\* append() compares versions only, and that is enough (event-store.ts:81).
THEOREM HistoriesAreLegal == EventSpec => []HistoryIsLegal
<1>1. EventInv => HistoryIsLegal
  BY DEF EventInv, HistoriesLegal, Legal, HistoryIsLegal
<1>2. QED
  BY <1>1, EventStarts, EventStepsKeep, PTL DEF EventSpec

\* The views, which interpret the events with code of their own, show the aggregates
\* that the command handler loads, and count them (ViewsMatchAggregates): whenever
\* they subscribed and however often they are rebuilt.
THEOREM ViewsShowAggregates == EventSpec => []ViewsMatchAggregates
<1>1. EventInv => ViewsMatchAggregates
  BY DEF EventInv, FoldsAgree, ViewsAreFolds, Created, Done, ViewsMatchAggregates
<1>2. QED
  BY <1>1, EventStarts, EventStepsKeep, PTL DEF EventSpec

-----------------------------------------------------------------------------
(* The event streams: reading is one loop over the symbols, and what it    *)
(* comes to does not depend on where the chunks end.                       *)

\* What is on a stream: the newlines, comments and lines of the events.
TaskData == UNION {[is -> BOOLEAN] : is \in SUBSET LiveIds}
Title == [done : BOOLEAN, garbled : BOOLEAN]
StreamEvents == {"init", "task.created", "task.completed", "task.updated", "task.deleted"}
TaskLines == [tasks : TaskData, garbled : BOOLEAN]
DataLines == TaskLines \cup {IdLine(i) : i \in LiveIds}
Symbols == {NL, [comment |-> "heartbeat"]} \cup {[event |-> e] : e \in StreamEvents} \cup DataLines
Text == Seq(Symbols)

\* What a client may know of the tasks: only the wide title is ever garbled.
PrintedTasks == UNION {[is -> Title] : is \in SUBSET LiveIds}
Known == {known \in PrintedTasks : \A i \in DOMAIN known : known[i].garbled => i = WideId}

\* The client's two loops and the loop they amount to: over the symbols to the
\* events, over these to the tasks, and over the symbols to the tasks.
Cuts == [events : Seq(Text), rest : Text]
cutting == [p \in Cuts \X Symbols |-> Cut(p[1], p[2])]

parsing == [p \in Known \X Text |-> Parsed(p[1], p[2])]

Readers == [told : Known, rest : Text]
EventEnds(rest, symbol) == symbol = NL /\ rest # <<>> /\ Last(rest) = NL
Read(reader, symbol) ==
    IF EventEnds(reader.rest, symbol)
    THEN [told |-> Parsed(reader.told, Front(reader.rest)), rest |-> <<>>]
    ELSE [told |-> reader.told, rest |-> Append(reader.rest, symbol)]
readingOn == [p \in Readers \X Symbols |-> Read(p[1], p[2])]

Fresh(known) == [told |-> known, rest |-> <<>>]

\* A text in which no event ends.
Unended(text) ==
    \A known \in Known : Result(readingOn, Fresh(known), text) = [told |-> known, rest |-> text]

\* What the client knows is of some tasks, and a function of that kind is known.
LEMMA KnownIsTyped ==
    /\ \A known \in Known : /\ DOMAIN known \in SUBSET LiveIds /\ known = [j \in DOMAIN known |-> known[j]]
                            /\ \A j \in DOMAIN known : known[j] \in Title /\ (known[j].garbled => j = WideId)
    /\ \A js \in SUBSET LiveIds : \A known \in [js -> Title] :
         (\A j \in js : known[j].garbled => j = WideId) => known \in Known
  BY DEF Known, PrintedTasks

\* Some of the tasks, updated and restricted, are tasks.
LEMMA TaskDataIsClosed ==
    ASSUME NEW known \in TaskData, NEW tasks \in TaskData, NEW gone
    PROVE  /\ Updated(known, tasks) \in TaskData
           /\ [j \in DOMAIN known \ gone |-> known[j]] \in TaskData
<1>1. /\ DOMAIN known \in SUBSET LiveIds /\ \A j \in DOMAIN known : known[j] \in BOOLEAN
      /\ DOMAIN tasks \in SUBSET LiveIds /\ \A j \in DOMAIN tasks : tasks[j] \in BOOLEAN
  BY DEF TaskData
<1>2. PICK is \in SUBSET LiveIds : is = DOMAIN known \cup DOMAIN tasks
  BY <1>1
<1>3. Updated(known, tasks) \in [is -> BOOLEAN]
  BY <1>1, <1>2 DEF Updated
<1>4. PICK js \in SUBSET LiveIds : js = DOMAIN known \ gone
  BY <1>1
<1>5. [j \in DOMAIN known \ gone |-> known[j]] \in [js -> BOOLEAN]
  BY <1>1, <1>4
<1>6. QED
  BY <1>3, <1>5 DEF TaskData

\* And what is known, updated and restricted, is known.
LEMMA KnownIsClosed ==
    ASSUME NEW known \in Known, NEW tasks \in Known, NEW gone
    PROVE  /\ Updated(known, tasks) \in Known
           /\ [j \in DOMAIN known \ gone |-> known[j]] \in Known
<1>1. /\ DOMAIN known \in SUBSET LiveIds /\ DOMAIN tasks \in SUBSET LiveIds
      /\ \A j \in DOMAIN known : known[j] \in Title /\ (known[j].garbled => j = WideId)
      /\ \A j \in DOMAIN tasks : tasks[j] \in Title /\ (tasks[j].garbled => j = WideId)
  BY KnownIsTyped
<1>2. PICK is \in SUBSET LiveIds : is = DOMAIN known \cup DOMAIN tasks
  BY <1>1
<1>3. PICK updated \in [is -> Title] : updated = Updated(known, tasks)
  BY <1>1, <1>2 DEF Updated
<1>4. \A j \in is : updated[j] = IF j \in DOMAIN tasks THEN tasks[j] ELSE known[j]
  BY <1>2, <1>3 DEF Updated
<1>5. updated \in Known
  <2>1. \A j \in is : updated[j].garbled => j = WideId
    BY <1>1, <1>2, <1>4
  <2>2. QED
    BY <2>1, KnownIsTyped
<1>6. PICK js \in SUBSET LiveIds : js = DOMAIN known \ gone
  BY <1>1
<1>7. PICK left \in [js -> Title] : left = [j \in DOMAIN known \ gone |-> known[j]]
  BY <1>1, <1>6
<1>8. \A j \in js : left[j].garbled => j = WideId
  BY <1>1, <1>6, <1>7
<1>9. left \in Known
  BY <1>8, KnownIsTyped
<1>10. QED
  BY <1>3, <1>5, <1>7, <1>9

\* No title is garbled; a title in the event was.
Clean(known) == \A i \in DOMAIN known : known[i].garbled = FALSE
Spoilt(event) == TRUE \in Field(event, "garbled")

\* The tasks of an event, as they are printed.
LEMMA ShownIsKnown ==
    ASSUME NEW tasks \in TaskData, NEW event
    PROVE  /\ Shown(tasks, event) \in Known /\ DOMAIN Shown(tasks, event) = DOMAIN tasks
           /\ \A i \in DOMAIN tasks : Shown(tasks, event)[i].done = tasks[i]
           /\ ~Spoilt(event) => Clean(Shown(tasks, event))
<1>1. PICK is \in SUBSET LiveIds : is = DOMAIN tasks /\ \A i \in is : tasks[i] \in BOOLEAN
  BY DEF TaskData
<1>2. PICK spoilt \in [is -> BOOLEAN] : spoilt = [i \in is |-> i = WideId /\ TRUE \in Field(event, "garbled")]
  OBVIOUS
<1>3. Shown(tasks, event) = [i \in is |-> [done |-> tasks[i], garbled |-> spoilt[i]]]
  BY <1>1, <1>2 DEF Shown
<1>4. Shown(tasks, event) \in [is -> Title]
  BY <1>1, <1>3 DEF Title
<1>5. \A i \in is : Shown(tasks, event)[i].garbled = spoilt[i] /\ Shown(tasks, event)[i].done = tasks[i]
  BY <1>3
<1>6. \A i \in is : spoilt[i] => i = WideId
  BY <1>2
<1>7. Shown(tasks, event) \in Known
  BY <1>4, <1>5, <1>6, KnownIsTyped
<1>8. ~Spoilt(event) => Clean(Shown(tasks, event))
  <2>1. ASSUME ~Spoilt(event), NEW i \in is PROVE spoilt[i] = FALSE
    BY <1>2, <2>1 DEF Spoilt
  <2>2. QED
    BY <1>4, <1>5, <2>1 DEF Clean
<1>9. QED
  BY <1>1, <1>4, <1>5, <1>7, <1>8

\* What a line of an event holds.
LEMMA FieldsAreTyped ==
    ASSUME NEW event \in Text
    PROVE  Field(event, "tasks") \subseteq TaskData
<1>1. \A line \in Range(event) : line \in Symbols
  BY LenProperties DEF Range, Text
<1>2. \A line \in Symbols : "tasks" \in DOMAIN line => line["tasks"] \in TaskData
  <2>1. ASSUME NEW line \in Symbols, "tasks" \in DOMAIN line PROVE line["tasks"] \in TaskData
    <3>1. CASE line = NL
      BY <2>1, <3>1 DEF NL
    <3>2. CASE line = [comment |-> "heartbeat"]
      BY <2>1, <3>2
    <3>3. ASSUME NEW e \in StreamEvents, line = [event |-> e] PROVE FALSE
      BY <2>1, <3>3
    <3>4. ASSUME line \in TaskLines PROVE line["tasks"] \in TaskData
      BY <3>4 DEF TaskLines
    <3>5. ASSUME NEW i \in LiveIds, line = [id |-> i] PROVE FALSE
      BY <2>1, <3>5
    <3>6. QED
      BY <2>1, <3>1, <3>2, <3>3, <3>4, <3>5 DEF Symbols, DataLines, IdLine
  <2>2. QED
    BY <2>1
<1>3. QED
  BY <1>1, <1>2 DEF Field

\* Whatever an event says, the client then knows of tasks.
LEMMA ParsedIsTyped ==
    ASSUME NEW known \in Known, NEW event \in Text
    PROVE  Parsed(known, event) \in Known
<1> DEFINE stated == CHOOSE d \in Field(event, "tasks") : TRUE
           tasks == Shown(stated, event)
<1>1. Field(event, "tasks") # {} => tasks \in Known
  <2>1. Field(event, "tasks") # {} => stated \in TaskData
    BY FieldsAreTyped
  <2> HIDE DEF stated
  <2>2. QED
    BY <2>1, ShownIsKnown
<1>2. [j \in DOMAIN known \ Field(event, "id") |-> known[j]] \in Known
  BY KnownIsClosed
<1> HIDE DEF tasks
<1>3. Field(event, "tasks") # {} => Updated(known, tasks) \in Known
  BY <1>1, KnownIsClosed
<1>4. \/ Parsed(known, event) \in {[j \in DOMAIN known \ Field(event, "id") |-> known[j]], known}
      \/ Field(event, "tasks") # {} /\ Parsed(known, event) \in {tasks, Updated(known, tasks)}
  BY DEF Parsed, tasks
<1>5. QED
  BY <1>1, <1>2, <1>3, <1>4

\* All but the last of the symbols are a text.
LEMMA FrontIsText ==
    ASSUME NEW rest \in Text
    PROVE  Front(rest) \in Text
<1>1. Len(rest) \in Nat /\ \A i \in 1 .. Len(rest) : rest[i] \in Symbols
  BY LenProperties DEF Text
<1>2. \A i \in 1 .. Len(rest) - 1 : rest[i] \in Symbols
  BY <1>1
<1>3. SubSeq(rest, 1, Len(rest) - 1) \in Seq(Symbols)
  BY <1>1, <1>2, SubSeqProperties
<1>4. QED
  BY <1>3 DEF Front, Text

\* The three loops: a symbol at a time or an event at a time.
LEMMA CuttingIsTyped == cutting \in Operations(Cuts, Symbols)
<1>1. ASSUME NEW cut \in Cuts, NEW symbol \in Symbols PROVE Cut(cut, symbol) \in Cuts
  <2>1. cut.events \in Seq(Text) /\ cut.rest \in Text
    BY DEF Cuts
  <2>2. Front(cut.rest) \in Text /\ Append(cut.rest, symbol) \in Text /\ <<>> \in Text
    BY <2>1, FrontIsText, AppendProperties, EmptySeq DEF Text
  <2>3. Append(cut.events, Front(cut.rest)) \in Seq(Text)
    BY <2>1, <2>2, AppendProperties
  <2>4. QED
    BY <2>1, <2>2, <2>3 DEF Cut, Cuts
<1>2. QED
  BY <1>1 DEF cutting, Operations

LEMMA ParsingIsTyped == parsing \in Operations(Known, Text)
  BY ParsedIsTyped DEF parsing, Operations

LEMMA ReadingOnIsTyped == readingOn \in Operations(Readers, Symbols)
<1>1. ASSUME NEW reader \in Readers, NEW symbol \in Symbols PROVE Read(reader, symbol) \in Readers
  <2>1. reader.told \in Known /\ reader.rest \in Text
    BY DEF Readers
  <2>2. Front(reader.rest) \in Text /\ Append(reader.rest, symbol) \in Text /\ <<>> \in Text
    BY <2>1, FrontIsText, AppendProperties, EmptySeq DEF Text
  <2>3. Parsed(reader.told, Front(reader.rest)) \in Known
    BY <2>1, <2>2, ParsedIsTyped
  <2>4. QED
    BY <2>1, <2>2, <2>3 DEF Read, Readers
<1>2. QED
  BY <1>1 DEF readingOn, Operations

\* split() is the first loop.
LEMMA SplitIsResult ==
    ASSUME NEW base \in Cuts, NEW text \in Seq(Symbols)
    PROVE  FoldLeft(Cut, base, text) = Result(cutting, base, text)
<1>1. PICK h \in [SUBSET DOMAIN text -> Cuts] :
         \A s \in SUBSET DOMAIN text : h[s] = Turned(cutting, base, text, h, s)
  <2>1. HasTable(Cuts, cutting, base, text)
    BY CuttingIsTyped, FoldExists
  <2>2. QED
    BY <2>1 DEF HasTable
<1>2. \A s \in SUBSET DOMAIN text :
         s # {} => text[Max(s)] \in Symbols /\ s \ {Max(s)} \in SUBSET DOMAIN text
  BY TurnsAreTyped
<1>3. \A x \in Cuts, e \in Symbols : cutting[<<x, e>>] = Cut(x, e)
  BY DEF cutting
<1>4. h = [s \in SUBSET DOMAIN text |->
             IF s = {} THEN base ELSE Cut(h[s \ {Max(s)}], text[Max(s)])]
  <2>1. ASSUME NEW s \in SUBSET DOMAIN text
        PROVE  h[s] = IF s = {} THEN base ELSE Cut(h[s \ {Max(s)}], text[Max(s)])
    <3>1. CASE s = {}
      BY <1>1, <3>1 DEF Turned
    <3>2. CASE s # {}
      <4>1. PICK x \in Cuts, e \in Symbols : x = h[s \ {Max(s)}] /\ e = text[Max(s)]
        BY <1>1, <1>2, <3>2
      <4>2. h[s] = cutting[<<x, e>>]
        BY <1>1, <3>2, <4>1 DEF Turned
      <4>3. QED
        BY <1>3, <3>2, <4>1, <4>2
    <3>3. QED
      BY <3>1, <3>2
  <2>2. QED
    BY <1>1, <2>1
<1>5. PICK g : /\ g = [s \in SUBSET DOMAIN text |->
                         IF s = {} THEN base ELSE Cut(g[s \ {Max(s)}], text[Max(s)])]
               /\ FoldLeft(Cut, base, text) = g[DOMAIN text]
  BY <1>4 DEF FoldLeft, MapThenFoldSet
<1>6. Tabulates(Cuts, cutting, base, text, g)
  <2>1. g[{}] = base
    BY <1>5
  <2>2. ASSUME NEW s \in SUBSET DOMAIN text, s # {}, g[s \ {Max(s)}] \in Cuts
        PROVE  g[s] = cutting[<<g[s \ {Max(s)}], text[Max(s)]>>]
    <3>1. PICK x \in Cuts, e \in Symbols : x = g[s \ {Max(s)}] /\ e = text[Max(s)]
      BY <1>2, <2>2
    <3>2. g[s] = Cut(x, e)
      BY <1>5, <2>2, <3>1
    <3>3. QED
      BY <1>3, <3>1, <3>2
  <2>3. QED
    BY <2>1, <2>2 DEF Tabulates
<1>7. g[DOMAIN text] = Result(cutting, base, text)
  BY <1>6, CuttingIsTyped, FoldIsResult
<1>8. QED
  BY <1>5, <1>7

\* Parsing the events in order is the second.
LEMMA ParseIsResult ==
    ASSUME NEW base \in Known, NEW ended \in Seq(Text)
    PROVE  FoldLeft(Parsed, base, ended) = Result(parsing, base, ended)
<1>1. PICK h \in [SUBSET DOMAIN ended -> Known] :
         \A s \in SUBSET DOMAIN ended : h[s] = Turned(parsing, base, ended, h, s)
  <2>1. HasTable(Known, parsing, base, ended)
    BY ParsingIsTyped, FoldExists
  <2>2. QED
    BY <2>1 DEF HasTable
<1>2. \A s \in SUBSET DOMAIN ended :
         s # {} => ended[Max(s)] \in Text /\ s \ {Max(s)} \in SUBSET DOMAIN ended
  BY TurnsAreTyped
<1>3. \A x \in Known, e \in Text : parsing[<<x, e>>] = Parsed(x, e)
  BY DEF parsing
<1>4. h = [s \in SUBSET DOMAIN ended |->
             IF s = {} THEN base ELSE Parsed(h[s \ {Max(s)}], ended[Max(s)])]
  <2>1. ASSUME NEW s \in SUBSET DOMAIN ended
        PROVE  h[s] = IF s = {} THEN base ELSE Parsed(h[s \ {Max(s)}], ended[Max(s)])
    <3>1. CASE s = {}
      BY <1>1, <3>1 DEF Turned
    <3>2. CASE s # {}
      <4>1. PICK x \in Known, e \in Text : x = h[s \ {Max(s)}] /\ e = ended[Max(s)]
        BY <1>1, <1>2, <3>2
      <4>2. h[s] = parsing[<<x, e>>]
        BY <1>1, <3>2, <4>1 DEF Turned
      <4>3. QED
        BY <1>3, <3>2, <4>1, <4>2
    <3>3. QED
      BY <3>1, <3>2
  <2>2. QED
    BY <1>1, <2>1
<1>5. PICK g : /\ g = [s \in SUBSET DOMAIN ended |->
                         IF s = {} THEN base ELSE Parsed(g[s \ {Max(s)}], ended[Max(s)])]
               /\ FoldLeft(Parsed, base, ended) = g[DOMAIN ended]
  BY <1>4 DEF FoldLeft, MapThenFoldSet
<1>6. Tabulates(Known, parsing, base, ended, g)
  <2>1. g[{}] = base
    BY <1>5
  <2>2. ASSUME NEW s \in SUBSET DOMAIN ended, s # {}, g[s \ {Max(s)}] \in Known
        PROVE  g[s] = parsing[<<g[s \ {Max(s)}], ended[Max(s)]>>]
    <3>1. PICK x \in Known, e \in Text : x = g[s \ {Max(s)}] /\ e = ended[Max(s)]
      BY <1>2, <2>2
    <3>2. g[s] = Parsed(x, e)
      BY <1>5, <2>2, <3>1
    <3>3. QED
      BY <1>3, <3>1, <3>2
  <2>3. QED
    BY <2>1, <2>2 DEF Tabulates
<1>7. g[DOMAIN ended] = Result(parsing, base, ended)
  BY <1>6, ParsingIsTyped, FoldIsResult
<1>8. QED
  BY <1>5, <1>7


-----------------------------------------------------------------------------

\* Nothing split, and a client that has read nothing.
Unsplit == [events |-> <<>>, rest |-> <<>>]

LEMMA StartsAreTyped ==
    /\ Unsplit \in Cuts /\ Unsplit.events = <<>> /\ Unsplit.rest = <<>>
    /\ \A known \in Known : Fresh(known) \in Readers
<1>1. <<>> \in Text /\ <<>> \in Seq(Text)
  BY EmptySeq DEF Text
<1>2. QED
  BY <1>1 DEF Unsplit, Fresh, Cuts, Readers

\* Splitting a text and parsing its events is reading it symbol by symbol.
LEMMA SplitReads ==
    ASSUME NEW known \in Known, NEW text \in Text
    PROVE  Result(readingOn, Fresh(known), text) =
              [told |-> Result(parsing, known, Result(cutting, Unsplit, text).events),
               rest |-> Result(cutting, Unsplit, text).rest]
<1>1. PICK cutter \in Operations(Cuts, Symbols) : cutter = cutting
  BY CuttingIsTyped
<1>2. PICK reader \in Operations(Readers, Symbols) : reader = readingOn
  BY ReadingOnIsTyped
<1>3. PICK parser \in Operations(Known, Text) : parser = parsing
  BY ParsingIsTyped
<1>4. PICK whole \in Cuts : whole = Unsplit /\ whole.events = <<>> /\ whole.rest = <<>>
  BY StartsAreTyped
<1>5. PICK fresh \in Readers : fresh = Fresh(known)
  BY StartsAreTyped
<1> DEFINE Agree(x) == Result(reader, fresh, x) =
              [told |-> Result(parser, known, Result(cutter, whole, x).events),
               rest |-> Result(cutter, whole, x).rest]
           G == {x \in Text : Agree(x)}
<1>6. <<>> \in G
  <2>1. Result(cutter, whole, <<>>) = whole /\ Result(reader, fresh, <<>>) = fresh
    BY ResultOfNone
  <2>2. Result(parser, known, <<>>) = known
    BY ResultOfNone
  <2>3. <<>> \in Text
    BY EmptySeq DEF Text
  <2>4. QED
    BY <1>4, <1>5, <2>1, <2>2, <2>3 DEF Fresh
<1>7. ASSUME NEW x \in Seq(Symbols), NEW symbol \in Symbols, x \in G PROVE Append(x, symbol) \in G
  <2>1. PICK cut \in Cuts : cut = Result(cutter, whole, x)
    BY ResultIsTyped
  <2>2. Result(cutter, whole, Append(x, symbol)) = Cut(cut, symbol)
    <3>1. Result(cutter, whole, Append(x, symbol)) = cutter[<<cut, symbol>>]
      BY <2>1, ResultOfAppend
    <3>2. QED
      BY <1>1, <3>1 DEF cutting
  <2>3. PICK sofar \in Readers : sofar = Result(reader, fresh, x)
    BY ResultIsTyped
  <2>4. Result(reader, fresh, Append(x, symbol)) = Read(sofar, symbol)
    <3>1. Result(reader, fresh, Append(x, symbol)) = reader[<<sofar, symbol>>]
      BY <2>3, ResultOfAppend
    <3>2. QED
      BY <1>2, <3>1 DEF readingOn
  <2>5. sofar.told = Result(parser, known, cut.events) /\ sofar.rest = cut.rest
    BY <1>7, <2>1, <2>3
  <2>6. PICK ended \in Seq(Text), rest \in Text : ended = cut.events /\ rest = cut.rest
    BY DEF Cuts
  <2>7. Append(x, symbol) \in Text
    BY AppendProperties DEF Text
  <2>8. CASE EventEnds(rest, symbol)
    <3>1. PICK event \in Text : event = Front(rest)
      BY FrontIsText
    <3>2. Result(parser, known, Append(ended, event)) = parser[<<Result(parser, known, ended), event>>]
      BY ResultOfAppend
    <3>3. PICK knows \in Known : knows = Result(parser, known, ended)
      BY ResultIsTyped
    <3>4. Result(parser, known, Append(ended, event)) = Parsed(knows, event)
      BY <1>3, <3>2, <3>3 DEF parsing
    <3>5. Cut(cut, symbol) = [events |-> Append(ended, event), rest |-> <<>>]
      BY <2>6, <2>8, <3>1 DEF Cut, EventEnds
    <3>6. Read(sofar, symbol) = [told |-> Parsed(knows, event), rest |-> <<>>]
      BY <2>5, <2>6, <2>8, <3>1, <3>3 DEF Read
    <3>7. /\ Result(cutter, whole, Append(x, symbol)).events = Append(ended, event)
          /\ Result(cutter, whole, Append(x, symbol)).rest = <<>>
      BY <2>2, <3>5
    <3>8. Agree(Append(x, symbol))
      BY <2>4, <3>4, <3>6, <3>7
    <3>9. QED
      BY <2>7, <3>8
  <2>9. CASE ~EventEnds(rest, symbol)
    <3>1. Cut(cut, symbol) = [events |-> ended, rest |-> Append(rest, symbol)]
      BY <2>6, <2>9 DEF Cut, EventEnds
    <3>2. Read(sofar, symbol) = [told |-> Result(parser, known, ended), rest |-> Append(rest, symbol)]
      BY <2>5, <2>6, <2>9 DEF Read
    <3>3. /\ Result(cutter, whole, Append(x, symbol)).events = ended
          /\ Result(cutter, whole, Append(x, symbol)).rest = Append(rest, symbol)
      BY <2>2, <3>1
    <3>4. Agree(Append(x, symbol))
      BY <2>4, <3>2, <3>3
    <3>5. QED
      BY <2>7, <3>4
  <2>10. QED
    BY <2>8, <2>9
<1> HIDE DEF G
<1>8. Seq(Symbols) \subseteq G
  BY <1>6, <1>7, GrowingSequences
<1>9. Agree(text)
  BY <1>8 DEF G, Text
<1>10. QED
  BY <1>1, <1>2, <1>3, <1>4, <1>5, <1>9

\* In the empty text no event ends.
LEMMA NothingIsUnended == Unended(<<>>)
<1>1. ASSUME NEW known \in Known PROVE Result(readingOn, Fresh(known), <<>>) = Fresh(known)
  <2>1. PICK op \in Operations(Readers, Symbols) : op = readingOn
    BY ReadingOnIsTyped
  <2>2. PICK fresh \in Readers : fresh = Fresh(known)
    BY StartsAreTyped
  <2>3. Result(op, fresh, <<>>) = fresh
    BY ResultOfNone
  <2>4. QED
    BY <2>1, <2>2, <2>3
<1>2. QED
  BY <1>1 DEF Unended, Fresh

\* What is left over by reading is a text in which no event ends.
LEMMA RestIsUnended ==
    ASSUME NEW known \in Known, NEW text \in Text
    PROVE  Unended(Result(readingOn, Fresh(known), text).rest)
<1>1. PICK op \in Operations(Readers, Symbols) : op = readingOn
  BY ReadingOnIsTyped
<1>2. PICK fresh \in Readers : fresh = Fresh(known)
  BY StartsAreTyped
<1> DEFINE G == {x \in Text : Unended(Result(op, fresh, x).rest)}
<1>3. Unended(<<>>)
  BY NothingIsUnended
<1>4. <<>> \in G
  <2>1. Result(op, fresh, <<>>) = fresh
    BY ResultOfNone
  <2>2. <<>> \in Text /\ fresh.rest = <<>>
    BY <1>2, EmptySeq DEF Text, Fresh
  <2>3. QED
    BY <1>3, <2>1, <2>2
<1>5. ASSUME NEW x \in Seq(Symbols), NEW symbol \in Symbols, x \in G PROVE Append(x, symbol) \in G
  <2>1. PICK sofar \in Readers : sofar = Result(op, fresh, x)
    BY ResultIsTyped
  <2>2. Result(op, fresh, Append(x, symbol)) = Read(sofar, symbol)
    <3>1. Result(op, fresh, Append(x, symbol)) = op[<<sofar, symbol>>]
      BY <2>1, ResultOfAppend
    <3>2. QED
      BY <1>1, <3>1 DEF readingOn
  <2>3. PICK rest \in Text : rest = sofar.rest /\ Unended(rest)
    BY <1>5, <2>1 DEF Readers
  <2>4. Append(x, symbol) \in Text
    BY AppendProperties DEF Text
  <2>5. CASE EventEnds(rest, symbol)
    BY <1>3, <2>2, <2>3, <2>4, <2>5 DEF Read
  <2>6. CASE ~EventEnds(rest, symbol)
    <3>1. Read(sofar, symbol).rest = Append(rest, symbol)
      BY <2>3, <2>6 DEF Read
    <3>2. ASSUME NEW other \in Known
          PROVE  Result(readingOn, Fresh(other), Append(rest, symbol)) = [told |-> other, rest |-> Append(rest, symbol)]
      <4>1. PICK start \in Readers : start = Fresh(other)
        BY StartsAreTyped
      <4>2. Result(op, start, Append(rest, symbol)) = op[<<Result(op, start, rest), symbol>>]
        BY ResultOfAppend DEF Text
      <4>3. PICK then \in Readers : then = Result(op, start, rest)
        BY ResultIsTyped DEF Text
      <4>4. then = [told |-> other, rest |-> rest]
        BY <1>1, <2>3, <4>1, <4>3 DEF Unended
      <4>5. op[<<then, symbol>>] = Read(then, symbol)
        BY <1>1 DEF readingOn
      <4>6. Read(then, symbol) = [told |-> other, rest |-> Append(rest, symbol)]
        BY <2>6, <4>4 DEF Read
      <4>7. QED
        BY <1>1, <4>1, <4>2, <4>3, <4>5, <4>6
    <3>3. Unended(Append(rest, symbol))
      BY <3>2 DEF Unended
    <3>4. QED
      BY <2>2, <2>4, <3>1, <3>3
  <2>7. QED
    BY <2>5, <2>6
<1> HIDE DEF G
<1>6. Seq(Symbols) \subseteq G
  BY <1>4, <1>5, GrowingSequences
<1>7. QED
  BY <1>1, <1>2, <1>6 DEF G, Text

\* A client that has read a text goes on with the next as with the two in one.
LEMMA ReadingGoesOn ==
    ASSUME NEW reader \in Readers, NEW first \in Text, NEW next \in Text
    PROVE  /\ first \o next \in Text
           /\ Result(readingOn, reader, first \o next) = Result(readingOn, Result(readingOn, reader, first), next)
<1>1. PICK op \in Operations(Readers, Symbols) : op = readingOn
  BY ReadingOnIsTyped
<1>2. Result(op, reader, first \o next) = Result(op, Result(op, reader, first), next)
  BY ResultOfConcat DEF Text
<1>3. first \o next \in Text
  BY ConcatProperties DEF Text
<1>4. QED
  BY <1>1, <1>2, <1>3

\* With what is in its buffer in front, a text is read as it is after the buffer.
LEMMA BufferIsKept ==
    ASSUME NEW known \in Known, NEW kept \in Text, Unended(kept), NEW text \in Text
    PROVE  Result(readingOn, Fresh(known), kept \o text) =
              Result(readingOn, [told |-> known, rest |-> kept], text)
<1>1. PICK fresh \in Readers : fresh = Fresh(known)
  BY StartsAreTyped
<1>2. Result(readingOn, fresh, kept \o text) = Result(readingOn, Result(readingOn, fresh, kept), text)
  BY ReadingGoesOn
<1>3. Result(readingOn, fresh, kept) = [told |-> known, rest |-> kept]
  BY <1>1 DEF Unended
<1>4. QED
  BY <1>1, <1>2, <1>3

-----------------------------------------------------------------------------
(* What the server writes.                                                 *)

\* The last of the symbols, and those before it.
LEMMA LastOfAppend ==
    ASSUME NEW rest \in Text, NEW symbol \in Symbols
    PROVE  /\ Append(rest, symbol) \in Text /\ Append(rest, symbol) # <<>>
           /\ Last(Append(rest, symbol)) = symbol /\ Front(Append(rest, symbol)) = rest
<1>1. /\ Append(rest, symbol) \in Text /\ Len(Append(rest, symbol)) = Len(rest) + 1
      /\ \A i \in 1 .. Len(rest) : Append(rest, symbol)[i] = rest[i]
      /\ Append(rest, symbol)[Len(rest) + 1] = symbol
  BY AppendProperties DEF Text
<1>2. Len(rest) \in Nat /\ \A i \in 1 .. Len(rest) : rest[i] \in Symbols
  BY LenProperties DEF Text
<1>3. PICK front : front = SubSeq(Append(rest, symbol), 1, Len(rest))
  OBVIOUS
<1>4. front \in Text /\ Len(front) = Len(rest) /\ \A i \in 1 .. Len(rest) : front[i] = rest[i]
  BY <1>1, <1>2, <1>3, SubSeqProperties DEF Text
<1>5. front = rest
  BY <1>4, SeqEqual DEF Text
<1>6. Len(Append(rest, symbol)) - 1 = Len(rest) /\ Append(rest, symbol) # <<>>
  <2>1. PICK longer \in Text : longer = Append(rest, symbol) /\ Len(longer) = Len(rest) + 1
    BY <1>1
  <2>2. longer # <<>> /\ Len(longer) - 1 = Len(rest)
    BY <1>2, <2>1
  <2>3. QED
    BY <2>1, <2>2
<1>7. QED
  BY <1>1, <1>3, <1>5, <1>6 DEF Front, Last

\* One more symbol after a text.
LEMMA ReadOneMore ==
    ASSUME NEW known \in Known, NEW text \in Text, NEW symbol \in Symbols,
           Result(readingOn, Fresh(known), text) = [told |-> known, rest |-> text]
    PROVE  Result(readingOn, Fresh(known), Append(text, symbol)) =
              IF EventEnds(text, symbol) THEN Fresh(Parsed(known, Front(text)))
              ELSE [told |-> known, rest |-> Append(text, symbol)]
<1>1. PICK op \in Operations(Readers, Symbols) : op = readingOn
  BY ReadingOnIsTyped
<1>2. PICK fresh \in Readers : fresh = Fresh(known)
  BY StartsAreTyped
<1>3. PICK sofar \in Readers : sofar = Result(op, fresh, text)
  BY ResultIsTyped DEF Text
<1>4. Result(op, fresh, Append(text, symbol)) = op[<<sofar, symbol>>]
  BY <1>3, ResultOfAppend DEF Text
<1>5. op[<<sofar, symbol>>] = Read(sofar, symbol)
  BY <1>1 DEF readingOn
<1>6. sofar = [told |-> known, rest |-> text]
  BY <1>1, <1>2, <1>3
<1>7. QED
  BY <1>1, <1>2, <1>4, <1>5, <1>6 DEF Read, Fresh

\* Tuples with one more element.
LEMMA PairGrows == ASSUME NEW a, NEW b PROVE <<a, b>> = Append(<<a>>, b)
  OBVIOUS

LEMMA TripleGrows == ASSUME NEW a, NEW b, NEW c PROVE <<a, b, c>> = Append(<<a, b>>, c)
  OBVIOUS

LEMMA QuadrupleGrows == ASSUME NEW a, NEW b, NEW c, NEW d PROVE <<a, b, c, d>> = Append(<<a, b, c>>, d)
  OBVIOUS

LEMMA QuintupleGrows ==
    ASSUME NEW a, NEW b, NEW c, NEW d, NEW e PROVE <<a, b, c, d, e>> = Append(<<a, b, c, d>>, e)
  OBVIOUS

\* An event that is written to a client is read as that event.
LEMMA EventIsRead ==
    ASSUME NEW known \in Known, NEW event \in StreamEvents, NEW data \in DataLines
    PROVE  /\ Lines(event, data) \in Text
           /\ Result(readingOn, Fresh(known), Lines(event, data)) = Fresh(Parsed(known, <<[event |-> event], NL, data>>))
<1>1. /\ [event |-> event] \in Symbols /\ NL \in Symbols /\ data \in Symbols
      /\ [event |-> event] # NL /\ data # NL
  <2>1. NL \in Symbols /\ data \in Symbols /\ [event |-> event] \in Symbols /\ [event |-> event] # NL
    BY DEF Symbols, NL
  <2>2. CASE data \in TaskLines
    BY <2>1, <2>2 DEF TaskLines, NL
  <2>3. CASE \E i \in LiveIds : data = [id |-> i]
    BY <2>1, <2>3 DEF NL
  <2>4. QED
    BY <2>1, <2>2, <2>3 DEF DataLines, IdLine
<1>2. PICK line \in Symbols : line = [event |-> event] /\ line # NL
  BY <1>1
<1>3. PICK t0 \in Text : t0 = <<>>
  BY EmptySeq DEF Text
<1>4. PICK t1 \in Text : t1 = Append(t0, line) /\ Last(t1) = line
  BY LastOfAppend
<1>5. PICK t2 \in Text : t2 = Append(t1, NL)
  BY <1>1, LastOfAppend
<1>6. PICK t3 \in Text : t3 = Append(t2, data) /\ Last(t3) = data
  BY <1>1, LastOfAppend
<1>7. PICK t4 \in Text : t4 = Append(t3, NL) /\ Last(t4) = NL /\ Front(t4) = t3 /\ t4 # <<>>
  BY <1>1, LastOfAppend
<1>8. Append(t4, NL) = <<line, NL, data, NL, NL>> /\ t3 = <<line, NL, data>>
  <2>1. t1 = <<line>>
    BY <1>3, <1>4
  <2>2. <<line, NL>> = Append(<<line>>, NL)
    BY PairGrows
  <2>3. <<line, NL, data>> = Append(<<line, NL>>, data)
    BY TripleGrows
  <2>4. <<line, NL, data, NL>> = Append(<<line, NL, data>>, NL)
    BY QuadrupleGrows
  <2>5. <<line, NL, data, NL, NL>> = Append(<<line, NL, data, NL>>, NL)
    BY QuintupleGrows
  <2>6. QED
    BY <1>5, <1>6, <1>7, <2>1, <2>2, <2>3, <2>4, <2>5, Zenon
<1> DEFINE IsRead(text) == Result(readingOn, Fresh(known), text) = [told |-> known, rest |-> text]
<1>9. IsRead(t0)
  BY <1>3, StartsAreTyped, ReadingOnIsTyped, ResultOfNone DEF Fresh
<1>10. IsRead(t1)
  BY <1>3, <1>4, <1>9, ReadOneMore DEF EventEnds
<1>11. IsRead(t2)
  BY <1>1, <1>2, <1>4, <1>5, <1>10, ReadOneMore DEF EventEnds
<1>12. IsRead(t3)
  BY <1>1, <1>6, <1>11, ReadOneMore DEF EventEnds
<1>13. IsRead(t4)
  BY <1>1, <1>6, <1>7, <1>12, ReadOneMore DEF EventEnds
<1>14. Result(readingOn, Fresh(known), Append(t4, NL)) = Fresh(Parsed(known, t3))
  BY <1>1, <1>7, <1>13, ReadOneMore DEF EventEnds
<1>15. Append(t4, NL) \in Text
  BY <1>1, LastOfAppend
<1>16. QED
  BY <1>2, <1>8, <1>14, <1>15 DEF Lines

\* A comment tells nothing.
LEMMA CommentIsRead ==
    ASSUME NEW known \in Known
    PROVE  /\ Comment \in Text
           /\ Result(readingOn, Fresh(known), Comment) = Fresh(known)
<1>1. NL \in Symbols /\ \E line \in Symbols : line = [comment |-> "heartbeat"] /\ line # NL
  BY DEF Symbols, NL
<1>2. PICK line \in Symbols : line = [comment |-> "heartbeat"] /\ line # NL
  BY <1>1
<1>3. PICK t0 \in Text : t0 = <<>>
  BY EmptySeq DEF Text
<1>4. PICK t1 \in Text : t1 = Append(t0, line) /\ Last(t1) = line
  BY LastOfAppend
<1>5. PICK t2 \in Text : t2 = Append(t1, NL) /\ Last(t2) = NL /\ Front(t2) = t1 /\ t2 # <<>>
  BY <1>1, LastOfAppend
<1>6. t1 = <<line>> /\ Append(t2, NL) = <<line, NL, NL>>
  <2>1. t1 = <<line>>
    BY <1>3, <1>4
  <2>2. <<line, NL>> = Append(<<line>>, NL)
    BY PairGrows
  <2>3. <<line, NL, NL>> = Append(<<line, NL>>, NL)
    BY TripleGrows
  <2>4. QED
    BY <1>5, <2>1, <2>2, <2>3, Zenon
<1> DEFINE IsRead(text) == Result(readingOn, Fresh(known), text) = [told |-> known, rest |-> text]
<1>7. IsRead(t0)
  BY <1>3, StartsAreTyped, ReadingOnIsTyped, ResultOfNone DEF Fresh
<1>8. IsRead(t1)
  BY <1>3, <1>4, <1>7, ReadOneMore DEF EventEnds
<1>9. IsRead(t2)
  BY <1>1, <1>2, <1>4, <1>5, <1>8, ReadOneMore DEF EventEnds
<1>10. Result(readingOn, Fresh(known), Append(t2, NL)) = Fresh(Parsed(known, t1))
  BY <1>1, <1>5, <1>9, ReadOneMore DEF EventEnds
<1>11. Parsed(known, t1) = known
  <2>1. Range(t1) = {line}
    BY <1>6 DEF Range
  <2>2. Field(t1, "event") = {} /\ Field(t1, "tasks") = {}
    BY <1>2, <2>1 DEF Field
  <2>3. QED
    BY <2>2 DEF Parsed
<1>12. Append(t2, NL) \in Text
  BY <1>1, LastOfAppend
<1>13. QED
  BY <1>2, <1>6, <1>10, <1>11, <1>12 DEF Comment


-----------------------------------------------------------------------------

\* The client knows the tasks there are, up to titles that are garbled.
Follows(known, tasks) ==
    DOMAIN known = DOMAIN tasks /\ \A i \in DOMAIN tasks : known[i].done = tasks[i]

\* What a behaviour of the streams keeps true: no open stream is unknown to the
\* server, and its client will know the server's tasks once it has read what is
\* on the wire - on top of what it has read and what is in its buffer.
StreamTypes ==
    /\ liveTasks \in TaskData
    /\ open \subseteq clients
    /\ open \subseteq Watchers
    /\ wire \in [Watchers -> Text]
    /\ buffer \in [Watchers -> Text]
    /\ told \in [Watchers -> Known]

WillKnow(c) ==
    /\ Unended(buffer[c])
    /\ \E known \in Known :
         /\ Result(readingOn, [told |-> told[c], rest |-> buffer[c]], wire[c]) = Fresh(known)
         /\ Follows(known, liveTasks)
         /\ c \in torn \/ Clean(known)

StreamInv ==
    /\ StreamTypes
    /\ \A c \in open : WillKnow(c)
    /\ \A c \in Watchers \ open : buffer[c] = <<>>

\* A client that has read nothing knows of no task.
LEMMA NothingKnown == <<>> \in Known
<1>1. \A known : known = <<>> => known \in [{} -> Title]
  OBVIOUS
<1>2. PICK known \in [{} -> Title] : known = <<>>
  BY <1>1
<1>3. known \in Known
  BY KnownIsTyped
<1>4. QED
  BY <1>2, <1>3

\* The lines of an event.
LEMMA EventIsText ==
    ASSUME NEW event \in StreamEvents, NEW data \in DataLines
    PROVE  <<[event |-> event], NL, data>> \in Text
<1>1. [event |-> event] \in Symbols /\ NL \in Symbols /\ data \in Symbols
  BY DEF Symbols
<1>2. QED
  BY <1>1 DEF Text

\* What is written after the rest of the wire is read by a client that knows what
\* it will have read of that.
LEMMA WrittenIsReadLast ==
    ASSUME StreamTypes, NEW c \in open, NEW text \in Text, NEW known \in Known, NEW tasks \in Known,
           Result(readingOn, [told |-> told[c], rest |-> buffer[c]], wire[c]) = Fresh(known),
           Result(readingOn, Fresh(known), text) = Fresh(tasks)
    PROVE  /\ wire[c] \o text \in Text
           /\ Result(readingOn, [told |-> told[c], rest |-> buffer[c]], wire[c] \o text) = Fresh(tasks)
<1>1. PICK reader \in Readers : reader = [told |-> told[c], rest |-> buffer[c]]
  BY DEF StreamTypes, Readers
<1>2. PICK pending \in Text : pending = wire[c]
  BY DEF StreamTypes
<1>3. /\ pending \o text \in Text
      /\ Result(readingOn, reader, pending \o text) = Result(readingOn, Result(readingOn, reader, pending), text)
  BY ReadingGoesOn
<1>4. Result(readingOn, reader, pending) = Fresh(known)
  BY <1>1, <1>2
<1>5. QED
  BY <1>1, <1>2, <1>3, <1>4

\* What a client makes of an event when that is what happened to the tasks.
Announces(piece, tasks, after) ==
    \A known \in Known : Follows(known, tasks) =>
        /\ Follows(Parsed(known, piece), after)
        /\ Clean(known) => Clean(Parsed(known, piece))

\* broadcast(): every open stream is told.
LEMMA BroadcastKeeps ==
    ASSUME StreamInv, NEW event \in StreamEvents, NEW data \in DataLines, broadcast(event, data),
           liveTasks' \in TaskData, Announces(<<[event |-> event], NL, data>>, liveTasks, liveTasks')
    PROVE  StreamInv'
<1>0. PICK after \in TaskData : after = liveTasks'
  OBVIOUS
<1>1. PICK text \in Text :
        /\ text = Lines(event, data)
        /\ \A known \in Known :
             Result(readingOn, Fresh(known), text) = Fresh(Parsed(known, <<[event |-> event], NL, data>>))
  <2>1. Lines(event, data) \in Text
    <3>1. PICK known \in Known : TRUE
      BY NothingKnown
    <3>2. QED
      BY <3>1, EventIsRead
  <2>2. QED
    BY <2>1, EventIsRead
<1>p. PICK piece \in Text : piece = <<[event |-> event], NL, data>>
  BY EventIsText
<1>2. /\ wire' = [c \in Watchers |-> IF c \in clients \cap open THEN wire[c] \o text ELSE wire[c]]
      /\ clients' = clients /\ buffer' = buffer /\ told' = told /\ open' = open /\ torn' = torn
  BY <1>1 DEF broadcast, Written
<1>4. open \subseteq clients \cap open /\ open \subseteq Watchers /\ StreamTypes
  BY DEF StreamInv, StreamTypes
<1>5. \A c \in open : wire'[c] = wire[c] \o text
  BY <1>2, <1>4
<1>3. ASSUME NEW c \in open PROVE wire[c] \o text \in Text /\ WillKnow(c)'
  <2>1. PICK known \in Known :
         /\ Result(readingOn, [told |-> told[c], rest |-> buffer[c]], wire[c]) = Fresh(known)
         /\ Follows(known, liveTasks)
         /\ c \in torn \/ Clean(known)
    BY DEF StreamInv, WillKnow
  <2>2. PICK known2 \in Known : known2 = Parsed(known, piece)
    BY ParsedIsTyped
  <2>3. Result(readingOn, Fresh(known), text) = Fresh(known2)
    BY <1>1, <1>p, <2>2
  <2>4. /\ wire[c] \o text \in Text
        /\ Result(readingOn, [told |-> told[c], rest |-> buffer[c]], wire[c] \o text) = Fresh(known2)
    BY <1>4, <2>1, <2>3, WrittenIsReadLast
  <2>5. Follows(known2, after) /\ (c \in torn \/ Clean(known2))
    BY <1>0, <1>p, <2>1, <2>2 DEF Announces
  <2>6. Unended(buffer[c])
    BY DEF StreamInv, WillKnow
  <2>7. Follows(known2, liveTasks')
    BY <1>0, <2>5
  <2>8. QED
    BY <1>2, <1>5, <2>4, <2>5, <2>6, <2>7 DEF WillKnow
<1>6. wire' \in [Watchers -> Text]
  BY <1>2, <1>3, <1>4 DEF StreamTypes
<1>8. QED
  BY <1>2, <1>3, <1>6 DEF StreamInv, StreamTypes

\* A heartbeat tells nothing.
LEMMA HeartbeatKeeps ==
    ASSUME StreamInv, NEW b \in Watchers, Heartbeat(b)
    PROVE  StreamInv'
<1>1. PICK text \in Text : text = Comment /\ \A known \in Known : Result(readingOn, Fresh(known), text) = Fresh(known)
  BY CommentIsRead, NothingKnown
<1>2. /\ wire' = [c \in Watchers |-> IF c \in {b} \cap open THEN wire[c] \o text ELSE wire[c]]
      /\ clients' = clients /\ buffer' = buffer /\ told' = told /\ open' = open /\ liveTasks' = liveTasks
      /\ torn' = torn
  BY <1>1 DEF Heartbeat, Written
<1>4. open \subseteq Watchers /\ StreamTypes
  BY DEF StreamInv, StreamTypes
<1>5. \A c \in open : wire'[c] \in {wire[c], wire[c] \o text}
  BY <1>2, <1>4
<1>3. ASSUME NEW c \in open PROVE wire[c] \o text \in Text /\ WillKnow(c)'
  <2>1. PICK known \in Known :
         /\ Result(readingOn, [told |-> told[c], rest |-> buffer[c]], wire[c]) = Fresh(known)
         /\ Follows(known, liveTasks)
         /\ c \in torn \/ Clean(known)
    BY DEF StreamInv, WillKnow
  <2>2. Result(readingOn, Fresh(known), text) = Fresh(known)
    BY <1>1
  <2>4. /\ wire[c] \o text \in Text
        /\ Result(readingOn, [told |-> told[c], rest |-> buffer[c]], wire[c] \o text) = Fresh(known)
    BY <1>4, <2>1, <2>2, WrittenIsReadLast
  <2>5. Result(readingOn, [told |-> told[c], rest |-> buffer[c]], wire'[c]) = Fresh(known)
    BY <1>5, <2>1, <2>4
  <2>6. Unended(buffer[c])
    BY DEF StreamInv, WillKnow
  <2>7. QED
    BY <1>2, <2>1, <2>4, <2>5, <2>6 DEF WillKnow
<1>6. wire' \in [Watchers -> Text]
  BY <1>2, <1>3, <1>4 DEF StreamTypes
<1>8. QED
  BY <1>2, <1>3, <1>6 DEF StreamInv, StreamTypes

\* What a client does with the lines of the kinds of event.
LEMMA EventsAreParsed ==
    ASSUME NEW event \in StreamEvents, NEW data \in DataLines, NEW piece, piece = <<[event |-> event], NL, data>>
    PROVE  /\ Field(piece, "event") = {event}
           /\ \A tasks : data = TaskLine(tasks) =>
                Field(piece, "tasks") = {tasks} /\ ~Spoilt(piece)
           /\ \A i : data = IdLine(i) => Field(piece, "id") = {i}
<1> DEFINE line == [event |-> event]
<1>1. DOMAIN line = {"event"} /\ line["event"] = event
  OBVIOUS
<1>2. DOMAIN NL = {"newline"}
  BY DEF NL
<1> HIDE DEF line
<1>3. Range(<<line, NL, data>>) = {line, NL, data}
  BY DEF Range
<1>4. "event" \notin DOMAIN data
  BY DEF DataLines, TaskLines, IdLine
<1>5. Field(<<line, NL, data>>, "event") = {event}
  BY <1>1, <1>2, <1>3, <1>4 DEF Field
<1>6. ASSUME NEW tasks, data = TaskLine(tasks)
      PROVE  Field(<<line, NL, data>>, "tasks") = {tasks} /\ ~Spoilt(<<line, NL, data>>)
  <2>1. DOMAIN data = {"tasks", "garbled"} /\ data["tasks"] = tasks /\ data["garbled"] = FALSE
    BY <1>6 DEF TaskLine
  <2>2. Field(<<line, NL, data>>, "tasks") = {tasks}
    BY <1>1, <1>2, <1>3, <2>1 DEF Field
  <2>3. Field(<<line, NL, data>>, "garbled") = {data["garbled"]}
    <3>1. DOMAIN data = {"tasks", "garbled"}
      BY <2>1
    <3>2. QED
      BY <1>1, <1>2, <1>3, <3>1 DEF Field
  <2>4. TRUE \notin {data["garbled"]}
    <3>1. data["garbled"] = FALSE
      BY <2>1
    <3>2. QED
      BY <3>1
  <2>5. QED
    BY <2>2, <2>3, <2>4 DEF Spoilt
<1>7. ASSUME NEW i, data = IdLine(i) PROVE Field(<<line, NL, data>>, "id") = {i}
  <2>1. DOMAIN data = {"id"} /\ data["id"] = i
    BY <1>7 DEF IdLine
  <2>2. QED
    BY <1>1, <1>2, <1>3, <2>1 DEF Field
<1>8. QED
  BY <1>5, <1>6, <1>7 DEF line

\* Lines of tasks and ids.
LEMMA DataIsTyped ==
    /\ \A tasks \in TaskData : TaskLine(tasks) \in DataLines
    /\ \A i \in LiveIds : IdLine(i) \in DataLines
    /\ \A i \in LiveIds, flag \in BOOLEAN : Only(i, flag) \in TaskData
<1>1. ASSUME NEW i \in LiveIds, NEW flag \in BOOLEAN PROVE Only(i, flag) \in TaskData
  <2>1. Only(i, flag) \in [{i} -> BOOLEAN]
    BY DEF Only
  <2>2. QED
    BY <2>1 DEF TaskData
<1>2. \A tasks \in TaskData : TaskLine(tasks) \in TaskLines
  BY DEF TaskLine, TaskLines
<1>3. \A i \in LiveIds : IdLine(i) \in DataLines
  BY DEF DataLines
<1>4. QED
  BY <1>1, <1>2, <1>3 DEF DataLines

\* A created or changed task is told with an event that has it.
LEMMA UpdateIsTold ==
    ASSUME NEW event \in {"task.created", "task.completed", "task.updated"}, NEW tasks \in TaskData,
           NEW there \in TaskData
    PROVE  Announces(<<[event |-> event], NL, TaskLine(tasks)>>, there, Updated(there, tasks))
<1>d. PICK data \in DataLines : data = TaskLine(tasks)
  BY DataIsTyped
<1>1. PICK piece : piece = <<[event |-> event], NL, data>>
  OBVIOUS
<1>2. Field(piece, "event") = {event} /\ Field(piece, "tasks") = {tasks} /\ ~Spoilt(piece)
  <2>1. event \in StreamEvents
    BY DEF StreamEvents
  <2>2. QED
    BY <1>d, <1>1, <2>1, EventsAreParsed
<1>3. PICK shown \in Known : shown = Shown(tasks, piece)
  BY ShownIsKnown
<1>4. /\ DOMAIN shown = DOMAIN tasks /\ \A i \in DOMAIN tasks : shown[i].done = tasks[i]
      /\ Clean(shown)
  BY <1>2, <1>3, ShownIsKnown
<1>5. SUFFICES ASSUME NEW known \in Known, Follows(known, there)
               PROVE  /\ Follows(Parsed(known, piece), Updated(there, tasks))
                      /\ Clean(known) => Clean(Parsed(known, piece))
  BY <1>d, <1>1 DEF Announces
<1>6. Parsed(known, piece) = Updated(known, shown)
  BY <1>2, <1>3 DEF Parsed
<1>7. Follows(Updated(known, shown), Updated(there, tasks))
  BY <1>4, <1>5 DEF Follows, Updated
<1>8. Clean(known) => Clean(Updated(known, shown))
  BY <1>4 DEF Clean, Updated
<1>9. QED
  BY <1>6, <1>7, <1>8

\* A deleted task is told with its id.
LEMMA DeletionIsTold ==
    ASSUME NEW i \in LiveIds, NEW there \in TaskData
    PROVE  Announces(<<[event |-> "task.deleted"], NL, IdLine(i)>>, there, [j \in DOMAIN there \ {i} |-> there[j]])
<1>1. PICK piece : piece = <<[event |-> "task.deleted"], NL, IdLine(i)>>
  OBVIOUS
<1>2. Field(piece, "event") = {"task.deleted"} /\ Field(piece, "id") = {i}
  BY <1>1, EventsAreParsed, DataIsTyped DEF StreamEvents
<1>3. SUFFICES ASSUME NEW known \in Known, Follows(known, there)
               PROVE  /\ Follows(Parsed(known, piece), [j \in DOMAIN there \ {i} |-> there[j]])
                      /\ Clean(known) => Clean(Parsed(known, piece))
  BY <1>1 DEF Announces
<1>4. Parsed(known, piece) = [j \in DOMAIN known \ {i} |-> known[j]]
  BY <1>2 DEF Parsed
<1>5. QED
  BY <1>3, <1>4 DEF Follows, Clean

\* POST, PATCH and DELETE.
LEMMA TaskChangesKeep ==
    ASSUME StreamInv, NEW i \in LiveIds, NEW done \in BOOLEAN,
           PostLive(i) \/ PatchLive(i, done) \/ DeleteLive(i)
    PROVE  StreamInv'
<1>1. PICK there \in TaskData : there = liveTasks
  BY DEF StreamInv, StreamTypes
<1>2. CASE PostLive(i)
  <2>1. PICK tasks \in TaskData : tasks = Only(i, FALSE)
    BY DataIsTyped
  <2>2. PICK data \in DataLines : data = TaskLine(tasks)
    BY DataIsTyped
  <2>3. liveTasks' = Updated(there, tasks) /\ broadcast("task.created", data)
    BY <1>1, <1>2, <2>1, <2>2 DEF PostLive
  <2>4. liveTasks' \in TaskData
    BY <2>3, TaskDataIsClosed
  <2>5. Announces(<<[event |-> "task.created"], NL, data>>, liveTasks, liveTasks')
    BY <1>1, <2>2, <2>3, UpdateIsTold
  <2>6. QED
    BY <2>3, <2>4, <2>5, BroadcastKeeps DEF StreamEvents
<1>3. CASE PatchLive(i, done)
  <2>1. PICK tasks \in TaskData : tasks = Only(i, done)
    BY DataIsTyped
  <2>2. PICK data \in DataLines : data = TaskLine(tasks)
    BY DataIsTyped
  <2>3. PICK event \in {"task.completed", "task.updated"} : broadcast(event, data)
    BY <1>3, <2>1, <2>2 DEF PatchLive
  <2>4. liveTasks' = Updated(there, tasks)
    <3>1. i \in DOMAIN there /\ liveTasks' = [there EXCEPT ![i] = done]
      BY <1>1, <1>3 DEF PatchLive
    <3>2. liveTasks' = [j \in DOMAIN there |-> IF j = i THEN done ELSE there[j]]
      BY <3>1 DEF TaskData
    <3>3. Updated(there, tasks) = [j \in DOMAIN there |-> IF j = i THEN done ELSE there[j]]
      BY <2>1, <3>1 DEF Updated, Only
    <3>4. QED
      BY <3>2, <3>3
  <2>5. liveTasks' \in TaskData
    BY <2>4, TaskDataIsClosed
  <2>6. Announces(<<[event |-> event], NL, data>>, liveTasks, liveTasks')
    BY <1>1, <2>2, <2>4, UpdateIsTold
  <2>7. QED
    BY <2>3, <2>5, <2>6, BroadcastKeeps DEF StreamEvents
<1>4. CASE DeleteLive(i)
  <2>1. PICK data \in DataLines : data = IdLine(i)
    BY DataIsTyped
  <2>2. liveTasks' = [j \in DOMAIN there \ {i} |-> there[j]] /\ broadcast("task.deleted", data)
    BY <1>1, <1>4, <2>1 DEF DeleteLive
  <2>3. liveTasks' \in TaskData
    BY <2>2, TaskDataIsClosed
  <2>4. Announces(<<[event |-> "task.deleted"], NL, data>>, liveTasks, liveTasks')
    BY <1>1, <2>1, <2>2, DeletionIsTold
  <2>5. QED
    BY <2>2, <2>3, <2>4, BroadcastKeeps DEF StreamEvents
<1>5. QED
  BY <1>2, <1>3, <1>4

\* GET /events: the initial state is all there is to know.
LEMMA OpenStreamKeeps ==
    ASSUME StreamInv, NEW w \in Watchers, OpenStream(w)
    PROVE  StreamInv'
<1>1. PICK there \in TaskData, before \in Known : there = liveTasks /\ before = told[w] /\ buffer[w] = <<>>
  BY DEF StreamInv, StreamTypes, OpenStream
<1>2. PICK data \in DataLines : data = TaskLine(there)
  BY DataIsTyped
<1>3. PICK first \in Text : first = Comment /\ Result(readingOn, Fresh(before), first) = Fresh(before)
  BY CommentIsRead
<1>4. PICK piece \in Text : piece = <<[event |-> "init"], NL, data>>
  BY EventIsText DEF StreamEvents
<1>5. Field(piece, "event") = {"init"} /\ Field(piece, "tasks") = {there} /\ ~Spoilt(piece)
  <2>1. "init" \in StreamEvents
    BY DEF StreamEvents
  <2>2. QED
    BY <1>2, <1>4, <2>1, EventsAreParsed
<1>6. PICK known \in Known : known = Shown(there, piece)
  BY ShownIsKnown
<1>7. Follows(known, there) /\ Clean(known)
  BY <1>5, <1>6, ShownIsKnown DEF Follows
<1>8. Parsed(before, piece) = known
  BY <1>5, <1>6 DEF Parsed
<1>9. PICK second \in Text :
         second = Lines("init", data) /\ Result(readingOn, Fresh(before), second) = Fresh(known)
  BY <1>4, <1>8, EventIsRead DEF StreamEvents
<1>10. PICK fresh \in Readers : fresh = Fresh(before)
  BY StartsAreTyped
<1>11. first \o second \in Text /\ Result(readingOn, fresh, first \o second) = Fresh(known)
  BY <1>3, <1>9, <1>10, ReadingGoesOn
<1>12. PICK text \in Text : text = first \o second
  BY <1>11
<1>13. wire' = [wire EXCEPT ![w] = text]
  BY <1>1, <1>2, <1>3, <1>9, <1>12 DEF OpenStream
<1>14. wire' \in [Watchers -> Text] /\ wire'[w] = text /\ \A c \in Watchers \ {w} : wire'[c] = wire[c]
  BY <1>13 DEF StreamInv, StreamTypes
<1>15. /\ liveTasks' = liveTasks /\ buffer' = buffer /\ told' = told /\ torn' = torn
       /\ open' = open \cup {w} /\ clients' = clients \cup {w} /\ w \notin open
  BY DEF OpenStream
<1>16. WillKnow(w)'
  <2>1. fresh = [told |-> told[w], rest |-> buffer[w]]
    BY <1>1, <1>10 DEF Fresh
  <2>2. Result(readingOn, [told |-> told'[w], rest |-> buffer'[w]], wire'[w]) = Fresh(known)
    BY <1>11, <1>12, <1>14, <1>15, <2>1
  <2>3. Unended(buffer'[w])
    BY <1>1, <1>15, NothingIsUnended
  <2>4. Follows(known, liveTasks') /\ Clean(known)
    BY <1>1, <1>7, <1>15
  <2>5. QED
    BY <2>2, <2>3, <2>4 DEF WillKnow
<1>17. \A c \in open : WillKnow(c)'
  BY <1>14, <1>15 DEF StreamInv, StreamTypes, WillKnow
<1>18. QED
  BY <1>14, <1>15, <1>16, <1>17 DEF StreamInv, StreamTypes

\* A client that goes loses what it has read; the server learns of it later.
LEMMA LeavingKeeps ==
    ASSUME StreamInv, NEW w \in Watchers, LeaveStream(w) \/ StreamCloses(w)
    PROVE  StreamInv'
<1>1. CASE LeaveStream(w)
  <2>1. PICK none \in Text, nothing \in Known : none = <<>> /\ nothing = <<>>
    BY NothingKnown, EmptySeq DEF Text
  <2>2. /\ open' = open \ {w} /\ clients' = clients /\ liveTasks' = liveTasks /\ torn' = torn \ {w}
        /\ wire' = [wire EXCEPT ![w] = none] /\ buffer' = [buffer EXCEPT ![w] = none]
        /\ told' = [told EXCEPT ![w] = nothing]
    BY <1>1, <2>1 DEF LeaveStream
  <2>3. StreamTypes'
    BY <2>2 DEF StreamInv, StreamTypes
  <2>4. /\ buffer'[w] = <<>>
        /\ \A c \in Watchers \ {w} : wire'[c] = wire[c] /\ buffer'[c] = buffer[c] /\ told'[c] = told[c]
    BY <2>1, <2>2 DEF StreamInv, StreamTypes
  <2>5. \A c \in open' : WillKnow(c)'
    BY <2>2, <2>4 DEF StreamInv, StreamTypes, WillKnow
  <2>6. QED
    BY <2>2, <2>3, <2>4, <2>5 DEF StreamInv
<1>2. CASE StreamCloses(w)
  BY <1>2 DEF StreamCloses, StreamInv, StreamTypes, WillKnow
<1>3. QED
  BY <1>1, <1>2

-----------------------------------------------------------------------------
(* What a chunk that ends inside a character changes: a title, no more.     *)

\* The lines that agree in what they say of events, tasks and ids.
Alike(a, b) ==
    /\ (a = NL <=> b = NL)
    /\ \A name \in {"event", "tasks", "id"} :
         (name \in DOMAIN a <=> name \in DOMAIN b) /\ (name \in DOMAIN a => a[name] = b[name])
AlikeTexts(x, y) == Len(x) = Len(y) /\ \A i \in 1 .. Len(x) : Alike(x[i], y[i])
AlikeReaders(r, s) == Follows(r.told, [i \in DOMAIN s.told |-> s.told[i].done]) /\ AlikeTexts(r.rest, s.rest)

\* A line of tasks, garbled, is like it was.
LEMMA GarbledIsAlike ==
    ASSUME NEW symbol \in Symbols, "tasks" \in DOMAIN symbol
    PROVE  Garbled(symbol) \in Symbols /\ Alike(Garbled(symbol), symbol)
<1>1. symbol \in TaskLines
  <2>1. CASE symbol = NL
    BY <2>1 DEF NL
  <2>2. CASE symbol = [comment |-> "heartbeat"]
    BY <2>2
  <2>3. ASSUME NEW e \in StreamEvents, symbol = [event |-> e] PROVE FALSE
    BY <2>3
  <2>4. ASSUME NEW i \in LiveIds, symbol = [id |-> i] PROVE FALSE
    BY <2>4
  <2>5. QED
    BY <2>1, <2>2, <2>3, <2>4 DEF Symbols, DataLines, IdLine
<1>2. PICK tasks \in TaskData, g \in BOOLEAN : symbol = [tasks |-> tasks, garbled |-> g]
  BY <1>1 DEF TaskLines
<1>3. PICK other : other = [tasks |-> tasks, garbled |-> TRUE]
  OBVIOUS
<1>4. Garbled(symbol) = other
  BY <1>2, <1>3 DEF Garbled
<1>5. other \in TaskLines
  BY <1>3 DEF TaskLines
<1>6. other \in Symbols
  BY <1>5 DEF Symbols, DataLines
<1>7. other # NL /\ symbol # NL
  BY <1>2, <1>3 DEF NL
<1>8. DOMAIN other = {"tasks", "garbled"} /\ DOMAIN symbol = {"tasks", "garbled"}
  BY <1>2, <1>3
<1>9. other["tasks"] = symbol["tasks"]
  BY <1>2, <1>3
<1>10. Alike(other, symbol)
  BY <1>7, <1>8, <1>9 DEF Alike
<1>11. QED
  BY <1>4, <1>6, <1>10

\* Texts that are alike have alike fields.
LEMMA FieldsAreAlike ==
    ASSUME NEW x \in Text, NEW y \in Text, AlikeTexts(x, y), NEW name \in {"event", "tasks", "id"}
    PROVE  Field(x, name) = Field(y, name)
<1>1. /\ Len(x) = Len(y) /\ DOMAIN x = 1 .. Len(x) /\ DOMAIN y = 1 .. Len(x)
      /\ \A i \in 1 .. Len(x) : Alike(x[i], y[i])
  BY LenProperties DEF AlikeTexts, Text
<1>2. \A i \in 1 .. Len(x) :
        (name \in DOMAIN x[i] <=> name \in DOMAIN y[i]) /\ (name \in DOMAIN x[i] => x[i][name] = y[i][name])
  BY <1>1 DEF Alike
<1>3. Field(x, name) = {x[i][name] : i \in {j \in 1 .. Len(x) : name \in DOMAIN x[j]}}
  BY <1>1 DEF Field, Range
<1>4. Field(y, name) = {y[i][name] : i \in {j \in 1 .. Len(x) : name \in DOMAIN y[j]}}
  BY <1>1 DEF Field, Range
<1>5. QED
  BY <1>2, <1>3, <1>4

\* Alike events tell the same of the tasks.
LEMMA ParsedAlike ==
    ASSUME NEW x \in Text, NEW y \in Text, AlikeTexts(x, y), NEW known \in Known, NEW other \in Known,
           Follows(known, [i \in DOMAIN other |-> other[i].done])
    PROVE  LET known2 == Parsed(known, x)
               other2 == Parsed(other, y)
           IN  Follows(known2, [i \in DOMAIN other2 |-> other2[i].done])
<1>1. /\ Field(x, "event") = Field(y, "event") /\ Field(x, "tasks") = Field(y, "tasks")
      /\ Field(x, "id") = Field(y, "id")
  BY FieldsAreAlike
<1>e. PICK types : types = [s \in {Field(x, "event"), Field(y, "event")} |->
                              IF s = {} THEN "message" ELSE CHOOSE e \in s : TRUE]
  OBVIOUS
<1>d. PICK type : type = types[Field(x, "event")]
  OBVIOUS
<1>2. type = IF Field(x, "event") = {} THEN "message" ELSE CHOOSE e \in Field(x, "event") : TRUE
  BY <1>e, <1>d
<1>t. type = IF Field(y, "event") = {} THEN "message" ELSE CHOOSE e \in Field(y, "event") : TRUE
  <2>1. type = types[Field(y, "event")]
    BY <1>1, <1>d
  <2>2. types[Field(y, "event")] = IF Field(y, "event") = {} THEN "message" ELSE CHOOSE e \in Field(y, "event") : TRUE
    BY <1>e
  <2>3. QED
    BY <2>1, <2>2
<1>3. PICK tasks : tasks = CHOOSE d \in Field(x, "tasks") : TRUE
  OBVIOUS
<1>4. /\ DOMAIN Shown(tasks, x) = DOMAIN tasks /\ DOMAIN Shown(tasks, y) = DOMAIN tasks
      /\ \A i \in DOMAIN tasks : Shown(tasks, x)[i].done = Shown(tasks, y)[i].done
  BY DEF Shown
<1>5. DOMAIN known = DOMAIN other /\ \A i \in DOMAIN other : known[i].done = other[i].done
  BY DEF Follows
<1> DEFINE Same(a, b) == DOMAIN a = DOMAIN b /\ \A i \in DOMAIN b : a[i].done = b[i].done
<1>6. CASE type = "task.deleted"
  <2>1. Parsed(known, x) = [j \in DOMAIN known \ Field(x, "id") |-> known[j]]
    BY <1>2, <1>6 DEF Parsed
  <2>2. Parsed(other, y) = [j \in DOMAIN other \ Field(y, "id") |-> other[j]]
    BY <1>t, <1>6 DEF Parsed
  <2>3. QED
    BY <1>1, <1>5, <2>1, <2>2 DEF Follows
<1>7. CASE type = "init" /\ Field(x, "tasks") # {}
  <2>1. Parsed(known, x) = Shown(tasks, x) /\ Parsed(other, y) = Shown(tasks, y)
    BY <1>1, <1>2, <1>3, <1>7 DEF Parsed
  <2>2. QED
    BY <1>4, <2>1 DEF Follows
<1>8. CASE type \in {"task.created", "task.completed", "task.updated"} /\ Field(x, "tasks") # {}
  <2>1. Parsed(known, x) = Updated(known, Shown(tasks, x)) /\ Parsed(other, y) = Updated(other, Shown(tasks, y))
    BY <1>1, <1>2, <1>3, <1>8 DEF Parsed
  <2>2. Same(Updated(known, Shown(tasks, x)), Updated(other, Shown(tasks, y)))
    BY <1>4, <1>5 DEF Updated
  <2>3. QED
    BY <2>1, <2>2 DEF Follows
<1>9. CASE /\ type # "task.deleted" /\ ~ (type = "init" /\ Field(x, "tasks") # {})
           /\ ~ (type \in {"task.created", "task.completed", "task.updated"} /\ Field(x, "tasks") # {})
  <2>1. Parsed(known, x) = known /\ Parsed(other, y) = other
    BY <1>1, <1>2, <1>9 DEF Parsed
  <2>2. QED
    BY <1>5, <2>1 DEF Follows
<1>10. QED
  BY <1>6, <1>7, <1>8, <1>9

\* Reading on with alike lines, alike readers stay alike.
LEMMA ReadAlike ==
    ASSUME NEW r \in Readers, NEW s \in Readers, AlikeReaders(r, s),
           NEW a \in Symbols, NEW b \in Symbols, Alike(a, b)
    PROVE  AlikeReaders(Read(r, a), Read(s, b))
<1>1. PICK x \in Text, y \in Text, known \in Known, other \in Known :
        x = r.rest /\ y = s.rest /\ known = r.told /\ other = s.told
  BY DEF Readers
<1>2. AlikeTexts(x, y) /\ Follows(known, [i \in DOMAIN other |-> other[i].done])
  BY <1>1 DEF AlikeReaders
<1>3. /\ Len(x) \in Nat /\ Len(x) = Len(y) /\ \A i \in 1 .. Len(x) : Alike(x[i], y[i])
      /\ (x = <<>> <=> Len(x) = 0) /\ (y = <<>> <=> Len(x) = 0)
  BY <1>2, LenProperties, EmptySeq DEF AlikeTexts, Text
<1>4. EventEnds(x, a) <=> EventEnds(y, b)
  <2>1. Len(x) # 0 => Alike(x[Len(x)], y[Len(x)])
    BY <1>3
  <2>2. Last(x) = x[Len(x)] /\ Last(y) = y[Len(x)]
    BY <1>3 DEF Last
  <2>3. Len(x) # 0 => (Last(x) = NL <=> Last(y) = NL)
    BY <2>1, <2>2 DEF Alike
  <2>4. a = NL <=> b = NL
    BY DEF Alike
  <2>5. QED
    BY <1>3, <2>3, <2>4 DEF EventEnds
<1>5. CASE EventEnds(x, a)
  <2>1. PICK front \in Text, back \in Text : front = Front(x) /\ back = Front(y)
    BY FrontIsText
  <2>2. AlikeTexts(front, back)
    <3>1. Len(x) # 0
      BY <1>3, <1>5 DEF EventEnds
    <3>2. \A i \in 1 .. Len(x) : x[i] \in Symbols /\ y[i] \in Symbols
      BY <1>3, LenProperties DEF Text
    <3>3. /\ Len(front) = Len(x) - 1 /\ \A i \in 1 .. Len(x) - 1 : front[i] = x[i]
      BY <1>3, <2>1, <3>1, <3>2, SubSeqProperties DEF Front
    <3>4. /\ Len(back) = Len(x) - 1 /\ \A i \in 1 .. Len(x) - 1 : back[i] = y[i]
      BY <1>3, <2>1, <3>1, <3>2, SubSeqProperties DEF Front
    <3>5. QED
      BY <1>3, <3>1, <3>3, <3>4 DEF AlikeTexts
  <2>3. PICK known2 \in Known, other2 \in Known : known2 = Parsed(known, front) /\ other2 = Parsed(other, back)
    BY ParsedIsTyped
  <2>4. Follows(known2, [i \in DOMAIN other2 |-> other2[i].done])
    BY <1>2, <2>2, <2>3, ParsedAlike
  <2>5. Read(r, a) = [told |-> known2, rest |-> <<>>] /\ Read(s, b) = [told |-> other2, rest |-> <<>>]
    BY <1>1, <1>4, <1>5, <2>1, <2>3 DEF Read
  <2>6. AlikeTexts(<<>>, <<>>)
    BY DEF AlikeTexts
  <2>7. QED
    BY <2>4, <2>5, <2>6 DEF AlikeReaders
<1>6. CASE ~ EventEnds(x, a)
  <2>1. PICK longer \in Text, longer2 \in Text : longer = Append(x, a) /\ longer2 = Append(y, b)
    BY LastOfAppend
  <2>2. AlikeTexts(longer, longer2)
    <3>1. /\ Len(longer) = Len(x) + 1 /\ longer[Len(x) + 1] = a
          /\ \A i \in 1 .. Len(x) : longer[i] = x[i]
      BY <2>1, AppendProperties DEF Text
    <3>2. /\ Len(longer2) = Len(x) + 1 /\ longer2[Len(x) + 1] = b
          /\ \A i \in 1 .. Len(x) : longer2[i] = y[i]
      BY <1>3, <2>1, AppendProperties DEF Text
    <3>3. QED
      BY <1>3, <3>1, <3>2 DEF AlikeTexts
  <2>3. Read(r, a) = [told |-> known, rest |-> longer] /\ Read(s, b) = [told |-> other, rest |-> longer2]
    BY <1>1, <1>4, <1>6, <2>1 DEF Read
  <2>4. QED
    BY <1>2, <2>2, <2>3 DEF AlikeReaders
<1>7. QED
  BY <1>5, <1>6

\* And so they do over a whole text.
LEMMA ResultsAreAlike ==
    ASSUME NEW r \in Readers, NEW s \in Readers, AlikeReaders(r, s), NEW text \in Text
    PROVE  AlikeReaders(Result(readingOn, r, text), Result(readingOn, s, text))
<1>1. PICK op \in Operations(Readers, Symbols) : op = readingOn
  BY ReadingOnIsTyped
<1> DEFINE G == {x \in Text : AlikeReaders(Result(op, r, x), Result(op, s, x))}
<1>2. <<>> \in G
  <2>1. Result(op, r, <<>>) = r /\ Result(op, s, <<>>) = s
    BY ResultOfNone
  <2>2. QED
    BY <2>1, EmptySeq DEF Text
<1>3. ASSUME NEW x \in Seq(Symbols), NEW symbol \in Symbols, x \in G PROVE Append(x, symbol) \in G
  <2>1. PICK u \in Readers, v \in Readers : u = Result(op, r, x) /\ v = Result(op, s, x)
    BY ResultIsTyped
  <2>2. Result(op, r, Append(x, symbol)) = op[<<u, symbol>>] /\ Result(op, s, Append(x, symbol)) = op[<<v, symbol>>]
    BY <2>1, ResultOfAppend
  <2>3. op[<<u, symbol>>] = Read(u, symbol) /\ op[<<v, symbol>>] = Read(v, symbol)
    BY <1>1 DEF readingOn
  <2>4. Alike(symbol, symbol)
    BY DEF Alike
  <2>5. AlikeReaders(Read(u, symbol), Read(v, symbol))
    BY <1>3, <2>1, <2>4, ReadAlike
  <2>6. Append(x, symbol) \in Text
    BY AppendProperties DEF Text
  <2>7. QED
    BY <2>2, <2>3, <2>5, <2>6
<1> HIDE DEF G
<1>4. Seq(Symbols) \subseteq G
  BY <1>2, <1>3, GrowingSequences
<1>5. QED
  BY <1>1, <1>4 DEF G, Text

\* A text in two parts is the text.
LEMMA TextInTwo ==
    ASSUME NEW text \in Text, NEW n \in 0 .. Len(text)
    PROVE  /\ SubSeq(text, 1, n) \in Text /\ SubSeq(text, n + 1, Len(text)) \in Text
           /\ text = SubSeq(text, 1, n) \o SubSeq(text, n + 1, Len(text))
           /\ Len(SubSeq(text, 1, n)) = n /\ \A i \in 1 .. n : SubSeq(text, 1, n)[i] = text[i]
           /\ Len(SubSeq(text, n + 1, Len(text))) = Len(text) - n
           /\ \A i \in 1 .. Len(text) - n : SubSeq(text, n + 1, Len(text))[i] = text[n + i]
<1>1. Len(text) \in Nat /\ n \in 0 .. Len(text) /\ \A i \in 1 .. Len(text) : text[i] \in Symbols
  BY LenProperties DEF Text
<1>2. PICK first : first = SubSeq(text, 1, n)
  OBVIOUS
<1>3. first \in Seq(Symbols) /\ Len(first) = n /\ \A i \in 1 .. n : first[i] = text[i]
  BY <1>1, <1>2, SubSeqProperties
<1>4. PICK second : second = SubSeq(text, n + 1, Len(text))
  OBVIOUS
<1>5. /\ second \in Seq(Symbols) /\ Len(second) = Len(text) - n
      /\ \A i \in 1 .. Len(text) - n : second[i] = text[n + i]
  <2>1. n + 1 \in Int /\ Len(text) \in Int /\ \A i \in n + 1 .. Len(text) : text[i] \in Symbols
    BY <1>1
  <2>2. /\ second \in Seq(Symbols) /\ Len(second) = IF n + 1 <= Len(text) THEN Len(text) - (n + 1) + 1 ELSE 0
        /\ \A i \in 1 .. Len(text) - (n + 1) + 1 : second[i] = text[(n + 1) + i - 1]
    BY <1>4, <2>1, SubSeqProperties
  <2>3. QED
    BY <1>1, <2>2
<1>6. first \o second \in Seq(Symbols) /\ Len(first \o second) = Len(text)
  BY <1>1, <1>3, <1>5, ConcatProperties
<1>7. \A i \in 1 .. Len(text) : (first \o second)[i] = text[i]
  <2>1. SUFFICES ASSUME NEW i \in 1 .. Len(text) PROVE (first \o second)[i] = text[i]
    OBVIOUS
  <2>2. (first \o second)[i] = IF i <= Len(first) THEN first[i] ELSE second[i - Len(first)]
    BY <1>1, <1>3, <1>5, ConcatProperties
  <2>3. QED
    BY <1>1, <1>3, <1>5, <2>2
<1>8. first \o second = text
  BY <1>6, <1>7, SeqEqual DEF Text
<1>9. QED
  BY <1>2, <1>3, <1>4, <1>5, <1>8 DEF Text

\* A reader of a text of which the first line was garbled comes to like tasks.
LEMMA GarbledIsReadAlike ==
    ASSUME NEW reader \in Readers, NEW text \in Text, HoldsWide(text), NEW known \in Known,
           Result(readingOn, reader, text) = Fresh(known)
    PROVE  /\ [text EXCEPT ![1] = Garbled(@)] \in Text
           /\ \E other \in Known :
                /\ Result(readingOn, reader, [text EXCEPT ![1] = Garbled(@)]) = Fresh(other)
                /\ Follows(other, [i \in DOMAIN known |-> known[i].done])
<1>1. /\ Len(text) \in Nat /\ Len(text) >= 1 /\ text[1] \in Symbols /\ "tasks" \in DOMAIN text[1]
      /\ \A i \in 1 .. Len(text) : text[i] \in Symbols
  <2>1. Len(text) # 0
    BY EmptySeq DEF HoldsWide, Text
  <2>2. QED
    BY <2>1, LenProperties DEF HoldsWide, Text
<1>2. PICK line \in Symbols, spoilt \in Symbols : line = text[1] /\ spoilt = Garbled(line) /\ Alike(spoilt, line)
  BY <1>1, GarbledIsAlike
<1>3. PICK first \in Text, second \in Text :
         /\ text = first \o second /\ Len(first) = 1 /\ first[1] = text[1]
         /\ Len(second) = Len(text) - 1 /\ \A i \in 1 .. Len(text) - 1 : second[i] = text[1 + i]
  <2>1. PICK n \in 0 .. Len(text) : n = 1
    BY <1>1
  <2>2. PICK first \in Text, second \in Text :
         /\ text = first \o second /\ Len(first) = n /\ (\A i \in 1 .. n : first[i] = text[i])
         /\ Len(second) = Len(text) - n /\ \A i \in 1 .. Len(text) - n : second[i] = text[n + i]
    BY TextInTwo
  <2>3. Len(first) = 1 /\ first[1] = text[1]
    BY <2>1, <2>2
  <2>4. Len(second) = Len(text) - 1 /\ \A i \in 1 .. Len(text) - 1 : second[i] = text[1 + i]
    BY <2>1, <2>2
  <2>5. QED
    BY <2>2, <2>3, <2>4
<1>o. \A symbol \in Symbols : <<symbol>> \in Text /\ Len(<<symbol>>) = 1 /\ <<symbol>>[1] = symbol
  <2>1. SUFFICES ASSUME NEW symbol \in Symbols
                 PROVE  <<symbol>> \in Text /\ Len(<<symbol>>) = 1 /\ <<symbol>>[1] = symbol
    OBVIOUS
  <2>2. <<symbol>> \in Seq(Symbols)
    OBVIOUS
  <2>3. Len(<<symbol>>) = 1 /\ <<symbol>>[1] = symbol
    OBVIOUS
  <2>4. QED
    BY <2>2, <2>3 DEF Text
<1>4. first = <<line>>
  <2>1. PICK head \in Text : head = <<line>> /\ Len(head) = 1 /\ head[1] = line
    BY <1>o
  <2>2. head = first
    BY <1>2, <1>3, <2>1, SeqEqual DEF Text
  <2>3. QED
    BY <2>1, <2>2
<1>5. PICK garbled : garbled = [text EXCEPT ![1] = Garbled(@)]
  OBVIOUS
<1>6. garbled \in Text /\ Len(garbled) = Len(text) /\ \A i \in 1 .. Len(text) : garbled[i] = IF i = 1 THEN spoilt ELSE text[i]
  BY <1>1, <1>2, <1>5 DEF Text
<1>7. garbled = <<spoilt>> \o second
  <2>1. PICK head \in Text : head = <<spoilt>> /\ Len(head) = 1 /\ head[1] = spoilt
    BY <1>o
  <2>3. head \o second \in Text /\ Len(head \o second) = Len(text)
    BY <1>1, <1>3, <2>1, ConcatProperties DEF Text
  <2>4. \A i \in 1 .. Len(text) : (head \o second)[i] = garbled[i]
    <3>1. SUFFICES ASSUME NEW i \in 1 .. Len(text) PROVE (head \o second)[i] = garbled[i]
      OBVIOUS
    <3>2. (head \o second)[i] = IF i <= Len(head) THEN head[i] ELSE second[i - Len(head)]
      BY <1>1, <1>3, <2>1, ConcatProperties DEF Text
    <3>3. QED
      BY <1>1, <1>3, <1>6, <2>1, <3>2
  <2>5. head \o second = garbled
    BY <1>6, <2>3, <2>4, SeqEqual DEF Text
  <2>6. QED
    BY <2>1, <2>5
<1>8. PICK op \in Operations(Readers, Symbols) : op = readingOn
  BY ReadingOnIsTyped
<1>9. PICK r \in Readers, s \in Readers : r = Read(reader, spoilt) /\ s = Read(reader, line)
  <2>1. op[<<reader, spoilt>>] = Read(reader, spoilt) /\ op[<<reader, line>>] = Read(reader, line)
    BY <1>8 DEF readingOn
  <2>2. QED
    BY <2>1 DEF Operations
<1>10. AlikeReaders(r, s)
  <2>1. AlikeReaders(reader, reader)
    BY DEF AlikeReaders, AlikeTexts, Follows, Alike
  <2>2. QED
    BY <1>2, <1>9, <2>1, ReadAlike
<1>11. /\ Result(op, reader, <<spoilt>>) = r /\ <<spoilt>> \in Text
       /\ Result(op, reader, <<line>>) = s /\ <<line>> \in Text
  <2>1. Result(op, reader, <<spoilt>>) = op[<<reader, spoilt>>] /\ Result(op, reader, <<line>>) = op[<<reader, line>>]
    BY ResultOfOne
  <2>2. op[<<reader, spoilt>>] = Read(reader, spoilt) /\ op[<<reader, line>>] = Read(reader, line)
    BY <1>8 DEF readingOn
  <2>3. QED
    BY <1>9, <2>1, <2>2 DEF Text
<1>12. Result(op, reader, garbled) = Result(op, r, second) /\ Result(op, reader, text) = Result(op, s, second)
  <2>1. PICK one \in Text, other \in Text : one = <<spoilt>> /\ other = <<line>>
    BY <1>11
  <2>2. Result(op, reader, one \o second) = Result(op, Result(op, reader, one), second)
    BY <1>8, ReadingGoesOn
  <2>3. Result(op, reader, other \o second) = Result(op, Result(op, reader, other), second)
    BY <1>8, ReadingGoesOn
  <2>4. garbled = one \o second /\ text = other \o second
    BY <1>3, <1>4, <1>7, <2>1
  <2>5. QED
    BY <1>11, <2>1, <2>2, <2>3, <2>4
<1>13. PICK u \in Readers, v \in Readers : u = Result(op, r, second) /\ v = Result(op, s, second)
  BY ResultIsTyped DEF Text
<1>14. AlikeReaders(u, v)
  BY <1>8, <1>10, <1>13, ResultsAreAlike
<1>15. v = Fresh(known)
  BY <1>8, <1>12, <1>13
<1>16. PICK other \in Known : other = u.told
  BY DEF Readers
<1>17. Follows(other, [i \in DOMAIN known |-> known[i].done])
  BY <1>14, <1>15, <1>16 DEF AlikeReaders, Fresh
<1>18. u.rest = <<>>
  <2>1. u.rest \in Text /\ Len(u.rest) = Len(<<>>)
    BY <1>14, <1>15 DEF AlikeReaders, AlikeTexts, Fresh, Readers
  <2>2. QED
    BY <2>1, EmptySeq DEF Text
<1>19. u = Fresh(other)
  BY <1>16, <1>18 DEF Readers, Fresh
<1>20. QED
  BY <1>5, <1>6, <1>8, <1>12, <1>13, <1>17, <1>19

\* split() and the parsing of what has ended: what the client then knows and keeps.
LEMMA SplitAndParse ==
    ASSUME NEW known \in Known, NEW text \in Text
    PROVE  Result(readingOn, Fresh(known), text) =
              [told |-> FoldLeft(Parsed, known, Split(text).events), rest |-> Split(text).rest]
<1>1. PICK cut \in Cuts : cut = Result(cutting, Unsplit, text)
  BY StartsAreTyped, CuttingIsTyped, ResultIsTyped DEF Text
<1>2. Split(text) = cut
  BY <1>1, StartsAreTyped, SplitIsResult DEF Split, Unsplit, Text
<1>3. PICK ended \in Seq(Text) : ended = cut.events
  BY DEF Cuts
<1>4. FoldLeft(Parsed, known, ended) = Result(parsing, known, ended)
  BY ParseIsResult
<1>5. QED
  BY <1>1, <1>2, <1>3, <1>4, SplitReads

\* The next symbols arrive, in whatever number, and perhaps some bytes of the next.
LEMMA ChunkArrivesKeeps ==
    ASSUME StreamInv, NEW w \in Watchers, NEW n \in 0 .. Len(wire[w]), NEW inside \in BOOLEAN,
           ChunkArrives(w, n, inside)
    PROVE  StreamInv'
<1>1. w \in open /\ WillKnow(w)
  BY DEF ChunkArrives, StreamInv
<1>2. PICK text \in Text, kept \in Text, known \in Known, there \in TaskData :
         text = wire[w] /\ kept = buffer[w] /\ known = told[w] /\ there = liveTasks
  BY DEF StreamInv, StreamTypes
<1>3. PICK first \in Text, second \in Text :
         first = SubSeq(text, 1, n) /\ second = SubSeq(text, n + 1, Len(text)) /\ text = first \o second
  BY <1>2, TextInTwo
<1>4. kept \o first \in Text
  BY ConcatProperties DEF Text
<1>5. PICK chunk \in Text : chunk = kept \o first
  BY <1>4
<1>6. PICK fresh \in Readers : fresh = Fresh(known)
  BY StartsAreTyped
<1>7. PICK after \in Readers : after = Result(readingOn, fresh, chunk)
  BY ReadingOnIsTyped, ResultIsTyped DEF Text
<1>8. after.told = FoldLeft(Parsed, known, Split(chunk).events) /\ after.rest = Split(chunk).rest
  <2>1. after = [told |-> FoldLeft(Parsed, known, Split(chunk).events), rest |-> Split(chunk).rest]
    BY <1>6, <1>7, SplitAndParse
  <2>2. QED
    BY <2>1
<1>9. Unended(after.rest)
  BY <1>6, <1>7, RestIsUnended
<1>10. PICK reader \in Readers : reader = [told |-> known, rest |-> kept]
  BY DEF Readers
<1>11. PICK will \in Known :
         Result(readingOn, reader, text) = Fresh(will) /\ Follows(will, there) /\ (w \in torn \/ Clean(will))
  BY <1>1, <1>2, <1>10 DEF WillKnow
<1>12. after = Result(readingOn, reader, first)
  BY <1>1, <1>2, <1>5, <1>6, <1>7, <1>10, BufferIsKept DEF WillKnow
<1>13. Result(readingOn, after, second) = Fresh(will)
  <2>1. Result(readingOn, reader, first \o second) = Result(readingOn, Result(readingOn, reader, first), second)
    BY ReadingGoesOn
  <2>2. QED
    BY <1>3, <1>11, <1>12, <2>1
<1>14. \E left \in Text, known2 \in Known :
         /\ wire' = [wire EXCEPT ![w] = left]
         /\ Result(readingOn, after, left) = Fresh(known2) /\ Follows(known2, there)
         /\ w \in torn' \/ Clean(known2)
         /\ torn \subseteq torn' /\ torn' \subseteq torn \cup {w}
  <2>1. CASE inside
    <3>1. PICK left : left = [second EXCEPT ![1] = Garbled(@)]
      OBVIOUS
    <3>2. HoldsWide(second) /\ wire' = [wire EXCEPT ![w] = left] /\ torn' = torn \cup {w}
      BY <1>2, <1>3, <2>1, <3>1 DEF ChunkArrives
    <3>3. PICK other \in Known :
            left \in Text /\ Result(readingOn, after, left) = Fresh(other)
            /\ Follows(other, [i \in DOMAIN will |-> will[i].done])
      BY <1>13, <3>1, <3>2, GarbledIsReadAlike
    <3>4. Follows(other, there)
      BY <1>11, <3>3 DEF Follows
    <3>5. QED
      BY <3>2, <3>3, <3>4
  <2>2. CASE ~inside
    <3>1. wire' = [wire EXCEPT ![w] = second] /\ torn' = torn
      BY <1>2, <1>3, <2>2 DEF ChunkArrives
    <3>2. QED
      BY <1>11, <1>13, <3>1
  <2>3. QED
    BY <2>1, <2>2
<1>15. PICK left \in Text, known2 \in Known :
         /\ wire' = [wire EXCEPT ![w] = left]
         /\ Result(readingOn, after, left) = Fresh(known2) /\ Follows(known2, there)
         /\ w \in torn' \/ Clean(known2)
         /\ torn \subseteq torn' /\ torn' \subseteq torn \cup {w}
  BY <1>14
<1>16. /\ told' = [told EXCEPT ![w] = after.told] /\ buffer' = [buffer EXCEPT ![w] = after.rest]
       /\ liveTasks' = liveTasks /\ clients' = clients /\ open' = open
  <2>1. told' = [told EXCEPT ![w] = FoldLeft(Parsed, known, Split(chunk).events)]
    BY <1>2, <1>3, <1>5 DEF ChunkArrives
  <2>2. buffer' = [buffer EXCEPT ![w] = Split(chunk).rest]
    BY <1>2, <1>3, <1>5 DEF ChunkArrives
  <2>3. liveTasks' = liveTasks /\ clients' = clients /\ open' = open
    BY DEF ChunkArrives
  <2>4. QED
    BY <1>8, <2>1, <2>2, <2>3
<1>17. after.told \in Known /\ after.rest \in Text /\ after = [told |-> after.told, rest |-> after.rest]
  BY DEF Readers
<1>18. StreamTypes'
  BY <1>15, <1>16, <1>17 DEF StreamInv, StreamTypes
<1>19. /\ wire'[w] = left /\ told'[w] = after.told /\ buffer'[w] = after.rest
       /\ \A c \in Watchers \ {w} : wire'[c] = wire[c] /\ buffer'[c] = buffer[c] /\ told'[c] = told[c]
  BY <1>15, <1>16 DEF StreamInv, StreamTypes
<1>20. WillKnow(w)'
  <2>1. Result(readingOn, [told |-> told'[w], rest |-> buffer'[w]], wire'[w]) = Fresh(known2)
    BY <1>15, <1>17, <1>19
  <2>2. Unended(buffer'[w]) /\ Follows(known2, liveTasks') /\ (w \in torn' \/ Clean(known2))
    BY <1>2, <1>9, <1>15, <1>16, <1>19
  <2>3. QED
    BY <2>1, <2>2 DEF WillKnow
<1>21. \A c \in open \ {w} : WillKnow(c)'
  <2>1. \A c \in open \ {w} : c \in torn' <=> c \in torn
    BY <1>15
  <2>2. QED
    BY <1>16, <1>19, <2>1 DEF StreamInv, StreamTypes, WillKnow
<1>22. QED
  BY <1>1, <1>16, <1>18, <1>19, <1>20, <1>21 DEF StreamInv, StreamTypes

\* The inductive invariant of the streams.
LEMMA StreamInvHolds == StreamSpec => []StreamInv
<1>1. StreamInit => StreamInv
  <2>1. SUFFICES ASSUME StreamInit PROVE StreamInv
    OBVIOUS
  <2>2. PICK none \in Text, nothing \in Known : none = <<>> /\ nothing = <<>>
    BY NothingKnown, EmptySeq DEF Text
  <2>3. liveTasks \in TaskData
    <3>1. liveTasks \in [SeedIds -> BOOLEAN]
      BY <2>1 DEF StreamInit
    <3>2. QED
      BY <3>1, EventStreamAssumption DEF TaskData
  <2>4. /\ wire = [c \in Watchers |-> none] /\ buffer = [c \in Watchers |-> none]
        /\ told = [c \in Watchers |-> nothing] /\ clients = {} /\ open = {}
    BY <2>1, <2>2 DEF StreamInit
  <2>5. QED
    BY <2>2, <2>3, <2>4 DEF StreamInv, StreamTypes
<1>2. StreamInv /\ [StreamNext]_streamVars => StreamInv'
  <2>1. SUFFICES ASSUME StreamInv, [StreamNext]_streamVars PROVE StreamInv'
    OBVIOUS
  <2>2. CASE UNCHANGED streamVars
    BY <2>1, <2>2 DEF streamVars, StreamInv, StreamTypes, WillKnow
  <2>3. ASSUME NEW c \in Watchers, OpenStream(c) PROVE StreamInv'
    BY <2>1, <2>3, OpenStreamKeeps
  <2>4. ASSUME NEW c \in Watchers, LeaveStream(c) \/ StreamCloses(c) PROVE StreamInv'
    BY <2>1, <2>4, LeavingKeeps
  <2>5. ASSUME NEW c \in Watchers, Heartbeat(c) PROVE StreamInv'
    BY <2>1, <2>5, HeartbeatKeeps
  <2>6. ASSUME NEW c \in Watchers, NEW n \in 0 .. Len(wire[c]), NEW inside \in BOOLEAN, ChunkArrives(c, n, inside)
        PROVE  StreamInv'
    BY <2>1, <2>6, ChunkArrivesKeeps
  <2>7. ASSUME NEW i \in LiveIds, NEW done \in BOOLEAN, PostLive(i) \/ PatchLive(i, done) \/ DeleteLive(i)
        PROVE  StreamInv'
    BY <2>1, <2>7, TaskChangesKeep
  <2>8. QED
    BY <2>1, <2>2, <2>3, <2>4, <2>5, <2>6, <2>7 DEF StreamNext
<1>3. QED
  BY <1>1, <1>2, PTL DEF StreamSpec

\* For any number of streams and tasks, whenever they are opened and left and
\* wherever the chunks end, also inside the character of several bytes that one
\* title has: what a client was told, with what is in its buffer and on the wire,
\* comes to the tasks that the server has, done or not; a title is garbled only if
\* it is that one and a chunk of this stream did end inside a character.
THEOREM StreamsAreFollowed == StreamSpec => []StreamsFollowStore
<1>1. StreamInv => StreamsFollowStore
  <2>1. SUFFICES ASSUME StreamInv, NEW c \in open
                 PROVE  LET cut == Split(buffer[c] \o wire[c])
                            known == FoldLeft(Parsed, told[c], cut.events)
                        IN  /\ cut.rest = <<>>
                            /\ DOMAIN known = DOMAIN liveTasks
                            /\ \A i \in DOMAIN known : known[i].done = liveTasks[i]
                            /\ \A i \in DOMAIN known : known[i].garbled => c \in torn /\ i = WideId
    BY DEF StreamsFollowStore
  <2>2. PICK text \in Text, kept \in Text, known \in Known : text = wire[c] /\ kept = buffer[c] /\ known = told[c]
    BY <2>1 DEF StreamInv, StreamTypes
  <2>3. PICK will \in Known :
          /\ Result(readingOn, [told |-> known, rest |-> kept], text) = Fresh(will)
          /\ Unended(kept) /\ Follows(will, liveTasks) /\ (c \in torn \/ Clean(will))
    BY <2>1, <2>2 DEF StreamInv, WillKnow
  <2>4. Result(readingOn, Fresh(known), kept \o text) = Fresh(will)
    BY <2>3, BufferIsKept
  <2>5. PICK all \in Text : all = kept \o text
    BY ConcatProperties DEF Text
  <2>6. [told |-> FoldLeft(Parsed, known, Split(all).events), rest |-> Split(all).rest] = Fresh(will)
    BY <2>4, <2>5, SplitAndParse
  <2>7. FoldLeft(Parsed, known, Split(all).events) = will /\ Split(all).rest = <<>>
    BY <2>6 DEF Fresh
  <2>8. DOMAIN will = DOMAIN liveTasks /\ \A i \in DOMAIN will : will[i].done = liveTasks[i]
    BY <2>3 DEF Follows
  <2>9. \A i \in DOMAIN will : will[i].garbled => c \in torn /\ i = WideId
    <3>1. \A i \in DOMAIN will : will[i].garbled => i = WideId
      BY KnownIsTyped
    <3>2. Clean(will) => \A i \in DOMAIN will : ~ will[i].garbled
      BY DEF Clean
    <3>3. QED
      BY <2>3, <3>1, <3>2
  <2>10. QED
    BY <2>2, <2>5, <2>7, <2>8, <2>9
<1>2. QED
  BY <1>1, StreamInvHolds, PTL
=============================================================================
