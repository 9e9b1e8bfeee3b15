------------------------------- MODULE NewsHub -------------------------------
(***************************************************************************)
(* The news loop (newsHub of src/api/ws_news_hyper_proxy.go and            *)
(* news_snapshot_redis.go).  One loop fetches every source, on a ticker or *)
(* when a browser asks, merges what came into the snapshot it keeps in     *)
(* memory and lets a goroutine write the snapshot to Redis, from which the *)
(* next process starts.  An item is the number its source published it     *)
(* under, the time by which lists are sorted; a list, sorted and without   *)
(* duplicates as it always is, is a set of items.                          *)
(***************************************************************************)
EXTENDS Integers, FiniteSets

CONSTANTS Source,     \* the feeds (newsSources)
          Keep,       \* newsHistoryMaxPerSource
          Window,     \* items a feed shows at once
          MaxItem,    \* bound: items a source publishes
          MaxSet,     \* bound: writes to Redis on their way
          MaxCrash    \* bound: restarts

\* What the constants are to be.
ItemAssumption ==
  Keep \in Nat /\ Window \in Nat /\ MaxItem \in Nat /\ MaxCrash \in Nat

Item == 1..MaxItem
Snapshot == [Source -> SUBSET Item]
NoNews == [s \in Source |-> {}]

VARIABLES published,  \* external: items each source has published
          pc,         \* the loop: "load", "idle", "fetch", "merge"
          answered,   \* sources that have answered, or failed, in this round
          latest,     \* what they gave
          data,       \* newsSnapshotState.data
          kick,       \* kickC holds a request
          asked,      \* a browser has asked and no fetch has begun since
          redis,      \* the snapshot in Redis
          sets,       \* snapshots on their way to Redis
          seen,       \* every item this process has been given
          crashes     \* restarts so far

loopVars == <<pc, answered, latest, kick>>
vars == <<published, loopVars, data, asked, redis, sets, seen, crashes>>

Newest(list) == {i \in list : Cardinality({j \in list : j > i}) < Keep}

Shown(s) == {i \in Item : i <= published[s] /\ i > published[s] - Window}

-----------------------------------------------------------------------------

Publish(s) ==
  /\ published[s] < MaxItem
  /\ published' = [published EXCEPT ![s] = @ + 1]
  /\ UNCHANGED <<loopVars, data, asked, redis, sets, seen, crashes>>

\* preloadNewsSnapshotFromRedis, before the loop is started (and before there
\* are browsers to ask, so the later calls find the Once used up).
Preload ==
  /\ pc = "load" /\ pc' = "idle"
  /\ \E got \in {redis, NoNews} : data' = got /\ seen' = got
  /\ UNCHANGED <<published, answered, latest, kick, asked, redis, sets, crashes>>

\* A bug the runs must notice: a request is passed on only if the loop waits.
TriggerUnbuffered ==
  /\ pc # "load" /\ asked' = TRUE
  /\ kick' = (kick \/ pc = "idle")
  /\ UNCHANGED <<published, pc, answered, latest, data, redis, sets, seen, crashes>>

\* triggerRefresh: kickC has room for one; a second request is dropped.
TriggerRefresh ==
  /\ pc # "load" /\ asked' = TRUE
  /\ kick' = TRUE
  /\ UNCHANGED <<published, pc, answered, latest, data, redis, sets, seen, crashes>>

Begin ==
  /\ pc = "idle" /\ pc' = "fetch"
  /\ answered' = {} /\ latest' = NoNews /\ asked' = FALSE
  /\ UNCHANGED <<published, data, redis, sets, seen, crashes>>

\* run: the first fetch and the ticker's, or a request's.
TakeTick == Begin /\ UNCHANGED kick
TakeKick == Begin /\ kick /\ kick' = FALSE

\* fetchNewsSnapshot asks all sources at once and waits for the last.
FetchNewsFeed(s) ==
  /\ pc = "fetch" /\ s \notin answered
  /\ answered' = answered \cup {s}
  /\ \E list \in {Shown(s), {}} : latest' = [latest EXCEPT ![s] = list]
  /\ pc' = IF answered' = Source THEN "merge" ELSE "fetch"
  /\ UNCHANGED <<published, data, kick, asked, redis, sets, seen, crashes>>

\* A bug the runs must notice: only what the feeds show now is merged.
MergeOverwrites(existing, new) ==
  [s \in Source |-> IF new[s] = {} THEN existing[s] ELSE Newest(new[s])]

\* mergeNewsSnapshots, with normalizeNewsList: the failed sources keep theirs.
MergeNewsSnapshots(existing, new) ==
  [s \in Source |-> IF new[s] = {} THEN Newest(existing[s])
                    ELSE Newest(new[s] \cup existing[s])]

\* fetchAndBroadcast, once fetched: merge, store, persist.  Only the loop
\* stores, so what it has cloned is still there when it stores.
FetchAndBroadcast ==
  /\ pc = "merge" /\ pc' = "idle"
  /\ data' = MergeNewsSnapshots(data, latest)
  /\ seen' = [s \in Source |-> seen[s] \cup latest[s]]
  /\ sets' = sets \cup {data'} /\ Cardinality(sets') <= MaxSet
  /\ UNCHANGED <<published, answered, latest, kick, asked, redis, crashes>>

\* A goroutine's Set, or its failure.  Nothing orders two of them.
PersistNewsSnapshot ==
  /\ \E snap \in sets :
       /\ sets' = sets \ {snap}
       /\ redis' = snap \/ redis' = redis
  /\ UNCHANGED <<published, loopVars, data, asked, seen, crashes>>

Crash ==
  /\ pc # "load" /\ pc' = "load"
  /\ crashes < MaxCrash /\ crashes' = crashes + 1
  /\ data' = NoNews /\ seen' = NoNews /\ sets' = {}
  /\ kick' = FALSE /\ asked' = FALSE /\ answered' = {} /\ latest' = NoNews
  /\ UNCHANGED <<published, redis>>

-----------------------------------------------------------------------------

Init ==
  /\ published = [s \in Source |-> 0]
  /\ pc = "load" /\ answered = {} /\ latest = NoNews /\ kick = FALSE
  /\ data = NoNews /\ asked = FALSE /\ redis = NoNews /\ sets = {}
  /\ seen = NoNews /\ crashes = 0

Next ==
  \/ \E s \in Source : Publish(s) \/ FetchNewsFeed(s)
  \/ Preload \/ TriggerRefresh \/ TakeTick \/ TakeKick
  \/ FetchAndBroadcast \/ PersistNewsSnapshot \/ Crash

\* The loop goes on: a feed answers or times out (newsHTTPTimeout) and a
\* write ends.  The ticker is left out: a request is not to wait for it.
Fairness ==
  /\ \A s \in Source : WF_vars(FetchNewsFeed(s))
  /\ WF_vars(FetchAndBroadcast) /\ WF_vars(TakeKick) /\ WF_vars(PersistNewsSnapshot)

FairSpec == Init /\ [][Next]_vars /\ Fairness

-----------------------------------------------------------------------------
(* Properties.                                                             *)

\* The shape of the state.
TypeOK ==
  /\ published \in [Source -> 0..MaxItem]
  /\ pc \in {"load", "idle", "fetch", "merge"} /\ answered \subseteq Source
  /\ {latest, data, redis, seen} \cup sets \subseteq Snapshot
  /\ kick \in BOOLEAN /\ asked \in BOOLEAN /\ crashes \in 0..MaxCrash

\* The snapshot holds, of each source, the newest of all the items the process
\* has been given, through rounds in which the source fails or has moved on.
NewsKept == \A s \in Source : data[s] = Newest(seen[s])

\* A browser that asks for news has a fetch that begins after it asked, though
\* the loop may be in the middle of one.
RefreshAnswered == asked ~> ~asked
=============================================================================
