---------------------- MODULE RemoteExclusionListFetcher ----------------------
(***************************************************************************)
(* The fetcher of signed exclusion lists                                   *)
(* (src/xrpld/app/misc/RemoteExclusionListFetcher.{h,cpp}).                *)
(*                                                                         *)
(* The thread Main runs start() and stop(); the threads of IO run the      *)
(* timer's handler and the completion handlers of the requests.  Only the  *)
(* cached lists and their flags are protected by the mutex: fetchResults_  *)
(* is shared by the handlers without one, so a handler is several steps    *)
(* (store the result, check whether all are there, read them, update).     *)
(* A response is either an error of any kind (transport, HTTP status,      *)
(* parsing, signature) or a verified list.                                 *)
(***************************************************************************)
EXTENDS Naturals, Sequences, FiniteSets

CONSTANTS
  Sources,       \* VALIDATOR_EXCLUSIONS_SOURCES, in order
  BadSources,    \* the sources whose URL makeRequest refuses
  SourceLists,   \* the lists of accounts a source can serve
  IO,            \* the threads of the io_service
  Main,          \* the thread that starts and stops the fetcher
  MaxRequests    \* bound on the requests in flight to one source

Threads == IO \union {Main}
Idx == 1..Len(Sources)

Pending == [st |-> "pending", list |-> {}]
Failed == [st |-> "failed", list |-> {}]
Got(list) == [st |-> "ok", list |-> list]
NoResults == [i \in Idx |-> Pending]

VARIABLES
  running, stopping,   \* running_, stopping_
  armed,               \* the timer waits
  fetching,            \* fetching_
  fetchResults,        \* fetchResults_
  loop,                \* the thread in the loop of fetchAllLists, and its index
  pc,                  \* where each thread is
  snapshot,            \* newLists and the counts of each thread in onAllFetchesComplete
  inflight,            \* requests in flight, by source
  cachedLists,         \* cachedLists_: a list for every source, or for none
  combined, modified, accessible, complete,
  lastAttempt          \* history: how the last completed fetch went

fetchVars == <<running, stopping, armed, fetching, fetchResults, loop, pc,
               snapshot, inflight, cachedLists, combined, modified,
               accessible, complete, lastAttempt>>

NoLoop == [by |-> "none", next |-> 1]
InLoop(t) == loop.by = t
MutexFree == loop.by # Main        \* start() holds mutex_ while it fetches
Union(lists) == UNION {lists[i] : i \in DOMAIN lists}

FetcherInit ==
  /\ running = FALSE /\ stopping = FALSE /\ armed = FALSE /\ fetching = FALSE
  /\ fetchResults = NoResults
  /\ loop = NoLoop
  /\ pc = [t \in Threads |-> "idle"]
  /\ snapshot = [t \in Threads |-> NoResults]
  /\ inflight = [i \in Idx |-> 0]
  /\ cachedLists = <<>>
  /\ combined = {} /\ modified = FALSE /\ accessible = FALSE /\ complete = FALSE
  /\ lastAttempt = "none"

cacheVars == <<cachedLists, combined, modified, accessible, complete, lastAttempt>>

-----------------------------------------------------------------------------
(* fetchAllLists: returns at once when a fetch is under way. *)
FetchAllLists(t) ==
  IF fetching
  THEN pc' = [pc EXCEPT ![t] = "schedule"] /\ UNCHANGED <<fetching, fetchResults, loop>>
  ELSE /\ fetching' = TRUE
       /\ fetchResults' = NoResults
       /\ loop' = [by |-> t, next |-> 1]
       /\ pc' = [pc EXCEPT ![t] = "loop"]

\* start(), from the constructor of ValidatorExclusionManager.
Start ==
  /\ ~running /\ ~stopping /\ pc[Main] = "idle" /\ Sources # <<>>
  /\ running' = TRUE
  /\ FetchAllLists(Main)
  /\ UNCHANGED <<stopping, armed, snapshot, inflight, cacheVars>>

\* The timer's handler has found itself wanted.
TimerFires(t) ==
  /\ armed /\ pc[t] = "idle" /\ running /\ ~stopping
  /\ armed' = FALSE
  /\ pc' = [pc EXCEPT ![t] = "fetch"]
  /\ UNCHANGED <<running, stopping, fetching, fetchResults, loop, snapshot, inflight, cacheVars>>

TimerFetches(t) ==
  /\ pc[t] = "fetch"
  /\ FetchAllLists(t)
  /\ UNCHANGED <<running, stopping, armed, snapshot, inflight, cacheVars>>

\* fetchFromSource for the next source: makeRequest starts the request or
\* throws, in which case this thread checks for completion itself.
FetchFromSource(t) ==
  /\ pc[t] = "loop" /\ InLoop(t) /\ loop.next \in Idx
  /\ LET i == loop.next IN
     /\ loop' = [loop EXCEPT !.next = i + 1]
     /\ IF Sources[i] \in BadSources
        THEN /\ fetchResults' = [fetchResults EXCEPT ![i] = Failed]
             /\ pc' = [pc EXCEPT ![t] = "check"]
             /\ UNCHANGED inflight
        ELSE /\ inflight[i] < MaxRequests
             /\ inflight' = [inflight EXCEPT ![i] = @ + 1]
             /\ UNCHANGED <<fetchResults, pc>>
  /\ UNCHANGED <<running, stopping, armed, fetching, snapshot, cacheVars>>

LoopEnds(t) ==
  /\ pc[t] = "loop" /\ InLoop(t) /\ loop.next \notin Idx
  /\ loop' = NoLoop
  /\ pc' = [pc EXCEPT ![t] = "schedule"]
  /\ UNCHANGED <<running, stopping, armed, fetching, fetchResults, snapshot, inflight, cacheVars>>

\* scheduleNextFetch
ScheduleNextFetch(t) ==
  /\ pc[t] = "schedule"
  /\ pc' = [pc EXCEPT ![t] = "idle"]
  /\ armed' = (armed \/ (running /\ ~stopping))
  /\ UNCHANGED <<running, stopping, fetching, fetchResults, loop, snapshot, inflight, cacheVars>>

-----------------------------------------------------------------------------
(* A completion handler: onFetchComplete and onTextFetch store a result,    *)
(* checkAllFetchesComplete and onAllFetchesComplete act on all of them.     *)

Answer(t, i, result) ==
  /\ t \in IO /\ pc[t] = "idle" /\ inflight[i] > 0
  /\ inflight' = [inflight EXCEPT ![i] = @ - 1]
  /\ fetchResults' = [fetchResults EXCEPT ![i] = result]
  /\ pc' = [pc EXCEPT ![t] = "check"]
  /\ UNCHANGED <<running, stopping, armed, fetching, loop, snapshot, cacheVars>>

\* Where a thread goes after its share of a completion.
Resume(t) == IF InLoop(t) THEN "loop" ELSE "idle"

\* Mutant of CheckAllFetchesComplete: a source that failed is waited for.
CheckAllFetchesSucceeded(t) ==
  /\ pc[t] = "check"
  /\ pc' = [pc EXCEPT ![t] =
              IF \A i \in Idx : fetchResults[i].st = "ok" THEN "read" ELSE Resume(t)]
  /\ UNCHANGED <<running, stopping, armed, fetching, fetchResults, loop, snapshot, inflight, cacheVars>>

CheckAllFetchesComplete(t) ==
  /\ pc[t] = "check"
  /\ pc' = [pc EXCEPT ![t] =
              IF \A i \in Idx : fetchResults[i].st # "pending" THEN "read" ELSE Resume(t)]
  /\ UNCHANGED <<running, stopping, armed, fetching, fetchResults, loop, snapshot, inflight, cacheVars>>

ReadResults(t) ==
  /\ pc[t] = "read"
  /\ snapshot' = [snapshot EXCEPT ![t] = fetchResults]
  /\ pc' = [pc EXCEPT ![t] = "update"]
  /\ UNCHANGED <<running, stopping, armed, fetching, fetchResults, loop, inflight, cacheVars>>

Successes(results) == {i \in Idx : results[i].st = "ok"}

\* Mutant of UpdateCache: the lists that came in are taken even if some failed.
UpdateCachePartially(results) ==
  LET lists == [i \in Successes(results) |-> results[i].list]
  IN  /\ cachedLists' = lists
      /\ combined' = Union(lists)
      /\ modified' = (modified \/ Union(lists) # combined)
      /\ accessible' = (Successes(results) = Idx)
      /\ complete' = TRUE
      /\ lastAttempt' = IF Successes(results) = Idx THEN "ok" ELSE "failed"

\* Mutant of UpdateCache: the flag says whether this fetch changed the set.
UpdateCacheResetsFlag(results) ==
  LET lists == [i \in Idx |-> results[i].list]
      all == Successes(results) = Idx
  IN  /\ cachedLists' = IF all THEN lists ELSE cachedLists
      /\ combined' = IF all THEN Union(lists) ELSE combined
      /\ modified' = (all /\ Union(lists) # combined)
      /\ accessible' = all
      /\ complete' = TRUE
      /\ lastAttempt' = IF all THEN "ok" ELSE "failed"

\* The critical section of onAllFetchesComplete, with updateCombinedExclusions.
UpdateCache(results) ==
  /\ complete' = TRUE
  /\ lastAttempt' = IF Successes(results) = Idx THEN "ok" ELSE "failed"
  /\ \/ /\ Successes(results) = Idx
        /\ cachedLists' = [i \in Idx |-> results[i].list]
        /\ combined' = Union(cachedLists')
        /\ modified' = (modified \/ combined' # combined)
        /\ accessible' = TRUE
     \/ /\ Successes(results) # Idx /\ complete /\ Successes(results) # {}
        /\ accessible' = FALSE
        /\ UNCHANGED <<cachedLists, combined, modified>>
     \/ /\ Successes(results) # Idx /\ ~complete
        /\ cachedLists' = <<>> /\ combined' = {} /\ accessible' = FALSE
        /\ UNCHANGED modified
     \/ /\ Successes(results) = {} /\ complete
        /\ UNCHANGED <<cachedLists, combined, modified, accessible>>

\* The mutex is not recursive: in start(), a thread that completes the fetch
\* itself waits here for the mutex it holds.
OnAllFetchesComplete(t) ==
  /\ pc[t] = "update" /\ MutexFree
  /\ UpdateCache(snapshot[t])
  /\ fetching' = FALSE
  /\ snapshot' = [snapshot EXCEPT ![t] = NoResults]
  /\ pc' = [pc EXCEPT ![t] = Resume(t)]
  /\ UNCHANGED <<running, stopping, armed, fetchResults, loop, inflight>>

-----------------------------------------------------------------------------
\* stop(): the flags and the timer, then a wait for fetching_ to be false.
Stop ==
  /\ running /\ pc[Main] = "idle"
  /\ running' = FALSE /\ stopping' = TRUE /\ armed' = FALSE
  /\ pc' = [pc EXCEPT ![Main] = "stopping"]
  /\ UNCHANGED <<fetching, fetchResults, loop, snapshot, inflight, cacheVars>>

StopReturns ==
  /\ pc[Main] = "stopping" /\ ~fetching
  /\ pc' = [pc EXCEPT ![Main] = "stopped"]
  /\ UNCHANGED <<running, stopping, armed, fetching, fetchResults, loop, snapshot, inflight, cacheVars>>

\* hasBeenModified(true), by the client.
HasBeenModified ==
  /\ modified /\ MutexFree
  /\ modified' = FALSE
  /\ UNCHANGED <<running, stopping, armed, fetching, fetchResults, loop, pc,
                 snapshot, inflight, cachedLists, combined, accessible, complete, lastAttempt>>

ThreadStep(t) ==
  \/ TimerFetches(t)
  \/ FetchFromSource(t)
  \/ LoopEnds(t)
  \/ ScheduleNextFetch(t)
  \/ CheckAllFetchesComplete(t)
  \/ ReadResults(t)
  \/ OnAllFetchesComplete(t)

Answers(i) == \E t \in IO : Answer(t, i, Failed) \/ \E list \in SourceLists : Answer(t, i, Got(list))

FetcherNext ==
  \/ Start
  \/ \E t \in IO : TimerFires(t)
  \/ \E t \in Threads : ThreadStep(t)
  \/ \E i \in Idx : Answers(i)
  \/ Stop
  \/ StopReturns
  \/ HasBeenModified

FetcherSpec == FetcherInit /\ [][FetcherNext]_fetchVars

-----------------------------------------------------------------------------
(* Properties. *)

\* The combined set is the union of one list from every source, or nothing
\* was ever fetched: no interleaving of handlers lets the answers of a part
\* of the sources take effect (onAllFetchesComplete, "Only update if ALL
\* sources were successfully fetched").
NeverPartial ==
  /\ DOMAIN cachedLists \in {{}, Idx}
  /\ combined = Union(cachedLists)

\* The fetcher is an ExclusionSource: seen through the four values its
\* client reads, every step of every thread is one of the abstract steps.
Source == INSTANCE ExclusionSource WITH
  Excludable <- UNION SourceLists, served <- combined, flagged <- modified,
  reachable <- accessible, fetched <- complete

\* The fetcher, seen through the four values its users read, is the source
\* ExclusionSource describes: sets change whole, and a change is announced.
ImplementsSource == Source!SourceSpec

\* A fetch whose requests are all answered, or fail, ends: fetching_ does not
\* stay set, which would silence every later timer and hang stop(). The
\* fetcher sets no deadline of its own, so a request that is never answered
\* keeps its fetch open, though time and again a thread is free to handle it.
FetchEnds ==
  \/ fetching ~> ~fetching
  \/ <>[](\E i \in Idx : inflight[i] > 0) /\ []<>(\E t \in IO : pc[t] = "idle")

\* RemoteExclusionListFetcher.h on areAllSourcesAccessible: "true if all
\* sources were successfully fetched in the last attempt".
AccessibleMeansLastAttemptSucceeded == accessible => lastAttempt = "ok"
=============================================================================
