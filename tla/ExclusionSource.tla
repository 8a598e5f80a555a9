--------------------------- MODULE ExclusionSource ---------------------------
(***************************************************************************)
(* What the fetcher of remote exclusion lists promises its one client, the *)
(* ValidatorExclusionManager: a set of served accounts that is replaced    *)
(* as a whole, and only by a fetch in which every source answered, a flag  *)
(* that is raised whenever the set changes and lowered only by the client, *)
(* and the two answers the client asks for before it acts.                 *)
(***************************************************************************)
CONSTANT Excludable

VARIABLES
  served,        \* combinedExclusions_
  flagged,       \* hasModifications_
  reachable,     \* allSourcesAccessible_
  fetched        \* initialFetchComplete_

srcVars == <<served, flagged, reachable, fetched>>

SourceInit ==
  /\ served = {}
  /\ flagged = FALSE
  /\ reachable = FALSE
  /\ fetched = FALSE

\* Every source answered with a verified list; their union is new.
AllFetched(new) ==
  /\ served' = new
  /\ flagged' = (flagged \/ new # served)
  /\ reachable' = TRUE
  /\ fetched' = TRUE

\* Some source failed in a later fetch, or any source in the first one.
SomeFailed ==
  /\ reachable' = FALSE
  /\ fetched' = TRUE
  /\ UNCHANGED <<served, flagged>>

\* Every source failed in a later fetch: nothing is recorded.
AllFailed == fetched /\ UNCHANGED srcVars

\* hasBeenModified(true)
TakeFlag == flagged /\ flagged' = FALSE /\ UNCHANGED <<served, reachable, fetched>>

SourceNext ==
  \/ \E new \in SUBSET Excludable : AllFetched(new)
  \/ SomeFailed
  \/ AllFailed
  \/ TakeFlag

SourceSpec == SourceInit /\ [][SourceNext]_srcVars
=============================================================================
