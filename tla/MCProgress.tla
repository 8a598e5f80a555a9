-------------------- MODULE MCProgress --------------------
(* What must eventually happen, instantiated for TLC: a vote settles, a     *)
(* round leaves its establish phase, a fetch ends, a wanted list reaches    *)
(* the ledger, a clean-up ends.                                             *)
EXTENDS DisputedTx, TLC

\* The component that moves in a behaviour; the others stay as they start.
VARIABLE scenario

\* the consensus engine (Consensus)
VARIABLES
    csPhase, csMode, csPrevLedgerID, csPreviousLedger, csCurrPeerPositions,
    csRecentPeerPositions, csDeadNodes, csAcquired, csRequested, csHaveResult,
    csTxns, csPosition, csDisputes, csCompares, csState, csRoundTime,
    csOpenTime, csHaveCloseTimeConsensus, csCloseTimeAvalancheState,
    csPeerUnchangedCounter, csEstablishCounter, csPrevProposers,
    csPrevRoundTime, csStack, csPlayback, csProposals, csDelivered, csRounds

\* the lists of remote sources (RemoteExclusionListFetcher)
VARIABLES
    feRunning, feStopping, feArmed, feFetching, feFetchResults, feLoop, fePc,
    feSnapshot, feInflight, feCachedLists, feCombined, feModified,
    feAccessible, feComplete, feLastAttempt

\* the validator's own list (ValidatorExclusionManager), the amendment on
VARIABLES
    veServed, veFlagged, veReachable, veFetched, vePendingChanges,
    veWait, veStarted, veHaveAccount, veEnabled, veStep, veVote, veListed,
    veLost

\* paged directories (Directory)
VARIABLES
    drPages, drHint, drIter, drBroken

OneLedger == [l \in {"l1"} |-> [resolution |-> 10, agree |-> TRUE, seq |-> 8]]

csVars == <<csPhase, csMode, csPrevLedgerID, csPreviousLedger,
           csCurrPeerPositions, csRecentPeerPositions, csDeadNodes,
           csAcquired, csRequested, csHaveResult, csTxns, csPosition,
           csDisputes, csCompares, csState, csRoundTime, csOpenTime,
           csHaveCloseTimeConsensus, csCloseTimeAvalancheState,
           csPeerUnchangedCounter, csEstablishCounter, csPrevProposers,
           csPrevRoundTime, csStack, csPlayback, csProposals, csDelivered,
           csRounds>>

Engine == INSTANCE Consensus WITH
    phase <- csPhase, mode <- csMode, prevLedgerID <- csPrevLedgerID,
    previousLedger <- csPreviousLedger,
    currPeerPositions <- csCurrPeerPositions,
    recentPeerPositions <- csRecentPeerPositions, deadNodes <- csDeadNodes,
    acquired <- csAcquired, requested <- csRequested,
    haveResult <- csHaveResult, txns <- csTxns, position <- csPosition,
    disputes <- csDisputes, compares <- csCompares, state <- csState,
    roundTime <- csRoundTime, openTime <- csOpenTime,
    haveCloseTimeConsensus <- csHaveCloseTimeConsensus,
    closeTimeAvalancheState <- csCloseTimeAvalancheState,
    peerUnchangedCounter <- csPeerUnchangedCounter,
    establishCounter <- csEstablishCounter, prevProposers <- csPrevProposers,
    prevRoundTime <- csPrevRoundTime, stack <- csStack,
    playback <- csPlayback, proposals <- csProposals,
    delivered <- csDelivered, rounds <- csRounds, Txs <- {"t1"},
    Ledgers <- {"l1"}, LedgerInfo <- OneLedger, CloseTimes <- {12, 18},
    Granularity <- 2, Freshness <- 4, ProposeInterval <- 20, RecentMax <- 1,
    MaxPeerSeq <- 0, MaxProposals <- 1, MaxOwnSeq <- 8, MaxRoundTime <- 10,
    MaxRounds <- 1, MaxNested <- 2, Peers <- {"p1"}, MinConsensusPct <- 67,
    CtConsensusPct <- 75, MinRounds <- 1, StalledRounds <- 1,
    MinConsensus <- 1, MaxConsensus <- 3, AbandonConsensus <- 4,
    AbandonFactor <- 2, MinConsensusTime <- 1, MinClose <- 1,
    IdleInterval <- 1

feVars == <<feRunning, feStopping, feArmed, feFetching, feFetchResults, feLoop,
           fePc, feSnapshot, feInflight, feCachedLists, feCombined,
           feModified, feAccessible, feComplete, feLastAttempt>>

Fetcher == INSTANCE RemoteExclusionListFetcher WITH
    running <- feRunning, stopping <- feStopping, armed <- feArmed,
    fetching <- feFetching, fetchResults <- feFetchResults, loop <- feLoop,
    pc <- fePc, snapshot <- feSnapshot, inflight <- feInflight,
    cachedLists <- feCachedLists, combined <- feCombined,
    modified <- feModified, accessible <- feAccessible,
    complete <- feComplete, lastAttempt <- feLastAttempt,
    Sources <- <<"s1", "s2">>, BadSources <- {}, SourceLists <- {{"a1"}},
    IO <- {"t1"}, Main <- "main", MaxRequests <- 2

BadUrl == INSTANCE RemoteExclusionListFetcher WITH
    running <- feRunning, stopping <- feStopping, armed <- feArmed,
    fetching <- feFetching, fetchResults <- feFetchResults, loop <- feLoop,
    pc <- fePc, snapshot <- feSnapshot, inflight <- feInflight,
    cachedLists <- feCachedLists, combined <- feCombined,
    modified <- feModified, accessible <- feAccessible,
    complete <- feComplete, lastAttempt <- feLastAttempt,
    Sources <- <<"s1", "s2">>, BadSources <- {"s1"}, SourceLists <- {{"a1"}},
    IO <- {"t1"}, Main <- "main", MaxRequests <- 2

veVars == <<veServed, veFlagged, veReachable, veFetched, vePendingChanges,
           veWait, veStarted, veHaveAccount, veEnabled, veStep, veVote,
           veListed, veLost>>

Publisher == INSTANCE ValidatorExclusionManager WITH
    served <- veServed, flagged <- veFlagged,
    reachable <- veReachable, fetched <- veFetched,
    pendingChanges <- vePendingChanges, wait <- veWait,
    started <- veStarted, haveAccount <- veHaveAccount,
    enabled <- veEnabled, step <- veStep, vote <- veVote, listed <- veListed,
    lost <- veLost, Excludable <- {"a1", "a2", "a3"},
    Configured <- {"a1", "a2"}, HasFetcher <- FALSE, RemoteSets <- {{}},
    Interval <- 2, ListLimit <- 3, MaxLost <- 0

drVars == <<drPages, drHint, drIter, drBroken>>

Pages == INSTANCE Directory WITH
    pages <- drPages, hint <- drHint, iter <- drIter, broken <- drBroken,
    Key <- 1 .. 4, MaxEntries <- 1, MaxPage <- 3, Kept <- {2},
    Limits <- {-1, 2}

mcVars == <<scenario, disputedTxVars, csVars, feVars, veVars, drVars>>

\* What the components other than the one of the scenario do.
Rest(c) ==
    /\ UNCHANGED scenario
    /\ c # "DisputedTx" => UNCHANGED disputedTxVars
    /\ c # "Consensus" => UNCHANGED csVars
    /\ c # "RemoteExclusionListFetcher" => UNCHANGED feVars
    /\ c # "ValidatorExclusionManager" => UNCHANGED veVars
    /\ c # "Directory" => UNCHANGED drVars

MCInit ==
    /\ scenario \in {"dispute", "establish", "fetch", "badUrl", "publish",
                      "directory"}
    /\ DisputedTxInit
    /\ scenario \notin {"dispute"} => dispute.ourVote
    /\ Engine!Init
    /\ IF scenario = "fetch" THEN Fetcher!FetcherInit ELSE BadUrl!FetcherInit
    /\ Publisher!PublisherInit
    /\ scenario \notin {"publish"} => veListed = {}
    /\ Pages!Init

MCNext ==
    \/ scenario = "dispute" /\ DisputedTxNext /\ Rest("DisputedTx")
    \/ scenario = "establish" /\ Engine!Next /\ Rest("Consensus")
    \/ scenario = "fetch" /\ Fetcher!FetcherNext /\ Rest("RemoteExclusionListFetcher")
    \/ scenario = "badUrl" /\ BadUrl!FetcherNext /\ Rest("RemoteExclusionListFetcher")
    \/ scenario = "publish" /\ Publisher!PublisherNext /\ Rest("ValidatorExclusionManager")
    \/ scenario = "directory" /\ Pages!Next /\ Rest("Directory")

MCSpec == MCInit /\ [][MCNext]_mcVars

Engaged == scenario = "establish" /\ Rest("Consensus")
Fetching == scenario \in {"fetch", "badUrl"} /\ Rest("RemoteExclusionListFetcher")
Publishing == scenario = "publish" /\ Rest("ValidatorExclusionManager")
Walking == scenario = "directory" /\ Rest("Directory")

\* The heartbeat timer keeps calling the engine and calls return; threads
\* run, and nothing is assumed of the network; the validator keeps validating
\* and votes are applied; a clean-up that was started goes on.
Fairness ==
    /\ WF_mcVars((Engine!Running \/ Engine!TimerEntry) /\ Engaged)
    /\ \A t \in {"t1", "main"} :
          /\ WF_mcVars(scenario = "fetch" /\ Fetcher!ThreadStep(t) /\ Fetching)
          /\ WF_mcVars(scenario = "badUrl" /\ BadUrl!ThreadStep(t) /\ Fetching)
    /\ WF_mcVars(Fetcher!Start /\ Fetching)
    /\ WF_mcVars(Publisher!Initialize /\ Publishing)
    /\ SF_mcVars(Publisher!GetExclusionChange /\ Publishing)
    /\ WF_mcVars(Publisher!CallSteps /\ Publishing)
    /\ WF_mcVars(Publisher!VoteApplied /\ Publishing)
    /\ WF_mcVars(((\E keepRoot \in BOOLEAN : Pages!CleanupStep(keepRoot)) \/ Pages!CleanupEnd) /\ Walking)

\* The amendment is on from the start, as on a network in service.
FairInit == MCInit /\ veEnabled = TRUE

FairSpec == FairInit /\ [][MCNext]_mcVars /\ Fairness

\* A directory is one ring of pages through its root, none but the root empty
\* and none lost; the page number given out at insertion leads to the key for
\* as long as the key is there; and a clean-up that deletes entries under its
\* own iterator, unless cut short by its limit, has met every entry.
DirectorySound ==
    /\ scenario = "directory" => Pages!RingIntact
    /\ scenario = "directory" => Pages!HintsLead
    /\ scenario = "directory" => Pages!CleanedUp

\* Every establish phase ends: with finitely many peer messages, the timer
\* alone brings the round to acceptance (or the engine leaves it for another
\* ledger).
EstablishEnds == Engine!EstablishEnds

\* A fetch whose requests are all answered, or fail, ends: fetching_ does not
\* stay set, which would silence every later timer and hang stop().
FetchEnds == Fetcher!FetchEnds

\* docs/Exclusions.md: "When the first ledger is validated, the manager
\* compares the configured list with the on-chain state", "Differences are
\* queued as pending changes", "Changes are applied gradually": the list in
\* the ledger becomes the wanted one and stays it.
ListedEventually == scenario = "publish" => Publisher!ListedEventually

\* The walk ends: the iterator does not go round among deleted entries.
CleanupEnds == Pages!CleanupEnds

============================================================
