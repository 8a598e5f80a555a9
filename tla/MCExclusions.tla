-------------------- MODULE MCExclusions --------------------
(* Account exclusion, instantiated for TLC: the lists that sources and the  *)
(* configuration give a validator, the votes that carry changes into the    *)
(* ledger, and the caches that answer from the lists in it.                 *)
EXTENDS ExclusionManager, RemoteExclusionListFetcher, ExclusionPipeline,
        ValidatorVoteTracker, ValidatorExclusionManager, TLC

ThreadSymmetry == Permutations(IO)

\* The sources in their order, and the lists they serve.
MCSources == <<"s1", "s2">>
MCSourceLists == {{}, {"a1"}}

\* The component that moves in a behaviour; the others stay as they start.
VARIABLE scenario

\* The sets the publisher's sources can serve, against one configured account.
MCRemoteSets == {{}, {"a2"}, {"a1", "a3"}}

mcVars == <<scenario, emVars, pipelineVars, publisherVars, trackerVars, fetchVars>>

\* What the components other than the one of the scenario do.
Rest(c) ==
    /\ UNCHANGED scenario
    /\ c # "ExclusionManager" => UNCHANGED emVars
    /\ c # "ExclusionPipeline" => UNCHANGED pipelineVars
    /\ c # "ValidatorExclusionManager" => UNCHANGED publisherVars
    /\ c # "ValidatorVoteTracker" => UNCHANGED trackerVars
    /\ c # "RemoteExclusionListFetcher" => UNCHANGED fetchVars

Starting(S) ==
    /\ scenario \in S
    /\ Init
    /\ PipelineInit
    /\ PublisherInit
    /\ scenario \notin {"publisher"} => enabled /\ listed = {}
    /\ TrackerInit
    /\ FetcherInit

MCInit == Starting({"manager", "pipeline", "publisher", "tracker", "fetcher"})

MCNext ==
    \/ scenario = "manager" /\ Next /\ Rest("ExclusionManager")
    \/ scenario = "pipeline" /\ InStepNext /\ Rest("ExclusionPipeline")
    \/ scenario = "publisher" /\ PublisherNext /\ Rest("ValidatorExclusionManager")
    \/ scenario = "tracker" /\ TrackerNext /\ Rest("ValidatorVoteTracker")
    \/ scenario = "fetcher" /\ FetcherNext /\ Rest("RemoteExclusionListFetcher")

MCSpec == MCInit /\ [][MCNext]_mcVars

\* The fetcher alone.
FetcherOnlySpec ==
    Starting({"fetcher"}) /\ [][FetcherNext /\ Rest("RemoteExclusionListFetcher")]_mcVars

\* A fixed UNL: every validator is trusted, in every rebuild of the cache.
NextFixedUNL ==
    /\ \/ \E v \in Validators, s \in SUBSET Accounts : UpdateValidatorExclusions(v, s)
       \/ \E view \in Lists, on \in BOOLEAN : RebuildCache(view, on, Validators)
    /\ Rest("ExclusionManager")

FixedUNLSpec == Starting({"manager"}) /\ [][NextFixedUNL]_mcVars

\* Two nodes; a ledger one of them built may lose to the other's.
NextNetwork ==
    /\ InStepNext \/ \E n \in Nodes : Acquire(n)
    /\ Rest("ExclusionPipeline")

NetworkSpec == Starting({"network"}) /\ [][NextNetwork]_mcVars
============================================================
