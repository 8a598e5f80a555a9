------------------------ MODULE ExclusionVoteProofs -------------------------
(***************************************************************************)
(* Proofs about the way of an exclusion from a validator's wish to the     *)
(* nodes' caches, for every set of validators and accounts and all bounds: *)
(* a vote is put into at most one position for its ledger; a node that     *)
(* follows the ledger it builds has the cache of that ledger; and a change *)
(* a validator votes for is one its list still needs.                      *)
(***************************************************************************)
EXTENDS ExclusionPipeline, ValidatorVoteTracker, ValidatorExclusionManager,
        FiniteSetTheorems, TLAPS

-----------------------------------------------------------------------------
(* The votes: ValidatorVoteTracker. *)

\* A vote that was put into a position is one of its validator for a ledger
\* not newer than the last it validated, and it is either remembered as
\* processed or gone from the votes: cleanup() forgets both together, and a
\* validation that old is not recorded again.
TrackerInv ==
  /\ votesByLedger \in [Seqs -> SUBSET Validating]
  /\ processedValidators \in [Seqs -> SUBSET Validating]
  /\ lastSeq \in [Validating -> Nat]
  /\ lcl \in Seqs
  /\ injected \subseteq Seqs \X Validating
  /\ \A s \in Seqs : \A v \in votesByLedger[s] : s <= lastSeq[v]
  /\ \A s \in Seqs, v \in Validating : <<s, v>> \in injected =>
       s <= lastSeq[v] /\ (v \in votesByLedger[s] => v \in processedValidators[s])
  /\ ~again

\* Nothing is recorded at the start.
LEMMA InitTracker == TrackerInit => TrackerInv
<1>1. 1 \in Seqs
  BY TrackerAssumption DEF Seqs
<1> QED
  BY <1>1 DEF TrackerInit, TrackerInv

\* A new validation is for a newer ledger, so it brings no injected vote back.
LEMMA RecordTracker ==
  ASSUME TrackerInv, NEW v \in Validating, NEW s \in Seqs, RecordVote(v, s)
  PROVE  TrackerInv'
<1>1. /\ lastSeq' = [lastSeq EXCEPT ![v] = s] /\ s > lastSeq[v]
      /\ votesByLedger' = [votesByLedger EXCEPT ![s] = @ \union {v}]
      /\ UNCHANGED <<processedValidators, lcl, injected, again>>
  BY DEF RecordVote
<1>2. \A q \in Seqs : q \in Nat
  BY TrackerAssumption DEF Seqs
<1>3. lastSeq' \in [Validating -> Nat] /\ lastSeq[v] \in Nat
  BY <1>1, <1>2 DEF TrackerInv
<1>4. \A w \in Validating : lastSeq[w] <= lastSeq'[w]
  BY <1>1, <1>2 DEF TrackerInv
<1>5. /\ votesByLedger' \in [Seqs -> SUBSET Validating]
      /\ \A q \in Seqs : votesByLedger'[q] = IF q = s THEN votesByLedger[q] \union {v} ELSE votesByLedger[q]
  BY <1>1 DEF TrackerInv
<1>6. ASSUME NEW q \in Seqs, NEW w \in votesByLedger'[q] PROVE q <= lastSeq'[w]
  <2>1. w \in Validating
    BY <1>5, <1>6
  <2>2. CASE w = v /\ q = s
    BY <1>1, <1>2, <2>1, <2>2 DEF TrackerInv
  <2>3. CASE ~(w = v /\ q = s)
    <3>1. w \in votesByLedger[q]
      BY <1>5, <1>6, <2>3
    <3>2. q <= lastSeq[w] /\ lastSeq[w] \in Nat /\ lastSeq'[w] \in Nat
      BY <1>3, <2>1, <3>1 DEF TrackerInv
    <3> QED
      BY <1>2, <1>4, <2>1, <3>2
  <2> QED
    BY <2>2, <2>3
<1>7. ASSUME NEW q \in Seqs, NEW w \in Validating, <<q, w>> \in injected
      PROVE  q <= lastSeq'[w] /\ (w \in votesByLedger'[q] => w \in processedValidators[q])
  <2>1. q <= lastSeq[w] /\ (w \in votesByLedger[q] => w \in processedValidators[q])
    BY <1>7 DEF TrackerInv
  <2>2. lastSeq[w] \in Nat /\ lastSeq'[w] \in Nat /\ lastSeq[w] <= lastSeq'[w]
    BY <1>3, <1>4 DEF TrackerInv
  <2>3. q <= lastSeq'[w]
    BY <1>2, <2>1, <2>2
  <2>4. ~(w = v /\ q = s)
    BY <1>1, <1>2, <2>1, <2>2
  <2> QED
    BY <1>5, <2>1, <2>3, <2>4
<1> QED
  BY <1>1, <1>3, <1>5, <1>6, <1>7 DEF TrackerInv

\* What cleanup() keeps of a table is a part of it, and the same part of both.
LEMMA KeptParts ==
  ASSUME NEW f \in [Seqs -> SUBSET Validating], NEW g \in [Seqs -> SUBSET Validating], NEW c
  PROVE  /\ Kept(f, c) \in [Seqs -> SUBSET Validating]
         /\ \A s \in Seqs : Kept(f, c)[s] \subseteq f[s]
         /\ \A s \in Seqs : Kept(f, c)[s] = {} \/ Kept(g, c)[s] = g[s]
  BY DEF Kept

\* The votes put into a position are new ones, and are processed from then
\* on for as long as they are kept.
LEMMA VotingTracker ==
  ASSUME TrackerInv, DoVoting
  PROVE  TrackerInv'
<1> DEFINE new == NewVotes(lcl)
           txs == {<<lcl, v>> : v \in new}
           done == [processedValidators EXCEPT ![lcl] = @ \union new]
<1>1. CASE votesByLedger[lcl] = {}
  BY <1>1 DEF DoVoting, TrackerInv
<1>2. CASE votesByLedger[lcl] # {}
  <2>1. /\ injected' = injected \union txs
        /\ again' = (again \/ injected \intersect txs # {})
        /\ votesByLedger' = Kept(votesByLedger, lcl)
        /\ processedValidators' = Kept(done, lcl)
        /\ UNCHANGED <<lastSeq, lcl>>
    BY <1>2 DEF DoVoting
  <2>2. /\ lcl \in Seqs /\ new \subseteq Validating
        /\ \A v \in new : v \in votesByLedger[lcl] /\ v \notin processedValidators[lcl]
    BY DEF NewVotes, TrackerInv
  <2>3. /\ done \in [Seqs -> SUBSET Validating]
        /\ \A s \in Seqs : processedValidators[s] \subseteq done[s]
        /\ new \subseteq done[lcl]
    BY <2>2 DEF TrackerInv
  <2>4. injected \intersect txs = {}
    BY <2>2 DEF TrackerInv
  <2>5. injected' \subseteq Seqs \X Validating
    BY <2>1, <2>2 DEF TrackerInv
  <2> HIDE DEF done
  <2>6. /\ votesByLedger' \in [Seqs -> SUBSET Validating]
        /\ processedValidators' \in [Seqs -> SUBSET Validating]
        /\ \A s \in Seqs : votesByLedger'[s] \subseteq votesByLedger[s]
        /\ \A s \in Seqs : votesByLedger'[s] = {} \/ processedValidators'[s] = done[s]
    BY <2>1, <2>3, KeptParts DEF TrackerInv
  <2>7. ASSUME NEW s \in Seqs, NEW v \in votesByLedger'[s] PROVE s <= lastSeq'[v]
    BY <2>1, <2>6, <2>7 DEF TrackerInv
  <2>8. ASSUME NEW s \in Seqs, NEW v \in Validating, <<s, v>> \in injected'
        PROVE  s <= lastSeq'[v] /\ (v \in votesByLedger'[s] => v \in processedValidators'[s])
    <3>1. CASE <<s, v>> \in injected
      <4>1. s <= lastSeq[v] /\ (v \in votesByLedger[s] => v \in done[s])
        BY <2>3, <3>1 DEF TrackerInv
      <4> QED
        BY <2>1, <2>6, <4>1
    <3>2. CASE <<s, v>> \in txs
      <4>1. s = lcl /\ v \in new
        BY <3>2
      <4>2. s <= lastSeq[v] /\ v \in done[s]
        BY <2>2, <2>3, <4>1 DEF TrackerInv
      <4> QED
        BY <2>1, <2>6, <4>2
    <3> QED
      BY <2>1, <2>8, <3>1, <3>2
  <2>9. ~again'
    BY <2>1, <2>4, Zenon DEF TrackerInv
  <2> QED
    BY <2>1, <2>5, <2>6, <2>7, <2>8, <2>9 DEF TrackerInv
<1> QED
  BY <1>1, <1>2

\* Every step keeps it: the others do not touch what it speaks of, but for
\* the ledger a round starts on.
LEMMA NextTracker == TrackerInv /\ [TrackerNext]_trackerVars => TrackerInv'
<1> SUFFICES ASSUME TrackerInv, [TrackerNext]_trackerVars PROVE TrackerInv'
  OBVIOUS
<1>1. ASSUME NEW v \in Validating, NEW s \in Seqs, RecordVote(v, s) PROVE TrackerInv'
  BY <1>1, RecordTracker
<1>2. CASE DoVoting
  BY <1>2, VotingTracker
<1>3. CASE CloseWithoutVoting
  BY <1>3 DEF CloseWithoutVoting, TrackerInv
<1>4. ASSUME NEW s \in Seqs, StartRound(s) PROVE TrackerInv'
  BY <1>4 DEF StartRound, TrackerInv
<1>5. CASE UNCHANGED trackerVars
  BY <1>5 DEF trackerVars, TrackerInv
<1> QED
  BY <1>1, <1>2, <1>3, <1>4, <1>5 DEF TrackerNext

\* However often the node returns to a ledger and whatever cleanup() has
\* dropped by then, a validator's vote for it enters one position at most.
THEOREM VotesOnce == TrackerSpec => []VotedOncePerLedger
<1>1. TrackerInv => VotedOncePerLedger
  BY DEF TrackerInv, VotedOncePerLedger
<1> QED
  BY <1>1, InitTracker, NextTracker, PTL DEF TrackerSpec

-----------------------------------------------------------------------------
(* The caches beside the ledger: ExclusionPipeline. *)

Ledgers == [Voters -> SUBSET Senders]

\* A node whose cache is built has the lists of its last closed ledger in it;
\* one whose cache is not has built nothing since the last validated ledger,
\* and that is the ledger it rebuilds from, if it has begun to.
PipelineInv ==
  /\ unl = Voters /\ validated \in Ledgers
  /\ closed \in [Nodes -> Ledgers] /\ cache \in [Nodes -> Ledgers]
  /\ ready \in [Nodes -> BOOLEAN] /\ rebuilding \in [Nodes -> {NoLedger} \union {<<l>> : l \in Ledgers}]
  /\ \A n \in Nodes : ready[n] => cache[n] = closed[n] /\ rebuilding[n] = NoLedger
  /\ \A n \in Nodes : ~ready[n] => closed[n] = validated /\ rebuilding[n] \in {NoLedger, <<validated>>}

\* A list with a change applied is a list.
LEMMA WithChangeType ==
  ASSUME NEW list \in SUBSET Senders, NEW add, NEW a \in Senders
  PROVE  WithChange(list, add, a) \in SUBSET Senders
  BY DEF WithChange

\* Nothing is listed at the start, and nothing is built.
LEMMA InitPipeline == PipelineInit => PipelineInv
<1>1. EmptyLedger \in Ledgers
  BY DEF EmptyLedger, Ledgers
<1> QED
  BY <1>1 DEF PipelineInit, PipelineInv

\* A vote goes into the ledger that is built and into the cache alike.
LEMMA VotePipeline ==
  ASSUME PipelineInv, ~BuildsEarly, NEW n \in Nodes, NEW v \in Voters, NEW add \in BOOLEAN,
         NEW a \in Senders, ApplyValidatorVote(n, v, add, a)
  PROVE  PipelineInv'
<1> DEFINE list == WithChange(closed[n][v], add, a)
<1>1. /\ ready[n]
      /\ closed' = [closed EXCEPT ![n][v] = list]
      /\ cache' = [cache EXCEPT ![n][v] = list]
      /\ UNCHANGED <<unl, validated, ready, rebuilding>>
  BY DEF ApplyValidatorVote
<1>2. /\ closed \in [Nodes -> Ledgers] /\ cache \in [Nodes -> Ledgers]
      /\ cache[n] = closed[n]
  BY <1>1, Zenon DEF PipelineInv
<1>3. closed[n] \in [Voters -> SUBSET Senders]
  BY <1>2 DEF Ledgers
<1>4. list \in SUBSET Senders
  BY <1>3, WithChangeType
<1> HIDE DEF list
<1> DEFINE ledger == [closed[n] EXCEPT ![v] = list]
<1>5. ledger \in Ledgers
  BY <1>3, <1>4 DEF Ledgers
<1>6. closed' = [closed EXCEPT ![n] = ledger] /\ cache' = [cache EXCEPT ![n] = ledger]
  BY <1>1, <1>2
<1> HIDE DEF ledger
<1>7. /\ closed' \in [Nodes -> Ledgers] /\ cache' \in [Nodes -> Ledgers]
      /\ \A m \in Nodes : cache'[m] = IF m = n THEN ledger ELSE cache[m]
      /\ \A m \in Nodes : closed'[m] = IF m = n THEN ledger ELSE closed[m]
  BY <1>2, <1>5, <1>6
<1> QED
  BY <1>1, <1>7 DEF PipelineInv

\* Rebuilt from the last validated ledger, the cache is that of the ledger
\* the node closed last.
LEMMA RebuildPipeline ==
  ASSUME PipelineInv, NEW n \in Nodes, RebuildFromLedger(n)
  PROVE  PipelineInv'
<1>1. /\ rebuilding[n] # NoLedger
      /\ cache' = [cache EXCEPT ![n] = [v \in Voters |-> IF v \in unl THEN rebuilding[n][1][v] ELSE {}]]
      /\ ready' = [ready EXCEPT ![n] = TRUE]
      /\ rebuilding' = [rebuilding EXCEPT ![n] = NoLedger]
      /\ UNCHANGED <<unl, validated, closed>>
  BY DEF RebuildFromLedger
<1>2. unl = Voters /\ rebuilding[n][1] = validated /\ closed[n] = validated
  BY <1>1 DEF PipelineInv
<1>3. validated \in [Voters -> SUBSET Senders]
  BY DEF PipelineInv, Ledgers
<1>4. [v \in Voters |-> IF v \in unl THEN rebuilding[n][1][v] ELSE {}] = validated
  BY <1>2, <1>3
<1>5. cache' = [cache EXCEPT ![n] = validated]
  BY <1>1, <1>4, Zenon
<1>6. /\ cache' \in [Nodes -> Ledgers] /\ ready' \in [Nodes -> BOOLEAN]
      /\ rebuilding' \in [Nodes -> {NoLedger} \union {<<l>> : l \in Ledgers}]
      /\ cache'[n] = validated /\ ready'[n] = TRUE /\ rebuilding'[n] = NoLedger
      /\ \A m \in Nodes \ {n} : cache'[m] = cache[m] /\ ready'[m] = ready[m] /\ rebuilding'[m] = rebuilding[m]
  BY <1>1, <1>5 DEF PipelineInv
<1>7. \A m \in Nodes : ready'[m] => cache'[m] = closed'[m] /\ rebuilding'[m] = NoLedger
  BY <1>1, <1>2, <1>6, Zenon DEF PipelineInv
<1>8. \A m \in Nodes : ~ready'[m] => closed'[m] = validated' /\ rebuilding'[m] \in {NoLedger, <<validated'>>}
  BY <1>1, <1>6, Zenon DEF PipelineInv
<1> QED
  BY <1>1, <1>6, <1>7, <1>8, Zenon DEF PipelineInv

\* With one node, every step keeps it.
LEMMA NextPipeline ==
  ASSUME NEW one, Nodes = {one}, ~BuildsEarly, PipelineInv, [InStepNext]_pipelineVars
  PROVE  PipelineInv'
<1>1. ASSUME NEW n \in Nodes, NEW v \in Voters, NEW add \in BOOLEAN, NEW a \in Senders,
             ApplyValidatorVote(n, v, add, a)
      PROVE  PipelineInv'
  BY <1>1, VotePipeline
<1>2. ASSUME NEW n \in Nodes, Validate(n) PROVE PipelineInv'
  <2>1. /\ validated # closed[n] /\ validated' = closed[n]
        /\ UNCHANGED <<unl, closed, cache, ready, rebuilding>>
    BY <1>2 DEF Validate
  <2>2. ready[n] /\ \A m \in Nodes : m = n
    BY <2>1 DEF PipelineInv
  <2>3. validated' \in Ledgers
    BY <2>1 DEF PipelineInv
  <2> QED
    BY <2>1, <2>2, <2>3 DEF PipelineInv
<1>3. ASSUME NEW n \in Nodes, SetValidLedger(n) PROVE PipelineInv'
  BY <1>3 DEF SetValidLedger, PipelineInv
<1>4. ASSUME NEW n \in Nodes, RebuildFromLedger(n) PROVE PipelineInv'
  BY <1>4, RebuildPipeline
<1>5. ASSUME NEW n \in Nodes, Restart(n) PROVE PipelineInv'
  <2>1. EmptyLedger \in Ledgers
    BY DEF EmptyLedger, Ledgers
  <2> QED
    BY <1>5, <2>1 DEF Restart, PipelineInv
<1>6. CASE UNCHANGED pipelineVars
  BY <1>6 DEF pipelineVars, PipelineInv
<1> QED
  BY <1>1, <1>2, <1>3, <1>4, <1>5, <1>6 DEF InStepNext

\* With every ledger the node builds validated, its cache holds the lists of
\* its last closed ledger, across restarts and rebuilds: for any validators,
\* accounts and limit of the lists.
THEOREM CacheInStep ==
  ASSUME NEW one, Nodes = {one}, ~BuildsEarly
  PROVE  InStepSpec => []CacheFollowsLedger
<1>1. PipelineInv /\ [InStepNext]_pipelineVars => PipelineInv'
  BY NextPipeline
<1>2. PipelineInv => CacheFollowsLedger
  BY DEF PipelineInv, CacheFollowsLedger
<1> QED
  BY <1>1, <1>2, InitPipeline, PTL DEF InStepSpec

-----------------------------------------------------------------------------
(* What leaves with a validation: ValidatorExclusionManager. *)

\* A queued change is one the fetched lists still ask for.
Wanted(c) == c.add <=> c.account \in Target

\* The queue is not older than the flag: unless the flag is up, each change
\* in it is still wanted.
PublisherInv ==
  /\ PublisherTypeOK
  /\ served \subseteq Excludable /\ flagged \in BOOLEAN
  /\ flagged \/ \A i \in DOMAIN pendingChanges : Wanted(pendingChanges[i])

\* A set of accounts put in some order is a sequence of its elements.
LEMMA OrdersAreSeqs ==
  ASSUME NEW S \in SUBSET Excludable, NEW f \in Orders(S)
  PROVE  f \in Seq(S)
<1>1. Cardinality(S) \in Nat
  BY PublisherAssumption, FS_Subset, FS_CardinalityType
<1>2. f \in [1 .. Cardinality(S) -> S]
  BY DEF Orders
<1> QED
  BY <1>1, <1>2

\* One kind of change for each of a sequence of accounts.
LEMMA ChangesType ==
  ASSUME NEW S, NEW s \in Seq(S), NEW b, NEW T, \A x \in S : [add |-> b, account |-> x] \in T
  PROVE  Changes(b, s) \in Seq(T)
<1>1. Len(s) \in Nat /\ DOMAIN s = 1 .. Len(s) /\ \A i \in 1 .. Len(s) : s[i] \in S
  OBVIOUS
<1>2. Changes(b, s) \in [1 .. Len(s) -> T]
  BY <1>1 DEF Changes
<1> QED
  BY <1>1, <1>2

\* The queue between two lists holds additions of what is wanted and not
\* listed, and removals of what is listed and not wanted.
LEMMA QueueWanted ==
  ASSUME NEW wanted \in SUBSET Excludable, NEW current \in SUBSET Excludable,
         NEW q \in Queues(wanted, current)
  PROVE  /\ q \in Seq(Change)
         /\ \A i \in DOMAIN q : q[i].add <=> q[i].account \in wanted
<1>1. PICK order \in Orders(wanted \ current) \X Orders(current \ wanted) :
        q = Changes(TRUE, order[1]) \o Changes(FALSE, order[2])
  BY Zenon DEF Queues
<1> DEFINE in == Changes(TRUE, order[1])
           out == Changes(FALSE, order[2])
           Asked == {c \in Change : c.add <=> c.account \in wanted}
<1>2. order[1] \in Seq(wanted \ current) /\ order[2] \in Seq(current \ wanted)
  BY OrdersAreSeqs
<1>3. in \in Seq(Asked)
  <2>1. \A x \in wanted \ current : [add |-> TRUE, account |-> x] \in Asked
    BY DEF Change
  <2> QED
    BY <1>2, <2>1, ChangesType, Zenon
<1>4. out \in Seq(Asked)
  <2>1. \A x \in current \ wanted : [add |-> FALSE, account |-> x] \in Asked
    BY DEF Change
  <2> QED
    BY <1>2, <2>1, ChangesType
<1>5. q = in \o out
  BY <1>1
<1> HIDE DEF in, out, Asked
<1>6. q \in Seq(Asked)
  BY <1>3, <1>4, <1>5
<1>7. \A i \in DOMAIN q : q[i] \in Asked
  BY <1>6
<1> QED
  BY <1>6, <1>7 DEF Asked

\* What is wanted are accounts that can be listed.
LEMMA TargetType ==
  ASSUME served \subseteq Excludable
  PROVE  Target \in SUBSET Excludable
  BY PublisherAssumption DEF Target

\* A queue rebuilt from the lists of now is wanted now.
LEMMA RebuiltQueue ==
  ASSUME served \subseteq Excludable, NEW current \in SUBSET Excludable,
         NEW q \in Queues(Target, current)
  PROVE  q \in Seq(Change) /\ \A i \in DOMAIN q : Wanted(q[i])
<1>1. Target \in SUBSET Excludable
  BY TargetType
<1> QED
  BY <1>1, QueueWanted, Zenon DEF Wanted

\* At the start the queue is empty.
LEMMA InitPublisher == PublisherInit => PublisherInv
<1> SUFFICES ASSUME PublisherInit PROVE PublisherInv
  OBVIOUS
<1>1. pendingChanges = <<>> /\ vote = NoVote /\ wait = 0 /\ listed \subseteq Excludable
  BY DEF PublisherInit
<1>2. served = {} /\ flagged = FALSE
  BY DEF PublisherInit, SourceInit
<1>3. pendingChanges \in Seq(Change) /\ DOMAIN pendingChanges = {}
  BY <1>1
<1>4. wait \in 0 .. Interval
  BY <1>1, PublisherAssumption
<1> QED
  BY <1>1, <1>2, <1>3, <1>4, Zenon DEF PublisherInv, PublisherTypeOK

\* A change that leaves is the front of a queue that is not older than the
\* flag.
LEMMA PopPublisher ==
  ASSUME PublisherInv, Pop
  PROVE  /\ PublisherInv'
         /\ vote' # vote /\ vote' # NoVote => flagged \/ Wanted(vote'[1])
<1>0. /\ pendingChanges \in Seq(Change) /\ vote \in {NoVote} \union {<<c>> : c \in Change}
      /\ wait \in 0 .. Interval
  BY DEF PublisherInv, PublisherTypeOK
<1>1. UNCHANGED <<listed, served, flagged>>
  BY DEF Pop, srcVars
<1>2. Target' = Target
  BY <1>1 DEF Target
<1>3. CASE wait = 0 /\ pendingChanges # <<>>
  <2>1. vote' = <<Head(pendingChanges)>> /\ pendingChanges' = Tail(pendingChanges) /\ wait' = Interval - 1
    BY <1>3 DEF Pop
  <2>2. Head(pendingChanges) \in Change /\ Tail(pendingChanges) \in Seq(Change)
    BY <1>0, <1>3
  <2>3. /\ 1 \in DOMAIN pendingChanges /\ Head(pendingChanges) = pendingChanges[1]
        /\ \A i \in DOMAIN Tail(pendingChanges) :
             i + 1 \in DOMAIN pendingChanges /\ Tail(pendingChanges)[i] = pendingChanges[i + 1]
    BY <1>0, <1>3
  <2>4. wait' \in 0 .. Interval
    BY <2>1, PublisherAssumption
  <2>5. vote'[1] = pendingChanges[1]
    BY <2>1, <2>3
  <2>6. flagged \/ Wanted(pendingChanges[1])
    BY <2>3 DEF PublisherInv
  <2>7. flagged' \/ \A i \in DOMAIN pendingChanges' : Wanted(pendingChanges[i])'
    BY <1>1, <1>2, <2>1, <2>3 DEF PublisherInv, Wanted
  <2>8. PublisherTypeOK'
    BY <1>1, <2>1, <2>2, <2>4 DEF PublisherTypeOK, PublisherInv
  <2> QED
    BY <1>1, <2>5, <2>6, <2>7, <2>8 DEF PublisherInv
<1>4. CASE ~(wait = 0 /\ pendingChanges # <<>>)
  <2>1. wait' = OneLedgerOn /\ UNCHANGED <<vote, pendingChanges>>
    BY <1>4 DEF Pop
  <2>2. wait' \in 0 .. Interval
    BY <1>0, <2>1, PublisherAssumption DEF OneLedgerOn
  <2> QED
    BY <1>1, <1>2, <2>1, <2>2 DEF PublisherInv, PublisherTypeOK, Wanted
<1> QED
  BY <1>3, <1>4

\* A step that leaves the queue, the wanted lists and the flag alone.
LEMMA QuietPublisher ==
  ASSUME PublisherInv, PublisherTypeOK', UNCHANGED <<pendingChanges, served, flagged>>
  PROVE  PublisherInv'
  BY DEF PublisherInv, Wanted, Target

\* A step that rebuilds the queue from the lists of now, or empties it.
LEMMA FreshPublisher ==
  ASSUME PublisherInv, PublisherTypeOK', served' = served, flagged' \in BOOLEAN,
         \A i \in DOMAIN pendingChanges' : Wanted(pendingChanges'[i])
  PROVE  PublisherInv'
  BY DEF PublisherInv, Wanted, Target

\* A fetch that changes the wanted lists raises the flag.
LEMMA FetchPublisher ==
  ASSUME PublisherInv, FetchSucceeds
  PROVE  PublisherInv'
<1>1. PICK new \in RemoteSets : AllFetched(new)
  BY DEF FetchSucceeds
<1>2. served' = new /\ flagged' = (flagged \/ new # served)
  BY <1>1 DEF AllFetched
<1>3. served' \subseteq Excludable /\ flagged' \in BOOLEAN
  BY <1>2, PublisherAssumption DEF PublisherInv
<1>4. UNCHANGED <<pendingChanges, wait, vote, listed>>
  BY DEF FetchSucceeds, vemVars
<1>5. PublisherTypeOK'
  BY <1>4 DEF PublisherTypeOK, PublisherInv
<1>6. CASE flagged'
  BY <1>3, <1>5, <1>6 DEF PublisherInv
<1>7. CASE ~flagged'
  <2>1. served' = served /\ ~flagged
    BY <1>2, <1>7 DEF PublisherInv
  <2> QED
    BY <1>3, <1>4, <1>5, <2>1 DEF PublisherInv, Wanted, Target
<1> QED
  BY <1>6, <1>7

\* No step but Pop gives a validation a change.
OtherSteps ==
  \/ Initialize \/ GetExclusionChange \/ NoChangeYet \/ TakeModified \/ StillReady
  \/ UpdatePendingChanges \/ VoteApplied \/ LoseVote \/ EnableAmendment
  \/ FetchSucceeds \/ FetchFails

\* However fetches and calls interleave, the queue stays as current as the
\* flag says.
LEMMA OtherPublisher ==
  ASSUME PublisherInv, OtherSteps
  PROVE  PublisherInv' /\ (vote' = vote \/ vote' = NoVote)
<1> DEFINE Good == PublisherInv' /\ (vote' = vote \/ vote' = NoVote)
<1>0. /\ pendingChanges \in Seq(Change) /\ vote \in {NoVote} \union {<<c>> : c \in Change}
      /\ wait \in 0 .. Interval /\ listed \in SUBSET Excludable /\ served \subseteq Excludable
      /\ flagged \in BOOLEAN
  BY DEF PublisherInv, PublisherTypeOK
<1>e. <<>> \in Seq(Change) /\ DOMAIN <<>> = {}
  OBVIOUS
<1>w. OneLedgerOn \in 0 .. Interval
  BY <1>0, PublisherAssumption DEF OneLedgerOn
<1>1. CASE Initialize
  <2>1. UNCHANGED <<wait, vote, listed, served, flagged>>
    BY <1>1 DEF Initialize, srcVars
  <2>2. pendingChanges' \in Queues(Target, listed) \/ pendingChanges' = <<>>
    BY <1>1 DEF Initialize
  <2>3. pendingChanges' \in Seq(Change) /\ \A i \in DOMAIN pendingChanges' : Wanted(pendingChanges'[i])
    BY <1>0, <1>e, <2>2, RebuiltQueue
  <2>4. PublisherTypeOK'
    BY <1>0, <2>1, <2>3 DEF PublisherTypeOK
  <2>5. PublisherInv'
    BY <1>0, <2>1, <2>3, <2>4, FreshPublisher
  <2> QED
    BY <2>1, <2>5
<1>2. CASE GetExclusionChange \/ StillReady \/ EnableAmendment \/ FetchFails
  <2>1. UNCHANGED <<pendingChanges, wait, vote, listed, served, flagged>>
    BY <1>2 DEF GetExclusionChange, StillReady, EnableAmendment, FetchFails, vemVars, srcVars,
                SomeFailed, AllFailed
  <2>2. PublisherTypeOK'
    BY <1>0, <2>1 DEF PublisherTypeOK
  <2> QED
    BY <2>1, <2>2, QuietPublisher
<1>3. CASE NoChangeYet
  <2>1. wait' = OneLedgerOn /\ UNCHANGED <<pendingChanges, vote, listed, served, flagged>>
    BY <1>3 DEF NoChangeYet, srcVars
  <2>2. PublisherTypeOK'
    BY <1>0, <1>w, <2>1 DEF PublisherTypeOK
  <2> QED
    BY <2>1, <2>2, QuietPublisher
<1>4. CASE TakeModified
  <2>1. flagged' = FALSE /\ UNCHANGED <<served, wait, vote, listed>>
    BY <1>4 DEF TakeModified
  <2>2. CASE flagged
    <3>1. pendingChanges' = <<>>
      BY <1>4, <2>2 DEF TakeModified
    <3>2. PublisherTypeOK'
      BY <1>0, <1>e, <2>1, <3>1 DEF PublisherTypeOK
    <3> QED
      BY <1>e, <2>1, <3>1, <3>2, FreshPublisher, Zenon
  <2>3. CASE ~flagged
    <3>1. pendingChanges' = pendingChanges /\ flagged' = flagged
      BY <1>0, <1>4, <2>1, <2>3, Zenon DEF TakeModified
    <3>2. PublisherTypeOK'
      BY <1>0, <2>1, <3>1 DEF PublisherTypeOK
    <3> QED
      BY <2>1, <3>1, <3>2, QuietPublisher
  <2> QED
    BY <2>2, <2>3
<1>5. CASE UpdatePendingChanges
  <2>1. UNCHANGED <<wait, vote, listed, served, flagged>>
    BY <1>5 DEF UpdatePendingChanges, srcVars
  <2>2. PICK current \in SUBSET Excludable : pendingChanges' \in Queues(Target, current)
    BY <1>0, <1>5 DEF UpdatePendingChanges
  <2>3. pendingChanges' \in Seq(Change) /\ \A i \in DOMAIN pendingChanges' : Wanted(pendingChanges'[i])
    BY <1>0, <2>2, RebuiltQueue
  <2>4. PublisherTypeOK'
    BY <1>0, <2>1, <2>3 DEF PublisherTypeOK
  <2>5. PublisherInv'
    BY <1>0, <2>1, <2>3, <2>4, FreshPublisher
  <2> QED
    BY <2>1, <2>5
<1>6. CASE VoteApplied \/ LoseVote
  <2>1. vote # NoVote /\ vote' = NoVote /\ UNCHANGED <<pendingChanges, wait, served, flagged>>
    BY <1>6 DEF VoteApplied, LoseVote, srcVars
  <2>2. vote # NoVote => vote[1] \in Change
    BY <1>0
  <2>3. listed' = listed \/ listed' = ListAfter(listed, vote[1])
    BY <1>6 DEF VoteApplied, LoseVote
  <2>4. listed' \subseteq Excludable
    BY <1>0, <2>1, <2>2, <2>3 DEF ListAfter, Change
  <2>5. PublisherTypeOK'
    BY <1>0, <2>1, <2>4 DEF PublisherTypeOK
  <2> QED
    BY <2>1, <2>5, QuietPublisher
<1>7. CASE FetchSucceeds
  <2>1. vote' = vote
    BY <1>7 DEF FetchSucceeds, vemVars
  <2> QED
    BY <1>7, <2>1, FetchPublisher
<1> QED
  BY <1>1, <1>2, <1>3, <1>4, <1>5, <1>6, <1>7 DEF OtherSteps

\* The invariant is kept, and a change leaves only while it is wanted or the
\* flag is up.
LEMMA NextPublisher ==
  ASSUME PublisherInv, [PublisherNext]_publisherVars
  PROVE  /\ PublisherInv'
         /\ vote' # vote /\ vote' # NoVote => flagged \/ Wanted(vote'[1])
<1>1. CASE Pop
  BY <1>1, PopPublisher
<1>2. CASE OtherSteps
  BY <1>2, OtherPublisher
<1>3. CASE UNCHANGED publisherVars
  <2>1. UNCHANGED <<pendingChanges, wait, vote, listed, served, flagged>>
    BY <1>3 DEF publisherVars, vemVars, srcVars
  <2> QED
    BY <2>1 DEF PublisherInv, PublisherTypeOK, Wanted, Target
<1> QED
  BY <1>1, <1>2, <1>3 DEF PublisherNext, OtherSteps

\* For any lists, configured and fetched, any interval and any interleaving
\* of fetches with the calls of getExclusionChange: a change leaves with a
\* validation only if the lists still ask for it, or the flag is up and the
\* next call will rebuild the queue.
THEOREM OnlyCurrentChanges == PublisherSpec => ChangesAreCurrent
<1>1. PublisherInv /\ [PublisherNext]_publisherVars => PublisherInv'
  BY NextPublisher
<1>2. PublisherInv /\ [PublisherNext]_publisherVars =>
        [vote' # vote /\ vote' # NoVote =>
           flagged \/ (vote'[1].add <=> vote'[1].account \in Target)]_publisherVars
  BY NextPublisher DEF Wanted
<1> QED
  BY <1>1, <1>2, InitPublisher, PTL DEF PublisherSpec, ChangesAreCurrent
=============================================================================
