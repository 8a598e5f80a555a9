----------------------------- MODULE Consensus ------------------------------
(***************************************************************************)
(* One node's consensus engine (Consensus.h): the open, establish and      *)
(* accepted phases of a round, driven by a timer, by peer proposals and by *)
(* transaction sets that arrive late, with the disputes between our        *)
(* position and our peers', and with the switch to another prior ledger.   *)
(*                                                                         *)
(* The engine runs under RCLConsensus::mutex_, so an external call runs to *)
(* its end before the next one starts.  Its calls nest (timerEntry ->      *)
(* checkLedger -> handleWrongLedger -> startRoundInternal ->               *)
(* playbackProposals, timerEntry -> ...), so a call is a sequence of steps *)
(* and `stack` holds what the running call still has to do; it is empty    *)
(* exactly when the mutex is free.                                         *)
(*                                                                         *)
(* A transaction set is a set of transactions and is its own ID.  What the *)
(* adaptor answers (the network's ledger, whether a ledger or a set is at  *)
(* hand, whether to pause, who has moved on) is chosen by \E.              *)
(***************************************************************************)
EXTENDS ConsensusRules

CONSTANTS
  Txs,               \* transactions
  Ledgers,           \* prior ledgers the network may prefer
  LedgerInfo,        \* their [resolution, agree, seq], read by startRoundInternal
  CloseTimes,        \* raw close times, in seconds; 0 stands for "no agreement"
  Granularity,       \* ledgerGRANULARITY: the time one timer tick stands for
  Freshness,         \* proposeFRESHNESS
  ProposeInterval,   \* proposeINTERVAL
  RecentMax,         \* capacity of a peer's recentPeerPositions_ (10)
  MaxPeerSeq,        \* bound: peers' proposeSeq before they bow out
  MaxProposals,      \* bound: proposals delivered in a behaviour
  MaxOwnSeq,         \* bound: our own proposeSeq
  MaxRoundTime,      \* bound: duration of an establish phase
  MaxRounds,         \* bound: calls of startRound
  MaxNested          \* bound: length of the stack at which the network's
                     \* ledger may still change during one call

TxSets == SUBSET Txs

\* seqLeave (uint32 max): larger than any other proposeSeq
SeqLeave == Larger(MaxPeerSeq, MaxOwnSeq) + 1

ASSUME ConsensusAssumption ==
  /\ IsFiniteSet(Txs)
  /\ LedgerInfo \in [Ledgers -> [resolution : {10, 20, 30, 60, 90, 120},
                                 agree : BOOLEAN, seq : Nat]]
  /\ CloseTimes \subseteq Nat \ {0}
  /\ Granularity \in Nat \ {0} /\ Freshness \in Nat /\ ProposeInterval \in Nat
  /\ RecentMax \in Nat \ {0} /\ MaxPeerSeq \in Nat /\ MaxProposals \in Nat
  /\ MaxOwnSeq \in Nat \ {0} /\ MaxRoundTime \in Nat /\ MaxRounds \in Nat
  /\ MaxNested \in Nat

VARIABLES
  phase,                  \* phase_
  mode,                   \* mode_
  prevLedgerID,           \* prevLedgerID_: the ledger the network builds on
  previousLedger,         \* previousLedger_: the ledger we hold and build on
  currPeerPositions,      \* currPeerPositions_, a function of the live peers
  recentPeerPositions,    \* recentPeerPositions_
  deadNodes,              \* deadNodes_: peers that bowed out
  acquired,               \* acquired_: transaction sets at hand
  requested,              \* sets asked for with acquireTxSet and not arrived
  haveResult,             \* result_.has_value()
  txns,                   \* result_->txns
  position,               \* result_->position
  disputes,               \* result_->disputes
  compares,               \* result_->compares
  state,                  \* result_->state
  roundTime,              \* clock_.now() - start of result_->roundTime
  openTime,               \* clock_.now() - start of openTime_, which only
                          \* phaseOpen reads: 0 when the ledger is closed
  haveCloseTimeConsensus, \* haveCloseTimeConsensus_
  closeTimeAvalancheState,\* closeTimeAvalancheState_
  peerUnchangedCounter,   \* peerUnchangedCounter_
  establishCounter,       \* establishCounter_
  prevProposers,          \* prevProposers_
  prevRoundTime,          \* prevRoundTime_
  stack,                  \* what the call holding the mutex still has to do
  playback,               \* proposals playbackProposals still has to replay
  proposals,              \* history: what we broadcast since we closed
  delivered,              \* number of peer proposals delivered so far
  rounds                  \* number of calls of startRound so far

ledgerVars == <<prevLedgerID, previousLedger>>
peerVars   == <<currPeerPositions, deadNodes, acquired, requested>>
disputeVars == <<disputes, compares, peerUnchangedCounter>>
stanceVars == <<haveResult, txns, position, state, proposals>>
closeTimeVars == <<haveCloseTimeConsensus, closeTimeAvalancheState>>
clockVars  == <<roundTime, openTime>>
prevVars   == <<prevProposers, prevRoundTime>>
inputVars  == <<recentPeerPositions, delivered, rounds>>
callVars   == <<stack, playback>>
vars == <<phase, mode, ledgerVars, peerVars, disputeVars, stanceVars,
          closeTimeVars, clockVars, prevVars, establishCounter, inputVars,
          callVars>>

-----------------------------------------------------------------------------
(* Partial functions and counters. *)

Nothing == [x \in {} |-> {}]
With(f, x, v) == [y \in DOMAIN f \cup {x} |-> IF y = x THEN v ELSE f[y]]
Without(f, S) == [y \in DOMAIN f \ S |-> f[y]]

\* peerUnchangedCounter_ and establishCounter_ are only compared with
\* StalledRounds and with EstablishMinimum and stop counting there.
EstablishMinimum == Cardinality(AvalancheStates) * MinRounds
Count(counter, cap) == Smaller(counter + 1, cap)

PeerPosition == [seq : 0..SeqLeave, set : TxSets, ct : CloseTimes \cup {0},
                 prev : Ledgers, age : 0..Freshness]

\* A proposal ages with the clock; beyond proposeFRESHNESS it is just stale.
Older(p) == [p EXCEPT !.age = Smaller(@ + Granularity, Freshness)]
IsStale(p) == p.age >= Freshness

NoPosition == [seq |-> 0, set |-> {}, ct |-> 0, age |-> 0]

Live == DOMAIN currPeerPositions

CloseResolution ==
  LET info == LedgerInfo[previousLedger]
  IN  NextTimeResolution(info.resolution, info.agree, info.seq + 1)

AsCloseTime(raw) == RoundCloseTime(raw, CloseResolution)

-----------------------------------------------------------------------------
(* Disputes.  A disputed transaction is created with the votes of all      *)
(* peers whose sets are at hand, and each peer's votes are then set by its *)
(* own positions.                                                          *)

SymDiff(s, t) == (s \ t) \cup (t \ s)

PeerVotes(curr, sets, t) ==
  [n \in Peers |-> IF n \in DOMAIN curr /\ curr[n].set \in sets
                   THEN AsVote(t \in curr[n].set) ELSE "none"]

\* createDisputes for every set of `others`, none of them compared before.
CreateDisputes(ds, others, ours, curr, sets) ==
  LET differences == UNION {SymDiff(ours, o) : o \in others}
  IN  [t \in DOMAIN ds \cup differences |->
         IF t \in DOMAIN ds THEN ds[t]
         ELSE NewDispute(t \in ours, PeerVotes(curr, sets, t))]

SetVotes(ds, nodes, other) ==
  [t \in DOMAIN ds |->
     [ds[t] EXCEPT !.votes = [n \in Peers |-> IF n \in nodes
                                              THEN AsVote(t \in other)
                                              ELSE @[n]]]]

UnVotes(ds, nodes) ==
  [t \in DOMAIN ds |->
     [ds[t] EXCEPT !.votes = [n \in Peers |-> IF n \in nodes THEN "none"
                                              ELSE @[n]]]]

\* Mutant of UpdateDisputes: the votes are recorded on the disputes that
\* exist, the set is not compared first.
UpdateDisputesNoCreate(ds, cmp, nodes, other, ours, curr, sets) ==
  IF nodes = {} THEN ds ELSE SetVotes(ds, nodes, other)

\* updateDisputes for every node of `nodes`, all of which hold `other`.
UpdateDisputes(ds, cmp, nodes, other, ours, curr, sets) ==
  IF nodes = {} THEN ds
  ELSE SetVotes(CreateDisputes(ds, {other} \ cmp, ours, curr, sets),
                nodes, other)

\* Some setVote returned true: a vote is new or changed.
VotesChanged(old, new) ==
  \E t \in DOMAIN new, n \in Peers :
    /\ new[t].votes[n] # "none"
    /\ t \in DOMAIN old => new[t].votes[n] # old[t].votes[n]

Holders(curr, set) == {n \in DOMAIN curr : curr[n].set = set}

-----------------------------------------------------------------------------
(* Peer proposals and transaction sets. *)

\* The part of gotTxSet that runs when `set` was not at hand: every peer that
\* holds it (in curr) has its votes set.
NewTxSet(set, curr) ==
  LET sets  == acquired \cup {set}
      nodes == Holders(curr, set)
      new   == UpdateDisputes(disputes, compares, nodes, set, txns, curr, sets)
  IN  /\ acquired' = sets
      /\ IF haveResult
         THEN /\ disputes' = new
              /\ compares' = compares \cup (IF nodes = {} THEN {} ELSE {set})
              /\ peerUnchangedCounter' =
                   IF VotesChanged(disputes, new) THEN 0
                   ELSE peerUnchangedCounter
         ELSE UNCHANGED disputeVars

\* updateDisputes(n, set) for a set at hand, after n took its position in curr.
KnownTxSet(n, set, curr) ==
  LET new == UpdateDisputes(disputes, compares, {n}, set, txns, curr, acquired)
  IN  IF haveResult
      THEN /\ disputes' = new
           /\ compares' = compares \cup {set}
           /\ peerUnchangedCounter' = IF VotesChanged(disputes, new) THEN 0
                                      ELSE peerUnchangedCounter
      ELSE UNCHANGED disputeVars

\* What peerProposalInternal ignores.
Ignored(n, p) ==
  \/ phase = "accepted"
  \/ p.prev # prevLedgerID
  \/ n \in deadNodes
  \/ n \in Live /\ p.seq <= currPeerPositions[n].seq

\* Mutant of PeerBowsOut: the votes of the peer that left stay.
PeerBowsOutKeepsVotes(n) ==
  /\ currPeerPositions' = Without(currPeerPositions, {n})
  /\ deadNodes' = deadNodes \cup {n}
  /\ UNCHANGED <<acquired, requested, disputeVars>>

PeerBowsOut(n) ==
  /\ disputes' = IF haveResult THEN UnVotes(disputes, {n}) ELSE disputes
  /\ currPeerPositions' = Without(currPeerPositions, {n})
  /\ deadNodes' = deadNodes \cup {n}
  /\ UNCHANGED <<acquired, requested, compares, peerUnchangedCounter>>

\* peerProposalInternal.  acquireTxSet returns the set at once or requests it.
PeerProposalInternal(n, p) ==
  \/ Ignored(n, p) /\ UNCHANGED <<peerVars, disputeVars>>
  \/ ~Ignored(n, p) /\ p.seq = SeqLeave /\ PeerBowsOut(n)
  \/ /\ ~Ignored(n, p) /\ p.seq # SeqLeave
     /\ LET curr == With(currPeerPositions, n, p)
        IN  /\ currPeerPositions' = curr
            /\ UNCHANGED deadNodes
            /\ \/ /\ p.set \in acquired
                  /\ KnownTxSet(n, p.set, curr)
                  /\ UNCHANGED <<acquired, requested>>
               \/ /\ p.set \notin acquired
                  /\ NewTxSet(p.set, curr)
                  /\ UNCHANGED requested
               \/ /\ p.set \notin acquired
                  /\ requested' = requested \cup {p.set}
                  /\ UNCHANGED <<acquired, disputeVars>>

\* A bounded deque: push_back, after pop_front when full.
Remember(q, p) == Append(IF Len(q) >= RecentMax THEN Tail(q) ELSE q, p)

\* peerProposal: a proposal arrives from the network.
PeerProposal(n, p) ==
  /\ stack = <<>>
  /\ delivered < MaxProposals
  /\ delivered' = delivered + 1
  /\ recentPeerPositions' = [recentPeerPositions EXCEPT ![n] = Remember(@, p)]
  /\ PeerProposalInternal(n, p)
  /\ UNCHANGED <<phase, mode, ledgerVars, stanceVars, closeTimeVars, clockVars,
                 prevVars, establishCounter, callVars, rounds>>

\* gotTxSet: a requested set arrives.
GotTxSet(set) ==
  /\ stack = <<>>
  /\ set \in requested
  /\ requested' = requested \ {set}
  /\ IF phase = "accepted" \/ set \in acquired
     THEN UNCHANGED <<acquired, disputeVars>>
     ELSE NewTxSet(set, currPeerPositions)
  /\ UNCHANGED <<phase, mode, ledgerVars, currPeerPositions, deadNodes,
                 stanceVars, closeTimeVars, clockVars, prevVars,
                 establishCounter, inputVars, callVars>>

-----------------------------------------------------------------------------
(* Starting a round, replaying proposals, and switching ledgers. *)

\* startRoundInternal up to playbackProposals; what follows it, and then the
\* caller's remaining work, is left on the stack.
StartRoundInternal(id, ledger, newMode, recent, rest) ==
  /\ phase' = "open"
  /\ mode' = newMode
  /\ prevLedgerID' = id /\ previousLedger' = ledger
  /\ haveResult' = FALSE
  /\ txns' = {} /\ position' = NoPosition /\ state' = "No"
  /\ disputes' = Nothing /\ compares' = {}
  /\ closeTimeAvalancheState' = "init"
  /\ haveCloseTimeConsensus' = FALSE
  /\ openTime' = 0 /\ roundTime' = 0
  /\ currPeerPositions' = Nothing
  /\ acquired' = {} /\ deadNodes' = {}
  /\ proposals' = <<>>
  /\ playback' = recent
  /\ stack' = <<"playback", "behind">> \o rest
  /\ UNCHANGED <<requested, peerUnchangedCounter, establishCounter, prevVars>>

\* startRound: called by NetworkOPs::beginConsensus once the last round's
\* ledger is accepted, with the ledger the network closed and the ledger at
\* hand, and with the validators that are no longer trusted.
StartRound(id, ledger, untrusted, proposing) ==
  /\ stack = <<>> /\ phase = "accepted"
  /\ rounds < MaxRounds
  /\ rounds' = rounds + 1
  /\ recentPeerPositions' =
       [n \in Peers |-> IF n \in untrusted THEN <<>> ELSE recentPeerPositions[n]]
  /\ LET startMode == IF proposing THEN "proposing" ELSE "observing"
     IN  \/ /\ id = ledger
            /\ StartRoundInternal(id, ledger, startMode, recentPeerPositions',
                                  <<>>)
         \/ /\ id # ledger     \* acquireLedger finds it
            /\ StartRoundInternal(id, id, startMode, recentPeerPositions', <<>>)
         \/ /\ id # ledger     \* acquireLedger does not
            /\ StartRoundInternal(id, ledger, "wrongLedger",
                                  recentPeerPositions', <<>>)
  /\ UNCHANGED delivered

\* The peer playbackProposals is in the middle of, or else any that is left.
NextReplayed ==
  LET left    == {n \in Peers : playback[n] # <<>>}
      started == {n \in left : playback[n] # recentPeerPositions[n]}
  IN  IF started = {} THEN left ELSE started

\* One iteration of playbackProposals.
Replay(n) ==
  /\ stack # <<>> /\ Head(stack) = "playback"
  /\ n \in NextReplayed
  /\ LET p == Head(playback[n])
     IN  IF p.prev = prevLedgerID THEN PeerProposalInternal(n, p)
         ELSE UNCHANGED <<peerVars, disputeVars>>
  /\ playback' = [playback EXCEPT ![n] = Tail(@)]
  /\ UNCHANGED <<phase, mode, ledgerVars, stanceVars, closeTimeVars, clockVars,
                 prevVars, establishCounter, inputVars, stack>>

ReplayDone ==
  /\ stack # <<>> /\ Head(stack) = "playback"
  /\ NextReplayed = {}
  /\ stack' = Tail(stack)
  /\ UNCHANGED <<phase, mode, ledgerVars, peerVars, disputeVars, stanceVars,
                 closeTimeVars, clockVars, prevVars, establishCounter,
                 inputVars, playback>>

\* The end of startRoundInternal: falling behind, it calls timerEntry.
MaybeBehind ==
  /\ stack # <<>> /\ Head(stack) = "behind"
  /\ stack' = (IF Cardinality(Live) > prevProposers \div 2
               THEN <<"ledger", "phase">> ELSE <<>>) \o Tail(stack)
  /\ UNCHANGED <<phase, mode, ledgerVars, peerVars, disputeVars, stanceVars,
                 closeTimeVars, clockVars, prevVars, establishCounter,
                 inputVars, playback>>

\* What propose() broadcasts of our position.
Sent(pos) == [seq |-> pos.seq, set |-> pos.set, ct |-> pos.ct]

\* leaveConsensus: bow out if we were proposing.
BowsOut(m, pos) == m = "proposing" /\ haveResult /\ pos.seq # SeqLeave
BowOut(pos) == [seq |-> SeqLeave, set |-> pos.set, ct |-> pos.ct, age |-> 0]

LeaveConsensus ==
  /\ mode' = IF mode = "proposing" THEN "observing" ELSE mode
  /\ IF BowsOut(mode, position)
     THEN /\ position' = BowOut(position)
          /\ proposals' = Append(proposals, Sent(position'))
     ELSE UNCHANGED <<position, proposals>>

\* handleWrongLedger up to playbackProposals.
HandleWrongLedger(net) ==
  /\ LeaveConsensus
  /\ prevLedgerID' = net
  /\ IF net # prevLedgerID
     THEN /\ disputes' = Nothing /\ compares' = {}
          /\ currPeerPositions' = Nothing /\ deadNodes' = {}
          /\ playback' = recentPeerPositions
          /\ stack' = <<"playback", "switch">> \o Tail(stack)
     ELSE /\ stack' = <<"switch">> \o Tail(stack)
          /\ UNCHANGED <<disputes, compares, currPeerPositions, deadNodes,
                         playback>>

\* checkLedger: net is what adaptor_.getPrevLedger answers.
CheckLedger(net) ==
  /\ stack # <<>> /\ Head(stack) = "ledger"
  /\ net # prevLedgerID => Len(stack) <= MaxNested
  /\ IF net # prevLedgerID \/ previousLedger # prevLedgerID
     THEN HandleWrongLedger(net)
     ELSE /\ stack' = Tail(stack)
          /\ UNCHANGED <<mode, position, proposals, prevLedgerID, disputes,
                         compares, currPeerPositions, deadNodes, playback>>
  /\ UNCHANGED <<phase, previousLedger, acquired, requested, haveResult, txns,
                 state, peerUnchangedCounter, closeTimeVars, clockVars,
                 prevVars, establishCounter, inputVars>>

\* The end of handleWrongLedger: nothing to switch.
KeepLedger ==
  /\ stack # <<>> /\ Head(stack) = "switch"
  /\ previousLedger = prevLedgerID
  /\ stack' = Tail(stack)
  /\ UNCHANGED <<phase, mode, ledgerVars, peerVars, disputeVars, stanceVars,
                 closeTimeVars, clockVars, prevVars, establishCounter,
                 inputVars, playback>>

\* The end of handleWrongLedger: acquireLedger finds the ledger.
SwitchLedger ==
  /\ stack # <<>> /\ Head(stack) = "switch"
  /\ previousLedger # prevLedgerID
  /\ StartRoundInternal(prevLedgerID, prevLedgerID, "switchedLedger",
                        recentPeerPositions, Tail(stack))
  /\ UNCHANGED inputVars

\* The end of handleWrongLedger: acquireLedger does not find the ledger.
StillWrongLedger ==
  /\ stack # <<>> /\ Head(stack) = "switch"
  /\ previousLedger # prevLedgerID
  /\ mode' = "wrongLedger"
  /\ stack' = Tail(stack)
  /\ UNCHANGED <<phase, ledgerVars, peerVars, disputeVars, stanceVars,
                 closeTimeVars, clockVars, prevVars, establishCounter,
                 inputVars, playback>>

-----------------------------------------------------------------------------
(* The timer and the phases. *)

\* timerEntry, called every ledgerGRANULARITY.
TimerEntry ==
  /\ stack = <<>> /\ phase # "accepted"
  /\ haveResult => roundTime < MaxRoundTime
  /\ roundTime' = IF haveResult THEN roundTime + Granularity ELSE 0
  /\ openTime' = IF haveResult THEN 0
                 ELSE Smaller(openTime + Granularity, MaxRoundTime)
  /\ position' = [position EXCEPT !.age =
                    IF haveResult THEN Smaller(@ + Granularity, ProposeInterval)
                    ELSE 0]
  /\ currPeerPositions' = [n \in Live |-> Older(currPeerPositions[n])]
  /\ recentPeerPositions' =
       [n \in Peers |-> [i \in DOMAIN recentPeerPositions[n] |->
                           Older(recentPeerPositions[n][i])]]
  /\ stack' = <<"ledger", "phase">>
  /\ UNCHANGED <<phase, mode, ledgerVars, deadNodes, acquired, requested,
                 disputeVars, haveResult, txns, state, proposals,
                 closeTimeVars, prevVars, establishCounter, delivered, rounds,
                 playback>>

\* closeLedger: onClose proposes the open ledger's transactions, at our time.
CloseLedger(set, ct) ==
  LET sets   == acquired \cup {set}
      others == {currPeerPositions[n].set : n \in Live} \cap sets
  IN  /\ phase' = "establish"
      /\ peerUnchangedCounter' = 0 /\ establishCounter' = 0
      /\ haveResult' = TRUE /\ txns' = set /\ state' = "No"
      /\ roundTime' = 0 /\ openTime' = 0
      /\ position' = [seq |-> 0, set |-> set, ct |-> ct, age |-> 0]
      /\ acquired' = sets
      /\ proposals' = IF mode = "proposing" THEN <<Sent(position')>> ELSE <<>>
      /\ disputes' = CreateDisputes(Nothing, others, set, currPeerPositions,
                                    sets)
      /\ compares' = others

\* The answers shouldCloseLedger can give, over the adaptor's open
\* transactions, validated proposers and close times.
CloseAnswers ==
  {ShouldCloseLedger(unexpected, anyTransactions, prevProposers,
                     Cardinality(Live), validated, prevRoundTime, since,
                     openTime, IdleInterval) :
     unexpected \in BOOLEAN, anyTransactions \in BOOLEAN,
     validated \in 0..Cardinality(Peers), since \in {0, IdleInterval}}

AtPhase(p) == stack # <<>> /\ Head(stack) = "phase" /\ phase = p

\* phaseOpen, when shouldCloseLedger says yes.
PhaseOpenCloses(set, ct) ==
  /\ AtPhase("open")
  /\ TRUE \in CloseAnswers
  /\ CloseLedger(set, ct)
  /\ stack' = Tail(stack)
  /\ UNCHANGED <<mode, ledgerVars, currPeerPositions, deadNodes, requested,
                 closeTimeVars, prevVars, inputVars, playback>>

\* phaseOpen, when shouldCloseLedger says no.
PhaseOpenWaits ==
  /\ AtPhase("open")
  /\ FALSE \in CloseAnswers
  /\ stack' = Tail(stack)
  /\ UNCHANGED <<phase, mode, ledgerVars, peerVars, disputeVars, stanceVars,
                 closeTimeVars, clockVars, prevVars, establishCounter,
                 inputVars, playback>>

-----------------------------------------------------------------------------
(* phaseEstablish: updateOurPositions, shouldPause and haveConsensus. *)

Proposing == mode = "proposing"

ConvergePercent ==
  (roundTime * 100) \div Larger(prevRoundTime, MinConsensusTime)

Yays(d) == Cardinality({n \in Peers : d.votes[n] = "yes"})
Nays(d) == Cardinality({n \in Peers : d.votes[n] = "no"})

\* Mutant of StalePeers: a position never goes stale.
StalePeersNever == {}

StalePeers == {n \in Live : IsStale(currPeerPositions[n])}
FreshPositions == Without(currPeerPositions, StalePeers)

\* The disputes after stale peers lost their votes and we revised ours.
RevisedDisputes ==
  LET ds == UnVotes(disputes, StalePeers)
  IN  [t \in DOMAIN ds |-> UpdatedVote(ds[t], Yays(ds[t]), Nays(ds[t]),
                                       ConvergePercent, Proposing)]

\* Our transactions, with those whose vote we changed put in or taken out;
\* `revised` is RevisedDisputes.
ChangedVotes(revised) ==
  {t \in DOMAIN disputes : revised[t].ourVote # disputes[t].ourVote}

RevisedTxns(revised) ==
  LET changed == ChangedVotes(revised)
  IN  {t \in txns \cup changed : t \in changed => revised[t].ourVote}

\* The participants in the vote on the close time, and closeTimeVotes; `fresh`
\* is FreshPositions.
Self == IF Proposing THEN 1 ELSE 0
Participants(fresh) == Cardinality(DOMAIN fresh) + Self

CloseTimeVotes(fresh, t) ==
  Cardinality({n \in DOMAIN fresh : AsCloseTime(fresh[n].ct) = t})
    + (IF AsCloseTime(position.ct) = t THEN Self ELSE 0)

VotedCloseTimes(fresh) ==
  {AsCloseTime(fresh[n].ct) : n \in DOMAIN fresh}
    \cup (IF Proposing THEN {AsCloseTime(position.ct)} ELSE {})

RevisedCloseTimeState ==
  IF DOMAIN FreshPositions = {} THEN closeTimeAvalancheState
  ELSE AvalancheAdvance(closeTimeAvalancheState, ConvergePercent, 0, 0)

\* The loop over closeTimeVotes (in order of time, raising threshVote) ends
\* with the latest of the times with the most votes, if they are enough.
Leading(fresh) ==
  {t \in VotedCloseTimes(fresh) :
     /\ CloseTimeVotes(fresh, t) >=
          ParticipantsNeeded(Participants(fresh),
                             CutoffPct[RevisedCloseTimeState])
     /\ \A u \in VotedCloseTimes(fresh) :
          \/ CloseTimeVotes(fresh, u) < CloseTimeVotes(fresh, t)
          \/ CloseTimeVotes(fresh, u) = CloseTimeVotes(fresh, t) /\ u <= t}

ConsensusCloseTime(fresh) ==
  IF DOMAIN fresh = {} THEN AsCloseTime(position.ct)
  ELSE IF Leading(fresh) = {} THEN 0
  ELSE CHOOSE t \in Leading(fresh) : TRUE

\* Mutant of CloseTimeAgreed: the vote threshold is taken for agreement.
CloseTimeAgreedOnLead(fresh) == DOMAIN fresh = {} \/ Leading(fresh) # {}

CloseTimeAgreed(fresh) ==
  \/ DOMAIN fresh = {}
  \/ \E t \in Leading(fresh) :
       CloseTimeVotes(fresh, t) >=
         ParticipantsNeeded(Participants(fresh), CtConsensusPct)

\* ourNewSet is seated.
PositionChanges(revised, ct) ==
  \/ ChangedVotes(revised) # {}
  \/ ct # AsCloseTime(position.ct)
  \/ position.age >= ProposeInterval

\* changePosition
ChangedPosition(set, ct) ==
  [seq |-> IF position.seq = SeqLeave THEN SeqLeave ELSE position.seq + 1,
   set |-> set, ct |-> ct, age |-> 0]

\* Mutant of Proposed: a new position on the same set is not announced.
ProposedOnNewSet(pos) ==
  IF pos.seq # SeqLeave /\ Proposing /\ pos.set # position.set
  THEN Append(proposals, Sent(pos)) ELSE proposals

\* propose(), if we still take part in this round.
Proposed(pos) ==
  IF pos.seq # SeqLeave /\ Proposing THEN Append(proposals, Sent(pos))
  ELSE proposals

\* updateOurPositions: ct is the close time it settles on, unchanged the value
\* of peerUnchangedCounter_ at the call.  PhaseEstablish sets our position.
UpdateOurPositions(fresh, revised, ct, unchanged) ==
  LET changes == PositionChanges(revised, ct)
      set     == RevisedTxns(revised)
      sets    == IF changes THEN acquired \cup {set} ELSE acquired
      nodes   == IF sets = acquired THEN {} ELSE Holders(fresh, set)
      new     == UpdateDisputes(revised, compares, nodes, set, set, fresh, sets)
  IN  /\ currPeerPositions' = fresh
      /\ closeTimeAvalancheState' = RevisedCloseTimeState
      /\ haveCloseTimeConsensus' = CloseTimeAgreed(fresh)
      /\ txns' = set
      /\ acquired' = sets
      /\ disputes' = new
      /\ compares' = compares \cup (IF nodes = {} THEN {} ELSE {set})
      /\ peerUnchangedCounter' =
           IF VotesChanged(revised, new) THEN 0 ELSE unchanged

\* haveConsensus: with an agreed close time, every disputed transaction is
\* stalled.
AllStalled ==
  /\ haveCloseTimeConsensus'
  /\ DOMAIN disputes' # {}
  /\ \A t \in DOMAIN disputes' :
       Stalled(disputes'[t], Yays(disputes'[t]), Nays(disputes'[t]),
               Proposing, peerUnchangedCounter')

\* The states haveConsensus can compute, over the number of proposers that
\* have moved on; it reads what updateOurPositions left.
Verdicts(pos) ==
  LET agree == Cardinality(Holders(currPeerPositions', pos.set))
  IN  {CheckConsensus(prevProposers, Cardinality(DOMAIN currPeerPositions'),
                      agree, finished, prevRoundTime, roundTime, AllStalled,
                      Proposing) : finished \in 0..Cardinality(Peers)}

\* shouldPause says yes (it may until ledgerMAX_CONSENSUS).
Pause(pos, sent) ==
  /\ roundTime <= MaxConsensus
  /\ position' = pos /\ proposals' = sent
  /\ UNCHANGED <<phase, mode, state, prevVars>>

\* haveConsensus says no.
GoOn(pos, sent) ==
  /\ state' \in Verdicts(pos)
  /\ \/ state' = "No"
     \/ state' = "Expired" /\ establishCounter' < EstablishMinimum
  /\ position' = pos /\ proposals' = sent
  /\ UNCHANGED <<phase, mode, prevVars>>

\* haveConsensus says yes, leaving the round first when it expired; with an
\* agreed close time the round ends.
Finish(pos, sent) ==
  /\ state' \in Verdicts(pos)
  /\ \/ state' \in {"Yes", "MovedOn"}
     \/ state' = "Expired" /\ establishCounter' >= EstablishMinimum
  /\ mode' = IF state' = "Expired" /\ Proposing THEN "observing" ELSE mode
  /\ IF state' = "Expired" /\ BowsOut(mode, pos)
     THEN /\ position' = BowOut(pos)
          /\ proposals' = Append(sent, Sent(BowOut(pos)))
     ELSE position' = pos /\ proposals' = sent
  /\ IF haveCloseTimeConsensus'
     THEN /\ phase' = "accepted"
          /\ prevProposers' = Cardinality(DOMAIN currPeerPositions')
          /\ prevRoundTime' = roundTime
     ELSE UNCHANGED <<phase, prevVars>>

\* phaseEstablish before ledgerMIN_CONSENSUS.
PhaseEstablishEarly ==
  /\ AtPhase("establish")
  /\ roundTime < MinConsensus
  /\ peerUnchangedCounter' = Count(peerUnchangedCounter, StalledRounds)
  /\ establishCounter' = Count(establishCounter, EstablishMinimum)
  /\ stack' = Tail(stack)
  /\ UNCHANGED <<phase, mode, ledgerVars, peerVars, disputes, compares,
                 stanceVars, closeTimeVars, clockVars, prevVars, inputVars,
                 playback>>

\* phaseEstablish from ledgerMIN_CONSENSUS on.
PhaseEstablish ==
  /\ AtPhase("establish")
  /\ roundTime >= MinConsensus
  /\ position.seq < MaxOwnSeq \/ position.seq = SeqLeave
  /\ establishCounter' = Count(establishCounter, EstablishMinimum)
  /\ stack' = Tail(stack)
  /\ UNCHANGED <<ledgerVars, deadNodes, requested, haveResult, clockVars,
                 inputVars, playback>>
  /\ LET fresh   == FreshPositions
         revised == RevisedDisputes
         ct      == ConsensusCloseTime(fresh)
         changes == PositionChanges(revised, ct)
         pos     == IF changes THEN ChangedPosition(RevisedTxns(revised), ct)
                    ELSE position
         sent    == IF changes THEN Proposed(pos) ELSE proposals
     IN  /\ UpdateOurPositions(fresh, revised, ct,
                               Count(peerUnchangedCounter, StalledRounds))
         /\ Pause(pos, sent) \/ GoOn(pos, sent) \/ Finish(pos, sent)

-----------------------------------------------------------------------------
Init ==
  /\ phase = "accepted" /\ mode = "observing"
  /\ prevLedgerID \in Ledgers /\ previousLedger = prevLedgerID
  /\ currPeerPositions = Nothing /\ deadNodes = {}
  /\ recentPeerPositions = [n \in Peers |-> <<>>]
  /\ acquired = {} /\ requested = {}
  /\ haveResult = FALSE /\ txns = {} /\ position = NoPosition
  /\ disputes = Nothing /\ compares = {} /\ state = "No"
  /\ roundTime = 0 /\ openTime = 0
  /\ haveCloseTimeConsensus = FALSE /\ closeTimeAvalancheState = "init"
  /\ peerUnchangedCounter = 0 /\ establishCounter = 0
  /\ prevProposers = 0 /\ prevRoundTime = IdleInterval   \* firstRound_
  /\ stack = <<>> /\ playback = [n \in Peers |-> <<>>]
  /\ proposals = <<>> /\ delivered = 0 /\ rounds = 0

\* A proposal arrives from a peer.  A first proposal names a close time, a
\* changed one may have given it up (0); what a bow-out names is never read.
Deliver ==
  \E n \in Peers, seq \in 0..MaxPeerSeq \cup {SeqLeave}, set \in TxSets,
     ct \in CloseTimes \cup {0}, prev \in Ledgers :
    /\ seq = 0 => ct # 0
    /\ seq = SeqLeave => set = {} /\ ct = 0
    /\ PeerProposal(n, [seq |-> seq, set |-> set, ct |-> ct, prev |-> prev,
                        age |-> 0])

\* The steps of the call that holds the mutex.
Running ==
  \/ \E n \in Peers : Replay(n)
  \/ ReplayDone
  \/ MaybeBehind
  \/ \E net \in Ledgers : CheckLedger(net)
  \/ KeepLedger
  \/ SwitchLedger
  \/ StillWrongLedger
  \/ \E set \in TxSets, ct \in CloseTimes : PhaseOpenCloses(set, ct)
  \/ PhaseOpenWaits
  \/ PhaseEstablishEarly
  \/ PhaseEstablish

Start ==
  \E id \in Ledgers, ledger \in Ledgers, untrusted \in SUBSET Peers,
     proposing \in BOOLEAN :
    StartRound(id, ledger, untrusted, proposing)

Next ==
  \/ Deliver
  \/ \E set \in TxSets : GotTxSet(set)
  \/ Start
  \/ TimerEntry
  \/ Running

Spec == Init /\ [][Next]_vars

\* A call that was started returns, and the heartbeat timer keeps calling.
FairSpec == Spec /\ WF_vars(Running \/ TimerEntry)

-----------------------------------------------------------------------------
(* Properties. *)

IsPartialFunction(f, S, T) == DOMAIN f \subseteq S /\ f \in [DOMAIN f -> T]

Modes == {"proposing", "observing", "wrongLedger", "switchedLedger"}
Labels == {"playback", "behind", "ledger", "switch", "phase"}

OwnPosition == [seq : 0..SeqLeave, set : TxSets, ct : Nat, age : Nat]
Message == [seq : 0..SeqLeave, set : TxSets, ct : Nat]

\* Type correctness of the consensus engine's state.
TypeOK ==
  /\ phase \in {"open", "establish", "accepted"}
  /\ mode \in Modes
  /\ prevLedgerID \in Ledgers /\ previousLedger \in Ledgers
  /\ IsPartialFunction(currPeerPositions, Peers, PeerPosition)
  /\ recentPeerPositions \in [Peers -> Seq(PeerPosition)]
  /\ playback \in [Peers -> Seq(PeerPosition)]
  /\ deadNodes \subseteq Peers
  /\ acquired \subseteq TxSets /\ requested \subseteq TxSets
  /\ haveResult \in BOOLEAN
  /\ txns \in TxSets
  /\ position \in OwnPosition
  /\ IsPartialFunction(disputes, Txs, Dispute)
  /\ compares \subseteq TxSets
  /\ state \in ConsensusStates
  /\ roundTime \in Nat /\ openTime \in Nat
  /\ haveCloseTimeConsensus \in BOOLEAN
  /\ closeTimeAvalancheState \in AvalancheStates
  /\ peerUnchangedCounter \in Nat /\ establishCounter \in Nat
  /\ prevProposers \in Nat /\ prevRoundTime \in Nat
  /\ stack \in Seq(Labels)
  /\ proposals \in Seq(Message)
  /\ delivered \in Nat /\ rounds \in Nat

\* The asserts on result_ in Consensus.h: we have a stance exactly from
\* closeLedger on, our position names our transaction set, and that set is
\* among acquired_ (so a set that gotTxSet sees for the first time is never
\* our own).
StanceConsistent ==
  /\ phase = "open" => ~haveResult
  /\ phase = "establish" => haveResult
  /\ haveResult => position.set = txns /\ txns \in acquired

\* Disputes cover every difference: whatever order proposals, late transaction
\* sets, bow-outs, stale removals, our own changes of position and replays
\* came in, every transaction on which our set and the set of a live peer
\* differ (once that set is at hand) is a disputed transaction.  Otherwise
\* nobody would vote on it and the two positions could never converge.
DisputesCoverDifferences ==
  haveResult =>
    \A n \in Live : currPeerPositions[n].set \in acquired =>
      SymDiff(txns, currPeerPositions[n].set) \subseteq DOMAIN disputes

\* The votes are those of the current positions: on every dispute, a live peer
\* whose set is at hand votes as its set says, and a peer without a position
\* (bowed out, stale, or of another ledger) has no vote.
VotesMatchPositions ==
  haveResult =>
    \A t \in DOMAIN disputes, n \in Peers :
      /\ n \notin Live => disputes[t].votes[n] = "none"
      /\ n \in Live /\ currPeerPositions[n].set \in acquired =>
           disputes[t].votes[n] = AsVote(t \in currPeerPositions[n].set)

\* Our vote on every dispute is what our own transaction set says.
OurVoteMatchesTxns ==
  haveResult => \A t \in DOMAIN disputes : disputes[t].ourVote = (t \in txns)

\* The network knows our position: while we are proposing, the last thing we
\* broadcast in this round is our current position.
WirePositionCurrent ==
  haveResult /\ mode = "proposing" =>
    /\ proposals # <<>>
    /\ proposals[Len(proposals)] = Sent(position)

\* The sequence numbers of what we broadcast in a round strictly increase, so
\* peers never discard a change of ours as old, and a bow-out (seqLeave) is
\* the last thing we say.
ProposalsIncrease ==
  \A i, j \in 1..Len(proposals) : i < j => proposals[i].seq < proposals[j].seq

\* A round that ends with state Yes and with peers taking part ends either
\* with minCONSENSUS_PCT of the participants on exactly our set, or with every
\* disputed transaction decided by more than that share, one way or the other.
AcceptedSetSupported ==
  (phase = "accepted" /\ haveResult /\ state = "Yes" /\ Live # {}) =>
    \/ (Cardinality(Holders(currPeerPositions, txns)) + Self) * 100
         >= MinConsensusPct * (Cardinality(Live) + Self)
    \/ /\ DOMAIN disputes # {}
       /\ \A t \in DOMAIN disputes :
            LET d      == disputes[t]
                yes    == (Yays(d) + (IF d.ourVote THEN Self ELSE 0)) * 100
                voters == Yays(d) + Nays(d) + Self
            IN  \/ yes > MinConsensusPct * voters
                \/ yes < (100 - MinConsensusPct) * voters

\* A round that ends (without expiring) with peers taking part ends on a close
\* time that avCT_CONSENSUS_PCT of the participants share with us.
AcceptedCloseTimeShared ==
  (phase = "accepted" /\ haveResult /\ state # "Expired" /\ Live # {}) =>
    LET same == {n \in Live : AsCloseTime(currPeerPositions[n].ct) =
                              AsCloseTime(position.ct)}
    IN  Cardinality(same) + Self >=
          ParticipantsNeeded(Cardinality(Live) + Self, CtConsensusPct)

\* What ConsensusTypes.h says of the mode wrongLedger ("We have the wrong
\* ledger and are attempting to acquire it"), between two calls.
WrongLedgerMeansWrong ==
  stack = <<>> /\ mode = "wrongLedger" => previousLedger # prevLedgerID

\* Every establish phase ends: with finitely many peer messages, the timer
\* alone brings the round to acceptance (or the engine leaves it for another
\* ledger).
EstablishEnds == phase = "establish" ~> phase # "establish"

=============================================================================
