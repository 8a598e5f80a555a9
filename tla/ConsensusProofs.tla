-------------------------- MODULE ConsensusProofs ---------------------------
(***************************************************************************)
(* For all peers, transactions, ledgers and parameters: the state of the   *)
(* consensus engine is well typed.  Also the lemmas on disputes that       *)
(* ConsensusDisputesProofs builds on.                                      *)
(***************************************************************************)
EXTENDS Consensus, FiniteSetTheorems, TLAPS

-----------------------------------------------------------------------------
(* The stateless decisions: ConsensusRules. *)

\* A vote made of a Boolean is yes or no.
LEMMA AsVoteType ==
  ASSUME NEW b
  PROVE  AsVote(b) \in Votes /\ AsVote(b) # "none"
  BY DEF AsVote, Votes

\* The saturating minimum of naturals is a natural.
LEMMA SmallerType ==
  ASSUME NEW a \in Nat, NEW b \in Nat
  PROVE  Smaller(a, b) \in Nat
  BY DEF Smaller

\* The avalanche state machine stays in its states.
LEMMA AdvanceType ==
  ASSUME NEW av \in AvalancheStates, NEW pt, NEW r, NEW m
  PROVE  AvalancheAdvance(av, pt, r, m) \in AvalancheStates
  BY DEF AvalancheAdvance, AvalancheStates, NextState

\* The needed percentage never decreases (ConsensusParms.h, avalancheCutoffs).
LEMMA AdvanceMonotone ==
  ASSUME NEW av \in AvalancheStates, NEW pt, NEW r, NEW m
  PROVE  /\ CutoffPct[av] \in Nat
         /\ CutoffPct[AvalancheAdvance(av, pt, r, m)] \in Nat
         /\ CutoffPct[av] <= CutoffPct[AvalancheAdvance(av, pt, r, m)]
  BY DEF AvalancheAdvance, AvalancheStates, NextState, CutoffPct

\* Integer division by a positive number is monotone and stays in Nat.
LEMMA DivMonotone ==
  ASSUME NEW a \in Nat, NEW b \in Nat, NEW k \in Nat \ {0}, a <= b
  PROVE  a \div k \in Nat /\ b \div k \in Nat /\ a \div k <= b \div k
  OBVIOUS

\* Our own yes never lowers the weight of a transaction.
LEMMA WeightMonotone ==
  ASSUME NEW y \in Nat, NEW m \in Nat
  PROVE  /\ ProposingWeight(TRUE, y, m) \in Nat
         /\ ProposingWeight(FALSE, y, m) \in Nat
         /\ ProposingWeight(FALSE, y, m) <= ProposingWeight(TRUE, y, m)
<1>1. /\ y * 100 + 0 \in Nat /\ y * 100 + 100 \in Nat
      /\ y * 100 + 0 <= y * 100 + 100 /\ m + y + 1 \in Nat \ {0}
  OBVIOUS
<1> QED
  BY <1>1, DivMonotone DEF ProposingWeight

\* A DisputedTx updated by updateVote is one again, with the same votes.
LEMMA UpdatedVoteType ==
  ASSUME NEW d \in Dispute, NEW y \in Nat, NEW m \in Nat, NEW pt \in Nat,
         NEW p \in BOOLEAN
  PROVE  /\ UpdatedVote(d, y, m, pt, p) \in Dispute
         /\ UpdatedVote(d, y, m, pt, p).votes = d.votes
<1> DEFINE av == AvalancheAdvance(d.avState, pt, d.avCounter + 1, MinRounds)
           new == IF p THEN ProposingWeight(d.ourVote, y, m) > CutoffPct[av]
                  ELSE y > m
           vc == IF new = d.ourVote
                 THEN Smaller(d.voteCounter + 1, VoteCounterCap) ELSE 0
           ac == IF av # d.avState THEN 0
                 ELSE Smaller(d.avCounter + 1, MinRounds)
<1>1. av \in AvalancheStates
  BY AdvanceType DEF Dispute
<1>2. VoteCounterCap \in Nat /\ MinRounds \in Nat
  BY RulesAssumption DEF RulesAssumption, VoteCounterCap, Larger
<1>3. vc \in Nat
  <2>1. d.voteCounter + 1 \in Nat
    BY DEF Dispute
  <2>2. Smaller(d.voteCounter + 1, VoteCounterCap) \in Nat
    BY <1>2, <2>1, SmallerType, Zenon
  <2> QED
    BY <2>2
<1>4. ac \in Nat
  <2>1. d.avCounter + 1 \in Nat
    BY DEF Dispute
  <2>2. Smaller(d.avCounter + 1, MinRounds) \in Nat
    BY <1>2, <2>1, SmallerType, Zenon
  <2> QED
    BY <2>2
<1>5. new \in BOOLEAN
  <2>1. ProposingWeight(d.ourVote, y, m) \in Nat
    BY WeightMonotone, Zenon DEF Dispute
  <2>2. CutoffPct[av] \in Nat
    BY <1>1, AdvanceMonotone
  <2> HIDE DEF av
  <2>3. (ProposingWeight(d.ourVote, y, m) > CutoffPct[av]) \in BOOLEAN
    BY <2>1, <2>2
  <2>4. (y > m) \in BOOLEAN
    OBVIOUS
  <2> QED
    BY <2>3, <2>4, Zenon
<1>6. UpdatedVote(d, y, m, pt, p) =
        IF (d.ourVote /\ m = 0) \/ (~d.ourVote /\ y = 0) THEN d
        ELSE [ourVote |-> new, votes |-> d.votes, voteCounter |-> vc,
              avState |-> av, avCounter |-> ac]
  BY DEF UpdatedVote
<1> HIDE DEF av, new, vc, ac
<1> QED
  BY <1>1, <1>3, <1>4, <1>5, <1>6 DEF Dispute

-----------------------------------------------------------------------------
(* Close times. *)

Resolutions == {10, 20, 30, 60, 90, 120}

\* getNextLedgerTimeResolution maps a valid bin to a valid bin.
LEMMA ResolutionType ==
  ASSUME NEW r \in Resolutions, NEW agree \in BOOLEAN, NEW seq \in Nat
  PROVE  NextTimeResolution(r, agree, seq) \in Resolutions
<1> DEFINE i == CHOOSE j \in 1..Len(PossibleResolutions) :
                  PossibleResolutions[j] = r
<1>1. Len(PossibleResolutions) = 6
  BY DEF PossibleResolutions
<1>2. \E j \in 1..6 : PossibleResolutions[j] = r
  BY DEF PossibleResolutions, Resolutions
<1>3. i \in 1..6
  BY <1>1, <1>2
<1>4. \A j \in 1..6 : PossibleResolutions[j] \in Resolutions
  BY DEF PossibleResolutions, Resolutions
<1>5. NextTimeResolution(r, agree, seq) =
        IF ~agree /\ i < 6 THEN PossibleResolutions[i + 1]
        ELSE IF agree /\ seq % 8 = 0 /\ i > 1 THEN PossibleResolutions[i - 1]
        ELSE r
  BY <1>1 DEF NextTimeResolution
<1> HIDE DEF i
<1> QED
  BY <1>3, <1>4, <1>5

\* roundCloseTime yields a time.
LEMMA RoundCloseTimeType ==
  ASSUME NEW t \in Nat, NEW r \in Resolutions
  PROVE  RoundCloseTime(t, r) \in Nat
  BY DEF RoundCloseTime, Resolutions

-----------------------------------------------------------------------------
(* Partial functions. *)

\* The empty function is a partial function of any type.
LEMMA NothingType ==
  ASSUME NEW S, NEW T
  PROVE  IsPartialFunction(Nothing, S, T) /\ DOMAIN Nothing = {}
  BY DEF IsPartialFunction, Nothing

\* Adding or replacing an entry (currPeerPositions_.emplace).
LEMMA WithFacts ==
  ASSUME NEW f, NEW S, NEW T, NEW x \in S, NEW v \in T,
         IsPartialFunction(f, S, T)
  PROVE  /\ IsPartialFunction(With(f, x, v), S, T)
         /\ DOMAIN With(f, x, v) = DOMAIN f \cup {x}
         /\ With(f, x, v)[x] = v
         /\ \A y \in DOMAIN f : y # x => With(f, x, v)[y] = f[y]
  BY DEF IsPartialFunction, With

\* Erasing entries.
LEMMA WithoutFacts ==
  ASSUME NEW f, NEW S, NEW T, NEW R, IsPartialFunction(f, S, T)
  PROVE  /\ IsPartialFunction(Without(f, R), S, T)
         /\ DOMAIN Without(f, R) = DOMAIN f \ R
         /\ \A y \in DOMAIN f \ R : Without(f, R)[y] = f[y]
  BY DEF IsPartialFunction, Without

-----------------------------------------------------------------------------
(* Votes and disputes. *)

\* The votes of the current positions are votes.
LEMMA PeerVotesFacts ==
  ASSUME NEW curr, NEW sets, NEW t
  PROVE  /\ PeerVotes(curr, sets, t) \in [Peers -> Votes]
         /\ \A n \in Peers :
              /\ n \in DOMAIN curr /\ curr[n].set \in sets =>
                   PeerVotes(curr, sets, t)[n] = AsVote(t \in curr[n].set)
              /\ n \notin DOMAIN curr => PeerVotes(curr, sets, t)[n] = "none"
<1>1. \A n \in Peers : AsVote(t \in curr[n].set) \in Votes
  BY AsVoteType
<1>2. "none" \in Votes
  BY DEF Votes
<1> QED
  BY <1>1, <1>2 DEF PeerVotes

\* The vote of one peer.
LEMMA PeerVote ==
  ASSUME NEW curr, NEW sets, NEW t, NEW n \in Peers
  PROVE  /\ n \in DOMAIN curr /\ curr[n].set \in sets =>
              PeerVotes(curr, sets, t)[n] = AsVote(t \in curr[n].set)
         /\ n \notin DOMAIN curr => PeerVotes(curr, sets, t)[n] = "none"
BY PeerVotesFacts

\* A new dispute has the given votes and zero counters.
LEMMA NewDisputeType ==
  ASSUME NEW b \in BOOLEAN, NEW v \in [Peers -> Votes]
  PROVE  /\ NewDispute(b, v) \in Dispute
         /\ NewDispute(b, v).ourVote = b
         /\ NewDispute(b, v).votes = v
  BY DEF NewDispute, Dispute, AvalancheStates

\* The transactions on which `ours` differs from one of `others`.
Differences(ours, others) == UNION {SymDiff(ours, o) : o \in others}

\* What createDisputes makes of the disputes ds.
Created(new, ds, others, ours, curr, sets) ==
  /\ IsPartialFunction(new, Txs, Dispute)
  /\ DOMAIN new = DOMAIN ds \cup Differences(ours, others)
  /\ \A t \in DOMAIN ds : new[t] = ds[t]
  /\ \A t \in Differences(ours, others) \ DOMAIN ds :
       /\ new[t].ourVote = (t \in ours)
       /\ new[t].votes = PeerVotes(curr, sets, t)

\* createDisputes keeps the existing disputes and adds one, with our vote and
\* the votes of the current positions, for every other difference.
LEMMA CreateDisputesFacts ==
  ASSUME NEW ds, NEW others \in SUBSET TxSets, NEW ours \in TxSets, NEW curr,
         NEW sets, IsPartialFunction(ds, Txs, Dispute)
  PROVE  Created(CreateDisputes(ds, others, ours, curr, sets),
                 ds, others, ours, curr, sets)
<1> DEFINE new == CreateDisputes(ds, others, ours, curr, sets)
           D == DOMAIN ds \cup Differences(ours, others)
<1>1. /\ DOMAIN new = D
      /\ \A t \in D : new[t] = IF t \in DOMAIN ds THEN ds[t]
                               ELSE NewDispute(t \in ours,
                                               PeerVotes(curr, sets, t))
      /\ new = [t \in D |-> new[t]]
  BY DEF CreateDisputes, Differences
<1>2. Differences(ours, others) \subseteq Txs
  BY DEF Differences, SymDiff, TxSets
<1>3. \A t : PeerVotes(curr, sets, t) \in [Peers -> Votes]
  BY PeerVotesFacts
<1> HIDE DEF new, D
<1>4. ASSUME NEW t \in D, t \notin DOMAIN ds
      PROVE  /\ new[t] \in Dispute
             /\ new[t].ourVote = (t \in ours)
             /\ new[t].votes = PeerVotes(curr, sets, t)
  <2> DEFINE b == t \in ours
             v == PeerVotes(curr, sets, t)
  <2>1. new[t] = NewDispute(b, v)
    BY <1>1, <1>4
  <2>2. b \in BOOLEAN /\ v \in [Peers -> Votes]
    BY <1>3
  <2> HIDE DEF b, v
  <2>3. new[t] \in Dispute /\ new[t].ourVote = b /\ new[t].votes = v
    BY <2>1, <2>2, NewDisputeType
  <2> QED
    BY <2>3 DEF b, v
<1>5. IsPartialFunction(new, Txs, Dispute)
  BY <1>1, <1>2, <1>4 DEF IsPartialFunction, D
<1> QED
  BY <1>1, <1>4, <1>5 DEF new, D, Created

\* Replacing the votes of a dispute keeps the rest of it.
LEMMA VotesReplaced ==
  ASSUME NEW d \in Dispute, NEW v \in [Peers -> Votes]
  PROVE  /\ [d EXCEPT !.votes = v] \in Dispute
         /\ [d EXCEPT !.votes = v].votes = v
         /\ [d EXCEPT !.votes = v].ourVote = d.ourVote
  BY DEF Dispute

\* setVote for some nodes on every dispute: their votes, and nothing else.
LEMMA SetVotesFacts ==
  ASSUME NEW ds, NEW nodes, NEW other, IsPartialFunction(ds, Txs, Dispute)
  PROVE  /\ IsPartialFunction(SetVotes(ds, nodes, other), Txs, Dispute)
         /\ DOMAIN SetVotes(ds, nodes, other) = DOMAIN ds
         /\ \A t \in DOMAIN ds :
              /\ SetVotes(ds, nodes, other)[t].ourVote = ds[t].ourVote
              /\ \A n \in Peers :
                   SetVotes(ds, nodes, other)[t].votes[n] =
                     IF n \in nodes THEN AsVote(t \in other)
                     ELSE ds[t].votes[n]
<1> DEFINE new == SetVotes(ds, nodes, other)
           vs(t) == [n \in Peers |-> IF n \in nodes THEN AsVote(t \in other)
                                     ELSE ds[t].votes[n]]
<1>1. \A t : AsVote(t \in other) \in Votes
  BY AsVoteType
<1>2. \A t \in DOMAIN ds : ds[t] \in Dispute /\ ds[t].votes \in [Peers -> Votes]
  BY DEF IsPartialFunction, Dispute
<1>3. \A t \in DOMAIN ds : vs(t) \in [Peers -> Votes]
  BY <1>1, <1>2
<1>4. /\ DOMAIN new = DOMAIN ds
      /\ new = [t \in DOMAIN ds |-> new[t]]
      /\ \A t \in DOMAIN ds : new[t] = [ds[t] EXCEPT !.votes = vs(t)]
  BY DEF SetVotes
<1>5. \A t \in DOMAIN ds : \A n \in Peers :
        vs(t)[n] = IF n \in nodes THEN AsVote(t \in other) ELSE ds[t].votes[n]
  OBVIOUS
<1> HIDE DEF new, vs
<1>6. \A t \in DOMAIN ds : /\ new[t] \in Dispute /\ new[t].votes = vs(t)
                           /\ new[t].ourVote = ds[t].ourVote
  BY <1>2, <1>3, <1>4 DEF Dispute
<1>7. IsPartialFunction(new, Txs, Dispute)
  BY <1>4, <1>6 DEF IsPartialFunction
<1> QED
  BY <1>4, <1>5, <1>6, <1>7 DEF new

\* unVote for some nodes on every dispute: they have no vote left.
LEMMA UnVotesFacts ==
  ASSUME NEW ds, NEW nodes, IsPartialFunction(ds, Txs, Dispute)
  PROVE  /\ IsPartialFunction(UnVotes(ds, nodes), Txs, Dispute)
         /\ DOMAIN UnVotes(ds, nodes) = DOMAIN ds
         /\ \A t \in DOMAIN ds :
              /\ UnVotes(ds, nodes)[t].ourVote = ds[t].ourVote
              /\ \A n \in Peers :
                   UnVotes(ds, nodes)[t].votes[n] =
                     IF n \in nodes THEN "none" ELSE ds[t].votes[n]
<1> DEFINE new == UnVotes(ds, nodes)
           vs(t) == [n \in Peers |-> IF n \in nodes THEN "none"
                                     ELSE ds[t].votes[n]]
<1>2. \A t \in DOMAIN ds : ds[t] \in Dispute /\ ds[t].votes \in [Peers -> Votes]
  BY DEF IsPartialFunction, Dispute
<1>3. \A t \in DOMAIN ds : vs(t) \in [Peers -> Votes]
  BY <1>2 DEF Votes
<1>4. /\ DOMAIN new = DOMAIN ds
      /\ new = [t \in DOMAIN ds |-> new[t]]
      /\ \A t \in DOMAIN ds : new[t] = [ds[t] EXCEPT !.votes = vs(t)]
  BY DEF UnVotes
<1>5. \A t \in DOMAIN ds : \A n \in Peers :
        vs(t)[n] = IF n \in nodes THEN "none" ELSE ds[t].votes[n]
  OBVIOUS
<1> HIDE DEF new, vs
<1>6. \A t \in DOMAIN ds : /\ new[t] \in Dispute /\ new[t].votes = vs(t)
                           /\ new[t].ourVote = ds[t].ourVote
  BY <1>2, <1>3, <1>4 DEF Dispute
<1>7. IsPartialFunction(new, Txs, Dispute)
  BY <1>4, <1>6 DEF IsPartialFunction
<1> QED
  BY <1>4, <1>5, <1>6, <1>7 DEF new

-----------------------------------------------------------------------------
(* Types of the operators. *)

\* updateDisputes leaves disputes.
LEMMA UpdateDisputesType ==
  ASSUME NEW ds, NEW cmp, NEW nodes, NEW other \in TxSets,
         NEW ours \in TxSets, NEW curr, NEW sets,
         IsPartialFunction(ds, Txs, Dispute)
  PROVE  IsPartialFunction(UpdateDisputes(ds, cmp, nodes, other, ours, curr,
                                          sets), Txs, Dispute)
<1> DEFINE others == {other} \ cmp
           mid == CreateDisputes(ds, others, ours, curr, sets)
<1>1. others \in SUBSET TxSets
  OBVIOUS
<1>2. IsPartialFunction(mid, Txs, Dispute)
  <2> HIDE DEF others
  <2> QED
    BY Zenon, <1>1, CreateDisputesFacts DEF Created
<1>3. UpdateDisputes(ds, cmp, nodes, other, ours, curr, sets) =
        IF nodes = {} THEN ds ELSE SetVotes(mid, nodes, other)
  BY DEF UpdateDisputes
<1> HIDE DEF others, mid
<1>4. IsPartialFunction(SetVotes(mid, nodes, other), Txs, Dispute)
  BY <1>2, SetVotesFacts
<1> QED
  BY <1>3, <1>4

\* seqLeave is larger than any sequence number in use.
LEMMA SeqLeaveFacts ==
  /\ SeqLeave \in Nat /\ MaxPeerSeq \in Nat /\ MaxOwnSeq \in Nat \ {0}
  /\ MaxPeerSeq < SeqLeave /\ MaxOwnSeq < SeqLeave
  BY ConsensusAssumption DEF ConsensusAssumption, SeqLeave, Larger

\* The position before closeLedger has the type of a position.
LEMMA NoPositionType == NoPosition \in OwnPosition
<1>1. 0 \in 0..SeqLeave /\ 0 \in Nat /\ {} \in TxSets
  BY SeqLeaveFacts DEF TxSets
<1> QED
  BY <1>1 DEF NoPosition, OwnPosition

\* A proposal off the wire is a position.
LEMMA OfferedPosition ==
  ASSUME NEW seq \in 0..MaxPeerSeq \cup {SeqLeave}, NEW set \in TxSets,
         NEW ct \in CloseTimes \cup {0}, NEW prev \in Ledgers
  PROVE  [seq |-> seq, set |-> set, ct |-> ct, prev |-> prev, age |-> 0]
           \in PeerPosition
<1>1. seq \in 0..SeqLeave
  BY SeqLeaveFacts
<1>2. 0 \in 0..Freshness
  BY ConsensusAssumption DEF ConsensusAssumption
<1> QED
  BY <1>1, <1>2 DEF PeerPosition

\* A proposal that ages stays a proposal of the same set.
LEMMA OlderFacts ==
  ASSUME NEW p \in PeerPosition
  PROVE  Older(p) \in PeerPosition /\ Older(p).set = p.set
<1>1. Granularity \in Nat /\ Freshness \in Nat
  BY ConsensusAssumption DEF ConsensusAssumption
<1>2. Smaller(p.age + Granularity, Freshness) \in 0..Freshness
  BY <1>1 DEF Smaller, PeerPosition
<1> QED
  BY <1>2 DEF Older, PeerPosition

\* The deque of recent positions stays a sequence of positions.
LEMMA RememberType ==
  ASSUME NEW T, NEW q \in Seq(T), NEW p \in T
  PROVE  Remember(q, p) \in Seq(T)
<1>1. RecentMax \in Nat \ {0}
  BY ConsensusAssumption DEF ConsensusAssumption
<1>2. CASE Len(q) >= RecentMax
  <2>1. q # <<>>
    BY <1>1, <1>2
  <2>2. Tail(q) \in Seq(T)
    BY <2>1
  <2> QED
    BY <1>2, <2>2 DEF Remember
<1>3. CASE ~(Len(q) >= RecentMax)
  BY <1>3 DEF Remember
<1> QED
  BY <1>2, <1>3

\* The capped counters are numbers.
LEMMA CountType ==
  ASSUME NEW c \in Nat
  PROVE  Count(c, StalledRounds) \in Nat /\ Count(c, EstablishMinimum) \in Nat
<1>1. StalledRounds \in Nat /\ MinRounds \in Nat /\ c + 1 \in Nat
  BY RulesAssumption DEF RulesAssumption
<1>2. IsFiniteSet(AvalancheStates)
  <2>1. IsFiniteSet({"init"})
    BY Zenon, FS_Singleton
  <2>2. IsFiniteSet({"init"} \cup {"mid"})
    BY <2>1, FS_AddElement
  <2>3. IsFiniteSet(({"init"} \cup {"mid"}) \cup {"late"})
    BY <2>2, FS_AddElement
  <2>4. IsFiniteSet((({"init"} \cup {"mid"}) \cup {"late"}) \cup {"stuck"})
    BY <2>3, FS_AddElement
  <2>5. AvalancheStates =
          (({"init"} \cup {"mid"}) \cup {"late"}) \cup {"stuck"}
    BY DEF AvalancheStates
  <2> QED
    BY <2>4, <2>5
<1>3. Cardinality(AvalancheStates) \in Nat
  BY <1>2, FS_CardinalityType
<1>4. EstablishMinimum \in Nat
  <2> DEFINE k == Cardinality(AvalancheStates)
  <2>1. EstablishMinimum = k * MinRounds /\ k \in Nat
    BY <1>3 DEF EstablishMinimum
  <2> HIDE DEF k
  <2> QED
    BY <1>1, <2>1
<1> QED
  BY Zenon, <1>1, <1>4, SmallerType DEF Count

\* The close time resolution in use, and rounded close times.
LEMMA AsCloseTimeType ==
  ASSUME previousLedger \in Ledgers, NEW raw \in Nat
  PROVE  AsCloseTime(raw) \in Nat
<1> DEFINE info == LedgerInfo[previousLedger]
<1>1. /\ info.resolution \in Resolutions /\ info.agree \in BOOLEAN
      /\ info.seq + 1 \in Nat
  BY ConsensusAssumption DEF ConsensusAssumption, Resolutions
<1>2. CloseResolution = NextTimeResolution(info.resolution, info.agree,
                                           info.seq + 1)
  BY DEF CloseResolution
<1> HIDE DEF info
<1>3. CloseResolution \in Resolutions
  BY <1>1, <1>2, ResolutionType
<1> QED
  BY <1>3, RoundCloseTimeType DEF AsCloseTime

\* Sets of peers can be counted.
LEMMA PeersCount ==
  ASSUME NEW S, S \subseteq Peers
  PROVE  IsFiniteSet(S) /\ Cardinality(S) \in Nat
<1>1. IsFiniteSet(S)
  BY RulesAssumption, FS_Subset DEF RulesAssumption
<1> QED
  BY <1>1, FS_CardinalityType

\* The vote counts of a dispute are numbers.
LEMMA YaysNaysType ==
  ASSUME NEW d
  PROVE  Yays(d) \in Nat /\ Nays(d) \in Nat
  BY PeersCount DEF Yays, Nays

\* How far along the round is.
LEMMA ConvergePercentType ==
  ASSUME roundTime \in Nat, prevRoundTime \in Nat
  PROVE  ConvergePercent \in Nat
<1>1. Larger(prevRoundTime, MinConsensusTime) \in Nat \ {0}
  BY RulesAssumption DEF RulesAssumption, Larger
<1>2. roundTime * 100 \in Nat
  OBVIOUS
<1> QED
  BY <1>1, <1>2, DivMonotone DEF ConvergePercent

\* checkConsensus answers with a ConsensusState.
LEMMA CheckConsensusType ==
  ASSUME NEW a, NEW b, NEW c, NEW d, NEW e, NEW f, NEW g, NEW h
  PROVE  CheckConsensus(a, b, c, d, e, f, g, h) \in ConsensusStates
  BY DEF CheckConsensus, ConsensusStates

\* What is left of the positions once the stale ones are removed.
LEMMA FreshFacts ==
  ASSUME IsPartialFunction(currPeerPositions, Peers, PeerPosition)
  PROVE  /\ IsPartialFunction(FreshPositions, Peers, PeerPosition)
         /\ DOMAIN FreshPositions = DOMAIN currPeerPositions \ StalePeers
         /\ \A n \in DOMAIN FreshPositions :
              FreshPositions[n] = currPeerPositions[n]
  BY DEF FreshPositions, Without, IsPartialFunction

\* updateVote on every dispute changes no peer's vote, but those of the stale
\* peers are gone.
LEMMA RevisedFacts ==
  ASSUME IsPartialFunction(disputes, Txs, Dispute),
         roundTime \in Nat, prevRoundTime \in Nat
  PROVE  /\ IsPartialFunction(RevisedDisputes, Txs, Dispute)
         /\ DOMAIN RevisedDisputes = DOMAIN disputes
         /\ \A t \in DOMAIN disputes, n \in Peers :
              RevisedDisputes[t].votes[n] =
                IF n \in StalePeers THEN "none" ELSE disputes[t].votes[n]
<1> DEFINE ds == UnVotes(disputes, StalePeers)
           pt == ConvergePercent
           p == Proposing
           y(t) == Yays(ds[t])
           m(t) == Nays(ds[t])
           new == RevisedDisputes
<1>1. /\ IsPartialFunction(ds, Txs, Dispute) /\ DOMAIN ds = DOMAIN disputes
      /\ \A t \in DOMAIN disputes, n \in Peers :
           ds[t].votes[n] = IF n \in StalePeers THEN "none"
                            ELSE disputes[t].votes[n]
  BY UnVotesFacts
<1>2. pt \in Nat /\ p \in BOOLEAN
  BY ConvergePercentType DEF Proposing
<1>3. \A t : y(t) \in Nat /\ m(t) \in Nat
  BY YaysNaysType
<1>4. /\ DOMAIN new = DOMAIN ds
      /\ new = [t \in DOMAIN ds |-> new[t]]
      /\ \A t \in DOMAIN ds : new[t] = UpdatedVote(ds[t], y(t), m(t), pt, p)
  BY DEF RevisedDisputes
<1> HIDE DEF ds, pt, p, y, m, new
<1>5. \A t \in DOMAIN ds : new[t] \in Dispute /\ new[t].votes = ds[t].votes
  <2> SUFFICES ASSUME NEW t \in DOMAIN ds
               PROVE  new[t] \in Dispute /\ new[t].votes = ds[t].votes
    OBVIOUS
  <2>1. ds[t] \in Dispute
    BY <1>1 DEF IsPartialFunction
  <2>2. new[t] = UpdatedVote(ds[t], y(t), m(t), pt, p)
    BY <1>4
  <2>3. y(t) \in Nat /\ m(t) \in Nat
    BY <1>3
  <2>4. ASSUME NEW yays \in Nat, NEW nays \in Nat, NEW proposing \in BOOLEAN
        PROVE  /\ UpdatedVote(ds[t], yays, nays, pt, proposing) \in Dispute
               /\ UpdatedVote(ds[t], yays, nays, pt, proposing).votes = ds[t].votes
    BY <1>2, <2>1, UpdatedVoteType
  <2>5. p \in BOOLEAN
    BY <1>2
  <2>6. /\ UpdatedVote(ds[t], y(t), m(t), pt, p) \in Dispute
        /\ UpdatedVote(ds[t], y(t), m(t), pt, p).votes = ds[t].votes
    BY <2>3, <2>4, <2>5
  <2> QED
    BY <2>2, <2>6, Zenon
<1>6. IsPartialFunction(new, Txs, Dispute)
  BY <1>1, <1>4, <1>5 DEF IsPartialFunction
<1> QED
  BY <1>1, <1>4, <1>5, <1>6 DEF new

\* The close time the round settles on is a time.
LEMMA ConsensusCloseTimeType ==
  ASSUME NEW fresh, IsPartialFunction(fresh, Peers, PeerPosition),
         previousLedger \in Ledgers, position.ct \in Nat
  PROVE  ConsensusCloseTime(fresh) \in Nat
<1>1. \A n \in DOMAIN fresh : fresh[n].ct \in Nat
  BY ConsensusAssumption
  DEF ConsensusAssumption, IsPartialFunction, PeerPosition
<1>2. \A n \in DOMAIN fresh : AsCloseTime(fresh[n].ct) \in Nat
  BY <1>1, AsCloseTimeType
<1>3. AsCloseTime(position.ct) \in Nat
  BY AsCloseTimeType
<1>4. VotedCloseTimes(fresh) \subseteq Nat
  BY <1>2, <1>3 DEF VotedCloseTimes
<1>5. Leading(fresh) \subseteq Nat
  BY <1>4 DEF Leading
<1> QED
  BY <1>3, <1>5 DEF ConsensusCloseTime

\* changePosition keeps our position well formed.
LEMMA ChangedPositionType ==
  ASSUME position \in OwnPosition,
         position.seq < MaxOwnSeq \/ position.seq = SeqLeave,
         NEW set \in TxSets, NEW ct \in Nat
  PROVE  ChangedPosition(set, ct) \in OwnPosition
  BY SeqLeaveFacts DEF ChangedPosition, OwnPosition

\* Our revised set is a set of transactions.
LEMMA RevisedTxnsType ==
  ASSUME NEW revised, IsPartialFunction(disputes, Txs, Dispute),
         txns \in TxSets
  PROVE  RevisedTxns(revised) \in TxSets
  BY DEF RevisedTxns, ChangedVotes, IsPartialFunction, TxSets

-----------------------------------------------------------------------------
(* Type correctness. *)

\* The types of what a peer's proposal can change.
PeerTypes ==
  /\ IsPartialFunction(currPeerPositions, Peers, PeerPosition)
  /\ deadNodes \subseteq Peers
  /\ acquired \subseteq TxSets /\ requested \subseteq TxSets
  /\ IsPartialFunction(disputes, Txs, Dispute)
  /\ compares \subseteq TxSets
  /\ peerUnchangedCounter \in Nat

\* gotTxSet and updateDisputes keep the types.
LEMMA TxSetTypes ==
  ASSUME TypeOK, NEW curr, NEW set \in TxSets, NEW n
  PROVE  /\ NewTxSet(set, curr) =>
              /\ acquired' \subseteq TxSets
              /\ IsPartialFunction(disputes', Txs, Dispute)
              /\ compares' \subseteq TxSets
              /\ peerUnchangedCounter' \in Nat
         /\ KnownTxSet(n, set, curr) =>
              /\ IsPartialFunction(disputes', Txs, Dispute)
              /\ compares' \subseteq TxSets
              /\ peerUnchangedCounter' \in Nat
<1>1. /\ IsPartialFunction(disputes, Txs, Dispute) /\ txns \in TxSets
      /\ acquired \subseteq TxSets /\ compares \subseteq TxSets
      /\ peerUnchangedCounter \in Nat
  BY DEF TypeOK
<1>2. \A nodes, sets :
        IsPartialFunction(UpdateDisputes(disputes, compares, nodes, set, txns,
                                         curr, sets), Txs, Dispute)
  BY <1>1, UpdateDisputesType
<1>3. NewTxSet(set, curr) =>
        /\ acquired' \subseteq TxSets
        /\ IsPartialFunction(disputes', Txs, Dispute)
        /\ compares' \subseteq TxSets
        /\ peerUnchangedCounter' \in Nat
  BY <1>1, <1>2 DEF NewTxSet, disputeVars
<1>4. KnownTxSet(n, set, curr) =>
        /\ IsPartialFunction(disputes', Txs, Dispute)
        /\ compares' \subseteq TxSets
        /\ peerUnchangedCounter' \in Nat
  BY <1>1, <1>2 DEF KnownTxSet, disputeVars
<1> QED
  BY <1>3, <1>4

\* peerProposalInternal keeps the types.
LEMMA PeerProposalTypes ==
  ASSUME TypeOK, NEW n \in Peers, NEW p \in PeerPosition,
         PeerProposalInternal(n, p)
  PROVE  PeerTypes'
<1>1. PeerTypes /\ p.set \in TxSets
  BY DEF TypeOK, PeerTypes, PeerPosition
<1>2. CASE Ignored(n, p) /\ UNCHANGED <<peerVars, disputeVars>>
  BY <1>1, <1>2 DEF PeerTypes, peerVars, disputeVars
<1>3. CASE PeerBowsOut(n)
  <2>1. IsPartialFunction(UnVotes(disputes, {n}), Txs, Dispute)
    BY <1>1, UnVotesFacts DEF PeerTypes
  <2>2. IsPartialFunction(Without(currPeerPositions, {n}), Peers, PeerPosition)
    BY Zenon, <1>1, WithoutFacts DEF PeerTypes
  <2> QED
    BY <1>1, <1>3, <2>1, <2>2 DEF PeerBowsOut, PeerTypes
<1>4. CASE ~Ignored(n, p) /\ p.seq # SeqLeave
  <2> DEFINE curr == With(currPeerPositions, n, p)
  <2>1. IsPartialFunction(curr, Peers, PeerPosition)
    BY Zenon, <1>1, WithFacts DEF PeerTypes
  <2>2. currPeerPositions' = curr /\ deadNodes' = deadNodes
    BY <1>4 DEF PeerProposalInternal
  <2>3. \/ KnownTxSet(n, p.set, curr) /\ UNCHANGED <<acquired, requested>>
        \/ NewTxSet(p.set, curr) /\ UNCHANGED requested
        \/ /\ requested' = requested \cup {p.set}
           /\ UNCHANGED <<acquired, disputeVars>>
    BY <1>4 DEF PeerProposalInternal
  <2> HIDE DEF curr
  <2>4. CASE KnownTxSet(n, p.set, curr) /\ UNCHANGED <<acquired, requested>>
    BY Zenon, <1>1, <2>1, <2>2, <2>4, TxSetTypes DEF PeerTypes
  <2>5. CASE NewTxSet(p.set, curr) /\ UNCHANGED requested
    BY <1>1, <2>1, <2>2, <2>5, TxSetTypes DEF PeerTypes
  <2>6. CASE /\ requested' = requested \cup {p.set}
             /\ UNCHANGED <<acquired, disputeVars>>
    BY <1>1, <2>1, <2>2, <2>6 DEF PeerTypes, disputeVars
  <2> QED
    BY <2>3, <2>4, <2>5, <2>6
<1> QED
  BY <1>2, <1>3, <1>4 DEF PeerProposalInternal

\* The types of everything else.
OtherTypes ==
  /\ phase \in {"open", "establish", "accepted"}
  /\ mode \in Modes
  /\ prevLedgerID \in Ledgers /\ previousLedger \in Ledgers
  /\ recentPeerPositions \in [Peers -> Seq(PeerPosition)]
  /\ playback \in [Peers -> Seq(PeerPosition)]
  /\ haveResult \in BOOLEAN
  /\ txns \in TxSets
  /\ position \in OwnPosition
  /\ state \in ConsensusStates
  /\ roundTime \in Nat /\ openTime \in Nat
  /\ haveCloseTimeConsensus \in BOOLEAN
  /\ closeTimeAvalancheState \in AvalancheStates
  /\ establishCounter \in Nat
  /\ prevProposers \in Nat /\ prevRoundTime \in Nat
  /\ stack \in Seq(Labels)
  /\ proposals \in Seq(Message)
  /\ delivered \in Nat /\ rounds \in Nat

\* The two parts make up TypeOK.
LEMMA TypeParts == TypeOK <=> PeerTypes /\ OtherTypes
  BY Zenon DEF TypeOK, PeerTypes, OtherTypes

\* So they do after a step.
LEMMA TypePartsNext == TypeOK' <=> PeerTypes' /\ OtherTypes'
  BY Zenon DEF TypeOK, PeerTypes, OtherTypes

\* A message may be appended to the messages sent.
LEMMA AppendType ==
  ASSUME NEW S, NEW s \in Seq(S), NEW e \in S
  PROVE  Append(s, e) \in Seq(S)
  OBVIOUS

\* The empty sequence is a sequence of anything.
LEMMA EmptySeqType == ASSUME NEW T PROVE <<>> \in Seq(T)
  OBVIOUS

\* A sequence of one element.
LEMMA SingletonSeqType == ASSUME NEW T, NEW x \in T PROVE <<x>> \in Seq(T)
  OBVIOUS

\* Popping the stack keeps its type.
LEMMA TailType ==
  ASSUME NEW T, NEW s \in Seq(T), s # <<>>
  PROVE  Tail(s) \in Seq(T) /\ Head(s) \in T
  OBVIOUS

\* PeerProposal keeps the types.
LEMMA DeliverTypes ==
  ASSUME TypeOK, NEW n \in Peers, NEW p \in PeerPosition, PeerProposal(n, p)
  PROVE  TypeOK'
<1>1. PeerTypes'
  BY PeerProposalTypes DEF PeerProposal
<1>2. recentPeerPositions[n] \in Seq(PeerPosition)
  BY DEF TypeOK
<1>3. Remember(recentPeerPositions[n], p) \in Seq(PeerPosition)
  BY <1>2, RememberType
<1>4. recentPeerPositions' \in [Peers -> Seq(PeerPosition)]
  <2>1. recentPeerPositions' =
          [recentPeerPositions EXCEPT ![n] = Remember(recentPeerPositions[n], p)]
    BY Zenon DEF PeerProposal
  <2>2. recentPeerPositions \in [Peers -> Seq(PeerPosition)]
    BY Zenon DEF TypeOK
  <2> QED
    BY <1>3, <2>1, <2>2, Zenon
<1>5. OtherTypes'
  <2>1. delivered' \in Nat
    BY DEF TypeOK, PeerProposal
  <2> QED
    BY <1>4, <2>1, Zenon DEF TypeOK, PeerProposal, OtherTypes, ledgerVars, stanceVars,
       closeTimeVars, clockVars, prevVars, callVars
<1> QED
  BY <1>1, <1>5, TypePartsNext

\* GotTxSet keeps the types.
LEMMA GotTxSetTypes ==
  ASSUME TypeOK, NEW set \in TxSets, GotTxSet(set)
  PROVE  TypeOK'
<1>1. /\ acquired' \subseteq TxSets
      /\ IsPartialFunction(disputes', Txs, Dispute)
      /\ compares' \subseteq TxSets
      /\ peerUnchangedCounter' \in Nat
  <2>1. CASE UNCHANGED <<acquired, disputeVars>>
    BY <2>1 DEF TypeOK, disputeVars
  <2>2. CASE NewTxSet(set, currPeerPositions)
    <3> DEFINE curr == currPeerPositions
    <3>1. NewTxSet(set, curr)
      BY <2>2
    <3> HIDE DEF curr
    <3> QED
      BY <3>1, TxSetTypes
  <2> QED
    BY <2>1, <2>2 DEF GotTxSet
<1>2. PeerTypes'
  BY <1>1 DEF TypeOK, PeerTypes, GotTxSet
<1>3. OtherTypes'
  BY DEF TypeOK, GotTxSet, OtherTypes, ledgerVars, stanceVars, closeTimeVars,
     clockVars, prevVars, inputVars, callVars
<1> QED
  BY <1>2, <1>3, TypePartsNext

\* startRoundInternal keeps the types (but for those of inputVars, which its
\* callers set).
LEMMA StartRoundInternalTypes ==
  ASSUME TypeOK, NEW id \in Ledgers, NEW ledger \in Ledgers,
         NEW newMode \in Modes,
         NEW recent \in [Peers -> Seq(PeerPosition)],
         NEW rest \in Seq(Labels),
         StartRoundInternal(id, ledger, newMode, recent, rest),
         recentPeerPositions' \in [Peers -> Seq(PeerPosition)],
         delivered' \in Nat, rounds' \in Nat
  PROVE  TypeOK'
<1>1. PeerTypes'
  BY NothingType DEF TypeOK, PeerTypes, StartRoundInternal
<1>2. stack' \in Seq(Labels)
  <2>1. <<"playback", "behind">> \in Seq(Labels)
    BY DEF Labels
  <2> QED
    BY <2>1 DEF StartRoundInternal
<1>3. position' \in OwnPosition
  <2>1. position' = NoPosition
    BY Zenon DEF StartRoundInternal
  <2> QED
    BY <2>1, NoPositionType, Zenon
<1>4. /\ proposals' \in Seq(Message)
      /\ state' \in ConsensusStates /\ txns' \in TxSets
      /\ haveCloseTimeConsensus' \in BOOLEAN /\ haveResult' \in BOOLEAN
      /\ closeTimeAvalancheState' \in AvalancheStates
  <2>1. proposals' = <<>>
    BY DEF StartRoundInternal
  <2>2. proposals' \in Seq(Message)
    BY <2>1, EmptySeqType
  <2>3. state' \in ConsensusStates
    BY DEF StartRoundInternal, ConsensusStates
  <2>4. txns' \in TxSets
    BY DEF StartRoundInternal, TxSets
  <2>5. haveCloseTimeConsensus' \in BOOLEAN /\ haveResult' \in BOOLEAN
    BY Zenon DEF StartRoundInternal
  <2>6. closeTimeAvalancheState' \in AvalancheStates
    BY DEF StartRoundInternal, AvalancheStates
  <2> QED
    BY <2>2, <2>3, <2>4, <2>5, <2>6
<1>5. OtherTypes'
  BY <1>2, <1>3, <1>4 DEF TypeOK, OtherTypes, StartRoundInternal, prevVars
<1> QED
  BY <1>1, <1>5, TypePartsNext

\* StartRound keeps the types.
LEMMA StartRoundTypes ==
  ASSUME TypeOK, NEW id \in Ledgers, NEW ledger \in Ledgers, NEW untrusted,
         NEW proposing, StartRound(id, ledger, untrusted, proposing)
  PROVE  TypeOK'
<1> DEFINE startMode == IF proposing THEN "proposing" ELSE "observing"
           recent == recentPeerPositions'
<1>1. recent \in [Peers -> Seq(PeerPosition)]
  <2>1. recentPeerPositions \in [Peers -> Seq(PeerPosition)]
    BY Zenon DEF TypeOK
  <2>2. recent = [n \in Peers |-> IF n \in untrusted THEN <<>> ELSE recentPeerPositions[n]]
    BY Zenon DEF StartRound
  <2>3. <<>> \in Seq(PeerPosition)
    BY EmptySeqType
  <2> QED
    BY <2>1, <2>2, <2>3, Zenon
<1>2. delivered' \in Nat /\ rounds' \in Nat
  <2>1. delivered \in Nat /\ rounds \in Nat
    BY Zenon DEF TypeOK
  <2>2. delivered' = delivered /\ rounds' = rounds + 1
    BY Zenon DEF StartRound
  <2> QED
    BY <2>1, <2>2
<1>3. startMode \in Modes /\ "wrongLedger" \in Modes
  BY DEF Modes
<1>4. <<>> \in Seq(Labels)
  OBVIOUS
<1>5. \/ StartRoundInternal(id, ledger, startMode, recent, <<>>)
      \/ StartRoundInternal(id, id, startMode, recent, <<>>)
      \/ StartRoundInternal(id, ledger, "wrongLedger", recent, <<>>)
  BY DEF StartRound
<1> HIDE DEF startMode
<1> QED
  BY Zenon, <1>1, <1>2, <1>3, <1>4, <1>5, StartRoundInternalTypes

\* SwitchLedger keeps the types.
LEMMA SwitchLedgerTypes ==
  ASSUME TypeOK, SwitchLedger
  PROVE  TypeOK'
<1>1. Tail(stack) \in Seq(Labels)
  BY TailType DEF TypeOK, SwitchLedger
<1>2. "switchedLedger" \in Modes
  BY DEF Modes
<1>3. /\ recentPeerPositions \in [Peers -> Seq(PeerPosition)]
      /\ recentPeerPositions' \in [Peers -> Seq(PeerPosition)]
      /\ delivered' \in Nat /\ rounds' \in Nat /\ prevLedgerID \in Ledgers
  BY DEF TypeOK, SwitchLedger, inputVars
<1>4. StartRoundInternal(prevLedgerID, prevLedgerID, "switchedLedger",
                         recentPeerPositions, Tail(stack))
  BY DEF SwitchLedger
<1> QED
  BY Zenon, <1>1, <1>2, <1>3, <1>4, StartRoundInternalTypes

\* Steps that only pop, or replace, the top of the stack keep the types.
LEMMA StackTypes ==
  ASSUME TypeOK, stack' \in Seq(Labels), mode' \in Modes,
         UNCHANGED <<phase, ledgerVars, peerVars, disputeVars, stanceVars,
                     closeTimeVars, clockVars, prevVars, establishCounter,
                     inputVars, playback>>
  PROVE  TypeOK'
<1>1. PeerTypes'
  BY DEF TypeOK, PeerTypes, peerVars, disputeVars
<1>2. OtherTypes'
  BY DEF TypeOK, OtherTypes, ledgerVars, stanceVars, closeTimeVars, clockVars,
     prevVars, inputVars
<1> QED
  BY <1>1, <1>2, TypePartsNext

\* Replay keeps the types.
LEMMA ReplayTypes ==
  ASSUME TypeOK, NEW n \in Peers, Replay(n)
  PROVE  TypeOK'
<1> DEFINE p == Head(playback[n])
<1>1. playback[n] \in Seq(PeerPosition) /\ playback[n] # <<>>
  BY DEF TypeOK, Replay, NextReplayed
<1>2. p \in PeerPosition /\ Tail(playback[n]) \in Seq(PeerPosition)
  BY <1>1, TailType
<1>3. \/ PeerProposalInternal(n, p)
      \/ UNCHANGED <<peerVars, disputeVars>>
  BY DEF Replay
<1> HIDE DEF p
<1>4. PeerProposalInternal(n, p) => PeerTypes'
  BY <1>2, PeerProposalTypes
<1>5. UNCHANGED <<peerVars, disputeVars>> => PeerTypes'
  BY DEF TypeOK, PeerTypes, peerVars, disputeVars
<1>6. playback' \in [Peers -> Seq(PeerPosition)]
  BY <1>2 DEF TypeOK, Replay
<1>7. OtherTypes'
  BY <1>6 DEF TypeOK, OtherTypes, Replay, ledgerVars, stanceVars,
     closeTimeVars, clockVars, prevVars, inputVars
<1> QED
  BY <1>3, <1>4, <1>5, <1>7, TypePartsNext

\* What we broadcast is well formed, and so is a bow-out.
LEMMA SentType ==
  ASSUME NEW pos \in OwnPosition
  PROVE  /\ Sent(pos) \in Message
         /\ BowOut(pos) \in OwnPosition
         /\ BowOut(pos).set = pos.set /\ BowOut(pos).seq = SeqLeave
<1>1. SeqLeave \in 0..SeqLeave
  BY SeqLeaveFacts
<1>2. Sent(pos) \in Message
  BY DEF Sent, Message, OwnPosition
<1> QED
  BY <1>1, <1>2 DEF BowOut, OwnPosition

\* leaveConsensus keeps the types.
LEMMA LeaveConsensusTypes ==
  ASSUME TypeOK, LeaveConsensus
  PROVE  /\ mode' \in Modes
         /\ position' \in OwnPosition
         /\ proposals' \in Seq(Message)
<1>1. mode' \in Modes
  BY DEF TypeOK, LeaveConsensus, Modes
<1>2. CASE BowsOut(mode, position)
  <2>1. /\ position' = BowOut(position)
        /\ proposals' = Append(proposals, Sent(position'))
    BY <1>2 DEF LeaveConsensus
  <2>2. position' \in OwnPosition
    BY <2>1, SentType DEF TypeOK
  <2>3. Sent(position') \in Message
    BY <2>2, SentType
  <2>4. proposals' \in Seq(Message)
    <3>1. proposals \in Seq(Message)
      BY Zenon DEF TypeOK
    <3> QED
      BY <2>1, <2>3, <3>1
  <2> QED
    BY <1>1, <2>2, <2>4
<1>3. CASE ~BowsOut(mode, position)
  BY <1>1, <1>3 DEF LeaveConsensus, TypeOK
<1> QED
  BY <1>2, <1>3

\* CheckLedger keeps the types.
LEMMA CheckLedgerTypes ==
  ASSUME TypeOK, NEW net \in Ledgers, CheckLedger(net)
  PROVE  TypeOK'
<1>1. Tail(stack) \in Seq(Labels)
  BY TailType DEF TypeOK, CheckLedger
<1>2. <<"playback", "switch">> \in Seq(Labels) /\ <<"switch">> \in Seq(Labels)
  BY DEF Labels
<1>3. stack' \in Seq(Labels)
  <2>1. /\ <<"playback", "switch">> \o Tail(stack) \in Seq(Labels)
        /\ <<"switch">> \o Tail(stack) \in Seq(Labels)
    BY <1>1, <1>2
  <2>2. \/ stack' = <<"playback", "switch">> \o Tail(stack)
        \/ stack' = <<"switch">> \o Tail(stack)
        \/ stack' = Tail(stack)
    BY DEF CheckLedger, HandleWrongLedger
  <2> QED
    BY Zenon, <1>1, <2>1, <2>2
<1>4. /\ mode' \in Modes
      /\ position' \in OwnPosition
      /\ proposals' \in Seq(Message)
  <2>1. CASE HandleWrongLedger(net)
    BY <2>1, LeaveConsensusTypes DEF HandleWrongLedger
  <2>2. CASE UNCHANGED <<mode, position, proposals>>
    BY <2>2 DEF TypeOK
  <2> QED
    BY <2>1, <2>2 DEF CheckLedger
<1>5. PeerTypes'
  BY NothingType DEF TypeOK, PeerTypes, CheckLedger, HandleWrongLedger
<1>6. prevLedgerID' \in Ledgers
  BY DEF TypeOK, CheckLedger, HandleWrongLedger
<1>7. playback' \in [Peers -> Seq(PeerPosition)]
  BY DEF TypeOK, CheckLedger, HandleWrongLedger
<1>8. OtherTypes'
  BY <1>3, <1>4, <1>6, <1>7 DEF TypeOK, OtherTypes, CheckLedger,
     closeTimeVars, clockVars, prevVars, inputVars
<1> QED
  BY <1>5, <1>8, TypePartsNext

\* TimerEntry keeps the types.
LEMMA TimerEntryTypes ==
  ASSUME TypeOK, TimerEntry
  PROVE  TypeOK'
<1>1. /\ Granularity \in Nat /\ MaxRoundTime \in Nat /\ ProposeInterval \in Nat
  BY ConsensusAssumption DEF ConsensusAssumption
<1>2. IsPartialFunction(currPeerPositions', Peers, PeerPosition)
  BY OlderFacts DEF TypeOK, TimerEntry, Live, IsPartialFunction
<1>3. recentPeerPositions' \in [Peers -> Seq(PeerPosition)]
  <2> SUFFICES ASSUME NEW n \in Peers
               PROVE  [i \in DOMAIN recentPeerPositions[n] |->
                         Older(recentPeerPositions[n][i])] \in Seq(PeerPosition)
    BY DEF TimerEntry
  <2> DEFINE q == recentPeerPositions[n]
  <2>1. q \in Seq(PeerPosition)
    BY DEF TypeOK
  <2>2. DOMAIN q = 1..Len(q) /\ Len(q) \in Nat
        /\ \A i \in 1..Len(q) : q[i] \in PeerPosition
    BY <2>1
  <2> HIDE DEF q
  <2>3. \A i \in 1..Len(q) : Older(q[i]) \in PeerPosition
    BY <2>2, OlderFacts
  <2>4. [i \in 1..Len(q) |-> Older(q[i])] \in Seq(PeerPosition)
    BY <2>2, <2>3
  <2> QED
    BY <2>2, <2>4 DEF q
<1>4. roundTime' \in Nat /\ openTime' \in Nat
  <2>1. roundTime + Granularity \in Nat /\ openTime + Granularity \in Nat
    <3>1. roundTime \in Nat /\ openTime \in Nat
      BY Zenon DEF TypeOK
    <3> QED
      BY <1>1, <3>1
  <2>2. Smaller(openTime + Granularity, MaxRoundTime) \in Nat
    BY Zenon, <1>1, <2>1, SmallerType
  <2> QED
    BY <2>1, <2>2 DEF TypeOK, TimerEntry
<1>5. position' \in OwnPosition
  <2>1. position.age + Granularity \in Nat
    <3>1. position.age \in Nat
      BY Zenon DEF TypeOK, OwnPosition
    <3> QED
      BY <1>1, <3>1
  <2>2. Smaller(position.age + Granularity, ProposeInterval) \in Nat
    BY ZenonT(60), <1>1, <2>1, SmallerType
  <2> QED
    BY Zenon, <2>2 DEF TypeOK, TimerEntry, OwnPosition
<1>6. stack' \in Seq(Labels)
  BY DEF TimerEntry, Labels
<1>7. PeerTypes'
  BY <1>2, Zenon DEF TypeOK, PeerTypes, TimerEntry, disputeVars
<1>8. OtherTypes'
  BY <1>3, <1>4, <1>5, <1>6, Zenon DEF TypeOK, OtherTypes, TimerEntry, ledgerVars,
     closeTimeVars, prevVars
<1> QED
  BY <1>7, <1>8, TypePartsNext

\* The steps that end a nested call keep the types.
LEMMA ReturnTypes ==
  ASSUME TypeOK,
         \/ ReplayDone \/ MaybeBehind \/ KeepLedger \/ StillWrongLedger
         \/ PhaseOpenWaits
  PROVE  TypeOK'
<1>1. stack # <<>>
  BY Zenon DEF ReplayDone, MaybeBehind, KeepLedger, StillWrongLedger, PhaseOpenWaits,
     AtPhase
<1>2. Tail(stack) \in Seq(Labels)
  BY <1>1, TailType DEF TypeOK
<1>3. /\ <<"ledger", "phase">> \o Tail(stack) \in Seq(Labels)
      /\ <<>> \o Tail(stack) \in Seq(Labels)
  <2>1. <<"ledger", "phase">> \in Seq(Labels) /\ <<>> \in Seq(Labels)
    BY DEF Labels
  <2> QED
    BY <1>2, <2>1
<1>4. stack' \in Seq(Labels)
  BY Zenon, <1>2, <1>3 DEF ReplayDone, MaybeBehind, KeepLedger, StillWrongLedger,
     PhaseOpenWaits
<1>5. mode' \in Modes
  BY Zenon DEF ReplayDone, MaybeBehind, KeepLedger, StillWrongLedger,
     PhaseOpenWaits, TypeOK, Modes
<1>6. UNCHANGED <<phase, ledgerVars, peerVars, disputeVars, stanceVars,
                  closeTimeVars, clockVars, prevVars, establishCounter,
                  inputVars, playback>>
  BY ZenonT(60) DEF ReplayDone, MaybeBehind, KeepLedger, StillWrongLedger, PhaseOpenWaits
<1> QED
  BY <1>4, <1>5, <1>6, StackTypes

\* PhaseOpenCloses keeps the types.
LEMMA PhaseOpenClosesTypes ==
  ASSUME TypeOK, NEW set \in TxSets, NEW ct \in CloseTimes,
         PhaseOpenCloses(set, ct)
  PROVE  TypeOK'
<1> DEFINE sets == acquired \cup {set}
           others == {currPeerPositions[n].set : n \in Live} \cap sets
           mid == CreateDisputes(Nothing, others, set, currPeerPositions, sets)
<1>1. Tail(stack) \in Seq(Labels)
  BY TailType DEF TypeOK, PhaseOpenCloses, AtPhase
<1>2. ct \in Nat
  BY ConsensusAssumption DEF ConsensusAssumption
<1>3. position' \in OwnPosition
  <2>1. position' = [seq |-> 0, set |-> set, ct |-> ct, age |-> 0]
    BY DEF PhaseOpenCloses, CloseLedger
  <2>2. 0 \in 0..SeqLeave
    BY SeqLeaveFacts
  <2> QED
    BY <1>2, <2>1, <2>2 DEF OwnPosition
<1>4. proposals' \in Seq(Message)
  <2>1. Sent(position') \in Message
    BY <1>3, SentType
  <2>2. proposals' = <<Sent(position')>> \/ proposals' = <<>>
    BY DEF PhaseOpenCloses, CloseLedger
  <2> QED
    BY ZenonT(60), <2>1, <2>2, EmptySeqType, SingletonSeqType
<1>5. sets \subseteq TxSets /\ others \in SUBSET TxSets
  BY DEF TypeOK
<1>6. /\ acquired' = sets /\ compares' = others /\ disputes' = mid
      /\ peerUnchangedCounter' = 0
      /\ UNCHANGED <<currPeerPositions, deadNodes, requested>>
  BY ZenonT(60) DEF PhaseOpenCloses, CloseLedger
<1>7. IsPartialFunction(mid, Txs, Dispute)
  <2> DEFINE none == Nothing
  <2>1. IsPartialFunction(none, Txs, Dispute)
    BY NothingType
  <2> HIDE DEF others, sets, none
  <2>2. Created(CreateDisputes(none, others, set, currPeerPositions, sets),
                none, others, set, currPeerPositions, sets)
    BY <1>5, <2>1, CreateDisputesFacts
  <2> QED
    BY Zenon, <2>2 DEF Created, none
<1>8. PeerTypes'
  <2> HIDE DEF sets, others, mid
  <2> QED
    BY <1>5, <1>6, <1>7 DEF TypeOK, PeerTypes
<1>9. OtherTypes'
  <2>1. /\ phase' = "establish" /\ state' = "No" /\ state' \in ConsensusStates
        /\ txns' = set /\ haveResult' = TRUE
        /\ roundTime' = 0 /\ openTime' = 0
        /\ establishCounter' = 0 /\ stack' = Tail(stack)
    BY ZenonT(60) DEF PhaseOpenCloses, CloseLedger, ConsensusStates
  <2>2. UNCHANGED <<mode, ledgerVars, closeTimeVars, prevVars, inputVars,
                    playback>>
    BY DEF PhaseOpenCloses
  <2> QED
    BY <1>1, <1>3, <1>4, <2>1, <2>2 DEF TypeOK, OtherTypes, ledgerVars,
       closeTimeVars, prevVars, inputVars
<1> QED
  BY <1>8, <1>9, TypePartsNext

\* PhaseEstablishEarly keeps the types.
LEMMA PhaseEstablishEarlyTypes ==
  ASSUME TypeOK, PhaseEstablishEarly
  PROVE  TypeOK'
<1>1. Tail(stack) \in Seq(Labels)
  BY TailType DEF TypeOK, PhaseEstablishEarly, AtPhase
<1>2. peerUnchangedCounter' \in Nat /\ establishCounter' \in Nat
  BY CountType DEF TypeOK, PhaseEstablishEarly
<1>3. PeerTypes'
  BY <1>2, Zenon DEF TypeOK, PeerTypes, PhaseEstablishEarly, peerVars
<1>4. OtherTypes'
  BY <1>1, <1>2, Zenon DEF TypeOK, OtherTypes, PhaseEstablishEarly, ledgerVars,
     stanceVars, closeTimeVars, clockVars, prevVars, inputVars
<1> QED
  BY <1>3, <1>4, TypePartsNext

\* What phaseEstablish computes: the close time, whether our position
\* changes, our position, and what we have broadcast then.
EstCt == ConsensusCloseTime(FreshPositions)
EstChanges == PositionChanges(RevisedDisputes, EstCt)
EstPos == IF EstChanges THEN ChangedPosition(RevisedTxns(RevisedDisputes), EstCt)
          ELSE position
EstSent == IF EstChanges THEN Proposed(EstPos) ELSE proposals
EstUnchanged == Count(peerUnchangedCounter, StalledRounds)

\* The parts of PhaseEstablish.
LEMMA EstablishParts ==
  ASSUME PhaseEstablish
  PROVE  /\ AtPhase("establish")
         /\ position.seq < MaxOwnSeq \/ position.seq = SeqLeave
         /\ establishCounter' = Count(establishCounter, EstablishMinimum)
         /\ stack' = Tail(stack)
         /\ UNCHANGED <<ledgerVars, deadNodes, requested, haveResult,
                        clockVars, inputVars, playback>>
         /\ UpdateOurPositions(FreshPositions, RevisedDisputes, EstCt,
                               EstUnchanged)
         /\ \/ Pause(EstPos, EstSent) \/ GoOn(EstPos, EstSent)
            \/ Finish(EstPos, EstSent)
  BY Zenon DEF PhaseEstablish, EstCt, EstChanges, EstPos, EstSent, EstUnchanged

\* Our position and what we broadcast stay well formed.
LEMMA EstTypes ==
  ASSUME TypeOK, position.seq < MaxOwnSeq \/ position.seq = SeqLeave
  PROVE  /\ EstCt \in Nat
         /\ RevisedTxns(RevisedDisputes) \in TxSets
         /\ EstPos \in OwnPosition
         /\ EstSent \in Seq(Message)
<1>1. EstCt \in Nat
  BY FreshFacts, ConsensusCloseTimeType DEF TypeOK, EstCt, OwnPosition
<1>2. RevisedTxns(RevisedDisputes) \in TxSets
  BY RevisedTxnsType DEF TypeOK
<1>3. EstPos \in OwnPosition
  BY <1>1, <1>2, ChangedPositionType DEF TypeOK, EstPos
<1>4. Append(proposals, Sent(EstPos)) \in Seq(Message)
  <2>1. Sent(EstPos) \in Message
    BY <1>3, SentType
  <2> QED
    BY <2>1, AppendType DEF TypeOK
<1>5. EstSent \in Seq(Message)
  BY <1>4 DEF TypeOK, EstSent, Proposed
<1> QED
  BY <1>1, <1>2, <1>3, <1>5

\* updateOurPositions keeps the types.
LEMMA UpdateOurPositionsTypes ==
  ASSUME TypeOK,
         UpdateOurPositions(FreshPositions, RevisedDisputes, EstCt,
                            EstUnchanged),
         UNCHANGED <<deadNodes, requested>>
  PROVE  /\ PeerTypes'
         /\ txns' \in TxSets
         /\ haveCloseTimeConsensus' \in BOOLEAN
         /\ closeTimeAvalancheState' \in AvalancheStates
<1> DEFINE set   == RevisedTxns(RevisedDisputes)
           sets  == IF EstChanges THEN acquired \cup {set} ELSE acquired
           nodes == IF sets = acquired THEN {} ELSE Holders(FreshPositions, set)
           new   == UpdateDisputes(RevisedDisputes, compares, nodes, set, set,
                                   FreshPositions, sets)
<1>1. /\ currPeerPositions' = FreshPositions
      /\ closeTimeAvalancheState' = RevisedCloseTimeState
      /\ haveCloseTimeConsensus' = CloseTimeAgreed(FreshPositions)
      /\ txns' = set /\ acquired' = sets /\ disputes' = new
      /\ compares' = compares \cup (IF nodes = {} THEN {} ELSE {set})
      /\ peerUnchangedCounter' =
           IF VotesChanged(RevisedDisputes, new) THEN 0 ELSE EstUnchanged
  BY ZenonT(60) DEF UpdateOurPositions, EstChanges
<1>2. set \in TxSets
  BY RevisedTxnsType DEF TypeOK
<1>3. sets \subseteq TxSets
  <2> HIDE DEF set
  <2> QED
    BY <1>2 DEF TypeOK
<1>4. IsPartialFunction(RevisedDisputes, Txs, Dispute)
  BY ZenonT(60), RevisedFacts DEF TypeOK
<1>5. IsPartialFunction(FreshPositions, Peers, PeerPosition)
  BY FreshFacts DEF TypeOK
<1> HIDE DEF set, sets, nodes
<1>6. IsPartialFunction(new, Txs, Dispute)
  BY <1>2, <1>4, UpdateDisputesType
<1> HIDE DEF new
<1>7. EstUnchanged \in Nat
  BY CountType DEF TypeOK, EstUnchanged
<1>8. PeerTypes'
  BY <1>1, <1>2, <1>3, <1>5, <1>6, <1>7 DEF TypeOK, PeerTypes
<1>9. closeTimeAvalancheState' \in AvalancheStates
  BY <1>1, AdvanceType DEF TypeOK, RevisedCloseTimeState
<1>10. haveCloseTimeConsensus' \in BOOLEAN
  BY <1>1 DEF CloseTimeAgreed
<1> QED
  BY <1>1, <1>2, <1>8, <1>9, <1>10

\* PhaseEstablish keeps the types.
LEMMA PhaseEstablishTypes ==
  ASSUME TypeOK, PhaseEstablish
  PROVE  TypeOK'
<1>1. Tail(stack) \in Seq(Labels)
  BY EstablishParts, TailType DEF TypeOK, AtPhase
<1>2. establishCounter' \in Nat
  BY EstablishParts, CountType DEF TypeOK
<1>3. /\ PeerTypes' /\ txns' \in TxSets
      /\ haveCloseTimeConsensus' \in BOOLEAN
      /\ closeTimeAvalancheState' \in AvalancheStates
  BY EstablishParts, UpdateOurPositionsTypes
<1>4. EstPos \in OwnPosition /\ EstSent \in Seq(Message)
  BY EstablishParts, EstTypes
<1>5. /\ BowOut(EstPos) \in OwnPosition
      /\ Append(EstSent, Sent(BowOut(EstPos))) \in Seq(Message)
  <2>1. BowOut(EstPos) \in OwnPosition
    BY <1>4, SentType
  <2>2. Sent(BowOut(EstPos)) \in Message
    BY <2>1, SentType
  <2> QED
    BY <1>4, <2>1, <2>2
<1>6. Cardinality(DOMAIN currPeerPositions') \in Nat
  BY <1>3, PeersCount DEF PeerTypes, IsPartialFunction
<1>7. \A v \in Verdicts(EstPos) : v \in ConsensusStates
  BY ZenonT(60), CheckConsensusType DEF Verdicts
<1>8. /\ phase' \in {"open", "establish", "accepted"} /\ mode' \in Modes
      /\ state' \in ConsensusStates
      /\ position' \in OwnPosition /\ proposals' \in Seq(Message)
      /\ prevProposers' \in Nat /\ prevRoundTime' \in Nat
  <2>1. CASE Pause(EstPos, EstSent)
    BY <1>4, <2>1 DEF Pause, TypeOK, prevVars
  <2>2. CASE GoOn(EstPos, EstSent)
    BY <1>4, <1>7, <2>2 DEF GoOn, TypeOK, prevVars
  <2>3. CASE Finish(EstPos, EstSent)
    BY Zenon, <1>4, <1>5, <1>6, <1>7, <2>3 DEF Finish, TypeOK, prevVars, Modes
  <2> QED
    BY <2>1, <2>2, <2>3, EstablishParts
<1>9. OtherTypes'
  <2>1. UNCHANGED <<ledgerVars, haveResult, clockVars, inputVars, playback>>
        /\ stack' = Tail(stack)
    BY EstablishParts
  <2> QED
    BY <1>1, <1>2, <1>3, <1>8, <2>1 DEF TypeOK, OtherTypes, ledgerVars,
       clockVars, inputVars
<1> QED
  BY <1>3, <1>9, TypePartsNext

\* The engine starts well typed.
LEMMA InitTypes == Init => TypeOK
<1> SUFFICES ASSUME Init PROVE TypeOK
  OBVIOUS
<1>1. PeerTypes
  BY NothingType DEF Init, PeerTypes
<1>2. <<>> \in Seq(PeerPosition) /\ <<>> \in Seq(Labels) /\ <<>> \in Seq(Message)
  BY EmptySeqType
<1>3. /\ recentPeerPositions \in [Peers -> Seq(PeerPosition)]
      /\ playback \in [Peers -> Seq(PeerPosition)]
      /\ stack \in Seq(Labels) /\ proposals \in Seq(Message)
  BY <1>2 DEF Init
<1>4. position \in OwnPosition /\ txns \in TxSets
  <2>1. position = NoPosition /\ txns = {}
    BY Zenon DEF Init
  <2> QED
    BY <2>1, NoPositionType DEF TxSets
<1>5. /\ phase \in {"open", "establish", "accepted"} /\ mode \in Modes
      /\ state \in ConsensusStates
      /\ closeTimeAvalancheState \in AvalancheStates
  BY DEF Init, Modes, ConsensusStates, AvalancheStates
<1>6. prevRoundTime \in Nat /\ prevProposers \in Nat
  BY RulesAssumption DEF RulesAssumption, Init
<1>7. OtherTypes
  BY ZenonT(60), <1>3, <1>4, <1>5, <1>6 DEF Init, OtherTypes
<1> QED
  BY <1>1, <1>7, TypeParts

\* Every step keeps the state well typed.
LEMMA NextTypes == TypeOK /\ [Next]_vars => TypeOK'
<1> SUFFICES ASSUME TypeOK, [Next]_vars PROVE TypeOK'
  OBVIOUS
<1>1. ASSUME Deliver PROVE TypeOK'
  <2>1. PICK n \in Peers, seq \in 0..MaxPeerSeq \cup {SeqLeave},
             set \in TxSets, ct \in CloseTimes \cup {0}, prev \in Ledgers :
          PeerProposal(n, [seq |-> seq, set |-> set, ct |-> ct, prev |-> prev,
                           age |-> 0])
    BY <1>1 DEF Deliver
  <2> DEFINE p == [seq |-> seq, set |-> set, ct |-> ct, prev |-> prev,
                   age |-> 0]
  <2>2. p \in PeerPosition
    BY OfferedPosition
  <2> HIDE DEF p
  <2> QED
    BY <2>1, <2>2, DeliverTypes DEF p
<1>2. ASSUME NEW set \in TxSets, GotTxSet(set) PROVE TypeOK'
  BY <1>2, GotTxSetTypes
<1>3. ASSUME Start PROVE TypeOK'
  BY <1>3, StartRoundTypes DEF Start
<1>4. ASSUME TimerEntry PROVE TypeOK'
  BY <1>4, TimerEntryTypes
<1>5. ASSUME NEW n \in Peers, Replay(n) PROVE TypeOK'
  BY <1>5, ReplayTypes
<1>6. ASSUME \/ ReplayDone \/ MaybeBehind \/ KeepLedger \/ StillWrongLedger
             \/ PhaseOpenWaits
      PROVE  TypeOK'
  BY <1>6, ReturnTypes
<1>7. ASSUME NEW net \in Ledgers, CheckLedger(net) PROVE TypeOK'
  BY <1>7, CheckLedgerTypes
<1>8. ASSUME SwitchLedger PROVE TypeOK'
  BY <1>8, SwitchLedgerTypes
<1>9. ASSUME NEW set \in TxSets, NEW ct \in CloseTimes,
             PhaseOpenCloses(set, ct)
      PROVE  TypeOK'
  BY <1>9, PhaseOpenClosesTypes
<1>10. ASSUME PhaseEstablishEarly PROVE TypeOK'
  BY <1>10, PhaseEstablishEarlyTypes
<1>11. ASSUME PhaseEstablish PROVE TypeOK'
  BY <1>11, PhaseEstablishTypes
<1>12. CASE UNCHANGED vars
  <2>1. stack' \in Seq(Labels) /\ mode' \in Modes
    BY <1>12 DEF vars, callVars, TypeOK
  <2>2. UNCHANGED <<phase, ledgerVars, peerVars, disputeVars, stanceVars,
                    closeTimeVars, clockVars, prevVars, establishCounter,
                    inputVars, playback>>
    BY <1>12 DEF vars, callVars
  <2> QED
    BY <2>1, <2>2, StackTypes
<1> QED
  BY <1>1, <1>2, <1>3, <1>4, <1>5, <1>6, <1>7, <1>8, <1>9, <1>10, <1>11,
     <1>12 DEF Next, Running

\* The consensus engine's state is well typed, whatever the calls, messages
\* and answers of the adaptor.
THEOREM TypeCorrect == Spec => []TypeOK
  BY InitTypes, NextTypes, PTL DEF Spec

=============================================================================
