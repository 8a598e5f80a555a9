--------------------------- MODULE ConsensusRules ---------------------------
(***************************************************************************)
(* The stateless decisions of a consensus round: the avalanche thresholds  *)
(* (ConsensusParms.h), when to close, when consensus is reached            *)
(* (Consensus.cpp), how many participants a percentage needs (Consensus.h),*)
(* the vote on one disputed transaction (DisputedTx.h) and the rounding of *)
(* close times (LedgerTiming.h).                                           *)
(*                                                                         *)
(* Times are integers in one unit (milliseconds in the code); percentages  *)
(* and C++ integer divisions of non-negative numbers are \div.             *)
(***************************************************************************)
EXTENDS Integers, Sequences, FiniteSets

CONSTANTS
  Peers,                 \* trusted nodes whose proposals we see (NodeID_t)
  MinConsensusPct,       \* minCONSENSUS_PCT
  CtConsensusPct,        \* avCT_CONSENSUS_PCT
  MinRounds,             \* avMIN_ROUNDS
  StalledRounds,         \* avSTALLED_ROUNDS
  MinConsensus,          \* ledgerMIN_CONSENSUS
  MaxConsensus,          \* ledgerMAX_CONSENSUS
  AbandonConsensus,      \* ledgerABANDON_CONSENSUS
  AbandonFactor,         \* ledgerABANDON_CONSENSUS_FACTOR
  MinConsensusTime,      \* avMIN_CONSENSUS_TIME
  MinClose,              \* ledgerMIN_CLOSE
  IdleInterval           \* ledgerIDLE_INTERVAL

ASSUME RulesAssumption ==
  /\ IsFiniteSet(Peers)
  /\ MinConsensusPct \in 0..100 /\ CtConsensusPct \in 0..100
  /\ MinRounds \in Nat /\ StalledRounds \in Nat
  /\ MinConsensus \in Nat /\ MaxConsensus \in Nat /\ AbandonConsensus \in Nat
  /\ MaxConsensus <= AbandonConsensus
  /\ AbandonFactor \in Nat
  /\ MinConsensusTime \in Nat \ {0}
  /\ MinClose \in Nat /\ IdleInterval \in Nat

Larger(a, b) == IF a < b THEN b ELSE a
Smaller(a, b) == IF a < b THEN a ELSE b

-----------------------------------------------------------------------------
(* ConsensusParms.h: the avalanche state machine. *)

AvalancheStates == {"init", "mid", "late", "stuck"}

\* avalancheCutoffs
CutoffTime == [init |-> 0, mid |-> 50, late |-> 85, stuck |-> 200]
CutoffPct  == [init |-> 50, mid |-> 65, late |-> 70, stuck |-> 95]
NextState  == [init |-> "mid", mid |-> "late", late |-> "stuck",
               stuck |-> "stuck"]

\* The state getNeededWeight moves to (or stays in): one state at a time, not
\* before `minimum` rounds in the current one, and only when the round is far
\* enough along.  The needed percentage is that of the resulting state.
AvalancheAdvance(av, percentTime, rounds, minimum) ==
  IF /\ NextState[av] # av
     /\ rounds >= minimum
     /\ percentTime >= CutoffTime[NextState[av]]
  THEN NextState[av]
  ELSE av

-----------------------------------------------------------------------------
(* Consensus.cpp, and participantsNeeded of Consensus.h. *)

\* shouldCloseLedger; the 10-minute sanity tests are the input `unexpected`,
\* `prev` and `last` are the previous round's proposers and its duration.
ShouldCloseLedger(unexpected, anyTxs, prev, closed, validated, last, since, open, idle) ==
  \/ unexpected
  \/ closed + validated > prev \div 2
  \/ IF ~anyTxs THEN since >= idle
     ELSE open >= MinClose /\ open >= last \div 2

\* Mutant of CheckConsensusReached: we count among those that agree, but not
\* among all.
ReachedSelfNotInTotal(agreeing, total, countSelf, reachedMax, stalled) ==
  IF total = 0 THEN reachedMax
  ELSE \/ stalled
       \/ ((agreeing + (IF countSelf THEN 1 ELSE 0)) * 100) \div total
            >= MinConsensusPct

CheckConsensusReached(agreeing, total, countSelf, reachedMax, stalled) ==
  IF total = 0 THEN reachedMax
  ELSE \/ stalled
       \/ LET self == IF countSelf THEN 1 ELSE 0
          IN  ((agreeing + self) * 100) \div (total + self) >= MinConsensusPct

\* std::clamp(previousAgreeTime * factor, MAX_CONSENSUS, ABANDON_CONSENSUS)
AbandonTime(previousAgreeTime) ==
  Smaller(Larger(previousAgreeTime * AbandonFactor, MaxConsensus),
          AbandonConsensus)

ConsensusStates == {"No", "MovedOn", "Expired", "Yes"}

\* checkConsensus: `time` is how long this round has taken, `last` how long the
\* previous one took, and `prev` the number of its proposers.
CheckConsensus(prev, proposers, agree, finished, last, time, stalled, proposing) ==
  LET reachedMax == time > MaxConsensus
  IN  IF \/ time <= MinConsensus
         \/ proposers < (prev * 3) \div 4 /\ time < last + MinConsensus
      THEN "No"
      ELSE IF CheckConsensusReached(agree, proposers, proposing, reachedMax,
                                    stalled)
      THEN "Yes"
      ELSE IF CheckConsensusReached(finished, proposers, FALSE, reachedMax,
                                    FALSE)
      THEN "MovedOn"
      ELSE IF time > AbandonTime(last) THEN "Expired" ELSE "No"

ParticipantsNeeded(participants, percent) ==
  LET needed == (participants * percent + percent \div 2) \div 100
  IN  IF needed = 0 THEN 1 ELSE needed

-----------------------------------------------------------------------------
(* DisputedTx.h.  The counters yays_ and nays_ are arguments: DisputedTx   *)
(* keeps them incrementally, Consensus counts the votes.                   *)

Votes == {"none", "yes", "no"}

Dispute == [ourVote : BOOLEAN,
            votes : [Peers -> Votes],
            voteCounter : Nat,          \* currentVoteCounter_, up to its cap
            avState : AvalancheStates,  \* avalancheState_
            avCounter : Nat]            \* avalancheCounter_, up to its cap

\* The counters are only compared with MinRounds and StalledRounds, so they
\* stop at those values.
VoteCounterCap == Larger(MinRounds, StalledRounds)

NewDispute(ourVote, votes) ==
  [ourVote |-> ourVote, votes |-> votes, voteCounter |-> 0,
   avState |-> "init", avCounter |-> 0]

AsVote(yes) == IF yes THEN "yes" ELSE "no"

\* Mutant of ProposingWeight: the branches of our own vote are swapped.
ProposingWeightSwapped(ourVote, yays, nays) ==
  (yays * 100 + (IF ourVote THEN 0 ELSE 100)) \div (nays + yays + 1)

\* The percentage of yes votes when we give ourselves full weight.
ProposingWeight(ourVote, yays, nays) ==
  (yays * 100 + (IF ourVote THEN 100 ELSE 0)) \div (nays + yays + 1)

\* updateVote: nothing when no peer disagrees with us; otherwise advance the
\* avalanche state, then take the position the weight calls for.
UpdatedVote(d, yays, nays, percentTime, proposing) ==
  IF (d.ourVote /\ nays = 0) \/ (~d.ourVote /\ yays = 0)
  THEN d
  ELSE LET rounds == d.avCounter + 1
           av == AvalancheAdvance(d.avState, percentTime, rounds, MinRounds)
           newPosition ==
             IF proposing
             THEN ProposingWeight(d.ourVote, yays, nays) > CutoffPct[av]
             ELSE yays > nays
       IN  [ourVote |-> newPosition,
            votes |-> d.votes,
            voteCounter |-> IF newPosition = d.ourVote
                            THEN Smaller(d.voteCounter + 1, VoteCounterCap)
                            ELSE 0,
            avState |-> av,
            avCounter |-> IF av # d.avState THEN 0
                          ELSE Smaller(rounds, MinRounds)]

\* stalled
Stalled(d, yays, nays, proposing, peersUnchanged) ==
  /\ CutoffTime[NextState[d.avState]] <= CutoffTime[d.avState]
  /\ d.avCounter >= MinRounds
  /\ proposing => d.voteCounter >= MinRounds
  /\ \/ peersUnchanged >= StalledRounds
     \/ ~(proposing /\ d.voteCounter < StalledRounds)
  /\ LET support == (yays + (IF proposing /\ d.ourVote THEN 1 ELSE 0)) * 100
         total == nays + yays + (IF proposing THEN 1 ELSE 0)
     IN  /\ total # 0
         /\ \/ support \div total > MinConsensusPct
            \/ support \div total < 100 - MinConsensusPct

-----------------------------------------------------------------------------
(* LedgerTiming.h *)

PossibleResolutions == <<10, 20, 30, 60, 90, 120>>

NextTimeResolution(previous, agree, ledgerSeq) ==
  LET i == CHOOSE j \in 1..Len(PossibleResolutions) :
             PossibleResolutions[j] = previous
  IN  IF ~agree /\ i < Len(PossibleResolutions)
      THEN PossibleResolutions[i + 1]
      ELSE IF agree /\ ledgerSeq % 8 = 0 /\ i > 1
      THEN PossibleResolutions[i - 1]
      ELSE previous

\* Time 0 is the default time_point: "no agreed close time".
RoundCloseTime(closeTime, resolution) ==
  IF closeTime = 0 THEN 0
  ELSE LET t == closeTime + resolution \div 2
       IN  t - (t % resolution)
=============================================================================
