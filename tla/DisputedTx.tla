----------------------------- MODULE DisputedTx -----------------------------
(***************************************************************************)
(* One DisputedTx object (DisputedTx.h): a transaction on which our        *)
(* position and those of our peers differ.  The object keeps, beside the   *)
(* map votes_, two running counters yays_ and nays_ which every decision   *)
(* reads; Consensus.tla counts the votes instead, and the theorem          *)
(* CountersCorrect of ConsensusDisputesProofs is what makes that the same.        *)
(***************************************************************************)
EXTENDS ConsensusRules

CONSTANT PercentTimes   \* the values of convergePercent_ considered

ASSUME PercentAssumption == PercentTimes \subseteq Nat

VARIABLES
  dispute,      \* ourVote_, votes_, the two round counters, avalancheState_
  yays, nays,   \* yays_, nays_
  percent,      \* the largest percentTime seen: the round clock only advances
  conceded      \* history: we went from yes to no, by updateVote in the mode
                \* recorded here, and no peer's vote and no mode changed since

disputedTxVars == <<dispute, yays, nays, percent, conceded>>

One(b) == IF b THEN 1 ELSE 0

NotConceded == "no"

\* votes_ after n's entry is set, or erased ("none").
Recorded(votes, n, vote) == [votes EXCEPT ![n] = vote]

DisputedTxInit ==
  /\ \E ourVote \in BOOLEAN :
       dispute = NewDispute(ourVote, [n \in Peers |-> "none"])
  /\ yays = 0 /\ nays = 0
  /\ percent = 0
  /\ conceded = NotConceded

\* setVote: a new vote counts, a changed vote moves from one counter to the
\* other, a repeated vote does nothing.
SetVote(n, votesYes) ==
  LET old == dispute.votes[n] IN
  /\ dispute' = [dispute EXCEPT !.votes = Recorded(@, n, AsVote(votesYes))]
  /\ yays' = yays + One(votesYes /\ old # "yes") - One(~votesYes /\ old = "yes")
  /\ nays' = nays + One(~votesYes /\ old # "no") - One(votesYes /\ old = "no")
  /\ conceded' = IF old = AsVote(votesYes) THEN conceded ELSE NotConceded
  /\ UNCHANGED percent

UnVote(n) ==
  LET old == dispute.votes[n] IN
  /\ dispute' = [dispute EXCEPT !.votes = Recorded(@, n, "none")]
  /\ yays' = yays - One(old = "yes")
  /\ nays' = nays - One(old = "no")
  /\ conceded' = IF old = "none" THEN conceded ELSE NotConceded
  /\ UNCHANGED percent

ModeName(proposing) == IF proposing THEN "proposing" ELSE "observing"

UpdateVote(percentTime, proposing) ==
  /\ percentTime >= percent
  /\ percent' = percentTime
  /\ dispute' = UpdatedVote(dispute, yays, nays, percentTime, proposing)
  /\ conceded' =
       IF dispute.ourVote /\ ~dispute'.ourVote THEN ModeName(proposing)
       ELSE IF conceded = ModeName(proposing) THEN conceded
       ELSE NotConceded
  /\ UNCHANGED <<yays, nays>>

DisputedTxNext ==
  \/ \E n \in Peers, votesYes \in BOOLEAN : SetVote(n, votesYes)
  \/ \E n \in Peers : UnVote(n)
  \/ \E percentTime \in PercentTimes, proposing \in BOOLEAN :
       UpdateVote(percentTime, proposing)

DisputedTxSpec == DisputedTxInit /\ [][DisputedTxNext]_disputedTxVars

-----------------------------------------------------------------------------
Voters(votes, vote) == {n \in Peers : votes[n] = vote}

\* Type correctness of a DisputedTx object.
DisputedTxTypeOK ==
  /\ dispute \in Dispute
  /\ yays \in Int /\ nays \in Int
  /\ percent \in Nat
  /\ conceded \in {"proposing", "observing", NotConceded}

\* The running counters are exact: whatever sequence of setVote and unVote
\* calls led here (new, repeated and changed votes, votes withdrawn when a
\* peer bows out or goes stale), yays_ and nays_ are the numbers of yes and of
\* no entries in votes_.  updateVote and stalled decide from them alone.
CountersExact ==
  /\ yays = Cardinality(Voters(dispute.votes, "yes"))
  /\ nays = Cardinality(Voters(dispute.votes, "no"))

\* updateVote does not flap: after it has turned our vote from yes to no, it
\* does not turn it back to yes while the peers' votes stay as they are (and
\* we keep proposing, or keep observing), however many times it runs.  Giving
\* up our own yes lowers the weight, and the needed weight never decreases.
NoFlapping ==
  [][~dispute.ourVote /\ conceded' # NotConceded => ~dispute'.ourVote]_disputedTxVars
=============================================================================
