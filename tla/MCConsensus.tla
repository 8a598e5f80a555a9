----------------------------- MODULE MCConsensus ----------------------------
(* Consensus for TLC.  The scenarios of one run share the engine's state    *)
(* and differ in the parameters and the bounds that bring up the cases      *)
(* their properties are about.                                              *)
EXTENDS Consensus, TLC

VARIABLE scenario   \* which parameters the engine runs with

mcVars == <<scenario, vars>>

\* Close times are rounded to 10 seconds on every ledger (sequence 8 keeps the
\* resolution of an agreed ledger, and 10 seconds is the finest there is).
Info(S) == [l \in S |-> [resolution |-> 10, agree |-> TRUE, seq |-> 8]]
MCLedgerInfo == Info(Ledgers)

OneLedger == {CHOOSE l \in Ledgers : TRUE}

\* Peers, and transactions, are interchangeable.
Symmetry == Permutations(Peers) \cup Permutations(Txs)

\* A dispute may stall long before the round is abandoned.
Stall == INSTANCE Consensus WITH
    AbandonConsensus <- 12, AbandonFactor <- 10,
    Freshness <- 10, ProposeInterval <- 10, MaxPeerSeq <- 0,
    MaxRoundTime <- 10

\* Two close times that round differently, one ledger, no transactions.
CloseTime == INSTANCE Consensus WITH
    Txs <- {}, Ledgers <- OneLedger, LedgerInfo <- Info(OneLedger),
    CloseTimes <- {12, 18}, MinConsensusTime <- 8, Freshness <- 8,
    ProposeInterval <- 4, MaxRoundTime <- 8

DisputesInit == Init /\ scenario \in {"disputes", "stall"}
DisputesNext ==
    \/ scenario = "disputes" /\ Next /\ UNCHANGED scenario
    \/ scenario = "stall" /\ Stall!Next /\ UNCHANGED scenario
DisputesSpec == DisputesInit /\ [][DisputesNext]_mcVars

SwitchInit ==
    /\ scenario \in {"switch", "closeTime"}
    /\ IF scenario = "switch" THEN Init ELSE CloseTime!Init
SwitchNext ==
    \/ scenario = "switch" /\ Next /\ UNCHANGED scenario
    \/ scenario = "closeTime" /\ CloseTime!Next /\ UNCHANGED scenario
SwitchSpec == SwitchInit /\ [][SwitchNext]_mcVars

WrongLedgerSpec == Init /\ scenario = "switch" /\ [][SwitchNext]_mcVars
=============================================================================
