-------------------------- MODULE ExclusionPipeline --------------------------
(***************************************************************************)
(* The exclusion caches of several nodes beside the lists in the ledger    *)
(* (applyValidatorVote of src/xrpld/app/tx/detail/Change.cpp, setValidLedger*)
(* of src/xrpld/app/ledger/detail/LedgerMaster.cpp, preflight1 of          *)
(* src/xrpld/app/tx/detail/Transactor.cpp, ExclusionManager.cpp).          *)
(*                                                                         *)
(* A node's cache is a function of its lists alone (ExclusionManager.tla,  *)
(* CountsMatchLists and ExcludedExactlyAtThreshold), so the lists stand    *)
(* for it.  A ledger is the exclusion list of every validator's account.   *)
(***************************************************************************)
EXTENDS Naturals, FiniteSets

CONSTANTS
  Nodes,
  Voters,           \* the validators that publish lists
  Senders,          \* the accounts that can be listed
  ConsensusPct,     \* ConsensusParms::minCONSENSUS_PCT
  MaxListed,        \* the longest list applyValidatorVote stores (100)
  BuildsEarly       \* a node may build ledgers before its first validated one

VARIABLES
  unl,          \* the accounts of getTrustedMasterKeys()
  validated,    \* the last validated ledger
  closed,       \* each node's last closed ledger
  cache,        \* each node's validatorExclusions_
  ready,        \* each node's initialized_
  rebuilding    \* the ledger a node is about to rebuild its cache from, if any

pipelineVars == <<unl, validated, closed, cache, ready, rebuilding>>

EmptyLedger == [v \in Voters |-> {}]
NoLedger == <<>>

PipelineInit ==
  /\ unl = Voters
  /\ validated = EmptyLedger
  /\ closed = [n \in Nodes |-> EmptyLedger]
  /\ cache = [n \in Nodes |-> EmptyLedger]
  /\ ready = [n \in Nodes |-> FALSE]
  /\ rebuilding = [n \in Nodes |-> NoLedger]

-----------------------------------------------------------------------------
\* applyValidatorVote: the list with an account removed, or added unless the
\* list is full.
WithChange(list, add, a) ==
  IF ~add THEN list \ {a}
  ELSE IF Cardinality(list) < MaxListed THEN list \union {a} ELSE list

\* Mutant of ApplyValidatorVote: an emptied list does not reach the cache.
ApplyValidatorVoteSkipsEmpty(n, v, add, a) ==
  LET list == WithChange(closed[n][v], add, a) IN
  /\ ready[n] \/ BuildsEarly
  /\ v \in unl
  /\ closed' = [closed EXCEPT ![n][v] = list]
  /\ cache' = IF list = {} THEN cache ELSE [cache EXCEPT ![n][v] = list]
  /\ UNCHANGED <<unl, validated, ready, rebuilding>>

\* A node builds its next ledger, which holds a ValidatorVote; the vote's
\* list goes to the cache while the transaction is applied.  Votes are
\* recorded from trusted validators only (handleNewValidation).
ApplyValidatorVote(n, v, add, a) ==
  LET list == WithChange(closed[n][v], add, a) IN
  /\ ready[n] \/ BuildsEarly
  /\ v \in unl
  /\ closed' = [closed EXCEPT ![n][v] = list]
  /\ cache' = [cache EXCEPT ![n][v] = list]
  /\ UNCHANGED <<unl, validated, ready, rebuilding>>

\* The network validates the ledger some node closed.
Validate(n) ==
  /\ validated # closed[n]
  /\ validated' = closed[n]
  /\ UNCHANGED <<unl, closed, cache, ready, rebuilding>>

\* A node takes over the validated ledger from its peers: nothing is applied,
\* so nothing reaches its cache.
Acquire(n) ==
  /\ closed[n] # validated
  /\ closed' = [closed EXCEPT ![n] = validated]
  /\ UNCHANGED <<unl, validated, cache, ready, rebuilding>>

\* setValidLedger: the check and the rebuild lock the cache one after the
\* other.
SetValidLedger(n) ==
  /\ ~ready[n] /\ rebuilding[n] = NoLedger
  /\ rebuilding' = [rebuilding EXCEPT ![n] = <<validated>>]
  /\ UNCHANGED <<unl, validated, closed, cache, ready>>

RebuildFromLedger(n) ==
  /\ rebuilding[n] # NoLedger
  /\ cache' = [cache EXCEPT ![n] =
                 [v \in Voters |-> IF v \in unl THEN rebuilding[n][1][v] ELSE {}]]
  /\ ready' = [ready EXCEPT ![n] = TRUE]
  /\ rebuilding' = [rebuilding EXCEPT ![n] = NoLedger]
  /\ UNCHANGED <<unl, validated, closed>>

\* A node that is in step with the network starts again.
Restart(n) ==
  /\ ready[n] /\ closed[n] = validated
  /\ cache' = [cache EXCEPT ![n] = EmptyLedger]
  /\ ready' = [ready EXCEPT ![n] = FALSE]
  /\ rebuilding' = [rebuilding EXCEPT ![n] = NoLedger]
  /\ UNCHANGED <<unl, validated, closed>>

\* With one node and these steps alone, every ledger the node builds is the
\* one the network validates.
InStepNext ==
  \/ \E n \in Nodes, v \in Voters, add \in BOOLEAN, a \in Senders :
       ApplyValidatorVote(n, v, add, a)
  \/ \E n \in Nodes : Validate(n)
  \/ \E n \in Nodes : SetValidLedger(n)
  \/ \E n \in Nodes : RebuildFromLedger(n)
  \/ \E n \in Nodes : Restart(n)

InStepSpec == PipelineInit /\ [][InStepNext]_pipelineVars

-----------------------------------------------------------------------------
(* What the transaction engine asks of a node's cache. *)

EM == INSTANCE ExclusionManager WITH
        Validators <- Voters, Accounts <- Senders, MinConsensusPct <- ConsensusPct,
        validatorExclusions <- cache, exclusionCounts <- cache,
        consensusExcluded <- cache, totalValidators <- 0, initialized <- FALSE

Excluded(n) ==
  LET counts == [a \in Senders |-> Cardinality(EM!Excluders(cache[n], a))]
  IN  IF ready[n]
      THEN EM!ConsensusExclusions(counts, Cardinality(EM!Listing(cache[n])))
      ELSE {}

\* preflight1 on a transaction's sender and destination.
Preflight1(n, sender, dest) ==
  IF sender \in Excluded(n) THEN "temBAD_SRC_ACCOUNT"
  ELSE IF dest \in Excluded(n) THEN "temINVALID_ACCOUNT_ID"
  ELSE "tesSUCCESS"

-----------------------------------------------------------------------------
(* Properties. *)

\* With a fixed UNL and every ledger the node builds validated, the cache
\* holds the lists of the node's last closed ledger, across restarts and
\* rebuilds (Change.cpp:731-742, LedgerMaster.cpp:290-300).
CacheFollowsLedger ==
  \A n \in Nodes : ready[n] => cache[n] = closed[n]

\* docs/Exclusions.md: "This is a consensus-based mechanism where an account
\* is only excluded if a sufficient percentage of validators (67% by default)
\* agree": nodes on the same validated ledger give a transaction the same
\* answer.
SameAnswerOnSameLedger ==
  \A n, m \in Nodes :
    /\ ready[n] /\ ready[m]
    /\ closed[n] = validated /\ closed[m] = validated
    => \A sender, dest \in Senders :
         Preflight1(n, sender, dest) = Preflight1(m, sender, dest)
=============================================================================
