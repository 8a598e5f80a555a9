-------------------------- MODULE ExclusionManager --------------------------
(***************************************************************************)
(* The in-memory cache that decides which accounts are excluded by         *)
(* consensus (src/xrpld/app/misc/ExclusionManager.{h,cpp}).                *)
(*                                                                         *)
(* The hash maps of the class are total functions here: a validator absent *)
(* from validatorExclusions_ has the empty list (the code erases a         *)
(* validator whose list becomes empty), an account absent from             *)
(* exclusionCounts_ has the count 0 (the code erases a count that would    *)
(* become 0).  Every public operation takes the class's one mutex, so each *)
(* is one atomic step.                                                     *)
(***************************************************************************)
EXTENDS Integers, FiniteSets

CONSTANTS
  Validators,        \* accounts derived from validator keys
  Accounts,          \* accounts that can be put on an exclusion list
  MinConsensusPct    \* ConsensusParms::minCONSENSUS_PCT

ASSUME ExclusionAssumption ==
  /\ IsFiniteSet(Validators)
  /\ MinConsensusPct \in 1..100

VARIABLES
  validatorExclusions,   \* validatorExclusions_
  exclusionCounts,       \* exclusionCounts_
  consensusExcluded,     \* consensusExcluded_
  totalValidators,       \* totalValidators_
  initialized            \* initialized_

emVars == <<validatorExclusions, exclusionCounts, consensusExcluded,
            totalValidators, initialized>>

Lists == [Validators -> SUBSET Accounts]

NoLists == [v \in Validators |-> {}]

-----------------------------------------------------------------------------
(* Operators the operations are built from. *)

\* The validators that have an entry in validatorExclusions_.
Listing(lists) == {v \in Validators : lists[v] # {}}

\* The validators whose list names account a.
Excluders(lists, a) == {v \in Validators : a \in lists[v]}

\* validatorExclusions_ with v's list replaced (erased when empty).
WithList(lists, v, list) == [lists EXCEPT ![v] = list]

\* Mutant of ConsensusThreshold: the percentage is rounded down.
ThresholdRoundedDown(total) == (total * MinConsensusPct) \div 100

\* getConsensusThreshold
ConsensusThreshold(total) ==
  IF total = 0 THEN 1
  ELSE LET threshold == (total * MinConsensusPct + 99) \div 100
       IN  IF threshold < 1 THEN 1 ELSE threshold

\* recalculateConsensusExclusions: the accounts whose count reaches the
\* threshold; none when no validator has a list.  Only accounts with an
\* entry in exclusionCounts_ (a count above 0) are visited.
ConsensusExclusions(counts, total) ==
  {a \in Accounts : /\ total # 0
                    /\ counts[a] > 0
                    /\ counts[a] >= ConsensusThreshold(total)}

\* The two loops that adjust exclusionCounts_: decrement (erasing at 1) for
\* the accounts of the old list, then increment for those of the new one.
Decremented(counts, old) ==
  [a \in Accounts |-> IF a \in old /\ counts[a] > 0
                      THEN counts[a] - 1 ELSE counts[a]]

Incremented(counts, new) ==
  [a \in Accounts |-> IF a \in new THEN counts[a] + 1 ELSE counts[a]]

-----------------------------------------------------------------------------
Init ==
  /\ validatorExclusions = NoLists
  /\ exclusionCounts = [a \in Accounts |-> 0]
  /\ consensusExcluded = {}
  /\ totalValidators = 0
  /\ initialized = FALSE

UpdateValidatorExclusions(v, exclusions) ==
  LET lists == WithList(validatorExclusions, v, exclusions)
      total == Cardinality(Listing(lists))
      counts == Incremented(Decremented(exclusionCounts,
                                        validatorExclusions[v]),
                            exclusions)
  IN  /\ validatorExclusions' = lists
      /\ totalValidators' = total
      /\ exclusionCounts' = counts
      /\ consensusExcluded' = ConsensusExclusions(counts, total)
      /\ UNCHANGED initialized

RemoveValidator(v) ==
  /\ validatorExclusions[v] # {}
  /\ LET lists == WithList(validatorExclusions, v, {})
         total == Cardinality(Listing(lists))
         counts == Decremented(exclusionCounts, validatorExclusions[v])
     IN  /\ validatorExclusions' = lists
         /\ totalValidators' = total
         /\ exclusionCounts' = counts
         /\ consensusExcluded' = ConsensusExclusions(counts, total)
  /\ UNCHANGED initialized

\* rebuildCache(view): view is the exclusion list of every validator account
\* in the ledger, enabled its PF_AccountExclusion amendment, trusted the
\* accounts of getTrustedMasterKeys().  The running count of trusted
\* validators is overwritten by the number of lists (line 228).
RebuildCache(view, enabled, trusted) ==
  /\ initialized' = TRUE
  /\ IF enabled
     THEN LET lists == [v \in Validators |->
                          IF v \in trusted THEN view[v] ELSE {}]
              total == Cardinality(Listing(lists))
              counts == [a \in Accounts |->
                           Cardinality(Excluders(lists, a))]
          IN  /\ validatorExclusions' = lists
              /\ totalValidators' = total
              /\ exclusionCounts' = counts
              /\ consensusExcluded' = ConsensusExclusions(counts, total)
     ELSE UNCHANGED <<validatorExclusions, exclusionCounts,
                      consensusExcluded, totalValidators>>

\* isExcluded(account)
IsExcluded(a) == initialized /\ a \in consensusExcluded

Next ==
  \/ \E v \in Validators, s \in SUBSET Accounts :
       UpdateValidatorExclusions(v, s)
  \/ \E v \in Validators : RemoveValidator(v)
  \/ \E view \in Lists, enabled \in BOOLEAN, trusted \in SUBSET Validators :
       RebuildCache(view, enabled, trusted)

Spec == Init /\ [][Next]_emVars

-----------------------------------------------------------------------------
(* Properties. *)

\* Every variable of the cache has its type; in particular no count of
\* exclusionCounts_ falls below 0.
TypeOK ==
  /\ validatorExclusions \in Lists
  /\ exclusionCounts \in [Accounts -> Nat]
  /\ consensusExcluded \in SUBSET Accounts
  /\ totalValidators \in Nat
  /\ initialized \in BOOLEAN

\* The incrementally maintained counts are what a recount of the lists gives:
\* for every account the number of validators whose list names it, and for
\* totalValidators_ the number of lists (ExclusionManager.cpp:85-109,128-147).
CountsMatchLists ==
  /\ \A a \in Accounts :
       exclusionCounts[a] = Cardinality(Excluders(validatorExclusions, a))
  /\ totalValidators = Cardinality(Listing(validatorExclusions))

\* An account is in the precomputed set exactly when at least MinConsensusPct
\* percent of the validators that have a list name it: the set is never stale
\* and the rounded-up threshold loses nothing (ExclusionManager.cpp:243-277).
ExcludedExactlyAtThreshold ==
  \A a \in Accounts :
    a \in consensusExcluded <=>
      LET voters == Cardinality(Excluders(validatorExclusions, a))
          lists  == Cardinality(Listing(validatorExclusions))
      IN  voters > 0 /\ voters * 100 >= lists * MinConsensusPct

\* What ExclusionManager.h says of an excluded address ("at least
\* minCONSENSUS_PCT (67%) of UNL validators have that address on their
\* exclusion list"), with Validators the UNL and isExcluded the answer the
\* transaction engine acts on.
ExcludedByShareOfUNL ==
  \A a \in Accounts :
    IsExcluded(a) =>
      Cardinality(Excluders(validatorExclusions, a)) * 100 >=
        Cardinality(Validators) * MinConsensusPct
=============================================================================
