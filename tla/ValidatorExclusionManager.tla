---------------------- MODULE ValidatorExclusionManager ----------------------
(***************************************************************************)
(* How a validator publishes its exclusion list                            *)
(* (src/xrpld/app/misc/ValidatorExclusionManager.{h,cpp}, with validate()  *)
(* of RCLConsensus.cpp and applyValidatorVote of Change.cpp).              *)
(*                                                                         *)
(* The differences between the wanted list (configured, and fetched when   *)
(* there is a fetcher) and the validator's list in the ledger are queued;  *)
(* at most one change, every Interval ledgers, leaves with a validation    *)
(* and is applied to the ledger if that vote gets there.  The fetcher is   *)
(* an ExclusionSource that makes its steps between the calls of            *)
(* getExclusionChange, each of which takes the fetcher's mutex on its own. *)
(*                                                                         *)
(* wait is the number of ledgers before lastChangeLedger_ + CHANGE_INTERVAL*)
(* is reached, in place of the two ledger numbers.                         *)
(***************************************************************************)
EXTENDS Naturals, FiniteSets, Sequences, ExclusionSource

CONSTANTS
  Configured,    \* VALIDATOR_EXCLUSIONS
  HasFetcher,    \* VALIDATOR_EXCLUSIONS_SOURCES is not empty
  RemoteSets,    \* the combined sets the sources can serve
  Interval,      \* CHANGE_INTERVAL
  ListLimit,     \* the longest list applyValidatorVote stores (100)
  MaxLost        \* bound on the votes that do not reach the ledger

ASSUME PublisherAssumption ==
  /\ IsFiniteSet(Excludable) /\ Configured \subseteq Excludable
  /\ HasFetcher \in BOOLEAN /\ RemoteSets \subseteq SUBSET Excludable
  /\ Interval \in Nat \ {0} /\ ListLimit \in Nat /\ MaxLost \in Nat

VARIABLES
  pendingChanges,   \* pendingChanges_
  wait,
  started,          \* initialized_
  haveAccount,      \* validatorAccount_ is seated
  enabled,          \* PF_AccountExclusion in the ledger
  step,             \* where the call of getExclusionChange is
  vote,             \* the change of the last validation, on its way
  listed,           \* sfExclusionList of the validator's account
  lost              \* votes lost so far

vemVars == <<pendingChanges, wait, started, haveAccount, enabled, step, vote,
             listed, lost>>
publisherVars == <<vemVars, srcVars>>

Change == [add : BOOLEAN, account : Excludable]
NoVote == <<>>          \* vote is a sequence of at most one change
Target == Configured \union (IF HasFetcher THEN served ELSE {})
Ready == HasFetcher => fetched /\ reachable

PublisherInit ==
  /\ SourceInit
  /\ pendingChanges = <<>> /\ wait = 0
  /\ started = FALSE /\ haveAccount = FALSE
  /\ enabled \in BOOLEAN
  /\ step = "idle" /\ vote = NoVote
  /\ listed \in {s \in SUBSET Excludable : Cardinality(s) <= ListLimit /\ (enabled \/ s = {})}
  /\ lost = 0

-----------------------------------------------------------------------------
(* updatePendingChanges: the adds, then the removes, each in the order of   *)
(* an unordered_set.                                                        *)
Orders(S) == {f \in [1 .. Cardinality(S) -> S] : \A x \in S : \E i \in DOMAIN f : f[i] = x}
Changes(add, accounts) == [i \in DOMAIN accounts |-> [add |-> add, account |-> accounts[i]]]
Queues(wanted, current) ==
  {Changes(TRUE, order[1]) \o Changes(FALSE, order[2]) :
     order \in Orders(wanted \ current) \X Orders(current \ wanted)}

\* initialize(), on the first validated ledger.
Initialize ==
  /\ ~started /\ step = "idle"
  /\ started' = TRUE
  /\ haveAccount' = enabled
  /\ IF enabled /\ Ready
     THEN pendingChanges' \in Queues(Target, listed)
     ELSE pendingChanges' = <<>>
  /\ UNCHANGED <<wait, enabled, step, vote, listed, lost, srcVars>>

\* validate() asks getExclusionChange: the early returns before the queue is
\* looked at.
GetExclusionChange ==
  /\ enabled /\ step = "idle" /\ vote = NoVote
  /\ started /\ Ready
  /\ step' = IF HasFetcher THEN "asked" ELSE "pop"
  /\ UNCHANGED <<pendingChanges, wait, started, haveAccount, enabled, vote, listed, lost, srcVars>>

OneLedgerOn == IF wait = 0 THEN 0 ELSE wait - 1

\* A validation before the fetcher is ready carries no change.
NoChangeYet ==
  /\ enabled /\ step = "idle" /\ started /\ ~Ready
  /\ wait' = OneLedgerOn
  /\ UNCHANGED <<pendingChanges, started, haveAccount, enabled, step, vote, listed, lost, srcVars>>

\* Mutant of TakeModified: the flag is taken, the queue kept.
TakeModifiedOnly ==
  /\ step = "asked"
  /\ flagged' = FALSE
  /\ step' = "pop"
  /\ UNCHANGED <<served, reachable, fetched, pendingChanges, wait, started, haveAccount, enabled, vote, listed, lost>>

\* hasBeenModified(true), and the start of updatePendingChanges.
TakeModified ==
  /\ step = "asked"
  /\ flagged' = FALSE
  /\ IF flagged
     THEN pendingChanges' = <<>> /\ step' = "rebuild"
     ELSE step' = "pop" /\ UNCHANGED pendingChanges
  /\ UNCHANGED <<served, reachable, fetched, wait, started, haveAccount, enabled, vote, listed, lost>>

\* The two questions of updatePendingChanges, asked again.
StillReady ==
  /\ step = "rebuild"
  /\ step' = IF Ready THEN "combine" ELSE "pop"
  /\ UNCHANGED <<pendingChanges, wait, started, haveAccount, enabled, vote, listed, lost, srcVars>>

\* The rest of updatePendingChanges.  Without an account (the amendment was
\* off at initialize) the current list reads as empty.
UpdatePendingChanges ==
  /\ step = "combine"
  /\ pendingChanges' \in Queues(Target, IF haveAccount THEN listed ELSE {})
  /\ step' = "pop"
  /\ UNCHANGED <<wait, started, haveAccount, enabled, vote, listed, lost, srcVars>>

\* Mutant of Pop: the change stays at the front until the next call.
PopNothing ==
  /\ step = "pop"
  /\ step' = "idle"
  /\ vote' = IF wait = 0 /\ pendingChanges # <<>> THEN <<Head(pendingChanges)>> ELSE vote
  /\ wait' = IF wait = 0 THEN Interval - 1 ELSE OneLedgerOn
  /\ UNCHANGED <<pendingChanges, started, haveAccount, enabled, listed, lost, srcVars>>

\* The rate limit and the front of the queue, which leaves with the
\* validation; the next ledger is one further.
Pop ==
  /\ step = "pop"
  /\ step' = "idle"
  /\ IF wait = 0 /\ pendingChanges # <<>>
     THEN /\ vote' = <<Head(pendingChanges)>>
          /\ pendingChanges' = Tail(pendingChanges)
          /\ wait' = Interval - 1
     ELSE /\ wait' = OneLedgerOn
          /\ UNCHANGED <<vote, pendingChanges>>
  /\ UNCHANGED <<started, haveAccount, enabled, listed, lost, srcVars>>

-----------------------------------------------------------------------------
\* applyValidatorVote on the list of this validator's account.
ListAfter(list, change) ==
  IF ~change.add THEN list \ {change.account}
  ELSE IF change.account \in list \/ Cardinality(list) >= ListLimit THEN list
  ELSE list \union {change.account}

VoteApplied ==
  /\ vote # NoVote
  /\ listed' = ListAfter(listed, vote[1])
  /\ vote' = NoVote
  /\ UNCHANGED <<pendingChanges, wait, started, haveAccount, enabled, step, lost, srcVars>>

\* The vote does not get into the next ledger: the validation is late or the
\* pseudo-transaction does not reach consensus.
LoseVote ==
  /\ vote # NoVote /\ lost < MaxLost
  /\ vote' = NoVote
  /\ lost' = lost + 1
  /\ UNCHANGED <<pendingChanges, wait, started, haveAccount, enabled, step, listed, srcVars>>

EnableAmendment ==
  /\ ~enabled /\ enabled' = TRUE
  /\ UNCHANGED <<pendingChanges, wait, started, haveAccount, step, vote, listed, lost, srcVars>>

\* A fetch of all lists ends.
FetchSucceeds ==
  /\ HasFetcher /\ \E new \in RemoteSets : AllFetched(new)
  /\ UNCHANGED vemVars

FetchFails ==
  /\ HasFetcher /\ (SomeFailed \/ AllFailed)
  /\ UNCHANGED vemVars

CallSteps == TakeModified \/ StillReady \/ UpdatePendingChanges \/ Pop

PublisherNext ==
  \/ Initialize
  \/ GetExclusionChange
  \/ NoChangeYet
  \/ TakeModified
  \/ StillReady
  \/ UpdatePendingChanges
  \/ Pop
  \/ VoteApplied
  \/ LoseVote
  \/ EnableAmendment
  \/ FetchSucceeds
  \/ FetchFails

PublisherSpec == PublisherInit /\ [][PublisherNext]_publisherVars

\* A validator that keeps validating, a network that enables the amendment
\* and applies votes (LoseVote is not fair, and bounded), and sources that
\* answer again and again.
PublisherFairness ==
  /\ WF_publisherVars(Initialize) /\ SF_publisherVars(GetExclusionChange) /\ WF_publisherVars(CallSteps)
  /\ WF_publisherVars(VoteApplied) /\ WF_publisherVars(EnableAmendment)
  /\ SF_publisherVars(FetchSucceeds)

-----------------------------------------------------------------------------
(* Properties. *)

\* The queue holds changes, the list no more than applyValidatorVote allows.
PublisherTypeOK ==
  /\ pendingChanges \in Seq(Change)
  /\ vote \in {NoVote} \union {<<c>> : c \in Change}
  /\ listed \subseteq Excludable
  /\ wait \in 0..Interval

\* A change never leaves with a validation when the fetched lists say the
\* opposite, unless they changed during this very call and the flag is up for
\* the next one: however fetches and calls interleave, the queue is not
\* older than the flag (ValidatorExclusionManager.cpp:70-96).
ChangesAreCurrent ==
  [][vote' # vote /\ vote' # NoVote =>
       flagged \/ (vote'[1].add <=> vote'[1].account \in Target)]_publisherVars

\* docs/Exclusions.md: "When the first ledger is validated, the manager
\* compares the configured list with the on-chain state", "Differences are
\* queued as pending changes", "Changes are applied gradually": the list in
\* the ledger becomes the wanted one and stays it.
ListedEventually == <>[](listed = Target)
=============================================================================
