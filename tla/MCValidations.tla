-------------------- MODULE MCValidations --------------------
(* Validations of ledgers, instantiated for TLC: the sets they are kept in, *)
(* and the trie that weighs them.                                           *)
EXTENDS Validations, TLC

\* The component that moves in a behaviour; the others stay as they start.
VARIABLE scenario

\* the trie of supported ledgers (LedgerTrie)
VARIABLES
    ltNodes, ltSeqSupport

Offer(l) == [ledger |-> l, skew |-> 0, full |-> TRUE, cookie |-> 0]

\* A ledger and its child; two ledgers of the same sequence number.
Chain == {Offer(<<1>>), Offer(<<1, 1>>)}

Siblings == {Offer(<<1>>), Offer(<<2>>)}

MCOffers == Chain \cup Siblings

MCIds == {1, 2}

NodeSymmetry == Permutations(Nodes)

\* Validations of a chain of ledgers, and the trie that follows them.
FollowingNext ==
    \/ Tick /\ now < 2
    \/ WithTrie \/ IterateCurrent
    \/ \E o \in Chain : LedgerArrives(o.ledger) \/ \E n \in Nodes : HandleNewValidation(n, o)
    \/ \E t \in SUBSET Nodes : TrustChanged(t)

\* The sets of validations and their expiry, for the validations of one node
\* on competing ledgers.
ExpiringNext ==
    \/ Tick \/ Expire
    \/ \E o \in Siblings :
          \/ ByLedger(o.ledger)
          \/ \E n \in Nodes : DOMAIN enforcer \subseteq {n} /\ HandleNewValidation(n, o)
    \/ \E s \in 1 .. MaxSeq : SetSeqToKeep(s, s + 1) \/ CanValidateSeq(s)

ltVars == <<ltNodes, ltSeqSupport>>

Trie == INSTANCE LedgerTrie WITH
    nodes <- ltNodes, seqSupport <- ltSeqSupport, Ids <- {1, 2}, MaxSeq <- 3,
    MaxTotal <- 3, Counts <- {1, 2}

Forks == INSTANCE LedgerTrie WITH
    nodes <- ltNodes, seqSupport <- ltSeqSupport, Ids <- {1, 2}, MaxSeq <- 2,
    MaxTotal <- 5, Counts <- {1}

mcVars == <<scenario, vars, ltVars>>

\* What the components other than the one of the scenario do.
Rest(c) ==
    /\ UNCHANGED scenario
    /\ c # "Validations" => UNCHANGED vars
    /\ c # "LedgerTrie" => UNCHANGED ltVars

MCInit ==
    /\ scenario \in {"following", "expiring", "trie", "forks"}
    /\ Init
    /\ IF scenario = "trie" THEN Trie!TrieInit ELSE Forks!TrieInit

MCNext ==
    \/ scenario = "following" /\ FollowingNext /\ Rest("Validations")
    \/ scenario = "expiring" /\ ExpiringNext /\ Rest("Validations")
    \/ scenario = "trie" /\ Trie!TrieNext /\ Rest("LedgerTrie")
    \/ scenario = "forks" /\ Forks!TrieNext /\ Rest("LedgerTrie")

MCSpec == MCInit /\ [][MCNext]_mcVars

\* However spans of the trie were split and merged on the way, branch support
\* counts every validator once on each ledger and its ancestors, the checks
\* of checkInvariants hold, and getPreferred, which jumps over spans and over
\* sequence numbers without support, finds the ledger that the walk one
\* sequence number at a time finds; a fork that the validators have decided
\* stays decided.
TriePreferredIsWalk ==
    /\ scenario = "trie" => Trie!BranchIsCounted
    /\ scenario = "trie" => Trie!CheckInvariants
    /\ scenario = "trie" => Trie!PreferredIsWalk
    /\ scenario = "forks" => Forks!ForkStaysDecided

\* The trie implements the plain count: every insertion and removal, with its
\* splits and merges, changes the tip support of that one ledger by exactly
\* the count, or by what is left of it.
TrieImplementsSupport == Trie!ImplementsSupport

============================================================
