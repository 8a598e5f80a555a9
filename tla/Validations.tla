---------------------------- MODULE Validations ----------------------------
(***************************************************************************)
(* The validations a node holds (Validations.h), as RCLValidations.cpp     *)
(* feeds it.  The network clock and the steady clock advance together.     *)
(* The trie is the count of validators on each ledger of lastLedger_: each *)
(* change of lastLedger_ removes and inserts exactly that (LedgerTrie      *)
(* shows what the compressed trie does with it).                           *)
(***************************************************************************)
EXTENDS Integers, Sequences, FiniteSets, FiniteSetsExt, Functions

CONSTANTS
    Nodes,             \* validators, identified by their master key
    Ids, MaxSeq,       \* the tree of ledgers, as in LedgerSupport
    Offers,            \* what a validation may carry: ledger, skew, full, cookie
    MaxTime,           \* bound on the clocks
    CurrentWall,       \* validationCURRENT_WALL
    CurrentLocal,      \* validationCURRENT_LOCAL
    CurrentEarly,      \* validationCURRENT_EARLY
    SetExpires,        \* validationSET_EXPIRES
    Freshness          \* validationFRESHNESS

VARIABLES
    now,               \* the clocks
    trusted,           \* validators the node trusts (ValidatorList)
    have,              \* ledgers that LedgerMaster holds
    current,           \* current_: the latest validation of a node
    enforcer,          \* seqEnforcers_: largest sequence and when it was set
    local,             \* localSeqEnforcer_
    byLedger,          \* byLedger_: node and validation, for each ledger
    touchedLedger,     \* when each set of byLedger_ was made or last used
    bySequence,        \* bySequence_: node and validation, for each sequence
    touchedSequence,   \* when each set of bySequence_ was made or kept
    toKeep,            \* toKeep_: the sequence numbers kept from expiring
    refreshTime,       \* the static of Validations::expire
    lastLedger,        \* lastLedger_
    acquiring          \* acquiring_: pairs of a node and the ledger awaited

sets == <<enforcer, byLedger, touchedLedger, bySequence, touchedSequence>>
keep == <<toKeep, refreshTime>>
trie == <<lastLedger, acquiring>>
vars == <<now, trusted, have, current, local, sets, keep, trie>>

Standing == [l \in UNION {[1 .. n -> Ids] : n \in 0 .. MaxSeq} |->
                Cardinality({n \in DOMAIN lastLedger : lastLedger[n] = l})]
INSTANCE LedgerSupport WITH support <- Standing, MaxTotal <- Cardinality(Nodes)

ASSUME ValidationsAssumption ==
    /\ MaxTime \in Nat /\ MaxSeq \in Nat
    /\ SetExpires \in Nat /\ Freshness \in Nat
    /\ \A o \in Offers : o.ledger \in Ledgers /\ o.skew \in Int /\ o.full \in BOOLEAN

Fresh == [seq |-> 0, when |-> -SetExpires - 1]
Times == 0 .. MaxTime
Validation == [ledger : Ledgers, sign : Int, seen : Times, trusted : BOOLEAN,
               full : BOOLEAN, cookie : {o.cookie : o \in Offers}]
TypeOK ==
    /\ now \in Times /\ trusted \subseteq Nodes /\ have \subseteq Ledgers
    /\ DOMAIN current \subseteq Nodes
    /\ \A n \in DOMAIN current : current[n] \in Validation
    /\ DOMAIN enforcer \subseteq Nodes
    /\ \A n \in DOMAIN enforcer : enforcer[n] \in [seq : Nat, when : Int]
    /\ DOMAIN byLedger \subseteq Ledgers /\ DOMAIN byLedger = DOMAIN touchedLedger
    /\ \A l \in DOMAIN byLedger :
          /\ touchedLedger[l] \in Times
          /\ DOMAIN byLedger[l] \subseteq Nodes
          /\ \A n \in DOMAIN byLedger[l] : byLedger[l][n] \in Validation
    /\ DOMAIN bySequence = DOMAIN touchedSequence
    /\ refreshTime \in Int
    /\ DOMAIN lastLedger \subseteq Nodes
    /\ \A n \in DOMAIN lastLedger : lastLedger[n] \in have
    /\ acquiring \subseteq Nodes \X Ledgers

Init ==
    /\ now = 0 /\ trusted = Nodes /\ have = {<<>>}
    /\ current = <<>> /\ lastLedger = <<>> /\ acquiring = {}
    /\ enforcer = <<>> /\ local = Fresh
    /\ byLedger = <<>> /\ touchedLedger = <<>>
    /\ bySequence = <<>> /\ touchedSequence = <<>>
    /\ toKeep = {} /\ refreshTime = 0

IsCurrent(v) ==
    /\ v.sign > now - CurrentEarly
    /\ v.sign < now + CurrentWall
    /\ v.seen = 0 \/ v.seen < now + CurrentLocal

\* SeqEnforcer: what it holds when asked about s now, and whether it lets s by.
Aged(e) == IF now > e.when + SetExpires THEN [e EXCEPT !.seq = 0] ELSE e

\* Mutant of LetsBy: a sequence number may be used a second time.
LetsByEqual(e, s) == s >= Aged(e).seq

LetsBy(e, s) == s > Aged(e).seq
Enforced(e, s) == IF LetsBy(e, s) THEN [seq |-> s, when |-> now] ELSE Aged(e)

\* Maps: a lookup, an entry set, an entry made unless it is there, and the
\* entries of f put over those of g.
At(f, x, default) == IF x \in DOMAIN f THEN f[x] ELSE default
With(f, x, v) == [y \in DOMAIN f \cup {x} |-> IF y = x THEN v ELSE f[y]]
Emplaced(f, x, v) == With(f, x, At(f, x, v))
Over(f, g) == [x \in DOMAIN f \cup DOMAIN g |-> IF x \in DOMAIN f THEN f[x] ELSE g[x]]

\* checkAcquired: the ledgers that arrived become the last ledger of the nodes
\* that waited for them; `pick' is the one looked at last for each node.
Arrived(acq, n) == {a[2] : a \in {p \in acq : p[1] = n /\ p[2] \in have}}
Picks(acq) ==
    {p \in [{n \in Nodes : Arrived(acq, n) # {}} -> have] : \A n \in DOMAIN p : p[n] \in Arrived(acq, n)}
StillAwaited(acq) == {p \in acq : p[2] \notin have}

\* updateTrie for a trusted validation of node n: what the node awaited before
\* is forgotten, arrivals are taken in, then its ledger is used or awaited.
TrieState(last, acq) == [last |-> last, acq |-> acq]

\* Mutant of UpdateTrie: the prior ledger of the node is still awaited.
UpdateTrieKeepingPrior(last, acq, n, l, prior) ==
    {TrieState(IF l \in have THEN With(Over(pick, last), n, l) ELSE Over(pick, last),
               StillAwaited(acq) \cup (IF l \in have THEN {} ELSE {<<n, l>>})) : pick \in Picks(acq)}

UpdateTrie(last, acq, n, l, prior) ==
    LET mine == {<<n, p>> : p \in prior}
        less == acq \ mine
    IN  {TrieState(IF l \in have THEN With(Over(pick, last), n, l) ELSE Over(pick, last),
                   StillAwaited(less) \cup (IF l \in have THEN {} ELSE {<<n, l>>})) : pick \in Picks(less)}

\* removeTrie for the validations (node n, ledger vs[n]) that go.
RemoveTrie(last, acq, vs) ==
    TrieState(Restrict(last, {n \in DOMAIN last : ~(n \in DOMAIN vs /\ vs[n].ledger = last[n])}),
              {p \in acq : ~(p[1] \in DOMAIN vs /\ vs[p[1]].ledger = p[2])})

Becomes(t) == lastLedger' = t.last /\ acquiring' = t.acq

\* What add stores under the ledger and under the sequence number.
StoredByLedger(n, v) == With(byLedger, v.ledger, With(At(byLedger, v.ledger, <<>>), n, v))
SameSequence(n, v) ==
    LET set == At(bySequence, Len(v.ledger), <<>>)
        old == At(set, n, v)
    IN  IF v.sign - old.sign > CurrentWall THEN v ELSE old
StoredBySequence(n, v) ==
    With(bySequence, Len(v.ledger), With(At(bySequence, Len(v.ledger), <<>>), n, SameSequence(n, v)))

\* Validations::add.
AddTo(n, v) ==
    LET s == Len(v.ledger)
        e == At(enforcer, n, Fresh)
    IN  /\ IsCurrent(v)
        /\ bySequence' = StoredBySequence(n, v)
        /\ touchedSequence' = Emplaced(touchedSequence, s, now)
        /\ enforcer' = With(enforcer, n, Enforced(e, s))
        /\ \/ /\ ~LetsBy(e, s)
              /\ UNCHANGED <<byLedger, touchedLedger, current, trie>>
           \/ /\ LetsBy(e, s)
              /\ byLedger' = StoredByLedger(n, v)
              /\ touchedLedger' = Emplaced(touchedLedger, v.ledger, now)
              /\ \/ /\ n \in DOMAIN current /\ v.sign <= current[n].sign
                    /\ UNCHANGED <<current, trie>>
                 \/ /\ n \in DOMAIN current => v.sign > current[n].sign
                    /\ current' = With(current, n, v)
                    /\ IF v.trusted
                       THEN \E t \in UpdateTrie(lastLedger, acquiring, n, v.ledger,
                                        {current[m].ledger : m \in DOMAIN current \cap {n}}) : Becomes(t)
                       ELSE UNCHANGED trie

Made(n, o) == [ledger |-> o.ledger, sign |-> now + o.skew, seen |-> now,
               trusted |-> n \in trusted, full |-> o.full, cookie |-> o.cookie]

\* handleNewValidation, when the trusted keys do not change during it.
HandleNewValidation(n, o) ==
    /\ AddTo(n, Made(n, o))
    /\ UNCHANGED <<now, trusted, have, local, keep>>

Tick ==
    /\ now < MaxTime /\ now' = now + 1
    /\ UNCHANGED <<trusted, have, current, local, sets, keep, trie>>

LedgerArrives(l) ==
    /\ l \notin have /\ have' = have \cup {l}
    /\ UNCHANGED <<now, trusted, current, local, sets, keep, trie>>

\* Validations::current: the stale validations go, with their support.
Stale == Restrict(current, {n \in DOMAIN current : ~IsCurrent(current[n])})
Flushed == RemoveTrie(lastLedger, acquiring, Stale)
DropStale == current' = Restrict(current, DOMAIN current \ DOMAIN Stale)

\* Mutant of WithTrie: validations whose ledger has arrived are not looked for.
WithTrieUnchecked ==
    /\ DropStale
    /\ Becomes(Flushed)
    /\ UNCHANGED <<now, trusted, have, local, sets, keep>>

\* withTrie, which getPreferred and getNodesAfter look at the trie through.
WithTrie ==
    /\ DropStale
    /\ \E pick \in Picks(Flushed.acq) :
          Becomes(TrieState(Over(pick, Flushed.last), StillAwaited(Flushed.acq)))
    /\ UNCHANGED <<now, trusted, have, local, sets, keep>>

\* currentTrusted, getCurrentNodeIDs and laggards iterate and flush.
IterateCurrent ==
    /\ Stale # <<>>
    /\ DropStale
    /\ Becomes(Flushed)
    /\ UNCHANGED <<now, trusted, have, local, sets, keep>>

\* trustChanged: first what current_ holds, then the flags of byLedger_.
Retrusted(f, t) == [n \in DOMAIN f |-> [f[n] EXCEPT !.trusted = n \in t]]
\* The calls of updateTrie for the nodes ns, one after the other: the first one
\* takes in what arrived, and each node's ledger is used or awaited.
TrustAll(t, ns) ==
    LET held    == {n \in ns : current[n].ledger \in have}
        used    == [n \in held |-> current[n].ledger]
        awaited == {<<n, current[n].ledger>> : n \in ns \ held}
    IN  IF ns = {} THEN {t}
        ELSE {TrieState(Over(used, Over(pick, t.last)), StillAwaited(t.acq) \cup awaited) : pick \in Picks(t.acq)}
TrustChanged(t) ==
    LET added   == (t \ trusted) \cap DOMAIN current
        removed == (trusted \ t) \cap DOMAIN current
    IN  /\ t # trusted
        /\ trusted' = t
        /\ \E s \in TrustAll(RemoveTrie(lastLedger, acquiring, Restrict(current, removed)), added) : Becomes(s)
        /\ current' = [n \in DOMAIN current |->
                          IF n \in added \cup removed THEN [current[n] EXCEPT !.trusted = n \in t] ELSE current[n]]
        /\ byLedger' = [l \in DOMAIN byLedger |-> Retrusted(byLedger[l], t)]
        /\ UNCHANGED <<now, have, local, enforcer, touchedLedger, bySequence, touchedSequence, keep>>

\* canValidateSeq, asked before the node signs a validation of its own.
CanValidateSeq(s) ==
    /\ local' = Enforced(local, s)
    /\ UNCHANGED <<now, trusted, have, current, sets, keep, trie>>

\* numTrustedForLedger, getTrustedForLedger and fees touch the set they read.
ByLedger(l) ==
    /\ l \in DOMAIN byLedger
    /\ touchedLedger' = [touchedLedger EXCEPT ![l] = now]
    /\ UNCHANGED <<now, trusted, have, current, local, enforcer, byLedger, bySequence,
                   touchedSequence, keep, trie>>

SetSeqToKeep(low, high) ==
    /\ low < high
    /\ toKeep' = low .. high - 1
    /\ UNCHANGED <<now, trusted, have, current, local, sets, refreshTime, trie>>

\* expire: what is to be kept is touched when the refresh is due, then the
\* sets that were not used for SetExpires go.
Refresh == toKeep # {} /\ refreshTime <= now
KeptLedgers == IF Refresh THEN {l \in DOMAIN byLedger : Len(l) \in toKeep} ELSE {}
KeptSequences == IF Refresh THEN DOMAIN bySequence \cap toKeep ELSE {}
Outlives(touched, kept) == {x \in DOMAIN touched : x \in kept \/ touched[x] > now - SetExpires}
Expire ==
    LET ls == Outlives(touchedLedger, KeptLedgers)
        ss == Outlives(touchedSequence, KeptSequences)
    IN  /\ byLedger' = Restrict(byLedger, ls)
        /\ touchedLedger' = [l \in ls |-> IF l \in KeptLedgers THEN now ELSE touchedLedger[l]]
        /\ bySequence' = Restrict(bySequence, ss)
        /\ touchedSequence' = [s \in ss |-> IF s \in KeptSequences THEN now ELSE touchedSequence[s]]
        /\ refreshTime' = IF Refresh THEN now + SetExpires - Freshness ELSE refreshTime
        /\ UNCHANGED <<now, trusted, have, current, local, enforcer, toKeep, trie>>

Next ==
    \/ Tick \/ WithTrie \/ IterateCurrent \/ Expire
    \/ \E n \in Nodes, o \in Offers : HandleNewValidation(n, o)
    \/ \E l \in Ledgers : LedgerArrives(l) \/ ByLedger(l)
    \/ \E t \in SUBSET Nodes : TrustChanged(t)
    \/ \E s \in 1 .. MaxSeq : SetSeqToKeep(s, s + 1) \/ CanValidateSeq(s)
Spec == Init /\ [][Next]_vars
-----------------------------------------------------------------------------
\* getPreferred(curr): the ledger to work on, from the trie.
AwaitedBy(l) == Cardinality({p \in acquiring : p[2] = l})

\* Mutant of GetPreferred: also an ancestor of our own ledger is preferred.
GetPreferredByNumber(curr) ==
    IF DOMAIN lastLedger = {} THEN {} ELSE {Preferred(Standing, local.seq)}

GetPreferred(curr) ==
    LET p == Preferred(Standing, local.seq)
        q == {l \in Ledgers : AwaitedBy(l) > 0}
    IN  IF DOMAIN lastLedger = {}
        THEN {l \in q : \A o \in q : AwaitedBy(o) <= AwaitedBy(l)}
        ELSE IF Len(p) = Len(curr) + 1 /\ IsAncestor(curr, p) THEN {curr}
        ELSE IF Len(p) > Len(curr) \/ ~IsAncestor(p, curr) THEN {p} ELSE {curr}

\* A node is waited for on a ledger only because its current validation, from
\* a validator that is trusted now, is for that ledger.
AwaitedIsCurrent ==
    \A p \in acquiring :
        /\ p[1] \in DOMAIN current \cap trusted
        /\ current[p[1]].ledger = p[2]

\* A trusted validator with a current validation stands on its ledger in the
\* trie, or is awaited there.
StandsOn(last, n, l) == n \in DOMAIN last /\ last[n] = l
StandsOrAwaited ==
    \A n \in DOMAIN current \cap trusted :
        \/ <<n, current[n].ledger>> \in acquiring
        \/ StandsOn(lastLedger, n, current[n].ledger)

\* However newer validations, late ledgers, changes of trust and expiry fall,
\* no validation of a trusted validator is lost on its way to the trie, and
\* what replaces, drops or distrusts a validation also ends the wait for it.
TrieFollows == AwaitedIsCurrent /\ StandsOrAwaited

\* Looking at the trie leaves it up to date: a trusted validator whose
\* validated ledger is held stands on that ledger, and is awaited nowhere.
TrieCatchesUp ==
    [][WithTrie => \A n \in DOMAIN current' \cap trusted :
          current'[n].ledger \in have =>
              /\ n \in DOMAIN lastLedger' /\ lastLedger'[n] = current'[n].ledger
              /\ \A p \in acquiring' : p[1] # n]_vars

\* Once the trie has caught up with the ledgers held, as it has when
\* getPreferred looks, a node that holds its working ledger and its ancestors
\* is never sent back to one of those ancestors, neither by the support of the
\* trie nor by the ledgers that are only being acquired.
NeverRewinds ==
    StillAwaited(acquiring) = acquiring =>
        \A curr \in have :
            (\A s \in 0 .. Len(curr) : Ancestor(curr, s) \in have) =>
                \A p \in GetPreferred(curr) : p = curr \/ ~IsAncestor(p, curr)

\* A validator never counts for two ledgers of one sequence number unless the
\* validations are further apart than the expiry of the sequence enforcer.
NoDoubleCount ==
    \A a, b \in DOMAIN byLedger :
        \A n \in DOMAIN byLedger[a] \cap DOMAIN byLedger[b] :
            a # b /\ Len(a) = Len(b) =>
                \/ byLedger[a][n].seen - byLedger[b][n].seen > SetExpires
                \/ byLedger[b][n].seen - byLedger[a][n].seen > SetExpires

\* A sweep never drops the validations of a ledger whose sequence number is to
\* be kept, however the sweeps fall between the refreshes, when the ledger's
\* set was made after the last refresh or was refreshed by it.
KeptSurvives ==
    [][Expire => \A l \in DOMAIN byLedger :
          Len(l) \in toKeep /\ touchedLedger[l] >= refreshTime - (SetExpires - Freshness)
              => l \in DOMAIN byLedger']_vars

\* Looking at the trie leaves it up to date: a trusted validator whose
\* validated ledger is held stands on that ledger and is awaited nowhere; and
\* a sweep never drops the validations of a ledger that is to be kept,
\* however sweeps fall between refreshes.
ValidationsReachTrie ==
    /\ TrieCatchesUp
    /\ KeptSurvives
=============================================================================
