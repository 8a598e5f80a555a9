------------------------- MODULE ValidationsProofs --------------------------
(***************************************************************************)
(* Proofs about Validations, for every set of validators, tree of ledgers  *)
(* and choice of the time parameters.                                      *)
(***************************************************************************)
EXTENDS Validations, TLAPS

\* The sequence number of a ledger is a natural number.
LEMMA SequenceNumber == \A l \in Ledgers : Len(l) \in Nat
  BY DEF Ledgers

\* The empty map has no keys.
LEMMA EmptyMap == DOMAIN <<>> = {}
  OBVIOUS

\* The times at which the stored validations were seen are numbers.
LEMMA SeenType ==
  ASSUME TypeOK
  PROVE  \A l \in DOMAIN byLedger : \A n \in DOMAIN byLedger[l] : byLedger[l][n].seen \in Int
<1>1. \A l \in DOMAIN byLedger : \A n \in DOMAIN byLedger[l] : byLedger[l][n] \in Validation
  BY Zenon DEF TypeOK
<1>2. ASSUME NEW v \in Validation PROVE v.seen \in Int
  BY DEF Validation, Times
<1> QED
  BY <1>1, <1>2, Zenon

\* What handleNewValidation makes is a validation.
LEMMA MadeType ==
  ASSUME TypeOK, NEW n \in Nodes, NEW o \in Offers
  PROVE  Made(n, o) \in Validation
<1>1. now \in Int /\ now \in Times
  BY ValidationsAssumption DEF TypeOK, Times
<1>2. o.ledger \in Ledgers /\ o.skew \in Int /\ o.full \in BOOLEAN
  BY ValidationsAssumption
<1> QED
  BY <1>1, <1>2 DEF Made, Validation

\* Setting the trust flag of a validation changes nothing else.
LEMMA FlagSet ==
  ASSUME NEW v \in Validation, NEW n, NEW t
  PROVE  /\ [v EXCEPT !.trusted = n \in t] \in Validation
         /\ [v EXCEPT !.trusted = n \in t].ledger = v.ledger
         /\ [v EXCEPT !.trusted = n \in t].seen = v.seen
<1>1. ASSUME NEW b \in BOOLEAN
      PROVE  /\ [v EXCEPT !.trusted = b] \in Validation
             /\ [v EXCEPT !.trusted = b].ledger = v.ledger
             /\ [v EXCEPT !.trusted = b].seen = v.seen
  BY DEF Validation
<1>2. (n \in t) \in BOOLEAN
  OBVIOUS
<1> QED
  BY <1>1, <1>2, Zenon

\* What the sequence enforcer holds after it was asked.
LEMMA EnforcedType ==
  ASSUME NEW e \in [seq : Nat, when : Int], NEW s \in Nat, now \in Int
  PROVE  /\ Aged(e) \in [seq : Nat, when : Int]
         /\ Aged(e).when = e.when
         /\ Aged(e).seq \in {0, e.seq}
         /\ Aged(e).seq # e.seq => now > e.when + SetExpires
         /\ Enforced(e, s) \in [seq : Nat, when : Int]
  BY ValidationsAssumption DEF Aged, Enforced, LetsBy

\* A node nothing was held of has a fresh enforcer.
LEMMA EnforcerOf ==
  ASSUME TypeOK, NEW n \in Nodes
  PROVE  At(enforcer, n, Fresh) \in [seq : Nat, when : Int]
<1>1. Fresh \in [seq : Nat, when : Int]
  BY ValidationsAssumption DEF Fresh
<1> QED
  BY <1>1 DEF At, TypeOK

-----------------------------------------------------------------------------
(* Type correctness. *)

\* The part of TypeOK about lastLedger_ and acquiring_, for a state of the trie.
TrieType(last, acq) ==
    /\ DOMAIN last \subseteq Nodes
    /\ \A n \in DOMAIN last : last[n] \in have
    /\ acq \subseteq Nodes \X Ledgers

\* What arrived and was picked for a node is held and was awaited for it.
LEMMA PickFacts ==
  ASSUME NEW acq, acq \subseteq Nodes \X Ledgers, NEW pick \in Picks(acq)
  PROVE  /\ DOMAIN pick \subseteq Nodes
         /\ \A n \in DOMAIN pick : pick[n] \in have
         /\ \A n \in DOMAIN pick : <<n, pick[n]>> \in acq
         /\ \A p \in acq : p[2] \in have => p[1] \in DOMAIN pick
<1>1. DOMAIN pick = {n \in Nodes : Arrived(acq, n) # {}}
  BY DEF Picks
<1>2. \A n \in DOMAIN pick : pick[n] \in have /\ pick[n] \in Arrived(acq, n)
  BY DEF Picks
<1>3. \A n \in Nodes : \A l : l \in Arrived(acq, n) => <<n, l>> \in acq
  BY DEF Arrived
<1>4. \A p \in acq : p[2] \in have => Arrived(acq, p[1]) # {} /\ p[1] \in Nodes
  BY DEF Arrived
<1> QED
  BY <1>1, <1>2, <1>3, <1>4

\* updateTrie keeps the type of the trie.
LEMMA UpdateTrieType ==
  ASSUME NEW last, NEW acq, TrieType(last, acq), NEW n \in Nodes, NEW l \in Ledgers,
         NEW prior, NEW t \in UpdateTrie(last, acq, n, l, prior)
  PROVE  TrieType(t.last, t.acq)
<1> DEFINE less == acq \ {<<n, p>> : p \in prior}
<1>1. PICK pick \in Picks(less) :
         t = TrieState(IF l \in have THEN With(Over(pick, last), n, l) ELSE Over(pick, last),
                       StillAwaited(less) \cup (IF l \in have THEN {} ELSE {<<n, l>>}))
  BY DEF UpdateTrie
<1>2. less \subseteq Nodes \X Ledgers
  BY DEF TrieType
<1>3. DOMAIN pick \subseteq Nodes /\ \A m \in DOMAIN pick : pick[m] \in have
  BY <1>2, PickFacts
<1> HIDE DEF less
<1>4. /\ DOMAIN Over(pick, last) \subseteq Nodes
      /\ \A m \in DOMAIN Over(pick, last) : Over(pick, last)[m] \in have
  BY <1>3 DEF Over, TrieType
<1> DEFINE took == Over(pick, last)
<1> HIDE DEF took
<1>5. /\ t.last = IF l \in have THEN With(took, n, l) ELSE took
      /\ t.acq = StillAwaited(less) \cup (IF l \in have THEN {} ELSE {<<n, l>>})
  BY <1>1 DEF TrieState, took
<1>6. /\ DOMAIN t.last \subseteq Nodes
      /\ \A m \in DOMAIN t.last : t.last[m] \in have
  BY <1>4, <1>5 DEF With, took
<1>7. t.acq \subseteq Nodes \X Ledgers
  BY <1>2, <1>5 DEF StillAwaited
<1> QED
  BY <1>6, <1>7 DEF TrieType

\* removeTrie keeps the type of the trie.
LEMMA RemoveTrieType ==
  ASSUME NEW last, NEW acq, TrieType(last, acq), NEW vs
  PROVE  TrieType(RemoveTrie(last, acq, vs).last, RemoveTrie(last, acq, vs).acq)
  BY DEF RemoveTrie, TrieState, TrieType, Restrict

\* The calls of updateTrie from trustChanged keep the type of the trie.
LEMMA TrustAllType ==
  ASSUME TypeOK, NEW t, TrieType(t.last, t.acq), NEW ns \in SUBSET (Nodes \cap DOMAIN current),
         NEW s \in TrustAll(t, ns)
  PROVE  TrieType(s.last, s.acq)
<1>1. CASE ns = {}
  BY <1>1 DEF TrustAll
<1>2. CASE ns # {}
  <2> DEFINE held == {n \in ns : current[n].ledger \in have}
             used == [n \in held |-> current[n].ledger]
             awaited == {<<n, current[n].ledger>> : n \in ns \ held}
  <2>1. PICK pick \in Picks(t.acq) :
          s = TrieState(Over(used, Over(pick, t.last)), StillAwaited(t.acq) \cup awaited)
    BY <1>2 DEF TrustAll
  <2>2. DOMAIN pick \subseteq Nodes /\ \A m \in DOMAIN pick : pick[m] \in have
    BY PickFacts DEF TrieType
  <2>3. awaited \subseteq Nodes \X Ledgers
    BY DEF TypeOK, Validation
  <2>4. DOMAIN used \subseteq Nodes /\ \A m \in DOMAIN used : used[m] \in have
    OBVIOUS
  <2> HIDE DEF used, awaited
  <2>5. /\ DOMAIN Over(pick, t.last) \subseteq Nodes
        /\ \A m \in DOMAIN Over(pick, t.last) : Over(pick, t.last)[m] \in have
    BY <2>2 DEF Over, TrieType
  <2>6. /\ DOMAIN s.last \subseteq Nodes
        /\ \A m \in DOMAIN s.last : s.last[m] \in have
    BY <2>1, <2>4, <2>5, Zenon DEF Over, TrieState
  <2>7. s.acq \subseteq Nodes \X Ledgers
    BY <2>1, <2>3 DEF StillAwaited, TrieState, TrieType
  <2> QED
    BY <2>6, <2>7 DEF TrieType
<1> QED
  BY <1>1, <1>2

\* What Validations::add stores has its type.
LEMMA AddType ==
  ASSUME TypeOK, NEW n \in Nodes, NEW v \in Validation, AddTo(n, v),
         UNCHANGED <<now, trusted, have, local, keep>>
  PROVE  TypeOK'
<1> DEFINE s == Len(v.ledger)
           e == At(enforcer, n, Fresh)
<1>1. v.ledger \in Ledgers /\ s \in Nat /\ now \in Int /\ now \in Times
  BY SequenceNumber DEF Validation, TypeOK, Times
<1>2. e \in [seq : Nat, when : Int]
  BY EnforcerOf
<1>3. Enforced(e, s) \in [seq : Nat, when : Int]
  BY <1>1, <1>2, EnforcedType, Zenon
<1>4. /\ DOMAIN enforcer' \subseteq Nodes
      /\ \A m \in DOMAIN enforcer' : enforcer'[m] \in [seq : Nat, when : Int]
  <2>1. enforcer' = With(enforcer, n, Enforced(e, s))
    BY DEF AddTo
  <2> QED
    BY <1>3, <2>1 DEF With, TypeOK
<1>5. DOMAIN bySequence' = DOMAIN touchedSequence'
  BY DEF AddTo, StoredBySequence, Emplaced, With, TypeOK
<1>6. UNCHANGED <<now, trusted, have, refreshTime>>
  BY DEF keep
<1>7. CASE ~LetsBy(e, s)
  <2>1. UNCHANGED <<byLedger, touchedLedger, current, lastLedger, acquiring>>
    BY <1>7 DEF AddTo, trie
  <2> QED
    BY <1>4, <1>5, <1>6, <2>1 DEF TypeOK
<1>8. CASE LetsBy(e, s)
  <2>1. /\ byLedger' = With(byLedger, v.ledger, With(At(byLedger, v.ledger, <<>>), n, v))
        /\ touchedLedger' = With(touchedLedger, v.ledger, At(touchedLedger, v.ledger, now))
    BY <1>8 DEF AddTo, StoredByLedger, Emplaced
  <2>2. /\ DOMAIN byLedger' \subseteq Ledgers /\ DOMAIN byLedger' = DOMAIN touchedLedger'
        /\ \A l \in DOMAIN byLedger' : touchedLedger'[l] \in Times
    BY <1>1, <2>1 DEF With, At, TypeOK
  <2> DEFINE old == At(byLedger, v.ledger, <<>>)
  <2>3. DOMAIN old \subseteq Nodes /\ \A m \in DOMAIN old : old[m] \in Validation
    BY EmptyMap DEF At, TypeOK
  <2> HIDE DEF old
  <2>4. /\ DOMAIN With(old, n, v) \subseteq Nodes
        /\ \A m \in DOMAIN With(old, n, v) : With(old, n, v)[m] \in Validation
    BY <2>3 DEF With
  <2> DEFINE new == With(old, n, v)
  <2>5. byLedger' = With(byLedger, v.ledger, new)
    BY <2>1 DEF old
  <2> HIDE DEF new
  <2>6. \A l \in DOMAIN byLedger' :
          /\ DOMAIN byLedger'[l] \subseteq Nodes
          /\ \A m \in DOMAIN byLedger'[l] : byLedger'[l][m] \in Validation
    BY <2>4, <2>5, Zenon DEF With, new, TypeOK
  <2>7. DOMAIN current' \subseteq Nodes /\ \A m \in DOMAIN current' : current'[m] \in Validation
    <3>1. current' = current \/ current' = With(current, n, v)
      BY <1>8 DEF AddTo
    <3> QED
      BY <3>1 DEF With, TypeOK
  <2>8. TrieType(lastLedger', acquiring')
    <3>1. TrieType(lastLedger, acquiring)
      BY DEF TrieType, TypeOK
    <3>2. CASE UNCHANGED trie
      BY <3>1, <3>2 DEF trie
    <3>3. CASE \E p : \E t \in UpdateTrie(lastLedger, acquiring, n, v.ledger, p) : Becomes(t)
      BY <1>1, <3>1, <3>3, UpdateTrieType DEF Becomes
    <3> QED
      BY <1>8, <3>2, <3>3, Zenon DEF AddTo
  <2> QED
    BY <1>4, <1>5, <1>6, <2>2, <2>6, <2>7, <2>8 DEF TypeOK, TrieType
<1> QED
  BY <1>7, <1>8

\* Dropping the stale validations, with the trie changed to one of its type.
LEMMA DropType ==
  ASSUME TypeOK, DropStale, TrieType(lastLedger', acquiring'),
         UNCHANGED <<now, trusted, have, local, sets, keep>>
  PROVE  TypeOK'
<1>1. DOMAIN current' \subseteq Nodes /\ \A n \in DOMAIN current' : current'[n] \in Validation
  BY DEF TypeOK, DropStale, Restrict
<1>2. UNCHANGED <<now, trusted, have, enforcer, byLedger, touchedLedger, bySequence,
                  touchedSequence, refreshTime>>
  BY DEF sets, keep
<1> QED
  BY <1>1, <1>2 DEF TypeOK, TrieType

\* Every step keeps the types.
LEMMA NextType ==
  ASSUME TypeOK, [Next]_vars
  PROVE  TypeOK'
<1>0. TrieType(lastLedger, acquiring) /\ TrieType(Flushed.last, Flushed.acq)
  <2>1. TrieType(lastLedger, acquiring)
    BY DEF TrieType, TypeOK
  <2> QED
    BY <2>1, RemoveTrieType DEF Flushed
<1>1. CASE Tick
  BY <1>1, ValidationsAssumption DEF Tick, TypeOK, Times, Validation, sets, keep, trie
<1>2. CASE WithTrie
  <2>1. PICK pick \in Picks(Flushed.acq) :
          Becomes(TrieState(Over(pick, Flushed.last), StillAwaited(Flushed.acq)))
    BY <1>2 DEF WithTrie
  <2>2. DOMAIN pick \subseteq Nodes /\ \A n \in DOMAIN pick : pick[n] \in have
    BY <1>0, PickFacts DEF TrieType
  <2>3. TrieType(Over(pick, Flushed.last), StillAwaited(Flushed.acq))
    BY <1>0, <2>2 DEF TrieType, Over, StillAwaited
  <2>4. TrieType(lastLedger', acquiring')
    BY <2>1, <2>3 DEF Becomes, TrieState
  <2> QED
    BY <1>2, <2>4, DropType DEF WithTrie
<1>3. CASE IterateCurrent
  <2>1. TrieType(lastLedger', acquiring')
    BY <1>0, <1>3 DEF IterateCurrent, Becomes
  <2> QED
    BY <1>3, <2>1, DropType DEF IterateCurrent
<1>4. CASE Expire
  <2> DEFINE ls == Outlives(touchedLedger, KeptLedgers)
  <2>1. /\ byLedger' = Restrict(byLedger, ls)
        /\ touchedLedger' = [l \in ls |-> IF l \in KeptLedgers THEN now ELSE touchedLedger[l]]
        /\ DOMAIN bySequence' = DOMAIN touchedSequence'
    BY <1>4 DEF Expire, Restrict
  <2>2. ls \subseteq DOMAIN byLedger
    BY DEF Outlives, TypeOK
  <2> HIDE DEF ls
  <2>3. refreshTime' \in Int
    BY <1>4, ValidationsAssumption DEF Expire, TypeOK, Times
  <2>4. UNCHANGED <<now, trusted, have, current, enforcer, lastLedger, acquiring>>
    BY <1>4 DEF Expire, trie
  <2> QED
    BY <2>1, <2>2, <2>3, <2>4 DEF TypeOK, Restrict
<1>5. CASE \E n \in Nodes, o \in Offers : HandleNewValidation(n, o)
  BY <1>5, MadeType, AddType DEF HandleNewValidation
<1>6. CASE \E l \in Ledgers : LedgerArrives(l)
  BY <1>6 DEF LedgerArrives, TypeOK, sets, keep, trie
<1>7. CASE \E l \in Ledgers : ByLedger(l)
  BY <1>7 DEF ByLedger, TypeOK, keep, trie
<1>8. CASE \E t \in SUBSET Nodes : TrustChanged(t)
  <2>1. PICK t \in SUBSET Nodes : TrustChanged(t)
    BY <1>8
  <2> DEFINE added == (t \ trusted) \cap DOMAIN current
             removed == (trusted \ t) \cap DOMAIN current
             r == RemoveTrie(lastLedger, acquiring, Restrict(current, removed))
  <2>2. PICK s \in TrustAll(r, added) : Becomes(s)
    BY <2>1 DEF TrustChanged
  <2>3. TrieType(r.last, r.acq)
    BY <1>0, RemoveTrieType
  <2>4. added \in SUBSET (Nodes \cap DOMAIN current)
    BY DEF TypeOK
  <2> HIDE DEF r
  <2>5. TrieType(lastLedger', acquiring')
    BY <2>2, <2>3, <2>4, TrustAllType DEF Becomes
  <2>6. DOMAIN current' \subseteq Nodes /\ \A n \in DOMAIN current' : current'[n] \in Validation
    <3>1. DOMAIN current' = DOMAIN current
      BY <2>1 DEF TrustChanged
    <3>2. \A n \in DOMAIN current : \/ current'[n] = current[n]
                                    \/ current'[n] = [current[n] EXCEPT !.trusted = n \in t]
      BY <2>1 DEF TrustChanged
    <3>3. \A n \in DOMAIN current : [current[n] EXCEPT !.trusted = n \in t] \in Validation
      BY FlagSet DEF TypeOK
    <3> QED
      BY <3>1, <3>2, <3>3 DEF TypeOK
  <2>7. byLedger' = [l \in DOMAIN byLedger |-> Retrusted(byLedger[l], t)]
    BY <2>1 DEF TrustChanged
  <2>8. \A l \in DOMAIN byLedger :
          /\ DOMAIN byLedger'[l] \subseteq Nodes
          /\ \A n \in DOMAIN byLedger'[l] : byLedger'[l][n] \in Validation
    <3>1. \A l \in DOMAIN byLedger : \A n \in DOMAIN byLedger[l] :
            [byLedger[l][n] EXCEPT !.trusted = n \in t] \in Validation
      BY FlagSet DEF TypeOK
    <3> QED
      BY <2>7, <3>1, Zenon DEF Retrusted, TypeOK
  <2>9. UNCHANGED <<now, have, enforcer, touchedLedger, bySequence, touchedSequence, refreshTime>>
    BY <2>1 DEF TrustChanged, keep
  <2>10. trusted' \subseteq Nodes
    BY <2>1 DEF TrustChanged
  <2> QED
    BY <2>5, <2>6, <2>7, <2>8, <2>9, <2>10 DEF TypeOK, TrieType
<1>9. CASE \E s \in 1 .. MaxSeq : SetSeqToKeep(s, s + 1) \/ CanValidateSeq(s)
  BY <1>9 DEF SetSeqToKeep, CanValidateSeq, TypeOK, sets, keep, trie
<1>10. CASE UNCHANGED vars
  BY <1>10 DEF vars, TypeOK, sets, keep, trie
<1> QED
  BY <1>1, <1>2, <1>3, <1>4, <1>5, <1>6, <1>7, <1>8, <1>9, <1>10 DEF Next

\* The state of Validations has its type: every map has keys and entries of
\* its kind, and a ledger a validator stands on is one the node holds.
THEOREM TypeCorrect == Spec => []TypeOK
<1>1. Init => TypeOK
  BY EmptyMap, ValidationsAssumption DEF Init, TypeOK, Times, Ledgers
<1>2. TypeOK /\ [Next]_vars => TypeOK'
  BY NextType
<1> QED
  BY <1>1, <1>2, PTL DEF Spec

-----------------------------------------------------------------------------
(* A validator counts once.  What protects byLedger_ is the sequence       *)
(* enforcer of each validator, so the invariant relates the two: a         *)
(* validation that is still kept is covered by the enforcer, or was seen   *)
(* longer ago than the enforcer remembers.                                 *)

EnforcerRemembers ==
    \A l \in DOMAIN byLedger : \A n \in DOMAIN byLedger[l] :
        /\ n \in DOMAIN enforcer
        /\ byLedger[l][n].seen <= enforcer[n].when
        /\ enforcer[n].when <= now
        /\ Len(l) <= enforcer[n].seq \/ now > byLedger[l][n].seen + SetExpires

CountInv == EnforcerRemembers /\ NoDoubleCount

\* Steps that drop entries of byLedger_ or change only trust flags in it,
\* while time may pass, keep the invariant.
LEMMA FewerEntries ==
  ASSUME TypeOK, CountInv, TypeOK', UNCHANGED enforcer, now <= now',
         DOMAIN byLedger' \subseteq DOMAIN byLedger,
         \A l \in DOMAIN byLedger' :
            /\ DOMAIN byLedger'[l] = DOMAIN byLedger[l]
            /\ \A n \in DOMAIN byLedger[l] : byLedger'[l][n].seen = byLedger[l][n].seen
  PROVE  CountInv'
<1>1. now \in Int /\ now' \in Int /\ SetExpires \in Int
  BY ValidationsAssumption DEF TypeOK, Times
<1>2. \A l \in DOMAIN byLedger : \A n \in DOMAIN byLedger[l] : byLedger[l][n].seen \in Int
  BY SeenType
<1>3. \A n \in DOMAIN enforcer : enforcer[n].when \in Int /\ enforcer[n].seq \in Int
  BY DEF TypeOK
<1>4. EnforcerRemembers'
  <2> SUFFICES ASSUME NEW l \in DOMAIN byLedger', NEW n \in DOMAIN byLedger'[l]
               PROVE  /\ n \in DOMAIN enforcer'
                      /\ byLedger'[l][n].seen <= enforcer'[n].when
                      /\ enforcer'[n].when <= now'
                      /\ Len(l) <= enforcer'[n].seq \/ now' > byLedger'[l][n].seen + SetExpires
    BY DEF EnforcerRemembers
  <2>1. l \in DOMAIN byLedger /\ n \in DOMAIN byLedger[l] /\ byLedger'[l][n].seen = byLedger[l][n].seen
    OBVIOUS
  <2>2. /\ n \in DOMAIN enforcer
        /\ byLedger[l][n].seen <= enforcer[n].when
        /\ enforcer[n].when <= now
        /\ Len(l) <= enforcer[n].seq \/ now > byLedger[l][n].seen + SetExpires
    BY <2>1, Zenon DEF CountInv, EnforcerRemembers
  <2>3. byLedger[l][n].seen \in Int /\ enforcer[n].when \in Int
    BY <1>2, <1>3, <2>1, <2>2
  <2> QED
    BY <1>1, <2>1, <2>2, <2>3
<1>5. NoDoubleCount'
  BY DEF CountInv, NoDoubleCount
<1> QED
  BY <1>4, <1>5 DEF CountInv

\* Validations::add keeps the invariant.
LEMMA AddCounts ==
  ASSUME TypeOK, CountInv, NEW n \in Nodes, NEW v \in Validation, v.seen = now, AddTo(n, v),
         UNCHANGED now
  PROVE  CountInv'
<1> DEFINE s == Len(v.ledger)
           e == At(enforcer, n, Fresh)
           f == Enforced(e, s)
<1>1. v.ledger \in Ledgers /\ s \in Nat /\ now \in Int /\ SetExpires \in Nat
  BY SequenceNumber, ValidationsAssumption DEF Validation, TypeOK, Times
<1>2. e \in [seq : Nat, when : Int]
  BY EnforcerOf, Zenon
<1>3. /\ f \in [seq : Nat, when : Int] /\ Aged(e).when = e.when /\ Aged(e).seq \in Nat
      /\ Aged(e).seq # e.seq => now > e.when + SetExpires
  BY <1>1, <1>2, EnforcedType, Zenon
<1>4. enforcer' = With(enforcer, n, f)
  BY DEF AddTo
<1>5. \A l \in DOMAIN byLedger : \A m \in DOMAIN byLedger[l] :
        byLedger[l][m].seen \in Int /\ Len(l) \in Nat
  BY SequenceNumber DEF TypeOK, Validation, Times
<1>6. \A l \in DOMAIN byLedger : n \in DOMAIN byLedger[l] =>
        /\ byLedger[l][n].seen <= e.when /\ e.when <= now
        /\ Len(l) <= e.seq \/ now > byLedger[l][n].seen + SetExpires
  BY DEF CountInv, EnforcerRemembers, At
<1> HIDE DEF e, f, s
<1>7. CASE ~LetsBy(e, s)
  <2>1. UNCHANGED byLedger
    BY <1>7 DEF AddTo, e, s
  <2>2. f = Aged(e)
    BY <1>7 DEF Enforced, f
  <2>3. \A l \in DOMAIN byLedger : n \in DOMAIN byLedger[l] =>
          /\ byLedger[l][n].seen <= f.when /\ f.when <= now
          /\ Len(l) <= f.seq \/ now > byLedger[l][n].seen + SetExpires
    <3> SUFFICES ASSUME NEW l \in DOMAIN byLedger, n \in DOMAIN byLedger[l]
                 PROVE  /\ byLedger[l][n].seen <= f.when /\ f.when <= now
                        /\ Len(l) <= f.seq \/ now > byLedger[l][n].seen + SetExpires
      OBVIOUS
    <3>1. /\ byLedger[l][n].seen <= e.when /\ e.when <= now
          /\ Len(l) <= e.seq \/ now > byLedger[l][n].seen + SetExpires
          /\ byLedger[l][n].seen \in Int /\ Len(l) \in Nat
      BY <1>5, <1>6, Zenon
    <3>2. e.when \in Int /\ e.seq \in Nat /\ f.when = e.when
          /\ f.seq \in Nat /\ (f.seq # e.seq => now > e.when + SetExpires)
      BY <1>2, <1>3, <2>2
    <3> QED
      BY <1>1, <3>1, <3>2
  <2>4. EnforcerRemembers'
    BY <1>4, <2>1, <2>3 DEF CountInv, EnforcerRemembers, With
  <2> QED
    BY <2>1, <2>4 DEF CountInv, NoDoubleCount
<1>8. CASE LetsBy(e, s)
  <2>1. f = [seq |-> s, when |-> now] /\ s > Aged(e).seq
    BY <1>8 DEF Enforced, LetsBy, f
  <2> DEFINE old == At(byLedger, v.ledger, <<>>)
             new == With(old, n, v)
  <2>2. byLedger' = With(byLedger, v.ledger, new)
    BY <1>8 DEF AddTo, StoredByLedger, e, s
  <2>3. \A l \in DOMAIN byLedger' : \A m \in DOMAIN byLedger'[l] :
          \/ l = v.ledger /\ m = n /\ byLedger'[l][m] = v
          \/ l \in DOMAIN byLedger /\ m \in DOMAIN byLedger[l]
                /\ byLedger'[l][m] = byLedger[l][m] /\ <<l, m>> # <<v.ledger, n>>
    BY <2>2, EmptyMap DEF With, At
  <2>4. \A l \in DOMAIN byLedger : n \in DOMAIN byLedger[l] =>
          Len(l) < s \/ now > byLedger[l][n].seen + SetExpires
    <3> SUFFICES ASSUME NEW l \in DOMAIN byLedger, n \in DOMAIN byLedger[l]
                 PROVE  Len(l) < s \/ now > byLedger[l][n].seen + SetExpires
      OBVIOUS
    <3>1. /\ byLedger[l][n].seen <= e.when
          /\ Len(l) <= e.seq \/ now > byLedger[l][n].seen + SetExpires
          /\ byLedger[l][n].seen \in Int /\ Len(l) \in Nat
      BY <1>5, <1>6, Zenon
    <3>2. e.when \in Int /\ e.seq \in Nat
      BY <1>2
    <3>3. s \in Nat /\ now \in Int /\ SetExpires \in Int /\ Aged(e).seq \in Nat /\ s > Aged(e).seq
      BY <1>1, <1>3, <2>1
    <3>4. CASE Aged(e).seq = e.seq
      BY <3>1, <3>2, <3>3, <3>4
    <3>5. CASE Aged(e).seq # e.seq
      <4>1. now > e.when + SetExpires
        BY <1>3, <3>5
      <4> QED
        BY <3>1, <3>2, <3>3, <4>1
    <3> QED
      BY <3>4, <3>5, Zenon
  <2> HIDE DEF old, new
  <2>5. EnforcerRemembers'
    <3>1. ASSUME NEW l \in DOMAIN byLedger', NEW m \in DOMAIN byLedger'[l]
          PROVE  /\ m \in DOMAIN enforcer'
                 /\ byLedger'[l][m].seen <= enforcer'[m].when
                 /\ enforcer'[m].when <= now'
                 /\ Len(l) <= enforcer'[m].seq \/ now' > byLedger'[l][m].seen + SetExpires
      <4>1. CASE l = v.ledger /\ m = n /\ byLedger'[l][m] = v
        <5>1. enforcer'[n] = f /\ n \in DOMAIN enforcer'
          BY <1>4 DEF With
        <5>2. /\ enforcer'[n].when = now /\ enforcer'[n].seq = s
              /\ v.seen = now /\ now' = now /\ now \in Int /\ s \in Nat /\ s = Len(l)
          BY <1>1, <2>1, <4>1, <5>1 DEF s
        <5> QED
          BY <4>1, <5>1, <5>2
      <4>2. CASE l \in DOMAIN byLedger /\ m \in DOMAIN byLedger[l]
                   /\ byLedger'[l][m] = byLedger[l][m]
        <5>1. CASE m = n
          <6>1. enforcer'[n] = f /\ n \in DOMAIN enforcer'
            BY <1>4 DEF With
          <6>2. byLedger[l][n].seen <= now
            BY <1>1, <1>2, <1>5, <1>6, <4>2, <5>1
          <6>3. Len(l) <= s \/ now > byLedger[l][n].seen + SetExpires
            BY <1>1, <1>5, <2>4, <4>2, <5>1
          <6>4. enforcer'[n].when = now /\ enforcer'[n].seq = s /\ now' = now
            BY <1>1, <2>1, <6>1
          <6> QED
            BY <1>1, <4>2, <5>1, <6>1, <6>2, <6>3, <6>4
        <5>2. CASE m # n
          <6>1. m \in DOMAIN enforcer' /\ enforcer'[m] = enforcer[m]
            BY <1>4, <4>2, <5>2 DEF With, CountInv, EnforcerRemembers
          <6> QED
            BY <4>2, <6>1 DEF CountInv, EnforcerRemembers
        <5> QED
          BY <5>1, <5>2
      <4> QED
        BY <2>3, <4>1, <4>2
    <3> QED
      BY <3>1 DEF EnforcerRemembers
  <2>6. NoDoubleCount'
    <3> SUFFICES ASSUME NEW a \in DOMAIN byLedger', NEW b \in DOMAIN byLedger',
                        NEW m \in DOMAIN byLedger'[a] \cap DOMAIN byLedger'[b],
                        a # b, Len(a) = Len(b)
                 PROVE  \/ byLedger'[a][m].seen - byLedger'[b][m].seen > SetExpires
                        \/ byLedger'[b][m].seen - byLedger'[a][m].seen > SetExpires
      BY DEF NoDoubleCount
    <3>1. CASE m = n /\ a = v.ledger /\ byLedger'[a][m] = v
      <4>1. b \in DOMAIN byLedger /\ n \in DOMAIN byLedger[b] /\ byLedger'[b][n] = byLedger[b][n]
        BY <2>3, <3>1
      <4>2. now > byLedger[b][n].seen + SetExpires
        BY <1>1, <1>5, <2>4, <3>1, <4>1 DEF s
      <4> QED
        BY <1>1, <1>5, <3>1, <4>1, <4>2
    <3>2. CASE m = n /\ b = v.ledger /\ byLedger'[b][m] = v
      <4>1. a \in DOMAIN byLedger /\ n \in DOMAIN byLedger[a] /\ byLedger'[a][n] = byLedger[a][n]
        BY <2>3, <3>2
      <4>2. now > byLedger[a][n].seen + SetExpires
        BY <1>1, <1>5, <2>4, <3>2, <4>1 DEF s
      <4> QED
        BY <1>1, <1>5, <3>2, <4>1, <4>2
    <3>3. CASE /\ a \in DOMAIN byLedger /\ m \in DOMAIN byLedger[a]
               /\ byLedger'[a][m] = byLedger[a][m]
               /\ b \in DOMAIN byLedger /\ m \in DOMAIN byLedger[b]
               /\ byLedger'[b][m] = byLedger[b][m]
      BY <3>3 DEF CountInv, NoDoubleCount
    <3> QED
      BY <2>3, <3>1, <3>2, <3>3
  <2> QED
    BY <2>5, <2>6 DEF CountInv
<1> QED
  BY <1>7, <1>8

\* Every step keeps the invariant.
LEMMA NextCounts ==
  ASSUME TypeOK, CountInv, [Next]_vars
  PROVE  CountInv'
<1>0. TypeOK' /\ now \in Int
  <2>1. TypeOK'
    BY NextType, Zenon
  <2>2. now \in Times
    BY Zenon DEF TypeOK
  <2> QED
    BY <2>1, <2>2 DEF Times
<1>1. CASE \E n \in Nodes, o \in Offers : HandleNewValidation(n, o)
  <2>1. PICK n \in Nodes, o \in Offers : HandleNewValidation(n, o)
    BY <1>1
  <2>2. Made(n, o) \in Validation /\ Made(n, o).seen = now
    BY MadeType DEF Made
  <2> QED
    BY <2>1, <2>2, AddCounts DEF HandleNewValidation
<1>2. CASE Expire
  <2>1. Outlives(touchedLedger, KeptLedgers) \subseteq DOMAIN byLedger
    BY DEF Outlives, TypeOK
  <2>2. UNCHANGED <<now, enforcer>>
    BY <1>2 DEF Expire
  <2>3. byLedger' = Restrict(byLedger, Outlives(touchedLedger, KeptLedgers))
    BY <1>2 DEF Expire
  <2> QED
    BY <1>0, <2>1, <2>2, <2>3, FewerEntries DEF Restrict
<1>3. CASE \E t \in SUBSET Nodes : TrustChanged(t)
  <2>1. PICK t \in SUBSET Nodes : TrustChanged(t)
    BY <1>3
  <2>2. /\ byLedger' = [l \in DOMAIN byLedger |-> Retrusted(byLedger[l], t)]
        /\ UNCHANGED <<now, enforcer>>
    BY <2>1 DEF TrustChanged
  <2>3. \A l \in DOMAIN byLedger : \A n \in DOMAIN byLedger[l] :
          [byLedger[l][n] EXCEPT !.trusted = n \in t].seen = byLedger[l][n].seen
    BY FlagSet DEF TypeOK
  <2>4. /\ DOMAIN byLedger' = DOMAIN byLedger
        /\ \A l \in DOMAIN byLedger :
             /\ DOMAIN byLedger'[l] = DOMAIN byLedger[l]
             /\ \A n \in DOMAIN byLedger[l] : byLedger'[l][n].seen = byLedger[l][n].seen
    BY <2>2, <2>3, Zenon DEF Retrusted
  <2> QED
    BY <1>0, <2>2, <2>4, FewerEntries
<1>4. CASE Tick
  BY <1>0, <1>4, FewerEntries DEF Tick, sets
<1>5. CASE UNCHANGED <<now, enforcer, byLedger>>
  BY <1>0, <1>5, FewerEntries
<1>6. WithTrie \/ IterateCurrent => UNCHANGED <<now, enforcer, byLedger>>
  BY DEF WithTrie, IterateCurrent, sets
<1>7. \A l : LedgerArrives(l) \/ ByLedger(l) => UNCHANGED <<now, enforcer, byLedger>>
  BY DEF LedgerArrives, ByLedger, sets
<1>8. \A s : SetSeqToKeep(s, s + 1) \/ CanValidateSeq(s) => UNCHANGED <<now, enforcer, byLedger>>
  BY DEF SetSeqToKeep, CanValidateSeq, sets
<1>9. UNCHANGED vars => UNCHANGED <<now, enforcer, byLedger>>
  BY DEF vars, sets
<1> QED
  BY <1>1, <1>2, <1>3, <1>4, <1>5, <1>6, <1>7, <1>8, <1>9 DEF Next

\* A validator never counts for two ledgers of one sequence number, unless the
\* two validations are further apart than the expiry of the sequence enforcer:
\* for every set of validators, every tree of ledgers, and whatever validations
\* arrive, expire and change their trust in between (Validations::add, expire
\* and trustChanged).
THEOREM CountedOnce == Spec => []NoDoubleCount
<1>1. Init => CountInv
  BY EmptyMap DEF Init, CountInv, EnforcerRemembers, NoDoubleCount
<1>2. TypeOK /\ CountInv /\ [Next]_vars => CountInv'
  BY NextCounts
<1>3. CountInv => NoDoubleCount
  BY DEF CountInv
<1> QED
  BY <1>1, <1>2, <1>3, TypeCorrect, PTL DEF Spec

-----------------------------------------------------------------------------
(* The trie follows the validations.  A trusted validator with a current   *)
(* validation stands on its ledger or is awaited there, and nothing else   *)
(* is awaited.                                                             *)

\* checkAcquired, for a node that is awaited on no ledger but l: it stands on l
\* once l is held, and is then awaited no more.
LEMMA Intake ==
  ASSUME NEW acq, acq \subseteq Nodes \X Ledgers, NEW last, NEW pick \in Picks(acq), NEW n, NEW l,
         \A p \in acq : p[1] = n => p[2] = l,
         <<n, l>> \in acq \/ StandsOn(last, n, l)
  PROVE  /\ <<n, l>> \in StillAwaited(acq) \/ StandsOn(Over(pick, last), n, l)
         /\ l \in have => /\ StandsOn(Over(pick, last), n, l)
                          /\ \A p \in StillAwaited(acq) : p[1] # n
<1>1. \A m \in DOMAIN pick : <<m, pick[m]>> \in acq
  BY PickFacts
<1>2. \A p \in acq : p[2] \in have => p[1] \in DOMAIN pick
  BY PickFacts
<1>3. n \in DOMAIN pick => pick[n] = l
  BY <1>1, Zenon
<1>4. <<n, l>> \in acq /\ l \in have => n \in DOMAIN pick
  BY <1>2
<1>5. n \in DOMAIN pick => StandsOn(Over(pick, last), n, l)
  BY <1>3 DEF StandsOn, Over
<1>6. StandsOn(last, n, l) => StandsOn(Over(pick, last), n, l)
  BY <1>3 DEF StandsOn, Over
<1>7. \A p \in StillAwaited(acq) : p \in acq /\ p[2] \notin have
  BY DEF StillAwaited
<1>8. <<n, l>> \in acq /\ l \notin have => <<n, l>> \in StillAwaited(acq)
  BY DEF StillAwaited
<1> QED
  BY <1>4, <1>5, <1>6, <1>7, <1>8

\* removeTrie takes away what is awaited from the nodes of vs, when they are
\* awaited on the ledgers of vs only.
LEMMA RemovedAwaited ==
  ASSUME NEW last, NEW acq, acq \subseteq Nodes \X Ledgers, NEW vs,
         \A p \in acq : p[1] \in DOMAIN vs => vs[p[1]].ledger = p[2]
  PROVE  RemoveTrie(last, acq, vs).acq = {p \in acq : p[1] \notin DOMAIN vs}
<1>1. RemoveTrie(last, acq, vs).acq = {p \in acq : ~(p[1] \in DOMAIN vs /\ vs[p[1]].ledger = p[2])}
  BY DEF RemoveTrie, TrieState
<1> QED
  BY <1>1

\* removeTrie leaves the other nodes where they stand.
LEMMA RemovedStands ==
  ASSUME NEW last, NEW acq, NEW vs, NEW n, NEW l, n \notin DOMAIN vs, StandsOn(last, n, l)
  PROVE  StandsOn(RemoveTrie(last, acq, vs).last, n, l)
<1>1. RemoveTrie(last, acq, vs).last
         = Restrict(last, {m \in DOMAIN last : ~(m \in DOMAIN vs /\ vs[m].ledger = last[m])})
  BY DEF RemoveTrie, TrieState
<1> QED
  BY <1>1 DEF StandsOn, Restrict

\* Flushing the stale validations leaves the trie right for those that stay.
LEMMA FlushedFacts ==
  ASSUME TypeOK, TrieFollows
  PROVE  /\ Flushed.acq \subseteq acquiring
         /\ \A p \in Flushed.acq : p[1] \in DOMAIN current \ DOMAIN Stale
         /\ \A n \in (DOMAIN current \ DOMAIN Stale) \cap trusted :
              \/ <<n, current[n].ledger>> \in Flushed.acq
              \/ StandsOn(Flushed.last, n, current[n].ledger)
<1>1. acquiring \subseteq Nodes \X Ledgers
  BY DEF TypeOK
<1>2. \A p \in acquiring : p[1] \in DOMAIN Stale => Stale[p[1]].ledger = p[2]
  BY DEF TrieFollows, AwaitedIsCurrent, Stale, Restrict
<1>3. Flushed.acq = {p \in acquiring : p[1] \notin DOMAIN Stale}
  BY <1>1, <1>2, RemovedAwaited DEF Flushed
<1>5. \A p \in acquiring : p[1] \in DOMAIN current
  BY DEF TrieFollows, AwaitedIsCurrent
<1> HIDE DEF Flushed, Stale
<1>6. ASSUME NEW n \in (DOMAIN current \ DOMAIN Stale) \cap trusted
      PROVE  \/ <<n, current[n].ledger>> \in Flushed.acq
             \/ StandsOn(Flushed.last, n, current[n].ledger)
  <2>1. \/ <<n, current[n].ledger>> \in acquiring
        \/ StandsOn(lastLedger, n, current[n].ledger)
    BY DEF TrieFollows, StandsOrAwaited
  <2>2. <<n, current[n].ledger>>[1] = n
    OBVIOUS
  <2>3. StandsOn(lastLedger, n, current[n].ledger) => StandsOn(Flushed.last, n, current[n].ledger)
    BY RemovedStands DEF Flushed
  <2> QED
    BY <1>3, <2>1, <2>2, <2>3
<1> QED
  BY <1>3, <1>5, <1>6

\* What a trie state t owes the validations cur of the nodes trusted in tr.
Follows(t, cur, tr) ==
    /\ \A p \in t.acq : p[1] \in DOMAIN cur \cap tr /\ cur[p[1]].ledger = p[2]
    /\ \A n \in DOMAIN cur \cap tr :
          <<n, cur[n].ledger>> \in t.acq \/ StandsOn(t.last, n, cur[n].ledger)

\* TrieFollows, as Follows of the trie of now.
LEMMA Following ==
  ASSUME NEW t, t.last = lastLedger, t.acq = acquiring
  PROVE  TrieFollows <=> Follows(t, current, trusted)
BY DEF TrieFollows, AwaitedIsCurrent, StandsOrAwaited, Follows

\* Taking in what arrived, of a trie that follows the validations.
LEMMA IntakeFollows ==
  ASSUME NEW t, t.acq \subseteq Nodes \X Ledgers, NEW cur, NEW tr, Follows(t, cur, tr),
         NEW pick \in Picks(t.acq)
  PROVE  Follows(TrieState(Over(pick, t.last), StillAwaited(t.acq)), cur, tr)
<1> DEFINE s == TrieState(Over(pick, t.last), StillAwaited(t.acq))
<1>1. s.last = Over(pick, t.last) /\ s.acq = StillAwaited(t.acq)
  BY DEF TrieState
<1> HIDE DEF s
<1>2. ASSUME NEW p \in s.acq
      PROVE  p[1] \in DOMAIN cur \cap tr /\ cur[p[1]].ledger = p[2]
  <2>1. p \in t.acq
    BY <1>1 DEF StillAwaited
  <2> QED
    BY <2>1 DEF Follows
<1>3. ASSUME NEW n \in DOMAIN cur \cap tr
      PROVE  <<n, cur[n].ledger>> \in s.acq \/ StandsOn(s.last, n, cur[n].ledger)
  <2>1. \A p \in t.acq : p[1] = n => p[2] = cur[n].ledger
    BY DEF Follows
  <2>2. <<n, cur[n].ledger>> \in t.acq \/ StandsOn(t.last, n, cur[n].ledger)
    BY DEF Follows
  <2>3. <<n, cur[n].ledger>> \in StillAwaited(t.acq) \/ StandsOn(Over(pick, t.last), n, cur[n].ledger)
    BY <2>1, <2>2, Intake
  <2> QED
    BY <1>1, <2>3, Zenon
<1> QED
  BY <1>2, <1>3 DEF Follows, s

\* updateTrie for node n, whose ledger becomes l: the trie follows again.
LEMMA UpdateFollows ==
  ASSUME TypeOK, TrieFollows, NEW n \in Nodes, NEW l \in Ledgers, n \in trusted,
         NEW t \in UpdateTrie(lastLedger, acquiring, n, l,
                              {current[m].ledger : m \in DOMAIN current \cap {n}}),
         NEW cur, DOMAIN cur = DOMAIN current \cup {n}, cur[n].ledger = l,
         \A m \in DOMAIN current \ {n} : cur[m] = current[m]
  PROVE  Follows(t, cur, trusted)
<1> DEFINE less == acquiring \ {<<n, p>> : p \in {current[m].ledger : m \in DOMAIN current \cap {n}}}
<1>1. PICK pick \in Picks(less) :
         t = TrieState(IF l \in have THEN With(Over(pick, lastLedger), n, l) ELSE Over(pick, lastLedger),
                       StillAwaited(less) \cup (IF l \in have THEN {} ELSE {<<n, l>>}))
  BY DEF UpdateTrie
<1>2. /\ t.last = IF l \in have THEN With(Over(pick, lastLedger), n, l) ELSE Over(pick, lastLedger)
      /\ t.acq = StillAwaited(less) \cup (IF l \in have THEN {} ELSE {<<n, l>>})
  BY <1>1 DEF TrieState
<1>3. acquiring \subseteq Nodes \X Ledgers
  BY DEF TypeOK
<1>4. less \subseteq acquiring
  OBVIOUS
<1>5. \A p \in less : p[1] # n
  <2> SUFFICES ASSUME NEW p \in less, p[1] = n
               PROVE  FALSE
    OBVIOUS
  <2>1. n \in DOMAIN current /\ current[n].ledger = p[2]
    BY DEF TrieFollows, AwaitedIsCurrent
  <2>2. p = <<n, current[n].ledger>>
    <3>1. p \in Nodes \X Ledgers
      BY <1>3, <1>4, Zenon
    <3> HIDE DEF less
    <3>2. p = <<p[1], p[2]>>
      BY <3>1
    <3> QED
      BY <2>1, <3>2, Zenon
  <2> QED
    BY <2>1, <2>2
<1>6. \A p \in acquiring : p[1] # n => p \in less
  <2> SUFFICES ASSUME NEW p \in acquiring, p[1] # n, NEW q, p = <<n, q>>
               PROVE  FALSE
    OBVIOUS
  <2> QED
    OBVIOUS
<1> HIDE DEF less
<1>7. ASSUME NEW p \in t.acq
      PROVE  p[1] \in DOMAIN cur \cap trusted /\ cur[p[1]].ledger = p[2]
  <2>1. CASE p \in StillAwaited(less)
    <3>1. p \in acquiring /\ p[1] # n
      BY <2>1, <1>4, <1>5 DEF StillAwaited
    <3>2. p[1] \in DOMAIN current \cap trusted /\ current[p[1]].ledger = p[2]
      BY <3>1 DEF TrieFollows, AwaitedIsCurrent
    <3> QED
      BY <3>1, <3>2
  <2>2. CASE p = <<n, l>>
    BY <2>2
  <2> QED
    BY <1>2, <2>1, <2>2
<1>8. ASSUME NEW m \in DOMAIN cur \cap trusted
      PROVE  <<m, cur[m].ledger>> \in t.acq \/ StandsOn(t.last, m, cur[m].ledger)
  <2>1. CASE m = n
    <3>1. l \in have => StandsOn(With(Over(pick, lastLedger), n, l), n, l)
      BY DEF StandsOn, With
    <3> QED
      BY <1>2, <2>1, <3>1
  <2>2. CASE m # n
    <3>1. m \in DOMAIN current /\ cur[m] = current[m]
      BY <2>2
    <3> DEFINE k == current[m].ledger
    <3>2. \A p \in less : p[1] = m => p[2] = k
      BY <1>4 DEF TrieFollows, AwaitedIsCurrent
    <3>3. <<m, k>> \in acquiring \/ StandsOn(lastLedger, m, k)
      BY <3>1 DEF TrieFollows, StandsOrAwaited
    <3>4. <<m, k>> \in acquiring => <<m, k>> \in less
      BY <1>6, <2>2
    <3> HIDE DEF k
    <3>5. less \subseteq Nodes \X Ledgers
      BY <1>3, <1>4
    <3>6. <<m, k>> \in StillAwaited(less) \/ StandsOn(Over(pick, lastLedger), m, k)
      BY <3>2, <3>3, <3>4, <3>5, Intake
    <3>7. StandsOn(Over(pick, lastLedger), m, k) => StandsOn(t.last, m, k)
      BY <1>2, <2>2 DEF StandsOn, With
    <3> QED
      BY <1>2, <3>1, <3>6, <3>7 DEF k
  <2> QED
    BY <2>1, <2>2
<1> QED
  BY <1>7, <1>8 DEF Follows

\* Validations::add, for a validation that carries the trust of its node.
LEMMA AddFollows ==
  ASSUME TypeOK, TrieFollows, NEW n \in Nodes, NEW v \in Validation, v.trusted <=> n \in trusted,
         AddTo(n, v), trusted' = trusted
  PROVE  TrieFollows'
<1>1. CASE UNCHANGED <<current, trie>>
  BY <1>1 DEF TrieFollows, AwaitedIsCurrent, StandsOrAwaited, StandsOn, trie
<1>2. CASE current' = With(current, n, v) /\ v.trusted
           /\ \E t \in UpdateTrie(lastLedger, acquiring, n, v.ledger,
                                  {current[m].ledger : m \in DOMAIN current \cap {n}}) : Becomes(t)
  <2>1. PICK t \in UpdateTrie(lastLedger, acquiring, n, v.ledger,
                              {current[m].ledger : m \in DOMAIN current \cap {n}}) : Becomes(t)
    BY <1>2
  <2>2. DOMAIN current' = DOMAIN current \cup {n} /\ current'[n] = v
    BY <1>2 DEF With
  <2>3. \A m \in DOMAIN current \ {n} : current'[m] = current[m]
    BY <1>2 DEF With
  <2>4. v.ledger \in Ledgers
    BY DEF Validation
  <2>5. Follows(t, current', trusted)
    BY <1>2, <2>1, <2>2, <2>3, <2>4, UpdateFollows
  <2> QED
    BY <2>1, <2>5 DEF Follows, Becomes, TrieFollows, AwaitedIsCurrent, StandsOrAwaited
<1>3. CASE current' = With(current, n, v) /\ ~v.trusted /\ UNCHANGED trie
  <2>1. lastLedger' = lastLedger /\ acquiring' = acquiring
    BY <1>3 DEF trie
  <2>2. \A m \in DOMAIN current' : m # n => m \in DOMAIN current /\ current'[m] = current[m]
    BY <1>3 DEF With
  <2>3. \A m \in DOMAIN current : m \in DOMAIN current' /\ (m # n => current'[m] = current[m])
    BY <1>3 DEF With
  <2>4. AwaitedIsCurrent'
    BY <1>3, <2>1, <2>3 DEF TrieFollows, AwaitedIsCurrent
  <2>5. StandsOrAwaited'
    BY <1>3, <2>1, <2>2 DEF TrieFollows, StandsOrAwaited, StandsOn
  <2> QED
    BY <2>4, <2>5 DEF TrieFollows
<1> QED
  BY <1>1, <1>2, <1>3, Zenon DEF AddTo

\* withTrie and the iterations over current_: the stale validations go, with
\* what the trie holds for them.
LEMMA FlushedFollows ==
  ASSUME TypeOK, TrieFollows, DropStale
  PROVE  Follows(Flushed, current', trusted)
<1>1. DOMAIN current' = DOMAIN current \ DOMAIN Stale
  BY DEF DropStale, Restrict, Stale
<1>2. \A n \in DOMAIN current' : current'[n] = current[n]
  BY DEF DropStale, Restrict
<1>3. \A p \in Flushed.acq : p[1] \in DOMAIN current' /\ p \in acquiring
  BY <1>1, FlushedFacts
<1>4. \A n \in DOMAIN current' \cap trusted :
         <<n, current[n].ledger>> \in Flushed.acq \/ StandsOn(Flushed.last, n, current[n].ledger)
  BY <1>1, FlushedFacts
<1>5. \A p \in Flushed.acq : p[1] \in DOMAIN current' \cap trusted /\ current'[p[1]].ledger = p[2]
  BY <1>2, <1>3 DEF TrieFollows, AwaitedIsCurrent
<1> QED
  BY <1>2, <1>4, <1>5 DEF Follows

\* A step to a trie that follows the validations of then.
LEMMA BecomesFollows ==
  ASSUME NEW t, Becomes(t), Follows(t, current', trusted')
  PROVE  TrieFollows'
BY DEF Follows, Becomes, TrieFollows, AwaitedIsCurrent, StandsOrAwaited

\* Without the stale validations, awaited pairs are still pairs.
LEMMA FlushedAwaited ==
  ASSUME TypeOK, TrieFollows
  PROVE  Flushed.acq \subseteq Nodes \X Ledgers
BY FlushedFacts DEF TypeOK

\* trustChanged: a node that loses trust leaves the trie, one that gains it
\* enters with its current ledger.
LEMMA TrustFollows ==
  ASSUME TypeOK, TrieFollows, NEW t \in SUBSET Nodes, TrustChanged(t)
  PROVE  TrieFollows'
<1> DEFINE added   == (t \ trusted) \cap DOMAIN current
           removed == (trusted \ t) \cap DOMAIN current
           vs      == Restrict(current, removed)
           r       == RemoveTrie(lastLedger, acquiring, vs)
           held    == {n \in added : current[n].ledger \in have}
           used    == [n \in held |-> current[n].ledger]
           awaited == {<<n, current[n].ledger>> : n \in added \ held}
<1>1. trusted' = t
  BY DEF TrustChanged
<1>2. DOMAIN current' = DOMAIN current
  BY DEF TrustChanged
<1>3. \A n \in DOMAIN current : current'[n].ledger = current[n].ledger
  <2>1. \A n \in DOMAIN current : current[n] \in Validation
    BY DEF TypeOK
  <2>2. \A n \in DOMAIN current :
           current'[n] = IF n \in added \cup removed THEN [current[n] EXCEPT !.trusted = n \in t] ELSE current[n]
    BY DEF TrustChanged
  <2> QED
    BY <2>1, <2>2, Zenon DEF Validation
<1>4. PICK s \in TrustAll(r, added) : Becomes(s)
  BY DEF TrustChanged
<1>5. DOMAIN vs = removed /\ \A n \in removed : vs[n] = current[n]
  BY DEF Restrict
<1>6. acquiring \subseteq Nodes \X Ledgers
  BY DEF TypeOK
<1>7. r.acq = {p \in acquiring : p[1] \notin removed}
  <2>1. \A p \in acquiring : p[1] \in DOMAIN vs => vs[p[1]].ledger = p[2]
    BY <1>5, Zenon DEF TrieFollows, AwaitedIsCurrent
  <2> HIDE DEF vs
  <2> QED
    <3>1. RemoveTrie(lastLedger, acquiring, vs).acq = {p \in acquiring : p[1] \notin DOMAIN vs}
      BY <1>6, <2>1, RemovedAwaited
    <3> QED
      BY <1>5, <3>1, Zenon
<1>8. \A n \in (trusted \cap t) \cap DOMAIN current :
         <<n, current[n].ledger>> \in r.acq \/ StandsOn(r.last, n, current[n].ledger)
  <2> SUFFICES ASSUME NEW n \in (trusted \cap t) \cap DOMAIN current
               PROVE  <<n, current[n].ledger>> \in r.acq \/ StandsOn(r.last, n, current[n].ledger)
    OBVIOUS
  <2>1. <<n, current[n].ledger>> \in acquiring \/ StandsOn(lastLedger, n, current[n].ledger)
    BY DEF TrieFollows, StandsOrAwaited
  <2>2. n \notin removed
    OBVIOUS
  <2> HIDE DEF vs, removed
  <2>3. StandsOn(lastLedger, n, current[n].ledger) => StandsOn(r.last, n, current[n].ledger)
    BY <1>5, <2>2, RemovedStands
  <2>4. <<n, current[n].ledger>> \in acquiring => <<n, current[n].ledger>> \in r.acq
    BY <1>7, <2>2
  <2> QED
    BY <2>1, <2>3, <2>4
<1>9. \A p \in r.acq : p[1] \in DOMAIN current \cap (trusted \cap t) /\ current[p[1]].ledger = p[2]
  BY <1>7, Zenon DEF TrieFollows, AwaitedIsCurrent
<1>10. r.acq \subseteq Nodes \X Ledgers
  BY <1>6, <1>7, Zenon
<1> HIDE DEF r
<1>11. Follows(r, current, trusted \cap t)
  BY <1>8, <1>9 DEF Follows
<1>12. CASE added = {}
  <2>1. s = r
    BY <1>4, <1>12 DEF TrustAll
  <2>2. DOMAIN current \cap t = DOMAIN current \cap (trusted \cap t)
    BY <1>12
  <2>3. Follows(r, current', t)
    BY <1>2, <1>3, <1>11, <2>2 DEF Follows
  <2> QED
    BY <1>1, <1>4, <2>1, <2>3, BecomesFollows
<1>13. CASE added # {}
  <2>1. PICK pick \in Picks(r.acq) :
           s = TrieState(Over(used, Over(pick, r.last)), StillAwaited(r.acq) \cup awaited)
    BY <1>4, <1>13, Zenon DEF TrustAll
  <2>2. s.last = Over(used, Over(pick, r.last)) /\ s.acq = StillAwaited(r.acq) \cup awaited
    BY <2>1 DEF TrieState
  <2> DEFINE q == TrieState(Over(pick, r.last), StillAwaited(r.acq))
  <2>3. q.last = Over(pick, r.last) /\ q.acq = StillAwaited(r.acq)
    BY DEF TrieState
  <2>4. Follows(q, current, trusted \cap t)
    BY <1>10, <1>11, IntakeFollows
  <2> HIDE DEF q
  <2>5. ASSUME NEW p \in s.acq
        PROVE  p[1] \in DOMAIN current \cap t /\ current[p[1]].ledger = p[2]
    <3>1. CASE p \in q.acq
      BY <3>1, <2>4 DEF Follows
    <3>2. CASE p \in awaited
      BY <3>2
    <3> QED
      BY <2>2, <2>3, <3>1, <3>2
  <2>6. ASSUME NEW n \in DOMAIN current \cap t
        PROVE  <<n, current[n].ledger>> \in s.acq \/ StandsOn(s.last, n, current[n].ledger)
    <3>1. CASE n \in held
      BY <3>1, <2>2 DEF StandsOn, Over
    <3>2. CASE n \in added \ held
      BY <3>2, <2>2
    <3>3. CASE n \notin added
      <4>1. n \in DOMAIN current \cap (trusted \cap t) /\ n \notin held
        BY <3>3
      <4>2. <<n, current[n].ledger>> \in q.acq \/ StandsOn(q.last, n, current[n].ledger)
        BY <4>1, <2>4 DEF Follows
      <4>3. StandsOn(q.last, n, current[n].ledger) => StandsOn(s.last, n, current[n].ledger)
        BY <4>1, <2>2, <2>3 DEF StandsOn, Over
      <4> QED
        BY <4>2, <4>3, <2>2, <2>3
    <3> QED
      BY <3>1, <3>2, <3>3
  <2>7. Follows(s, current', t)
    BY <1>2, <1>3, <2>5, <2>6 DEF Follows
  <2> QED
    BY <1>1, <1>4, <2>7, BecomesFollows
<1> QED
  BY <1>12, <1>13

\* The trie follows the validations through every operation.
LEMMA NextFollows ==
  ASSUME TypeOK, TrieFollows, [Next]_vars
  PROVE  TrieFollows'
<1>1. ASSUME UNCHANGED <<trusted, current, trie>>
      PROVE  TrieFollows'
  BY <1>1, Zenon DEF TrieFollows, AwaitedIsCurrent, StandsOrAwaited, StandsOn, trie
<1>2. CASE WithTrie
  <2>1. PICK pick \in Picks(Flushed.acq) :
           Becomes(TrieState(Over(pick, Flushed.last), StillAwaited(Flushed.acq)))
    BY <1>2 DEF WithTrie
  <2>2. Follows(Flushed, current', trusted) /\ trusted' = trusted
    BY <1>2, FlushedFollows DEF WithTrie
  <2>3. Follows(TrieState(Over(pick, Flushed.last), StillAwaited(Flushed.acq)), current', trusted)
    BY <2>2, FlushedAwaited, IntakeFollows
  <2> QED
    BY <2>1, <2>2, <2>3, BecomesFollows
<1>3. CASE IterateCurrent
  BY <1>3, FlushedFollows, BecomesFollows DEF IterateCurrent
<1>4. ASSUME NEW n \in Nodes, NEW o \in Offers, HandleNewValidation(n, o)
      PROVE  TrieFollows'
  <2>1. Made(n, o) \in Validation /\ (Made(n, o).trusted <=> n \in trusted)
    BY MadeType, Zenon DEF Made
  <2> QED
    BY <1>4, <2>1, AddFollows DEF HandleNewValidation
<1>5. ASSUME NEW t \in SUBSET Nodes, TrustChanged(t)
      PROVE  TrieFollows'
  BY <1>5, TrustFollows
<1>6. CASE Tick \/ Expire \/ (\E l \in Ledgers : LedgerArrives(l) \/ ByLedger(l))
           \/ (\E s \in 1 .. MaxSeq : SetSeqToKeep(s, s + 1) \/ CanValidateSeq(s)) \/ UNCHANGED vars
  <2>1. UNCHANGED <<trusted, current, trie>>
    BY <1>6 DEF Tick, Expire, LedgerArrives, ByLedger, SetSeqToKeep, CanValidateSeq, vars, trie
  <2> QED
    BY <2>1, <1>1
<1> QED
  BY <1>2, <1>3, <1>4, <1>5, <1>6, Zenon DEF Next

\* A node is awaited on a ledger only because its current validation, from a
\* validator trusted now, is for that ledger; and every trusted validator with
\* a current validation stands on its ledger or is awaited there.
THEOREM AwaitedCorrect == Spec => []TrieFollows
<1>1. Init => TrieFollows
  BY EmptyMap DEF Init, TrieFollows, AwaitedIsCurrent, StandsOrAwaited
<1>2. TypeOK /\ TrieFollows /\ [Next]_vars => TrieFollows'
  BY NextFollows
<1> QED
  BY <1>1, <1>2, TypeCorrect, PTL DEF Spec

\* Looking at the trie: who holds the ledger of a trusted validator finds the
\* validator on it, and awaits it nowhere.
LEMMA LookCatchesUp ==
  ASSUME TypeOK, TrieFollows, WithTrie, NEW n \in DOMAIN current' \cap trusted, current'[n].ledger \in have
  PROVE  /\ n \in DOMAIN lastLedger' /\ lastLedger'[n] = current'[n].ledger
         /\ \A p \in acquiring' : p[1] # n
<1>1. PICK pick \in Picks(Flushed.acq) :
         Becomes(TrieState(Over(pick, Flushed.last), StillAwaited(Flushed.acq)))
  BY DEF WithTrie
<1>2. lastLedger' = Over(pick, Flushed.last) /\ acquiring' = StillAwaited(Flushed.acq)
  BY <1>1 DEF Becomes, TrieState
<1>3. Follows(Flushed, current', trusted)
  BY FlushedFollows DEF WithTrie
<1>4. \A p \in Flushed.acq : p[1] = n => p[2] = current'[n].ledger
  BY <1>3 DEF Follows
<1>5. <<n, current'[n].ledger>> \in Flushed.acq \/ StandsOn(Flushed.last, n, current'[n].ledger)
  BY <1>3 DEF Follows
<1>6. /\ StandsOn(Over(pick, Flushed.last), n, current'[n].ledger)
      /\ \A p \in StillAwaited(Flushed.acq) : p[1] # n
  BY <1>4, <1>5, FlushedAwaited, Intake, Zenon
<1> QED
  BY <1>2, <1>6 DEF StandsOn

\* A sweep keeps the set of a ledger that is to be kept, when the refreshes
\* have kept up with it.
LEMMA SweepKeeps ==
  ASSUME TypeOK, Expire, NEW l \in DOMAIN byLedger, Len(l) \in toKeep,
         touchedLedger[l] >= refreshTime - (SetExpires - Freshness)
  PROVE  l \in DOMAIN byLedger'
<1>1. l \in DOMAIN touchedLedger /\ touchedLedger[l] \in Int /\ refreshTime \in Int /\ now \in Int
  <2>1. l \in DOMAIN touchedLedger /\ touchedLedger[l] \in Times /\ refreshTime \in Int /\ now \in Times
    BY Zenon DEF TypeOK
  <2> QED
    BY <2>1 DEF Times
<1>2. DOMAIN byLedger' = Outlives(touchedLedger, KeptLedgers)
  BY DEF Expire, Restrict
<1>3. CASE Refresh
  <2>1. l \in KeptLedgers
    BY <1>3 DEF KeptLedgers
  <2> QED
    BY <1>1, <1>2, <2>1 DEF Outlives
<1>4. CASE ~Refresh
  <2>1. ~(refreshTime <= now)
    BY <1>4 DEF Refresh
  <2>2. touchedLedger[l] > now - SetExpires
    BY <1>1, <2>1, ValidationsAssumption
  <2> QED
    BY <1>1, <1>2, <2>2 DEF Outlives
<1> QED
  BY <1>3, <1>4

\* Looking at the trie leaves every trusted validator whose ledger is held on
\* that ledger and awaited nowhere, and no sweep drops what is to be kept.
THEOREM ReachTrie == Spec => ValidationsReachTrie
<1> DEFINE CatchUp == WithTrie => \A n \in DOMAIN current' \cap trusted :
                        current'[n].ledger \in have =>
                            /\ n \in DOMAIN lastLedger' /\ lastLedger'[n] = current'[n].ledger
                            /\ \A p \in acquiring' : p[1] # n
           Keep == Expire => \A l \in DOMAIN byLedger :
                        Len(l) \in toKeep /\ touchedLedger[l] >= refreshTime - (SetExpires - Freshness)
                            => l \in DOMAIN byLedger'
<1>1. TypeOK /\ TrieFollows => CatchUp
  BY LookCatchesUp
<1>2. TypeOK => Keep
  BY SweepKeeps
<1>3. ValidationsReachTrie <=> [][CatchUp]_vars /\ [][Keep]_vars
  BY DEF ValidationsReachTrie, TrieCatchesUp, KeptSurvives
<1> HIDE DEF CatchUp, Keep
<1> QED
  BY <1>1, <1>2, <1>3, TypeCorrect, AwaitedCorrect, PTL
=============================================================================
