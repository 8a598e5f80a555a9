--------------------------- MODULE AccountProofs ----------------------------
(***************************************************************************)
(* Proofs about who may act for an account, and which accounts may not     *)
(* act. Keys, for any accounts, flags, quorums and signer lists: nobody is *)
(* locked out, a master key is disabled by itself alone, what an issuer    *)
(* gave up stays given up, and an owner count is that of the objects       *)
(* owned. The cache of exclusions, for every finite set of validators,     *)
(* every set of accounts and every percentage: the incremental counts      *)
(* always agree with a recount, and the precomputed set is exact. The      *)
(* fetcher of exclusion lists, for any number of sources, of threads and   *)
(* of requests in flight: it is the ExclusionSource its client relies on,  *)
(* and what it holds is never put together from a part of the sources.     *)
(***************************************************************************)
EXTENDS ExclusionManager, RemoteExclusionListFetcher, AccountKeys, FiniteSetTheorems, TLAPS

-----------------------------------------------------------------------------
(* Who may sign: AccountKeys. *)

\* The weights of a signer list reach its quorum.
Reaches(list) == TotalWeight(list.weights) >= list.quorum

\* Every account can be signed for, and every signer list is one that can
\* sign; a disabled master key was disabled with itself, and no account has
\* given up freezing and kept clawing back.
KeysInv ==
    /\ flags \in [Signers -> SUBSET Flags] /\ regularKey \in [Signers -> Signers \cup {None}]
    /\ DOMAIN signerList = Signers
    /\ \A a \in Signers : HasList(a) => Reaches(signerList[a])
    /\ NeverLockedOut /\ MasterDisablesItself
    /\ \A a \in Signers : ~({"NoFreeze", "AllowTrustLineClawback"} \subseteq flags[a])

\* At the start no flag is set.
LEMMA InitKeys == KeysInit => KeysInv
<1> SUFFICES ASSUME KeysInit PROVE KeysInv
  OBVIOUS
<1>1. /\ flags = [a \in Signers |-> {}] /\ regularKey = [a \in Signers |-> None]
      /\ DOMAIN signerList = Signers
  BY DEF KeysInit
<1>2. ASSUME NEW a \in Signers, HasList(a) PROVE Reaches(signerList[a])
  <2>1. signerList[a] \in {NoList} \cup {[quorum |-> 1, weights |-> w, one |-> FALSE] : w \in SignerLists}
    BY DEF KeysInit
  <2>2. signerList[a].quorum = 1
    BY <1>2, <2>1 DEF HasList
  <2>3. TotalWeight(signerList[a].weights) >= 1
    BY <1>2 DEF KeysInit, ValidateQuorumAndSignerEntries
  <2> QED BY <2>2, <2>3 DEF Reaches
<1>3. \A a \in Signers : flags[a] = {}
  BY <1>1
<1>4. NeverLockedOut /\ MasterDisablesItself
  BY <1>3 DEF NeverLockedOut, MasterDisablesItself
<1> QED BY <1>1, <1>2, <1>3, <1>4 DEF KeysInv

\* A regular key is removed only while there is another way to sign.
LEMMA RegularKeyKeys ==
    ASSUME KeysInv, NEW a \in Signers, NEW key \in Signers \cup {None}, SetRegularKey(a, key)
    PROVE  KeysInv'
<1>1. /\ regularKey' = [regularKey EXCEPT ![a] = key] /\ (key = None => MayRemoveKey(a))
      /\ UNCHANGED <<flags, signerList, withMaster>>
  BY DEF SetRegularKey
<1>2. regularKey' \in [Signers -> Signers \cup {None}]
  BY <1>1 DEF KeysInv
<1>3. \A b \in Signers : HasList(b)' = HasList(b) /\ (HasList(b) => Reaches(signerList[b]))
  BY <1>1 DEF KeysInv, HasList
<1>4. ASSUME NEW b \in Signers
      PROVE  \/ "DisableMaster" \notin flags'[b] \/ regularKey'[b] # None
             \/ HasList(b)' /\ Reaches(signerList'[b])
  <2>1. CASE b = a
    BY <1>1, <1>3, <2>1 DEF KeysInv, MayRemoveKey
  <2>2. CASE b # a
    BY <1>1, <1>3, <2>2 DEF KeysInv, NeverLockedOut, Reaches
  <2> QED BY <2>1, <2>2
<1>5. NeverLockedOut'
  BY <1>4 DEF NeverLockedOut, Reaches
<1> QED BY <1>1, <1>2, <1>3, <1>5 DEF KeysInv, MasterDisablesItself

\* A signer list is replaced by one that can sign, and destroyed only while
\* there is another way to sign.
LEMMA SignerListKeys ==
    ASSUME KeysInv, NEW a \in Signers,
           \/ \E q \in Quorums, w \in SignerLists : ReplaceSignerList(a, q, w)
           \/ DestroySignerList(a)
    PROVE  KeysInv'
<1>1. /\ UNCHANGED <<flags, regularKey, withMaster>>
      /\ \E l : signerList' = [signerList EXCEPT ![a] = l]
      /\ \A b \in Signers \ {a} : signerList'[b] = signerList[b]
  BY DEF ReplaceSignerList, DestroySignerList, KeysInv
<1>2. \/ signerList'[a] # NoList /\ Reaches(signerList'[a])
      \/ signerList'[a] = NoList /\ ~("DisableMaster" \in flags[a] /\ regularKey[a] = None)
  <2>1. ASSUME NEW q \in Quorums, NEW w \in SignerLists, ReplaceSignerList(a, q, w)
        PROVE  signerList'[a] # NoList /\ Reaches(signerList'[a])
    <3>1. /\ signerList'[a] = [quorum |-> q, weights |-> w, one |-> TRUE]
          /\ q > 0 /\ TotalWeight(w) >= q
      BY <2>1 DEF ReplaceSignerList, ValidateQuorumAndSignerEntries, KeysInv
    <3> QED BY <3>1 DEF Reaches, NoList
  <2>2. ASSUME DestroySignerList(a)
        PROVE  signerList'[a] = NoList /\ ~("DisableMaster" \in flags[a] /\ regularKey[a] = None)
    BY <2>2 DEF DestroySignerList, KeysInv
  <2> QED BY <2>1, <2>2
<1>3. ASSUME NEW b \in Signers, HasList(b)' PROVE Reaches(signerList'[b])
  BY <1>1, <1>2, <1>3 DEF KeysInv, HasList
<1>4. ASSUME NEW b \in Signers
      PROVE  \/ "DisableMaster" \notin flags'[b] \/ regularKey'[b] # None
             \/ HasList(b)' /\ Reaches(signerList'[b])
  <2>1. CASE b = a /\ HasList(b)'
    BY <1>3, <2>1
  <2>2. CASE b = a /\ ~HasList(b)'
    BY <1>1, <1>2, <2>2 DEF HasList
  <2>3. CASE b # a
    <3>1. HasList(b)' = HasList(b) /\ signerList'[b] = signerList[b]
      BY <1>1, <2>3 DEF HasList
    <3>2. \/ "DisableMaster" \notin flags[b] \/ regularKey[b] # None
          \/ HasList(b) /\ Reaches(signerList[b])
      BY DEF KeysInv, NeverLockedOut, Reaches
    <3> QED BY <1>1, <3>1, <3>2, Zenon
  <2> QED BY <2>1, <2>2, <2>3, Zenon
<1>5. NeverLockedOut'
  BY <1>4 DEF NeverLockedOut, Reaches
<1>6. DOMAIN signerList' = Signers
  BY <1>1 DEF KeysInv
<1> QED BY <1>1, <1>3, <1>5, <1>6 DEF KeysInv, MasterDisablesItself

\* AccountSet disables a master key only with the key itself and while there is
\* another way to sign, and never makes NoFreeze meet the right to claw back.
LEMMA SetAccountKeys ==
    ASSUME KeysInv, NEW a \in Signers, NEW sig, NEW set \in Flags \cup {None},
           NEW clear \in Flags \cup {None}, SetAccount(a, set, clear, sig)
    PROVE  KeysInv'
<1> DEFINE now == (flags[a] \cup ({set} \ {None})) \ {Clears(a, set, clear)}
<1>1. /\ UNCHANGED <<regularKey, signerList>> /\ SetAccountPreclaim(a, set)
      /\ set = "DisableMaster" /\ set \notin flags[a] => DisableMasterKey(a, sig.key = a)
      /\ withMaster' = IF set = "DisableMaster" /\ sig.key = a THEN withMaster \cup {a} ELSE withMaster
  BY DEF SetAccount
<1>2. flags' = [flags EXCEPT ![a] = now]
  BY DEF SetAccount
<1>3. now \in SUBSET Flags /\ now \subseteq flags[a] \cup {set}
  BY DEF KeysInv
<1> HIDE DEF now
<1>4. /\ flags' \in [Signers -> SUBSET Flags] /\ flags'[a] = now
      /\ \A b \in Signers \ {a} : flags'[b] = flags[b]
  BY <1>2, <1>3 DEF KeysInv
<1>5. \A b \in Signers : HasList(b)' = HasList(b) /\ (HasList(b) => Reaches(signerList[b]))
  BY <1>1 DEF KeysInv, HasList
<1>6. ASSUME NEW b \in Signers, "DisableMaster" \in flags'[b]
      PROVE  (regularKey[b] # None \/ HasList(b)) /\ b \in withMaster'
  <2>1. CASE "DisableMaster" \in flags[b]
    BY <1>1, <2>1, Zenon DEF KeysInv, NeverLockedOut, MasterDisablesItself
  <2>2. CASE "DisableMaster" \notin flags[b]
    <3>1. b = a /\ set = "DisableMaster"
      BY <1>3, <1>4, <1>6, <2>2
    <3> QED BY <1>1, <2>2, <3>1 DEF DisableMasterKey
  <2> QED BY <2>1, <2>2, Zenon
<1>7. NeverLockedOut' /\ MasterDisablesItself'
  BY <1>1, <1>5, <1>6, Zenon DEF NeverLockedOut, MasterDisablesItself, Reaches
<1>8. ASSUME NEW b \in Signers PROVE ~({"NoFreeze", "AllowTrustLineClawback"} \subseteq flags'[b])
  <2>1. ~({"NoFreeze", "AllowTrustLineClawback"} \subseteq flags[b])
    BY DEF KeysInv
  <2>2. CASE b = a
    BY <1>1, <1>3, <1>4, <2>1, <2>2 DEF SetAccountPreclaim
  <2> QED BY <1>4, <2>1, <2>2
<1> QED BY <1>1, <1>4, <1>5, <1>7, <1>8 DEF KeysInv

\* Every step keeps the invariant.
LEMMA NextKeys == KeysInv /\ [KeysNext]_keyVars => KeysInv'
<1> SUFFICES ASSUME KeysInv, [KeysNext]_keyVars PROVE KeysInv'
  OBVIOUS
<1>1. CASE UNCHANGED <<flags, regularKey, signerList, withMaster>>
  BY <1>1 DEF KeysInv, NeverLockedOut, MasterDisablesItself, HasList
<1>2. ASSUME NEW a \in Signers, OtherObjects(a) PROVE KeysInv'
  BY <1>1, <1>2 DEF OtherObjects
<1>3. ASSUME NEW a \in Signers, Transaction(a) PROVE KeysInv'
  <2>1. PICK sig \in Signatures :
           \/ \E key \in Signers \cup {None} : SetRegularKey(a, key)
           \/ \E q \in Quorums, w \in SignerLists : ReplaceSignerList(a, q, w)
           \/ DestroySignerList(a)
           \/ \E set, clear \in Flags \cup {None} : SetAccount(a, set, clear, sig)
    BY <1>3 DEF Transaction
  <2> QED BY <2>1, RegularKeyKeys, SignerListKeys, SetAccountKeys
<1> QED BY <1>1, <1>2, <1>3 DEF KeysNext, keyVars

\* Whatever keys, lists and flags an account sets and in whatever order, it can
\* always be signed for.
THEOREM NobodyLockedOut == KeysSpec => []NeverLockedOut
<1>1. KeysInv => NeverLockedOut
  BY DEF KeysInv
<1> QED BY <1>1, InitKeys, NextKeys, PTL DEF KeysSpec

\* A master key that is disabled was disabled by a transaction it signed.
THEOREM MasterByItself == KeysSpec => []MasterDisablesItself
<1>1. KeysInv => MasterDisablesItself
  BY DEF KeysInv
<1> QED BY <1>1, InitKeys, NextKeys, PTL DEF KeysSpec

\* What a step may never do to a promise, as FreezePromise says it.
LEMMA PromiseStep ==
    ASSUME KeysInv, KeysInv', [KeysNext]_keyVars, NEW a \in Signers
    PROVE  /\ "NoFreeze" \in flags[a] => "NoFreeze" \in flags'[a]
           /\ {"NoFreeze", "GlobalFreeze"} \subseteq flags[a] => "GlobalFreeze" \in flags'[a]
           /\ ~({"NoFreeze", "AllowTrustLineClawback"} \subseteq flags'[a])
<1>1. ~({"NoFreeze", "AllowTrustLineClawback"} \subseteq flags'[a])
  BY DEF KeysInv
<1>2. CASE flags' = flags
  BY <1>1, <1>2
<1>3. ASSUME NEW b \in Signers, NEW sig, NEW set \in Flags \cup {None},
             NEW clear \in Flags \cup {None}, SetAccount(b, set, clear, sig)
      PROVE  /\ "NoFreeze" \in flags[a] => "NoFreeze" \in flags'[a]
             /\ {"NoFreeze", "GlobalFreeze"} \subseteq flags[a] => "GlobalFreeze" \in flags'[a]
  <2>1. flags' = [flags EXCEPT ![b] = (@ \cup ({set} \ {None})) \ {Clears(b, set, clear)}]
    BY <1>3 DEF SetAccount
  <2>2. /\ Clears(b, set, clear) # "NoFreeze"
        /\ "NoFreeze" \in flags[b] => Clears(b, set, clear) # "GlobalFreeze"
    BY DEF Clears, None
  <2> QED BY <2>1, <2>2 DEF KeysInv
<1>4. flags' = flags \/ \E b \in Signers, sig \in Signatures, set, clear \in Flags \cup {None} :
                          SetAccount(b, set, clear, sig)
  BY DEF KeysNext, keyVars, OtherObjects, Transaction, SetRegularKey, ReplaceSignerList, DestroySignerList
<1> QED BY <1>1, <1>2, <1>3, <1>4

\* NoFreeze is for ever, no global freeze is lifted after it, and it never meets
\* the right to claw back.
THEOREM FreezeKept == KeysSpec => FreezePromise
<1>1. KeysInv /\ KeysInv' /\ [KeysNext]_keyVars =>
          [\A a \in Signers :
              /\ "NoFreeze" \in flags[a] => "NoFreeze" \in flags'[a]
              /\ {"NoFreeze", "GlobalFreeze"} \subseteq flags[a] => "GlobalFreeze" \in flags'[a]
              /\ ~({"NoFreeze", "AllowTrustLineClawback"} \subseteq flags'[a])]_keyVars
  BY PromiseStep, Zenon
<1> QED BY <1>1, InitKeys, NextKeys, PTL DEF KeysSpec, FreezePromise

-----------------------------------------------------------------------------
(* What is counted: AccountKeys. *)

\* Types, and the owner count against what is owned.
ObjectsInv == KeysTypeOK /\ DOMAIN signerList = Signers /\ ObjectsAccounted

\* The cost of a signer list is a natural number; one made now costs one.
LEMMA ListCostType ==
    /\ \A l : l = NoList \/ l.weights \in SignerLists => ListCost(l) \in Nat
    /\ ListCost(NoList) = 0
    /\ \A q, w : q > 0 => ListCost([quorum |-> q, weights |-> w, one |-> TRUE]) = 1
<1>1. \A l : l = NoList \/ l.weights \in SignerLists => ListCost(l) \in Nat
  <2> SUFFICES ASSUME NEW l, l = NoList \/ l.weights \in SignerLists PROVE ListCost(l) \in Nat
    OBVIOUS
  <2>1. l # NoList => Cardinality(DOMAIN l.weights) \in Nat
    BY KeysAssumption, FS_CardinalityType
  <2> QED BY <2>1 DEF ListCost
<1>2. ASSUME NEW q, NEW w, q > 0 PROVE ListCost([quorum |-> q, weights |-> w, one |-> TRUE]) = 1
  BY <1>2 DEF ListCost, NoList
<1> QED BY <1>1, <1>2 DEF ListCost

\* At the start the old signer lists are counted.
LEMMA InitObjects == KeysInit => ObjectsInv
<1> SUFFICES ASSUME KeysInit PROVE ObjectsInv
  OBVIOUS
<1>1. /\ flags = [a \in Signers |-> {}] /\ regularKey = [a \in Signers |-> None]
      /\ DOMAIN signerList = Signers
      /\ ownerCount = [a \in Signers |-> ListCost(signerList[a])] /\ others = [a \in Signers |-> 0]
  BY DEF KeysInit
<1>2. ASSUME NEW a \in Signers
      PROVE  /\ HasList(a) => signerList[a].weights \in SignerLists /\ signerList[a].quorum > 0
             /\ ListCost(signerList[a]) \in Nat
  <2>1. signerList[a] \in {NoList} \cup {[quorum |-> 1, weights |-> w, one |-> FALSE] : w \in SignerLists}
    BY DEF KeysInit
  <2>2. HasList(a) => signerList[a].weights \in SignerLists /\ signerList[a].quorum > 0
    BY <2>1 DEF HasList
  <2> QED BY <2>2, ListCostType DEF HasList
<1> QED BY <1>1, <1>2, KeysAssumption DEF ObjectsInv, KeysTypeOK, ObjectsAccounted

\* What the old list counted is given back, whichever way it was counted.
LEMMA RemovedIsOthers ==
    ASSUME ObjectsInv, NEW a \in Signers
    PROVE  Removed(a) = others[a] /\ others[a] \in Nat
<1>1. ownerCount[a] = ListCost(signerList[a]) + others[a] /\ others[a] \in 0 .. MaxOthers
  BY DEF ObjectsInv, KeysTypeOK, ObjectsAccounted
<1>2. ListCost(signerList[a]) \in Nat
  BY ListCostType DEF ObjectsInv, KeysTypeOK, HasList
<1> QED BY <1>1, <1>2, KeysAssumption DEF Removed, ConfineOwnerCount

\* Every step keeps the count.
LEMMA NextObjects == ObjectsInv /\ KeysInv /\ KeysInv' /\ [KeysNext]_keyVars => ObjectsInv'
<1> SUFFICES ASSUME ObjectsInv, KeysInv, KeysInv', [KeysNext]_keyVars PROVE ObjectsInv'
  OBVIOUS
<1>0. /\ flags' \in [Signers -> SUBSET Flags] /\ regularKey' \in [Signers -> Signers \cup {None}]
      /\ DOMAIN signerList' = Signers
  BY DEF KeysInv
<1>1. CASE UNCHANGED <<signerList, ownerCount, others>>
  BY <1>0, <1>1 DEF ObjectsInv, KeysTypeOK, ObjectsAccounted, HasList
<1>2. ASSUME NEW a \in Signers, OtherObjects(a) PROVE ObjectsInv'
  <2>1. PICK n \in 0 .. MaxOthers : others' = [others EXCEPT ![a] = n]
    BY <1>2 DEF OtherObjects
  <2>2. /\ signerList' = signerList
        /\ ownerCount' = [ownerCount EXCEPT ![a] = @ + others'[a] - others[a]]
    BY <1>2 DEF OtherObjects
  <2>3. /\ ownerCount \in [Signers -> Nat] /\ others \in [Signers -> 0 .. MaxOthers]
        /\ \A b \in Signers : ownerCount[b] = ListCost(signerList[b]) + others[b]
        /\ \A b \in Signers : ListCost(signerList[b]) \in Nat
    BY ListCostType DEF ObjectsInv, KeysTypeOK, ObjectsAccounted, HasList
  <2>4. others' \in [Signers -> 0 .. MaxOthers] /\ others'[a] = n
    BY <2>1, <2>3
  <2>5. \A b \in Signers : ownerCount'[b] = ListCost(signerList[b]) + others'[b]
    BY <2>1, <2>2, <2>3, <2>4, KeysAssumption
  <2>6. ownerCount' \in [Signers -> Nat]
    <3>1. DOMAIN ownerCount' = Signers /\ ownerCount' = [b \in Signers |-> ownerCount'[b]]
      BY <2>2, <2>3, Zenon
    <3>2. \A b \in Signers : ownerCount'[b] \in Nat
      BY <2>3, <2>4, <2>5, KeysAssumption
    <3> QED BY <3>1, <3>2
  <2> QED BY <1>0, <2>2, <2>4, <2>5, <2>6 DEF ObjectsInv, KeysTypeOK, ObjectsAccounted, HasList
<1>3. ASSUME NEW a \in Signers,
             NEW l, l = NoList \/ (l.weights \in SignerLists /\ l.quorum > 0), NEW cost \in Nat,
             cost = ListCost(l), signerList' = [signerList EXCEPT ![a] = l],
             ownerCount' = [ownerCount EXCEPT ![a] = Removed(a) + cost], others' = others
      PROVE  ObjectsInv'
  <2>1. ownerCount' = [ownerCount EXCEPT ![a] = others[a] + cost] /\ others[a] \in Nat
    BY <1>3, RemovedIsOthers, Zenon
  <2>2. ownerCount \in [Signers -> Nat] /\ others \in [Signers -> 0 .. MaxOthers]
    BY DEF ObjectsInv, KeysTypeOK
  <2>3. ownerCount' \in [Signers -> Nat]
    BY <2>1, <2>2
  <2>4. ASSUME NEW b \in Signers
        PROVE  /\ HasList(b)' => signerList'[b].weights \in SignerLists /\ signerList'[b].quorum > 0
               /\ ownerCount'[b] = ListCost(signerList'[b]) + others'[b]
    <3>1. CASE b = a
      <4>1. signerList'[b] = l /\ ownerCount'[b] = others[b] + cost
        BY <1>3, <2>1, <2>2, <3>1 DEF ObjectsInv
      <4> QED BY <1>3, <2>1, <3>1, <4>1 DEF HasList
    <3>2. CASE b # a
      <4>1. signerList'[b] = signerList[b] /\ ownerCount'[b] = ownerCount[b] /\ HasList(b)' = HasList(b)
        BY <1>3, <2>1, <2>2, <3>2 DEF ObjectsInv, HasList
      <4> QED BY <1>3, <4>1 DEF ObjectsInv, KeysTypeOK, ObjectsAccounted
    <3> QED BY <3>1, <3>2
  <2> QED BY <1>0, <1>3, <2>2, <2>3, <2>4 DEF ObjectsInv, KeysTypeOK, ObjectsAccounted
<1>4. ASSUME NEW a \in Signers, NEW q \in Quorums, NEW w \in SignerLists, ReplaceSignerList(a, q, w)
      PROVE  ObjectsInv'
  <2> DEFINE l == [quorum |-> q, weights |-> w, one |-> TRUE]
  <2>1. /\ q > 0 /\ signerList' = [signerList EXCEPT ![a] = l]
        /\ ownerCount' = [ownerCount EXCEPT ![a] = Removed(a) + 1] /\ others' = others
    BY <1>4 DEF ReplaceSignerList, ValidateQuorumAndSignerEntries
  <2>2. ListCost(l) = 1 /\ l.weights \in SignerLists /\ l.quorum > 0
    BY <2>1, ListCostType
  <2> QED BY <1>3, <2>1, <2>2, Zenon
<1>5. ASSUME NEW a \in Signers, DestroySignerList(a) PROVE ObjectsInv'
  <2>1. /\ signerList' = [signerList EXCEPT ![a] = NoList]
        /\ ownerCount' = [ownerCount EXCEPT ![a] = Removed(a)] /\ others' = others
    BY <1>5 DEF DestroySignerList
  <2>2. Removed(a) = Removed(a) + 0
    BY RemovedIsOthers
  <2>3. ownerCount' = [ownerCount EXCEPT ![a] = Removed(a) + 0]
    BY <2>1, <2>2, Zenon
  <2> QED BY <1>3, <2>1, <2>3, ListCostType, Zenon
<1>6. \/ UNCHANGED <<signerList, ownerCount, others>>
      \/ \E a \in Signers : \/ OtherObjects(a) \/ DestroySignerList(a)
                            \/ \E q \in Quorums, w \in SignerLists : ReplaceSignerList(a, q, w)
  BY DEF KeysNext, keyVars, Transaction, SetRegularKey, SetAccount
<1> QED BY <1>1, <1>2, <1>4, <1>5, <1>6

\* The owner count is what the signer list costs, counted the old way or the
\* new, plus the other objects, however often the list is replaced.
THEOREM OwnersCounted == KeysSpec => [](KeysTypeOK /\ ObjectsAccounted)
<1>1. ObjectsInv => KeysTypeOK /\ ObjectsAccounted
  BY DEF ObjectsInv
<1> QED BY <1>1, InitKeys, NextKeys, InitObjects, NextObjects, PTL DEF KeysSpec

-----------------------------------------------------------------------------
(* The cache: ExclusionManager. *)

\* The sets of validators the cache counts are finite, so their cardinalities
\* are natural numbers.
LEMMA CountedSetsFinite ==
  ASSUME NEW lists
  PROVE  /\ IsFiniteSet(Listing(lists))
         /\ Cardinality(Listing(lists)) \in Nat
         /\ \A a : /\ IsFiniteSet(Excluders(lists, a))
                   /\ Cardinality(Excluders(lists, a)) \in Nat
<1>1. /\ Listing(lists) \subseteq Validators
      /\ \A a : Excluders(lists, a) \subseteq Validators
  BY DEF Listing, Excluders
<1>2. IsFiniteSet(Listing(lists)) /\ \A a : IsFiniteSet(Excluders(lists, a))
  BY <1>1, ExclusionAssumption, FS_Subset
<1>. QED  BY <1>2, FS_CardinalityType

\* Replacing one validator's list uncounts the accounts of the old list and
\* counts those of the new one, once each.
LEMMA ReplaceListCounts ==
  ASSUME NEW lists \in Lists, NEW v \in Validators, NEW s,
         NEW a \in Accounts
  PROVE  Cardinality(Excluders(WithList(lists, v, s), a)) =
           Cardinality(Excluders(lists, a))
             - (IF a \in lists[v] THEN 1 ELSE 0)
             + (IF a \in s THEN 1 ELSE 0)
<1> DEFINE new == Excluders(WithList(lists, v, s), a)
           old == Excluders(lists, a)
           rest == old \ {v}
<1>1. /\ new = IF a \in s THEN rest \union {v} ELSE rest
      /\ v \in old <=> a \in lists[v]
      /\ v \notin rest
  BY DEF Lists, Excluders, WithList
<1>2. IsFiniteSet(old) /\ Cardinality(old) \in Nat
  BY CountedSetsFinite
<1>3. /\ IsFiniteSet(rest)
      /\ Cardinality(rest) = IF v \in old THEN Cardinality(old) - 1
                                          ELSE Cardinality(old)
  BY <1>2, FS_RemoveElement, Zenon
<1>4. Cardinality(rest \union {v}) = Cardinality(rest) + 1
  BY <1>1, <1>3, FS_AddElement, Zenon
<1>5. Cardinality(rest) \in Nat
  BY <1>3, FS_CardinalityType
<1> HIDE DEF new, old, rest
<1>6. Cardinality(new) = Cardinality(old)
             - (IF a \in lists[v] THEN 1 ELSE 0)
             + (IF a \in s THEN 1 ELSE 0)
  <2>1. CASE a \in s
    BY <2>1, <1>1, <1>2, <1>3, <1>4, <1>5
  <2>2. CASE a \notin s
    BY <2>2, <1>1, <1>2, <1>3, <1>5
  <2>. QED  BY <2>1, <2>2
<1>. QED  BY <1>6 DEF new, old

\* The decrement and increment loops keep the counts equal to a recount.
LEMMA LoopsRecount ==
  ASSUME NEW lists \in Lists, NEW v \in Validators,
         NEW s, NEW counts \in [Accounts -> Nat],
         \A a \in Accounts : counts[a] = Cardinality(Excluders(lists, a))
  PROVE  LET loops == Incremented(Decremented(counts, lists[v]), s)
         IN  /\ loops \in [Accounts -> Nat]
             /\ \A a \in Accounts :
                  loops[a] = Cardinality(Excluders(WithList(lists, v, s), a))
<1> DEFINE loops == Incremented(Decremented(counts, lists[v]), s)
<1>1. ASSUME NEW a \in Accounts
      PROVE  /\ loops[a] = Cardinality(Excluders(WithList(lists, v, s), a))
             /\ loops[a] \in Nat
  <2>1. Cardinality(Excluders(WithList(lists, v, s), a)) =
          counts[a] - (IF a \in lists[v] THEN 1 ELSE 0)
                    + (IF a \in s THEN 1 ELSE 0)
    BY ReplaceListCounts
  <2>2. a \in lists[v] => counts[a] > 0
    <3> SUFFICES ASSUME a \in lists[v] PROVE counts[a] > 0
      OBVIOUS
    <3>1. v \in Excluders(lists, a)
      BY DEF Excluders
    <3>2. /\ IsFiniteSet(Excluders(lists, a))
          /\ Cardinality(Excluders(lists, a)) \in Nat
      BY CountedSetsFinite
    <3>3. Cardinality(Excluders(lists, a)) # 0
      BY <3>1, <3>2, FS_EmptySet
    <3>. QED  BY <3>2, <3>3
  <2>3. loops[a] = counts[a] - (IF a \in lists[v] THEN 1 ELSE 0)
                             + (IF a \in s THEN 1 ELSE 0)
    <3> DEFINE dec == Decremented(counts, lists[v])
    <3>1. dec[a] = IF a \in lists[v] /\ counts[a] > 0 THEN counts[a] - 1 ELSE counts[a]
      BY Zenon DEF Decremented
    <3>2. loops[a] = IF a \in s THEN dec[a] + 1 ELSE dec[a]
      BY Zenon DEF Incremented
    <3>3. counts[a] \in Nat
      OBVIOUS
    <3> HIDE DEF dec, loops
    <3>4. dec[a] = counts[a] - (IF a \in lists[v] THEN 1 ELSE 0)
      BY <2>2, <3>1, <3>3
    <3> QED  BY <3>2, <3>3, <3>4
  <2>4. Cardinality(Excluders(WithList(lists, v, s), a)) \in Nat
    BY CountedSetsFinite
  <2>. QED  BY <2>1, <2>3, <2>4
<1>2. loops \in [Accounts -> Nat]
  BY <1>1 DEF Incremented
<1>. QED  BY <1>1, <1>2

\* The rounded-up integer threshold of getConsensusThreshold is the exact
\* percentage test.
LEMMA ThresholdExact ==
  ASSUME NEW total \in Nat, NEW count \in Nat, total # 0
  PROVE  /\ ConsensusThreshold(total) \in Nat
         /\ count >= ConsensusThreshold(total)
              <=> count > 0 /\ count * 100 >= total * MinConsensusPct
<1> DEFINE x == total * MinConsensusPct
<1>1. x \in Nat /\ x >= 1
  <2>1. MinConsensusPct \in Nat /\ MinConsensusPct >= 1
    BY ExclusionAssumption
  <2>. QED  BY <2>1
<1> HIDE DEF x
<1>2. /\ (x + 99) \div 100 \in Nat
      /\ count >= (x + 99) \div 100 <=> count * 100 >= x
      /\ (x + 99) \div 100 >= 1
  BY <1>1
<1>. QED  BY <1>1, <1>2 DEF ConsensusThreshold, x

-----------------------------------------------------------------------------
\* The precomputed set is what recalculateConsensusExclusions yields for the
\* current counts; every operation ends with that call.
Recalculated ==
  consensusExcluded = ConsensusExclusions(exclusionCounts, totalValidators)

IInv == TypeOK /\ CountsMatchLists /\ Recalculated

\* The empty cache satisfies the invariant.
LEMMA InitIInv == Init => IInv
<1> SUFFICES ASSUME Init PROVE IInv
  OBVIOUS
<1>1. TypeOK
  BY Zenon DEF Init, TypeOK, Lists, NoLists
<1>2. /\ Listing(validatorExclusions) = {}
      /\ \A a \in Accounts : Excluders(validatorExclusions, a) = {}
  BY DEF Init, NoLists, Listing, Excluders
<1>3. CountsMatchLists
  BY <1>2, FS_EmptySet DEF Init, CountsMatchLists
<1>4. Recalculated
  BY DEF Init, Recalculated, ConsensusExclusions
<1>. QED  BY <1>1, <1>3, <1>4 DEF IInv

\* What each operation leaves: counts that match the lists, and the set
\* recomputed from them.  Update and removal share the argument.
LEMMA ReplaceKeepsIInv ==
  ASSUME TypeOK, CountsMatchLists,
         NEW v \in Validators, NEW s \in SUBSET Accounts,
         validatorExclusions' = WithList(validatorExclusions, v, s),
         totalValidators' = Cardinality(Listing(validatorExclusions')),
         exclusionCounts' = Incremented(Decremented(exclusionCounts,
                                          validatorExclusions[v]), s),
         consensusExcluded' = ConsensusExclusions(exclusionCounts',
                                                  totalValidators'),
         initialized' = initialized
  PROVE  IInv'
<1>1. validatorExclusions' \in Lists
  BY DEF TypeOK, Lists, WithList
<1>2. /\ exclusionCounts' \in [Accounts -> Nat]
      /\ \A a \in Accounts : exclusionCounts'[a] =
           Cardinality(Excluders(validatorExclusions', a))
  <2>1. /\ validatorExclusions \in Lists
        /\ exclusionCounts \in [Accounts -> Nat]
        /\ \A a \in Accounts : exclusionCounts[a] =
             Cardinality(Excluders(validatorExclusions, a))
    BY DEF TypeOK, CountsMatchLists
  <2>. QED  BY <2>1, LoopsRecount
<1>3. totalValidators' \in Nat
  BY CountedSetsFinite
<1>5. consensusExcluded' \in SUBSET Accounts
  BY DEF ConsensusExclusions
<1>6. TypeOK'
  BY <1>1, <1>2, <1>3, <1>5 DEF TypeOK
<1>. QED  BY <1>2, <1>6 DEF IInv, CountsMatchLists, Recalculated

\* updateValidatorExclusions, removeValidator and rebuildCache keep it.
LEMMA NextIInv == IInv /\ [Next]_emVars => IInv'
<1> SUFFICES ASSUME IInv, [Next]_emVars PROVE IInv'
  OBVIOUS
<1> USE DEF IInv
<1>1. ASSUME NEW v \in Validators, NEW s \in SUBSET Accounts,
             UpdateValidatorExclusions(v, s)
      PROVE  IInv'
  BY <1>1, ReplaceKeepsIInv DEF UpdateValidatorExclusions
<1>2. ASSUME NEW v \in Validators, RemoveValidator(v)
      PROVE  IInv'
  <2>1. Incremented(Decremented(exclusionCounts, validatorExclusions[v]), {})
          = Decremented(exclusionCounts, validatorExclusions[v])
    BY DEF Incremented, Decremented
  <2>2. {} \in SUBSET Accounts
    OBVIOUS
  <2>. QED  BY <1>2, <2>1, <2>2, ReplaceKeepsIInv DEF RemoveValidator
<1>3. ASSUME NEW view \in Lists, NEW on \in BOOLEAN,
             NEW trusted \in SUBSET Validators,
             RebuildCache(view, on, trusted)
      PROVE  IInv'
  <2>1. CASE ~on
    BY <1>3, <2>1 DEF RebuildCache, TypeOK, CountsMatchLists, Recalculated,
                      Excluders, Listing
  <2>2. CASE on
    <3>1. /\ validatorExclusions' \in Lists
          /\ exclusionCounts' = [a \in Accounts |->
                Cardinality(Excluders(validatorExclusions', a))]
          /\ totalValidators' = Cardinality(Listing(validatorExclusions'))
          /\ consensusExcluded' = ConsensusExclusions(exclusionCounts',
                                                      totalValidators')
          /\ initialized' = TRUE
      BY <1>3, <2>2, Zenon DEF RebuildCache, Lists
    <3>2. /\ totalValidators' \in Nat
          /\ exclusionCounts' \in [Accounts -> Nat]
      BY <3>1, CountedSetsFinite
    <3>3. consensusExcluded' \in SUBSET Accounts
      BY <3>1 DEF ConsensusExclusions
    <3>. QED  BY <3>1, <3>2, <3>3 DEF TypeOK, CountsMatchLists, Recalculated
  <2>. QED  BY <2>1, <2>2
<1>4. CASE UNCHANGED emVars
  BY <1>4 DEF emVars, TypeOK, CountsMatchLists, Recalculated, Excluders,
              Listing
<1>. QED  BY <1>1, <1>2, <1>3, <1>4 DEF Next

-----------------------------------------------------------------------------
\* In every reachable state the cache is well typed and its incremental
\* counts equal a recount of the lists.
THEOREM CountsCorrect == Spec => [](TypeOK /\ CountsMatchLists)
<1>1. IInv => TypeOK /\ CountsMatchLists
  BY DEF IInv
<1>. QED  BY <1>1, InitIInv, NextIInv, PTL DEF Spec

\* Recalculated from exact counts, the set is exact.
LEMMA IInvExact == IInv => ExcludedExactlyAtThreshold
<1> SUFFICES ASSUME IInv, NEW a \in Accounts
             PROVE  a \in consensusExcluded <=>
                      LET voters == Cardinality(Excluders(validatorExclusions, a))
                          lists  == Cardinality(Listing(validatorExclusions))
                      IN  voters > 0 /\ voters * 100 >= lists * MinConsensusPct
  BY DEF ExcludedExactlyAtThreshold
<1> DEFINE voters == Cardinality(Excluders(validatorExclusions, a))
           lists == Cardinality(Listing(validatorExclusions))
<1>1. voters \in Nat /\ lists \in Nat
  BY CountedSetsFinite
<1>2. voters > 0 => lists # 0
  <2>1. Excluders(validatorExclusions, a) \subseteq Listing(validatorExclusions)
    BY DEF Excluders, Listing
  <2>2. voters <= lists
    BY <2>1, CountedSetsFinite, FS_Subset
  <2>. QED  BY <1>1, <2>2
<1>3. exclusionCounts[a] = voters /\ totalValidators = lists
  BY DEF IInv, CountsMatchLists
<1>4. a \in consensusExcluded <=>
        lists # 0 /\ voters > 0 /\ voters >= ConsensusThreshold(lists)
  BY <1>3 DEF IInv, Recalculated, ConsensusExclusions
<1> HIDE DEF voters, lists
<1>5. lists # 0 =>
        (voters >= ConsensusThreshold(lists) <=>
           voters > 0 /\ voters * 100 >= lists * MinConsensusPct)
  BY <1>1, ThresholdExact
<1>7. a \in consensusExcluded <=>
        voters > 0 /\ voters * 100 >= lists * MinConsensusPct
  BY <1>5, <1>2, <1>4
<1>. QED  BY <1>7 DEF voters, lists

\* In every reachable state an account is in the excluded set exactly when
\* the configured percentage of the listing validators name it.
THEOREM ExclusionExact == Spec => []ExcludedExactlyAtThreshold
<1>. QED  BY IInvExact, InitIInv, NextIInv, PTL DEF Spec

-----------------------------------------------------------------------------
(* The fetcher: RemoteExclusionListFetcher. *)

\* What fetchResults_ can hold for a source.
Result == {Pending, Failed} \union {Got(list) : list \in SourceLists}

\* Every result that is or was in fetchResults_ is a real one, also in the
\* copies of threads that a later fetch has overtaken.
ResultsReal ==
  /\ fetchResults \in [Idx -> Result]
  /\ snapshot \in [Threads -> [Idx -> Result]]

\* What the client reads: a set made of served lists, whole, and none before
\* the first fetch has completed.
ClientSees ==
  /\ combined \in SUBSET UNION SourceLists
  /\ ~complete => combined = {}
  /\ NeverPartial

FetcherInv == ResultsReal /\ ClientSees

\* A successful result carries one of the lists served.
LEMMA SuccessIsServed ==
  ASSUME NEW r \in Result, r.st = "ok"
  PROVE  r.list \in SourceLists
<1>1. CASE r \in {Pending, Failed}
  BY <1>1 DEF Pending, Failed
<1>2. CASE r \in {Got(list) : list \in SourceLists}
  BY <1>2 DEF Got
<1> QED
  BY <1>1, <1>2 DEF Result

\* The union of one served list from every source holds only served accounts.
LEMMA UnionServed ==
  ASSUME NEW lists, NEW S, lists \in [S -> SourceLists]
  PROVE  Union(lists) \in SUBSET UNION SourceLists
  BY DEF Union

\* Before the first fetch there is nothing.
LEMMA InitFetcherInv == FetcherInit => FetcherInv
<1> SUFFICES ASSUME FetcherInit PROVE FetcherInv
  OBVIOUS
<1>1. Pending \in Result
  BY DEF Result
<1>2. ResultsReal
  BY <1>1 DEF FetcherInit, ResultsReal, NoResults
<1>3. cachedLists = <<>> /\ combined = {}
  BY DEF FetcherInit
<1>4. DOMAIN cachedLists = {} /\ Union(cachedLists) = {}
  BY <1>3 DEF Union
<1> QED
  BY <1>2, <1>3, <1>4 DEF FetcherInv, ClientSees, NeverPartial

\* The critical section of onAllFetchesComplete: what the client sees stays
\* right, and the step it sees is one of the abstract source.
LEMMA UpdateStep ==
  ASSUME ClientSees, NEW results \in [Idx -> Result], UpdateCache(results)
  PROVE  ClientSees' /\ Source!SourceNext
<1>1. CASE /\ Successes(results) = Idx
           /\ cachedLists' = [i \in Idx |-> results[i].list]
           /\ combined' = Union(cachedLists')
           /\ modified' = (modified \/ combined' # combined)
           /\ accessible' = TRUE
  <2>1. ASSUME NEW i \in Idx
        PROVE  results[i].list \in SourceLists
    <3>1. results[i] \in Result /\ results[i].st = "ok"
      BY <1>1 DEF Successes
    <3> QED
      BY <3>1, SuccessIsServed
  <2>2. cachedLists' \in [Idx -> SourceLists]
    BY <1>1, <2>1
  <2>3. combined' \in SUBSET UNION SourceLists
    BY <1>1, <2>2, UnionServed
  <2>4. complete' = TRUE
    BY DEF UpdateCache
  <2>5. DOMAIN cachedLists' = Idx
    BY <2>2
  <2>6. ClientSees'
    BY <1>1, <2>3, <2>4, <2>5 DEF ClientSees, NeverPartial
  <2>7. Source!AllFetched(combined')
    BY <1>1, <2>4 DEF Source!AllFetched
  <2> QED
    BY <2>3, <2>6, <2>7 DEF Source!SourceNext
<1>2. CASE complete /\ accessible' = FALSE /\ UNCHANGED <<cachedLists, combined, modified>>
  <2>1. complete' = TRUE
    BY DEF UpdateCache
  <2>2. ClientSees'
    BY <1>2, <2>1 DEF ClientSees, NeverPartial, Union
  <2>3. Source!SomeFailed
    BY <1>2, <2>1 DEF Source!SomeFailed
  <2> QED
    BY <2>2, <2>3 DEF Source!SourceNext
<1>3. CASE /\ ~complete
           /\ cachedLists' = <<>> /\ combined' = {} /\ accessible' = FALSE
           /\ UNCHANGED modified
  <2>1. complete' = TRUE
    BY DEF UpdateCache
  <2>2. combined = {}
    BY <1>3 DEF ClientSees
  <2>3. DOMAIN cachedLists' = {} /\ Union(cachedLists') = {}
    BY <1>3 DEF Union
  <2>4. ClientSees'
    BY <1>3, <2>1, <2>3 DEF ClientSees, NeverPartial
  <2>5. Source!SomeFailed
    BY <1>3, <2>1, <2>2 DEF Source!SomeFailed
  <2> QED
    BY <2>4, <2>5 DEF Source!SourceNext
<1>4. CASE complete /\ UNCHANGED <<cachedLists, combined, modified, accessible>>
  <2>1. complete' = TRUE
    BY DEF UpdateCache
  <2>2. ClientSees'
    BY <1>4, <2>1 DEF ClientSees, NeverPartial, Union
  <2>3. Source!AllFailed
    BY <1>4, <2>1 DEF Source!AllFailed, Source!srcVars
  <2> QED
    BY <2>2, <2>3 DEF Source!SourceNext
<1> QED
  BY <1>1, <1>2, <1>3, <1>4, Zenon DEF UpdateCache

\* A step that changes nothing the client reads is a stutter of the source.
LEMMA ClientStutters ==
  ASSUME UNCHANGED cacheVars
  PROVE  /\ UNCHANGED Source!srcVars
         /\ ClientSees => ClientSees'
<1>1. /\ cachedLists' = cachedLists /\ combined' = combined /\ modified' = modified
      /\ accessible' = accessible /\ complete' = complete
  BY DEF cacheVars
<1> QED
  BY <1>1 DEF Source!srcVars, ClientSees, NeverPartial, Union

\* A fetch that starts leaves real results.
LEMMA StartsFetching ==
  ASSUME ResultsReal, NEW t, FetchAllLists(t)
  PROVE  fetchResults' \in [Idx -> Result]
<1>1. NoResults \in [Idx -> Result]
  BY DEF NoResults, Result
<1> QED
  BY <1>1 DEF FetchAllLists, ResultsReal

\* What a step of any thread, of the timer, of a source or of the client
\* does: the invariant is kept, and the client sees a step of the abstract
\* source or nothing.
LEMMA FetcherStep ==
  ASSUME FetcherInv, FetcherNext
  PROVE  FetcherInv' /\ [Source!SourceNext]_(Source!srcVars)
<1>0. ResultsReal /\ ClientSees
  BY DEF FetcherInv
<1> DEFINE Good == FetcherInv' /\ [Source!SourceNext]_(Source!srcVars)
           Quiet == UNCHANGED cacheVars /\ ResultsReal'
<1>q. ASSUME Quiet PROVE Good
  BY <1>q, <1>0, ClientStutters DEF FetcherInv
<1>s. ASSUME UNCHANGED <<fetchResults, snapshot>> PROVE ResultsReal'
  BY <1>0, <1>s DEF ResultsReal
<1>f. ASSUME fetchResults' \in [Idx -> Result], UNCHANGED snapshot PROVE ResultsReal'
  BY <1>0, <1>f DEF ResultsReal
<1> SUFFICES Good
  OBVIOUS
<1> HIDE DEF Good
<1>1. CASE Start
  BY <1>1, <1>0, <1>f, <1>q, StartsFetching DEF Start
<1>2. ASSUME NEW t \in IO, TimerFires(t) PROVE Good
  BY <1>2, <1>s, <1>q DEF TimerFires
<1>3. ASSUME NEW t \in Threads, ThreadStep(t) PROVE Good
  <2>1. CASE TimerFetches(t)
    BY <2>1, <1>0, <1>f, <1>q, StartsFetching DEF TimerFetches
  <2>2. CASE FetchFromSource(t)
    <3>1. fetchResults' \in [Idx -> Result]
      <4>1. fetchResults' = fetchResults
            \/ \E i \in Idx : fetchResults' = [fetchResults EXCEPT ![i] = Failed]
        BY <2>2 DEF FetchFromSource
      <4>2. Failed \in Result
        BY DEF Result
      <4> QED
        BY <4>1, <4>2, <1>0 DEF ResultsReal
    <3>2. UNCHANGED snapshot /\ UNCHANGED cacheVars
      BY <2>2 DEF FetchFromSource
    <3> QED
      BY <3>1, <3>2, <1>f, <1>q
  <2>3. CASE LoopEnds(t)
    BY <2>3, <1>s, <1>q DEF LoopEnds
  <2>4. CASE ScheduleNextFetch(t)
    BY <2>4, <1>s, <1>q DEF ScheduleNextFetch
  <2>5. CASE CheckAllFetchesComplete(t)
    BY <2>5, <1>s, <1>q DEF CheckAllFetchesComplete
  <2>6. CASE ReadResults(t)
    <3>1. /\ snapshot' = [snapshot EXCEPT ![t] = fetchResults]
          /\ UNCHANGED fetchResults /\ UNCHANGED cacheVars
      BY <2>6 DEF ReadResults
    <3>2. ResultsReal'
      BY <3>1, <1>0 DEF ResultsReal
    <3> QED
      BY <3>1, <3>2, <1>q
  <2>7. CASE OnAllFetchesComplete(t)
    <3>1. /\ UpdateCache(snapshot[t])
          /\ snapshot' = [snapshot EXCEPT ![t] = NoResults]
          /\ UNCHANGED fetchResults
      BY <2>7 DEF OnAllFetchesComplete
    <3>2. snapshot[t] \in [Idx -> Result]
      BY <1>0 DEF ResultsReal
    <3>3. ClientSees' /\ Source!SourceNext
      BY <1>0, <3>1, <3>2, UpdateStep
    <3>4. NoResults \in [Idx -> Result]
      BY DEF NoResults, Result
    <3>5. ResultsReal'
      BY <1>0, <3>1, <3>4 DEF ResultsReal
    <3> QED
      BY <3>3, <3>5 DEF Good, FetcherInv
  <2> QED
    BY <1>3, <2>1, <2>2, <2>3, <2>4, <2>5, <2>6, <2>7 DEF ThreadStep
<1>4. ASSUME NEW i \in Idx, Answers(i) PROVE Good
  <2>1. PICK t \in IO, result \in Result : Answer(t, i, result)
    BY <1>4 DEF Answers, Result
  <2>2. /\ fetchResults' = [fetchResults EXCEPT ![i] = result]
        /\ UNCHANGED snapshot /\ UNCHANGED cacheVars
    BY <2>1 DEF Answer
  <2>3. fetchResults' \in [Idx -> Result]
    BY <2>2, <1>0 DEF ResultsReal
  <2> QED
    BY <2>2, <2>3, <1>f, <1>q
<1>5. CASE Stop
  BY <1>5, <1>s, <1>q DEF Stop
<1>6. CASE StopReturns
  BY <1>6, <1>s, <1>q DEF StopReturns
<1>7. CASE HasBeenModified
  <2>1. /\ modified /\ modified' = FALSE /\ UNCHANGED <<cachedLists, combined, accessible, complete>>
        /\ UNCHANGED <<fetchResults, snapshot>>
    BY <1>7 DEF HasBeenModified
  <2>2. Source!TakeFlag
    BY <2>1 DEF Source!TakeFlag
  <2>3. ClientSees'
    BY <2>1, <1>0 DEF ClientSees, NeverPartial, Union
  <2>4. ResultsReal'
    BY <2>1, <1>s
  <2> QED
    BY <2>2, <2>3, <2>4 DEF Good, FetcherInv, Source!SourceNext
<1> QED
  BY <1>1, <1>2, <1>3, <1>4, <1>5, <1>6, <1>7 DEF FetcherNext

\* A step that changes nothing keeps the invariant.
LEMMA FetcherIdle ==
  ASSUME FetcherInv, UNCHANGED fetchVars
  PROVE  FetcherInv' /\ UNCHANGED Source!srcVars
<1>1. UNCHANGED cacheVars /\ UNCHANGED <<fetchResults, snapshot>>
  BY DEF fetchVars, cacheVars
<1> QED
  BY <1>1, ClientStutters DEF FetcherInv, ResultsReal

\* The inductive invariant of the fetcher.
LEMMA FetcherInvariance == FetcherSpec => []FetcherInv
<1>1. FetcherInv /\ [FetcherNext]_fetchVars => FetcherInv'
  BY FetcherStep, FetcherIdle
<1> QED
  BY <1>1, InitFetcherInv, PTL DEF FetcherSpec

\* No interleaving of the timer, the handlers of answers and the client lets
\* the answers of a part of the sources take effect: the combined set is the
\* union of one list from every source, or empty.
THEOREM NeverFromAPart == FetcherSpec => []NeverPartial
<1>1. FetcherInv => NeverPartial
  BY DEF FetcherInv, ClientSees
<1> QED
  BY <1>1, FetcherInvariance, PTL

\* The fetcher implements the source its client relies on: through the four
\* values the client reads, every step of every thread replaces the set as a
\* whole after a fetch in which every source answered, records a failure, or
\* is the client's own, and a change of the set raises the flag.
THEOREM FetcherIsSource == FetcherSpec => ImplementsSource
<1>1. FetcherInit => Source!SourceInit
  BY DEF FetcherInit, Source!SourceInit
<1>2. FetcherInv /\ [FetcherNext]_fetchVars => [Source!SourceNext]_(Source!srcVars)
  BY FetcherStep, FetcherIdle
<1> QED
  BY <1>1, <1>2, FetcherInvariance, PTL DEF FetcherSpec, ImplementsSource, Source!SourceSpec
=============================================================================
