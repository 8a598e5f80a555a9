---------------------------- MODULE AccountKeys ----------------------------
(***************************************************************************)
(* Who may sign for an account and which promises an issuer has made:      *)
(* SetRegularKey, SignerListSet, AccountSet and the signature checks of    *)
(* Transactor.  A key is named by the account whose master key it is.  The *)
(* owner directory is reduced to the signer list and to `others', objects  *)
(* that other transactions make and delete.                                *)
(***************************************************************************)
EXTENDS AccountRoot

CONSTANTS
    Signers, Drops,      \* accounts and the XRP each one has
    Flags,               \* flags AccountSet is used with
    Quorums,             \* quorums asked for
    SignerLists,         \* signer lists in use: functions from accounts to weights
    MaxOthers            \* bound on the other objects of an account

ASSUME KeysAssumption == MaxOthers \in Nat /\ \A w \in SignerLists : IsFiniteSet(DOMAIN w)

None == "none"
NoList == [quorum |-> 0, weights |-> <<>>, one |-> TRUE]
VARIABLES
    flags, regularKey, signerList, ownerCount, others,
    withMaster           \* accounts whose master key was last disabled by the master key itself

keyVars == <<flags, regularKey, signerList, ownerCount, others, withMaster>>

HasList(a) == signerList[a] # NoList
ListCost(l) == IF l = NoList THEN 0 ELSE IF l.one THEN 1 ELSE 2 + Cardinality(DOMAIN l.weights)
TotalWeight(weights) == SumOver(DOMAIN weights, LAMBDA s : weights[s])

ValidateQuorumAndSignerEntries(a, quorum, weights) ==
    /\ weights # <<>>
    /\ \A s \in DOMAIN weights : weights[s] > 0
    /\ a \notin DOMAIN weights
    /\ quorum > 0 /\ TotalWeight(weights) >= quorum

KeysTypeOK ==
    /\ flags \in [Signers -> SUBSET Flags]
    /\ regularKey \in [Signers -> Signers \cup {None}]
    /\ \A a \in Signers :
           HasList(a) => signerList[a].weights \in SignerLists /\ signerList[a].quorum > 0
    /\ ownerCount \in [Signers -> Nat] /\ others \in [Signers -> 0 .. MaxOthers]

\* Some accounts have a signer list from before MultiSignReserve, which counts
\* two and one for each signer against the reserve.
KeysInit ==
    /\ flags = [a \in Signers |-> {}] /\ regularKey = [a \in Signers |-> None]
    /\ signerList \in
           [Signers -> {NoList} \cup {[quorum |-> 1, weights |-> w, one |-> FALSE] : w \in SignerLists}]
    /\ \A a \in Signers : HasList(a) => ValidateQuorumAndSignerEntries(a, 1, signerList[a].weights)
    /\ ownerCount = [a \in Signers |-> ListCost(signerList[a])]
    /\ others = [a \in Signers |-> 0] /\ withMaster = {}
-----------------------------------------------------------------------------
CheckSingleSign(a, key) == key = regularKey[a] \/ (key = a /\ "DisableMaster" \notin flags[a])
\* signers is a function from signing accounts to the keys they use.
CheckMultiSign(a, signers) ==
    /\ HasList(a)
    /\ DOMAIN signers \subseteq DOMAIN signerList[a].weights
    /\ \A s \in DOMAIN signers :
          IF signers[s] = s THEN "DisableMaster" \notin flags[s] ELSE signers[s] = regularKey[s]
    /\ SumOver(DOMAIN signers, LAMBDA s : signerList[a].weights[s]) >= signerList[a].quorum
\* A signature is [key, signers]: a key alone, or None and signers.
CheckSign(a, sig) == IF sig.key # None THEN CheckSingleSign(a, sig.key) ELSE CheckMultiSign(a, sig.signers)
Signatures ==
    {[key |-> k, signers |-> <<>>] : k \in Signers}
    \cup UNION {{[key |-> None, signers |-> f] : f \in [S -> Signers]} : S \in (SUBSET Signers) \ {{}}}
-----------------------------------------------------------------------------
SetRegularKeyPreflight(a, key) == key # a

\* Mutant of MayRemoveKey: the last way to sign may be removed.
RemoveAnyKey(a) == TRUE

MayRemoveKey(a) == ~("DisableMaster" \in flags[a] /\ ~HasList(a))
SetRegularKey(a, key) ==
    /\ SetRegularKeyPreflight(a, key)
    /\ key = None => MayRemoveKey(a)
    /\ regularKey' = [regularKey EXCEPT ![a] = key]
    /\ UNCHANGED <<flags, signerList, ownerCount, others, withMaster>>

\* removeSignersFromLedger: what the old list counted is given back.
Removed(a) == ConfineOwnerCount(ownerCount[a], -ListCost(signerList[a]))
ReplaceSignerList(a, quorum, weights) ==
    /\ ValidateQuorumAndSignerEntries(a, quorum, weights)
    /\ Drops >= AccountReserve(Removed(a) + 1)
    /\ signerList' = [signerList EXCEPT ![a] = [quorum |-> quorum, weights |-> weights, one |-> TRUE]]
    /\ ownerCount' = [ownerCount EXCEPT ![a] = Removed(a) + 1]
    /\ UNCHANGED <<flags, regularKey, others, withMaster>>
DestroySignerList(a) ==
    /\ ~("DisableMaster" \in flags[a] /\ regularKey[a] = None)
    /\ signerList' = [signerList EXCEPT ![a] = NoList]
    /\ ownerCount' = [ownerCount EXCEPT ![a] = Removed(a)]
    /\ UNCHANGED <<flags, regularKey, others, withMaster>>

\* AccountSet with at most one flag to set and one to clear.
SetAccountPreflight(set, clear) == set # None => set # clear
DirIsEmpty(a) == others[a] = 0 /\ ~HasList(a)
SetAccountPreclaim(a, set) ==
    /\ set = "RequireAuth" /\ set \notin flags[a] => DirIsEmpty(a)
    /\ set = "AllowTrustLineClawback" => "NoFreeze" \notin flags[a] /\ DirIsEmpty(a)
    /\ set = "NoFreeze" => "AllowTrustLineClawback" \notin flags[a]

DisableMasterKey(a, byMaster) == byMaster /\ (regularKey[a] # None \/ HasList(a))

\* Mutant of Clears: every flag can be cleared.
ClearsAnyFlag(a, set, clear) == clear

\* NoFreeze and AllowTrustLineClawback are never cleared, and a global freeze
\* not once NoFreeze is there, be it set by this very transaction.
Clears(a, set, clear) ==
    IF clear \in {"NoFreeze", "AllowTrustLineClawback"} THEN None
    ELSE IF clear = "GlobalFreeze" /\ (set = "NoFreeze" \/ "NoFreeze" \in flags[a]) THEN None
    ELSE clear
SetAccount(a, set, clear, sig) ==
    LET byMaster == sig.key = a
    IN  /\ SetAccountPreflight(set, clear) /\ SetAccountPreclaim(a, set)
        /\ set = "DisableMaster" /\ set \notin flags[a] => DisableMasterKey(a, byMaster)
        /\ set = "NoFreeze" => byMaster \/ "DisableMaster" \in flags[a]
        /\ flags' = [flags EXCEPT ![a] = (@ \cup ({set} \ {None})) \ {Clears(a, set, clear)}]
        /\ withMaster' = IF set = "DisableMaster" /\ byMaster THEN withMaster \cup {a} ELSE withMaster
        /\ UNCHANGED <<regularKey, signerList, ownerCount, others>>

OtherObjects(a) ==
    /\ others' \in {[others EXCEPT ![a] = n] : n \in 0 .. MaxOthers} \ {others}
    /\ ownerCount' = [ownerCount EXCEPT ![a] = @ + others'[a] - others[a]]
    /\ UNCHANGED <<flags, regularKey, signerList, withMaster>>

Transaction(a) ==
    \E sig \in Signatures :
        /\ CheckSign(a, sig)
        /\ \/ \E key \in Signers \cup {None} : SetRegularKey(a, key)
           \/ \E q \in Quorums, w \in SignerLists : ReplaceSignerList(a, q, w)
           \/ DestroySignerList(a)
           \/ \E set, clear \in Flags \cup {None} : SetAccount(a, set, clear, sig)

KeysNext == \E a \in Signers : OtherObjects(a) \/ Transaction(a)
KeysSpec == KeysInit /\ [][KeysNext]_keyVars
-----------------------------------------------------------------------------
\* An account is never left without a way to sign: master key, regular key or a
\* signer list whose weights reach its quorum, whichever order they are
\* disabled, removed and replaced in.
NeverLockedOut ==
    \A a \in Signers :
        \/ "DisableMaster" \notin flags[a]
        \/ regularKey[a] # None
        \/ HasList(a) /\ TotalWeight(signerList[a].weights) >= signerList[a].quorum

\* The owner count is the cost of the signer list, old or new, plus the rest.
ObjectsAccounted == \A a \in Signers : ownerCount[a] = ListCost(signerList[a]) + others[a]

\* What an issuer gave up stays given up: NoFreeze is for ever, a global freeze
\* is not lifted after it, and it never meets the right to claw back.
FreezePromise ==
    [][\A a \in Signers :
          /\ "NoFreeze" \in flags[a] => "NoFreeze" \in flags'[a]
          /\ {"NoFreeze", "GlobalFreeze"} \subseteq flags[a] => "GlobalFreeze" \in flags'[a]
          /\ ~({"NoFreeze", "AllowTrustLineClawback"} \subseteq flags'[a])]_keyVars

\* A master key is disabled only by a transaction it signed itself.
MasterDisablesItself == \A a \in Signers : "DisableMaster" \in flags[a] => a \in withMaster
=============================================================================
