------------------------------ MODULE Delegate ------------------------------
(***************************************************************************)
(* Delegation of transactions (DelegateSet.cpp, DelegateUtils.cpp,         *)
(* Permissions.cpp and the checkPermission of each transactor).  A         *)
(* transaction is its type and the set of effects it asks for; a           *)
(* permission is a type, which covers all of its effects, or one granular  *)
(* effect.  An effect that no granular permission names ("other") needs    *)
(* the type.                                                               *)
(***************************************************************************)
EXTENDS AccountRoot, Functions, TLC

CONSTANTS
    Accounts, Granters, Funds,
    MaxPermissions,                     \* permissionMaxSize
    Transactions                        \* the delegated transactions to try

Types == {"Payment", "TrustSet", "AccountSet", "MPTokenIssuanceSet", "AccountDelete"}
Granular(type) ==
    CASE type = "Payment" -> {"mint", "burn"}
      [] type = "TrustSet" -> {"authorize", "freeze", "unfreeze"}
      [] type = "AccountSet" -> {"domain", "tickSize"}
      [] type = "MPTokenIssuanceSet" -> {"lock", "unlock"}
      [] OTHER -> {}

IsDelegatable(p) == p \notin {"AccountSet", "AccountDelete"}

VARIABLES
    delegates,      \* <<account, delegate>> -> permissions
    owners, directory,
    made            \* <<account, delegate, type, effect>> of the last delegated transaction
vars == <<delegates, owners, directory, made>>

TypeOK ==
    /\ DOMAIN delegates \subseteq {<<a, b>> \in Accounts \X Accounts : a # b}
    /\ \A k \in DOMAIN delegates : Cardinality(delegates[k]) \in 1 .. MaxPermissions
    /\ owners \in [Accounts -> Nat]

Init ==
    /\ delegates = <<>> /\ made = {}
    /\ owners = [a \in Accounts |-> 0] /\ directory = [a \in Accounts |-> {}]

Preflight(a, b, P) == Cardinality(P) <= MaxPermissions /\ a # b /\ \A p \in P : IsDelegatable(p)

DeleteDelegate(k) ==
    /\ delegates' = Restrict(delegates, DOMAIN delegates \ {k})
    /\ directory' = [directory EXCEPT ![k[1]] = @ \ {k}]
    /\ owners' = [owners EXCEPT ![k[1]] = ConfineOwnerCount(@, -1)]
    /\ UNCHANGED made

\* An empty list where there is no object is accepted and changes nothing.
UpdateDelegate(k, P) ==
    /\ k \in DOMAIN delegates
    /\ IF P = {} THEN DeleteDelegate(k)
       ELSE delegates' = [delegates EXCEPT ![k] = P] /\ UNCHANGED <<owners, directory, made>>
CreateDelegate(k, P) ==
    /\ k \notin DOMAIN delegates /\ P # {}
    /\ Funds >= AccountReserve(owners[k[1]] + 1)
    /\ delegates' = delegates @@ (k :> P)
    /\ directory' = [directory EXCEPT ![k[1]] = @ \cup {k}]
    /\ owners' = [owners EXCEPT ![k[1]] = ConfineOwnerCount(@, 1)]
    /\ UNCHANGED made
DelegateSet(a, b, P) ==
    /\ Preflight(a, b, P)
    /\ UpdateDelegate(<<a, b>>, P) \/ CreateDelegate(<<a, b>>, P)

CheckTxPermission(P, tx) == tx.type \in P
LoadGranularPermission(P, type) == P \cap Granular(type)

\* A payment that mints and burns at once does not exist, and one that
\* converts currencies asks for "other".
PaymentPermission(P, tx) ==
    tx.type \in P \/ \E e \in LoadGranularPermission(P, "Payment") : tx.effects = {e}
EffectsPermitted(P, tx) == tx.effects \subseteq LoadGranularPermission(P, tx.type)
CheckPermission(P, tx) ==
    CASE tx.type = "Payment" -> PaymentPermission(P, tx)
      [] tx.type \in {"TrustSet", "MPTokenIssuanceSet"} -> CheckTxPermission(P, tx) \/ EffectsPermitted(P, tx)
      [] tx.type = "AccountSet" -> EffectsPermitted(P, tx)
      [] OTHER -> CheckTxPermission(P, tx)

Submit(a, b, tx) ==
    /\ <<a, b>> \in DOMAIN delegates
    /\ CheckPermission(delegates[<<a, b>>], tx)
    /\ made' = {<<a, b, tx.type, e>> : e \in tx.effects}
    /\ UNCHANGED <<delegates, owners, directory>>

Next ==
    \/ \E a \in Granters, b \in Accounts, P \in SUBSET (Types \cup UNION {Granular(t) : t \in Types}) :
          Cardinality(P) <= MaxPermissions + 1 /\ DelegateSet(a, b, P)
    \/ \E a, b \in Accounts, tx \in Transactions : Submit(a, b, tx)

Spec == Init /\ [][Next]_vars
-----------------------------------------------------------------------------
\* The owner pays for one object per delegate it has, through updates, empty
\* lists and reinstated delegates.
ObjectsAccounted ==
    \A a \in Accounts :
        /\ directory[a] = {k \in DOMAIN delegates : k[1] = a}
        /\ owners[a] = Cardinality(directory[a])

\* What a delegate does new it may do under the grants of that moment: the
\* type as a whole or that very effect, whichever other effects the same
\* transaction has and whatever was granted or revoked before.
EffectsAreGranted ==
    [][ made' # made => \A m \in made' :
          /\ <<m[1], m[2]>> \in DOMAIN delegates
          /\ {m[3], m[4]} \cap delegates[<<m[1], m[2]>>] # {} ]_vars

=============================================================================
