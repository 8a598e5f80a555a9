---------------------------- MODULE AccountLife -----------------------------
(***************************************************************************)
(* Accounts come into being with a payment (Payment.cpp), receive or       *)
(* refuse money, own objects, and are deleted with what they own           *)
(* (DeleteAccount.cpp).  Payments in drops are modelled in full; for one   *)
(* in an issued currency the path engine is outside and may deliver any    *)
(* amount its contract allows.  Validator votes (Change.cpp) may put an    *)
(* object into the directory of an account, or create the account.         *)
(***************************************************************************)
EXTENDS AccountRoot, TLC

CONSTANTS
    Account,      \* account identifiers
    First,        \* those that exist at first
    Rich,         \* those that hold issued currency at first
    Validators,   \* those that are the account of a validator
    Forms,        \* payments: [asset, amount, max, partial, min]; max for a SendMax in another asset
    Fee,          \* fee of a payment
    DeleteFee,    \* fee of a deletion: an owner reserve
    Kinds,        \* kinds of owned objects
    MaxObjects,   \* maxDeletableDirEntries
    MaxOwned,     \* bound: objects an account may own
    Funds

VARIABLES
    acct,      \* existing account -> [bal, usd, auth, objects]
    preauth,   \* <<owner, authorized>>: a deposit preauthorization
    voted,     \* validators with a ValidatorVoteStats object in their directory
    burned     \* fees destroyed

vars == <<acct, preauth, voted, burned>>

Live == DOMAIN acct
Deletable == {"ticket", "offer", "preauth", "did", "oracle", "signers", "nftoffer", "credential", "delegate"}
OwnerCount(A, a) == Cardinality(A[a].objects)
\* The owner directory: vote statistics are in it and do not count against
\* the reserve.
Directory(a) == acct[a].objects \union {<<"votes", v>> : v \in voted \intersect {a}}
Empty == [bal |-> 0, usd |-> 0, auth |-> FALSE, objects |-> {}]

(***************************************************************************)
(* Payment                                                                 *)
(***************************************************************************)
IsXrp(tx) == tx.asset = "xrp" /\ ~tx.max
PaymentPreflight(tx) ==
    /\ tx.amount > 0
    /\ tx.src = tx.dst => tx.max       \* the same asset to oneself is redundant
    /\ IsXrp(tx) => ~tx.partial
    /\ tx.min # 0 => tx.partial /\ tx.min <= tx.amount
PaymentPreclaim(tx) ==
    IF tx.dst \in Live THEN "tes"
    ELSE IF tx.asset # "xrp" THEN "tecNO_DST"
    ELSE IF tx.amount < AccountReserve(0) THEN "tecNO_DST_INSUF_XRP" ELSE "tes"

Charged(A, a, fee) == [A EXCEPT ![a].bal = @ - fee]
WithDst(A, a) == IF a \in DOMAIN A THEN A ELSE (a :> Empty) @@ A
Welcome(A, src, dst) == ~A[dst].auth \/ src = dst \/ <<dst, src>> \in preauth

\* Mutant of SmallSum: any sum counts as small.
SmallSumAnySum(A, tx) == A[tx.dst].bal <= AccountReserve(0)

\* Small sums reach an account with DepositAuth that has little: it could not
\* otherwise be rescued from having no fee to pay.
SmallSum(A, tx) == tx.amount <= AccountReserve(0) /\ A[tx.dst].bal <= AccountReserve(0)
Reserved(A, tx) == Max({AccountReserve(OwnerCount(A, tx.src)), Fee})
XrpTer(A, tx) ==
    IF acct[tx.src].bal < tx.amount + Reserved(A, tx) THEN "tecUNFUNDED_PAYMENT"
    ELSE IF ~SmallSum(A, tx) /\ ~Welcome(A, tx.src, tx.dst) THEN "tecNO_PERMISSION"
    ELSE "tes"
MoveXrp(A, tx) == [([A EXCEPT ![tx.src].bal = @ - tx.amount]) EXCEPT ![tx.dst].bal = @ + tx.amount]

\* What the path engine may answer: a result and what it delivered.
Answers(A, tx) ==
    LET ample == A[tx.src].usd >= tx.amount
    IN  {[ter |-> "tes", out |-> x] :
            x \in IF ample THEN {tx.amount} ELSE IF tx.partial THEN 1..A[tx.src].usd ELSE {}}
        \union {[ter |-> "tec", out |-> 0]}
MoveUsd(A, tx, x) == [([A EXCEPT ![tx.src].usd = @ - x]) EXCEPT ![tx.dst].usd = @ + x]
MinimumMissed(tx, x) == x # tx.amount /\ tx.min # 0 /\ x < tx.min
RippleTer(A, tx, answer) ==
    IF ~Welcome(A, tx.src, tx.dst) THEN "tecNO_PERMISSION"
    ELSE IF answer.ter = "tes" /\ MinimumMissed(tx, answer.out) THEN "tecPATH_PARTIAL"
    ELSE answer.ter

\* A result other than tes leaves only the fee.
Finish(tx, ter, A) ==
    /\ acct' = IF ter = "tes" THEN A ELSE Charged(acct, tx.src, Fee)
    /\ burned' = burned + Fee
    /\ UNCHANGED <<preauth, voted>>

Pay(tx) ==
    /\ tx.src \in Live /\ acct[tx.src].bal >= Fee
    /\ PaymentPreflight(tx)
    /\ \E A \in {WithDst(Charged(acct, tx.src, Fee), tx.dst)} :
         IF PaymentPreclaim(tx) # "tes" THEN Finish(tx, PaymentPreclaim(tx), A)
         ELSE IF IsXrp(tx) THEN Finish(tx, XrpTer(A, tx), MoveXrp(A, tx))
         ELSE \E answer \in Answers(A, tx) :
                 Finish(tx, RippleTer(A, tx, answer), MoveUsd(A, tx, answer.out))

(***************************************************************************)
(* Owned objects, and the objects of validator votes                       *)
(***************************************************************************)
Own(a, kind) ==
    /\ a \in Live /\ Cardinality(acct[a].objects) < MaxOwned
    /\ acct[a].bal >= AccountReserve(OwnerCount(acct, a) + 1)
    /\ acct' = [acct EXCEPT ![a].objects = @ \union {<<kind, Cardinality(acct[a].objects)>>}]
    /\ UNCHANGED <<preauth, voted, burned>>
SetDepositAuth(a, on) ==
    /\ a \in Live
    /\ acct' = [acct EXCEPT ![a].auth = on]
    /\ UNCHANGED <<preauth, voted, burned>>
Preauthorize(a, b) ==
    /\ {a, b} \subseteq Live /\ a # b /\ <<a, b>> \notin preauth
    /\ Cardinality(acct[a].objects) < MaxOwned
    /\ acct[a].bal >= AccountReserve(OwnerCount(acct, a) + 1)
    /\ acct' = [acct EXCEPT ![a].objects = @ \union {<<"preauth", b>>}]
    /\ preauth' = preauth \union {<<a, b>>}
    /\ UNCHANGED <<voted, burned>>
\* applyValidatorVote: the statistics go into the directory of the validator's
\* account, whether it exists or not; a change of the exclusion list makes it.
ValidatorVote(v, exclusion) ==
    /\ voted' = voted \union {v}
    /\ acct' = IF exclusion THEN WithDst(acct, v) ELSE acct
    /\ UNCHANGED <<preauth, burned>>

(***************************************************************************)
(* DeleteAccount                                                           *)
(***************************************************************************)
NonObligationDeleter(o) == o[1] \in Deletable
DeletePreclaim(a, dst) ==
    IF dst \notin Live THEN "tecNO_DST"
    ELSE IF acct[dst].auth /\ <<dst, a>> \notin preauth THEN "tecNO_PERMISSION"
    ELSE IF acct[a].usd > 0 \/ \E o \in Directory(a) : ~NonObligationDeleter(o) THEN "tecHAS_OBLIGATIONS"
    ELSE IF Cardinality(Directory(a)) > MaxObjects THEN "tefTOO_BIG"
    ELSE "tes"

\* Mutant of GivenBy: the preauthorizations the account gave stay.
GivenByNone(a) == {}

\* Deleting the objects deletes the preauthorizations the account gave.
GivenBy(a) == {p \in preauth : p[1] = a}
Deleted(a, dst, amount) ==
    [b \in Live \ {a} |-> IF b = dst THEN [acct[b] EXCEPT !.bal = @ + amount] ELSE acct[b]]
DeleteAccount(a, dst) ==
    /\ a \in Live /\ a # dst /\ acct[a].bal >= DeleteFee
    /\ DeletePreclaim(a, dst) # "tefTOO_BIG"
    /\ burned' = burned + DeleteFee
    /\ IF DeletePreclaim(a, dst) = "tes"
       THEN /\ acct' = Deleted(a, dst, acct[a].bal - DeleteFee)
            /\ preauth' = preauth \ GivenBy(a)
       ELSE /\ acct' = Charged(acct, a, DeleteFee)
            /\ UNCHANGED preauth
    /\ UNCHANGED voted

Init ==
    /\ acct = [a \in First |-> [Empty EXCEPT !.bal = Funds, !.usd = IF a \in Rich THEN 2 ELSE 0]]
    /\ preauth = {} /\ voted = {} /\ burned = 0

Next ==
    \/ \E a, b \in Account, form \in Forms : Pay([src |-> a, dst |-> b] @@ form)
    \/ \E a \in Account, k \in Kinds : Own(a, k)
    \/ \E a \in Account, on \in BOOLEAN : SetDepositAuth(a, on)
    \/ \E a, b \in Account : Preauthorize(a, b) \/ DeleteAccount(a, b)
    \/ \E v \in Validators, exclusion \in BOOLEAN : ValidatorVote(v, exclusion)

Spec == Init /\ [][Next]_vars

-----------------------------------------------------------------------------
(* What is checked *)

\* Drops are only ever moved or burned as fees, by payments that create an
\* account, fail half way, or by deletions.
DropsAccounted ==
    SumOver(Live, LAMBDA a : acct[a].bal) + burned = Funds * Cardinality(First)

\* Money reaches an account that asked for DepositAuth only from accounts it
\* preauthorized, but for small sums of drops: two reserves are the most it
\* can be made to hold.
DepositAuthHeld ==
    [][\A a \in Live : a \in DOMAIN acct' /\ acct[a].auth /\ acct'[a].bal > acct[a].bal =>
          \/ acct'[a].bal <= 2 * AccountReserve(0)
          \/ \E b \in Account \ {a} : <<a, b>> \in preauth]_vars

\* A deleted account leaves nothing behind: no preauthorization it gave, and
\* an account is never deleted while it has obligations.
NothingLeftBehind ==
    /\ \A p \in preauth : p[1] \in Live /\ <<"preauth", p[2]>> \in acct[p[1]].objects
    /\ \A a \in Live : \A o \in acct[a].objects :
          o[1] = "preauth" /\ o[2] \in Account => <<a, o[2]>> \in preauth

\* An object others depend on, or the vote statistics of a validator, never
\* go with an account.
ObligationsKept ==
    [][\A a \in Live : a \notin DOMAIN acct' => a \notin voted /\ \A o \in acct[a].objects : o[1] \in Deletable]_vars
=============================================================================
