------------------------------- MODULE Escrow ------------------------------
(***************************************************************************)
(* Escrows (Escrow.cpp, and the lock and unlock helpers of View.cpp) of    *)
(* XRP, of one IOU and of one MPT.  Both tokens are issued by Issuer.  A   *)
(* holding is a trust line or an MPToken: amount, what of it is locked     *)
(* (MPT) and the line's limit (IOU).  Escrows are known by the number of   *)
(* the transaction that made them.  Close times are those of the parent    *)
(* ledger; 0 stands for an absent FinishAfter or CancelAfter.              *)
(***************************************************************************)
EXTENDS AccountRoot, Functions, TLC

CONSTANTS
    Accounts, Issuer, Funds,   \* holders, the issuer, the XRP each one starts with
    Credit,                    \* tokens and limit of the accounts in Holders at the start
    Holders,
    Assets,                    \* a subset of {"XRP", "IOU", "MPT"}
    Rates,                     \* transfer rates the issuer may set
    Suspects,                  \* accounts the issuer may freeze or stop authorizing
    Finishes, Cancels,         \* FinishAfter and CancelAfter times in use
    Amounts, MaxTime, MaxEscrows

Parties == Accounts \cup {Issuer}
Tokens == Assets \ {"XRP"}
NoHolding == [amount |-> 0, locked |-> 0, limit |-> -1]

VARIABLES
    now, rate,
    unauthorized, frozen,      \* accounts the issuer does not authorize, has frozen or locked
    balance, owners,           \* XRP and owner counts
    holding,                   \* holding of each account in each token
    issuance,                  \* MPTokenIssuance: outstanding and locked
    escrows, directory, made

vars == <<now, rate, unauthorized, frozen, balance, owners, holding, issuance, escrows, directory, made>>
switches == <<now, rate, unauthorized, frozen>>

Holds(a, t) == holding[a][t] # NoHolding

TypeOK ==
    /\ now \in 0 .. MaxTime /\ rate \in Rates /\ made \in 0 .. MaxEscrows
    /\ unauthorized \subseteq Accounts /\ frozen \subseteq Accounts
    /\ balance \in [Parties -> Nat] /\ owners \in [Parties -> Nat]
    /\ \A a \in Accounts, t \in Tokens :
          Holds(a, t) => holding[a][t] \in [amount : Nat, locked : Nat, limit : Nat]
    /\ issuance \in [outstanding : Nat, locked : Nat]
    /\ DOMAIN escrows \subseteq 1 .. made
    /\ directory \in [Parties -> SUBSET (1 .. made)]

Init ==
    /\ now = 1 /\ rate \in Rates /\ made = 0
    /\ unauthorized = {} /\ frozen = {}
    /\ balance = [a \in Parties |-> Funds]
    /\ owners = [a \in Parties |-> IF a \in Holders THEN Cardinality(Tokens) ELSE 0]
    /\ holding = [a \in Accounts |-> [t \in Tokens |->
          IF a \in Holders THEN [amount |-> Credit, locked |-> 0, limit |-> Credit] ELSE NoHolding]]
    /\ issuance = [outstanding |-> Credit * Cardinality(Holders), locked |-> 0]
    /\ escrows = <<>> /\ directory = [a \in Parties |-> {}]

\* after(): a time that is set lies strictly in the past.
After(t) == t # 0 /\ now > t
-----------------------------------------------------------------------------
CreatePreflight(amount, fin, can, cond) ==
    /\ amount > 0
    /\ fin # 0 \/ can # 0
    /\ fin # 0 /\ can # 0 => can > fin
    /\ fin # 0 \/ cond

\* escrowCreatePreclaimHelper<Issue>: the source is not the issuer and has a
\* line, both ends are authorized and not frozen, and the funds are there.
CreatePreclaimIou(a, d, amount) ==
    /\ a # Issuer
    /\ Holds(a, "IOU")
    /\ {a, d} \cap (unauthorized \cup frozen) = {}
    /\ holding[a]["IOU"].amount >= amount

\* escrowCreatePreclaimHelper<MPTIssue>, and the destination of an MPT may have
\* no MPToken yet.
CreatePreclaimMpt(a, d, amount) ==
    /\ a # Issuer
    /\ Holds(a, "MPT")
    /\ {a, d} \cap (unauthorized \cup frozen) = {}
    /\ holding[a]["MPT"].amount >= amount

CreatePreclaim(a, d, asset, amount) ==
    /\ asset = "IOU" => CreatePreclaimIou(a, d, amount)
    /\ asset = "MPT" => CreatePreclaimMpt(a, d, amount)

\* escrowLockApplyHelper: an IOU goes back to its issuer, its line going away
\* when nothing is left and the holder set no limit; an MPT stays with the
\* holder, locked, and outstanding (rippleLockEscrowMPT).
LockIou(a, amount) ==
    LET left == [holding[a]["IOU"] EXCEPT !.amount = @ - amount]
        gone == left.amount = 0 /\ left.limit = 0
    IN  /\ holding' = [holding EXCEPT ![a]["IOU"] = IF gone THEN NoHolding ELSE left]
        /\ owners' = [owners EXCEPT ![a] = IF gone THEN @ ELSE ConfineOwnerCount(@, 1)]
        /\ UNCHANGED <<balance, issuance>>
LockXrp(a, amount) ==
    /\ balance' = [balance EXCEPT ![a] = @ - amount]
    /\ owners' = [owners EXCEPT ![a] = ConfineOwnerCount(@, 1)]
    /\ UNCHANGED <<holding, issuance>>
LockMpt(a, amount) ==
    /\ holding' = [holding EXCEPT ![a]["MPT"].amount = @ - amount, ![a]["MPT"].locked = @ + amount]
    /\ issuance' = [issuance EXCEPT !.locked = @ + amount]
    /\ owners' = [owners EXCEPT ![a] = ConfineOwnerCount(@, 1)]
    /\ UNCHANGED balance

\* The directories an escrow is listed in: its owner's, its destination's and,
\* for an IOU, its issuer's.
Listings(e) == {e.src, e.dst} \cup (IF e.asset = "IOU" THEN {Issuer} ELSE {})

EscrowCreate(a, d, asset, amount, fin, can, cond) ==
    LET id == made + 1
        e == [src |-> a, dst |-> d, asset |-> asset, amount |-> amount, finish |-> fin,
              cancel |-> can, cond |-> cond, rate |-> IF asset = "XRP" THEN Parity ELSE rate]
    IN  /\ made < MaxEscrows
        /\ CreatePreflight(amount, fin, can, cond)
        /\ CreatePreclaim(a, d, asset, amount)
        /\ ~After(can) /\ ~After(fin)
        /\ balance[a] >= AccountReserve(owners[a] + 1) + (IF asset = "XRP" THEN amount ELSE 0)
        /\ made' = id
        /\ escrows' = escrows @@ (id :> e)
        /\ directory' = [p \in Parties |-> IF p \in Listings(e) THEN directory[p] \cup {id} ELSE directory[p]]
        /\ \/ asset = "XRP" /\ LockXrp(a, amount)
           \/ asset = "IOU" /\ LockIou(a, amount)
           \/ asset = "MPT" /\ LockMpt(a, amount)
        /\ UNCHANGED switches
-----------------------------------------------------------------------------
\* What EscrowFinish and EscrowCancel end with, after the payment left the
\* owner counts at `count'.
Erase(id, count) ==
    /\ escrows' = Restrict(escrows, DOMAIN escrows \ {id})
    /\ directory' = [p \in Parties |-> directory[p] \ {id}]
    /\ owners' = [count EXCEPT ![escrows[id].src] = ConfineOwnerCount(@, -1)]

\* The rate applied is the lower of the one at creation and the one of now, and
\* none when the issuer is an end.
LockedRate(e, to, parity) ==
    IF parity \/ Issuer \in {e.src, to} THEN Parity ELSE Min({e.rate, rate})
NetAmount(e, to, parity) == DivideRound(e.amount, LockedRate(e, to, parity))

\* A receiver with no holding gets one only by asking for it, against a reserve.
CanOpen(to, by, t) ==
    IF to = Issuer THEN TRUE
    ELSE Holds(to, t) \/ (by = to /\ balance[to] >= AccountReserve(owners[to] + 1))
Opened(to, t) == IF Holds(to, t) THEN holding[to][t] ELSE [amount |-> 0, locked |-> 0, limit |-> 0]
Opening(to, t) == IF to = Issuer THEN 0 ELSE IF Holds(to, t) THEN 0 ELSE 1

\* escrowUnlockApplyHelper<Issue>: back from the issuer to the receiver, within
\* the limit of the receiver's line unless the receiver asked.
UnlockIou(id, to, by, parity) ==
    LET e == escrows[id]  net == NetAmount(e, to, parity)
    IN  /\ CanOpen(to, by, "IOU")
        /\ to # Issuer /\ by # to => holding[to]["IOU"].amount + net <= holding[to]["IOU"].limit
        /\ holding' = IF to = Issuer THEN holding
                      ELSE [holding EXCEPT ![to]["IOU"] = [Opened(to, "IOU") EXCEPT !.amount = @ + net]]
        /\ UNCHANGED <<balance, issuance>>
        /\ Erase(id, [owners EXCEPT ![to] = @ + Opening(to, "IOU")])

\* Mutant of UnlockMpt: the transfer fee stays outstanding.
UnlockMptKeepingFee(id, to, by, parity) ==
    LET e == escrows[id]  net == NetAmount(e, to, parity)
        freed == [holding EXCEPT ![e.src]["MPT"].locked = @ - e.amount]
    IN  /\ CanOpen(to, by, "MPT")
        /\ holding' = IF to = Issuer THEN freed
                      ELSE [freed EXCEPT ![to]["MPT"] =
                               [IF to = e.src THEN freed[to]["MPT"] ELSE Opened(to, "MPT") EXCEPT !.amount = @ + net]]
        /\ issuance' = [locked |-> issuance.locked - e.amount,
                        outstanding |-> issuance.outstanding - (IF to = Issuer THEN e.amount ELSE 0)]
        /\ UNCHANGED balance
        /\ Erase(id, [owners EXCEPT ![to] = @ + Opening(to, "MPT")])

\* escrowUnlockApplyHelper<MPTIssue> and rippleUnlockEscrowMPT: the gross amount
\* is unlocked, the receiver gets the net, and the fee is no longer outstanding.
UnlockMpt(id, to, by, parity) ==
    LET e == escrows[id]  net == NetAmount(e, to, parity)
        freed == [holding EXCEPT ![e.src]["MPT"].locked = @ - e.amount]
    IN  /\ CanOpen(to, by, "MPT")
        /\ holding' = IF to = Issuer THEN freed
                      ELSE [freed EXCEPT ![to]["MPT"] =
                               [IF to = e.src THEN freed[to]["MPT"] ELSE Opened(to, "MPT") EXCEPT !.amount = @ + net]]
        /\ issuance' = [locked |-> issuance.locked - e.amount,
                        outstanding |-> issuance.outstanding - (IF to = Issuer THEN e.amount ELSE e.amount - net)]
        /\ UNCHANGED balance
        /\ Erase(id, [owners EXCEPT ![to] = @ + Opening(to, "MPT")])

UnlockXrp(id, to) ==
    /\ balance' = [balance EXCEPT ![to] = @ + escrows[id].amount]
    /\ UNCHANGED <<holding, issuance>>
    /\ Erase(id, owners)

\* escrowFinishPreclaimHelper: an IOU may go to a frozen line (only a deep
\* freeze stops it), an MPT not to a locked holder; the issuer always receives.
FinishPreclaimIou(d) == d = Issuer \/ d \notin unauthorized
FinishPreclaimMpt(d) == d = Issuer \/ (d \notin unauthorized /\ d \notin frozen)

FinishWindow(e) == (e.finish # 0 => After(e.finish)) /\ ~After(e.cancel)
FinishPreflight(e, fulfilled) == e.cond = fulfilled
EscrowFinish(by, id, fulfilled) ==
    LET e == escrows[id]
    IN  /\ FinishPreflight(e, fulfilled)
        /\ FinishWindow(e)
        /\ \/ e.asset = "XRP" /\ UnlockXrp(id, e.dst)
           \/ e.asset = "IOU" /\ FinishPreclaimIou(e.dst) /\ UnlockIou(id, e.dst, by, FALSE)
           \/ e.asset = "MPT" /\ FinishPreclaimMpt(e.dst) /\ UnlockMpt(id, e.dst, by, FALSE)
        /\ UNCHANGED <<switches, made>>

CancelPreclaimIou(e) == e.src \notin unauthorized
CancelPreclaimMpt(e) == e.src \notin unauthorized

CancelWindow(e) == e.cancel # 0 /\ After(e.cancel)
EscrowCancel(by, id) ==
    LET e == escrows[id]
    IN  /\ CancelWindow(e)
        /\ \/ e.asset = "XRP" /\ UnlockXrp(id, e.src)
           \/ e.asset = "IOU" /\ CancelPreclaimIou(e) /\ Holds(e.src, "IOU") /\ UnlockIou(id, e.src, by, TRUE)
           \/ e.asset = "MPT" /\ CancelPreclaimMpt(e) /\ UnlockMpt(id, e.src, by, TRUE)
        /\ UNCHANGED <<switches, made>>
-----------------------------------------------------------------------------
\* Around the escrows: the issuer sets its rate, authorizes and freezes; a
\* holder gives up an empty holding; ledgers close.
IssuerSwitches ==
    /\ \/ rate' \in Rates \ {rate} /\ UNCHANGED <<unauthorized, frozen>>
       \/ \E a \in Suspects : unauthorized' = {a} \ unauthorized /\ UNCHANGED <<rate, frozen>>
       \/ \E a \in Suspects : frozen' = {a} \ frozen /\ UNCHANGED <<rate, unauthorized>>
    /\ UNCHANGED <<now, balance, owners, holding, issuance, escrows, directory, made>>
GiveUpHolding(a, t) ==
    /\ Holds(a, t) /\ holding[a][t].amount = 0 /\ holding[a][t].locked = 0
    /\ holding' = [holding EXCEPT ![a][t] = NoHolding]
    /\ owners' = [owners EXCEPT ![a] = ConfineOwnerCount(@, -1)]
    /\ UNCHANGED <<switches, balance, issuance, escrows, directory, made>>
LedgerCloses ==
    /\ now < MaxTime /\ now' = now + 1
    /\ UNCHANGED <<rate, unauthorized, frozen, balance, owners, holding, issuance, escrows, directory, made>>

Next ==
    \/ LedgerCloses \/ IssuerSwitches
    \/ \E a \in Accounts, t \in Tokens : GiveUpHolding(a, t)
    \/ \E a, d \in Parties, asset \in Assets, amount \in Amounts, fin \in Finishes, can \in Cancels, cond \in BOOLEAN :
          EscrowCreate(a, d, asset, amount, fin, can, cond)
    \/ \E by \in Parties, id \in DOMAIN escrows, fulfilled \in BOOLEAN : EscrowFinish(by, id, fulfilled)
    \/ \E by \in Parties, id \in DOMAIN escrows : EscrowCancel(by, id)
Spec == Init /\ [][Next]_vars
-----------------------------------------------------------------------------
EscrowsOf(asset) == {id \in DOMAIN escrows : escrows[id].asset = asset}
Escrowed(S) == SumOver(S, LAMBDA id : escrows[id].amount)

\* XRP is neither made nor lost by creating, finishing or cancelling escrows.
XrpConserved ==
    SumOver(Parties, LAMBDA a : balance[a]) + Escrowed(EscrowsOf("XRP")) = Funds * Cardinality(Parties)

\* What an MPToken and its issuance call locked is what the escrows of that
\* holder, and all escrows, hold: unlocking with a transfer fee frees the gross.
LockedIsEscrowed ==
    "MPT" \in Assets =>
        /\ issuance.locked = Escrowed(EscrowsOf("MPT"))
        /\ \A a \in Accounts :
              holding[a]["MPT"].locked = Escrowed({id \in EscrowsOf("MPT") : escrows[id].src = a})

\* The outstanding amount of an MPT is what its holders have, locked or not: a
\* fee taken on finish is no longer outstanding.
OutstandingIsHeld ==
    "MPT" \in Assets =>
        issuance.outstanding = SumOver(Accounts, LAMBDA a : holding[a]["MPT"].amount + holding[a]["MPT"].locked)

\* The owner count is the escrows made plus the holdings, and each escrow is
\* listed exactly where it is to be found: by owner, destination and IOU issuer.
ObjectsAccounted ==
    \A p \in Parties :
        /\ owners[p] = Cardinality({id \in DOMAIN escrows : escrows[id].src = p})
                         + (IF p = Issuer THEN 0 ELSE Cardinality({t \in Tokens : Holds(p, t)}))
        /\ directory[p] = {id \in DOMAIN escrows : p \in Listings(escrows[id])}

\* No ledger lets an escrow be finished and cancelled both: the order of the two
\* transactions never decides who gets the funds.
FinishOrCancel == \A id \in DOMAIN escrows : ~(FinishWindow(escrows[id]) /\ CancelWindow(escrows[id]))

\* A destination gets no less than the transfer rate at creation allowed,
\* whatever rate the issuer sets meanwhile; the owner who cancels gets all.
RateOnlyImproves ==
    [][\A id \in DOMAIN escrows : id \notin DOMAIN escrows' =>
          \A a \in Accounts : \A t \in DOMAIN holding[a] : holding'[a][t].amount > holding[a][t].amount =>
              LET got == holding'[a][t].amount - holding[a][t].amount
              IN  got >= DivideRound(escrows[id].amount, IF CancelWindow(escrows[id]) THEN Parity ELSE escrows[id].rate)]_vars
=============================================================================
