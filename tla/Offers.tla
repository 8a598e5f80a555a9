------------------------------- MODULE Offers -------------------------------
(***************************************************************************)
(* The decentralised exchange between drops (XRP) and one issued currency  *)
(* (USD): OfferCreate with its crossing of the opposite order book,        *)
(* OfferCancel, and the books themselves.  The part of the flow engine     *)
(* that offer crossing uses is here too: a strand with one book step, the  *)
(* reverse pass and, when the taker cannot pay for it, the forward pass.   *)
(*                                                                         *)
(* A rate is a pair <<in, out>> of amounts, what a taker pays over what it *)
(* gets: a lower rate is a better quality.  An issued amount is a whole    *)
(* number of its last digit, and is rounded there the way the code rounds. *)
(* The issuer asks for no authorization, every trader has a trust line     *)
(* with room, and there is no AMM for the pair.                            *)
(***************************************************************************)
EXTENDS AccountRoot, Sequences, SequencesExt, TLC

CONSTANTS
    Trader,          \* accounts that place offers; none of them is the issuer
    Orders,          \* pairs [in |-> asset, pays |-> amount, gets |-> amount]
    FlagSets,        \* sets of flags a transaction may carry
    Expirations,     \* times an offer may expire at; 0 for never
    Venues,          \* "open", "domain" or "hybrid"
    Drops, Issued,   \* what each trader holds at first
    Rate,            \* the issuer's transfer rate, Parity for none
    Tick,            \* rates are rounded up to 1/Tick; 0 when there is no tick
    StepLimit,       \* offers one pass may look at (1000 in the code)
    Events,          \* which of the events elsewhere may happen
    MaxTx, MaxTime   \* bounds: transactions, close times

VARIABLES
    ledger,          \* balances, owner counts, directories, offers, books
    now,             \* parent close time
    member,          \* traders whose credentials put them in the domain
    deep,            \* traders whose trust line is deep frozen
    seq,             \* the next sequence number
    last             \* what the last OfferCreate did

vars == <<ledger, now, member, deep, seq, last>>

Assets == {"XRP", "USD"}
Other(asset) == IF asset = "XRP" THEN "USD" ELSE "XRP"
Books == [in : Assets, domain : BOOLEAN]
Lesser(x, y) == IF x < y THEN x ELSE y

\* Quality: rates are compared, and amounts converted, by cross-multiplication.
AtLeast(r, s) == r[1] * s[2] <= s[1] * r[2]       \* r as good as s
Better(r, s) == r[1] * s[2] < s[1] * r[2]
SameRate(r, s) == r[1] * s[2] = s[1] * r[2]
Scaled(n, m, d, up) == IF up THEN (n * m + d - 1) \div d ELSE (n * m) \div d
CeilOut(amt, limit, r, up) ==
    IF amt.out <= limit THEN amt
    ELSE [in |-> Lesser(Scaled(limit, r[1], r[2], up), amt.in), out |-> limit]
LimitOut(amt, limit, r, up) == CeilOut(amt, limit, r, up)
LimitIn(amt, limit, r, up) ==
    IF amt.in <= limit THEN amt
    ELSE [in |-> limit, out |-> Lesser(Scaled(limit, r[2], r[1], up), amt.out)]
MulRatio(amount, num, den, up) == Scaled(amount, num, den, up)

(***************************************************************************)
(* Directories.  An offer is listed by its owner, in its book and, when it *)
(* is hybrid, in the open book as well.                                    *)
(***************************************************************************)
Listings(o) ==
    {[book |-> [in |-> o.in, domain |-> o.venue # "open"], rate |-> o.rate]}
        \union (IF o.venue = "hybrid"
                THEN {[book |-> [in |-> o.in, domain |-> FALSE], rate |-> o.open]} ELSE {})

\* dirAppend in the directory of the rate: behind the offers of the same rate.
DirAppend(entries, id, r) ==
    SelectSeq(entries, LAMBDA e : AtLeast(e.rate, r)) \o <<[id |-> id, rate |-> r]>>
        \o SelectSeq(entries, LAMBDA e : ~AtLeast(e.rate, r))
DirRemove(entries, id) == SelectSeq(entries, LAMBDA e : e.id # id)

WithCount(l, a, delta) == [l EXCEPT !.count[a] = ConfineOwnerCount(@, delta)]

OfferDelete(l, id) ==
    LET o == l.offers[id]
    IN  [WithCount(l, o.owner, -1) EXCEPT
            !.owned[o.owner] = @ \ {id},
            !.offers = [i \in DOMAIN @ \ {id} |-> @[i]],
            !.books = [b \in Books |->
                          IF \E x \in Listings(o) : x.book = b
                          THEN DirRemove(@[b], id) ELSE @[b]]]
RemoveOffers(l, ids) ==
    FoldSet(LAMBDA id, m : IF id \in DOMAIN m.offers THEN OfferDelete(m, id) ELSE m, l, ids)

(***************************************************************************)
(* What an account can put up.  During a payment the reserve is that of    *)
(* the largest owner count seen (PaymentSandbox::ownerCountHook): offers   *)
(* the payment deletes free nothing.                                       *)
(***************************************************************************)
AccountFunds(l, peak, a, asset) ==
    IF asset = "XRP" THEN XrpLiquid(l.bal[a].XRP, peak[a])
    ELSE IF a \in deep THEN 0 ELSE l.bal[a].USD

OutOf(o) == Other(o.in)
Amounts(o) == [in |-> o.pays, out |-> o.gets]
Expired(o) == o.exp # 0 /\ o.exp <= now
OfferInDomain(o) == o.owner \in member
DeepFrozen(o) == o.in = "USD" /\ o.owner \in deep

\* A remnant that rounds to nothing, or to one drop at a worse rate than its
\* directory says, would block the book.
ShouldRmSmallIncreasedQOffer(o, r, funds) ==
    LET eff == IF funds < o.gets THEN CeilOut(Amounts(o), funds, r, FALSE) ELSE Amounts(o)
    IN  /\ OutOf(o) # "XRP"
        /\ \/ eff.in <= 0
           \/ eff.out <= 0
           \/ eff.in <= 1 /\ Better(r, <<eff.in, eff.out>>)

\* The reasons TOfferStreamBase::step passes over an offer: those that hold
\* whatever this payment did, and want of funds, which it may have caused.
Dead(o) ==
    \/ Expired(o)
    \/ o.pays = 0 \/ o.gets = 0
    \/ DeepFrozen(o)
    \/ o.venue # "open" /\ ~OfferInDomain(o)
Unfunded(o, r, funds) == funds <= 0 \/ ShouldRmSmallIncreasedQOffer(o, r, funds)

(***************************************************************************)
(* A pass over the book: `l' is the view of the strand, `base' the view    *)
(* without this payment, `rm' the offers to remove for good, `n' how many  *)
(* were looked at.                                                         *)
(***************************************************************************)
Pass(l, rm, n) == [l |-> l, rm |-> rm, n |-> n, in |-> 0, out |-> 0, rate |-> <<>>, tried |-> FALSE]

Head1(p, b) == Head(p.l.books[b])
Drop(p, b, forGood) ==
    LET id == Head1(p, b).id
    IN  [p EXCEPT !.l = OfferDelete(@, id), !.rm = IF forGood THEN @ \union {id} ELSE @,
                  !.n = @ + 1]

RECURSIVE StreamStep(_, _)
StreamTip(p, x, e, o, funds) ==
    IF Dead(o) THEN StreamStep(Drop(p, x.b, TRUE), x)
    ELSE IF Unfunded(o, e.rate, funds)
    THEN StreamStep(Drop(p, x.b, funds = AccountFunds(x.base, x.peak, o.owner, OutOf(o))), x)
    ELSE [p |-> [p EXCEPT !.n = @ + 1], found |-> TRUE]
StreamOffer(p, x, e, o) == StreamTip(p, x, e, o, AccountFunds(p.l, x.peak, o.owner, OutOf(o)))
StreamStep(p, x) ==
    IF p.l.books[x.b] = <<>> \/ p.n >= StepLimit THEN [p |-> p, found |-> FALSE]
    ELSE StreamOffer(p, x, Head1(p, x.b), p.l.offers[Head1(p, x.b).id])

\* What the offer's owner can deliver of it, before the step is limited:
\* `ofr' is charged to the offer, `stp' to the strand, `gives' to the owner.
Priced(ofr, out, gives, trIn, trOut) ==
    [ofr |-> ofr, trIn |-> trIn, trOut |-> trOut, gives |-> gives,
     stp |-> [in |-> MulRatio(ofr.in, trIn, Parity, TRUE), out |-> out]]
Deliverable(o, r, funds, trIn, trOut) ==
    LET out == MulRatio(funds, Parity, trOut, FALSE)
    IN  IF funds < MulRatio(o.gets, trOut, Parity, FALSE)
        THEN Priced(LimitOut(Amounts(o), out, r, FALSE), out, funds, trIn, trOut)
        ELSE Priced(Amounts(o), o.gets, MulRatio(o.gets, trOut, Parity, FALSE), trIn, trOut)
LimitedOut(d, ofr, limit) ==
    [d EXCEPT !.ofr = ofr, !.gives = MulRatio(limit, d.trOut, Parity, FALSE),
              !.stp = [in |-> MulRatio(ofr.in, d.trIn, Parity, TRUE), out |-> limit]]
LimitStepOut(d, r, limit) ==
    IF limit >= d.stp.out THEN d ELSE LimitedOut(d, LimitOut(d.ofr, limit, r, TRUE), limit)
LimitedIn(d, ofr, limit) ==
    [d EXCEPT !.ofr = ofr, !.gives = MulRatio(ofr.out, d.trOut, Parity, FALSE),
              !.stp = [in |-> limit, out |-> ofr.out]]
LimitStepIn(d, r, limit) ==
    IF limit >= d.stp.in THEN d
    ELSE LimitedIn(d, LimitIn(d.ofr, MulRatio(limit, Parity, d.trIn, FALSE), r, FALSE), limit)

\* consumeOffer: the issuer, or the taker's drops, pay the owner; the owner
\* pays the issuer, or the taker; the offer shrinks.
ConsumeOffer(l, id, d) ==
    LET o == l.offers[id]
    IN  [l EXCEPT !.bal[o.owner][o.in] = @ + d.ofr.in,
                  !.bal[o.owner][OutOf(o)] = @ - d.gives,
                  !.offers[id].pays = @ - d.ofr.in,
                  !.offers[id].gets = @ - d.ofr.out]
FullyConsumed(o) == o.pays <= 0 \/ o.gets <= 0

Took(p, id, d) ==
    [p EXCEPT !.l = ConsumeOffer(@, id, d), !.in = @ + d.stp.in, !.out = @ + d.stp.out]

\* A pass has a direction: "rev" delivers up to `amount', "fwd" spends up to
\* `amount' and is held to what the reverse pass found.
RevOffer(p, d, r, remaining) ==
    [stop |-> remaining <= 0, d |-> LimitStepOut(d, r, remaining), more |-> d.stp.out <= remaining]
\* Rounding must not deliver more forward than the reverse pass did.
HeldToReverse(p, lim, remaining, adj, rev) ==
    IF /\ p.out + adj.stp.out > lim.cache.out
       /\ p.in + adj.stp.in <= lim.cache.in
       /\ rev.stp.in = remaining
    THEN [rev EXCEPT !.stp = [in |-> remaining, out |-> lim.cache.out - p.out]]
    ELSE adj
FwdOffer(p, d, r, lim, remaining) ==
    [stop |-> remaining <= 0, more |-> d.stp.in <= remaining,
     d |-> HeldToReverse(p, lim, remaining, LimitStepIn(d, r, remaining),
                         LimitStepOut(d, r, lim.cache.out - p.out))]
EachOffer(p, d, r, lim) ==
    IF lim.dir = "rev" THEN RevOffer(p, d, r, lim.amount - p.out)
    ELSE FwdOffer(p, d, r, lim, lim.amount - p.in)

\* The limit of an offer crossing; a passive offer wants better than its rate.
Meets(r, th) == IF th.passive THEN Better(r, th.rate) ELSE AtLeast(r, th.rate)
CheckQualityThreshold(r, th) == Meets(r, th)

RECURSIVE ForEachOffer(_, _, _)
Gone(p, id) == [p EXCEPT !.l = OfferDelete(@, id)]
OwnOffer(p, x, lim, id) ==
    ForEachOffer([Gone(p, id) EXCEPT !.rm = @ \union {id}, !.rate = IF p.tried THEN @ ELSE <<>>],
                 x, lim)
Executed(p, x, lim, id, more) ==
    IF more \/ FullyConsumed(p.l.offers[id]) THEN ForEachOffer(Gone(p, id), x, lim) ELSE p
Execute(p, x, lim, id, step) ==
    IF step.stop THEN p ELSE Executed(Took(p, id, step.d), x, lim, id, step.more)
TransferIn(o) == IF o.in = "USD" THEN Rate ELSE Parity
TransferOut(o) == IF OutOf(o) = "USD" THEN Rate ELSE Parity
ExecOffer(p, x, lim, e, o) ==
    IF p.rate # <<>> /\ ~SameRate(p.rate, e.rate) THEN p
    ELSE IF Meets(e.rate, x.th) /\ o.owner = x.taker
    THEN OwnOffer([p EXCEPT !.rate = e.rate], x, lim, e.id)
    ELSE IF ~CheckQualityThreshold(e.rate, x.th) THEN p
    ELSE Execute([p EXCEPT !.rate = e.rate, !.tried = TRUE], x, lim, e.id,
                 EachOffer(p, Deliverable(o, e.rate, AccountFunds(p.l, x.peak, o.owner, OutOf(o)),
                                          TransferIn(o), TransferOut(o)), e.rate, lim))
AtTip(s, x, lim) ==
    IF s.found THEN ExecOffer(s.p, x, lim, Head1(s.p, x.b), s.p.l.offers[Head1(s.p, x.b).id])
    ELSE s.p
ForEachOffer(p, x, lim) == AtTip(StreamStep(p, x), x, lim)

\* One strand: the book is run backwards for `want', and forwards again when
\* that costs the taker more than `maxIn'.
Settle(p, x) ==
    [p EXCEPT !.l = [@ EXCEPT !.bal[x.taker][x.b.in] = @ - p.in,
                              !.bal[x.taker][Other(x.b.in)] = @ + p.out]]
FwdPass(rev, x, maxIn) ==
    ForEachOffer(Pass(x.base, rev.rm, 0), x, [dir |-> "fwd", amount |-> maxIn, cache |-> rev])
FwdResult(fwd, x, maxIn) == [p |-> Settle(fwd, x), ok |-> fwd.out > 0 /\ fwd.in = maxIn]
RevResult(rev, x, maxIn) ==
    IF rev.out = 0 THEN [p |-> rev, ok |-> FALSE]
    ELSE IF rev.in <= maxIn THEN [p |-> Settle(rev, x), ok |-> TRUE]
    ELSE FwdResult(FwdPass(rev, x, maxIn), x, maxIn)
Strand(x, maxIn, want) ==
    RevResult(ForEachOffer(Pass(x.base, {}, 0), x, [dir |-> "rev", amount |-> want]), x, maxIn)

\* flow: pass after pass, each on one rate of the book, until the taker has
\* what it wants, has spent what it may, or finds nothing good enough.
StrandQualityBound(l, b) == Head(l.books[b]).rate

\* Mutant of QualityKept: a strand may be taken at any rate.
QualityAny(p, th) == TRUE

QualityKept(p, th) == Meets(<<p.in, p.out>>, th)

RECURSIVE FlowLoop(_, _)
WithoutOffers(f, rm) == [f EXCEPT !.l = RemoveOffers(@, rm), !.rm = @ \union rm]
Applied(f, p) == [f EXCEPT !.l = p.l, !.in = @ + p.in, !.out = @ + p.out]
Passed(f, x, s) ==
    IF ~(s.ok /\ QualityKept(s.p, x.th)) THEN WithoutOffers(f, s.p.rm)
    ELSE IF s.p.n >= StepLimit THEN WithoutOffers(Applied(f, s.p), s.p.rm)
    ELSE FlowLoop(WithoutOffers(Applied(f, s.p), s.p.rm), x)
FlowLoop(f, x) ==
    IF \/ f.out >= f.want
       \/ f.in >= f.maxIn
       \/ f.l.books[x.b] = <<>>
    THEN f
    ELSE IF ~Meets(StrandQualityBound(f.l, x.b), x.th) THEN f
    ELSE Passed(f, x, Strand([x EXCEPT !.base = f.l], f.maxIn - f.in, f.want - f.out))

Huge == 1000
\* FillOrKill wants everything: delivered, or spent when it sells.
FlowResult(f, flags) ==
    [f |-> f, ok |-> IF "fillOrKill" \in flags
                     THEN IF "sell" \in flags THEN f.in = f.maxIn ELSE f.out = f.want
                     ELSE f.out > 0]
Flow(x, maxIn, amountOut, flags) ==
    FlowResult(FlowLoop([l |-> x.base, rm |-> {}, in |-> 0, out |-> 0, maxIn |-> maxIn,
                         want |-> IF "sell" \in flags THEN Huge ELSE amountOut], x), flags)

(***************************************************************************)
(* OfferCreate.  tx: account, order (in is the asset it sells), flags,     *)
(* expiration, venue, and the sequence of an offer to replace, 0 for none. *)
(***************************************************************************)
CreatePreflight(tx) ==
    /\ ~({"immediateOrCancel", "fillOrKill"} \subseteq tx.flags)
    /\ tx.order.pays > 0 /\ tx.order.gets > 0
CheckAcceptAsset(tx) == tx.order.in = "XRP" => tx.account \notin deep
CreatePreclaim(tx) ==
    /\ AccountFunds(ledger, ledger.count, tx.account, tx.order.in) > 0
    /\ tx.cancel < seq
    /\ tx.exp = 0 \/ tx.exp > now
    /\ CheckAcceptAsset(tx)
    /\ tx.venue # "open" => tx.account \in member

\* Tick size: the rate is rounded up, and one amount follows it.
Ticked(order, sell) ==
    IF Tick = 0 THEN order
    ELSE LET r == <<(order.pays * Tick + order.gets - 1) \div order.gets, Tick>>
         IN  IF sell THEN [order EXCEPT !.pays = NearestEven(order.gets * r[1], r[2])]
             ELSE [order EXCEPT !.gets = (2 * order.pays * r[2] + r[1]) \div (2 * r[1])]

\* flowCross.  The taker sells order.gets and wants order.pays; what is left
\* of both is computed from the rate of the whole order.
Remaining(order, r, f, sell) ==
    IF sell
    THEN LET spent == IF order.in = "USD" THEN DivideRound(f.in, r) ELSE f.in
             gets == IF spent >= order.gets THEN 0 ELSE order.gets - spent
         IN  [gets |-> gets, pays |-> Scaled(gets, order.pays, order.gets, FALSE)]
    ELSE LET pays == order.pays - f.out
         IN  [pays |-> pays, gets |-> Scaled(pays, order.gets, order.pays, TRUE)]

GatewayRate(order) == IF order.in = "USD" THEN Rate ELSE Parity
Crossing(l, tx, order) ==
    [b |-> [in |-> order.in, domain |-> tx.venue # "open"], base |-> l, peak |-> l.count,
     taker |-> tx.account,
     th |-> [rate |-> <<MultiplyRound(order.gets, GatewayRate(order)), order.pays>>,
             passive |-> "passive" \in tx.flags]]
LeftOver(l, x, tx, order, r) ==
    IF ~r.ok THEN [pays |-> order.pays, gets |-> order.gets]
    ELSE IF AccountFunds(l, x.peak, tx.account, order.in) <= 0 THEN [pays |-> 0, gets |-> 0]
    ELSE Remaining(order, GatewayRate(order), r.f, "sell" \in tx.flags)
CrossResult(x, lc, tx, order, r, after) ==
    [ok |-> TRUE, l |-> after, lc |-> RemoveOffers(lc, r.f.rm),
     left |-> LeftOver(after, x, tx, order, r),
     in |-> IF r.ok THEN r.f.in ELSE 0, out |-> IF r.ok THEN r.f.out ELSE 0]
AfterFlow(x, lc, tx, order, r) ==
    CrossResult(x, lc, tx, order, r, RemoveOffers(IF r.ok THEN r.f.l ELSE x.base, r.f.rm))
FlowFrom(x, lc, tx, order, start) ==
    IF start <= 0
    THEN [ok |-> FALSE, l |-> x.base, lc |-> lc, left |-> order, in |-> 0, out |-> 0]
    ELSE AfterFlow(x, lc, tx, order,
                   Flow(x, Lesser(x.th.rate[1], start), order.pays, tx.flags))
FlowCross(l, lc, tx, order) ==
    FlowFrom(Crossing(l, tx, order), lc, tx, order, AccountFunds(l, l.count, tx.account, order.in))

\* applyGuts places what is left.  The directory in the book of the venue has
\* the rate of the order; applyHybrid computes the one in the open book from
\* what is left.
PlaceOffer(l, tx, order, left) ==
    LET o == [owner |-> tx.account, in |-> Other(order.in), pays |-> left.pays, gets |-> left.gets,
              exp |-> tx.exp, venue |-> tx.venue, rate |-> <<order.pays, order.gets>>,
              open |-> <<left.pays, left.gets>>]
        l1 == WithCount(l, tx.account, 1)
    IN  [l1 EXCEPT !.owned[tx.account] = @ \union {seq},
                   !.offers = @ @@ (seq :> o),
                   !.books = [b \in Books |->
                                 LET here == {x \in Listings(o) : x.book = b}
                                 IN  IF here = {} THEN @[b]
                                     ELSE DirAppend(@[b], seq, (CHOOSE x \in here : TRUE).rate)]]

\* The result and the sandbox that is applied: the one in which the offer to
\* replace is gone and others were crossed, or the one for killed orders.
Guts(tx, order, x, crossed) ==
    LET done(ter, l) == [ter |-> ter, l |-> l, in |-> x.in, out |-> x.out]
    IN  IF ~x.ok THEN done("tecUNFUNDED_OFFER", x.l)
        ELSE IF x.left.pays = 0 \/ x.left.gets = 0 THEN done("tesSUCCESS", x.l)
        ELSE IF "fillOrKill" \in tx.flags THEN done("tecKILLED", x.lc)
        ELSE IF "immediateOrCancel" \in tx.flags
             THEN IF crossed THEN done("tesSUCCESS", x.l) ELSE done("tecKILLED", x.lc)
        ELSE IF ledger.bal[tx.account].XRP < AccountReserve(x.l.count[tx.account] + 1)
             THEN done(IF crossed THEN "tesSUCCESS" ELSE "tecINSUF_RESERVE_OFFER", x.l)
        ELSE done("tesSUCCESS", PlaceOffer(x.l, tx, order, x.left))
Crossed(tx, order, x) ==
    Guts(tx, order, x, x.left.pays # order.pays \/ x.left.gets # order.gets)
Replaced(tx) ==
    IF tx.cancel \in DOMAIN ledger.offers /\ ledger.offers[tx.cancel].owner = tx.account
    THEN OfferDelete(ledger, tx.cancel) ELSE ledger
CrossInSandboxes(sb, tx, order) == FlowCross(sb, ledger, tx, order)
ApplyOrder(tx, order, sb) ==
    IF order.pays = 0 \/ order.gets = 0
    THEN [ter |-> "tesSUCCESS", l |-> sb, in |-> 0, out |-> 0]
    ELSE Crossed(tx, order, CrossInSandboxes(sb, tx, order))
ApplyGuts(tx) == ApplyOrder(tx, Ticked(tx.order, "sell" \in tx.flags), Replaced(tx))

\* Transactor::operator(): after tecKILLED only the removals of offers that
\* were not touched otherwise are done again; other tec results keep nothing.
Kept(r) ==
    IF r.ter = "tesSUCCESS" THEN r.l
    ELSE IF r.ter = "tecKILLED"
    THEN RemoveOffers(ledger, DOMAIN ledger.offers \ DOMAIN r.l.offers)
    ELSE ledger

OfferCreate(tx) ==
    /\ seq <= MaxTx
    /\ CreatePreflight(tx)
    /\ CreatePreclaim(tx)
    /\ \E r \in {ApplyGuts(tx)} :
          /\ ledger' = Kept(r)
          /\ last' = [kind |-> "create", tx |-> tx, ter |-> r.ter, in |-> r.in, out |-> r.out]
    /\ seq' = seq + 1
    /\ UNCHANGED <<now, member, deep>>

Quiet == last' = [kind |-> "other"]

OfferCancel(a, id) ==
    /\ seq <= MaxTx
    /\ id \in DOMAIN ledger.offers /\ ledger.offers[id].owner = a
    /\ ledger' = OfferDelete(ledger, id)
    /\ seq' = seq + 1
    /\ Quiet
    /\ UNCHANGED <<now, member, deep>>

\* Elsewhere: a trader spends all its issued money, leaves the domain, or is
\* deep frozen by the issuer; a ledger closes.
SpendIssued(a) ==
    /\ "spend" \in Events /\ ledger.bal[a].USD > 0
    /\ ledger' = [ledger EXCEPT !.bal[a].USD = 0]
    /\ Quiet
    /\ UNCHANGED <<now, member, deep, seq>>
LeaveDomain(a) ==
    /\ "leave" \in Events /\ a \in member
    /\ member' = member \ {a}
    /\ Quiet
    /\ UNCHANGED <<ledger, now, deep, seq>>
DeepFreeze(a) ==
    /\ "freeze" \in Events /\ a \notin deep
    /\ deep' = deep \union {a}
    /\ Quiet
    /\ UNCHANGED <<ledger, now, member, seq>>
CloseLedger ==
    /\ now < MaxTime
    /\ now' = now + 1
    /\ Quiet
    /\ UNCHANGED <<ledger, member, deep, seq>>

Init ==
    /\ ledger = [bal |-> [a \in Trader |-> [XRP |-> Drops[a], USD |-> Issued[a]]],
                 count |-> [a \in Trader |-> 0],
                 owned |-> [a \in Trader |-> {}],
                 offers |-> [i \in {} |-> {}],
                 books |-> [b \in Books |-> <<>>]]
    /\ now = 1
    /\ member = IF Venues = {"open"} THEN {} ELSE Trader
    /\ deep = {}
    /\ seq = 1
    /\ last = [kind |-> "other"]

Txs == [account : Trader, order : Orders, flags : FlagSets, exp : Expirations, venue : Venues,
        cancel : 0..(MaxTx - 1)]
CancelsOwn(tx) ==
    tx.cancel = 0 \/ (tx.cancel \in DOMAIN ledger.offers
                      /\ ledger.offers[tx.cancel].owner = tx.account)

Next ==
    \/ \E tx \in Txs : CancelsOwn(tx) /\ OfferCreate(tx)
    \/ \E a \in Trader : \E id \in ledger.owned[a] : OfferCancel(a, id)
    \/ \E a \in Trader : SpendIssued(a)
    \/ \E a \in Trader : LeaveDomain(a)
    \/ \E a \in Trader : DeepFreeze(a)
    \/ CloseLedger

Spec == Init /\ [][Next]_vars

-----------------------------------------------------------------------------
(* What is checked *)

\* Offers, owner directories, owner counts and the order books never come
\* apart: an offer is listed once by its owner and once in each book its
\* venue calls for (twice over for a hybrid one), a book holds nothing else,
\* and its entries are in order of rate.  offerDelete and applyGuts each
\* change all of them in separate statements.
BooksMatch ==
    /\ \A a \in Trader :
          /\ ledger.owned[a] = {i \in DOMAIN ledger.offers : ledger.offers[i].owner = a}
          /\ ledger.count[a] = Cardinality(ledger.owned[a])
    /\ \A b \in Books :
          LET s == ledger.books[b]
          IN  /\ {s[k].id : k \in DOMAIN s} =
                    {i \in DOMAIN ledger.offers :
                        LET o == ledger.offers[i]
                        IN  o.in = b.in /\ (o.venue = "hybrid" \/ (b.domain <=> o.venue # "open"))}
              /\ \A j, k \in DOMAIN s : j < k => s[j].id # s[k].id /\ AtLeast(s[j].rate, s[k].rate)

\* Type correctness of the ledger entries: balances and owner counts are
\* natural numbers and no offer with a spent side stays on the ledger.
TypeOK ==
    /\ \A a \in Trader : /\ ledger.bal[a] \in [Assets -> Nat]
                         /\ ledger.count[a] \in Nat
    /\ \A i \in DOMAIN ledger.offers : ledger.offers[i].pays > 0 /\ ledger.offers[i].gets > 0
    /\ now \in 1..MaxTime /\ seq \in 1..(MaxTx + 1) /\ member \subseteq Trader

\* Whatever the book and the roundings, a taker never pays a worse rate than
\* its order (with the transfer fee on what it sends): CreateOffer::flowCross.
TakerLimitKept ==
    last.kind = "create" /\ Tick = 0 /\ last.in > 0 =>
        last.in * last.tx.order.pays
            <= MultiplyRound(last.tx.order.gets, IF last.tx.order.in = "USD" THEN Rate ELSE Parity)
                 * last.out

\* What is left of an order in the book never asks more than the directory it
\* is listed in says, or it would block the offers behind it: the roundings
\* of fixReducedOffersV1 and V2 in flowCross, limitOut and limitIn.
RemnantNotWorse ==
    \A i \in DOMAIN ledger.offers :
        LET o == ledger.offers[i] IN AtLeast(<<o.pays, o.gets>>, o.rate)

\* A killed order (FillOrKill, or ImmediateOrCancel that found nothing) moves
\* no money and takes with it only offers that were dead or without funds
\* before it came, or its own it would have crossed; the offer it was to
\* replace stays.
KilledLeavesLiveOffers ==
    [][last'.kind = "create" /\ last'.ter = "tecKILLED" =>
        /\ ledger'.bal = ledger.bal
        /\ \A i \in DOMAIN ledger.offers \ DOMAIN ledger'.offers :
               LET o == ledger.offers[i]
                   tx == last'.tx
               IN  \/ Dead(o)
                   \/ Unfunded(o, o.rate,
                               AccountFunds(ledger, ledger.count, o.owner, OutOf(o)))
                   \/ o.owner = tx.account /\ o.in = tx.order.in
                         /\ AtLeast(o.rate, <<MultiplyRound(tx.order.gets,
                                IF tx.order.in = "USD" THEN Rate ELSE Parity), tx.order.pays>>)]_vars

\* Crossing an order never takes from a maker the reserve it needed before,
\* though the offers crossed are deleted as the payment goes.
ReserveHeld ==
    [][\A a \in Trader :
        ledger'.bal[a].XRP >= Lesser(ledger.bal[a].XRP, AccountReserve(ledger.count[a]))]_vars

\* Drops only change hands, and issued money only goes to the issuer as fee.
NothingCreated ==
    [][/\ SumOver(Trader, LAMBDA a : ledger'.bal[a].XRP) = SumOver(Trader, LAMBDA a : ledger.bal[a].XRP)
       /\ SumOver(Trader, LAMBDA a : ledger'.bal[a].USD) <= SumOver(Trader, LAMBDA a : ledger.bal[a].USD)]_vars

\* "Add offer to order book, using the original rate before any crossing
\* occured" (CreateOffer.cpp): a hybrid offer has the same rate in both of
\* its books.  applyHybrid is given the amounts left after crossing instead.
=============================================================================
