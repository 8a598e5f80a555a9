------------------------------- MODULE Oracle -------------------------------
(***************************************************************************)
(* Price oracles of one account (SetOracle.cpp, DeleteOracle.cpp).  An     *)
(* update names pairs with a price or, without one, pairs to remove; a     *)
(* pair it does not name stays in the series without a price.  A series of *)
(* more than LargeSeries pairs (5 in the code) counts as two objects.      *)
(* Prices are the update time they came with.                              *)
(***************************************************************************)
EXTENDS AccountRoot, Functions, TLC

CONSTANTS
    Documents, Pairs, Funds,
    LargeSeries, MaxSeries,      \* 5 and maxOracleDataSeries
    Delta,                       \* maxLastUpdateTimeDelta
    MaxTime

Unpriced == 0
Updates == UNION {[S -> {"price", "remove"}] : S \in SUBSET Pairs \ {{}}}

VARIABLES closeTime, balance, owners, oracles, directory
vars == <<closeTime, balance, owners, oracles, directory>>

TypeOK ==
    /\ closeTime \in 1 .. MaxTime /\ balance \in 0 .. Funds /\ owners \in Nat
    /\ DOMAIN oracles \subseteq Documents
    /\ \A d \in DOMAIN oracles :
          /\ oracles[d].updated \in 1 .. MaxTime + Delta
          /\ DOMAIN oracles[d].series \subseteq Pairs
          /\ Cardinality(DOMAIN oracles[d].series) \in 1 .. MaxSeries

Init ==
    /\ closeTime = 1 /\ balance = Funds /\ owners = 0 /\ oracles = <<>> /\ directory = {}

Count(S) == IF Cardinality(S) > LargeSeries THEN 2 ELSE 1
Priced(u) == {p \in DOMAIN u : u[p] = "price"}
Dropped(u) == DOMAIN u \ Priced(u)
Series(d) == DOMAIN oracles[d].series
Has(d) == d \in DOMAIN oracles

Preflight(u) == u # <<>> /\ Cardinality(DOMAIN u) <= MaxSeries

\* The pairs preclaim expects the oracle to hold afterwards.
PairsAfter(d, u) == Priced(u) \cup (IF Has(d) THEN Series(d) \ Dropped(u) ELSE {})
AdjustReserve(d, u) == Count(PairsAfter(d, u)) - (IF Has(d) THEN Count(Series(d)) ELSE 0)

UpdateTime(d, time) ==
    /\ time >= closeTime - Delta /\ time <= closeTime + Delta
    /\ Has(d) => time > oracles[d].updated

Preclaim(d, u, time) ==
    /\ UpdateTime(d, time)
    /\ Dropped(u) \subseteq (IF Has(d) THEN Series(d) ELSE {})
    /\ PairsAfter(d, u) # {} /\ Cardinality(PairsAfter(d, u)) <= MaxSeries
    /\ balance >= AccountReserve(owners + AdjustReserve(d, u))

\* doApply keeps the old pairs, drops their prices, then applies the update.
UpdatedSeries(old, u, time) ==
    [p \in (DOMAIN old \cup Priced(u)) \ Dropped(u) |-> IF p \in Priced(u) THEN time ELSE Unpriced]

SetOracle(d, u, time) ==
    /\ Preflight(u) /\ Preclaim(d, u, time)
    /\ IF Has(d)
       THEN LET new == UpdatedSeries(oracles[d].series, u, time)
            IN  /\ oracles' = [oracles EXCEPT ![d] = [updated |-> time, series |-> new]]
                /\ owners' = ConfineOwnerCount(owners, Count(DOMAIN new) - Count(Series(d)))
                /\ UNCHANGED directory
       ELSE LET new == UpdatedSeries(<<>>, u, time)
            IN  /\ oracles' = oracles @@ (d :> [updated |-> time, series |-> new])
                /\ owners' = ConfineOwnerCount(owners, Count(DOMAIN new))
                /\ directory' = directory \cup {d}
    /\ UNCHANGED <<closeTime, balance>>

CountOnDelete(d) == Count(Series(d))
DeleteOracle(d) ==
    /\ Has(d)
    /\ oracles' = Restrict(oracles, DOMAIN oracles \ {d})
    /\ owners' = ConfineOwnerCount(owners, -CountOnDelete(d))
    /\ directory' = directory \ {d}
    /\ UNCHANGED <<closeTime, balance>>

Spend ==
    /\ XrpLiquid(balance, owners) > 0 /\ balance' = balance - 1
    /\ UNCHANGED <<closeTime, owners, oracles, directory>>
LedgerCloses ==
    /\ closeTime < MaxTime /\ closeTime' = closeTime + 1
    /\ UNCHANGED <<balance, owners, oracles, directory>>

Next ==
    \/ \E d \in Documents, u \in Updates, time \in 1 .. MaxTime + Delta : SetOracle(d, u, time)
    \/ \E d \in Documents : DeleteOracle(d)
    \/ Spend \/ LedgerCloses

Spec == Init /\ [][Next]_vars
-----------------------------------------------------------------------------
\* The owner count follows the series over the two-object threshold, up and
\* down, through updates and deletions, and the directory lists the oracles.
ObjectsAccounted ==
    /\ owners = SumOver(DOMAIN oracles, LAMBDA d : Count(Series(d)))
    /\ directory = DOMAIN oracles

\* A price in an oracle came with its last update: an update that leaves a
\* pair out leaves it without a price, never with a stale one.
PricesAreOfLastUpdate ==
    \A d \in DOMAIN oracles, p \in Pairs :
        p \in Series(d) => oracles[d].series[p] \in {Unpriced, oracles[d].updated}

\* Time stamps of one oracle only move forward and stay near the close time
\* of the ledger that took them.
UpdatesMoveForward ==
    [][ \A d \in Documents :
          (Has(d) /\ Has(d)' /\ oracles'[d] # oracles[d]) =>
              /\ oracles'[d].updated > oracles[d].updated
              /\ oracles'[d].updated <= closeTime + Delta ]_vars

\* The count preclaim checks the reserve for is the one doApply charges: no
\* update leaves the owner with more objects than its balance covers.
GrowthIsFunded ==
    [][ owners' > owners => balance' >= AccountReserve(owners') ]_vars
=============================================================================
