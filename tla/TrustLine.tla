----------------------------- MODULE TrustLine -----------------------------
(***************************************************************************)
(* One trust line: TrustSet (SetTrust.cpp), the credit functions of        *)
(* View.cpp (trustCreate, rippleCreditIOU, issueIOU, redeemIOU,            *)
(* trustDelete) and the clawback of its balance.  The two accounts are the *)
(* sides "low" and "high"; the line is one currency.  The flow engine      *)
(* bounds what moves along a line (MayFlow); its books may credit beyond a *)
(* limit (MayCredit).                                                      *)
(***************************************************************************)
EXTENDS AccountRoot

CONSTANTS
    Funds, Owned,           \* XRP and other objects of each side
    Limits, Amounts, MaxBalance,
    TxFlags,                \* sets of flags to send in a TrustSet
    Qualities,              \* subset of {"keep", "one", "other"}
    Switches                \* account flags that AccountSet changes

Sides == {"low", "high"}
Other(s) == IF s = "low" THEN "high" ELSE "low"
Off == [s \in Sides |-> FALSE]

VARIABLES line, owners, account     \* account[s]: flags of the account
vars == <<line, owners, account>>

NoLine == [exists |-> FALSE, balance |-> 0, limit |-> [s \in Sides |-> 0], quality |-> Off,
           noRipple |-> Off, auth |-> Off, freeze |-> Off, deep |-> Off, reserve |-> Off]

Init ==
    /\ line = NoLine /\ owners = [s \in Sides |-> Owned[s]]
    /\ account \in [Sides -> SUBSET (Switches \cap {"defaultRipple"})]

Holding(l, s) == IF s = "low" THEN l.balance ELSE -l.balance

TypeOK ==
    /\ line.balance \in -MaxBalance .. MaxBalance /\ ~line.exists => line = NoLine
    /\ \A s \in Sides : owners[s] \in Nat /\ line.limit[s] \in Limits \cup {0}

\* SetAccount: NoFreeze is never cleared, RequireAuth and clawback are set
\* while nothing is owned.
AccountSet(s, f) ==
    /\ CASE f = "noFreeze" -> f \notin account[s]
         [] f \in {"requireAuth", "clawback"} -> f \notin account[s] /\ owners[s] = 0
         [] OTHER -> TRUE
    /\ account' = [account EXCEPT ![s] = IF f \in @ THEN @ \ {f} ELSE @ \cup {f}]
    /\ UNCHANGED <<line, owners>>

ReserveCreate(s) == IF owners[s] < 2 THEN 0 ELSE AccountReserve(owners[s] + 1)

\* computeFreezeFlags.
Froze(on, noFreeze, set, clear) ==
    IF set /\ ~clear /\ ~noFreeze THEN TRUE ELSE IF clear /\ ~set THEN FALSE ELSE on
FreezeFlags(l, s, tx) ==
    LET noFreeze == "noFreeze" \in account[s]
    IN  [l EXCEPT !.freeze[s] = Froze(@, noFreeze, "setFreeze" \in tx, "clearFreeze" \in tx),
                  !.deep[s] = Froze(@, noFreeze, "setDeepFreeze" \in tx, "clearDeepFreeze" \in tx)]

TrustSetPreclaim(s, tx) ==
    LET sets == tx \cap {"setFreeze", "setDeepFreeze"}
        clears == tx \cap {"clearFreeze", "clearDeepFreeze"}
        after == FreezeFlags(line, s, tx)
    IN  /\ "setAuth" \in tx => "requireAuth" \in account[s]
        /\ "disallowIncoming" \in account[Other(s)] => line.exists
        /\ "noFreeze" \in account[s] => sets = {}
        /\ sets = {} \/ clears = {}
        /\ after.deep[s] => after.freeze[s]

\* Why a side must keep a reserve for the line.
ReserveSet(l, s) ==
    \/ l.quality[s]
    \/ ~l.noRipple[s] # ("defaultRipple" \in account[s])
    \/ l.freeze[s] \/ l.limit[s] # 0 \/ Holding(l, s) > 0
WithReserves(l) == [l EXCEPT !.reserve = [s \in Sides |-> ReserveSet(l, s)]]
Count(on) == IF on THEN 1 ELSE 0
OwnersAfter(before, after) ==
    [s \in Sides |-> ConfineOwnerCount(owners[s], Count(after.reserve[s]) - Count(before.reserve[s]))]

\* A quality of exactly one counts as none for the reserve.
SetQuality(l, s, q) == IF q = "keep" THEN l ELSE [l EXCEPT !.quality[s] = (q = "other")]
SetNoRipple(l, s, tx) ==
    CASE "setNoRipple" \in tx /\ "clearNoRipple" \notin tx -> [l EXCEPT !.noRipple[s] = TRUE]
      [] "clearNoRipple" \in tx /\ "setNoRipple" \notin tx -> [l EXCEPT !.noRipple[s] = FALSE]
      [] OTHER -> l

\* The line as TrustSet rewrites it, before its reserves are settled.
Rewritten(s, limit, q, tx) ==
    LET l == FreezeFlags(SetNoRipple(SetQuality([line EXCEPT !.limit[s] = limit], s, q), s, tx), s, tx)
    IN  [l EXCEPT !.auth[s] = @ \/ "setAuth" \in tx]

Modify(s, limit, q, tx) ==
    LET l == WithReserves(Rewritten(s, limit, q, tx))
    IN  /\ line.exists
        /\ "setNoRipple" \in tx /\ "clearNoRipple" \notin tx => Holding(line, s) >= 0
        /\ owners' = OwnersAfter(line, l)
        /\ IF \A r \in Sides : ~l.reserve[r]
           THEN line' = NoLine
           ELSE /\ l.reserve[s] /\ ~line.reserve[s] => Funds[s] >= ReserveCreate(s)
                /\ line' = l
        /\ UNCHANGED account

\* trustCreate for the side s, which is charged for it.
Created(s, limit, q, tx, balance) ==
    [NoLine EXCEPT !.exists = TRUE, !.balance = balance, !.limit[s] = limit, !.quality[s] = q,
                   !.auth[s] = "setAuth" \in tx,
                   !.noRipple = [r \in Sides |-> IF r = s THEN "setNoRipple" \in tx /\ "clearNoRipple" \notin tx
                                                          ELSE "defaultRipple" \notin account[r]],
                   !.freeze[s] = "setFreeze" \in tx /\ "clearFreeze" \notin tx,
                   !.deep[s] = "setDeepFreeze" \in tx,
                   !.reserve[s] = TRUE]
Create(s, limit, q, tx) ==
    /\ ~line.exists
    /\ limit # 0 \/ q # "keep" \/ "setAuth" \in tx
    /\ Funds[s] >= ReserveCreate(s)
    /\ line' = Created(s, limit, q = "other", tx, 0)
    /\ owners' = [owners EXCEPT ![s] = @ + 1]
    /\ UNCHANGED account

TrustSet(s, limit, q, tx) ==
    /\ TrustSetPreclaim(s, tx)
    /\ Modify(s, limit, q, tx) \/ Create(s, limit, q, tx)

\* updateTrustLine: does the sender's reserve go, and the line with it?
Releases(s, l) ==
    /\ Holding(line, s) > 0 /\ Holding(l, s) <= 0 /\ l.reserve[s]
    /\ l.noRipple[s] # ("defaultRipple" \in account[s])
    /\ ~l.freeze[s] /\ l.limit[s] = 0 /\ ~l.quality[s]
DeleteNow(s, l) == l.balance = 0 /\ ~l.reserve[Other(s)]
Released(s, l) ==
    IF ~Releases(s, l) THEN l
    ELSE IF DeleteNow(s, l) THEN NoLine ELSE [l EXCEPT !.reserve[s] = FALSE]
Moved(s, n) == [line EXCEPT !.balance = IF s = "low" THEN @ - n ELSE @ + n]

\* rippleCreditIOU, issueIOU and redeemIOU: s pays n to the other side.
Credit(s, n) ==
    LET l == Released(s, Moved(s, n))
    IN  /\ line.exists
        /\ line' = l
        /\ owners' = [owners EXCEPT ![s] = ConfineOwnerCount(@, IF Releases(s, Moved(s, n)) THEN -1 ELSE 0)]
        /\ UNCHANGED account

MayFlow(s, n) ==
    IF Holding(line, s) > 0 THEN n <= Holding(line, s)
    ELSE Holding(line, Other(s)) + n <= line.limit[Other(s)]
MayCredit(s, n) == Holding(line, s) <= 0 /\ Holding(line, Other(s)) + n <= MaxBalance
Pay(s, n) == line.exists /\ (MayFlow(s, n) \/ MayCredit(s, n)) /\ Credit(s, n)

\* The first credit makes the line, for the receiver and with no limit.
PayNew(s, n) ==
    LET r == Other(s)
        noRipple == IF "defaultRipple" \in account[r] THEN {} ELSE {"setNoRipple"}
    IN  /\ ~line.exists /\ Funds[r] >= ReserveCreate(r)
        /\ line' = Created(r, 0, FALSE, noRipple, IF s = "low" THEN -n ELSE n)
        /\ owners' = [owners EXCEPT ![r] = @ + 1]
        /\ UNCHANGED account

\* The issuer s takes back what the other side holds.
ClawbackPreclaim(s) ==
    /\ line.exists /\ "clawback" \in account[s] /\ "noFreeze" \notin account[s]
    /\ Holding(line, Other(s)) > 0
Clawback(s, n) ==
    /\ ClawbackPreclaim(s)
    /\ Credit(Other(s), Min({n, Holding(line, Other(s))}))

Next ==
    \E s \in Sides :
        \/ \E f \in Switches : AccountSet(s, f)
        \/ \E limit \in Limits, q \in Qualities, tx \in TxFlags : TrustSet(s, limit, q, tx)
        \/ \E n \in Amounts : Pay(s, n) \/ PayNew(s, n) \/ Clawback(s, n)

Spec == Init /\ [][Next]_vars
-----------------------------------------------------------------------------
\* Each side's owner count is its other objects and the line's reserve flag,
\* whoever's transaction or payment settled the reserve.
OwnersAccounted == \A s \in Sides : owners[s] = Owned[s] + Count(line.reserve[s])

\* A line always has someone's reserve behind it; the last payment of a balance
\* deletes the line rather than leave it to nobody.
LineIsReserved == line.exists => \E s \in Sides : line.reserve[s]

\* A line is only deeply frozen while it is frozen, with SetFreeze and
\* SetDeepFreeze set and cleared apart and NoFreeze in between.
DeepNeedsFreeze == \A s \in Sides : line.deep[s] => line.freeze[s]

\* A freeze ends only when the side that froze asks for it: paying the balance
\* down to nothing, clawing it back, or the other side giving up its part never
\* deletes a frozen line.
FreezeIsKept ==
    [][ \A s \in Sides : line.freeze[s] /\ ~line'.freeze[s] =>
          \E limit \in Limits, q \in Qualities, tx \in TxFlags :
             "clearFreeze" \in tx /\ TrustSet(s, limit, q, tx) ]_vars
=============================================================================
