------------------------------- MODULE Check -------------------------------
(***************************************************************************)
(* Checks (CreateCheck.cpp, CancelCheck.cpp, CashCheck.cpp), for XRP and   *)
(* for one IOU with an issuer outside Accounts.  A trust line is the       *)
(* holder's balance and limit; cashing an IOU goes over the one direct     *)
(* path, the writer paying the transfer rate, with the casher's limit      *)
(* lifted for the payment and put back after it.                           *)
(***************************************************************************)
EXTENDS AccountRoot, Functions, TLC

CONSTANTS
    Accounts, Funds,        \* accounts and the XRP each one starts with
    Credit,                 \* IOU balance of the accounts that hold a line at the start
    Holders,                \* those accounts
    Refusing,               \* accounts whose flags refuse checks
    Rates,                  \* transfer rates the issuer may set
    Amounts, MaxTime, MaxChecks

Assets == {"XRP", "IOU"}
NoLine == [balance |-> 0, limit |-> -1]

VARIABLES
    now, rate, balance, owners, lines,
    checks, directory, made,
    delivered               \* what each check has paid out

vars == <<now, rate, balance, owners, lines, checks, directory, made, delivered>>
money == <<rate, balance, lines, delivered>>

HasLine(a) == lines[a] # NoLine

TypeOK ==
    /\ now \in 0 .. MaxTime /\ rate \in Rates /\ made \in 0 .. MaxChecks
    /\ balance \in [Accounts -> Nat] /\ owners \in [Accounts -> Nat]
    /\ \A a \in Accounts : lines[a] = NoLine \/ lines[a] \in [balance : Nat, limit : Nat]
    /\ \A c \in DOMAIN checks :
          checks[c] \in [src : Accounts, dst : Accounts, asset : Assets, sendMax : Amounts, expires : 0 .. MaxTime]

Init ==
    /\ now = 1 /\ rate \in Rates /\ made = 0
    /\ balance = [a \in Accounts |-> Funds]
    /\ lines = [a \in Accounts |-> IF a \in Holders THEN [balance |-> Credit, limit |-> Credit] ELSE NoLine]
    /\ owners = [a \in Accounts |-> IF a \in Holders THEN 1 ELSE 0]
    /\ checks = <<>> /\ directory = [a \in Accounts |-> {}] /\ delivered = <<>>

HasExpired(c) == checks[c].expires # 0 /\ now >= checks[c].expires

CreatePreflight(a, d, sendMax) == a # d /\ sendMax > 0
CreatePreclaim(d, expires) == d \notin Refusing /\ (expires = 0 \/ now < expires)
CreateCheck(a, d, asset, sendMax, expires) ==
    LET c == made + 1
    IN  /\ made < MaxChecks
        /\ CreatePreflight(a, d, sendMax) /\ CreatePreclaim(d, expires)
        /\ balance[a] >= AccountReserve(owners[a] + 1)
        /\ made' = c
        /\ checks' = checks @@ (c :> [src |-> a, dst |-> d, asset |-> asset,
                                      sendMax |-> sendMax, expires |-> expires])
        /\ delivered' = delivered @@ (c :> 0)
        /\ directory' = [directory EXCEPT ![a] = @ \cup {c}, ![d] = @ \cup {c}]
        /\ owners' = [owners EXCEPT ![a] = ConfineOwnerCount(@, 1)]
        /\ UNCHANGED <<now, rate, balance, lines>>

\* What both CancelCheck and CashCheck end with; `count' are the owner counts
\* the payment left.
Erase(c, count) ==
    /\ checks' = Restrict(checks, DOMAIN checks \ {c})
    /\ directory' = [directory EXCEPT ![checks[c].src] = @ \ {c}, ![checks[c].dst] = @ \ {c}]
    /\ owners' = [count EXCEPT ![checks[c].src] = ConfineOwnerCount(@, -1)]

MayCancel(a, c) == HasExpired(c) \/ a \in {checks[c].src, checks[c].dst}
CancelCheck(a, c) ==
    /\ MayCancel(a, c)
    /\ Erase(c, owners)
    /\ UNCHANGED <<now, made, money>>

\* Mutant of SrcLiquid: the reserve may be spent.
LiquidIgnoringReserve(a) == balance[a]

\* The XRP the writer can spend once this check no longer counts as owned.
SrcLiquid(a) == XrpLiquid(balance[a], ConfineOwnerCount(owners[a], -1))
AvailableFunds(a, asset) ==
    IF asset = "XRP" THEN XrpLiquid(balance[a], owners[a]) + Increment ELSE lines[a].balance

\* preclaim: kind is "amount" or "min", value the amount the casher names.
CashPreclaim(d, c, value) ==
    /\ d = checks[c].dst /\ ~HasExpired(c)
    /\ value <= checks[c].sendMax
    /\ value <= AvailableFunds(checks[c].src, checks[c].asset)

CashXrp(d, c, kind, value) ==
    LET src == checks[c].src
        deliver == IF kind = "amount" THEN value
                   ELSE Max({value, Min({checks[c].sendMax, SrcLiquid(src)})})
    IN  /\ checks[c].asset = "XRP"
        /\ SrcLiquid(src) >= deliver
        /\ balance' = [balance EXCEPT ![src] = @ - deliver, ![d] = @ + deliver]
        /\ delivered' = [delivered EXCEPT ![c] = @ + deliver]
        /\ Erase(c, owners)
        /\ UNCHANGED <<now, rate, lines, made>>

\* The flow delivers as much as the writer's balance and SendMax cover, at most
\* what was named, and all of it unless a minimum was.
MaxDeliver(c) ==
    LET cap == Min({checks[c].sendMax, lines[checks[c].src].balance})
    IN  Max({x \in 0 .. cap : MultiplyRound(x, rate) <= cap})

CashIou(d, c, kind, value) ==
    LET src == checks[c].src
        deliver == IF kind = "amount" THEN value ELSE MaxDeliver(c)
        opened == IF HasLine(d) THEN lines[d] ELSE [balance |-> 0, limit |-> 0]
        paidBy == MultiplyRound(deliver, rate)
        left == [lines[src] EXCEPT !.balance = @ - paidBy]
        closes == left = [balance |-> 0, limit |-> 0]
        opens == IF HasLine(d) THEN 0 ELSE 1
    IN  /\ checks[c].asset = "IOU" /\ HasLine(src)
        /\ HasLine(d) \/ balance[d] >= AccountReserve(owners[d] + 1)
        /\ value <= deliver /\ deliver <= MaxDeliver(c)
        /\ lines' = [lines EXCEPT ![src] = IF closes THEN NoLine ELSE left,
                                  ![d] = [opened EXCEPT !.balance = @ + deliver]]
        /\ delivered' = [delivered EXCEPT ![c] = @ + deliver]
        /\ Erase(c, [owners EXCEPT ![d] = @ + opens, ![src] = IF closes THEN @ - 1 ELSE @])
        /\ UNCHANGED <<now, rate, balance, made>>

CashCheck(d, c, kind, value) ==
    /\ CashPreclaim(d, c, value)
    /\ CashXrp(d, c, kind, value) \/ CashIou(d, c, kind, value)

\* The writer spends elsewhere, down to the reserve; the issuer changes its rate.
Spend(a) ==
    /\ XrpLiquid(balance[a], owners[a]) > 0
    /\ \E b \in Accounts \ {a} : balance' = [balance EXCEPT ![a] = @ - 1, ![b] = @ + 1]
    /\ UNCHANGED <<now, rate, owners, lines, checks, directory, made, delivered>>
LedgerCloses ==
    /\ now < MaxTime /\ now' = now + 1
    /\ rate' \in Rates
    /\ UNCHANGED <<balance, owners, lines, checks, directory, made, delivered>>

Next ==
    \/ LedgerCloses
    \/ \E a \in Accounts : Spend(a)
    \/ \E a, d \in Accounts, asset \in Assets, m \in Amounts, e \in {0, MaxTime} : CreateCheck(a, d, asset, m, e)
    \/ \E a \in Accounts, c \in DOMAIN checks : CancelCheck(a, c)
    \/ \E d \in Accounts, c \in DOMAIN checks, kind \in {"amount", "min"}, v \in Amounts : CashCheck(d, c, kind, v)
Spec == Init /\ [][Next]_vars
-----------------------------------------------------------------------------
\* The owner count is the number of checks written plus the trust lines held,
\* through cashes that open the casher's line and close the writer's, and the
\* two directories list a check exactly while it exists.
ObjectsAccounted ==
    \A a \in Accounts :
        /\ owners[a] = Cardinality({c \in DOMAIN checks : checks[c].src = a})
                         + (IF HasLine(a) THEN 1 ELSE 0)
        /\ directory[a] = {c \in DOMAIN checks : a \in {checks[c].src, checks[c].dst}}

\* Cashing an XRP check, which frees the reserve of the check itself, leaves the
\* writer with the reserve of everything the writer still owns.
WriterKeepsReserve ==
    [][\A a \in Accounts :
          balance'[a] < balance[a] => balance'[a] >= AccountReserve(owners'[a])]_vars

\* A casher who names an amount or a minimum gets at least that, and the writer
\* is charged at most SendMax, the transfer rate included.
ChargedAtMostSendMax ==
    [][\A c \in DOMAIN checks : c \notin DOMAIN checks' =>
          LET src == checks[c].src
          IN  /\ balance[src] - balance'[src] <= checks[c].sendMax
              /\ lines[src].balance - lines'[src].balance <= checks[c].sendMax]_vars

\* A check pays out only once, and never at or after its expiration.
PaysOnceInTime ==
    [][\A c \in DOMAIN delivered :
          delivered'[c] # delivered[c] => c \in DOMAIN checks /\ ~HasExpired(c) /\ c \notin DOMAIN checks']_vars
=============================================================================
