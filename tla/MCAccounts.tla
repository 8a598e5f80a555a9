-------------------- MODULE MCAccounts --------------------
(* Accounts and what hangs on them, instantiated for TLC: applying          *)
(* transactions, payments and deletion, keys, credentials, oracles,         *)
(* identifiers and delegation.                                              *)
EXTENDS Transactor, AccountKeys, TLC

\* The component that moves in a behaviour; the others stay as they start.
VARIABLE scenario

\* payments and account deletion (AccountLife)
VARIABLES
    lfAcct, lfPreauth, lfVoted, lfBurned

\* credentials, preauthorizations and domains (Credentials)
VARIABLES
    crNow, crAlive, crCredentials, crPreauths, crDomains, crSequence,
    crOwners, crDirectory, crPaid

\* price oracles (Oracle)
VARIABLES
    orCloseTime, orBalance, orOwners, orOracles, orDirectory

\* decentralized identifiers (DID)
VARIABLES
    diDid, diExists, diBalance, diOwners, diDirectory

\* delegated permissions (Delegate)
VARIABLES
    deDelegates, deOwners, deDirectory, deMade

Tx(a, t, n, op, d, c) ==
    [account |-> a, ticket |-> t, n |-> n, fee |-> 1, last |-> 0, op |-> op, dst |-> d, count |-> c,
     mode |-> "none", inner |-> <<>>]

\* Payments that create the other account, tickets, and deletion, at every
\* sequence or ticket an account can reach.
Submitted ==
    {Tx("alice", t, n, "pay", "bob", 2) : t \in BOOLEAN, n \in 1 .. 3}
    \cup {Tx("bob", FALSE, n, "pay", "alice", 2) : n \in 1 .. 3}
    \cup {Tx("alice", FALSE, n, "tickets", "bob", 2) : n \in 1 .. 2}
    \cup {Tx(p[1], FALSE, n, "delete", p[2], 0) : p \in {<<"alice", "bob">>, <<"bob", "alice">>}, n \in 1 .. 3}
    \cup {[Tx("bob", FALSE, n, "pay", "alice", 1) EXCEPT !.fee = 3] : n \in 2 .. 3}
    \cup {[Tx("bob", FALSE, n, "pay", "alice", 1) EXCEPT !.last = 1] : n \in 1 .. 2}

Inner(a, n, c) == [Tx(a, FALSE, n, "pay", IF a = "alice" THEN "bob" ELSE "alice", c) EXCEPT !.fee = 0]

Batches ==
    {[Tx("alice", FALSE, n, "batch", "bob", 0) EXCEPT !.mode = m,
                !.inner = <<Inner("alice", n + 1, c), Inner("bob", k, c), Inner("alice", n + 2, 1)>>] :
        n \in 1 .. 2, k \in 1 .. 2, c \in {1, 9}, m \in {"allOrNothing", "onlyOne", "untilFailure", "independent"}}
    \cup {Tx("bob", FALSE, n, "pay", "alice", 1) : n \in 1 .. 2}

Form(asset, amount, max, partial, min) ==
    [asset |-> asset, amount |-> amount, max |-> max, partial |-> partial, min |-> min]

PaymentForms ==
    {Form("xrp", 2, FALSE, FALSE, 0), Form("xrp", 4, FALSE, FALSE, 0), Form("usd", 2, TRUE, FALSE, 0),
     Form("usd", 2, FALSE, TRUE, 0), Form("usd", 2, FALSE, TRUE, 2)}

Delegated ==
    {[type |-> "Payment", effects |-> {"mint"}], [type |-> "Payment", effects |-> {"other"}],
     [type |-> "TrustSet", effects |-> {"freeze"}], [type |-> "TrustSet", effects |-> {"freeze", "authorize"}],
     [type |-> "AccountSet", effects |-> {"domain", "other"}], [type |-> "AccountSet", effects |-> {"domain"}],
     [type |-> "AccountDelete", effects |-> {"other"}]}

Batching == INSTANCE Transactor WITH Funds <- 5, Transactions <- Batches, MaxLedger <- 2

lfVars == <<lfAcct, lfPreauth, lfVoted, lfBurned>>

Lives == INSTANCE AccountLife WITH
    acct <- lfAcct, preauth <- lfPreauth, voted <- lfVoted,
    burned <- lfBurned, Account <- {"alice", "bob", "carol"},
    First <- {"alice", "bob"}, Rich <- {"alice"}, Validators <- {"carol"},
    Forms <- PaymentForms, Fee <- 1, DeleteFee <- 1, Kinds <- {"escrow"},
    MaxObjects <- 1, MaxOwned <- 1, Funds <- 4, Base <- 2, Increment <- 1

\* Signer lists of one account each, and an issuer's account alone.
MCLists == {"alice" :> 1, "bob" :> 2}

Freezing == INSTANCE AccountKeys WITH
    Flags <- {"DisableMaster", "NoFreeze", "GlobalFreeze", "AllowTrustLineClawback", "RequireAuth"}

crVars == <<crNow, crAlive, crCredentials, crPreauths, crDomains, crSequence,
           crOwners, crDirectory, crPaid>>

Creds == INSTANCE Credentials WITH
    now <- crNow, alive <- crAlive, credentials <- crCredentials,
    preauths <- crPreauths, domains <- crDomains, sequence <- crSequence,
    owners <- crOwners, directory <- crDirectory, paid <- crPaid, Base <- 1,
    Increment <- 1,
    Funds <- [a \in {"alice", "bob"} |-> IF a = "alice" THEN 3 ELSE 2],
    Accounts <- {"alice", "bob"}, Types <- {"kyc"}, Guarded <- {"bob"},
    Openers <- {"alice"}, MaxTime <- 2, MaxSeq <- 2

orVars == <<orCloseTime, orBalance, orOwners, orOracles, orDirectory>>

Oracles == INSTANCE Oracle WITH
    closeTime <- orCloseTime, balance <- orBalance, owners <- orOwners,
    oracles <- orOracles, directory <- orDirectory, Base <- 1, Increment <- 1,
    Documents <- {1, 2}, Pairs <- {"eur", "usd", "gbp"}, Funds <- 4,
    LargeSeries <- 1, MaxSeries <- 2, Delta <- 1, MaxTime <- 2

diVars == <<diDid, diExists, diBalance, diOwners, diDirectory>>

Identifiers == INSTANCE DID WITH
    did <- diDid, exists <- diExists, balance <- diBalance,
    owners <- diOwners, directory <- diDirectory, Base <- 1, Increment <- 1,
    Funds <- 3, Values <- {"v", "w"}

deVars == <<deDelegates, deOwners, deDirectory, deMade>>

Delegation == INSTANCE Delegate WITH
    delegates <- deDelegates, owners <- deOwners, directory <- deDirectory,
    made <- deMade, Base <- 1, Increment <- 1, Accounts <- {"alice", "bob"},
    Granters <- {"alice"}, Funds <- 3, MaxPermissions <- 1,
    Transactions <- Delegated

mcVars == <<scenario, transactorVars, lfVars, keyVars, crVars, orVars, diVars, deVars>>

\* What the components other than the one of the scenario do.
Rest(c) ==
    /\ UNCHANGED scenario
    /\ c # "Transactor" => UNCHANGED transactorVars
    /\ c # "AccountLife" => UNCHANGED lfVars
    /\ c # "AccountKeys" => UNCHANGED keyVars
    /\ c # "Credentials" => UNCHANGED crVars
    /\ c # "Oracle" => UNCHANGED orVars
    /\ c # "DID" => UNCHANGED diVars
    /\ c # "Delegate" => UNCHANGED deVars

MCInit ==
    /\ scenario \in {"apply", "batch", "life", "keys", "freeze",
                      "credentials", "oracle", "did", "delegate"}
    /\ IF scenario = "apply" THEN TransactorInit ELSE Batching!TransactorInit
    /\ Lives!Init
    /\ KeysInit
    /\ scenario = "freeze" => signerList["bob"] = NoList
    /\ scenario \notin {"keys", "freeze"} => \A a \in DOMAIN signerList : signerList[a] = NoList
    /\ Creds!Init
    /\ Oracles!Init
    /\ Identifiers!Init
    /\ Delegation!Init

MCNext ==
    \/ scenario = "apply" /\ TransactorNext /\ Rest("Transactor")
    \/ scenario = "batch" /\ Batching!TransactorNext /\ Rest("Transactor")
    \/ scenario = "life" /\ Lives!Next /\ Rest("AccountLife")
    \/ scenario = "keys" /\ KeysNext /\ Rest("AccountKeys")
    \/ scenario = "freeze" /\ (Freezing!OtherObjects("alice") \/ Freezing!Transaction("alice")) /\ Rest("AccountKeys")
    \/ scenario = "credentials" /\ Creds!Next /\ Rest("Credentials")
    \/ scenario = "oracle" /\ Oracles!Next /\ Rest("Oracle")
    \/ scenario = "did" /\ Identifiers!Next /\ Rest("DID")
    \/ scenario = "delegate" /\ Delegation!Next /\ Rest("Delegate")

MCSpec == MCInit /\ [][MCNext]_mcVars

\* The ledger adds up, whichever transactions ran, failed or were undone:
\* drops only move or burn as fees, and the owner count of every account is
\* what it owns and pays for: tickets, credentials and preauthorizations
\* (which change their owner when they are accepted), oracles across the two-
\* object threshold, and an identifier exactly while it has a field.
LedgerAccounted ==
    /\ scenario = "apply" => XrpConserved
    /\ scenario = "apply" => TicketsAccounted
    /\ scenario = "life" => Lives!DropsAccounted
    /\ scenario = "credentials" => Creds!ObjectsAccounted
    /\ scenario = "oracle" => Oracles!ObjectsAccounted
    /\ scenario = "did" => Identifiers!NeverEmpty

\* A deleted account leaves nothing behind that others could use: no
\* preauthorization it gave, no credential it issued or holds, and it had no
\* obligations.
NothingLeftBehind ==
    /\ scenario = "life" => Lives!NothingLeftBehind
    /\ scenario = "credentials" => Creds!NoOrphans

\* Nothing happens to an account without authority that holds at that moment:
\* one that asked for DepositAuth is paid only by whom it preauthorized or on
\* unexpired credentials it accepts, but for small sums of drops; and a
\* delegate does only what is granted to it then, the type as a whole or that
\* very effect; a master key is disabled by nobody else; and the ways the code
\* asks for membership of a domain agree.
AuthorityHeld ==
    /\ Lives!DepositAuthHeld
    /\ Creds!PaidByAuthorityNow
    /\ Delegation!EffectsAreGranted
    /\ [](scenario = "keys" => MasterDisablesItself)
    /\ [](scenario = "credentials" => Creds!MembershipAgrees)

\* What others rely on is not taken back: NoFreeze is for ever and a global
\* freeze is not lifted after it, an object that others depend on never goes
\* with a deleted account, and the updates of an oracle move forward in time,
\* are covered by the reserve of its owner and leave no price of an older one.
PromisesKept ==
    /\ Freezing!FreezePromise
    /\ Lives!ObligationsKept
    /\ Oracles!UpdatesMoveForward
    /\ Oracles!GrowthIsFunded
    /\ [](scenario = "oracle" => Oracles!PricesAreOfLastUpdate)

============================================================
