------------------------------ MODULE NFToken ------------------------------
(***************************************************************************)
(* NFTokens and their offers (NFTokenMint.cpp, NFTokenBurn.cpp,            *)
(* NFTokenModify.cpp, NFTokenCreateOffer.cpp, NFTokenCancelOffer.cpp,      *)
(* NFTokenAcceptOffer.cpp), over the page directories of NFTokenPages.     *)
(* Prices are in XRP.  The id of a token, which the code derives from its  *)
(* issuer, flags, fee, taxon and sequence, is taken from Ids.              *)
(***************************************************************************)
EXTENDS AccountRoot, Functions, TLC

CONSTANTS
    Accounts, Issuer,           \* the account whose tokens are modelled
    Funds, Ids, Kinds,          \* Kinds: the [burnable, transferable, fee] to mint
    Prices, Fees, MaxOffers, MaxTime,
    Destinations,               \* accounts that offers are made out to
    MaxDeletable,               \* maxDeletableTokenOfferEntries
    PageSize, LastPage

Pages == INSTANCE NFTokenPages WITH
    PageSize <- PageSize, Ties <- 1, LastPage <- LastPage, Tokens <- Ids, MayStartOld <- FALSE,
    dir <- <<>>, owners <- 0, owned <- {}, fixed <- TRUE, healthy <- TRUE

NoOne == "none"
Never == MaxTime + 1

VARIABLES
    now, balance, owners, dirs,     \* dirs[a]: the pages of a
    tokens,                         \* id -> what was minted; stays when burned
    burned, minter,                 \* NFTokenMinter of the issuer
    minters,                        \* every account that ever was the minter
    offers, made

vars == <<now, balance, owners, dirs, tokens, burned, minter, minters, offers, made>>

Held(a) == UNION {dirs[a][k].tokens : k \in DOMAIN dirs[a]}
Holds(a, t) == Pages!FindToken(dirs[a], t)

TypeOK ==
    /\ DOMAIN tokens \subseteq Ids /\ burned \subseteq DOMAIN tokens
    /\ balance \in [Accounts -> Nat] /\ owners \in [Accounts -> Nat]
    /\ \A o \in DOMAIN offers :
          /\ offers[o].owner \in Accounts /\ offers[o].token \in DOMAIN tokens
          /\ offers[o].amount \in Prices \cup {0} /\ offers[o].dest # offers[o].owner
          /\ ~offers[o].sell => offers[o].amount > 0

Init ==
    /\ now = 1
    /\ balance = [a \in Accounts |-> Funds] /\ owners = [a \in Accounts |-> 0]
    /\ dirs = [a \in Accounts |-> <<>>] /\ tokens = <<>> /\ burned = {}
    /\ minter = NoOne /\ minters = {} /\ offers = <<>> /\ made = 0

SetMinter(a) ==
    /\ minter # a /\ a # Issuer
    /\ minter' = a /\ minters' = minters \cup ({a} \ {NoOne})
    /\ UNCHANGED <<now, balance, owners, dirs, tokens, burned, offers, made>>

HasExpired(o) == offers[o].expires # Never /\ now >= offers[o].expires
Reserve(a, count) == balance[a] >= AccountReserve(count)

\* What an offer by a for the token t may say (tokenOfferCreatePreflight).
OfferPreflight(a, sell, amount, dest) == (sell \/ amount > 0) /\ dest # a

\* tokenOfferCreatePreclaim: only the issuer and its minter offer a token that
\* is not transferable, and a buyer must have something to spend.
MayOffer(a, kind) == kind.transferable \/ a \in {Issuer, minter}
OfferPreclaim(a, kind, sell) ==
    /\ MayOffer(a, kind)
    /\ sell \/ XrpLiquid(balance[a], owners[a]) > 0

Offer(a, t, sell, amount, dest, expires) ==
    [owner |-> a, token |-> t, sell |-> sell, amount |-> amount, dest |-> dest, expires |-> expires]

MintPreclaim(a) == a \in {Issuer, minter}
\* A token, and with it an offer to sell when amount is one.
Mint(a, t, kind, offered, amount, dest) ==
    \E r \in {Pages!InsertToken(dirs[a], t)} :
      LET paged == owners[a] + r.count
          after == IF offered THEN paged + 1 ELSE paged
      IN
        /\ t \notin DOMAIN tokens /\ MintPreclaim(a) /\ r.ok
        /\ offered => /\ made < MaxOffers /\ OfferPreflight(a, TRUE, amount, dest)
                      /\ OfferPreclaim(a, kind, TRUE) /\ Reserve(a, paged + 1)
        /\ after > owners[a] => Reserve(a, after)
        /\ tokens' = tokens @@ (t :> kind)
        /\ dirs' = [dirs EXCEPT ![a] = r.dir]
        /\ owners' = [owners EXCEPT ![a] = after]
        /\ offers' = IF offered THEN offers @@ (made + 1 :> Offer(a, t, TRUE, amount, dest, Never)) ELSE offers
        /\ made' = IF offered THEN made + 1 ELSE made
        /\ UNCHANGED <<now, balance, burned, minter, minters>>

CreateOffer(a, t, sell, amount, dest, expires) ==
    /\ made < MaxOffers
    /\ OfferPreflight(a, sell, amount, dest) /\ now < expires
    /\ IF sell THEN Holds(a, t) ELSE \E b \in Accounts \ {a} : Holds(b, t)
    /\ OfferPreclaim(a, tokens[t], sell)
    /\ Reserve(a, owners[a] + 1)
    /\ offers' = offers @@ (made + 1 :> Offer(a, t, sell, amount, dest, expires))
    /\ made' = made + 1
    /\ owners' = [owners EXCEPT ![a] = ConfineOwnerCount(@, 1)]
    /\ UNCHANGED <<now, balance, dirs, tokens, burned, minter, minters>>

\* deleteTokenOffer of all of O: what remains, and the owner counts.
WithoutOffers(O) == Restrict(offers, DOMAIN offers \ O)
OwnersWithout(O) ==
    [a \in Accounts |-> ConfineOwnerCount(owners[a], -Cardinality({o \in O : offers[o].owner = a}))]

CancelPreclaim(a, O) ==
    \A o \in O : HasExpired(o) \/ a \in {offers[o].owner, offers[o].dest}
CancelOffer(a, O) ==
    /\ O # {} /\ CancelPreclaim(a, O)
    /\ offers' = WithoutOffers(O) /\ owners' = OwnersWithout(O)
    /\ UNCHANGED <<now, balance, dirs, tokens, burned, minter, minters, made>>

\* The owner burns its own; the issuer and its minter, what is burnable.
BurnPreclaim(a, owner, t) ==
    /\ Holds(owner, t)
    /\ a = owner \/ (tokens[t].burnable /\ a \in {Issuer, minter})
\* Sell offers go first, and at most MaxDeletable offers altogether.
MayDelete(D, O) ==
    LET sells == {o \in O : offers[o].sell}
    IN  /\ D \subseteq O /\ Cardinality(D) = Min({MaxDeletable, Cardinality(O)})
        /\ D \ sells # {} => sells \subseteq D
Burn(a, owner, t) ==
    \E r \in {Pages!RemoveToken(dirs[owner], t, TRUE)} :
      LET O == {o \in DOMAIN offers : offers[o].token = t}
      IN
        /\ BurnPreclaim(a, owner, t) /\ r.ok
        /\ \E D \in SUBSET O :
              /\ MayDelete(D, O)
              /\ offers' = WithoutOffers(D)
              /\ owners' = [OwnersWithout(D) EXCEPT ![owner] = ConfineOwnerCount(@, r.count)]
        /\ dirs' = [dirs EXCEPT ![owner] = r.dir]
        /\ burned' = burned \cup {t}
        /\ UNCHANGED <<now, balance, tokens, minter, minters, made>>

\* Fees are in tenths.
Cut(amount, fee) == Multiply(amount, fee)

\* Offer o, taken by a directly.
Buyer(a, o) == IF offers[o].sell THEN a ELSE offers[o].owner
Seller(a, o) == IF offers[o].sell THEN offers[o].owner ELSE a

AcceptPreclaim(a, o) ==
    /\ ~HasExpired(o) /\ offers[o].owner # a
    /\ offers[o].dest \in {NoOne, a}
    /\ Holds(Seller(a, o), offers[o].token)
    /\ XrpLiquid(balance[Buyer(a, o)], owners[Buyer(a, o)]) >= offers[o].amount

\* Mutant of BrokerPreclaim: the bid need not cover the price and the fee.
BrokerPreclaimCheap(a, b, s, fee) ==
    /\ ~offers[b].sell /\ offers[s].sell /\ ~HasExpired(b) /\ ~HasExpired(s)
    /\ offers[b].token = offers[s].token
    /\ offers[b].owner # offers[s].owner /\ a \notin {offers[b].owner, offers[s].owner}
    /\ {offers[b].dest, offers[s].dest} \subseteq {NoOne, a}
    /\ offers[s].amount <= offers[b].amount /\ fee < offers[b].amount
    /\ Holds(offers[s].owner, offers[s].token)
    /\ XrpLiquid(balance[offers[b].owner], owners[offers[b].owner]) >= offers[b].amount

\* A broker a matches the buy offer b with the sell offer s for a fee.
BrokerPreclaim(a, b, s, fee) ==
    /\ ~offers[b].sell /\ offers[s].sell /\ ~HasExpired(b) /\ ~HasExpired(s)
    /\ offers[b].token = offers[s].token
    /\ offers[b].owner # offers[s].owner /\ a \notin {offers[b].owner, offers[s].owner}
    /\ {offers[b].dest, offers[s].dest} \subseteq {NoOne, a}
    /\ offers[s].amount <= offers[b].amount - fee /\ fee < offers[b].amount
    /\ Holds(offers[s].owner, offers[s].token)
    /\ XrpLiquid(balance[offers[b].owner], owners[offers[b].owner]) >= offers[b].amount

\* The issuer's cut of a price, none when it buys or sells itself.
IssuerCut(t, buyer, seller, amount) ==
    IF Issuer \in {buyer, seller} THEN 0 ELSE Cut(amount, tokens[t].fee)

\* Who is paid what: the broker its fee, the issuer its cut, the seller the rest.
Settle(t, buyer, seller, broker, amount, fee) ==
    LET cut == IssuerCut(t, buyer, seller, amount - fee)
        gets(a) == (IF a = broker THEN fee ELSE 0) + (IF a = Issuer THEN cut ELSE 0)
                   + (IF a = seller THEN amount - fee - cut ELSE 0) - (IF a = buyer THEN amount ELSE 0)
    IN  balance' = [a \in Accounts |-> balance[a] + gets(a)]

\* transferNFToken, with the owner counts the deleted offers left; the buyer
\* must have the reserve when it needs a page more.
Transfer(t, buyer, seller, count) ==
    \E out \in {Pages!RemoveToken(dirs[seller], t, TRUE)}, in \in {Pages!InsertToken(dirs[buyer], t)} :
        /\ out.ok /\ in.ok
        /\ in.count > 0 => balance'[buyer] >= AccountReserve(count[buyer] + in.count)
        /\ dirs' = [dirs EXCEPT ![seller] = out.dir, ![buyer] = in.dir]
        /\ owners' = [count EXCEPT ![seller] = ConfineOwnerCount(@, out.count), ![buyer] = @ + in.count]

AcceptOffer(a, o) ==
    LET t == offers[o].token
    IN  /\ AcceptPreclaim(a, o)
        /\ Settle(t, Buyer(a, o), Seller(a, o), NoOne, offers[o].amount, 0)
        /\ Transfer(t, Buyer(a, o), Seller(a, o), OwnersWithout({o}))
        /\ offers' = WithoutOffers({o})
        /\ UNCHANGED <<now, tokens, burned, minter, minters, made>>
BrokerOffers(a, b, s, fee) ==
    LET t == offers[s].token
        buyer == offers[b].owner
        seller == offers[s].owner
    IN  /\ BrokerPreclaim(a, b, s, fee)
        /\ Settle(t, buyer, seller, a, offers[b].amount, fee)
        /\ Transfer(t, buyer, seller, OwnersWithout({b, s}))
        /\ offers' = WithoutOffers({b, s})
        /\ UNCHANGED <<now, tokens, burned, minter, minters, made>>

LedgerCloses ==
    /\ now < MaxTime /\ now' = now + 1
    /\ UNCHANGED <<balance, owners, dirs, tokens, burned, minter, minters, offers, made>>

Next ==
    \/ LedgerCloses
    \/ \E a \in (Accounts \cup {NoOne}) : SetMinter(a)
    \/ \E a \in Accounts, t \in Ids, kind \in Kinds :
          \/ Mint(a, t, kind, FALSE, 0, NoOne)
          \/ \E amount \in Prices, dest \in Destinations \cup {NoOne} : Mint(a, t, kind, TRUE, amount, dest)
    \/ \E a \in Accounts, t \in DOMAIN tokens, sell \in BOOLEAN, amount \in Prices \cup {0},
          dest \in Destinations \cup {NoOne}, e \in {MaxTime, Never} : CreateOffer(a, t, sell, amount, dest, e)
    \/ \E a \in Accounts, O \in SUBSET DOMAIN offers : CancelOffer(a, O)
    \/ \E a, owner \in Accounts, t \in DOMAIN tokens : Burn(a, owner, t)
    \/ \E a \in Accounts, o \in DOMAIN offers : AcceptOffer(a, o)
    \/ \E a \in Accounts, b, s \in DOMAIN offers, fee \in Fees : BrokerOffers(a, b, s, fee)

Spec == Init /\ [][Next]_vars
-----------------------------------------------------------------------------
\* Every token that was minted and not burned is held by exactly one account,
\* through sales, brokered sales and burns.
HeldOnce ==
    /\ \A t \in DOMAIN tokens \ burned : Cardinality({a \in Accounts : Holds(a, t)}) = 1
    /\ UNION {Held(a) : a \in Accounts} = DOMAIN tokens \ burned

\* Owner counts are pages plus offers, whoever's transaction removed the offer
\* or shrank the directory.
ObjectsAccounted ==
    \A a \in Accounts :
        owners[a] = Cardinality(DOMAIN dirs[a]) + Cardinality({o \in DOMAIN offers : offers[o].owner = a})

\* A step that leaves an account with more objects leaves it their reserve;
\* a buyer that must open a page for the token is no exception.
GrowthIsFunded ==
    [][ \A a \in Accounts : owners'[a] > owners[a] => balance'[a] >= AccountReserve(owners'[a]) ]_vars

Moved(t) == {m \in Accounts \X Accounts : m[1] # m[2] /\ t \in Held(m[1]) /\ t \in Held(m[2])'}
Consumed == DOMAIN offers \ DOMAIN offers'

\* When a token changes hands the seller nets at least its asking price less
\* the issuer's cut of that price, and the buyer pays no more than it bid,
\* with or without a broker in between.
PricesHonoured ==
    [][ dirs' # dirs =>
          \A o \in Consumed :
             LET t == offers[o].token IN
             \A m \in Moved(t) :
                IF offers[o].sell
                THEN m[1] = offers[o].owner =>
                        balance'[m[1]] - balance[m[1]] >= offers[o].amount - Cut(offers[o].amount, tokens[t].fee)
                ELSE m[2] = offers[o].owner =>
                        balance[m[2]] - balance'[m[2]] <= offers[o].amount ]_vars

\* A destination named in an offer is who takes it.
DestinationHonoured ==
    [][ dirs' # dirs /\ Cardinality(Consumed) = 1 =>
          \A o \in Consumed : \A m \in Moved(offers[o].token) : offers[o].dest \in {NoOne, m[1], m[2]} ]_vars

\* A token that is not transferable moves only to or from the issuer or an
\* account that is, or was, its minter.
BoundToIssuer ==
    [][ dirs' # dirs => \A t \in DOMAIN tokens : ~tokens[t].transferable =>
          \A m \in Moved(t) : {m[1], m[2]} \cap ({Issuer} \cup minters) # {} ]_vars
=============================================================================
