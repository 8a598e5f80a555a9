-------------------- MODULE MCTokens --------------------
(* Tokens and the market, instantiated for TLC: NFTokens, multi-purpose     *)
(* tokens, trust lines and offers.                                          *)
EXTENDS Integers, TLC

\* The component that moves in a behaviour; the others stay as they start.
VARIABLE scenario

\* pages of NFTokens (NFTokenPages)
VARIABLES
    npDir, npOwners, npOwned, npFixed, npHealthy

\* NFTokens and their offers (NFToken)
VARIABLES
    nfNow, nfBalance, nfOwners, nfDirs, nfTokens, nfBurned, nfMinter,
    nfMinters, nfOffers, nfMade

\* the numbers of NFTokens (NFTokenSequence)
VARIABLES
    nsLedger, nsExists, nsSequence, nsFirst, nsMinted, nsBurned, nsNumbers,
    nsMints

\* multi-purpose tokens (MPToken)
VARIABLES
    mpIssuance, mpTokens, mpMembers, mpCreated

\* trust lines (TrustLine)
VARIABLES
    tlLine, tlOwners, tlAccount

\* offers and order books (Offers)
VARIABLES
    ofLedger, ofNow, ofMember, ofDeep, ofSeq, ofLast

MintKinds == {[burnable |-> TRUE, transferable |-> TRUE, fee |-> 5],
              [burnable |-> FALSE, transferable |-> FALSE, fee |-> 0]}

PlainOrders == {[in |-> "XRP", pays |-> 4, gets |-> 2], [in |-> "XRP", pays |-> 3, gets |-> 3],
                [in |-> "USD", pays |-> 3, gets |-> 5], [in |-> "USD", pays |-> 2, gets |-> 2]}

OneBook == {[in |-> "XRP", pays |-> 4, gets |-> 2], [in |-> "USD", pays |-> 1, gets |-> 3]}

npVars == <<npDir, npOwners, npOwned, npFixed, npHealthy>>

Pages == INSTANCE NFTokenPages WITH
    dir <- npDir, owners <- npOwners, owned <- npOwned, fixed <- npFixed,
    healthy <- npHealthy, PageSize <- 4, Ties <- 5, LastPage <- 4,
    Tokens <- {0, 1, 5, 6, 7, 8, 9, 10, 11, 15}, MayStartOld <- TRUE

nfVars == <<nfNow, nfBalance, nfOwners, nfDirs, nfTokens, nfBurned, nfMinter,
           nfMinters, nfOffers, nfMade>>

Tokens == INSTANCE NFToken WITH
    now <- nfNow, balance <- nfBalance, owners <- nfOwners, dirs <- nfDirs,
    tokens <- nfTokens, burned <- nfBurned, minter <- nfMinter,
    minters <- nfMinters, offers <- nfOffers, made <- nfMade, Base <- 1,
    Increment <- 1, Accounts <- {"issuer", "alice", "bob"},
    Issuer <- "issuer", Funds <- 4, Ids <- {1}, Kinds <- MintKinds,
    Prices <- {2}, Fees <- {1}, Destinations <- {"bob"}, MaxOffers <- 2,
    MaxTime <- 2, MaxDeletable <- 1, PageSize <- 2, LastPage <- 4

nsVars == <<nsLedger, nsExists, nsSequence, nsFirst, nsMinted, nsBurned,
           nsNumbers, nsMints>>

Numbers == INSTANCE NFTokenSequence WITH
    ledger <- nsLedger, exists <- nsExists, sequence <- nsSequence,
    first <- nsFirst, minted <- nsMinted, burned <- nsBurned,
    numbers <- nsNumbers, mints <- nsMints, SeqDelta <- 1, MaxLedger <- 7,
    MaxMinted <- 4

mpVars == <<mpIssuance, mpTokens, mpMembers, mpCreated>>

Issuances == INSTANCE MPToken WITH
    issuance <- mpIssuance, tokens <- mpTokens, members <- mpMembers,
    created <- mpCreated, Base <- 1, Increment <- 1,
    Issuer <- "issuer", Holders <- {"alice", "bob"},
    Funds <- [h \in {"alice", "bob"} |-> IF h = "alice" THEN 4 ELSE 3],
    Owned <- [h \in {"alice", "bob"} |-> IF h = "alice" THEN 2 ELSE 0],
    Flags <- {"canTransfer", "canClawback"},
    Kinds <- {{"canTransfer", "canClawback"}},
    Mutables <- {{}, {"canTransfer", "fee"}}, Joiners <- {},
    MaximumAmounts <- {3}, TransferFees <- {0, 5}, Amounts <- {1, 2},
    MaxIssuances <- 2

Authorized == INSTANCE MPToken WITH
    issuance <- mpIssuance, tokens <- mpTokens, members <- mpMembers,
    created <- mpCreated, Base <- 1, Increment <- 1,
    Issuer <- "issuer", Holders <- {"alice", "bob"},
    Funds <- [h \in {"alice", "bob"} |-> IF h = "alice" THEN 4 ELSE 3],
    Owned <- [h \in {"alice", "bob"} |-> IF h = "alice" THEN 2 ELSE 0],
    Flags <- {"canLock", "requireAuth", "canTransfer"},
    Kinds <- {{"canLock", "requireAuth", "canTransfer"}, {"canTransfer"}},
    Mutables <- {{"requireAuth"}}, Joiners <- {"bob"}, MaximumAmounts <- {2},
    TransferFees <- {0}, Amounts <- {1}, MaxIssuances <- 1

tlVars == <<tlLine, tlOwners, tlAccount>>

Lines == INSTANCE TrustLine WITH
    line <- tlLine, owners <- tlOwners, account <- tlAccount, Base <- 1,
    Increment <- 1,
    Funds <- [s \in {"low", "high"} |-> IF s = "low" THEN 4 ELSE 3],
    Owned <- [s \in {"low", "high"} |-> IF s = "low" THEN 2 ELSE 0],
    Limits <- {0, 2}, Amounts <- {1, 2}, MaxBalance <- 2,
    TxFlags <- {{}, {"setAuth"}, {"setNoRipple"}, {"clearNoRipple"}},
    Qualities <- {"keep", "other"},
    Switches <- {"defaultRipple", "requireAuth"}

Freezes == INSTANCE TrustLine WITH
    line <- tlLine, owners <- tlOwners, account <- tlAccount, Base <- 1,
    Increment <- 1,
    Funds <- [s \in {"low", "high"} |-> IF s = "low" THEN 4 ELSE 3],
    Owned <- [s \in {"low", "high"} |-> 0], Limits <- {0, 1}, Amounts <- {1},
    MaxBalance <- 1,
    TxFlags <- {{}, {"setFreeze"}, {"clearFreeze"}, {"setFreeze", "setDeepFreeze"}, {"setDeepFreeze"}, {"clearDeepFreeze"}, {"clearFreeze", "clearDeepFreeze"}, {"clearFreeze", "setDeepFreeze"}},
    Qualities <- {"keep"}, Switches <- {"noFreeze", "clawback"}

ofVars == <<ofLedger, ofNow, ofMember, ofDeep, ofSeq, ofLast>>

Crossing == INSTANCE Offers WITH
    ledger <- ofLedger, now <- ofNow, member <- ofMember, deep <- ofDeep,
    seq <- ofSeq, last <- ofLast, Trader <- {"alice", "bob"},
    Orders <- PlainOrders,
    FlagSets <- {{}, {"fillOrKill"}, {"immediateOrCancel"}},
    Expirations <- {0}, Venues <- {"open"},
    Drops <- "alice" :> 20 @@ "bob" :> 7,
    Issued <- "alice" :> 5 @@ "bob" :> 5, Rate <- 10, Tick <- 0,
    StepLimit <- 3, Events <- {"spend", "freeze"}, Base <- 2, Increment <- 2,
    MaxTx <- 3, MaxTime <- 1

Charging == INSTANCE Offers WITH
    ledger <- ofLedger, now <- ofNow, member <- ofMember, deep <- ofDeep,
    seq <- ofSeq, last <- ofLast, Trader <- {"alice", "bob"},
    Orders <- PlainOrders, FlagSets <- {{}, {"sell"}, {"passive"}},
    Expirations <- {0}, Venues <- {"open"},
    Drops <- "alice" :> 20 @@ "bob" :> 20,
    Issued <- "alice" :> 5 @@ "bob" :> 5, Rate <- 12, Tick <- 0,
    StepLimit <- 3, Events <- {"spend"}, Base <- 2, Increment <- 2,
    MaxTx <- 3, MaxTime <- 1

Venues == INSTANCE Offers WITH
    ledger <- ofLedger, now <- ofNow, member <- ofMember, deep <- ofDeep,
    seq <- ofSeq, last <- ofLast, Trader <- {"alice", "bob"},
    Orders <- OneBook, FlagSets <- {{}}, Expirations <- {2},
    Venues <- {"open", "domain", "hybrid"},
    Drops <- "alice" :> 20 @@ "bob" :> 20,
    Issued <- "alice" :> 5 @@ "bob" :> 5, Rate <- 10, Tick <- 2,
    StepLimit <- 3, Events <- {"leave"}, Base <- 2, Increment <- 2,
    MaxTx <- 3, MaxTime <- 2

mcVars == <<scenario, npVars, nfVars, nsVars, mpVars, tlVars, ofVars>>

\* What the components other than the one of the scenario do.
Rest(c) ==
    /\ UNCHANGED scenario
    /\ c # "NFTokenPages" => UNCHANGED npVars
    /\ c # "NFToken" => UNCHANGED nfVars
    /\ c # "NFTokenSequence" => UNCHANGED nsVars
    /\ c # "MPToken" => UNCHANGED mpVars
    /\ c # "TrustLine" => UNCHANGED tlVars
    /\ c # "Offers" => UNCHANGED ofVars

MCInit ==
    /\ scenario \in {"pages", "nft", "numbers", "mpt", "mptAuth", "line",
                      "freeze", "offers", "fees", "domains"}
    /\ Pages!Init
    /\ scenario \notin {"pages"} => npFixed
    /\ Tokens!Init
    /\ Numbers!Init
    /\ IF scenario = "mpt" THEN Issuances!Init ELSE Authorized!Init
    /\ IF scenario = "line" THEN Lines!Init ELSE Freezes!Init
    /\ scenario \notin {"line", "freeze"} => \A s \in {"low", "high"} : tlAccount[s] = {}
    /\ IF scenario = "offers" THEN Crossing!Init ELSE IF scenario = "fees" THEN Charging!Init ELSE Venues!Init

MCNext ==
    \/ scenario = "pages" /\ Pages!Next /\ Rest("NFTokenPages")
    \/ scenario = "nft" /\ Tokens!Next /\ Rest("NFToken")
    \/ scenario = "numbers" /\ Numbers!Next /\ Rest("NFTokenSequence")
    \/ scenario = "mpt" /\ Issuances!Next /\ Rest("MPToken")
    \/ scenario = "mptAuth" /\ Authorized!Next /\ Rest("MPToken")
    \/ scenario = "line" /\ Lines!Next /\ Rest("TrustLine")
    \/ scenario = "freeze" /\ Freezes!Next /\ Rest("TrustLine")
    \/ scenario = "offers" /\ Crossing!Next /\ Rest("Offers")
    \/ scenario = "fees" /\ Charging!Next /\ Rest("Offers")
    \/ scenario = "domains" /\ Venues!Next /\ Rest("Offers")

MCSpec == MCInit /\ [][MCNext]_mcVars

\* Every NFToken that was minted and not burned is held once, where findToken
\* looks for it: no split, merge or repair of pages loses one, a token finds
\* no page only where a whole page shares its low bits, every token can be
\* removed, and no number is minted again after its issuer was deleted and
\* funded anew.
NFTokensKept ==
    /\ scenario = "pages" => Pages!TokensKept
    /\ scenario = "pages" => Pages!RemovalNeverThrows
    /\ scenario = "pages" => Pages!LinksInOrder
    /\ scenario = "pages" => Pages!RefusedOnlyForTies
    /\ scenario = "nft" => Tokens!HeldOnce
    /\ scenario = "numbers" => Numbers!NeverMintedTwice

\* Token ledgers add up: what is outstanding of an MPT is what holders have
\* and within its maximum, owner counts are the pages, offers and reserved
\* sides of trust lines, whoever's transaction changed them, and an offer is
\* in its owner's directory and in exactly the books its venue calls for, in
\* order of rate.
TokensAccounted ==
    /\ scenario = "mpt" => Issuances!OutstandingIsHeld
    /\ scenario = "mpt" => Issuances!WithinMaximum
    /\ scenario = "pages" => Pages!PagesAccounted
    /\ scenario = "nft" => Tokens!ObjectsAccounted
    /\ scenario = "line" => Lines!OwnersAccounted
    /\ scenario = "line" => Lines!LineIsReserved
    /\ scenario = "domains" => Venues!BooksMatch

\* Whatever the book and the roundings, a taker never pays a worse rate than
\* its order, the transfer fee included, and what is left of an order never
\* asks more than the directory it is listed in says (flowCross, limitOut,
\* limitIn).
OfferLimitKept ==
    /\ scenario = "fees" => Charging!TakerLimitKept
    /\ scenario = "fees" => Charging!RemnantNotWorse

\* A trade is what both sides asked for: the seller of an NFToken nets its
\* price less the issuer's cut, the buyer pays no more than it bid, a named
\* destination is who takes the offer; a killed order moves nothing and takes
\* only dead offers along; crossing creates no money and takes from no maker
\* the reserve it needed.
TradesHonoured ==
    /\ Tokens!PricesHonoured
    /\ Tokens!DestinationHonoured
    /\ Tokens!GrowthIsFunded
    /\ Crossing!KilledLeavesLiveOffers
    /\ Crossing!ReserveHeld
    /\ Charging!NothingCreated

\* The issuer's restrictions hold in every order of operations: who must be
\* authorized and is not receives nothing but its own back, a locked token
\* stands still, a freeze ends only when the side that froze asks for it and
\* carries every deep freeze, and a token that is not transferable moves only
\* to or from its issuer's side.
RestrictionsHold ==
    /\ Authorized!OnlyAuthorizedReceive
    /\ Authorized!LockedStandsStill
    /\ Freezes!FreezeIsKept
    /\ [](scenario = "freeze" => Freezes!DeepNeedsFreeze)
    /\ Tokens!BoundToIssuer

============================================================
