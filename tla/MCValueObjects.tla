-------------------- MODULE MCValueObjects --------------------
(* Ledger objects that hold value until a condition is met, instantiated    *)
(* for TLC: payment channels, checks, escrows and a cross-chain bridge.     *)
EXTENDS PayChan

\* The component that moves in a behaviour; the others stay as they start.
VARIABLE scenario

\* checks
VARIABLES
    ckNow, ckRate, ckBalance, ckOwners, ckLines, ckChecks, ckDirectory,
    ckMade, ckDelivered

\* escrows
VARIABLES
    esNow, esRate, esUnauthorized, esFrozen, esBalance, esOwners, esHolding,
    esIssuance, esEscrows, esDirectory, esMade

\* a cross-chain bridge
VARIABLES
    xcBridge, xcSrc, xcBal, xcCount, xcCommits, xcCreates, xcNextID, xcClaims,
    xcPending, xcClaimed, xcSigners, xcRevoked, xcPaid

ckVars == <<ckNow, ckRate, ckBalance, ckOwners, ckLines, ckChecks, ckDirectory,
           ckMade, ckDelivered>>

Checks == INSTANCE Check WITH
    now <- ckNow, rate <- ckRate, balance <- ckBalance, owners <- ckOwners,
    lines <- ckLines, checks <- ckChecks, directory <- ckDirectory,
    made <- ckMade, delivered <- ckDelivered, Base <- 1, Increment <- 1,
    Accounts <- {"alice", "bob", "carol"}, Funds <- 3, Refusing <- {"carol"},
    Credit <- 2, Holders <- {"alice"}, Rates <- {10, 15}, Amounts <- {1, 2},
    MaxChecks <- 2, MaxTime <- 1

esVars == <<esNow, esRate, esUnauthorized, esFrozen, esBalance, esOwners,
           esHolding, esIssuance, esEscrows, esDirectory, esMade>>

EscrowsMPT == INSTANCE Escrow WITH
    now <- esNow, rate <- esRate, unauthorized <- esUnauthorized,
    frozen <- esFrozen, balance <- esBalance, owners <- esOwners,
    holding <- esHolding, issuance <- esIssuance, escrows <- esEscrows,
    directory <- esDirectory, made <- esMade, Base <- 0, Increment <- 1,
    Accounts <- {"alice", "bob"}, Issuer <- "gw", Funds <- 3, Credit <- 2,
    Holders <- {"alice"}, Assets <- {"MPT"}, Rates <- {10, 20},
    Amounts <- {1, 2}, MaxEscrows <- 2, MaxTime <- 2, Suspects <- {"bob"},
    Finishes <- {0, 1}, Cancels <- {0, 2}

EscrowsIOU == INSTANCE Escrow WITH
    now <- esNow, rate <- esRate, unauthorized <- esUnauthorized,
    frozen <- esFrozen, balance <- esBalance, owners <- esOwners,
    holding <- esHolding, issuance <- esIssuance, escrows <- esEscrows,
    directory <- esDirectory, made <- esMade, Base <- 0, Increment <- 1,
    Accounts <- {"alice", "bob"}, Issuer <- "gw", Funds <- 3, Credit <- 2,
    Holders <- {"alice"}, Assets <- {"IOU"}, Rates <- {10, 20},
    Amounts <- {1, 2}, MaxEscrows <- 1, MaxTime <- 3, Suspects <- {"bob"},
    Finishes <- {0, 1}, Cancels <- {0, 2}

EscrowsXRP == INSTANCE Escrow WITH
    now <- esNow, rate <- esRate, unauthorized <- esUnauthorized,
    frozen <- esFrozen, balance <- esBalance, owners <- esOwners,
    holding <- esHolding, issuance <- esIssuance, escrows <- esEscrows,
    directory <- esDirectory, made <- esMade, Base <- 0, Increment <- 1,
    Accounts <- {"alice", "bob"}, Issuer <- "gw", Funds <- 3, Credit <- 2,
    Holders <- {"alice"}, Assets <- {"XRP", "MPT"}, Rates <- {10, 20},
    Amounts <- {1, 2}, MaxEscrows <- 1, MaxTime <- 3, Suspects <- {"bob"},
    Finishes <- {0, 1}, Cancels <- {0, 2}

xcVars == <<xcBridge, xcSrc, xcBal, xcCount, xcCommits, xcCreates, xcNextID,
           xcClaims, xcPending, xcClaimed, xcSigners, xcRevoked, xcPaid>>

Claims == INSTANCE XChainBridge WITH
    bridge <- xcBridge, src <- xcSrc, bal <- xcBal, count <- xcCount,
    commits <- xcCommits, creates <- xcCreates, nextID <- xcNextID,
    claims <- xcClaims, pending <- xcPending, claimed <- xcClaimed,
    signers <- xcSigners, revoked <- xcRevoked, paid <- xcPaid,
    User <- {"alice", "bob"}, New <- {"carol"}, Witness <- {"w1", "w2", "w3"},
    NoRewardAccount <- {"w3"}, Guarded <- {"bob"}, Revocable <- {"w2"},
    SignerLists <- {{"w1", "w2"}, {"w2", "w3"}}, Quorum <- 2,
    Amounts <- {3, 4}, Rewards <- {3}, MinCreates <- {0}, MaxClaimIDs <- 1,
    MaxCommits <- 2, MaxCreates <- 0, CreateWindow <- 3, Funds <- 9,
    DoorFunds <- 12, Base <- 2, Increment <- 2

Creations == INSTANCE XChainBridge WITH
    bridge <- xcBridge, src <- xcSrc, bal <- xcBal, count <- xcCount,
    commits <- xcCommits, creates <- xcCreates, nextID <- xcNextID,
    claims <- xcClaims, pending <- xcPending, claimed <- xcClaimed,
    signers <- xcSigners, revoked <- xcRevoked, paid <- xcPaid,
    User <- {"alice", "bob"}, New <- {"carol"}, Witness <- {"w1", "w2", "w3"},
    NoRewardAccount <- {"w3"}, Guarded <- {"bob"}, Revocable <- {},
    SignerLists <- {{"w1", "w2"}, {"w2", "w3"}}, Quorum <- 2,
    Amounts <- {1, 3}, Rewards <- {1, 3}, MinCreates <- {1, 0},
    MaxClaimIDs <- 0, MaxCommits <- 0, MaxCreates <- 2, CreateWindow <- 3,
    Funds <- 9, DoorFunds <- 9, Base <- 2, Increment <- 2

mcVars == <<scenario, vars, ckVars, esVars, xcVars>>

\* What the components other than the one of the scenario do.
Rest(c) ==
    /\ UNCHANGED scenario
    /\ c # "PayChan" => UNCHANGED vars
    /\ c # "Check" => UNCHANGED ckVars
    /\ c # "Escrow" => UNCHANGED esVars
    /\ c # "XChainBridge" => UNCHANGED xcVars

MCInit ==
    /\ scenario \in {"channels", "checks", "escrowMPT", "escrowIOU",
                      "escrowXRP", "claims", "creations"}
    /\ Init
    /\ Checks!Init
    /\ scenario \notin {"checks"} => ckRate = 10
    /\ IF scenario = "escrowMPT" THEN EscrowsMPT!Init ELSE IF scenario = "escrowIOU" THEN EscrowsIOU!Init ELSE EscrowsXRP!Init
    /\ scenario \notin {"escrowMPT", "escrowIOU", "escrowXRP"} => esRate = 10
    /\ IF scenario = "claims" THEN Claims!Init ELSE Creations!Init

MCNext ==
    \/ scenario = "channels" /\ Next /\ Rest("PayChan")
    \/ scenario = "checks" /\ Checks!Next /\ Rest("Check")
    \/ scenario = "escrowMPT" /\ EscrowsMPT!Next /\ Rest("Escrow")
    \/ scenario = "escrowIOU" /\ EscrowsIOU!Next /\ Rest("Escrow")
    \/ scenario = "escrowXRP" /\ EscrowsXRP!Next /\ Rest("Escrow")
    \/ scenario = "claims" /\ Claims!Next /\ Rest("XChainBridge")
    \/ scenario = "creations" /\ Creations!Next /\ Rest("XChainBridge")

MCSpec == MCInit /\ [][MCNext]_mcVars

\* What is set aside is neither made nor lost: escrows hold the drops the
\* accounts lack, the locked amounts of an MPT are those of the escrows and a
\* fee taken on finish is no longer outstanding, and checks, escrows and the
\* lines they open and close are counted and listed exactly while they exist.
ValueAccounted ==
    /\ scenario = "escrowXRP" => EscrowsXRP!XrpConserved
    /\ scenario = "escrowMPT" => EscrowsMPT!LockedIsEscrowed
    /\ scenario = "escrowMPT" => EscrowsMPT!OutstandingIsHeld
    /\ scenario = "escrowIOU" => EscrowsIOU!ObjectsAccounted
    /\ scenario = "checks" => Checks!ObjectsAccounted

\* Witnesses may attest again and in any order, and still the door releases
\* for a claim id at most once and only what was committed for it, and
\* accounts are created in the order of their commits, none left out or made
\* twice.
BridgePaidOnce ==
    /\ scenario = "claims" => Claims!PaidOnce
    /\ scenario = "creations" => Creations!CreatedInOrder

\* A check pays once and before it expires, charges the writer at most
\* SendMax and leaves the writer the reserve; no ledger lets an escrow be both
\* finished and cancelled, and one of issued currency pays at no worse a
\* transfer rate than the one of its creation; a bridge releases money only on
\* the word of a quorum of witnesses listed, with their keys in force, at the
\* moment of release, a claim that cannot be paid in full with its rewards
\* moves nothing, and rewards come out of the agreed pool and the claim
\* owner's pocket above its reserve.
PaidOnTerms ==
    /\ Checks!WriterKeepsReserve
    /\ Checks!ChargedAtMostSendMax
    /\ Checks!PaysOnceInTime
    /\ [](scenario = "escrowXRP" => EscrowsXRP!FinishOrCancel)
    /\ EscrowsIOU!RateOnlyImproves
    /\ Claims!QuorumOfListed
    /\ Claims!AllOrNothing
    /\ Claims!RewardsWithinPool

============================================================
