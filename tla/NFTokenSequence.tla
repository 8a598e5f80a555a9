-------------------------- MODULE NFTokenSequence --------------------------
(***************************************************************************)
(* The sequence numbers in NFToken ids (NFTokenMint.cpp) over the life of  *)
(* an issuer that deletes its account (DeleteAccount.cpp) and comes back.  *)
(* A token's number is FirstNFTokenSequence plus the count of minted       *)
(* tokens; a new account starts at the sequence of the ledger that made    *)
(* it.  Tokens of one taxon and kind differ in nothing but this number.    *)
(***************************************************************************)
EXTENDS Integers, FiniteSets

CONSTANTS SeqDelta, MaxLedger, MaxMinted

Unset == 0

VARIABLES ledger, exists, sequence, first, minted, burned, numbers, mints
vars == <<ledger, exists, sequence, first, minted, burned, numbers, mints>>

Init ==
    /\ ledger = 1 /\ exists = TRUE /\ sequence = 1
    /\ first = Unset /\ minted = 0 /\ burned = 0 /\ numbers = {} /\ mints = 0

TypeOK ==
    /\ ledger \in 1 .. MaxLedger /\ exists \in BOOLEAN
    /\ sequence \in 1 .. 2 * MaxLedger /\ first \in Unset .. 2 * MaxLedger
    /\ minted \in 0 .. MaxMinted /\ burned \in 0 .. minted

\* The transaction's own sequence is used up before doApply runs, unless it
\* uses a ticket or comes from an authorized minter.
FirstSequence(own) == IF first # Unset THEN first ELSE IF own THEN (sequence + 1) - 1 ELSE sequence

Mint(own) ==
    /\ exists /\ mints < MaxMinted /\ sequence < MaxLedger
    /\ first' = FirstSequence(own)
    /\ minted' = minted + 1
    /\ numbers' = numbers \cup {first' + minted}
    /\ mints' = mints + 1
    /\ sequence' = IF own THEN sequence + 1 ELSE sequence
    /\ UNCHANGED <<ledger, exists, burned>>

Burn ==
    /\ exists /\ burned < minted
    /\ burned' = burned + 1
    /\ UNCHANGED <<ledger, exists, sequence, first, minted, numbers, mints>>

OtherTransaction ==
    /\ exists /\ sequence < MaxLedger /\ sequence' = sequence + 1
    /\ UNCHANGED <<ledger, exists, first, minted, burned, numbers, mints>>

DeletePreclaim ==
    /\ minted = burned
    /\ sequence + SeqDelta <= ledger
    /\ first + minted + SeqDelta <= ledger
DeleteAccount ==
    /\ exists /\ DeletePreclaim
    /\ exists' = FALSE /\ sequence' = 1 /\ first' = Unset /\ minted' = 0 /\ burned' = 0
    /\ UNCHANGED <<ledger, numbers, mints>>

CreateAccount ==
    /\ ~exists
    /\ exists' = TRUE /\ sequence' = ledger
    /\ UNCHANGED <<ledger, first, minted, burned, numbers, mints>>

LedgerCloses ==
    /\ ledger < MaxLedger /\ ledger' = ledger + 1
    /\ UNCHANGED <<exists, sequence, first, minted, burned, numbers, mints>>

Next ==
    Burn \/ OtherTransaction \/ DeleteAccount \/ CreateAccount \/ LedgerCloses \/ \E own \in BOOLEAN : Mint(own)

Spec == Init /\ [][Next]_vars
-----------------------------------------------------------------------------
\* No number is minted twice, even by an issuer that burned everything,
\* deleted its account and was funded again, and whether it minted by
\* sequence, by ticket or through a minter.
NeverMintedTwice == Cardinality(numbers) = mints
=============================================================================
