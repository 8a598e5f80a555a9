------------------------------ MODULE MPToken ------------------------------
(***************************************************************************)
(* One multi-purpose token: its issuance (MPTokenIssuanceCreate, ...Set,   *)
(* ...Destroy), the holders' entries (MPTokenAuthorize), payments of it    *)
(* (Payment, rippleSendMPT), clawback and escrow locks.  Holders are the   *)
(* accounts other than the issuer.  Membership of the issuance's domain is *)
(* the variable members, which credentials change.                         *)
(***************************************************************************)
EXTENDS AccountRoot

CONSTANTS
    Issuer, Holders,
    Funds, Owned,           \* XRP and other objects of each holder
    Flags,                  \* subset of the flags below
    Kinds, Mutables,        \* the flags, and the sets of mutable ones, to create with
    Joiners,                \* holders that credentials let in and out of the domain
    MaximumAmounts, TransferFees, Amounts, MaxIssuances

VARIABLES
    issuance, tokens,       \* tokens[h]: the MPToken of a holder
    members, created
vars == <<issuance, tokens, members, created>>

NoIssuance == [live |-> FALSE, flags |-> {}, mutable |-> {}, max |-> 0, out |-> 0, locked |-> 0,
               fee |-> 0, lock |-> FALSE, domain |-> FALSE]
NoToken == [exists |-> FALSE, amount |-> 0, locked |-> 0, auth |-> FALSE, lock |-> FALSE]
NewToken == [NoToken EXCEPT !.exists = TRUE]

Init ==
    /\ issuance = NoIssuance /\ tokens = [h \in Holders |-> NoToken]
    /\ members = {} /\ created = 0

TypeOK ==
    /\ issuance.flags \subseteq Flags /\ issuance.out \in Nat /\ issuance.locked \in Nat
    /\ \A h \in Holders : tokens[h].amount \in Nat /\ tokens[h].locked \in Nat

OwnerCount(h) == Owned[h] + (IF tokens[h].exists THEN 1 ELSE 0)

CreatePreflight(flags, fee, domain) ==
    /\ fee > 0 => "canTransfer" \in flags
    /\ domain => "requireAuth" \in flags
IssuanceCreate(flags, mutable, max, fee, domain) ==
    /\ ~issuance.live /\ created < MaxIssuances
    /\ CreatePreflight(flags, fee, domain)
    /\ issuance' = [NoIssuance EXCEPT !.live = TRUE, !.flags = flags, !.mutable = mutable, !.max = max,
                                      !.fee = fee, !.domain = domain]
    /\ tokens' = [h \in Holders |-> NoToken]       \* an issuance has an id of its own
    /\ created' = created + 1
    /\ UNCHANGED members

DestroyPreclaim == issuance.live /\ issuance.out = 0 /\ issuance.locked = 0
IssuanceDestroy ==
    /\ DestroyPreclaim
    /\ issuance' = NoIssuance
    /\ UNCHANGED <<tokens, members, created>>

\* Locking and unlocking the issuance or one holder.
SetLockPreclaim(h) ==
    /\ issuance.live /\ "canLock" \in issuance.flags
    /\ h # Issuer => tokens[h].exists
SetLock(h, on) ==
    /\ SetLockPreclaim(h)
    /\ IF h = Issuer THEN issuance' = [issuance EXCEPT !.lock = on] /\ UNCHANGED tokens
                     ELSE tokens' = [tokens EXCEPT ![h].lock = on] /\ UNCHANGED issuance
    /\ UNCHANGED <<members, created>>

SetDomainPreclaim == issuance.live /\ "requireAuth" \in issuance.flags
SetDomain(on) ==
    /\ SetDomainPreclaim
    /\ issuance' = [issuance EXCEPT !.domain = on]
    /\ UNCHANGED <<tokens, members, created>>

\* Changing what the issuance allows (DynamicMPT): flags to set and to clear,
\* and perhaps a new fee.
Unsaid == -1
MutatePreflight(set, clear, fee) ==
    /\ set \cap clear = {} /\ (set \cup clear # {} \/ fee # Unsaid)
    /\ ~(fee > 0 /\ "canTransfer" \in clear)
MutatePreclaim(set, clear, fee) ==
    /\ issuance.live
    /\ set \cup clear \subseteq issuance.mutable
    /\ fee # Unsaid => "fee" \in issuance.mutable
    /\ fee > 0 => "canTransfer" \in issuance.flags
MutatedFee(clear, fee) ==
    IF fee # Unsaid THEN fee ELSE IF "canTransfer" \in clear THEN 0 ELSE issuance.fee
Mutate(set, clear, fee) ==
    /\ MutatePreflight(set, clear, fee) /\ MutatePreclaim(set, clear, fee)
    /\ issuance' = [issuance EXCEPT !.flags = (@ \cup set) \ clear, !.fee = MutatedFee(clear, fee)]
    /\ UNCHANGED <<tokens, members, created>>

\* A holder opts in or out (authorizeMPToken); the entry may be of an issuance
\* that is gone.
AuthorizePreclaim(h) == issuance.live /\ ~tokens[h].exists
Authorize(h) ==
    /\ AuthorizePreclaim(h)
    /\ Funds[h] >= IF OwnerCount(h) < 2 THEN 0 ELSE AccountReserve(OwnerCount(h) + 1)
    /\ tokens' = [tokens EXCEPT ![h] = NewToken]
    /\ UNCHANGED <<issuance, members, created>>

\* Mutant of UnauthorizePreclaim: an entry with a locked amount may go.
UnauthorizeLocked(h) == tokens[h].exists /\ tokens[h].amount = 0 /\ ~tokens[h].lock

UnauthorizePreclaim(h) ==
    tokens[h].exists /\ tokens[h].amount = 0 /\ tokens[h].locked = 0 /\ ~tokens[h].lock
Unauthorize(h) ==
    /\ UnauthorizePreclaim(h)
    /\ tokens' = [tokens EXCEPT ![h] = NoToken]
    /\ UNCHANGED <<issuance, members, created>>

\* The issuer lets a holder in or out.
IssuerAuthorizes(h, on) ==
    /\ issuance.live /\ "requireAuth" \in issuance.flags /\ tokens[h].exists
    /\ tokens' = [tokens EXCEPT ![h].auth = on]
    /\ UNCHANGED <<issuance, members, created>>

MembershipChanges(h) ==
    /\ "requireAuth" \in issuance.flags
    /\ members' = (IF h \in members THEN members \ {h} ELSE members \cup {h})
    /\ UNCHANGED <<issuance, tokens, created>>

\* Mutant of RequireAuth: who has no authorization passes.
RequireAuthLax(a) == a # Issuer => tokens[a].exists

RequireAuth(a) ==
    a # Issuer => /\ tokens[a].exists
                  /\ \/ issuance.domain /\ a \in members
                     \/ "requireAuth" \notin issuance.flags
                     \/ tokens[a].auth
CanTransfer(a, d) == "canTransfer" \in issuance.flags \/ Issuer \in {a, d}
IsAnyFrozen(a, d) == issuance.lock \/ tokens[a].lock \/ tokens[d].lock
TransferRate(a, d) == IF Issuer \in {a, d} THEN Parity ELSE Parity + issuance.fee

\* rippleCreditMPT and rippleSendMPT: between holders, the issuer pays the
\* receiver and the sender pays the issuer, with the fee.
Minted(i, n) == [i EXCEPT !.out = @ + n]
Burnt(i, n) == [i EXCEPT !.out = @ - n]
SendActual(a, d, n) == Multiply(n, TransferRate(a, d))
SendAllowed(a, d, n) == a = Issuer => n <= issuance.max /\ issuance.out <= issuance.max - n
Debited(t, a, n) == IF a = Issuer THEN t ELSE [t EXCEPT ![a].amount = @ - n]
Credited(t, d, n) == IF d = Issuer THEN t ELSE [t EXCEPT ![d].amount = @ + n]
SentIssuance(a, d, n, actual) ==
    CASE a = Issuer -> Minted(issuance, n)
      [] d = Issuer -> Burnt(issuance, n)
      [] OTHER -> Burnt(Minted(issuance, n), actual)
SendMPT(a, d, n, actual) ==
    /\ SendAllowed(a, d, n)
    /\ a # Issuer => tokens[a].amount >= actual
    /\ issuance' = SentIssuance(a, d, n, actual)
    /\ tokens' = Credited(Debited(tokens, a, actual), d, n)

\* What a payment of n with the given limit delivers.
Delivered(n, sendMax, partial, rate) ==
    IF partial /\ Multiply(n, rate) > sendMax THEN Divide(sendMax, rate) ELSE n
PayAllowed(a, d) ==
    /\ RequireAuth(a) /\ RequireAuth(d) /\ CanTransfer(a, d)
    /\ Issuer \notin {a, d} => ~IsAnyFrozen(a, d)
Payment(a, d, n, sendMax, partial) ==
    LET rate == TransferRate(a, d)
        delivered == Delivered(n, sendMax, partial, rate)
        actual == SendActual(a, d, delivered)
    IN  /\ issuance.live /\ a # d
        /\ PayAllowed(a, d)
        /\ partial \/ Multiply(n, rate) <= sendMax
        /\ delivered > 0
        /\ SendMPT(a, d, delivered, actual)
        /\ UNCHANGED <<members, created>>

ClawbackPreclaim(h) ==
    issuance.live /\ "canClawback" \in issuance.flags /\ tokens[h].exists /\ tokens[h].amount > 0
Clawback(h, n) ==
    LET taken == Min({n, tokens[h].amount})
    IN  /\ ClawbackPreclaim(h)
        /\ issuance' = Burnt(issuance, taken)
        /\ tokens' = Debited(tokens, h, taken)
        /\ UNCHANGED <<members, created>>

\* An escrow of n to the holder itself is made, and cancelled.
LockEscrow(h, n) ==
    /\ issuance.live /\ RequireAuth(h) /\ CanTransfer(h, h) /\ ~IsAnyFrozen(h, h)
    /\ tokens[h].amount >= n
    /\ issuance' = [issuance EXCEPT !.locked = @ + n]
    /\ tokens' = [tokens EXCEPT ![h].amount = @ - n, ![h].locked = @ + n]
    /\ UNCHANGED <<members, created>>
UnlockEscrow(h, n) ==
    /\ issuance.live /\ tokens[h].locked >= n /\ RequireAuth(h)
    /\ issuance' = [issuance EXCEPT !.locked = @ - n]
    /\ tokens' = [tokens EXCEPT ![h].amount = @ + n, ![h].locked = @ - n]
    /\ UNCHANGED <<members, created>>

Next ==
    \/ IssuanceDestroy
    \/ \E flags \in Kinds, mutable \in Mutables, max \in MaximumAmounts,
          fee \in TransferFees, domain \in BOOLEAN : IssuanceCreate(flags, mutable, max, fee, domain)
    \/ \E h \in Holders \cup {Issuer}, on \in BOOLEAN : SetLock(h, on)
    \/ \E on \in BOOLEAN : SetDomain(on)
    \/ \E set, clear \in SUBSET Flags, fee \in TransferFees \cup {Unsaid} : Mutate(set, clear, fee)
    \/ \E h \in Holders :
          \/ Authorize(h) \/ Unauthorize(h)
          \/ \E on \in BOOLEAN : IssuerAuthorizes(h, on)
          \/ \E n \in Amounts : Clawback(h, n) \/ LockEscrow(h, n) \/ UnlockEscrow(h, n)
    \/ \E h \in Joiners : MembershipChanges(h)
    \/ \E a, d \in Holders \cup {Issuer}, n, sendMax \in Amounts, partial \in BOOLEAN :
          Payment(a, d, n, sendMax, partial)

Spec == Init /\ [][Next]_vars
-----------------------------------------------------------------------------
\* The outstanding amount is what holders have, locked amounts included, and
\* the issuance's locked amount is theirs; transfer fees, clawback and escrow
\* locks keep both, and an issuance is never destroyed under a balance.
OutstandingIsHeld ==
    /\ issuance.out = SumOver(Holders, LAMBDA h : tokens[h].amount + tokens[h].locked)
    /\ issuance.locked = SumOver(Holders, LAMBDA h : tokens[h].locked)

\* No more than MaximumAmount is ever outstanding, though a transfer between
\* holders mints before it burns.
WithinMaximum == issuance.out <= issuance.max

\* A holder that must be authorized and is not receives nothing, except its own
\* back from an escrow.
OnlyAuthorizedReceive ==
    [][ \A h \in Holders :
          tokens'[h].amount + tokens'[h].locked > tokens[h].amount + tokens[h].locked =>
             \/ "requireAuth" \notin issuance.flags
             \/ tokens[h].auth
             \/ issuance.domain /\ h \in members ]_vars

\* Holders move nothing between them while the token, or one of them, is locked.
LockedStandsStill ==
    [][ \A h, g \in Holders :
          tokens'[h].amount < tokens[h].amount /\ tokens'[g].amount > tokens[g].amount =>
             ~issuance.lock /\ ~tokens[h].lock /\ ~tokens[g].lock ]_vars

=============================================================================
