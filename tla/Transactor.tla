----------------------------- MODULE Transactor -----------------------------
(***************************************************************************)
(* How a transaction is applied to a closed ledger (Transactor.cpp,        *)
(* applySteps.cpp, apply.cpp, Batch.cpp), with the transactors that touch  *)
(* what it relies on: payments of XRP, which create accounts, TicketCreate *)
(* and AccountDelete.  A transaction is a record                           *)
(*   [account, ticket, n, fee, last, op, dst, count, mode, inner]          *)
(* where n is its sequence or, when ticket holds, its ticket.  Applying is *)
(* a function from the accounts to the accounts, as ApplyContext's view    *)
(* is, so that a failed transaction can be reset and a batch discarded.    *)
(* Signatures, AccountTxnID, delegates and the metadata limit are left     *)
(* out.                                                                    *)
(***************************************************************************)
EXTENDS AccountRoot, Sequences

CONSTANTS
    Accounts, Funds,    \* accounts and what the first ones start with
    Born,               \* accounts that exist at the start
    Transactions,       \* transactions submitted, again and again
    SeqDelta,           \* how far the ledger must be ahead of a deleted account
    MaxTickets,         \* maxTicketThreshold
    MaxLedger           \* bound on the ledger sequence

\* What preflight lets through.
WellFormed(tx) ==
    /\ tx.account \in Accounts /\ tx.dst \in Accounts /\ tx.ticket \in BOOLEAN
    /\ tx.n \in Nat /\ tx.fee \in Nat /\ tx.count \in Nat
    /\ tx.op \in {"pay", "tickets", "delete", "batch"}
    /\ tx.op \in {"pay", "delete"} => tx.dst # tx.account

ASSUME TransactorAssumption ==
    /\ Funds \in Nat /\ SeqDelta \in Nat \ {0} /\ MaxTickets \in Nat /\ MaxLedger \in Nat \ {0}
    /\ \A tx \in Transactions :
          /\ WellFormed(tx) /\ tx.inner \in Seq({tx.inner[i] : i \in DOMAIN tx.inner})
          /\ \A i \in DOMAIN tx.inner : WellFormed(tx.inner[i])

NoAccount == [seq |-> 0, balance |-> 0, owners |-> 0, ticketCount |-> 0, tickets |-> {}]

VARIABLES
    ledger,             \* sequence of the ledger being built
    accounts,           \* account roots and ticket objects
    destroyed,          \* fees burnt
    applied, again,     \* transactions applied, and those applied a second time
    batches             \* of every batch, the results of what it ran and whether it was kept

transactorVars == <<ledger, accounts, destroyed, applied, again, batches>>

Exists(S, a) == S[a] # NoAccount
AccountRoots == [seq : Nat, balance : Nat, owners : Nat, ticketCount : Nat, tickets : SUBSET Nat]
TransactorTypeOK ==
    /\ ledger \in 1 .. MaxLedger
    /\ accounts \in [Accounts -> AccountRoots]
    /\ destroyed \in Nat

TransactorInit ==
    /\ ledger = 1
    /\ accounts = [a \in Accounts |-> IF a \in Born
           THEN [seq |-> 1, balance |-> Funds, owners |-> 0, ticketCount |-> 0, tickets |-> {}]
           ELSE NoAccount]
    /\ destroyed = 0 /\ applied = {} /\ again = {} /\ batches = {}
-----------------------------------------------------------------------------
\* Results are reduced to their class; "tec" claims a fee, the others do not.
CheckSeqProxy(S, tx) ==
    IF ~Exists(S, tx.account) THEN "ter"
    ELSE IF tx.ticket
    THEN IF S[tx.account].seq <= tx.n THEN "ter"
         ELSE IF tx.n \notin S[tx.account].tickets THEN "tef" ELSE "tes"
    ELSE IF S[tx.account].seq < tx.n THEN "ter"
         ELSE IF S[tx.account].seq > tx.n THEN "tef" ELSE "tes"

CheckPriorTxAndLastLedger(tx) == IF tx.last # 0 /\ ledger > tx.last THEN "tef" ELSE "tes"

CheckFee(S, tx, inBatch) ==
    IF inBatch THEN IF tx.fee = 0 THEN "tes" ELSE "tem"
    ELSE IF tx.fee <= S[tx.account].balance THEN "tes"
    ELSE IF S[tx.account].balance > 0 THEN "tec" ELSE "ter"

\* CreateTicket::preclaim and DeleteAccount::preclaim.
TicketPreclaim(S, tx) ==
    IF S[tx.account].ticketCount + tx.count - (IF tx.ticket THEN 1 ELSE 0) > MaxTickets THEN "tec" ELSE "tes"

\* Mutant of DeletePreclaim: an account may be deleted as soon as it was made.
DeleteAnyTime(S, tx) == IF ~Exists(S, tx.dst) THEN "tec" ELSE "tes"

DeletePreclaim(S, tx) ==
    IF ~Exists(S, tx.dst) \/ S[tx.account].seq + SeqDelta > ledger THEN "tec" ELSE "tes"

AndThen(a, b) == IF a = "tes" THEN b ELSE a
Preclaim(S, tx, inBatch) ==
    LET seq == AndThen(CheckSeqProxy(S, tx), CheckPriorTxAndLastLedger(tx))
    IN  IF seq # "tes" THEN seq
        ELSE AndThen(CheckFee(S, tx, inBatch),
                   CASE tx.op = "tickets" -> TicketPreclaim(S, tx)
                     [] tx.op = "delete" -> DeletePreclaim(S, tx)
                     [] OTHER -> "tes")
-----------------------------------------------------------------------------
TicketDelete(acct, n) ==
    [acct EXCEPT !.tickets = @ \ {n}, !.ticketCount = @ - 1, !.owners = ConfineOwnerCount(@, -1)]
ConsumeSeqProxy(acct, tx) == IF tx.ticket THEN TicketDelete(acct, tx.n) ELSE [acct EXCEPT !.seq = tx.n + 1]
PayFee(acct, fee) == [acct EXCEPT !.balance = @ - fee]

\* What apply() leaves before doApply, and what reset() leaves.
Claimed(S, tx, fee) == [S EXCEPT ![tx.account] = PayFee(ConsumeSeqProxy(@, tx), fee)]

\* The sequence of a new account is that of the ledger that creates it.
FirstSequence == ledger

Payment(S, tx, prior) ==
    LET src == S[tx.account]
        made == [seq |-> FirstSequence, balance |-> tx.count, owners |-> 0, ticketCount |-> 0, tickets |-> {}]
    IN  IF prior < tx.count + Max({AccountReserve(src.owners), tx.fee}) \/ src.balance < tx.count
           \/ (~Exists(S, tx.dst) /\ tx.count < AccountReserve(0))
        THEN [ter |-> "tec", S |-> S]
        ELSE [ter |-> "tes",
              S |-> IF Exists(S, tx.dst)
                    THEN [S EXCEPT ![tx.account].balance = @ - tx.count, ![tx.dst].balance = @ + tx.count]
                    ELSE [S EXCEPT ![tx.account].balance = @ - tx.count, ![tx.dst] = made]]

CreateTicket(S, tx, prior) ==
    LET acct == S[tx.account]
        more == [seq |-> acct.seq + tx.count, balance |-> acct.balance,
                 owners |-> acct.owners + tx.count, ticketCount |-> acct.ticketCount + tx.count,
                 tickets |-> acct.tickets \cup acct.seq .. acct.seq + tx.count - 1]
    IN  IF prior < AccountReserve(acct.owners + tx.count)
        THEN [ter |-> "tec", S |-> S]
        ELSE [ter |-> "tes", S |-> [S EXCEPT ![tx.account] = more]]

DeleteAccount(S, tx) ==
    [ter |-> "tes",
     S |-> [S EXCEPT ![tx.account] = NoAccount, ![tx.dst].balance = @ + S[tx.account].balance]]

DoApply(S, tx, prior) ==
    CASE tx.op = "pay" -> Payment(S, tx, prior)
      [] tx.op = "tickets" -> CreateTicket(S, tx, prior)
      [] tx.op = "delete" -> DeleteAccount(S, tx)
      [] tx.op = "batch" -> [ter |-> "tes", S |-> S]

\* Mutant of Reset: the fee is not taken.
ResetForFree(S, tx, fee) == [S EXCEPT ![tx.account] = ConsumeSeqProxy(@, tx)]

\* Transactor::operator(): a tec result resets everything but the fee, cut to
\* the balance, and the sequence or ticket.
Reset(S, tx, fee) == Claimed(S, tx, fee)
FeeTaken(fee, balance) == Min({fee, balance})
Outcome(S, tx, pre) ==
    LET acct == S[tx.account]
        run == IF pre = "tes" THEN DoApply(Claimed(S, tx, tx.fee), tx, acct.balance)
               ELSE [ter |-> pre, S |-> S]
        fee == FeeTaken(tx.fee, acct.balance)
    IN  IF run.ter = "tes" THEN [ter |-> "tes", S |-> run.S, fee |-> tx.fee]
        ELSE [ter |-> "tec", S |-> Reset(S, tx, fee), fee |-> fee]

\* preclaim then doApply; a tec result of a transaction that may be retried
\* leaves no trace.
ApplyOne(S, tx, retry, inBatch) ==
    LET pre == Preclaim(S, tx, inBatch)
        none(t) == [ter |-> t, applied |-> FALSE, S |-> S, fee |-> 0]
    IN  IF pre \notin {"tes", "tec"} \/ (pre = "tec" /\ retry) THEN none(pre)
        ELSE LET out == Outcome(S, tx, pre)
             IN  IF out.ter = "tec" /\ retry THEN none("tec")
                 ELSE [ter |-> out.ter, applied |-> TRUE, S |-> out.S, fee |-> out.fee]
-----------------------------------------------------------------------------
\* applyBatchTransactions: every inner transaction in a view of its own, in
\* order, stopping where the mode says.
Stops(mode, ter) ==
    IF ter # "tes" THEN mode \in {"allOrNothing", "untilFailure"} ELSE mode = "onlyOne"
BatchStep(mode, acc, tx) ==
    IF acc.stop THEN acc
    ELSE LET r == ApplyOne(acc.S, tx, FALSE, TRUE)
         IN  [S |-> r.S,
              done |-> IF r.applied THEN acc.done \cup {tx} ELSE acc.done,
              results |-> Append(acc.results, r.ter),
              failed |-> acc.failed \/ (mode = "allOrNothing" /\ r.ter # "tes"),
              stop |-> Stops(mode, r.ter)]
BatchStart(S) == [S |-> S, done |-> {}, results |-> <<>>, failed |-> FALSE, stop |-> FALSE]
RunBatch(S, tx) ==
    LET run[k \in 0 .. Len(tx.inner)] ==
            IF k = 0 THEN BatchStart(S) ELSE BatchStep(tx.mode, run[k - 1], tx.inner[k])
    IN  run[Len(tx.inner)]

\* Mutant of KeepBatch: a batch that failed is kept.
KeepBatchAlways(r) == r.done # {}

KeepBatch(r) == ~r.failed /\ r.done # {}

\* applyTransaction: the transaction and, when it is a batch that succeeded,
\* what it carries.
Submit(tx, retry) ==
    LET r == ApplyOne(accounts, tx, retry, FALSE)
        isBatch == r.ter = "tes" /\ tx.op = "batch"
        b == RunBatch(r.S, tx)
        done == {tx} \cup (IF isBatch /\ KeepBatch(b) THEN b.done ELSE {})
    IN  /\ r.applied
        /\ accounts' = IF isBatch /\ KeepBatch(b) THEN b.S ELSE r.S
        /\ destroyed' = destroyed + r.fee
        /\ applied' = applied \cup done
        /\ again' = again \cup (applied \cap done)
        /\ batches' = IF isBatch
                      THEN batches \cup {[tx |-> tx, results |-> b.results, kept |-> KeepBatch(b)]}
                      ELSE batches
        /\ UNCHANGED ledger

LedgerCloses ==
    /\ ledger < MaxLedger /\ ledger' = ledger + 1
    /\ UNCHANGED <<accounts, destroyed, applied, again, batches>>

TransactorNext ==
    \/ LedgerCloses
    \/ \E tx \in Transactions, retry \in BOOLEAN : Submit(tx, retry)
TransactorSpec == TransactorInit /\ [][TransactorNext]_transactorVars
-----------------------------------------------------------------------------
\* No transaction is applied twice: not after its sequence or ticket is used,
\* not as part of two batches, and not after its account was deleted and made
\* again, since a new account starts at the sequence of its ledger.
AppliedOnce == again = {}

\* XRP is lost only as fees.
XrpConserved ==
    SumOver(Accounts, LAMBDA a : accounts[a].balance) + destroyed = Funds * Cardinality(Born)

\* The tickets an account owns are counted once in its owner count and once in
\* its ticket count, and lie below its sequence, so that no transaction can be
\* meant for both.
TicketsAccounted ==
    \A a \in Accounts :
        /\ Cardinality(accounts[a].tickets) = accounts[a].ticketCount
        /\ accounts[a].ticketCount = accounts[a].owners
        /\ accounts[a].ticketCount <= MaxTickets
        /\ \A n \in accounts[a].tickets : n < accounts[a].seq

\* A batch is kept as its mode promises: all or nothing only with every result
\* a success, only one with at most one success, until failure with nothing
\* run after the first failure.
BatchKeepsItsMode ==
    \A b \in batches : LET ok == {i \in DOMAIN b.results : b.results[i] = "tes"} IN
        CASE b.tx.mode = "allOrNothing" -> b.kept => ok = DOMAIN b.tx.inner
          [] b.tx.mode = "onlyOne" -> Cardinality(ok) <= 1
          [] b.tx.mode = "untilFailure" -> \A i \in DOMAIN b.results : i < Len(b.results) => i \in ok
          [] OTHER -> Len(b.results) = Len(b.tx.inner)
=============================================================================
