-------------------------- MODULE TransactorProofs --------------------------
(***************************************************************************)
(* Proofs about transactions, for any accounts and any set of transactions *)
(* and batches submitted again and again: none is applied twice, tickets   *)
(* are accounted for, and a batch is kept as its mode promises.            *)
(***************************************************************************)
EXTENDS Transactor, FiniteSetTheorems, WellFoundedInduction, TLAPS

-----------------------------------------------------------------------------
(* One account root: Transactor. *)

\* A root of an account that exists has a sequence above zero; its tickets are
\* finitely many, counted twice, within the limit, and below its sequence.
GoodRoot(r) ==
    /\ r \in AccountRoots
    /\ r # NoAccount => r.seq > 0
    /\ IsFiniteSet(r.tickets) /\ Cardinality(r.tickets) = r.ticketCount
    /\ r.ticketCount = r.owners /\ r.ticketCount <= MaxTickets
    /\ \A n \in r.tickets : n < r.seq

\* Sequence or ticket n is of no more use in root r at ledger sequence now: the
\* account is past it and does not hold it, or is gone and could only be made
\* again with a later sequence.
Spent(r, n, ticket, now) ==
    IF r = NoAccount THEN n < now ELSE n < r.seq /\ (ticket => n \notin r.tickets)

\* What was spent in r1 is spent in r2.
Follows(r1, r2, now) ==
    \A n \in Nat, ticket \in BOOLEAN : Spent(r1, n, ticket, now) => Spent(r2, n, ticket, now)

\* The constants of the transactors.
LEMMA Sizes ==
    Funds \in Nat /\ SeqDelta \in Nat \ {0} /\ MaxTickets \in Nat /\ MaxLedger \in Nat \ {0}
  BY TransactorAssumption

\* No account is a good root, with a sequence of zero.
LEMMA NoAccountGood == GoodRoot(NoAccount)
  BY Sizes, FS_EmptySet DEF GoodRoot, NoAccount, AccountRoots

\* The numbers of a good root.
LEMMA RootNumbers ==
    ASSUME NEW r, GoodRoot(r)
    PROVE  r.balance \in Nat /\ r.seq \in Nat
<1>1. r \in AccountRoots
  BY Zenon DEF GoodRoot
<1> QED BY <1>1 DEF AccountRoots

\* A transaction that checkSeqProxy lets through has the next sequence or a
\* ticket of its account.
LEMMA SeqProxyOK ==
    ASSUME NEW S, NEW tx, WellFormed(tx), GoodRoot(S[tx.account]), CheckSeqProxy(S, tx) = "tes"
    PROVE  LET r == S[tx.account] IN
           /\ r # NoAccount
           /\ IF tx.ticket THEN tx.n < r.seq /\ tx.n \in r.tickets ELSE tx.n = r.seq
<1>1. tx.n \in Nat /\ S[tx.account].seq \in Nat /\ tx.ticket \in BOOLEAN
  BY DEF WellFormed, GoodRoot, AccountRoots
<1> QED BY <1>1 DEF CheckSeqProxy, Exists

\* What consuming a sequence or a ticket leaves: a good root in which it is
\* spent and was not before, and all that was spent still is.
LEMMA Consumed ==
    ASSUME NEW r, GoodRoot(r), r # NoAccount, NEW tx, WellFormed(tx), NEW now \in Nat,
           IF tx.ticket THEN tx.n < r.seq /\ tx.n \in r.tickets ELSE tx.n = r.seq
    PROVE  LET c == ConsumeSeqProxy(r, tx) IN
           /\ GoodRoot(c) /\ c # NoAccount /\ Follows(r, c, now)
           /\ Spent(c, tx.n, tx.ticket, now) /\ ~Spent(r, tx.n, tx.ticket, now)
           /\ c.balance = r.balance /\ c.seq <= r.seq + 1
           /\ c.ticketCount = r.ticketCount - (IF tx.ticket THEN 1 ELSE 0)
<1> DEFINE c == ConsumeSeqProxy(r, tx)
<1>1. /\ r.seq \in Nat /\ r.seq > 0 /\ r.balance \in Nat /\ r.owners \in Nat /\ r.ticketCount \in Nat
      /\ r.tickets \in SUBSET Nat /\ r = [seq |-> r.seq, balance |-> r.balance, owners |-> r.owners,
                                          ticketCount |-> r.ticketCount, tickets |-> r.tickets]
  BY DEF GoodRoot, AccountRoots
<1>2. /\ IsFiniteSet(r.tickets) /\ Cardinality(r.tickets) = r.ticketCount
      /\ r.ticketCount = r.owners /\ r.ticketCount <= MaxTickets
      /\ \A n \in r.tickets : n < r.seq
  BY DEF GoodRoot
<1>3. tx.n \in Nat /\ tx.ticket \in BOOLEAN /\ MaxTickets \in Nat
  BY Sizes DEF WellFormed
<1>4. CASE ~tx.ticket
  <2>1. /\ c.seq = r.seq + 1 /\ c.balance = r.balance /\ c.owners = r.owners
        /\ c.ticketCount = r.ticketCount /\ c.tickets = r.tickets /\ tx.n = r.seq
        /\ c = [seq |-> c.seq, balance |-> c.balance, owners |-> c.owners,
                ticketCount |-> c.ticketCount, tickets |-> c.tickets]
    BY <1>1, <1>4 DEF ConsumeSeqProxy
  <2> HIDE DEF c
  <2>2. c \in AccountRoots /\ c # NoAccount
    BY <1>1, <2>1 DEF AccountRoots, NoAccount
  <2>3. GoodRoot(c)
    BY <1>1, <1>2, <2>1, <2>2 DEF GoodRoot
  <2>4. Follows(r, c, now)
    BY <1>1, <2>1, <2>2 DEF Follows, Spent
  <2>5. Spent(c, tx.n, tx.ticket, now) /\ ~Spent(r, tx.n, tx.ticket, now)
    BY <1>1, <1>4, <2>1, <2>2 DEF Spent
  <2> QED BY <1>1, <1>4, <2>1, <2>2, <2>3, <2>4, <2>5 DEF c
<1>5. CASE tx.ticket
  <2>0. r.ticketCount > 0
    <3>1. r.tickets # {}
      BY <1>5
    <3> QED BY <1>1, <1>2, <3>1, FS_EmptySet
  <2>1. /\ c.seq = r.seq /\ c.balance = r.balance /\ c.owners = r.owners - 1
        /\ c.ticketCount = r.ticketCount - 1 /\ c.tickets = r.tickets \ {tx.n}
        /\ c = [seq |-> c.seq, balance |-> c.balance, owners |-> c.owners,
                ticketCount |-> c.ticketCount, tickets |-> c.tickets]
    <3>1. ConfineOwnerCount(r.owners, -1) = r.owners - 1
      BY <1>1, <1>2, <2>0 DEF ConfineOwnerCount
    <3>2. c = [r EXCEPT !.tickets = r.tickets \ {tx.n}, !.ticketCount = r.ticketCount - 1,
                        !.owners = r.owners - 1]
      BY <1>5, <3>1, Zenon DEF ConsumeSeqProxy, TicketDelete
    <3> HIDE DEF c
    <3>3. c = [seq |-> r.seq, balance |-> r.balance, owners |-> r.owners - 1,
               ticketCount |-> r.ticketCount - 1, tickets |-> r.tickets \ {tx.n}]
      BY <1>1, <3>2
    <3> QED BY <3>3
  <2> HIDE DEF c
  <2>2. c \in AccountRoots /\ c # NoAccount
    BY <1>1, <1>2, <2>0, <2>1 DEF AccountRoots, NoAccount
  <2>3. IsFiniteSet(c.tickets) /\ Cardinality(c.tickets) = r.ticketCount - 1
    <3>1. /\ IsFiniteSet(r.tickets \ {tx.n})
          /\ Cardinality(r.tickets \ {tx.n}) =
                IF tx.n \in r.tickets THEN Cardinality(r.tickets) - 1 ELSE Cardinality(r.tickets)
      BY <1>2, FS_RemoveElement
    <3> QED BY <1>2, <1>5, <2>1, <3>1
  <2>4. GoodRoot(c)
    BY <1>1, <1>2, <1>3, <2>1, <2>2, <2>3 DEF GoodRoot
  <2>5. Follows(r, c, now)
    BY <1>1, <2>1, <2>2 DEF Follows, Spent
  <2>6. Spent(c, tx.n, tx.ticket, now) /\ ~Spent(r, tx.n, tx.ticket, now)
    BY <1>1, <1>5, <2>1, <2>2 DEF Spent
  <2>7. /\ c.balance = r.balance /\ c.seq <= r.seq + 1
        /\ c.ticketCount = r.ticketCount - (IF tx.ticket THEN 1 ELSE 0)
    BY <1>1, <1>5, <2>1
  <2> QED BY <2>2, <2>4, <2>5, <2>6, <2>7 DEF c
<1> QED BY <1>3, <1>4, <1>5

\* Another balance spends nothing.
LEMMA OtherBalance ==
    ASSUME NEW r, GoodRoot(r), r # NoAccount, NEW b \in Nat, NEW c, c = [r EXCEPT !.balance = b],
           NEW now \in Nat
    PROVE  /\ GoodRoot(c) /\ c # NoAccount /\ Follows(r, c, now)
           /\ c.balance = b /\ c.seq = r.seq /\ c.ticketCount = r.ticketCount
<1>1. /\ r.seq \in Nat /\ r.seq > 0 /\ r \in AccountRoots
  BY DEF GoodRoot, AccountRoots
<1>2. /\ c.seq = r.seq /\ c.balance = b /\ c.owners = r.owners
      /\ c.ticketCount = r.ticketCount /\ c.tickets = r.tickets
      /\ c \in AccountRoots
  BY <1>1 DEF AccountRoots
<1>3. c # NoAccount
  BY <1>1, <1>2 DEF NoAccount
<1>4. GoodRoot(c)
  BY <1>1, <1>2 DEF GoodRoot
<1>5. Follows(r, c, now)
  BY <1>1, <1>2, <1>3 DEF Follows, Spent
<1> QED BY <1>2, <1>3, <1>4, <1>5

-----------------------------------------------------------------------------
(* One transaction: Transactor. *)

Sound(S) == S \in [Accounts -> AccountRoots] /\ \A a \in Accounts : GoodRoot(S[a])
Grows(S1, S2) == \A a \in Accounts : Follows(S1[a], S2[a], ledger)

\* Sequences and tickets stay spent over several transactions.
LEMMA GrowsTransitive ==
    ASSUME NEW S1, NEW S2, NEW S3, Grows(S1, S2), Grows(S2, S3) PROVE Grows(S1, S3)
  BY DEF Grows, Follows

\* A root replaced by a good one that follows it.
LEMMA ReplacedRoot ==
    ASSUME NEW S, Sound(S), NEW a \in Accounts, NEW r, GoodRoot(r), Follows(S[a], r, ledger)
    PROVE  Sound([S EXCEPT ![a] = r]) /\ Grows(S, [S EXCEPT ![a] = r])
<1> DEFINE R == [S EXCEPT ![a] = r]
<1>1. r \in AccountRoots /\ S \in [Accounts -> AccountRoots]
  BY DEF GoodRoot, Sound
<1>2. R \in [Accounts -> AccountRoots] /\ R[a] = r /\ \A b \in Accounts \ {a} : R[b] = S[b]
  BY <1>1
<1> HIDE DEF R
<1>3. Sound(R)
  BY <1>2 DEF Sound
<1>4. Grows(S, R)
  BY <1>2 DEF Grows, Follows
<1> QED BY <1>3, <1>4 DEF R

\* From S to C the sequence or ticket of tx is consumed and nothing else.
Claims(S, C, tx) ==
    LET a == tx.account IN
    /\ Sound(C) /\ Grows(S, C) /\ S[a] # NoAccount /\ C[a] # NoAccount
    /\ \A b \in Accounts \ {a} : C[b] = S[b]
    /\ Spent(C[a], tx.n, tx.ticket, ledger) /\ ~Spent(S[a], tx.n, tx.ticket, ledger)
    /\ C[a].seq <= S[a].seq + 1
    /\ C[a].ticketCount = S[a].ticketCount - (IF tx.ticket THEN 1 ELSE 0)

\* What apply() leaves before doApply, and what a reset leaves.
LEMMA ClaimedStep ==
    ASSUME NEW S, Sound(S), NEW tx, WellFormed(tx), CheckSeqProxy(S, tx) = "tes",
           NEW fee \in Nat, fee <= S[tx.account].balance, ledger \in Nat
    PROVE  Claims(S, Claimed(S, tx, fee), tx)
<1> DEFINE a == tx.account
           c == ConsumeSeqProxy(S[a], tx)
           p == PayFee(c, fee)
           C == Claimed(S, tx, fee)
<1>1. a \in Accounts /\ GoodRoot(S[a]) /\ tx.n \in Nat /\ tx.ticket \in BOOLEAN
  BY DEF WellFormed, Sound
<1>2. /\ S[a] # NoAccount
      /\ IF tx.ticket THEN tx.n < S[a].seq /\ tx.n \in S[a].tickets ELSE tx.n = S[a].seq
  BY <1>1, SeqProxyOK
<1>3. /\ GoodRoot(c) /\ c # NoAccount /\ Follows(S[a], c, ledger)
      /\ Spent(c, tx.n, tx.ticket, ledger) /\ ~Spent(S[a], tx.n, tx.ticket, ledger)
      /\ c.balance = S[a].balance /\ c.seq <= S[a].seq + 1
      /\ c.ticketCount = S[a].ticketCount - (IF tx.ticket THEN 1 ELSE 0)
  BY <1>1, <1>2, Consumed
<1>4. S[a].balance - fee \in Nat /\ p = [c EXCEPT !.balance = S[a].balance - fee]
  <2>1. S[a].balance \in Nat
    BY <1>1, RootNumbers, Zenon
  <2> QED BY <1>3, <2>1 DEF PayFee
<1>5. C = [S EXCEPT ![a] = p]
  BY DEF Claimed
<1> HIDE DEF a, c, p, C
<1>6. /\ GoodRoot(p) /\ p # NoAccount /\ Follows(c, p, ledger)
      /\ p.seq = c.seq /\ p.ticketCount = c.ticketCount
  BY <1>3, <1>4, OtherBalance
<1>7. Follows(S[a], p, ledger) /\ Spent(p, tx.n, tx.ticket, ledger)
  BY <1>1, <1>3, <1>6 DEF Follows
<1>8. Sound(C) /\ Grows(S, C)
  BY <1>1, <1>5, <1>6, <1>7, ReplacedRoot, Zenon
<1>9. C[a] = p /\ \A b \in Accounts \ {a} : C[b] = S[b]
  BY <1>1, <1>5 DEF Sound
<1> QED BY <1>2, <1>3, <1>6, <1>7, <1>8, <1>9 DEF a, C, Claims

\* Two roots replaced, of different accounts.
LEMMA ReplacedTwo ==
    ASSUME NEW S, Sound(S), NEW a \in Accounts, NEW b \in Accounts, a # b,
           NEW r, GoodRoot(r), Follows(S[a], r, ledger),
           NEW q, GoodRoot(q), Follows(S[b], q, ledger),
           NEW R, R = [[S EXCEPT ![a] = r] EXCEPT ![b] = q]
    PROVE  Sound(R) /\ Grows(S, R)
<1> DEFINE M == [S EXCEPT ![a] = r]
<1>1. Sound(M) /\ Grows(S, M)
  BY ReplacedRoot, Zenon
<1>2. M[b] = S[b] /\ R = [M EXCEPT ![b] = q]
  BY DEF Sound
<1> HIDE DEF M
<1>3. Follows(M[b], q, ledger)
  BY <1>2
<1>4. Sound([M EXCEPT ![b] = q]) /\ Grows(M, [M EXCEPT ![b] = q])
  BY <1>1, <1>3, ReplacedRoot
<1> QED BY <1>1, <1>2, <1>4, GrowsTransitive, Zenon

\* A payment, to an account that exists or to one it makes.
LEMMA PaymentStep ==
    ASSUME NEW S, Sound(S), NEW tx, WellFormed(tx), tx.op = "pay", S[tx.account] # NoAccount,
           ledger \in Nat \ {0}, NEW prior, Payment(S, tx, prior).ter = "tes"
    PROVE  Sound(Payment(S, tx, prior).S) /\ Grows(S, Payment(S, tx, prior).S)
<1> DEFINE a == tx.account
           d == tx.dst
           made == [seq |-> FirstSequence, balance |-> tx.count, owners |-> 0, ticketCount |-> 0, tickets |-> {}]
           r == [S[a] EXCEPT !.balance = S[a].balance - tx.count]
           q == IF Exists(S, d) THEN [S[d] EXCEPT !.balance = S[d].balance + tx.count] ELSE made
           R == Payment(S, tx, prior).S
<1>1. /\ a \in Accounts /\ d \in Accounts /\ a # d /\ tx.count \in Nat
      /\ GoodRoot(S[a]) /\ GoodRoot(S[d]) /\ S \in [Accounts -> AccountRoots]
  BY DEF WellFormed, Sound
<1>2. /\ ~(S[a].balance < tx.count)
      /\ R = IF Exists(S, d)
             THEN [S EXCEPT ![a].balance = @ - tx.count, ![d].balance = @ + tx.count]
             ELSE [S EXCEPT ![a].balance = @ - tx.count, ![d] = made]
  BY DEF Payment
<1>3. S[a].balance - tx.count \in Nat /\ S[d].balance + tx.count \in Nat
  <2>1. S[a].balance \in Nat /\ S[d].balance \in Nat /\ tx.count \in Nat
    BY <1>1, RootNumbers, Zenon
  <2> QED BY <1>2, <2>1
<1>4. R = [[S EXCEPT ![a] = r] EXCEPT ![d] = q]
  BY <1>1, <1>2, Zenon
<1>5. GoodRoot(r) /\ Follows(S[a], r, ledger)
  BY <1>1, <1>3, OtherBalance
<1>6. GoodRoot(q) /\ Follows(S[d], q, ledger)
  <2>1. CASE Exists(S, d)
    BY <1>1, <1>3, <2>1, OtherBalance DEF Exists
  <2>2. CASE ~Exists(S, d)
    <3>1. q = made /\ S[d] = NoAccount
      BY <2>2 DEF Exists
    <3>2. GoodRoot(made) /\ made # NoAccount /\ made.seq = ledger /\ made.tickets = {}
      <4>1. IsFiniteSet({}) /\ Cardinality({}) = 0
        BY FS_EmptySet
      <4>2. /\ made.seq = ledger /\ made.owners = 0 /\ made.ticketCount = 0 /\ made.tickets = {}
            /\ made \in AccountRoots
        BY <1>1 DEF AccountRoots, FirstSequence
      <4> HIDE DEF made
      <4>3. made # NoAccount
        BY <4>2 DEF NoAccount
      <4> QED BY <4>1, <4>2, <4>3, Sizes DEF GoodRoot
    <3> QED BY <3>1, <3>2 DEF Follows, Spent
  <2> QED BY <2>1, <2>2
<1> HIDE DEF a, d, r, q, R
<1>7. Sound(R) /\ Grows(S, R)
  BY <1>1, <1>4, <1>5, <1>6, ReplacedTwo, Zenon
<1> QED BY <1>7 DEF R

\* As many numbers as are counted from one on.
LEMMA IntervalFrom ==
    ASSUME NEW m \in Nat, NEW k \in Nat
    PROVE  IsFiniteSet(m .. m + k - 1) /\ Cardinality(m .. m + k - 1) = k
<1> DEFINE hi == m + k - 1
<1>1. hi \in Int /\ m \in Int /\ hi - m + 1 = k /\ (m > hi <=> k = 0)
  OBVIOUS
<1> HIDE DEF hi
<1>2. IsFiniteSet(m .. hi) /\ Cardinality(m .. hi) = IF m > hi THEN 0 ELSE hi - m + 1
  BY <1>1, FS_Interval
<1>3. IsFiniteSet(m .. hi) /\ Cardinality(m .. hi) = k
  BY <1>1, <1>2
<1> QED BY <1>3 DEF hi

\* Tickets made: the sequences they take are behind the account afterwards, and
\* none of them was spent.
LEMMA TicketStep ==
    ASSUME NEW S, Sound(S), NEW tx, WellFormed(tx), S[tx.account] # NoAccount,
           ledger \in Nat, S[tx.account].ticketCount + tx.count <= MaxTickets,
           NEW prior, CreateTicket(S, tx, prior).ter = "tes"
    PROVE  Sound(CreateTicket(S, tx, prior).S) /\ Grows(S, CreateTicket(S, tx, prior).S)
<1> DEFINE a == tx.account
           r == S[a]
           new == r.seq .. r.seq + tx.count - 1
           c == [seq |-> r.seq + tx.count, balance |-> r.balance, owners |-> r.owners + tx.count,
                 ticketCount |-> r.ticketCount + tx.count, tickets |-> r.tickets \cup new]
<1>1. a \in Accounts /\ GoodRoot(r) /\ tx.count \in Nat /\ S \in [Accounts -> AccountRoots]
  BY DEF WellFormed, Sound
<1>2. CreateTicket(S, tx, prior).S = [S EXCEPT ![a] = c]
  <2> DEFINE out == [S EXCEPT ![a] = c]
  <2>1. CreateTicket(S, tx, prior) = IF prior < AccountReserve(r.owners + tx.count)
                                     THEN [ter |-> "tec", S |-> S] ELSE [ter |-> "tes", S |-> out]
    BY DEF CreateTicket
  <2> HIDE DEF out
  <2> QED BY <2>1 DEF out
<1>3. /\ r.seq \in Nat /\ r.seq > 0 /\ r.balance \in Nat /\ r.owners \in Nat /\ r.ticketCount \in Nat
      /\ r.tickets \in SUBSET Nat /\ r = [seq |-> r.seq, balance |-> r.balance, owners |-> r.owners,
                                          ticketCount |-> r.ticketCount, tickets |-> r.tickets]
  BY <1>1 DEF GoodRoot, AccountRoots
<1>4. /\ IsFiniteSet(r.tickets) /\ Cardinality(r.tickets) = r.ticketCount
      /\ r.ticketCount = r.owners /\ \A n \in r.tickets : n < r.seq
  BY <1>1 DEF GoodRoot
<1>5. r.ticketCount + tx.count <= MaxTickets /\ MaxTickets \in Nat
  BY Sizes
<1> HIDE DEF r
<1>6. IsFiniteSet(new) /\ Cardinality(new) = tx.count
  BY <1>1, <1>3, IntervalFrom
<1>7. \A n \in new : n \in Nat /\ r.seq <= n /\ n < r.seq + tx.count
  BY <1>1, <1>3
<1> HIDE DEF new
<1>8. /\ c.seq = r.seq + tx.count /\ c.tickets = r.tickets \cup new
      /\ c.ticketCount = r.ticketCount + tx.count /\ c.owners = r.owners + tx.count
      /\ c \in AccountRoots /\ c # NoAccount
  BY <1>1, <1>3, <1>7 DEF AccountRoots, NoAccount
<1> HIDE DEF c
<1>9. r.tickets \cap new = {}
  BY <1>3, <1>4, <1>7
<1>10. IsFiniteSet(r.tickets \cup new) /\ Cardinality(r.tickets \cup new) = r.ticketCount + tx.count
  <2>1. /\ IsFiniteSet(r.tickets \cup new)
        /\ Cardinality(r.tickets \cup new) =
              Cardinality(r.tickets) + Cardinality(new) - Cardinality(r.tickets \cap new)
    BY <1>4, <1>6, FS_Union
  <2>2. Cardinality(r.tickets \cap new) = 0
    BY <1>9, FS_EmptySet
  <2> QED BY <1>1, <1>3, <1>4, <1>6, <2>1, <2>2
<1>11. GoodRoot(c)
  BY <1>1, <1>3, <1>4, <1>5, <1>7, <1>10, <1>8 DEF GoodRoot
<1>12. Follows(r, c, ledger)
  <2>1. r # NoAccount
    BY DEF r
  <2>2. SUFFICES ASSUME NEW n \in Nat, NEW ticket \in BOOLEAN, n < r.seq, ticket => n \notin r.tickets
                 PROVE  n < c.seq /\ (ticket => n \notin c.tickets)
    BY <1>8, <2>1 DEF Follows, Spent
  <2>3. n < r.seq + tx.count /\ n \notin new
    BY <1>1, <1>3, <1>7, <2>2
  <2> QED BY <1>8, <2>2, <2>3
<1>13. Sound([S EXCEPT ![a] = c]) /\ Grows(S, [S EXCEPT ![a] = c])
  BY <1>1, <1>11, <1>12, ReplacedRoot, Zenon DEF r
<1> QED BY <1>2, <1>13

\* An account deleted when the ledger is ahead of it: made again, it starts past
\* every sequence and every ticket it had.
LEMMA DeleteStep ==
    ASSUME NEW S, Sound(S), NEW tx, WellFormed(tx), tx.op = "delete", S[tx.account] # NoAccount,
           S[tx.dst] # NoAccount, ledger \in Nat, S[tx.account].seq <= ledger
    PROVE  Sound(DeleteAccount(S, tx).S) /\ Grows(S, DeleteAccount(S, tx).S)
<1> DEFINE a == tx.account
           d == tx.dst
           q == [S[d] EXCEPT !.balance = S[d].balance + S[a].balance]
           R == DeleteAccount(S, tx).S
<1>1. /\ a \in Accounts /\ d \in Accounts /\ a # d
      /\ GoodRoot(S[a]) /\ GoodRoot(S[d]) /\ S \in [Accounts -> AccountRoots]
  BY DEF WellFormed, Sound
<1>2. R = [[S EXCEPT ![a] = NoAccount] EXCEPT ![d] = q]
  BY <1>1, Zenon DEF DeleteAccount
<1>3. GoodRoot(NoAccount) /\ Follows(S[a], NoAccount, ledger)
  <2>1. S[a].seq \in Nat
    BY <1>1, RootNumbers, Zenon
  <2> QED BY <2>1, NoAccountGood DEF Follows, Spent
<1>4. S[d].balance + S[a].balance \in Nat
  <2>1. S[d].balance \in Nat /\ S[a].balance \in Nat
    BY <1>1, RootNumbers, Zenon
  <2> QED BY <2>1
<1>5. GoodRoot(q) /\ Follows(S[d], q, ledger)
  BY <1>1, <1>4, OtherBalance
<1> HIDE DEF a, d, q, R
<1>6. Sound(R) /\ Grows(S, R)
  BY <1>1, <1>2, <1>3, <1>5, ReplacedTwo, Zenon
<1> QED BY <1>6 DEF R

\* What preclaim has checked when it lets a transaction through.
LEMMA PreclaimOK ==
    ASSUME NEW S, Sound(S), NEW tx, WellFormed(tx), NEW inBatch \in BOOLEAN,
           NEW pre, pre = Preclaim(S, tx, inBatch), pre \in {"tes", "tec"}
    PROVE  /\ CheckSeqProxy(S, tx) = "tes"
           /\ pre = "tes" => /\ tx.fee <= S[tx.account].balance
                             /\ tx.op = "tickets" => TicketPreclaim(S, tx) = "tes"
                             /\ tx.op = "delete" => DeletePreclaim(S, tx) = "tes"
<1> DEFINE seq == AndThen(CheckSeqProxy(S, tx), CheckPriorTxAndLastLedger(tx))
           op == CASE tx.op = "tickets" -> TicketPreclaim(S, tx)
                   [] tx.op = "delete" -> DeletePreclaim(S, tx)
                   [] OTHER -> "tes"
<1>1. CheckSeqProxy(S, tx) \in {"tes", "ter", "tef"} /\ CheckPriorTxAndLastLedger(tx) \in {"tes", "tef"}
  BY DEF CheckSeqProxy, CheckPriorTxAndLastLedger
<1>2. /\ pre = IF seq # "tes" THEN seq ELSE AndThen(CheckFee(S, tx, inBatch), op)
  BY DEF Preclaim
<1>3. seq \in {"tes", "ter", "tef"} /\ (seq = "tes" => CheckSeqProxy(S, tx) = "tes")
  BY <1>1 DEF AndThen
<1>4. /\ tx.op = "tickets" => op = TicketPreclaim(S, tx)
      /\ tx.op = "delete" => op = DeletePreclaim(S, tx)
  OBVIOUS
<1> HIDE DEF seq, op
<1>5. seq = "tes" /\ pre = AndThen(CheckFee(S, tx, inBatch), op)
  BY <1>2, <1>3
<1>6. pre = "tes" => CheckFee(S, tx, inBatch) = "tes" /\ op = "tes"
  BY <1>5 DEF AndThen
<1>7. CheckFee(S, tx, inBatch) = "tes" => tx.fee <= S[tx.account].balance
  <2>1. S[tx.account].balance \in Nat /\ tx.fee \in Nat
    BY DEF Sound, WellFormed, AccountRoots
  <2> QED BY <2>1 DEF CheckFee
<1> QED BY <1>3, <1>4, <1>5, <1>6, <1>7

\* What a step from S to R does for transaction tx: its sequence or ticket was
\* of use before and is spent now, and what was spent still is.
Spends(S, R, tx) ==
    /\ Sound(R) /\ Grows(S, R)
    /\ ~Spent(S[tx.account], tx.n, tx.ticket, ledger) /\ Spent(R[tx.account], tx.n, tx.ticket, ledger)

\* doApply on what apply() leaves, when it succeeds.
LEMMA DoApplyStep ==
    ASSUME NEW S, Sound(S), NEW tx, WellFormed(tx), ledger \in Nat \ {0}, NEW inBatch \in BOOLEAN,
           Preclaim(S, tx, inBatch) = "tes", NEW prior, NEW C, C = Claimed(S, tx, tx.fee),
           DoApply(C, tx, prior).ter = "tes"
    PROVE  Spends(S, DoApply(C, tx, prior).S, tx)
<1> DEFINE a == tx.account
           D == DoApply(C, tx, prior)
<1>1. /\ CheckSeqProxy(S, tx) = "tes" /\ tx.fee <= S[a].balance
      /\ tx.op = "tickets" => TicketPreclaim(S, tx) = "tes"
      /\ tx.op = "delete" => DeletePreclaim(S, tx) = "tes"
  BY PreclaimOK
<1>2. /\ a \in Accounts /\ tx.dst \in Accounts /\ tx.fee \in Nat /\ tx.count \in Nat
      /\ tx.n \in Nat /\ tx.ticket \in BOOLEAN
      /\ tx.op \in {"pay", "tickets", "delete", "batch"}
      /\ tx.op \in {"pay", "delete"} => tx.dst # a
      /\ S[a].seq \in Nat /\ S[a].ticketCount \in Nat
  BY DEF WellFormed, Sound, AccountRoots
<1>3. /\ Sound(C) /\ Grows(S, C) /\ S[a] # NoAccount /\ C[a] # NoAccount
      /\ \A b \in Accounts \ {a} : C[b] = S[b]
      /\ Spent(C[a], tx.n, tx.ticket, ledger) /\ ~Spent(S[a], tx.n, tx.ticket, ledger)
      /\ C[a].seq <= S[a].seq + 1
      /\ C[a].ticketCount = S[a].ticketCount - (IF tx.ticket THEN 1 ELSE 0)
  <2>1. Claims(S, C, tx)
    BY <1>1, <1>2, ClaimedStep
  <2> QED BY <2>1, Zenon DEF Claims
<1>4. Sound(D.S) /\ Grows(C, D.S)
  <2>1. CASE tx.op = "pay"
    <3>1. D = Payment(C, tx, prior)
      BY <2>1 DEF DoApply
    <3>2. Sound(C) /\ C[a] # NoAccount
      BY <1>3, Zenon
    <3> QED BY <2>1, <3>1, <3>2, PaymentStep
  <2>2. CASE tx.op = "tickets"
    <3>1. D = CreateTicket(C, tx, prior)
      BY <2>2 DEF DoApply
    <3>2. C[a].ticketCount + tx.count <= MaxTickets
      <4>1. TicketPreclaim(S, tx) = "tes"
        BY <1>1, <2>2, Zenon
      <4>2. ~(S[a].ticketCount + tx.count - (IF tx.ticket THEN 1 ELSE 0) > MaxTickets)
        BY <4>1, Zenon DEF TicketPreclaim
      <4>3. C[a].ticketCount = S[a].ticketCount - (IF tx.ticket THEN 1 ELSE 0)
        BY <1>3, Zenon
      <4>4. S[a].ticketCount \in Nat /\ tx.count \in Nat /\ MaxTickets \in Nat
        BY <1>2, Sizes, Zenon
      <4> HIDE DEF a
      <4> QED BY <4>2, <4>3, <4>4
    <3>3. Sound(C) /\ C[a] # NoAccount
      BY <1>3, Zenon
    <3> QED BY <3>1, <3>2, <3>3, TicketStep
  <2>3. CASE tx.op = "delete"
    <3>1. D = DeleteAccount(C, tx)
      BY <2>3 DEF DoApply
    <3>2. C[tx.dst] # NoAccount
      <4>1. DeletePreclaim(S, tx) = "tes"
        BY <1>1, <2>3, Zenon
      <4>2. S[tx.dst] # NoAccount
        BY <4>1 DEF DeletePreclaim, Exists
      <4> QED BY <1>2, <1>3, <2>3, <4>2, Zenon
    <3>3. C[a].seq <= ledger
      <4>1. C[a].seq \in Nat
        BY <1>2, <1>3, RootNumbers, Zenon DEF Sound
      <4>2. DeletePreclaim(S, tx) = "tes"
        BY <1>1, <2>3, Zenon
      <4>3. S[a].seq \in Nat /\ C[a].seq <= S[a].seq + 1
        BY <1>2, <1>3, Zenon
      <4>4. S[a].seq + SeqDelta <= ledger
        BY <4>2, <4>3, Sizes DEF DeletePreclaim
      <4> HIDE DEF a
      <4> QED BY <4>1, <4>3, <4>4, Sizes
    <3>4. Sound(C) /\ C[a] # NoAccount
      BY <1>3, Zenon
    <3> QED BY <2>3, <3>1, <3>2, <3>3, <3>4, DeleteStep
  <2>4. CASE tx.op = "batch"
    <3>1. D = [ter |-> "tes", S |-> C]
      BY <2>4 DEF DoApply
    <3>2. Grows(C, C)
      BY DEF Grows, Follows
    <3>3. D.S = C
      BY <3>1
    <3> QED BY <1>3, <3>2, <3>3, Zenon
  <2> QED BY <1>2, <2>1, <2>2, <2>3, <2>4, Zenon
<1> HIDE DEF D
<1>5. Grows(S, D.S)
  BY <1>3, <1>4, GrowsTransitive, Zenon
<1>6. Spent(D.S[a], tx.n, tx.ticket, ledger)
  BY <1>2, <1>3, <1>4, Zenon DEF Grows, Follows
<1> QED BY <1>3, <1>4, <1>5, <1>6, Zenon DEF Spends, D

\* The lesser of two.
LEMMA LesserOfTwo ==
    ASSUME NEW x \in Nat, NEW y \in Nat
    PROVE  Min({x, y}) \in Nat /\ Min({x, y}) <= x /\ Min({x, y}) <= y
<1>1. \E m \in {x, y} : \A n \in {x, y} : m <= n
  OBVIOUS
<1>2. Min({x, y}) \in {x, y} /\ \A n \in {x, y} : Min({x, y}) <= n
  BY <1>1 DEF Min
<1> QED BY <1>2

\* What applying tx to S may result in.
Result(S, tx, r) ==
    /\ r.applied \in BOOLEAN /\ r.fee \in Nat
    /\ r.applied => Spends(S, r.S, tx)
    /\ ~r.applied => r.S = S

\* A transaction that is applied, with success or only to claim a fee, spends
\* its sequence or ticket; one that is not applied leaves no trace.
LEMMA ApplyOneStep ==
    ASSUME NEW S, Sound(S), NEW tx, WellFormed(tx), ledger \in Nat \ {0},
           NEW retry \in BOOLEAN, NEW inBatch \in BOOLEAN
    PROVE  Result(S, tx, ApplyOne(S, tx, retry, inBatch))
<1> DEFINE r == ApplyOne(S, tx, retry, inBatch)
           pre == Preclaim(S, tx, inBatch)
           out == Outcome(S, tx, pre)
           none(t) == [ter |-> t, applied |-> FALSE, S |-> S, fee |-> 0]
<1>1. \/ \E t : r = none(t)
      \/ /\ pre \in {"tes", "tec"}
         /\ r = [ter |-> out.ter, applied |-> TRUE, S |-> out.S, fee |-> out.fee]
  <2>1. r = IF pre \notin {"tes", "tec"} \/ (pre = "tec" /\ retry) THEN none(pre)
            ELSE IF out.ter = "tec" /\ retry THEN none("tec")
            ELSE [ter |-> out.ter, applied |-> TRUE, S |-> out.S, fee |-> out.fee]
    BY DEF ApplyOne
  <2> QED BY <2>1, Zenon
<1>2. ASSUME pre \in {"tes", "tec"} PROVE Spends(S, out.S, tx) /\ out.fee \in Nat
  <2> DEFINE acct == S[tx.account]
             D == DoApply(Claimed(S, tx, tx.fee), tx, acct.balance)
             fee == FeeTaken(tx.fee, acct.balance)
  <2>1. acct.balance \in Nat /\ tx.fee \in Nat
    BY DEF Sound, WellFormed, AccountRoots
  <2>2. \/ pre = "tes" /\ D.ter = "tes" /\ out = [ter |-> "tes", S |-> D.S, fee |-> tx.fee]
        \/ out = [ter |-> "tec", S |-> Claimed(S, tx, fee), fee |-> fee]
    <3>1. CASE pre = "tes"
      BY <3>1 DEF Outcome, Reset
    <3>2. CASE pre = "tec"
      BY <3>2 DEF Outcome, Reset
    <3> QED BY <1>2, <3>1, <3>2, Zenon
  <2>3. CASE pre = "tes" /\ D.ter = "tes" /\ out = [ter |-> "tes", S |-> D.S, fee |-> tx.fee]
    BY <2>1, <2>3, DoApplyStep
  <2>4. CASE out = [ter |-> "tec", S |-> Claimed(S, tx, fee), fee |-> fee]
    <3>1. fee \in Nat /\ fee <= acct.balance
      BY <2>1, LesserOfTwo DEF FeeTaken
    <3>2. CheckSeqProxy(S, tx) = "tes"
      BY <1>2, PreclaimOK
    <3> HIDE DEF fee
    <3>3. Claims(S, Claimed(S, tx, fee), tx)
      BY <3>1, <3>2, ClaimedStep
    <3>4. Spends(S, Claimed(S, tx, fee), tx)
      BY <3>3 DEF Claims, Spends
    <3> QED BY <2>4, <3>1, <3>4
  <2> QED BY <2>2, <2>3, <2>4, Zenon
<1> HIDE DEF pre, out, r
<1>3. CASE \E t : r = none(t)
  BY <1>3 DEF r, Result
<1>4. CASE /\ pre \in {"tes", "tec"}
           /\ r = [ter |-> out.ter, applied |-> TRUE, S |-> out.S, fee |-> out.fee]
  BY <1>2, <1>4 DEF r, Result
<1> QED BY <1>1, <1>3, <1>4

-----------------------------------------------------------------------------
(* A batch: Transactor. *)

\* A set with 0, and with k whenever it has k - 1, has all of 0 .. n.
LEMMA UpTo ==
    ASSUME NEW n \in Nat, NEW T, 0 \in T, \A k \in 1 .. n : k - 1 \in T => k \in T
    PROVE  \A k \in 0 .. n : k \in T
<1> SUFFICES ASSUME NEW k \in 0 .. n, k \notin T PROVE FALSE
  OBVIOUS
<1> DEFINE Out == {i \in 0 .. n : i \notin T}
<1>1. Out \subseteq Nat /\ Out # {}
  OBVIOUS
<1>2. \E x \in Out : \A y \in Out : ~(<<y, x>> \in OpToRel(<, Nat))
  BY <1>1, NatLessThanWellFounded, WFMin
<1>3. PICK x \in Out : \A y \in Out : ~(y < x)
  BY <1>1, <1>2, Zenon DEF OpToRel
<1>4. x \in 1 .. n /\ x - 1 \in 0 .. n /\ x - 1 < x
  OBVIOUS
<1>5. x - 1 \in T
  BY <1>3, <1>4
<1> QED BY <1>3, <1>4, <1>5

\* The run of a batch up to its k-th inner transaction.
Run(f, S, tx, n) ==
    f = [k \in 0 .. n |-> IF k = 0 THEN BatchStart(S) ELSE BatchStep(tx.mode, f[k - 1], tx.inner[k])]

\* There is such a run, of any length.
LEMMA RunExists ==
    ASSUME NEW S, NEW tx, NEW n \in Nat
    PROVE  \E f : Run(f, S, tx, n)
<1> DEFINE T == {k \in Nat : \E f : Run(f, S, tx, k)}
<1>1. 0 \in T
  <2> DEFINE f == [k \in 0 .. 0 |-> BatchStart(S)]
  <2>1. Run(f, S, tx, 0)
    BY DEF Run
  <2> QED BY <2>1
<1>2. ASSUME NEW k \in 1 .. n, k - 1 \in T PROVE k \in T
  <2>1. PICK f : Run(f, S, tx, k - 1)
    BY <1>2
  <2> DEFINE g == [i \in 0 .. k |-> IF i = k THEN BatchStep(tx.mode, f[k - 1], tx.inner[k]) ELSE f[i]]
  <2>2. /\ k \in Nat /\ k > 0 /\ k - 1 \in 0 .. k - 1
        /\ \A i \in 0 .. k : i # k => i \in 0 .. k - 1
        /\ \A i \in 0 .. k : i # 0 => i - 1 \in 0 .. k /\ i - 1 # k
    BY <1>2
  <2>3. \A i \in 0 .. k - 1 : f[i] = IF i = 0 THEN BatchStart(S) ELSE BatchStep(tx.mode, f[i - 1], tx.inner[i])
    BY <2>1 DEF Run
  <2>4. ASSUME NEW i \in 0 .. k
        PROVE  g[i] = IF i = 0 THEN BatchStart(S) ELSE BatchStep(tx.mode, g[i - 1], tx.inner[i])
    <3>1. CASE i = 0
      BY <2>2, <2>3, <3>1
    <3>2. CASE i # 0
      <4>1. g[i - 1] = f[i - 1]
        BY <2>2, <3>2
      <4> QED BY <2>2, <2>3, <3>2, <4>1
    <3> QED BY <3>1, <3>2
  <2>5. g = [i \in 0 .. k |-> g[i]]
    OBVIOUS
  <2> HIDE DEF g
  <2>6. Run(g, S, tx, k)
    BY <2>4, <2>5, Zenon DEF Run
  <2> QED BY <2>2, <2>6
<1> HIDE DEF T
<1>3. n \in T
  BY <1>1, <1>2, UpTo
<1> QED BY <1>3 DEF T

\* What RunBatch returns is the end of that run.
LEMMA RunBatchRun ==
    ASSUME NEW S, NEW tx, NEW n \in Nat, n = Len(tx.inner)
    PROVE  \E f : Run(f, S, tx, n) /\ RunBatch(S, tx) = f[n]
<1> DEFINE f == CHOOSE f : Run(f, S, tx, n)
<1>1. Run(f, S, tx, n)
  BY RunExists
<1>2. RunBatch(S, tx) = f[n]
  BY DEF RunBatch, Run
<1> QED BY <1>1, <1>2

\* What a batch has done so far: x follows S, and whatever it applied was not
\* spent in S and is now.
Progress(S, x) ==
    /\ Sound(x.S) /\ Grows(S, x.S)
    /\ \A t \in x.done : /\ WellFormed(t) /\ ~Spent(S[t.account], t.n, t.ticket, ledger)
                         /\ Spent(x.S[t.account], t.n, t.ticket, ledger)

\* One more inner transaction.
LEMMA BatchStepProgress ==
    ASSUME NEW S, NEW x, Progress(S, x), NEW tx, WellFormed(tx), NEW mode, ledger \in Nat \ {0}
    PROVE  Progress(S, BatchStep(mode, x, tx))
<1> DEFINE r == ApplyOne(x.S, tx, FALSE, TRUE)
           y == BatchStep(mode, x, tx)
<1>1. CASE x.stop
  <2>1. y = x
    BY <1>1 DEF BatchStep
  <2> QED BY <2>1
<1>2. CASE ~x.stop
  <2>1. y.S = r.S /\ y.done = IF r.applied THEN x.done \cup {tx} ELSE x.done
    BY <1>2 DEF BatchStep
  <2>2. /\ r.applied => Spends(x.S, r.S, tx)
        /\ ~r.applied => r.S = x.S
    <3>1. Sound(x.S)
      BY DEF Progress
    <3>2. \A retry, inBatch \in BOOLEAN : Result(x.S, tx, ApplyOne(x.S, tx, retry, inBatch))
      BY <3>1, ApplyOneStep
    <3>3. Result(x.S, tx, r)
      BY <3>2, Zenon
    <3> HIDE DEF r
    <3> QED BY <3>3 DEF Result
  <2>3. \A t : WellFormed(t) => t.account \in Accounts /\ t.n \in Nat /\ t.ticket \in BOOLEAN
    BY DEF WellFormed
  <2> HIDE DEF r, y
  <2>4. CASE ~r.applied
    <3>1. y.S = x.S /\ y.done = x.done
      BY <2>1, <2>2, <2>4
    <3>2. Progress(S, y)
      BY <3>1 DEF Progress
    <3> QED BY <3>2 DEF y
  <2>5. CASE r.applied
    <3>1. Sound(y.S) /\ Grows(x.S, y.S)
      BY <2>1, <2>2, <2>5 DEF Spends
    <3>2. Grows(S, y.S)
      BY <3>1, GrowsTransitive DEF Progress
    <3>3. /\ ~Spent(x.S[tx.account], tx.n, tx.ticket, ledger)
          /\ Spent(y.S[tx.account], tx.n, tx.ticket, ledger)
      BY <2>1, <2>2, <2>5 DEF Spends
    <3>4. ~Spent(S[tx.account], tx.n, tx.ticket, ledger)
      BY <2>3, <3>3 DEF Progress, Grows, Follows
    <3>5. ASSUME NEW t \in x.done PROVE Spent(y.S[t.account], t.n, t.ticket, ledger)
      BY <2>3, <3>1 DEF Progress, Grows, Follows
    <3>6. y.done = x.done \cup {tx}
      BY <2>1, <2>5
    <3>7. ASSUME NEW t \in y.done
          PROVE  /\ WellFormed(t) /\ ~Spent(S[t.account], t.n, t.ticket, ledger)
                 /\ Spent(y.S[t.account], t.n, t.ticket, ledger)
      <4>1. CASE t = tx
        BY <3>3, <3>4, <4>1
      <4>2. CASE t \in x.done
        BY <3>5, <4>2 DEF Progress
      <4> QED BY <3>6, <4>1, <4>2
    <3>8. Progress(S, y)
      BY <3>1, <3>2, <3>7 DEF Progress
    <3> QED BY <3>8 DEF y
  <2> QED BY <2>4, <2>5
<1> QED BY <1>1, <1>2

\* The inner transactions of a batch.
LEMMA InnerTransactions ==
    ASSUME NEW tx \in Transactions
    PROVE  LET n == Len(tx.inner) IN
           n \in Nat /\ DOMAIN tx.inner = 1 .. n /\ \A i \in 1 .. n : WellFormed(tx.inner[i])
<1> DEFINE n == Len(tx.inner)
<1>1. /\ tx.inner \in Seq({tx.inner[i] : i \in DOMAIN tx.inner})
      /\ \A i \in DOMAIN tx.inner : WellFormed(tx.inner[i])
  BY TransactorAssumption
<1>2. ASSUME NEW R, NEW s \in Seq(R) PROVE Len(s) \in Nat /\ DOMAIN s = 1 .. Len(s)
  OBVIOUS
<1>3. n \in Nat /\ DOMAIN tx.inner = 1 .. n
  BY <1>1, <1>2
<1> QED BY <1>1, <1>3

\* A whole batch.
LEMMA RunBatchProgress ==
    ASSUME NEW S, Sound(S), NEW tx \in Transactions, ledger \in Nat \ {0}
    PROVE  Progress(S, RunBatch(S, tx))
<1> DEFINE n == Len(tx.inner)
<1>1. n \in Nat /\ DOMAIN tx.inner = 1 .. n /\ \A i \in 1 .. n : WellFormed(tx.inner[i])
  BY InnerTransactions
<1> HIDE DEF n
<1>2. PICK f : Run(f, S, tx, n) /\ RunBatch(S, tx) = f[n]
  BY <1>1, RunBatchRun DEF n
<1>3. \A k \in 0 .. n : f[k] = IF k = 0 THEN BatchStart(S) ELSE BatchStep(tx.mode, f[k - 1], tx.inner[k])
  BY <1>2 DEF Run
<1> DEFINE T == {k \in 0 .. n : Progress(S, f[k])}
<1>4. 0 \in T
  <2>1. f[0] = BatchStart(S) /\ 0 \in 0 .. n
    BY <1>1, <1>3
  <2>2. Progress(S, BatchStart(S))
    BY DEF Progress, BatchStart, Grows, Follows
  <2> QED BY <2>1, <2>2
<1>5. ASSUME NEW k \in 1 .. n, k - 1 \in T PROVE k \in T
  <2>1. f[k] = BatchStep(tx.mode, f[k - 1], tx.inner[k]) /\ k \in 0 .. n
    BY <1>1, <1>3
  <2>2. Progress(S, f[k - 1]) /\ WellFormed(tx.inner[k])
    BY <1>1, <1>5
  <2> QED BY <2>1, <2>2, BatchStepProgress
<1> HIDE DEF T
<1>6. \A k \in 0 .. n : k \in T
  BY <1>1, <1>4, <1>5, UpTo, Zenon
<1>7. n \in T
  BY <1>1, <1>6
<1> QED BY <1>2, <1>7 DEF T

\* The results applying can have.
Ters == {"tes", "tec", "ter", "tef", "tem"}

\* They are all there are.
LEMMA TerType ==
    ASSUME NEW S, NEW tx, NEW retry \in BOOLEAN, NEW inBatch \in BOOLEAN
    PROVE  ApplyOne(S, tx, retry, inBatch).ter \in Ters
<1> DEFINE pre == Preclaim(S, tx, inBatch)
           out == Outcome(S, tx, pre)
<1>1. pre \in Ters
  <2>1. /\ CheckSeqProxy(S, tx) \in Ters /\ CheckPriorTxAndLastLedger(tx) \in Ters
        /\ CheckFee(S, tx, inBatch) \in Ters /\ TicketPreclaim(S, tx) \in Ters
        /\ DeletePreclaim(S, tx) \in Ters
    BY DEF Ters, CheckSeqProxy, CheckPriorTxAndLastLedger, CheckFee, TicketPreclaim, DeletePreclaim
  <2>2. \A a, b \in Ters : AndThen(a, b) \in Ters
    BY DEF AndThen
  <2>3. "tes" \in Ters
    BY DEF Ters
  <2> QED BY <2>1, <2>2, <2>3 DEF Preclaim
<1>2. out.ter \in Ters
  BY DEF Outcome, Ters
<1> HIDE DEF pre, out
<1>3. ApplyOne(S, tx, retry, inBatch).ter \in {pre, "tec", out.ter}
  BY DEF ApplyOne, pre, out
<1> QED BY <1>1, <1>2, <1>3 DEF Ters

\* A batch of mode m after k inner transactions, as far as it went: only the
\* last result can be one that stops it, and all or nothing fails on anything
\* but success.
Moded(m, k, x) ==
    /\ x.results \in Seq(Ters) /\ x.stop \in BOOLEAN /\ x.failed \in BOOLEAN
    /\ \A i \in 1 .. Len(x.results) - 1 : ~Stops(m, x.results[i])
    /\ ~x.stop => Len(x.results) = k /\ \A i \in 1 .. Len(x.results) : ~Stops(m, x.results[i])
    /\ m = "allOrNothing" /\ ~x.failed => ~x.stop
    /\ m \notin {"allOrNothing", "onlyOne", "untilFailure"} => ~x.stop

\* One more inner transaction.
LEMMA BatchStepModed ==
    ASSUME NEW m, NEW k \in Nat \ {0}, NEW x, Moded(m, k - 1, x), NEW tx
    PROVE  Moded(m, k, BatchStep(m, x, tx))
<1> DEFINE r == ApplyOne(x.S, tx, FALSE, TRUE)
           y == BatchStep(m, x, tx)
<1>1. CASE x.stop
  <2>1. y = x
    BY <1>1 DEF BatchStep
  <2> QED BY <1>1, <2>1, Zenon DEF Moded
<1>2. CASE ~x.stop
  <2>1. \A retry, inBatch \in BOOLEAN : ApplyOne(x.S, tx, retry, inBatch).ter \in Ters
    BY TerType
  <2>2. r.ter \in Ters
    BY <2>1, Zenon
  <2>3. /\ y.results = Append(x.results, r.ter) /\ y.stop = Stops(m, r.ter)
        /\ y.failed = (x.failed \/ (m = "allOrNothing" /\ r.ter # "tes"))
    BY <1>2 DEF BatchStep
  <2> HIDE DEF r, y
  <2>4. /\ x.results \in Seq(Ters) /\ Len(x.results) = k - 1
        /\ \A i \in 1 .. Len(x.results) : ~Stops(m, x.results[i])
    BY <1>2 DEF Moded
  <2>5. /\ y.results \in Seq(Ters) /\ Len(y.results) = k /\ y.results[k] = r.ter
        /\ \A i \in 1 .. k - 1 : y.results[i] = x.results[i]
    BY <2>2, <2>3, <2>4
  <2>6. Stops(m, r.ter) \in BOOLEAN /\ x.failed \in BOOLEAN
    <3>1. Stops(m, r.ter) \in BOOLEAN
      <4>1. CASE r.ter = "tes"
        BY <4>1 DEF Stops
      <4>2. CASE r.ter # "tes"
        BY <4>2 DEF Stops
      <4> QED BY <4>1, <4>2
    <3>2. x.failed \in BOOLEAN
      BY DEF Moded
    <3> QED BY <3>1, <3>2
  <2>7. y.stop \in BOOLEAN /\ y.failed \in BOOLEAN
    BY <2>3, <2>6
  <2>8. \A i \in 1 .. k - 1 : ~Stops(m, y.results[i])
    BY <2>4, <2>5
  <2>9. ~y.stop => \A i \in 1 .. k : ~Stops(m, y.results[i])
    <3> SUFFICES ASSUME ~y.stop, NEW i \in 1 .. k PROVE ~Stops(m, y.results[i])
      OBVIOUS
    <3>1. CASE i = k
      BY <2>3, <2>5, <3>1
    <3>2. CASE i # k
      BY <2>8, <3>2
    <3> QED BY <3>1, <3>2
  <2>10. m = "allOrNothing" /\ ~y.failed => ~y.stop
    BY <2>3, <2>6 DEF Stops
  <2>11. m \notin {"allOrNothing", "onlyOne", "untilFailure"} => ~y.stop
    BY <2>3, Zenon DEF Stops
  <2>12. Moded(m, k, y)
    BY <2>5, <2>7, <2>8, <2>9, <2>10, <2>11 DEF Moded
  <2> QED BY <2>12 DEF y
<1>3. x.stop \in BOOLEAN
  BY DEF Moded
<1> QED BY <1>1, <1>2, <1>3

\* A whole batch.
LEMMA RunBatchModed ==
    ASSUME NEW S, NEW tx \in Transactions
    PROVE  Moded(tx.mode, Len(tx.inner), RunBatch(S, tx))
<1> DEFINE n == Len(tx.inner)
<1>1. n \in Nat
  BY InnerTransactions
<1>2. PICK f : Run(f, S, tx, n) /\ RunBatch(S, tx) = f[n]
  BY <1>1, RunBatchRun
<1> HIDE DEF n
<1>3. \A k \in 0 .. n : f[k] = IF k = 0 THEN BatchStart(S) ELSE BatchStep(tx.mode, f[k - 1], tx.inner[k])
  BY <1>2 DEF Run
<1> DEFINE T == {k \in 0 .. n : Moded(tx.mode, k, f[k])}
<1>4. 0 \in T
  <2>1. f[0] = BatchStart(S) /\ 0 \in 0 .. n
    BY <1>1, <1>3
  <2>2. Moded(tx.mode, 0, BatchStart(S))
    BY DEF Moded, BatchStart
  <2> QED BY <2>1, <2>2
<1>5. ASSUME NEW k \in 1 .. n, k - 1 \in T PROVE k \in T
  <2>1. f[k] = BatchStep(tx.mode, f[k - 1], tx.inner[k]) /\ k \in 0 .. n /\ k \in Nat \ {0}
    BY <1>1, <1>3
  <2>2. Moded(tx.mode, k - 1, f[k - 1])
    BY <1>5
  <2> QED BY <2>1, <2>2, BatchStepModed
<1> HIDE DEF T
<1>6. \A k \in 0 .. n : k \in T
  BY <1>1, <1>4, <1>5, UpTo
<1>7. n \in T
  BY <1>1, <1>6
<1> QED BY <1>2, <1>7 DEF T, n

\* What BatchKeepsItsMode says of one batch.
KeepsMode(b) ==
    LET ok == {i \in DOMAIN b.results : b.results[i] = "tes"} IN
    CASE b.tx.mode = "allOrNothing" -> b.kept => ok = DOMAIN b.tx.inner
      [] b.tx.mode = "onlyOne" -> Cardinality(ok) <= 1
      [] b.tx.mode = "untilFailure" -> \A i \in DOMAIN b.results : i < Len(b.results) => i \in ok
      [] OTHER -> Len(b.results) = Len(b.tx.inner)

\* A batch that went as Moded says is kept as its mode promises.
LEMMA ModedKeeps ==
    ASSUME NEW tx \in Transactions, NEW x, Moded(tx.mode, Len(tx.inner), x), NEW b,
           b = [tx |-> tx, results |-> x.results, kept |-> KeepBatch(x)]
    PROVE  KeepsMode(b)
<1> DEFINE R == x.results
           ok == {i \in DOMAIN R : R[i] = "tes"}
           n == Len(tx.inner)
<1>1. b.tx = tx /\ b.results = R /\ b.kept = KeepBatch(x)
  OBVIOUS
<1>2. /\ R \in Seq(Ters) /\ Len(R) \in Nat /\ DOMAIN R = 1 .. Len(R)
      /\ x.stop \in BOOLEAN /\ x.failed \in BOOLEAN
      /\ n \in Nat /\ DOMAIN tx.inner = 1 .. n
  BY InnerTransactions DEF Moded
<1>3. /\ \A i \in 1 .. Len(R) - 1 : ~Stops(tx.mode, R[i])
      /\ ~x.stop => Len(R) = n /\ \A i \in 1 .. Len(R) : ~Stops(tx.mode, R[i])
      /\ tx.mode = "allOrNothing" /\ ~x.failed => ~x.stop
      /\ tx.mode \notin {"allOrNothing", "onlyOne", "untilFailure"} => ~x.stop
  BY DEF Moded
<1> HIDE DEF R, n
<1>4. CASE tx.mode = "allOrNothing"
  <2>1. ASSUME KeepBatch(x) PROVE ok = DOMAIN tx.inner
    <3>1. ~x.stop
      BY <1>3, <1>4, <2>1 DEF KeepBatch
    <3>2. Len(R) = n /\ \A i \in 1 .. n : R[i] = "tes"
      BY <1>3, <1>4, <3>1 DEF Stops
    <3> QED BY <1>2, <3>2
  <2> QED BY <1>1, <1>4, <2>1 DEF KeepsMode
<1>5. CASE tx.mode = "onlyOne"
  <2>0. \A i \in 1 .. Len(R) - 1 : R[i] # "tes"
    BY <1>3, <1>5 DEF Stops
  <2>1. ok \subseteq {Len(R)}
    BY <1>2, <2>0
  <2>2. Cardinality({Len(R)}) = 1 /\ IsFiniteSet({Len(R)})
    BY FS_Singleton, Zenon
  <2> HIDE DEF ok
  <2>3. Cardinality(ok) <= 1
    BY <2>1, <2>2, FS_Subset
  <2> QED BY <1>1, <1>5, <2>3 DEF KeepsMode, ok
<1>6. CASE tx.mode = "untilFailure"
  <2>0. \A i \in 1 .. Len(R) - 1 : R[i] = "tes"
    BY <1>3, <1>6 DEF Stops
  <2>1. \A i \in DOMAIN R : i < Len(R) => R[i] = "tes"
    BY <1>2, <2>0
  <2> QED BY <1>1, <1>6, <2>1 DEF KeepsMode
<1>7. CASE tx.mode \notin {"allOrNothing", "onlyOne", "untilFailure"}
  <2>1. Len(R) = n
    BY <1>3, <1>7
  <2> QED BY <1>1, <1>7, <2>1 DEF KeepsMode, n
<1> QED BY <1>4, <1>5, <1>6, <1>7

-----------------------------------------------------------------------------
(* Transactions submitted again and again: Transactor. *)

\* The account roots are sound, and whatever was applied is spent.
TransactorInv ==
    /\ ledger \in 1 .. MaxLedger /\ destroyed \in Nat /\ Sound(accounts)
    /\ again = {}
    /\ \A t \in applied : WellFormed(t) /\ Spent(accounts[t.account], t.n, t.ticket, ledger)
    /\ \A b \in batches : KeepsMode(b)

\* At the start nothing was applied.
LEMMA InitTransactor == TransactorInit => TransactorInv
<1> SUFFICES ASSUME TransactorInit PROVE TransactorInv
  OBVIOUS
<1>1. ledger = 1 /\ destroyed = 0 /\ applied = {} /\ again = {} /\ batches = {}
  BY DEF TransactorInit
<1>2. Sound(accounts)
  <2> DEFINE new == [seq |-> 1, balance |-> Funds, owners |-> 0, ticketCount |-> 0, tickets |-> {}]
  <2>1. accounts = [a \in Accounts |-> IF a \in Born THEN new ELSE NoAccount]
    BY DEF TransactorInit
  <2>2. GoodRoot(new)
    BY Sizes, FS_EmptySet DEF GoodRoot, AccountRoots
  <2>3. GoodRoot(NoAccount)
    BY NoAccountGood
  <2> HIDE DEF new
  <2>4. \A a \in Accounts : GoodRoot(accounts[a])
    BY <2>1, <2>2, <2>3
  <2>5. \A a \in Accounts : accounts[a] \in AccountRoots
    BY <2>4 DEF GoodRoot
  <2> QED BY <2>1, <2>4, <2>5 DEF Sound
<1> QED BY <1>1, <1>2, Sizes DEF TransactorInv

\* A transaction, and with it its batch.
LEMMA SubmitTransactor ==
    ASSUME TransactorInv, NEW tx \in Transactions, NEW retry \in BOOLEAN, Submit(tx, retry)
    PROVE  TransactorInv'
<1> DEFINE r == ApplyOne(accounts, tx, retry, FALSE)
           b == RunBatch(r.S, tx)
           isBatch == r.ter = "tes" /\ tx.op = "batch"
           inner == IF isBatch /\ KeepBatch(b) THEN b.done ELSE {}
           done == {tx} \cup inner
           record == [tx |-> tx, results |-> b.results, kept |-> KeepBatch(b)]
<1>1. /\ r.applied
      /\ accounts' = (IF isBatch /\ KeepBatch(b) THEN b.S ELSE r.S)
      /\ destroyed' = destroyed + r.fee
      /\ applied' = applied \cup done /\ again' = again \cup (applied \cap done)
      /\ batches' = (IF isBatch THEN batches \cup {record} ELSE batches)
      /\ ledger' = ledger
  BY Zenon DEF Submit
<1>2. ledger \in Nat \ {0} /\ Sound(accounts) /\ WellFormed(tx)
  <2>1. ledger \in 1 .. MaxLedger /\ Sound(accounts)
    BY Zenon DEF TransactorInv
  <2>2. ledger \in Nat \ {0}
    BY <2>1, Sizes
  <2> QED BY <2>1, <2>2, TransactorAssumption, Zenon
<1>3. Result(accounts, tx, r)
  <2>1. \A inBatch \in BOOLEAN : Result(accounts, tx, ApplyOne(accounts, tx, retry, inBatch))
    BY <1>2, ApplyOneStep
  <2> QED BY <2>1, Zenon
<1> HIDE DEF r
<1>4. Spends(accounts, r.S, tx) /\ r.fee \in Nat
  BY <1>1, <1>3, Zenon DEF Result
<1>5. Progress(r.S, b)
  BY <1>2, <1>4, RunBatchProgress, Zenon DEF Spends
<1>6. Moded(tx.mode, Len(tx.inner), b)
  BY RunBatchModed
<1> HIDE DEF b
<1>7. KeepsMode(record)
  BY <1>6, ModedKeeps
<1> HIDE DEF isBatch, record
<1>8. \A t : WellFormed(t) => t.account \in Accounts /\ t.n \in Nat /\ t.ticket \in BOOLEAN
  BY DEF WellFormed
<1>9. /\ Sound(accounts') /\ Grows(accounts, accounts')
      /\ \A t \in done : /\ WellFormed(t) /\ ~Spent(accounts[t.account], t.n, t.ticket, ledger)
                         /\ Spent(accounts'[t.account], t.n, t.ticket, ledger)
  <2>1. CASE isBatch /\ KeepBatch(b)
    <3>1. accounts' = b.S /\ inner = b.done
      BY <1>1, <2>1
    <3>2. Sound(accounts') /\ Grows(accounts, accounts') /\ Grows(r.S, accounts')
      BY <1>4, <1>5, <3>1, GrowsTransitive DEF Spends, Progress
    <3>3. /\ ~Spent(accounts[tx.account], tx.n, tx.ticket, ledger)
          /\ Spent(accounts'[tx.account], tx.n, tx.ticket, ledger)
      BY <1>2, <1>4, <1>8, <3>2 DEF Spends, Grows, Follows
    <3>4. ASSUME NEW t \in b.done
          PROVE  /\ WellFormed(t) /\ ~Spent(accounts[t.account], t.n, t.ticket, ledger)
                 /\ Spent(accounts'[t.account], t.n, t.ticket, ledger)
      <4>1. /\ WellFormed(t) /\ ~Spent(r.S[t.account], t.n, t.ticket, ledger)
            /\ Spent(accounts'[t.account], t.n, t.ticket, ledger)
        BY <1>5, <3>1 DEF Progress
      <4>2. Grows(accounts, r.S)
        BY <1>4 DEF Spends
      <4> QED BY <1>8, <4>1, <4>2 DEF Grows, Follows
    <3> QED BY <1>2, <3>1, <3>2, <3>3, <3>4
  <2>2. CASE ~(isBatch /\ KeepBatch(b))
    <3>1. accounts' = r.S /\ done = {tx}
      BY <1>1, <2>2
    <3> QED BY <1>2, <1>4, <3>1 DEF Spends
  <2> QED BY <2>1, <2>2
<1> HIDE DEF inner, done
<1>10. applied \cap done = {}
  BY <1>9 DEF TransactorInv
<1>11. again' = {}
  BY <1>1, <1>10 DEF TransactorInv
<1>12. ASSUME NEW t \in applied'
       PROVE  WellFormed(t) /\ Spent(accounts'[t.account], t.n, t.ticket, ledger)
  <2>1. CASE t \in done
    BY <1>9, <2>1
  <2>2. CASE t \in applied
    BY <1>8, <1>9, <2>2 DEF TransactorInv, Grows, Follows
  <2> QED BY <1>1, <2>1, <2>2
<1>13. \A c \in batches' : KeepsMode(c)
  BY <1>1, <1>7 DEF TransactorInv
<1>14. ledger' \in 1 .. MaxLedger /\ destroyed' \in Nat
  BY <1>1, <1>4 DEF TransactorInv
<1> QED BY <1>1, <1>9, <1>11, <1>12, <1>13, <1>14 DEF TransactorInv

\* A later ledger un-spends nothing.
LEMMA LedgerTransactor == TransactorInv /\ LedgerCloses => TransactorInv'
<1> SUFFICES ASSUME TransactorInv, LedgerCloses PROVE TransactorInv'
  OBVIOUS
<1>1. /\ ledger < MaxLedger /\ ledger' = ledger + 1
      /\ UNCHANGED <<accounts, destroyed, applied, again, batches>>
  BY DEF LedgerCloses
<1>2. ledger \in 1 .. MaxLedger
  BY DEF TransactorInv
<1>3. ledger' \in 1 .. MaxLedger /\ \A n \in Nat : n < ledger => n < ledger'
  BY <1>1, <1>2, Sizes
<1>4. ASSUME NEW t \in applied PROVE WellFormed(t) /\ Spent(accounts[t.account], t.n, t.ticket, ledger')
  <2>1. WellFormed(t) /\ t.n \in Nat /\ Spent(accounts[t.account], t.n, t.ticket, ledger)
    BY DEF TransactorInv, WellFormed
  <2> QED BY <1>3, <2>1 DEF Spent
<1> QED BY <1>1, <1>3, <1>4 DEF TransactorInv

\* Every step keeps the invariant.
LEMMA NextTransactor == TransactorInv /\ [TransactorNext]_transactorVars => TransactorInv'
<1> SUFFICES ASSUME TransactorInv, [TransactorNext]_transactorVars PROVE TransactorInv'
  OBVIOUS
<1>1. CASE UNCHANGED transactorVars
  BY <1>1 DEF TransactorInv, transactorVars
<1>2. CASE LedgerCloses
  BY <1>2, LedgerTransactor
<1>3. ASSUME NEW tx \in Transactions, NEW retry \in BOOLEAN, Submit(tx, retry) PROVE TransactorInv'
  BY <1>3, SubmitTransactor
<1> QED BY <1>1, <1>2, <1>3 DEF TransactorNext

\* However often transactions and batches are submitted, and though accounts are
\* deleted and made again, none is applied twice.
THEOREM NothingTwice == TransactorSpec => []AppliedOnce
<1>1. TransactorInv => AppliedOnce
  BY DEF TransactorInv, AppliedOnce
<1> QED BY <1>1, InitTransactor, NextTransactor, PTL DEF TransactorSpec

\* Every batch, of any length, is kept as its mode promises.
THEOREM BatchesKept == TransactorSpec => []BatchKeepsItsMode
<1>1. TransactorInv => BatchKeepsItsMode
  BY DEF TransactorInv, BatchKeepsItsMode, KeepsMode
<1> QED BY <1>1, InitTransactor, NextTransactor, PTL DEF TransactorSpec

\* Accounts are account roots and never go below zero, and tickets are counted
\* in the owner count and the ticket count, within the limit and below the
\* sequence.
THEOREM TicketsCounted == TransactorSpec => [](TransactorTypeOK /\ TicketsAccounted)
<1>1. TransactorInv => TransactorTypeOK /\ TicketsAccounted
  BY DEF TransactorInv, TransactorTypeOK, TicketsAccounted, Sound, GoodRoot
<1> QED BY <1>1, InitTransactor, NextTransactor, PTL DEF TransactorSpec
=============================================================================
