------------------------------ MODULE PayChan ------------------------------
(***************************************************************************)
(* Payment channels (PayChan.cpp).  A channel is known by the sequence     *)
(* number of the transaction that made it.  What the owner signs off the   *)
(* ledger is kept in `signed'; a claim carries a signature for some amount *)
(* that was signed.  Times are close times of the parent ledger; 0 stands  *)
(* for an absent CancelAfter or Expiration.                                *)
(***************************************************************************)
EXTENDS AccountRoot, Functions

CONSTANTS
    Accounts, Funds,   \* accounts and what each one starts with
    Refusing,          \* accounts whose flags refuse channels or untagged payments
    DepositAuth,       \* accounts that take deposits only from themselves
    Amounts, Delays,   \* amounts, settle delays
    MaxChannels,       \* bound on the channels ever made
    MaxTime            \* bound on the close time

ASSUME PayChanAssumption ==
    /\ IsFiniteSet(Accounts) /\ Funds \in Nat
    /\ Base \in Nat /\ Increment \in Nat
    /\ Amounts \subseteq Nat \ {0} /\ Delays \subseteq Nat
    /\ MaxChannels \in Nat /\ MaxTime \in Nat \ {0}

VARIABLES
    now, balance, owners,   \* close time, XRP and owner count of each account
    channels,               \* ltPAYCHAN entries
    directory,              \* owner directories
    signed,                 \* amounts the owner signed claims for
    granted,                \* the most the owner ever let the destination have
    since,                  \* when the expiration of a channel was set
    made                    \* number of channels made

vars == <<now, balance, owners, channels, directory, signed, granted, since, made>>
ledger == <<balance, owners, channels, directory>>
history == <<signed, granted, since>>

Channel == [src : Accounts, dst : Accounts, amount : Nat, paid : Nat, delay : Delays,
            cancel : 0 .. MaxTime, expiration : Nat]
TypeOK ==
    /\ now \in 0 .. MaxTime /\ made \in 0 .. MaxChannels
    /\ balance \in [Accounts -> Nat] /\ owners \in [Accounts -> Nat]
    /\ DOMAIN channels \subseteq 1 .. made
    /\ \A c \in DOMAIN channels : channels[c] \in Channel
    /\ directory \in [Accounts -> SUBSET (1 .. made)]
    /\ signed \in [1 .. made -> SUBSET Nat]
    /\ granted \in [1 .. made -> Nat] /\ since \in [1 .. made -> Nat]

Init ==
    /\ now = 1 /\ made = 0
    /\ balance = [a \in Accounts |-> Funds] /\ owners = [a \in Accounts |-> 0]
    /\ channels = <<>> /\ directory = [a \in Accounts |-> {}]
    /\ signed = <<>> /\ granted = <<>> /\ since = <<>>

\* A new entry.
With(f, key, value) == [k \in DOMAIN f \cup {key} |-> IF k = key THEN value ELSE f[k]]

CreatePreflight(a, d, amount) == amount > 0 /\ a # d
CreatePreclaim(a, d, amount) ==
    /\ balance[a] >= AccountReserve(owners[a] + 1) + amount
    /\ d \notin Refusing
PayChanCreate(a, d, amount, delay, cancel) ==
    LET c == made + 1
    IN  /\ made < MaxChannels
        /\ CreatePreflight(a, d, amount) /\ CreatePreclaim(a, d, amount)
        /\ cancel = 0 \/ now <= cancel
        /\ made' = c
        /\ channels' = With(channels, c, [src |-> a, dst |-> d, amount |-> amount, paid |-> 0,
                                          delay |-> delay, cancel |-> cancel, expiration |-> 0])
        /\ directory' = [directory EXCEPT ![a] = @ \cup {c}, ![d] = @ \cup {c}]
        /\ balance' = [balance EXCEPT ![a] = @ - amount]
        /\ owners' = [owners EXCEPT ![a] = ConfineOwnerCount(@, 1)]
        /\ signed' = With(signed, c, {}) /\ granted' = With(granted, c, 0)
        /\ since' = With(since, c, 0)
        /\ UNCHANGED now

Expired(ch) == (ch.cancel # 0 /\ now >= ch.cancel) \/ (ch.expiration # 0 /\ now >= ch.expiration)

\* Mutant of CloseChannel: the entry in the directory of the destination stays.
CloseLeavingEntry(c, ch, bal) ==
    /\ channels' = Restrict(channels, DOMAIN channels \ {c})
    /\ directory' = [directory EXCEPT ![ch.src] = @ \ {c}]
    /\ balance' = [bal EXCEPT ![ch.src] = @ + ch.amount - ch.paid]
    /\ owners' = [owners EXCEPT ![ch.src] = ConfineOwnerCount(@, -1)]

\* closeChannel, for a channel whose record, balances and history are given.
CloseChannel(c, ch, bal) ==
    /\ channels' = Restrict(channels, DOMAIN channels \ {c})
    /\ directory' = [directory EXCEPT ![ch.src] = @ \ {c}, ![ch.dst] = @ \ {c}]
    /\ balance' = [bal EXCEPT ![ch.src] = @ + ch.amount - ch.paid]
    /\ owners' = [owners EXCEPT ![ch.src] = ConfineOwnerCount(@, -1)]

TouchExpired(c) ==
    /\ Expired(channels[c])
    /\ CloseChannel(c, channels[c], balance)
    /\ UNCHANGED <<now, made, history>>

\* Mutant of MinExpiration: the settle delay is not waited for.
MinExpirationNow(ch) == now

MinExpiration(ch) ==
    IF ch.expiration # 0 /\ ch.expiration < now + ch.delay THEN ch.expiration ELSE now + ch.delay
CanFund(a, amount) == balance[a] >= AccountReserve(owners[a]) + amount
PayChanFund(a, c, amount, extend) ==
    LET ch == channels[c]
    IN  /\ ~Expired(ch) /\ a = ch.src
        /\ extend = 0 \/ extend >= MinExpiration(ch)
        /\ CanFund(a, amount)
        /\ channels' = [channels EXCEPT ![c].amount = @ + amount,
                                        ![c].expiration = IF extend = 0 THEN @ ELSE extend]
        /\ balance' = [balance EXCEPT ![a] = @ - amount]
        /\ since' = [since EXCEPT ![c] = IF extend # 0 /\ ch.expiration = 0 THEN now ELSE @]
        /\ UNCHANGED <<now, made, owners, directory, signed, granted>>

\* Off the ledger, the owner signs a claim for an amount.
SignClaim(c, amount) ==
    /\ amount \notin signed[c]
    /\ signed' = [signed EXCEPT ![c] = @ \cup {amount}]
    /\ granted' = [granted EXCEPT ![c] = Max({@, amount})]
    /\ UNCHANGED <<now, made, ledger, since>>

\* PayChanClaim: req is the new balance, 0 when none is asked; the signature,
\* when there is one, is for an amount of `signed'.
HasSignature(c, req) == \E s \in signed[c] : s >= req
ClaimPreflight(c, req, flag, withSignature) ==
    /\ withSignature => HasSignature(c, req)
    /\ flag \in {"none", "renew", "close"}
ClaimPreclaim(a, c) == channels[c].dst \in DepositAuth => a = channels[c].dst
PayChanClaim(a, c, req, flag) ==
    LET ch   == channels[c]
        paid == IF req = 0 THEN ch.paid ELSE req
        bal  == [balance EXCEPT ![ch.dst] = @ + paid - ch.paid]
        settle == now + ch.delay
        dry  == flag = "close" /\ (a = ch.dst \/ paid = ch.amount)
        expire == IF flag = "renew" THEN 0
                  ELSE IF flag = "close" /\ (ch.expiration = 0 \/ ch.expiration > settle) THEN settle
                  ELSE ch.expiration
    IN  /\ \E withSignature \in BOOLEAN :
              /\ ClaimPreflight(c, req, flag, withSignature)
              /\ req # 0 /\ a = ch.dst => withSignature
        /\ ~Expired(ch) /\ a \in {ch.src, ch.dst}
        /\ req # 0 => req <= ch.amount /\ req > ch.paid /\ ClaimPreclaim(a, c)
        /\ flag = "renew" => a = ch.src
        /\ \/ /\ dry
              /\ CloseChannel(c, [ch EXCEPT !.paid = paid], bal)
              /\ UNCHANGED since
           \/ /\ ~dry
              /\ channels' = [channels EXCEPT ![c].paid = paid, ![c].expiration = expire]
              /\ balance' = bal
              /\ since' = [since EXCEPT ![c] =
                     IF expire = 0 THEN 0 ELSE IF ch.expiration = 0 THEN now ELSE @]
              /\ UNCHANGED <<owners, directory>>
        /\ granted' = [granted EXCEPT ![c] = IF a = ch.src THEN Max({@, paid}) ELSE @]
        /\ UNCHANGED <<now, made, signed>>

LedgerCloses ==
    /\ now < MaxTime /\ now' = now + 1
    /\ UNCHANGED <<made, ledger, history>>

OnChannel(c) ==
    \/ TouchExpired(c)
    \/ \E a \in Accounts, amount \in Amounts, extend \in {0} \cup now .. MaxTime : PayChanFund(a, c, amount, extend)
    \/ \E amount \in Amounts : SignClaim(c, amount)
    \/ \E a \in Accounts, req \in {0} \cup Amounts, flag \in {"none", "renew", "close"} : PayChanClaim(a, c, req, flag)
Next ==
    \/ LedgerCloses
    \/ \E a, d \in Accounts, amount \in Amounts, delay \in Delays, cancel \in {0, MaxTime} :
          PayChanCreate(a, d, amount, delay, cancel)
    \/ \E c \in DOMAIN channels : OnChannel(c)
Spec == Init /\ [][Next]_vars
-----------------------------------------------------------------------------
\* XRP is neither made nor lost: what the accounts hold and what the channels
\* still hold for them is the same after every create, fund, claim and close.
Held == [c \in DOMAIN channels |-> channels[c].amount - channels[c].paid]
XrpConserved == SumFunction(balance) + SumFunction(Held) = Funds * Cardinality(Accounts)

\* The owner count is the number of channels owned, and the directories of the
\* owner and of the destination list a channel exactly while it exists.
ObjectsAccounted ==
    \A a \in Accounts :
        /\ owners[a] = Cardinality({c \in DOMAIN channels : channels[c].src = a})
        /\ directory[a] = {c \in DOMAIN channels : a \in {channels[c].src, channels[c].dst}}

\* A channel never pays out more than it holds, and never more than the owner
\* signed for or claimed: closing, renewing and funding do not widen a claim.
PaidIsGranted ==
    \A c \in DOMAIN channels :
        channels[c].paid <= channels[c].amount /\ channels[c].paid <= granted[c]

\* "the owner must wait out a delay to close the channel": from the moment an
\* expiration is set, by a close or by funding, it stays at least the settle
\* delay away, however often the owner funds or asks to close again.
OwnerWaits ==
    \A c \in DOMAIN channels :
        channels[c].expiration # 0 => channels[c].expiration >= since[c] + channels[c].delay

\* The books of the channels balance: no XRP is made or lost, and owner counts
\* and directories know exactly the channels there are.
ChannelsAccounted == XrpConserved /\ ObjectsAccounted

\* A channel pays and ends on its terms: never more than was granted, never
\* sooner than the settle delay after its end was set.
ChannelsOnTerms == PaidIsGranted /\ OwnerWaits
=============================================================================
