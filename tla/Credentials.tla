---------------------------- MODULE Credentials ----------------------------
(***************************************************************************)
(* Credentials, deposit authorization by account or by credentials, and    *)
(* permissioned domains (Credentials.cpp, CredentialHelpers.cpp,           *)
(* DepositPreauth.cpp, PermissionedDomainSet.cpp,                          *)
(* PermissionedDomainDelete.cpp, PermissionedDEXHelpers.cpp).  A           *)
(* credential has the key <<subject, issuer, type>>.  It counts against    *)
(* its issuer until the subject accepts it, then against the subject, and  *)
(* sits in the owner directories of both.  A transaction that finds a      *)
(* credential expired deletes it and fails with tecEXPIRED; the deletion   *)
(* survives the failure.                                                   *)
(***************************************************************************)
EXTENDS AccountRoot, Functions, TLC

CONSTANTS
    Accounts, Types, Funds,   \* Funds[a]: balance of a, which nothing here changes
    Guarded,                  \* accounts with the DepositAuth flag
    Openers,                  \* accounts that open domains
    MaxTime, MaxSeq

Never == MaxTime + 1
Keys == Accounts \X Accounts \X Types
Pairs == Accounts \X Types
Sets == {S \in SUBSET Pairs : Cardinality(S) \in 1 .. 2}

VARIABLES
    now, alive,        \* parentCloseTime, the accounts that exist
    credentials,       \* key -> [accepted, expires]
    preauths,          \* [owner, kind, who]: kind "account" or "credentials"
    domains,           \* <<owner, sequence>> -> accepted (issuer, type) pairs
    sequence,          \* next transaction sequence of each account
    owners, directory,
    paid               \* the last payment let through: sender, receiver, credentials

vars == <<now, alive, credentials, preauths, domains, sequence, owners, directory, paid>>
Nobody == [src |-> {}, dst |-> {}, ids |-> {}]

Subject(k) == k[1]
Issuer(k) == k[2]
Pair(k) == <<k[2], k[3]>>
Entries(K) == {[credential |-> k] : k \in K}
ByAccount(a, b) == [owner |-> a, kind |-> "account", who |-> {b}]
ByCredentials(a, S) == [owner |-> a, kind |-> "credentials", who |-> S]
Preauths == {ByAccount(a, b) : a, b \in Accounts} \cup {ByCredentials(a, S) : a \in Accounts, S \in Sets}

TypeOK ==
    /\ now \in 0 .. MaxTime /\ alive \subseteq Accounts
    /\ DOMAIN credentials \subseteq Keys
    /\ \A k \in DOMAIN credentials : credentials[k] \in [accepted : BOOLEAN, expires : 0 .. Never]
    /\ preauths \subseteq Preauths /\ \A p \in preauths : p.who # {p.owner}
    /\ DOMAIN domains \subseteq Accounts \X (0 .. MaxSeq) /\ Range(domains) \subseteq Sets
    /\ owners \in [Accounts -> Nat]

Init ==
    /\ now = 1 /\ alive = Accounts
    /\ credentials = <<>> /\ preauths = {} /\ domains = <<>>
    /\ sequence = [a \in Accounts |-> 1]
    /\ owners = [a \in Accounts |-> 0] /\ directory = [a \in Accounts |-> {}]
    /\ paid = Nobody

HasReserve(a) == Funds[a] >= AccountReserve(owners[a] + 1)

CheckExpired(k) == now > credentials[k].expires

\* The account whose owner count deleteSLE lowers.
Charged(k) == IF credentials[k].accepted THEN Subject(k) ELSE Issuer(k)

\* deleteSLE of every credential in K.
DeleteSLE(K) ==
    /\ credentials' = Restrict(credentials, DOMAIN credentials \ K)
    /\ directory' = [a \in Accounts |-> directory[a] \ Entries(K)]
    /\ owners' = [a \in Accounts |-> ConfineOwnerCount(owners[a], -Cardinality({k \in K : Charged(k) = a}))]

CreatePreclaim(k) == Subject(k) \in alive /\ k \notin DOMAIN credentials
CredentialCreate(k, expires) ==
    /\ Issuer(k) \in alive /\ CreatePreclaim(k)
    /\ now <= expires /\ HasReserve(Issuer(k))
    /\ credentials' = (k :> [accepted |-> Subject(k) = Issuer(k), expires |-> expires]) @@ credentials
    /\ directory' = [directory EXCEPT ![Issuer(k)] = @ \cup Entries({k}), ![Subject(k)] = @ \cup Entries({k})]
    /\ owners' = [owners EXCEPT ![Issuer(k)] = ConfineOwnerCount(@, 1)]
    /\ UNCHANGED <<now, alive, preauths, domains, sequence, paid>>

DeletePreclaim(k) == k \in DOMAIN credentials
CredentialDelete(a, k) ==
    /\ a \in alive /\ DeletePreclaim(k)
    /\ a \in {Subject(k), Issuer(k)} \/ CheckExpired(k)
    /\ DeleteSLE({k})
    /\ UNCHANGED <<now, alive, preauths, domains, sequence, paid>>

AcceptPreclaim(k) == Issuer(k) \in alive /\ k \in DOMAIN credentials /\ ~credentials[k].accepted
CredentialAccept(k) ==
    /\ Subject(k) \in alive /\ AcceptPreclaim(k) /\ HasReserve(Subject(k))
    /\ IF CheckExpired(k)
       THEN DeleteSLE({k})
       ELSE /\ credentials' = [credentials EXCEPT ![k].accepted = TRUE]
            /\ owners' = [owners EXCEPT ![Issuer(k)] = ConfineOwnerCount(@, -1),
                                        ![Subject(k)] = ConfineOwnerCount(@, 1)]
            /\ UNCHANGED directory
    /\ UNCHANGED <<now, alive, preauths, domains, sequence, paid>>

PreauthPreflight(p) == p # ByAccount(p.owner, p.owner)
PreauthPreclaim(p) ==
    /\ p \notin preauths
    /\ IF p.kind = "account" THEN p.who \subseteq alive ELSE \A pair \in p.who : pair[1] \in alive
DepositPreauth(p) ==
    /\ p.owner \in alive /\ PreauthPreflight(p) /\ PreauthPreclaim(p) /\ HasReserve(p.owner)
    /\ preauths' = preauths \cup {p}
    /\ directory' = [directory EXCEPT ![p.owner] = @ \cup {p}]
    /\ owners' = [owners EXCEPT ![p.owner] = ConfineOwnerCount(@, 1)]
    /\ UNCHANGED <<now, alive, credentials, domains, sequence, paid>>
RemoveFromLedger(p) ==
    /\ p \in preauths
    /\ preauths' = preauths \ {p}
    /\ directory' = [directory EXCEPT ![p.owner] = @ \ {p}]
    /\ owners' = [owners EXCEPT ![p.owner] = ConfineOwnerCount(@, -1)]
    /\ UNCHANGED <<now, alive, credentials, domains, sequence, paid>>

\* A new domain is keyed by the Sequence field, which is 0 in a transaction
\* that uses a ticket; inserting an entry that exists throws.
DomainPreclaim(a, d, S) == a \in alive /\ (\A pair \in S : pair[1] \in alive) /\ (d \in DOMAIN domains => d[1] = a)
DomainCreate(a, ticket, S) ==
    LET d == <<a, IF ticket THEN 0 ELSE sequence[a]>>
    IN  /\ a \in Openers /\ sequence[a] < MaxSeq
        /\ DomainPreclaim(a, d, S) /\ d \notin DOMAIN domains /\ HasReserve(a)
        /\ domains' = domains @@ (d :> S)
        /\ sequence' = [sequence EXCEPT ![a] = IF ticket THEN @ ELSE @ + 1]
        /\ directory' = [directory EXCEPT ![a] = @ \cup {[domain |-> d]}]
        /\ owners' = [owners EXCEPT ![a] = ConfineOwnerCount(@, 1)]
        /\ UNCHANGED <<now, alive, credentials, preauths, paid>>
DomainModify(a, d, S) ==
    /\ d \in DOMAIN domains /\ DomainPreclaim(a, d, S)
    /\ domains' = [domains EXCEPT ![d] = S]
    /\ UNCHANGED <<now, alive, credentials, preauths, sequence, owners, directory, paid>>
DomainDelete(a, d) ==
    /\ d \in DOMAIN domains /\ a = d[1]
    /\ domains' = Restrict(domains, DOMAIN domains \ {d})
    /\ directory' = [directory EXCEPT ![a] = @ \ {[domain |-> d]}]
    /\ owners' = [owners EXCEPT ![a] = ConfineOwnerCount(@, -1)]
    /\ UNCHANGED <<now, alive, credentials, preauths, sequence, paid>>

\* The credentials of `a' that a domain names.
DomainCredentials(a, d) == {k \in DOMAIN credentials : Subject(k) = a /\ Pair(k) \in domains[d]}
Holds(K) == \E k \in K : credentials[k].accepted

ValidDomain(a, d) ==
    LET K == DomainCredentials(a, d)
        current == {k \in K : ~CheckExpired(k)}
    IN  IF Holds(current) THEN "tesSUCCESS" ELSE IF K # current THEN "tecEXPIRED" ELSE "tecNO_AUTH"

\* What verifyValidDomain answers after it removed what has expired.
Verified(a, d) ==
    LET K == DomainCredentials(a, d)
        gone == {k \in K : CheckExpired(k)}
    IN  IF Holds(K \ gone) THEN "tesSUCCESS" ELSE IF gone # {} THEN "tecEXPIRED" ELSE "tecNO_PERMISSION"

AccountInDomain(a, d) ==
    \/ d[1] = a
    \/ \E k \in DomainCredentials(a, d) : credentials[k].accepted /\ ~CheckExpired(k)

\* A transaction that needs a place in a domain.
VerifyValidDomain(a, d) ==
    /\ a \in alive /\ d \in DOMAIN domains
    /\ \E k \in DomainCredentials(a, d) : CheckExpired(k)
    /\ DeleteSLE({k \in DomainCredentials(a, d) : CheckExpired(k)})
    /\ UNCHANGED <<now, alive, preauths, domains, sequence, paid>>

\* A payment from a to b that names the credentials ids: preclaim's `valid',
\* then verifyDepositPreauth.
Valid(a, ids) == \A k \in ids : k \in DOMAIN credentials /\ Subject(k) = a /\ credentials[k].accepted
AuthorizedDepositPreauth(ids, b) ==
    /\ Cardinality({Pair(k) : k \in ids}) = Cardinality(ids)
    /\ ByCredentials(b, {Pair(k) : k \in ids}) \in preauths
Permitted(a, b, ids) ==
    b \notin Guarded \/ a = b \/ ByAccount(b, a) \in preauths \/ (ids # {} /\ AuthorizedDepositPreauth(ids, b))
Expired(ids) == {k \in ids : CheckExpired(k)}
Pay(a, b, ids) ==
    /\ {a, b} \subseteq alive /\ Valid(a, ids)
    /\ IF Expired(ids) # {}
       THEN DeleteSLE(Expired(ids)) /\ UNCHANGED paid
       ELSE /\ Permitted(a, b, ids)
            /\ paid' = [src |-> {a}, dst |-> {b}, ids |-> ids]
            /\ UNCHANGED <<credentials, owners, directory>>
    /\ UNCHANGED <<now, alive, preauths, domains, sequence>>

\* AccountDelete takes the account's credentials, as issuer and as subject, and
\* its preauthorizations; a domain keeps the account.
Ours(a) == {k \in DOMAIN credentials : a \in {Subject(k), Issuer(k)}}
AccountDelete(a) ==
    /\ a \in alive /\ \A d \in DOMAIN domains : d[1] # a
    /\ alive' = alive \ {a}
    /\ preauths' = {p \in preauths : p.owner # a}
    /\ credentials' = Restrict(credentials, DOMAIN credentials \ Ours(a))
    /\ owners' = [b \in Accounts |->
                    IF b = a THEN 0
                    ELSE ConfineOwnerCount(owners[b], -Cardinality({k \in Ours(a) : Charged(k) = b}))]
    /\ directory' = [b \in Accounts |-> IF b = a THEN {} ELSE directory[b] \ Entries(Ours(a))]
    /\ UNCHANGED <<now, domains, sequence, paid>>

LedgerCloses ==
    /\ now < MaxTime /\ now' = now + 1
    /\ UNCHANGED <<alive, credentials, preauths, domains, sequence, owners, directory, paid>>

Next ==
    \/ LedgerCloses
    \/ \E k \in Keys, e \in {1, Never} : CredentialCreate(k, e)
    \/ \E k \in DOMAIN credentials : CredentialAccept(k) \/ \E a \in Accounts : CredentialDelete(a, k)
    \/ \E p \in Preauths : DepositPreauth(p) \/ RemoveFromLedger(p)
    \/ \E a \in Accounts, t \in BOOLEAN, S \in Sets : DomainCreate(a, t, S)
    \/ \E d \in DOMAIN domains, a \in Accounts :
          DomainDelete(a, d) \/ VerifyValidDomain(a, d) \/ \E S \in Sets : DomainModify(a, d, S)
    \/ \E a, b \in Accounts, ids \in SUBSET DOMAIN credentials : Pay(a, b, ids)
    \/ \E a \in Accounts : AccountDelete(a)

Spec == Init /\ [][Next]_vars
-----------------------------------------------------------------------------
Payer(k) == IF credentials[k].accepted THEN Subject(k) ELSE Issuer(k)
Owned(a) ==
    Cardinality({k \in DOMAIN credentials : Payer(k) = a}) + Cardinality({p \in preauths : p.owner = a})
    + Cardinality({d \in DOMAIN domains : d[1] = a})

\* Whatever accepts, deletes, expires or removes them, each account's owner
\* count is what it pays for: the credentials it issued that wait for
\* acceptance, those it accepted, its preauthorizations and its domains; and
\* its directory lists exactly the objects it must clear.
ObjectsAccounted ==
    \A a \in alive :
        /\ owners[a] = Owned(a)
        /\ directory[a] = Entries({k \in DOMAIN credentials : a \in {Subject(k), Issuer(k)}}) \cup {p \in preauths : p.owner = a}
                          \cup {[domain |-> d] : d \in {x \in DOMAIN domains : x[1] = a}}

\* The three ways the code asks whether an account is in a domain (validDomain
\* in preclaim, verifyValidDomain in doApply, accountInDomain for offers) agree
\* on everyone but the domain's owner, expired credentials included.
MembershipAgrees ==
    \A d \in DOMAIN domains, a \in alive :
        /\ ValidDomain(a, d) = "tesSUCCESS" <=> Verified(a, d) = "tesSUCCESS"
        /\ ValidDomain(a, d) = "tecEXPIRED" <=> Verified(a, d) = "tecEXPIRED"
        /\ a # d[1] => (AccountInDomain(a, d) <=> Verified(a, d) = "tesSUCCESS")

\* A guarded account is paid by another one only on an authorization it still
\* has, and no credential used for it, or merely named, had expired.
PaidByAuthorityNow ==
    [][ paid' # paid =>
          \A a \in paid'.src, b \in paid'.dst :
             /\ \A k \in paid'.ids : credentials[k].accepted /\ now <= credentials[k].expires
             /\ b \in Guarded /\ a # b =>
                  \/ ByAccount(b, a) \in preauths
                  \/ \E p \in preauths : p.owner = b /\ p.kind = "credentials" /\ p.who = {Pair(k) : k \in paid'.ids} ]_vars

\* Every credential belongs to accounts that exist: deleting either party
\* takes it along, so an accepted credential never outlives its issuer.
NoOrphans ==
    \A k \in DOMAIN credentials : {Subject(k), Issuer(k)} \subseteq alive
=============================================================================
