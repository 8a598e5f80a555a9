---------------------------- MODULE XChainBridge ----------------------------
(***************************************************************************)
(* A bridge of drops between two ledgers, one direction of it: commits on  *)
(* the source ledger, and on the destination ledger the claim ids, the     *)
(* attestations of the witnesses, the claims, and the accounts created     *)
(* without a claim id.  Witnesses are outside the program: each attests    *)
(* only what happened on the source ledger, as often as it likes and in    *)
(* any order.  The list of witnesses is the signer list of the destination *)
(* door and may change at any time.                                        *)
(***************************************************************************)
EXTENDS AccountRoot, Sequences, SequencesExt, Functions, TLC

CONSTANTS
    User,             \* accounts on both ledgers that commit and claim
    New,              \* accounts that may be created on the destination
    Witness,          \* witnesses; each is also its reward account
    NoRewardAccount,  \* witnesses whose reward account does not exist
    Guarded,          \* users with DepositAuth and no preauthorization
    Revocable,        \* witnesses whose account may change its keys
    SignerLists,      \* the signer lists the door may set
    Quorum,
    Amounts,          \* amounts committed
    Rewards,          \* signature rewards a bridge may ask for
    MinCreates,       \* minimum amounts for account creation; 0 disables it
    MaxClaimIDs, MaxCommits, MaxCreates,    \* bounds
    CreateWindow,     \* xbridgeMaxAccountCreateClaims
    Funds,            \* drops of every account at first
    DoorFunds         \* and of the destination door

VARIABLES
    bridge,    \* [src, dst]: signature reward and minimum for account creation
    src,       \* balances on the source ledger
    bal,       \* balances of the accounts that exist on the destination
    count,     \* their owner counts
    commits,   \* what was committed: sequence of records
    creates,   \* account creations committed, in order of their count
    nextID,    \* sfXChainClaimID of the destination bridge
    claims,    \* claim ids in being
    pending,   \* create-account claim ids in being
    claimed,   \* sfXChainAccountClaimCount
    signers,   \* the witnesses of the door's signer list
    revoked,   \* witnesses whose signing key is no key of their account any more
    paid       \* history: what the door released

vars == <<bridge, src, bal, count, commits, creates, nextID, claims, pending, claimed, signers, revoked, paid>>

Door == "door"
None == "none"
NoBridge == [reward |-> 0, min |-> -1]
Open(side) == bridge[side].min >= 0
Existing == DOMAIN bal

(***************************************************************************)
(* Setting up.  XChainCreateBridge and BridgeModify on either ledger.      *)
(***************************************************************************)
CreateBridgePreclaim(side) ==
    /\ ~Open(side)
    /\ side = "dst" => bal[Door] >= AccountReserve(count[Door] + 1)
CreateBridge(side, reward, min) ==
    /\ CreateBridgePreclaim(side)
    /\ bridge' = [bridge EXCEPT ![side] = [reward |-> reward, min |-> min]]
    /\ count' = IF side = "dst" THEN [count EXCEPT ![Door] = @ + 1] ELSE count
    /\ UNCHANGED <<src, bal, commits, creates, nextID, claims, pending, claimed, signers, revoked, paid>>

BridgeModify(side, reward, min) ==
    /\ Open(side)
    /\ bridge' = [bridge EXCEPT ![side] = [reward |-> reward, min |-> min]]
    /\ UNCHANGED <<src, bal, count, commits, creates, nextID, claims, pending, claimed, signers, revoked, paid>>

SetSigners(list) ==
    /\ list # signers
    /\ signers' = list
    /\ UNCHANGED <<bridge, src, bal, count, commits, creates, nextID, claims, pending, claimed, revoked, paid>>

\* The account of a witness disables its master key or changes its regular
\* key: what it signs with that key no longer counts.
RevokeKey(w) ==
    /\ w \notin revoked
    /\ revoked' = revoked \union {w}
    /\ UNCHANGED <<bridge, src, bal, count, commits, creates, nextID, claims, pending, claimed, signers, paid>>

(***************************************************************************)
(* transferHelper, for drops.  m is [bal, count, ter].                     *)
(***************************************************************************)
Money(b, n) == [bal |-> b, count |-> n, ter |-> "tesSUCCESS"]
Refused(m, ter) == [m EXCEPT !.ter = ter]
TransferHelper(m, from, to, amount, canCreate, bypass) ==
    IF from = to THEN m
    ELSE IF to \in DOMAIN m.bal /\ to \in Guarded /\ ~bypass THEN Refused(m, "tecNO_PERMISSION")
    ELSE IF to \notin DOMAIN m.bal /\ ~canCreate THEN Refused(m, "tecNO_DST")
    ELSE IF m.bal[from] < amount + AccountReserve(m.count[from])
    THEN Refused(m, "tecUNFUNDED_PAYMENT")
    ELSE IF to \in DOMAIN m.bal
    THEN [m EXCEPT !.bal = [@ EXCEPT ![from] = @ - amount, ![to] = @ + amount]]
    ELSE IF amount < AccountReserve(0) THEN Refused(m, "tecNO_DST_INSUF_XRP")
    ELSE [m EXCEPT !.bal = (to :> amount) @@ [@ EXCEPT ![from] = @ - amount],
                   !.count = (to :> 0) @@ @]

\* The source door takes what is committed.
Committed(u, amount) ==
    /\ src[u] >= amount + AccountReserve(0)
    /\ src' = [src EXCEPT ![u] = @ - amount, ![Door] = @ + amount]

Commit(u, id, amount, dst) ==
    /\ Open("src")
    /\ Len(commits) < MaxCommits
    /\ Committed(u, amount)
    /\ commits' = Append(commits, [id |-> id, from |-> u, amount |-> amount, dst |-> dst])
    /\ UNCHANGED <<bridge, bal, count, creates, nextID, claims, pending, claimed, signers, revoked, paid>>

CreateAccountCommitPreclaim(amount, reward) ==
    /\ Open("src")
    /\ reward = bridge["src"].reward
    /\ bridge["src"].min > 0 /\ amount >= bridge["src"].min
CreateAccountCommit(u, amount, reward, dst) ==
    /\ Len(creates) < MaxCreates
    /\ CreateAccountCommitPreclaim(amount, reward)
    /\ Committed(u, amount + reward)
    /\ creates' = Append(creates, [amount |-> amount, reward |-> reward, dst |-> dst])
    /\ UNCHANGED <<bridge, bal, count, commits, nextID, claims, pending, claimed, signers, revoked, paid>>

CreateClaimIDPreclaim(u, reward) ==
    /\ Open("dst")
    /\ reward = bridge["dst"].reward
    /\ bal[u] >= AccountReserve(count[u] + 1)
CreateClaimID(u, from, reward) ==
    /\ nextID < MaxClaimIDs
    /\ CreateClaimIDPreclaim(u, reward)
    /\ nextID' = nextID + 1
    /\ claims' = claims @@ (nextID' :> [owner |-> u, from |-> from, reward |-> reward,
                                        atts |-> [w \in {} |-> <<>>]])
    /\ count' = [count EXCEPT ![u] = @ + 1]
    /\ UNCHANGED <<bridge, src, bal, commits, creates, pending, claimed, signers, revoked, paid>>

(***************************************************************************)
(* Attestations.  atts is a function from the witnesses that have one; a   *)
(* later one of the same witness replaces it.  claimHelper first forgets   *)
(* those of witnesses no longer listed, or whose key was replaced.         *)
(***************************************************************************)
CheckAttestationPublicKey(w) == w \in signers \ revoked
Standing(atts) == [w \in {v \in DOMAIN atts : CheckAttestationPublicKey(v)} |-> atts[w]]
Matching(atts, what, checkDst) ==
    {w \in DOMAIN atts : /\ atts[w].amount = what.amount
                         /\ checkDst => atts[w].dst = what.dst}

\* Mutant of ClaimHelper: attestations of witnesses no longer listed count.
ClaimHelperAnyone(atts, what, checkDst) == Matching(atts, what, checkDst)

ClaimHelper(atts, what, checkDst) == Matching(Standing(atts), what, checkDst)
HasQuorum(ws) == Cardinality(ws) >= Quorum
OnNewAttestation(atts, w, what) == (w :> what) @@ atts

\* finalizeClaimHelper.  The main funds and the rewards are moved in an inner
\* sandbox; what happens when one fails depends on whether the claim is kept.
Share(pool, ws) == pool \div Cardinality(ws)
Rewarded(m, from, pool, ws) ==
    FoldSet(LAMBDA w, n :
               IF n.ter # "tesSUCCESS" THEN n
               ELSE LET t == TransferHelper(n, from, w, Share(pool, ws), FALSE, FALSE)
                    IN  IF t.ter = "tecUNFUNDED_PAYMENT" THEN t ELSE [t EXCEPT !.ter = "tesSUCCESS"],
            [m EXCEPT !.ter = "tesSUCCESS"], ws)
Main(to, owner, amount, bypass) ==
    TransferHelper(Money(bal, count), Door, to, amount, TRUE, bypass /\ to = owner)
\* With the claim kept, nothing moves unless everything does.  With the claim
\* removed, rewards are paid though the main transfer failed, and a failing
\* reward undoes a main transfer that succeeded.
KeepClaimOutcome(main, rewarded) ==
    IF main.ter # "tesSUCCESS" THEN Refused(Money(bal, count), main.ter) ELSE rewarded
RemoveClaimOutcome(main, rewarded) ==
    IF main.ter = "tesSUCCESS" /\ rewarded.ter # "tesSUCCESS"
    THEN Refused(Money(bal, count), rewarded.ter)
    ELSE [rewarded EXCEPT !.ter = main.ter]   \* the rewards paid so far are kept
FinalizeKeep(to, owner, amount, pool, ws, bypass) ==
    LET main == Main(to, owner, amount, bypass)
    IN  KeepClaimOutcome(main, Rewarded(main, owner, pool, ws))
FinalizeRemove(to, amount, pool, ws) ==
    LET main == Main(to, None, amount, FALSE)
    IN  RemoveClaimOutcome(main, Rewarded(main, Door, pool, ws))

DropClaim(id) == [i \in DOMAIN claims \ {id} |-> claims[i]]

\* Mutant of Claimed: the claim id stays after the claim.
ClaimedKept(id, out, to, amount, ws) ==
    /\ bal' = out.bal /\ count' = out.count /\ claims' = claims
    /\ paid' = Append(paid, [kind |-> "claim", id |-> id, to |-> to, amount |-> amount, by |-> ws])

\* A successful claim: money, rewards, and the claim id is gone.
Claimed(id, out, to, amount, ws) ==
    /\ bal' = out.bal
    /\ count' = [out.count EXCEPT ![claims[id].owner] = ConfineOwnerCount(@, -1)]
    /\ claims' = DropClaim(id)
    /\ paid' = Append(paid, [kind |-> "claim", id |-> id, to |-> to, amount |-> amount, by |-> ws])

(***************************************************************************)
(* XChainAddClaimAttestation by witness w of the k-th commit.              *)
(***************************************************************************)
Attested(id, w, c, atts) ==
    LET ws == ClaimHelper(atts, c, TRUE)
        out == FinalizeKeep(c.dst, claims[id].owner, c.amount, claims[id].reward, ws, FALSE)
    IN  IF HasQuorum(ws) /\ c.dst # None /\ out.ter = "tesSUCCESS"
        THEN Claimed(id, out, c.dst, c.amount, ws)
        ELSE /\ claims' = [claims EXCEPT ![id].atts = Standing(atts)]
             /\ UNCHANGED <<bal, count, paid>>
AttestationPreclaim(w) == Open("dst") /\ CheckAttestationPublicKey(w)
AddClaimAttestation(w, k) ==
    LET c == commits[k]
    IN  /\ w \in signers
        /\ c.id \in DOMAIN claims
        /\ claims[c.id].from = c.from
        /\ Attested(c.id, w, c, OnNewAttestation(claims[c.id].atts, w, [amount |-> c.amount, dst |-> c.dst]))
        /\ UNCHANGED <<bridge, src, commits, creates, nextID, pending, claimed, signers, revoked>>

\* XChainClaim by the owner of the claim id: the destination need not be the
\* attested one.
Claim(id, to, amount) ==
    LET c == claims[id]
        ws == ClaimHelper(c.atts, [amount |-> amount], FALSE)
        out == FinalizeKeep(to, c.owner, amount, c.reward, ws, TRUE)
    IN  /\ to \in Existing
        /\ HasQuorum(ws)
        /\ out.ter = "tesSUCCESS"
        /\ Claimed(id, out, to, amount, ws)
        /\ UNCHANGED <<bridge, src, commits, creates, nextID, pending, claimed, signers, revoked>>

(***************************************************************************)
(* XChainAddAccountCreateAttestation by witness w of the n-th creation.    *)
(***************************************************************************)
\* The object goes with the claim; its reserve was charged to the door.
DropPending(n) == [i \in DOMAIN pending \ {n} |-> pending[i]]
Created(n, c, ws, out) ==
    /\ bal' = out.bal
    /\ count' = IF n \in DOMAIN pending
                THEN [out.count EXCEPT ![Door] = ConfineOwnerCount(@, -1)] ELSE out.count
    /\ pending' = DropPending(n)
    /\ claimed' = n
    /\ paid' = Append(paid, [kind |-> "create", id |-> n, to |-> c.dst, amount |-> c.amount, by |-> ws])
Recorded(n, atts) ==
    /\ pending' = (n :> Standing(atts)) @@ pending
    /\ count' = IF n \in DOMAIN pending THEN count ELSE [count EXCEPT ![Door] = @ + 1]
    /\ UNCHANGED <<bal, claimed, paid>>
InTurn(n) == claimed + 1 = n
Attestable(n) == n > claimed /\ n < claimed + CreateWindow
AttestedCreate(n, c, atts) ==
    LET ws == ClaimHelper(atts, c, TRUE)
        out == FinalizeRemove(c.dst, c.amount, c.reward, ws)
    IN  IF HasQuorum(ws) /\ InTurn(n)
        THEN out.ter # "tecUNFUNDED_PAYMENT" /\ Created(n, c, ws, out)
        ELSE Recorded(n, atts)
AttsOf(n) == IF n \in DOMAIN pending THEN pending[n] ELSE [w \in {} |-> <<>>]
AddAccountCreateAttestation(w, n) ==
    /\ AttestationPreclaim(w)
    /\ Attestable(n)
    /\ n \notin DOMAIN pending => bal[Door] >= AccountReserve(count[Door] + 1)
    /\ AttestedCreate(n, creates[n], OnNewAttestation(AttsOf(n), w,
                          [amount |-> creates[n].amount, dst |-> creates[n].dst]))
    /\ UNCHANGED <<bridge, src, commits, creates, nextID, claims, signers, revoked>>

Init ==
    /\ bridge = [side \in {"src", "dst"} |-> NoBridge]
    /\ src = [a \in User \union {Door} |-> Funds]
    /\ bal = [a \in User \union {Door} \union (Witness \ NoRewardAccount) |->
              IF a = Door THEN DoorFunds ELSE Funds]
    /\ count = [a \in DOMAIN bal |-> 0]
    /\ commits = <<>> /\ creates = <<>>
    /\ nextID = 0 /\ claims = [i \in {} |-> {}]
    /\ pending = [i \in {} |-> {}] /\ claimed = 0
    /\ signers \in SignerLists /\ revoked = {}
    /\ paid = <<>>

Next ==
    \/ \E side \in {"src", "dst"}, r \in Rewards, m \in MinCreates :
          CreateBridge(side, r, m) \/ BridgeModify(side, r, m)
    \/ \E list \in SignerLists : SetSigners(list)
    \/ \E w \in Revocable : RevokeKey(w)
    \/ \E u \in User, id \in 1..MaxClaimIDs, x \in Amounts, d \in User \union {None} : Commit(u, id, x, d)
    \/ \E u \in User, x \in Amounts, r \in Rewards, d \in New : CreateAccountCommit(u, x, r, d)
    \/ \E u, f \in User, r \in Rewards : CreateClaimID(u, f, r)
    \/ \E w \in Witness, k \in DOMAIN commits : AddClaimAttestation(w, k)
    \/ \E id \in DOMAIN claims, to \in User, x \in Amounts : Claim(id, to, x)
    \/ \E w \in Witness, n \in DOMAIN creates : AddAccountCreateAttestation(w, n)

Spec == Init /\ [][Next]_vars

-----------------------------------------------------------------------------
(* What is checked *)

\* Balances and owner counts are natural numbers, and every owner count is
\* what the account's claim ids (for the door: pending creations and its
\* bridge) add up to, whatever was created, attested, claimed or dropped.
TypeOK ==
    /\ \A a \in Existing : bal[a] \in Nat
    /\ \A u \in User : count[u] = Cardinality({i \in DOMAIN claims : claims[i].owner = u})
    /\ count[Door] = Cardinality(DOMAIN pending) + (IF Open("dst") THEN 1 ELSE 0)

\* The door releases for a claim id at most once, and only what was really
\* committed for it: the claim id is destroyed with the claim, and ids are
\* never given out again.
PaidOnce ==
    \A i, j \in DOMAIN paid :
        /\ i # j => <<paid[i].kind, paid[i].id>> # <<paid[j].kind, paid[j].id>>
        /\ paid[i].kind = "claim" =>
              \E k \in DOMAIN commits : commits[k].id = paid[i].id /\ commits[k].amount = paid[i].amount

\* Accounts are created in the order their creations were committed on the
\* other ledger, none left out: nothing else stops a replayed attestation.
CreatedInOrder ==
    LET done == SelectSeq(paid, LAMBDA p : p.kind = "create")
    IN  \A n \in DOMAIN done : /\ done[n].id = n
                               /\ done[n].amount = creates[n].amount /\ done[n].to = creates[n].dst

\* Money is released only on the word of a quorum of witnesses that are
\* listed, with their keys in force, when it is released, and that attested this amount: of those, all
\* but the one that attests in this very step did so earlier.
QuorumOfListed ==
    [][paid' # paid =>
        LET p == paid'[Len(paid')]
        IN  /\ Cardinality(p.by) >= Quorum /\ p.by \subseteq signers \ revoked
            /\ p.kind = "claim" =>
                  Cardinality({w \in DOMAIN claims[p.id].atts \intersect (signers \ revoked) :
                                  claims[p.id].atts[w].amount = p.amount}) >= Quorum - 1]_vars

\* A claim that cannot be paid in full with its rewards moves nothing, and
\* its claim id stays: finalizeClaimHelper's inner sandbox.  As long as no
\* creation completes, money moves only with a claim that is paid in full.
AllOrNothing ==
    [][claimed' = claimed =>
        /\ bal' # bal => Len(paid') = Len(paid) + 1
        /\ DOMAIN claims \subseteq DOMAIN claims' \/ Len(paid') = Len(paid) + 1
        /\ Len(paid') > Len(paid) =>
              bal'[Door] = bal[Door] - paid'[Len(paid')].amount]_vars

\* Witness rewards come out of the claim owner's pocket, never more than the
\* pool that was agreed, and never below the owner's reserve.
RewardsWithinPool ==
    [][Len(paid') > Len(paid) /\ claimed' = claimed =>
        LET p == paid'[Len(paid')]
            o == claims[p.id].owner
        IN  p.to # o => /\ bal[o] - bal'[o] <= claims[p.id].reward
                        /\ bal'[o] < bal[o] => bal'[o] >= AccountReserve(count'[o])]_vars
=============================================================================
