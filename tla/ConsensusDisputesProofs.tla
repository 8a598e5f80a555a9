---------------------- MODULE ConsensusDisputesProofs -----------------------
(***************************************************************************)
(* For all peers, transactions, ledgers and parameters: the disputes of    *)
(* the consensus engine cover all differences with the peers' positions,   *)
(* every vote is that of a current position, and ours is that of our set;  *)
(* the vote counters of a DisputedTx are exact, and updateVote does not    *)
(* flap.                                                                   *)
(***************************************************************************)
EXTENDS ConsensusProofs, DisputedTx

-----------------------------------------------------------------------------
(* The invariant on disputes. *)

\* The disputes ds and compared sets cmp are right for our set, the current
\* positions and the sets at hand, except for what the peers in E hold and
\* vote: every compared set's differences are disputed, every current
\* position at hand has been compared, and the votes are those of the
\* positions.
DisputesRight(ds, cmp, ours, curr, sets, E) ==
  /\ \A o \in cmp : SymDiff(ours, o) \subseteq DOMAIN ds
  /\ \A n \in DOMAIN curr \ E : curr[n].set \in sets => curr[n].set \in cmp
  /\ \A t \in DOMAIN ds :
       /\ ds[t].ourVote = (t \in ours)
       /\ \A n \in Peers \ E :
            /\ n \notin DOMAIN curr => ds[t].votes[n] = "none"
            /\ n \in DOMAIN curr /\ curr[n].set \in sets =>
                 ds[t].votes[n] = AsVote(t \in curr[n].set)

\* updateDisputes repairs what is wrong about the nodes it is called for.
LEMMA UpdateDisputesRight ==
  ASSUME NEW ds, NEW cmp \in SUBSET TxSets, NEW nodes, NEW other \in TxSets,
         NEW ours \in TxSets, NEW curr, NEW sets,
         IsPartialFunction(ds, Txs, Dispute),
         DisputesRight(ds, cmp, ours, curr, sets, nodes),
         nodes # {},
         \A n \in nodes : n \in DOMAIN curr /\ curr[n].set = other,
         other \in sets
  PROVE  /\ IsPartialFunction(UpdateDisputes(ds, cmp, nodes, other, ours,
                                             curr, sets), Txs, Dispute)
         /\ DisputesRight(UpdateDisputes(ds, cmp, nodes, other, ours, curr,
                                         sets),
                          cmp \cup {other}, ours, curr, sets, {})
<1> DEFINE others == {other} \ cmp
           mid == CreateDisputes(ds, others, ours, curr, sets)
           new == SetVotes(mid, nodes, other)
<1>1. UpdateDisputes(ds, cmp, nodes, other, ours, curr, sets) = new
  BY DEF UpdateDisputes
<1>2. others \in SUBSET TxSets
  OBVIOUS
<1>3. Created(mid, ds, others, ours, curr, sets)
  <2> HIDE DEF others
  <2> QED
    BY <1>2, CreateDisputesFacts
<1>4. Differences(ours, others) = IF other \in cmp THEN {}
                                  ELSE SymDiff(ours, other)
  BY DEF Differences
<1> HIDE DEF mid, others
<1>5. /\ IsPartialFunction(new, Txs, Dispute)
      /\ DOMAIN new = DOMAIN mid
      /\ \A t \in DOMAIN mid :
           /\ new[t].ourVote = mid[t].ourVote
           /\ \A n \in Peers :
                new[t].votes[n] = IF n \in nodes THEN AsVote(t \in other)
                                  ELSE mid[t].votes[n]
  BY <1>3, SetVotesFacts DEF Created
<1> HIDE DEF new
<1>6. \A o \in cmp \cup {other} : SymDiff(ours, o) \subseteq DOMAIN new
  BY <1>3, <1>4, <1>5 DEF DisputesRight, Created
<1>7. \A n \in DOMAIN curr \ {} : curr[n].set \in sets =>
                                    curr[n].set \in cmp \cup {other}
  BY DEF DisputesRight
<1>8. \A t \in DOMAIN new : new[t].ourVote = (t \in ours)
  BY <1>3, <1>5 DEF DisputesRight, Created
<1>9. ASSUME NEW t \in DOMAIN new, NEW n \in Peers
      PROVE  /\ n \notin DOMAIN curr => new[t].votes[n] = "none"
             /\ n \in DOMAIN curr /\ curr[n].set \in sets =>
                  new[t].votes[n] = AsVote(t \in curr[n].set)
  <2>1. CASE n \in nodes
    BY <1>5, <2>1
  <2>2. CASE n \notin nodes /\ t \in DOMAIN ds
    BY <1>3, <1>5, <2>2 DEF DisputesRight, Created
  <2>3. CASE n \notin nodes /\ t \notin DOMAIN ds
    <3>1. new[t].votes[n] = mid[t].votes[n]
      BY <1>5, <2>3
    <3>2. mid[t].votes = PeerVotes(curr, sets, t)
      BY <1>3, <1>5, <2>3 DEF Created
    <3> QED
      BY <3>1, <3>2, PeerVote
  <2> QED
    BY <2>1, <2>2, <2>3
<1> QED
  BY <1>1, <1>5, <1>6, <1>7, <1>8, <1>9 DEF DisputesRight

\* Only the sets of the positions matter.
LEMMA SameSetsRight ==
  ASSUME NEW ds, NEW cmp, NEW ours, NEW curr, NEW curr2, NEW sets,
         DisputesRight(ds, cmp, ours, curr, sets, {}),
         DOMAIN curr2 = DOMAIN curr,
         \A n \in DOMAIN curr : curr2[n].set = curr[n].set
  PROVE  DisputesRight(ds, cmp, ours, curr2, sets, {})
  BY DEF DisputesRight

\* A new position of a peer concerns this peer only, and nobody as long as its
\* set is not at hand.
LEMMA NewPositionRight ==
  ASSUME NEW ds, NEW cmp, NEW ours, NEW curr, NEW sets, NEW n \in Peers,
         NEW p \in PeerPosition,
         IsPartialFunction(curr, Peers, PeerPosition),
         DisputesRight(ds, cmp, ours, curr, sets, {})
  PROVE  /\ DisputesRight(ds, cmp, ours, With(curr, n, p), sets, {n})
         /\ p.set \notin sets =>
              DisputesRight(ds, cmp, ours, With(curr, n, p), sets, {})
<1> DEFINE new == With(curr, n, p)
<1>1. /\ DOMAIN new = DOMAIN curr \cup {n} /\ new[n] = p
      /\ \A m \in DOMAIN curr : m # n => new[m] = curr[m]
  BY DEF With
<1> HIDE DEF new
<1>2. DisputesRight(ds, cmp, ours, new, sets, {n})
  BY <1>1 DEF DisputesRight
<1>3. p.set \notin sets => DisputesRight(ds, cmp, ours, new, sets, {})
  BY <1>1 DEF DisputesRight
<1> QED
  BY <1>2, <1>3 DEF new

\* A set that was not at hand concerns only the peers that hold it.
LEMMA NewSetRight ==
  ASSUME NEW ds, NEW cmp, NEW ours, NEW curr, NEW sets, NEW set,
         set \notin sets,
         DisputesRight(ds, cmp, ours, curr, sets, {})
  PROVE  DisputesRight(ds, cmp, ours, curr, sets \cup {set},
                       Holders(curr, set))
  BY DEF DisputesRight, Holders

\* A peer without a position and without votes.
LEMMA BowOutRight ==
  ASSUME NEW ds, NEW cmp, NEW ours, NEW curr, NEW sets, NEW S,
         IsPartialFunction(ds, Txs, Dispute),
         IsPartialFunction(curr, Peers, PeerPosition),
         DisputesRight(ds, cmp, ours, curr, sets, {})
  PROVE  DisputesRight(UnVotes(ds, S), cmp, ours, Without(curr, S), sets, {})
<1> DEFINE new == UnVotes(ds, S)
           rest == Without(curr, S)
<1>1. /\ DOMAIN new = DOMAIN ds
      /\ \A t \in DOMAIN ds :
           /\ new[t].ourVote = ds[t].ourVote
           /\ \A n \in Peers : new[t].votes[n] =
                                 IF n \in S THEN "none" ELSE ds[t].votes[n]
  BY UnVotesFacts
<1>2. /\ DOMAIN rest = DOMAIN curr \ S
      /\ \A y \in DOMAIN curr \ S : rest[y] = curr[y]
  BY DEF Without
<1> HIDE DEF new, rest
<1>3. DisputesRight(new, cmp, ours, rest, sets, {})
  BY <1>1, <1>2 DEF DisputesRight
<1> QED
  BY <1>3 DEF new, rest
-----------------------------------------------------------------------------
(* The inductive invariant. *)

DisputesOK ==
  haveResult => DisputesRight(disputes, compares, txns, currPeerPositions,
                              acquired, {})

\* StanceConsistent says that our own set is at hand, so that gotTxSet never
\* meets it for the first time; DisputesOK is stronger than the three
\* properties of disputes because the sets compared before (compares) are
\* never compared again, so their differences must stay disputed.
IInv == TypeOK /\ StanceConsistent /\ DisputesOK

\* gotTxSet of a set that was not at hand.
LEMMA NewTxSetRight ==
  ASSUME NEW set \in TxSets, NEW curr, haveResult,
         IsPartialFunction(disputes, Txs, Dispute),
         compares \subseteq TxSets, txns \in TxSets,
         DisputesRight(disputes, compares, txns, curr, acquired, {}),
         set \notin acquired,
         NewTxSet(set, curr)
  PROVE  DisputesRight(disputes', compares', txns, curr, acquired', {})
<1> DEFINE sets  == acquired \cup {set}
           nodes == Holders(curr, set)
           new   == UpdateDisputes(disputes, compares, nodes, set, txns, curr,
                                   sets)
<1>1. /\ acquired' = sets /\ disputes' = new
      /\ compares' = compares \cup (IF nodes = {} THEN {} ELSE {set})
  BY DEF NewTxSet
<1>2. DisputesRight(disputes, compares, txns, curr, sets, nodes)
  BY NewSetRight
<1>3. \A n \in nodes : n \in DOMAIN curr /\ curr[n].set = set
  BY DEF Holders
<1>4. set \in sets
  OBVIOUS
<1>5. CASE nodes = {}
  <2>1. new = disputes /\ compares' = compares
    BY <1>1, <1>5 DEF UpdateDisputes
  <2> QED
    BY <1>1, <1>2, <1>5, <2>1
<1>6. CASE nodes # {}
  <2> HIDE DEF sets, nodes
  <2>1. DisputesRight(new, compares \cup {set}, txns, curr, sets, {})
    BY <1>2, <1>3, <1>4, <1>6, UpdateDisputesRight
  <2> HIDE DEF new
  <2> QED
    BY <1>1, <1>6, <2>1
<1> QED
  BY <1>5, <1>6

\* updateDisputes for a peer that took a position on a set at hand.
LEMMA KnownTxSetRight ==
  ASSUME NEW n \in Peers, NEW set \in TxSets, NEW curr, haveResult,
         IsPartialFunction(disputes, Txs, Dispute),
         compares \subseteq TxSets, txns \in TxSets,
         DisputesRight(disputes, compares, txns, curr, acquired, {n}),
         set \in acquired, n \in DOMAIN curr, curr[n].set = set,
         KnownTxSet(n, set, curr)
  PROVE  DisputesRight(disputes', compares', txns, curr, acquired, {})
<1> DEFINE nodes == {n}
           new == UpdateDisputes(disputes, compares, nodes, set, txns, curr,
                                 acquired)
<1>1. disputes' = new /\ compares' = compares \cup {set}
  BY DEF KnownTxSet
<1>2. /\ nodes # {}
      /\ \A m \in nodes : m \in DOMAIN curr /\ curr[m].set = set
      /\ DisputesRight(disputes, compares, txns, curr, acquired, nodes)
  OBVIOUS
<1> HIDE DEF nodes
<1>3. DisputesRight(new, compares \cup {set}, txns, curr, acquired, {})
  BY <1>2, UpdateDisputesRight
<1> HIDE DEF new
<1> QED
  BY <1>1, <1>3

\* peerProposalInternal keeps the disputes right.
LEMMA PeerProposalDisputes ==
  ASSUME TypeOK, DisputesOK, NEW n \in Peers, NEW p \in PeerPosition,
         PeerProposalInternal(n, p), UNCHANGED <<haveResult, txns>>
  PROVE  DisputesOK' /\ acquired \subseteq acquired'
<1>1. /\ IsPartialFunction(currPeerPositions, Peers, PeerPosition)
      /\ IsPartialFunction(disputes, Txs, Dispute)
      /\ compares \subseteq TxSets /\ txns \in TxSets /\ p.set \in TxSets
  BY DEF TypeOK, PeerPosition
<1>2. acquired \subseteq acquired'
  BY DEF PeerProposalInternal, peerVars, PeerBowsOut, NewTxSet
<1>3. SUFFICES ASSUME haveResult
               PROVE  DisputesRight(disputes', compares', txns,
                                    currPeerPositions', acquired', {})
  BY <1>2 DEF DisputesOK
<1>4. DisputesRight(disputes, compares, txns, currPeerPositions, acquired, {})
  BY <1>3 DEF DisputesOK
<1>5. CASE UNCHANGED <<peerVars, disputeVars>>
  BY <1>4, <1>5 DEF peerVars, disputeVars
<1>6. CASE PeerBowsOut(n)
  <2> DEFINE S == {n}
  <2>1. /\ disputes' = UnVotes(disputes, S)
        /\ currPeerPositions' = Without(currPeerPositions, S)
        /\ acquired' = acquired /\ compares' = compares
    BY <1>3, <1>6 DEF PeerBowsOut
  <2> HIDE DEF S
  <2> QED
    BY <1>1, <1>4, <2>1, BowOutRight
<1>7. CASE ~Ignored(n, p) /\ p.seq # SeqLeave
  <2> DEFINE curr == With(currPeerPositions, n, p)
  <2>1. currPeerPositions' = curr
    BY <1>7 DEF PeerProposalInternal
  <2>2. \/ p.set \in acquired /\ KnownTxSet(n, p.set, curr)
           /\ acquired' = acquired
        \/ p.set \notin acquired /\ NewTxSet(p.set, curr)
        \/ p.set \notin acquired /\ UNCHANGED <<acquired, disputeVars>>
    BY <1>7 DEF PeerProposalInternal
  <2>3. /\ DisputesRight(disputes, compares, txns, curr, acquired, {n})
        /\ p.set \notin acquired =>
             DisputesRight(disputes, compares, txns, curr, acquired, {})
    BY <1>1, <1>4, NewPositionRight
  <2>4. n \in DOMAIN curr /\ curr[n].set = p.set
    BY DEF With
  <2> HIDE DEF curr
  <2>5. CASE p.set \in acquired /\ KnownTxSet(n, p.set, curr)
             /\ acquired' = acquired
    BY <1>1, <1>3, <2>1, <2>3, <2>4, <2>5, KnownTxSetRight
  <2>6. CASE p.set \notin acquired /\ NewTxSet(p.set, curr)
    BY <1>1, <1>3, <2>1, <2>3, <2>6, NewTxSetRight
  <2>7. CASE p.set \notin acquired /\ UNCHANGED <<acquired, disputeVars>>
    BY <2>1, <2>3, <2>7 DEF disputeVars
  <2> QED
    BY <2>2, <2>5, <2>6, <2>7
<1> QED
  BY <1>5, <1>6, <1>7 DEF PeerProposalInternal

\* closeLedger creates all disputes of our first position.
LEMMA CloseLedgerRight ==
  ASSUME TypeOK, NEW set \in TxSets, NEW ct, CloseLedger(set, ct),
         UNCHANGED currPeerPositions
  PROVE  DisputesRight(disputes', compares', set, currPeerPositions, acquired',
                       {})
<1> DEFINE curr == currPeerPositions
           sets == acquired \cup {set}
           others == {curr[n].set : n \in DOMAIN curr} \cap sets
           none == Nothing
           new == CreateDisputes(none, others, set, curr, sets)
<1>1. disputes' = new /\ compares' = others /\ acquired' = sets
  BY DEF CloseLedger, Live
<1>2. others \in SUBSET TxSets
  BY DEF TypeOK
<1>3. IsPartialFunction(none, Txs, Dispute) /\ DOMAIN none = {}
  BY NothingType
<1>4. \A n \in DOMAIN curr : curr[n].set \in sets => curr[n].set \in others
  OBVIOUS
<1> HIDE DEF curr, sets, others, none
<1>5. Created(new, none, others, set, curr, sets)
  BY <1>2, <1>3, CreateDisputesFacts
<1> HIDE DEF new
<1>6. /\ DOMAIN new = Differences(set, others)
      /\ \A t \in Differences(set, others) :
           /\ new[t].ourVote = (t \in set)
           /\ new[t].votes = PeerVotes(curr, sets, t)
  BY <1>3, <1>5 DEF Created
<1>7. \A o \in others : SymDiff(set, o) \subseteq DOMAIN new
  BY <1>6 DEF Differences
<1>8. DisputesRight(new, others, set, curr, sets, {})
  <2>1. ASSUME NEW t \in DOMAIN new, NEW n \in Peers
        PROVE  /\ n \notin DOMAIN curr => new[t].votes[n] = "none"
               /\ n \in DOMAIN curr /\ curr[n].set \in sets =>
                    new[t].votes[n] = AsVote(t \in curr[n].set)
    <3>1. new[t].votes = PeerVotes(curr, sets, t)
      BY <1>6
    <3> QED
      BY <3>1, PeerVote
  <2> QED
    BY <1>4, <1>6, <1>7, <2>1 DEF DisputesRight
<1> QED
  BY <1>1, <1>8 DEF curr

\* Our revised set: the transactions whose vote we changed follow the vote,
\* the others stay.
LEMMA RevisedTxnsFacts ==
  ASSUME NEW revised, NEW t
  PROVE  /\ t \in ChangedVotes(revised) =>
              (t \in RevisedTxns(revised) <=> revised[t].ourVote)
         /\ t \notin ChangedVotes(revised) =>
              (t \in RevisedTxns(revised) <=> t \in txns)
  BY DEF RevisedTxns

\* Revising our votes and our set together keeps the disputes right.
LEMMA RevisedRight ==
  ASSUME TypeOK, haveResult, DisputesOK
  PROVE  DisputesRight(RevisedDisputes, compares, RevisedTxns(RevisedDisputes),
                       FreshPositions, acquired, {})
<1> DEFINE revised == RevisedDisputes
           set == RevisedTxns(revised)
           fresh == FreshPositions
           S == StalePeers
<1>1. /\ IsPartialFunction(revised, Txs, Dispute)
      /\ DOMAIN revised = DOMAIN disputes
      /\ \A t \in DOMAIN disputes, n \in Peers :
           revised[t].votes[n] = IF n \in S THEN "none"
                                 ELSE disputes[t].votes[n]
  BY RevisedFacts DEF TypeOK
<1>2. /\ DOMAIN fresh = DOMAIN currPeerPositions \ S
      /\ \A n \in DOMAIN fresh : fresh[n] = currPeerPositions[n]
  BY FreshFacts DEF TypeOK
<1>3. DisputesRight(disputes, compares, txns, currPeerPositions, acquired, {})
  BY DEF DisputesOK
<1>4. \A t : /\ t \in ChangedVotes(revised) => (t \in set <=> revised[t].ourVote)
             /\ t \notin ChangedVotes(revised) => (t \in set <=> t \in txns)
  BY RevisedTxnsFacts
<1>5. \A t : t \in ChangedVotes(revised) <=>
               /\ t \in DOMAIN disputes
               /\ revised[t].ourVote # disputes[t].ourVote
  BY DEF ChangedVotes
<1> HIDE DEF revised, set, fresh, S
<1>6. \A t \in DOMAIN disputes : revised[t].ourVote \in BOOLEAN
  BY <1>1 DEF IsPartialFunction, Dispute
<1>7. \A o \in compares : SymDiff(set, o) \subseteq DOMAIN revised
  <2> SUFFICES ASSUME NEW o \in compares, NEW t \in SymDiff(set, o)
               PROVE  t \in DOMAIN disputes
    BY <1>1
  <2>1. CASE t \in ChangedVotes(revised)
    BY <1>5, <2>1
  <2>2. CASE t \notin ChangedVotes(revised)
    <3>1. t \in SymDiff(txns, o)
      BY <1>4, <2>2 DEF SymDiff
    <3> QED
      BY <1>3, <3>1 DEF DisputesRight
  <2> QED
    BY <2>1, <2>2
<1>8. \A t \in DOMAIN revised : revised[t].ourVote = (t \in set)
  <2> SUFFICES ASSUME NEW t \in DOMAIN disputes
               PROVE  revised[t].ourVote = (t \in set)
    BY <1>1
  <2>1. revised[t].ourVote <=> t \in set
    <3>1. CASE t \in ChangedVotes(revised)
      BY <1>4, <3>1
    <3>2. CASE t \notin ChangedVotes(revised)
      <4>1. revised[t].ourVote = disputes[t].ourVote
        BY <1>5, <3>2
      <4>2. disputes[t].ourVote = (t \in txns)
        BY <1>3 DEF DisputesRight
      <4>3. t \in set <=> t \in txns
        BY <1>4, <3>2
      <4> QED
        BY Zenon, <4>1, <4>2, <4>3
    <3> QED
      BY <3>1, <3>2
  <2>2. (t \in set) \in BOOLEAN /\ revised[t].ourVote \in BOOLEAN
    BY <1>6
  <2> QED
    BY <2>1, <2>2, Zenon
<1>9. \A n \in DOMAIN fresh \ {} : fresh[n].set \in acquired =>
                                     fresh[n].set \in compares
  BY <1>2, <1>3 DEF DisputesRight
<1>10. \A t \in DOMAIN revised, n \in Peers \ {} :
         /\ n \notin DOMAIN fresh => revised[t].votes[n] = "none"
         /\ n \in DOMAIN fresh /\ fresh[n].set \in acquired =>
              revised[t].votes[n] = AsVote(t \in fresh[n].set)
  <2> SUFFICES ASSUME NEW t \in DOMAIN disputes, NEW n \in Peers
               PROVE  /\ n \notin DOMAIN fresh => revised[t].votes[n] = "none"
                      /\ n \in DOMAIN fresh /\ fresh[n].set \in acquired =>
                           revised[t].votes[n] = AsVote(t \in fresh[n].set)
    BY <1>1
  <2>1. /\ n \notin DOMAIN currPeerPositions => disputes[t].votes[n] = "none"
        /\ n \in DOMAIN currPeerPositions /\ currPeerPositions[n].set \in acquired =>
             disputes[t].votes[n] = AsVote(t \in currPeerPositions[n].set)
    BY <1>3 DEF DisputesRight
  <2>2. revised[t].votes[n] = IF n \in S THEN "none" ELSE disputes[t].votes[n]
    BY <1>1
  <2>3. CASE n \in S
    BY <1>2, <2>2, <2>3
  <2>4. CASE n \notin S
    BY <1>2, <2>1, <2>2, <2>4
  <2> QED
    BY <2>3, <2>4
<1>11. DisputesRight(revised, compares, set, fresh, acquired, {})
  BY <1>7, <1>8, <1>9, <1>10 DEF DisputesRight
<1> QED
  BY <1>11 DEF revised, set, fresh

\* updateOurPositions keeps the disputes right, also when our new set is that
\* of peers and was not at hand.
LEMMA UpdateOurPositionsRight ==
  ASSUME TypeOK, haveResult, DisputesOK,
         UpdateOurPositions(FreshPositions, RevisedDisputes, EstCt,
                            EstUnchanged)
  PROVE  /\ DisputesRight(disputes', compares', txns', currPeerPositions',
                          acquired', {})
         /\ txns' = RevisedTxns(RevisedDisputes)
         /\ acquired \subseteq acquired'
         /\ EstChanges => txns' \in acquired'
<1> DEFINE fresh   == FreshPositions
           revised == RevisedDisputes
           set     == RevisedTxns(revised)
           sets    == IF EstChanges THEN acquired \cup {set} ELSE acquired
           nodes   == IF sets = acquired THEN {} ELSE Holders(fresh, set)
           new     == UpdateDisputes(revised, compares, nodes, set, set, fresh,
                                     sets)
<1>1. /\ currPeerPositions' = fresh
      /\ txns' = set /\ acquired' = sets /\ disputes' = new
      /\ compares' = compares \cup (IF nodes = {} THEN {} ELSE {set})
  BY DEF UpdateOurPositions, EstChanges
<1>2. set \in TxSets /\ compares \in SUBSET TxSets
  BY RevisedTxnsType DEF TypeOK
<1>3. IsPartialFunction(revised, Txs, Dispute)
  BY RevisedFacts DEF TypeOK
<1>4. DisputesRight(revised, compares, set, fresh, acquired, {})
  BY RevisedRight
<1>5. sets = acquired \/ (sets = acquired \cup {set} /\ set \notin acquired)
  OBVIOUS
<1>6. acquired \subseteq sets /\ (EstChanges => set \in sets)
  OBVIOUS
<1>7. /\ sets = acquired => nodes = {}
      /\ sets # acquired => nodes = Holders(fresh, set)
  OBVIOUS
<1>8. nodes = {} => new = revised
  BY DEF UpdateDisputes
<1> HIDE DEF fresh, revised, set, sets, nodes
<1>9. DisputesRight(revised, compares, set, fresh, sets, nodes)
  BY <1>4, <1>5, <1>7, NewSetRight
<1>10. CASE nodes = {}
  <2>1. DisputesRight(new, compares', set, fresh, sets, {})
    BY <1>1, <1>8, <1>9, <1>10
  <2> HIDE DEF new
  <2> QED
    BY <1>1, <1>6, <2>1 DEF set, revised
<1>11. CASE nodes # {}
  <2>1. \A n \in nodes : n \in DOMAIN fresh /\ fresh[n].set = set
    BY <1>7, <1>11 DEF Holders
  <2>2. set \in sets
    BY <1>5, <1>7, <1>11
  <2>3. DisputesRight(new, compares \cup {set}, set, fresh, sets, {})
    BY <1>2, <1>3, <1>9, <1>11, <2>1, <2>2, UpdateDisputesRight
  <2> HIDE DEF new
  <2> QED
    BY <1>1, <1>6, <1>11, <2>3 DEF set, revised
<1> QED
  BY <1>10, <1>11

-----------------------------------------------------------------------------
(* The steps. *)

StanceInv == StanceConsistent /\ DisputesOK

\* A round that starts has no stance.
LEMMA StartRoundInternalInv ==
  ASSUME NEW id, NEW ledger, NEW newMode, NEW recent, NEW rest,
         StartRoundInternal(id, ledger, newMode, recent, rest)
  PROVE  StanceInv'
  BY DEF StartRoundInternal, StanceInv, StanceConsistent, DisputesOK

\* Steps that touch neither our stance nor the disputes.
LEMMA QuietInv ==
  ASSUME StanceInv,
         UNCHANGED <<phase, haveResult, txns, position, disputes, compares,
                     currPeerPositions, acquired>>
  PROVE  StanceInv'
  BY DEF StanceInv, StanceConsistent, DisputesOK

\* A proposal, delivered or replayed.
LEMMA ProposalInv ==
  ASSUME TypeOK, StanceInv, NEW n \in Peers, NEW p \in PeerPosition,
         PeerProposalInternal(n, p),
         UNCHANGED <<phase, haveResult, txns, position>>
  PROVE  StanceInv'
<1>1. DisputesOK' /\ acquired \subseteq acquired'
  BY PeerProposalDisputes DEF StanceInv
<1> QED
  BY <1>1 DEF StanceInv, StanceConsistent

\* A transaction set arrives.
LEMMA GotTxSetInv ==
  ASSUME TypeOK, StanceInv, NEW set \in TxSets, GotTxSet(set)
  PROVE  StanceInv'
<1>1. UNCHANGED <<phase, haveResult, txns, position, currPeerPositions>>
  BY DEF GotTxSet, stanceVars
<1>2. CASE UNCHANGED <<acquired, disputeVars>>
  BY <1>1, <1>2, QuietInv DEF disputeVars
<1>3. CASE set \notin acquired /\ NewTxSet(set, currPeerPositions)
  <2>1. acquired \subseteq acquired'
    BY <1>3 DEF NewTxSet
  <2>2. ASSUME haveResult
        PROVE  DisputesRight(disputes', compares', txns, currPeerPositions,
                             acquired', {})
    <3> DEFINE curr == currPeerPositions
    <3>1. /\ DisputesRight(disputes, compares, txns, curr, acquired, {})
          /\ NewTxSet(set, curr)
      BY <1>3, <2>2 DEF StanceInv, DisputesOK
    <3>2. /\ IsPartialFunction(disputes, Txs, Dispute)
          /\ compares \subseteq TxSets /\ txns \in TxSets
      BY DEF TypeOK
    <3> HIDE DEF curr
    <3>3. DisputesRight(disputes', compares', txns, curr, acquired', {})
      BY <1>3, <2>2, <3>1, <3>2, NewTxSetRight
    <3> QED
      BY <3>3 DEF curr
  <2> QED
    BY <1>1, <2>1, <2>2 DEF StanceInv, StanceConsistent, DisputesOK
<1> QED
  BY <1>2, <1>3 DEF GotTxSet

\* The timer ages the positions.
LEMMA TimerEntryInv ==
  ASSUME TypeOK, StanceInv, TimerEntry
  PROVE  StanceInv'
<1>1. UNCHANGED <<phase, haveResult, txns, disputes, compares, acquired>>
  BY DEF TimerEntry, disputeVars
<1>2. position'.set = position.set
  BY DEF TypeOK, OwnPosition, TimerEntry
<1>3. /\ DOMAIN currPeerPositions' = DOMAIN currPeerPositions
      /\ \A n \in DOMAIN currPeerPositions :
           currPeerPositions'[n].set = currPeerPositions[n].set
  BY OlderFacts DEF TypeOK, TimerEntry, Live, IsPartialFunction
<1>4. ASSUME haveResult
      PROVE  DisputesRight(disputes, compares, txns, currPeerPositions',
                           acquired, {})
  <2>1. DisputesRight(disputes, compares, txns, currPeerPositions, acquired, {})
    BY <1>4 DEF StanceInv, DisputesOK
  <2> QED
    BY <1>3, <2>1, SameSetsRight
<1> QED
  BY <1>1, <1>2, <1>4 DEF StanceInv, StanceConsistent, DisputesOK

\* The check of the prior ledger: a bow-out keeps our set, and the disputes go
\* with the positions of the other ledger's peers.
LEMMA CheckLedgerInv ==
  ASSUME TypeOK, StanceInv, NEW net, CheckLedger(net)
  PROVE  StanceInv'
<1>1. UNCHANGED <<phase, haveResult, txns, acquired>>
  BY DEF CheckLedger
<1>2. position'.set = position.set
  BY SentType DEF TypeOK, CheckLedger, HandleWrongLedger, LeaveConsensus
<1>3. CASE UNCHANGED <<disputes, compares, currPeerPositions>>
  BY ZenonT(60), <1>1, <1>2, <1>3 DEF StanceInv, StanceConsistent, DisputesOK
<1>4. CASE /\ disputes' = Nothing /\ compares' = {}
           /\ currPeerPositions' = Nothing
  <2>1. DisputesRight(disputes', compares', txns, currPeerPositions', acquired,
                      {})
    BY <1>4, NothingType DEF DisputesRight
  <2> QED
    BY <1>1, <1>2, <2>1, Zenon DEF StanceInv, StanceConsistent, DisputesOK
<1> QED
  BY <1>3, <1>4 DEF CheckLedger, HandleWrongLedger

\* The ledger closes.
LEMMA PhaseOpenClosesInv ==
  ASSUME TypeOK, NEW set \in TxSets, NEW ct, PhaseOpenCloses(set, ct)
  PROVE  StanceInv'
<1>1. CloseLedger(set, ct) /\ UNCHANGED currPeerPositions
  BY DEF PhaseOpenCloses
<1>2. DisputesRight(disputes', compares', set, currPeerPositions, acquired', {})
  BY <1>1, CloseLedgerRight
<1>3. /\ phase' = "establish" /\ txns' = set /\ haveResult'
      /\ position'.set = set /\ set \in acquired'
  BY ZenonT(60), <1>1 DEF CloseLedger
<1> QED
  BY <1>1, <1>2, <1>3 DEF StanceInv, StanceConsistent, DisputesOK

\* A timer tick of the establish phase.
LEMMA PhaseEstablishInv ==
  ASSUME TypeOK, StanceInv, PhaseEstablish
  PROVE  StanceInv'
<1>1. haveResult /\ haveResult' = haveResult
  BY EstablishParts DEF StanceInv, StanceConsistent, AtPhase
<1>2. /\ DisputesRight(disputes', compares', txns', currPeerPositions',
                       acquired', {})
      /\ txns' = RevisedTxns(RevisedDisputes)
      /\ acquired \subseteq acquired'
      /\ EstChanges => txns' \in acquired'
  BY <1>1, EstablishParts, UpdateOurPositionsRight DEF StanceInv
<1>3. ~EstChanges => txns' = txns
  BY <1>2 DEF EstChanges, PositionChanges, RevisedTxns
<1>4. EstPos.set = txns' /\ txns' \in acquired'
  BY <1>1, <1>2, <1>3 DEF StanceInv, StanceConsistent, EstPos, ChangedPosition
<1>5. position' = EstPos \/ position' = BowOut(EstPos)
  BY EstablishParts DEF Pause, GoOn, Finish
<1>6. EstPos \in OwnPosition
  BY EstablishParts, EstTypes
<1>7. position'.set = txns'
  BY <1>4, <1>5, <1>6, SentType
<1>8. phase' # "open"
  BY EstablishParts DEF Pause, GoOn, Finish, AtPhase
<1> QED
  BY ZenonT(60), <1>1, <1>2, <1>4, <1>7, <1>8 DEF StanceInv, StanceConsistent, DisputesOK

\* Every step keeps the stance consistent and the disputes right.
LEMMA NextStance == TypeOK /\ StanceInv /\ [Next]_vars => StanceInv'
<1> SUFFICES ASSUME TypeOK, StanceInv, [Next]_vars PROVE StanceInv'
  OBVIOUS
<1>1. ASSUME Deliver PROVE StanceInv'
  <2>1. PICK n \in Peers, seq \in 0..MaxPeerSeq \cup {SeqLeave},
             set \in TxSets, ct \in CloseTimes \cup {0}, prev \in Ledgers :
          PeerProposal(n, [seq |-> seq, set |-> set, ct |-> ct, prev |-> prev,
                           age |-> 0])
    BY <1>1 DEF Deliver
  <2> DEFINE p == [seq |-> seq, set |-> set, ct |-> ct, prev |-> prev,
                   age |-> 0]
  <2>2. p \in PeerPosition
    BY OfferedPosition
  <2> HIDE DEF p
  <2>3. /\ PeerProposalInternal(n, p)
        /\ UNCHANGED <<phase, haveResult, txns, position>>
    BY <2>1 DEF PeerProposal, stanceVars, p
  <2> QED
    BY <2>2, <2>3, ProposalInv
<1>2. ASSUME NEW set \in TxSets, GotTxSet(set) PROVE StanceInv'
  BY <1>2, GotTxSetInv
<1>3. ASSUME Start PROVE StanceInv'
  BY <1>3, StartRoundInternalInv DEF Start, StartRound
<1>4. ASSUME TimerEntry PROVE StanceInv'
  BY <1>4, TimerEntryInv
<1>5. ASSUME NEW n \in Peers, Replay(n) PROVE StanceInv'
  <2> DEFINE p == Head(playback[n])
  <2>1. playback[n] \in Seq(PeerPosition) /\ playback[n] # <<>>
    BY <1>5 DEF TypeOK, Replay, NextReplayed
  <2>2. p \in PeerPosition
    BY <2>1, TailType
  <2>3. /\ PeerProposalInternal(n, p) \/ UNCHANGED <<peerVars, disputeVars>>
        /\ UNCHANGED <<phase, haveResult, txns, position>>
    BY <1>5 DEF Replay, stanceVars
  <2> HIDE DEF p
  <2>4. CASE PeerProposalInternal(n, p)
    BY <2>2, <2>3, <2>4, ProposalInv
  <2>5. CASE UNCHANGED <<peerVars, disputeVars>>
    BY <2>3, <2>5, QuietInv DEF peerVars, disputeVars
  <2> QED
    BY <2>3, <2>4, <2>5
<1>6. ASSUME \/ ReplayDone \/ MaybeBehind \/ KeepLedger \/ StillWrongLedger
             \/ PhaseOpenWaits \/ PhaseEstablishEarly
      PROVE  StanceInv'
  <2>1. UNCHANGED <<phase, haveResult, txns, position, disputes, compares,
                    currPeerPositions, acquired>>
    BY ZenonT(60), <1>6 DEF ReplayDone, MaybeBehind, KeepLedger, StillWrongLedger,
       PhaseOpenWaits, PhaseEstablishEarly, stanceVars, disputeVars, peerVars
  <2> QED
    BY <2>1, QuietInv
<1>7. ASSUME NEW net \in Ledgers, CheckLedger(net) PROVE StanceInv'
  BY <1>7, CheckLedgerInv
<1>8. ASSUME SwitchLedger PROVE StanceInv'
  BY <1>8, StartRoundInternalInv DEF SwitchLedger
<1>9. ASSUME NEW set \in TxSets, NEW ct \in CloseTimes,
             PhaseOpenCloses(set, ct)
      PROVE  StanceInv'
  BY <1>9, PhaseOpenClosesInv
<1>10. ASSUME PhaseEstablish PROVE StanceInv'
  BY <1>10, PhaseEstablishInv
<1>11. CASE UNCHANGED vars
  BY <1>11, QuietInv DEF vars, stanceVars, disputeVars, peerVars
<1> QED
  BY <1>1, <1>2, <1>3, <1>4, <1>5, <1>6, <1>7, <1>8, <1>9, <1>10, <1>11
  DEF Next, Running

\* The inductive invariant holds in every state.
THEOREM Invariance == Spec => []IInv
<1>1. Init => IInv
  BY InitTypes DEF Init, IInv, StanceConsistent, DisputesOK
<1>2. IInv /\ [Next]_vars => IInv'
  BY NextTypes, NextStance DEF IInv, StanceInv
<1> QED
  BY <1>1, <1>2, PTL DEF Spec

\* The asserts on result_ hold: our position, our set and acquired_ agree.
THEOREM StanceCorrect == Spec => []StanceConsistent
<1>1. IInv => StanceConsistent
  BY DEF IInv
<1> QED
  BY <1>1, Invariance, PTL

\* Disputes cover every difference between our set and a live peer's set at
\* hand, in any order of proposals, sets, bow-outs and changes of position.
THEOREM DifferencesDisputed == Spec => []DisputesCoverDifferences
<1>1. IInv => DisputesCoverDifferences
  BY DEF IInv, DisputesOK, DisputesRight, DisputesCoverDifferences, Live
<1> QED
  BY <1>1, Invariance, PTL

\* Every vote on a dispute is that of a current position.
THEOREM VotesCorrect == Spec => []VotesMatchPositions
<1>1. IInv => VotesMatchPositions
  BY DEF IInv, DisputesOK, DisputesRight, VotesMatchPositions, Live
<1> QED
  BY <1>1, Invariance, PTL

\* Our vote on a dispute is what our set says.
THEOREM OurVotesCorrect == Spec => []OurVoteMatchesTxns
<1>1. IInv => OurVoteMatchesTxns
  BY DEF IInv, DisputesOK, DisputesRight, OurVoteMatchesTxns
<1> QED
  BY <1>1, Invariance, PTL

-----------------------------------------------------------------------------
(* One DisputedTx object. *)

\* Recording votes for n (setVote, unVote) moves n, and only n, between the
\* sets of voters.
LEMMA VotersAfter ==
  ASSUME NEW votes \in [Peers -> Votes], NEW n \in Peers, NEW v \in Votes,
         NEW w \in Votes
  PROVE  Voters(Recorded(votes, n, v), w) =
           IF v = w THEN Voters(votes, w) \cup {n}
           ELSE Voters(votes, w) \ {n}
  BY DEF Voters, Votes, Recorded

\* The sets of voters are finite, so their cardinalities are numbers.
LEMMA VotersFinite ==
  ASSUME NEW votes, NEW w
  PROVE  /\ IsFiniteSet(Voters(votes, w))
         /\ Cardinality(Voters(votes, w)) \in Nat
<1>1. Voters(votes, w) \subseteq Peers
  BY DEF Voters
<1>2. IsFiniteSet(Voters(votes, w))
  BY <1>1, RulesAssumption, FS_Subset DEF RulesAssumption
<1> QED
  BY <1>2, FS_CardinalityType

\* How recording vote v for n changes the number of w votes.
LEMMA CountAfter ==
  ASSUME NEW votes \in [Peers -> Votes], NEW n \in Peers, NEW v \in Votes,
         NEW w \in Votes
  PROVE  Cardinality(Voters(Recorded(votes, n, v), w)) =
           Cardinality(Voters(votes, w))
             + One(v = w /\ votes[n] # w) - One(v # w /\ votes[n] = w)
<1> DEFINE old == Voters(votes, w)
           new == Voters(Recorded(votes, n, v), w)
<1>1. IsFiniteSet(old) /\ Cardinality(old) \in Nat
  BY VotersFinite
<1>2. new = IF v = w THEN old \cup {n} ELSE old \ {n}
  BY VotersAfter
<1>3. n \in old <=> votes[n] = w
  BY DEF Voters
<1> HIDE DEF old, new
<1>4. Cardinality(old \cup {n}) = IF n \in old THEN Cardinality(old)
                                             ELSE Cardinality(old) + 1
  BY <1>1, FS_AddElement, Zenon
<1>5. Cardinality(old \ {n}) = IF n \in old THEN Cardinality(old) - 1
                                          ELSE Cardinality(old)
  BY <1>1, FS_RemoveElement, Zenon
<1>6. CASE v = w
  BY <1>1, <1>2, <1>3, <1>4, <1>6 DEF One, old, new
<1>7. CASE v # w
  BY <1>1, <1>2, <1>3, <1>5, <1>7 DEF One, old, new
<1> QED
  BY <1>6, <1>7

-----------------------------------------------------------------------------
(* The vote counters. *)

\* setVote and unVote leave a well-formed object whose counters are exact.
LEMMA RecordKeepsCounters ==
  ASSUME DisputedTxTypeOK, CountersExact, NEW n \in Peers, NEW v \in Votes,
         dispute' = [dispute EXCEPT !.votes = Recorded(@, n, v)]
  PROVE  /\ dispute' \in Dispute
         /\ dispute'.votes = Recorded(dispute.votes, n, v)
         /\ dispute'.ourVote = dispute.ourVote
         /\ dispute'.avState = dispute.avState
         /\ Cardinality(Voters(dispute'.votes, "yes")) =
              yays + One(v = "yes" /\ dispute.votes[n] # "yes")
                   - One(v # "yes" /\ dispute.votes[n] = "yes")
         /\ Cardinality(Voters(dispute'.votes, "no")) =
              nays + One(v = "no" /\ dispute.votes[n] # "no")
                   - One(v # "no" /\ dispute.votes[n] = "no")
<1>1. dispute.votes \in [Peers -> Votes]
  BY DEF DisputedTxTypeOK, Dispute
<1>2. Recorded(dispute.votes, n, v) \in [Peers -> Votes]
  BY <1>1 DEF Recorded
<1>3. /\ dispute' \in Dispute
      /\ dispute'.votes = Recorded(dispute.votes, n, v)
      /\ dispute'.ourVote = dispute.ourVote
      /\ dispute'.avState = dispute.avState
  BY <1>2 DEF DisputedTxTypeOK, Dispute
<1>4. "yes" \in Votes /\ "no" \in Votes
  BY DEF Votes
<1> QED
  BY <1>1, <1>3, <1>4, CountAfter DEF CountersExact

\* The counters, once exact, are natural numbers.
LEMMA CountersNat ==
  ASSUME CountersExact
  PROVE  yays \in Nat /\ nays \in Nat
  BY VotersFinite DEF CountersExact

\* One step of a DisputedTx keeps its type and its counters exact.
LEMMA NextCounters ==
  ASSUME DisputedTxTypeOK, CountersExact, [DisputedTxNext]_disputedTxVars
  PROVE  DisputedTxTypeOK' /\ CountersExact'
<1>1. ASSUME NEW n \in Peers, NEW b \in BOOLEAN, SetVote(n, b)
      PROVE  DisputedTxTypeOK' /\ CountersExact'
  <2>1. AsVote(b) \in Votes /\ dispute.votes[n] \in Votes
    BY DEF AsVote, Votes, DisputedTxTypeOK, Dispute
  <2>2. dispute' = [dispute EXCEPT !.votes = Recorded(@, n, AsVote(b))]
    BY <1>1 DEF SetVote
  <2>3. /\ Cardinality(Voters(dispute'.votes, "yes")) = yays'
        /\ Cardinality(Voters(dispute'.votes, "no")) = nays'
    BY <1>1, <2>1, <2>2, RecordKeepsCounters, CountersNat
    DEF SetVote, AsVote, One
  <2>4. dispute' \in Dispute
    BY <2>1, <2>2, RecordKeepsCounters
  <2>5. yays' \in Int /\ nays' \in Int
    BY <2>3, VotersFinite
  <2>6. percent' \in Nat /\ conceded' \in {"proposing", "observing", NotConceded}
    BY <1>1 DEF SetVote, DisputedTxTypeOK
  <2> QED
    BY <2>3, <2>4, <2>5, <2>6 DEF DisputedTxTypeOK, CountersExact
<1>2. ASSUME NEW n \in Peers, UnVote(n)
      PROVE  DisputedTxTypeOK' /\ CountersExact'
  <2>1. "none" \in Votes
    BY DEF Votes
  <2>2. dispute' = [dispute EXCEPT !.votes = Recorded(@, n, "none")]
    BY <1>2 DEF UnVote
  <2>3. /\ Cardinality(Voters(dispute'.votes, "yes")) = yays'
        /\ Cardinality(Voters(dispute'.votes, "no")) = nays'
    BY <1>2, <2>1, <2>2, RecordKeepsCounters, CountersNat DEF UnVote, One
  <2>4. dispute' \in Dispute
    BY <2>1, <2>2, RecordKeepsCounters
  <2>5. yays' \in Int /\ nays' \in Int
    BY <2>3, VotersFinite
  <2>6. percent' \in Nat /\ conceded' \in {"proposing", "observing", NotConceded}
    BY <1>2 DEF UnVote, DisputedTxTypeOK
  <2> QED
    BY <2>3, <2>4, <2>5, <2>6 DEF DisputedTxTypeOK, CountersExact
<1>3. ASSUME NEW pt \in PercentTimes, NEW p \in BOOLEAN, UpdateVote(pt, p)
      PROVE  DisputedTxTypeOK' /\ CountersExact'
  <2>1. pt \in Nat
    BY PercentAssumption DEF PercentAssumption
  <2>2. dispute' \in Dispute /\ dispute'.votes = dispute.votes
    <3>1. dispute \in Dispute /\ yays \in Nat /\ nays \in Nat
      BY CountersNat DEF DisputedTxTypeOK
    <3>2. dispute' = UpdatedVote(dispute, yays, nays, pt, p)
      BY <1>3 DEF UpdateVote
    <3>3. ASSUME NEW d \in Dispute, NEW y \in Nat, NEW m \in Nat, NEW proposing \in BOOLEAN
          PROVE  /\ UpdatedVote(d, y, m, pt, proposing) \in Dispute
                 /\ UpdatedVote(d, y, m, pt, proposing).votes = d.votes
      BY <2>1, UpdatedVoteType
    <3>4. /\ UpdatedVote(dispute, yays, nays, pt, p) \in Dispute
          /\ UpdatedVote(dispute, yays, nays, pt, p).votes = dispute.votes
      BY <3>1, <3>3
    <3> QED
      BY <3>2, <3>4, Zenon
  <2>3. conceded' \in {"proposing", "observing", NotConceded}
    BY <1>3 DEF UpdateVote, DisputedTxTypeOK, ModeName
  <2> QED
    BY <1>3, <2>1, <2>2, <2>3 DEF UpdateVote, DisputedTxTypeOK, CountersExact
<1>4. CASE UNCHANGED disputedTxVars
  BY <1>4 DEF disputedTxVars, DisputedTxTypeOK, CountersExact
<1> QED
  BY <1>1, <1>2, <1>3, <1>4 DEF DisputedTxNext

\* A new DisputedTx has no votes and zero counters.
LEMMA InitCounters ==
  ASSUME DisputedTxInit
  PROVE  DisputedTxTypeOK /\ CountersExact
<1>1. PICK b \in BOOLEAN : dispute = NewDispute(b, [n \in Peers |-> "none"])
  BY DEF DisputedTxInit
<1>2. dispute \in Dispute
  BY <1>1 DEF NewDispute, Dispute, Votes, AvalancheStates
<1>3. Voters(dispute.votes, "yes") = {} /\ Voters(dispute.votes, "no") = {}
  BY <1>1 DEF NewDispute, Voters
<1> QED
  BY <1>2, <1>3, FS_EmptySet DEF DisputedTxInit, DisputedTxTypeOK, CountersExact

\* The counters yays_ and nays_ of DisputedTx.h, kept by increments in setVote
\* and unVote, always equal the numbers of yes and no entries in votes_.
THEOREM CountersCorrect == DisputedTxSpec => [](DisputedTxTypeOK /\ CountersExact)
<1>1. DisputedTxInit => DisputedTxTypeOK /\ CountersExact
  BY InitCounters
<1>2. DisputedTxTypeOK /\ CountersExact /\ [DisputedTxNext]_disputedTxVars => DisputedTxTypeOK' /\ CountersExact'
  BY NextCounters
<1> QED
  BY <1>1, <1>2, PTL DEF DisputedTxSpec

-----------------------------------------------------------------------------
(* No flapping. *)

\* What we know after conceding: our vote is no, and the weight updateVote
\* would compute again is at most what the current avalanche state needs.
ConcededForGood ==
  /\ conceded # NotConceded => ~dispute.ourVote
  /\ conceded = "proposing" =>
       ProposingWeight(FALSE, yays, nays) <= CutoffPct[dispute.avState]
  /\ conceded = "observing" => yays <= nays

\* From vote d to vote e with y yeas and m nays: a concession is made only on a
\* weight that also keeps the vote at no, and such a weight does keep it there.
Concession(d, e, y, m, p) ==
  /\ d.ourVote /\ ~e.ourVote =>
       IF p THEN ProposingWeight(FALSE, y, m) <= CutoffPct[e.avState]
       ELSE y <= m
  /\ /\ ~d.ourVote
     /\ p => ProposingWeight(FALSE, y, m) <= CutoffPct[d.avState]
     /\ ~p => y <= m
     => /\ ~e.ourVote
        /\ p => ProposingWeight(FALSE, y, m) <= CutoffPct[e.avState]

\* updateVote's step is such a concession.
LEMMA UpdateConcedes ==
  ASSUME NEW d \in Dispute, NEW y \in Nat, NEW m \in Nat, NEW pt \in Nat,
         NEW p \in BOOLEAN
  PROVE  Concession(d, UpdatedVote(d, y, m, pt, p), y, m, p)
<1> DEFINE e == UpdatedVote(d, y, m, pt, p)
<1> DEFINE av == AvalancheAdvance(d.avState, pt, d.avCounter + 1, MinRounds)
<1>1. d.ourVote \in BOOLEAN /\ d.avState \in AvalancheStates
  BY DEF Dispute
<1>2. /\ CutoffPct[d.avState] \in Nat /\ CutoffPct[av] \in Nat
      /\ CutoffPct[d.avState] <= CutoffPct[av]
  BY <1>1, AdvanceMonotone
<1>3. /\ ProposingWeight(TRUE, y, m) \in Nat
      /\ ProposingWeight(FALSE, y, m) \in Nat
      /\ ProposingWeight(FALSE, y, m) <= ProposingWeight(TRUE, y, m)
  BY WeightMonotone, Zenon
<1>4. CASE (d.ourVote /\ m = 0) \/ (~d.ourVote /\ y = 0)
  <2>1. e = d
    BY <1>4 DEF UpdatedVote
  <2> QED
    BY <2>1, Zenon DEF Concession
<1>5. CASE ~((d.ourVote /\ m = 0) \/ (~d.ourVote /\ y = 0))
  <2>1. /\ e.avState = av
        /\ e.ourVote = IF p THEN ProposingWeight(d.ourVote, y, m) > CutoffPct[av]
                       ELSE y > m
    BY <1>5 DEF UpdatedVote
  <2> DEFINE wT == ProposingWeight(TRUE, y, m)
             wF == ProposingWeight(FALSE, y, m)
             c0 == CutoffPct[d.avState]
             c1 == CutoffPct[av]
  <2>4. /\ c0 \in Nat /\ c1 \in Nat /\ c0 <= c1
        /\ wT \in Nat /\ wF \in Nat /\ wF <= wT
        /\ CutoffPct[e.avState] = c1
    BY <1>2, <1>3, <2>1, Zenon
  <2>2. CASE d.ourVote
    <3>1. d.ourVote = TRUE
      BY <1>1, <2>2
    <3>2. e.ourVote <=> IF p THEN wT > c1 ELSE y > m
      BY <2>1, <3>1, Zenon
    <3> HIDE DEF wT, wF, c0, c1
    <3>3. ~e.ourVote => IF p THEN wF <= c1 ELSE y <= m
      BY <2>4, <3>2
    <3> QED
      BY <2>2, <2>4, <3>3, Zenon DEF wF, c1, Concession
  <2>3. CASE ~d.ourVote
    <3>1. d.ourVote = FALSE
      BY <1>1, <2>3
    <3>2. e.ourVote <=> IF p THEN wF > c1 ELSE y > m
      BY <2>1, <3>1, Zenon
    <3> HIDE DEF wT, wF, c0, c1
    <3>3. ASSUME p => wF <= c0, ~p => y <= m
          PROVE  ~e.ourVote /\ (p => wF <= c1)
      BY <2>4, <3>2, <3>3
    <3> QED
      BY <2>3, <2>4, <3>3, Zenon DEF wF, c0, c1, Concession
  <2> QED
    BY <2>2, <2>3
<1> QED
  BY <1>4, <1>5

\* Every step keeps ConcededForGood, and no step flaps.
LEMMA NextConceded ==
  ASSUME DisputedTxTypeOK, CountersExact, ConcededForGood, [DisputedTxNext]_disputedTxVars
  PROVE  /\ ConcededForGood'
         /\ ~dispute.ourVote /\ conceded' # NotConceded => ~dispute'.ourVote
<1>0. /\ NotConceded # "proposing" /\ NotConceded # "observing"
      /\ "proposing" # "observing"
  BY DEF NotConceded
<1>1. ASSUME NEW n \in Peers, NEW v \in Votes,
             dispute' = [dispute EXCEPT !.votes = Recorded(@, n, v)],
             dispute.votes[n] # v => conceded' = NotConceded,
             dispute.votes[n] = v => UNCHANGED <<yays, nays, conceded>>
      PROVE  /\ ConcededForGood'
             /\ ~dispute.ourVote /\ conceded' # NotConceded => ~dispute'.ourVote
  <2>1. dispute'.ourVote = dispute.ourVote /\ dispute'.avState = dispute.avState
    BY <1>1, RecordKeepsCounters
  <2> QED
    BY <1>0, <1>1, <2>1, Zenon DEF ConcededForGood
<1>2. ASSUME NEW n \in Peers, NEW b \in BOOLEAN, SetVote(n, b)
      PROVE  /\ ConcededForGood'
             /\ ~dispute.ourVote /\ conceded' # NotConceded => ~dispute'.ourVote
  <2>1. AsVote(b) \in Votes
    BY DEF AsVote, Votes
  <2>2. dispute.votes[n] = AsVote(b) => UNCHANGED <<yays, nays, conceded>>
    BY <1>2, CountersNat DEF SetVote, AsVote, One
  <2> QED
    BY <1>1, <1>2, <2>1, <2>2 DEF SetVote
<1>3. ASSUME NEW n \in Peers, UnVote(n)
      PROVE  /\ ConcededForGood'
             /\ ~dispute.ourVote /\ conceded' # NotConceded => ~dispute'.ourVote
  <2>1. "none" \in Votes
    BY DEF Votes
  <2>2. dispute.votes[n] = "none" => UNCHANGED <<yays, nays, conceded>>
    BY <1>3, CountersNat DEF UnVote, One
  <2> QED
    BY <1>1, <1>3, <2>1, <2>2 DEF UnVote
<1>4. ASSUME NEW pt \in PercentTimes, NEW p \in BOOLEAN, UpdateVote(pt, p)
      PROVE  /\ ConcededForGood'
             /\ ~dispute.ourVote /\ conceded' # NotConceded => ~dispute'.ourVote
  <2>1. pt \in Nat /\ dispute \in Dispute /\ yays \in Nat /\ nays \in Nat
    BY PercentAssumption, CountersNat DEF PercentAssumption, DisputedTxTypeOK
  <2>2. Concession(dispute, dispute', yays, nays, p)
    BY <1>4, <2>1, UpdateConcedes DEF UpdateVote
  <2>3. UNCHANGED <<yays, nays>>
    BY <1>4 DEF UpdateVote
  <2>4. CASE dispute.ourVote /\ ~dispute'.ourVote
    BY <1>0, <1>4, <2>2, <2>3, <2>4, Zenon DEF UpdateVote, ConcededForGood, ModeName, Concession
  <2>5. CASE ~(dispute.ourVote /\ ~dispute'.ourVote) /\ conceded = ModeName(p)
    BY <1>0, <1>4, <2>2, <2>3, <2>5, Zenon DEF UpdateVote, ConcededForGood, ModeName, Concession
  <2>6. CASE ~(dispute.ourVote /\ ~dispute'.ourVote) /\ conceded # ModeName(p)
    BY <1>0, <1>4, <2>6, Zenon DEF UpdateVote, ConcededForGood
  <2> QED
    BY <2>4, <2>5, <2>6
<1>5. CASE UNCHANGED disputedTxVars
  BY <1>5, Zenon DEF disputedTxVars, ConcededForGood
<1> QED
  BY <1>2, <1>3, <1>4, <1>5 DEF DisputedTxNext

\* updateVote (DisputedTx.h) never turns our vote back to yes after turning it
\* to no, as long as no peer's vote and not our mode changed in between.
THEOREM VoteDoesNotFlap == DisputedTxSpec => NoFlapping
<1>1. DisputedTxInit => DisputedTxTypeOK /\ CountersExact /\ ConcededForGood
  BY InitCounters DEF DisputedTxInit, ConcededForGood, NotConceded
<1>2. DisputedTxTypeOK /\ CountersExact /\ ConcededForGood /\ [DisputedTxNext]_disputedTxVars =>
        DisputedTxTypeOK' /\ CountersExact' /\ ConcededForGood'
  BY NextCounters, NextConceded
<1>3. DisputedTxTypeOK /\ CountersExact /\ ConcededForGood /\ [DisputedTxNext]_disputedTxVars =>
        [~dispute.ourVote /\ conceded' # NotConceded => ~dispute'.ourVote]_disputedTxVars
  BY NextConceded
<1> QED
  BY <1>1, <1>2, <1>3, PTL DEF DisputedTxSpec, NoFlapping

=============================================================================
