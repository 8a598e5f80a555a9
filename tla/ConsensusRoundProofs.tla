------------------------ MODULE ConsensusRoundProofs ------------------------
(***************************************************************************)
(* For all peers, transactions, ledgers and parameters: while we are       *)
(* proposing, the network knows our current position, and the sequence     *)
(* numbers of what we broadcast in a round strictly increase; and a round  *)
(* ends on a set and a close time with the support they need.              *)
(***************************************************************************)
EXTENDS ConsensusDisputesProofs

-----------------------------------------------------------------------------
(* The invariant on what was broadcast. *)

\* ProposalsIncrease and WirePositionCurrent of any messages ms and any
\* position pos.
Increasing(ms) == \A i, j \in 1..Len(ms) : i < j => ms[i].seq < ms[j].seq
EndsWith(ms, pos) == ms # <<>> /\ ms[Len(ms)] = Sent(pos)

\* A proposing node has not bowed out, and before closeLedger it has not said
\* anything.
WireInv ==
  /\ Increasing(proposals)
  /\ haveResult /\ mode = "proposing" =>
       EndsWith(proposals, position) /\ position.seq # SeqLeave
  /\ ~haveResult => proposals = <<>>

\* Broadcasting a position with a larger number.
LEMMA AppendIncreasing ==
  ASSUME NEW ms \in Seq(Message), NEW old \in OwnPosition,
         NEW pos \in OwnPosition,
         Increasing(ms), EndsWith(ms, old), old.seq < pos.seq
  PROVE  /\ Append(ms, Sent(pos)) \in Seq(Message)
         /\ Increasing(Append(ms, Sent(pos)))
         /\ EndsWith(Append(ms, Sent(pos)), pos)
<1> DEFINE m == Sent(pos)
           new == Append(ms, m)
<1>1. m \in Message /\ m.seq = pos.seq /\ ms[Len(ms)].seq = old.seq
  <2>1. m \in Message
    BY SentType
  <2> QED
    BY <2>1 DEF Sent, EndsWith
<1>2. /\ new \in Seq(Message) /\ Len(new) = Len(ms) + 1 /\ Len(ms) \in Nat
      /\ new[Len(ms) + 1] = m
      /\ \A i \in 1..Len(ms) : new[i] = ms[i]
  <2> HIDE DEF m
  <2> QED
    BY <1>1
<1>3. /\ old.seq \in Nat /\ pos.seq \in Nat
      /\ \A i \in 1..Len(ms) : ms[i] \in Message
      /\ \A i \in 1..Len(ms) : ms[i].seq \in Nat
  <2>1. \A i \in 1..Len(ms) : ms[i] \in Message
    OBVIOUS
  <2>2. \A x \in Message : x.seq \in Nat
    BY SeqLeaveFacts DEF Message
  <2>3. old.seq \in Nat /\ pos.seq \in Nat
    BY SeqLeaveFacts DEF OwnPosition
  <2> QED
    BY <2>1, <2>2, <2>3
<1>4. ms # <<>> /\ Len(ms) # 0
  BY DEF EndsWith
<1>5. \A i \in 1..Len(ms) : ms[i].seq < m.seq
  <2> SUFFICES ASSUME NEW i \in 1..Len(ms) PROVE ms[i].seq < m.seq
    OBVIOUS
  <2>1. CASE i = Len(ms)
    BY <1>1, <2>1
  <2>2. CASE i # Len(ms)
    <3>1. i < Len(ms) /\ Len(ms) \in 1..Len(ms)
      BY <1>2, <1>4, <2>2
    <3>2. ms[i].seq < ms[Len(ms)].seq
      BY <3>1 DEF Increasing
    <3> QED
      BY <1>1, <1>3, <3>1, <3>2
  <2> QED
    BY <2>1, <2>2
<1> HIDE DEF m, new
<1>6. Increasing(new)
  <2> SUFFICES ASSUME NEW i \in 1..Len(new), NEW j \in 1..Len(new), i < j
               PROVE  new[i].seq < new[j].seq
    BY DEF Increasing
  <2>1. i \in 1..Len(ms)
    BY <1>2
  <2>2. CASE j \in 1..Len(ms)
    <3>1. new[i] = ms[i] /\ new[j] = ms[j]
      BY <1>2, <2>1, <2>2
    <3>2. ms[i].seq < ms[j].seq
      BY <2>1, <2>2, Zenon DEF Increasing
    <3> QED
      BY <3>1, <3>2, Zenon
  <2>3. CASE j = Len(ms) + 1
    <3>1. new[i] = ms[i] /\ new[j] = m
      BY <1>2, <2>1, <2>3
    <3>2. ms[i].seq < m.seq
      BY <1>5, <2>1, Zenon
    <3> QED
      BY <3>1, <3>2, Zenon
  <2>4. j \in 1..Len(ms) \/ j = Len(ms) + 1
    BY <1>2
  <2> QED
    BY <2>2, <2>3, <2>4, Zenon
<1>7. new # <<>> /\ new[Len(new)] = m
  BY <1>2
<1> QED
  BY <1>2, <1>6, <1>7 DEF EndsWith, m, new

\* Bowing out is a larger number than any other.
LEMMA BowOutIncreasing ==
  ASSUME NEW ms \in Seq(Message), NEW pos \in OwnPosition,
         Increasing(ms), EndsWith(ms, pos), pos.seq # SeqLeave
  PROVE  Increasing(Append(ms, Sent(BowOut(pos))))
<1>1. BowOut(pos) \in OwnPosition /\ BowOut(pos).seq = SeqLeave
  BY SentType
<1>2. pos.seq < SeqLeave
  BY SeqLeaveFacts DEF OwnPosition
<1> QED
  BY <1>1, <1>2, AppendIncreasing

\* Leaving the round keeps the order of what we say.
LEMMA LeaveConsensusWire ==
  ASSUME TypeOK, WireInv, LeaveConsensus, UNCHANGED haveResult
  PROVE  WireInv'
<1>1. mode' # "proposing"
  BY DEF LeaveConsensus
<1>2. CASE BowsOut(mode, position)
  <2>1. Increasing(Append(proposals, Sent(BowOut(position))))
    BY <1>2, BowOutIncreasing DEF WireInv, TypeOK, BowsOut
  <2>2. proposals' = Append(proposals, Sent(BowOut(position)))
    BY <1>2 DEF LeaveConsensus
  <2>3. haveResult'
    BY <1>2 DEF BowsOut
  <2> QED
    BY <1>1, <2>1, <2>2, <2>3 DEF WireInv
<1>3. CASE ~BowsOut(mode, position)
  BY <1>1, <1>3 DEF WireInv, LeaveConsensus
<1> QED
  BY <1>2, <1>3

\* Closing the ledger: the first thing we say.
LEMMA CloseLedgerWire ==
  ASSUME NEW set, NEW ct, CloseLedger(set, ct), UNCHANGED mode
  PROVE  WireInv'
<1>1. haveResult' /\ position'.seq = 0 /\ SeqLeave # 0
  BY SeqLeaveFacts DEF CloseLedger
<1>2. proposals' = IF mode = "proposing" THEN <<Sent(position')>> ELSE <<>>
  BY DEF CloseLedger
<1> DEFINE m == Sent(position')
<1>3. Increasing(<<m>>) /\ Increasing(<<>>)
  BY DEF Increasing
<1>4. <<m>> # <<>> /\ <<m>>[Len(<<m>>)] = m
  OBVIOUS
<1> QED
  BY <1>1, <1>2, <1>3, <1>4 DEF WireInv, EndsWith

\* What we say in a tick of the establish phase, before a bow-out.
LEMMA EstWire ==
  ASSUME TypeOK, WireInv, haveResult,
         position.seq < MaxOwnSeq \/ position.seq = SeqLeave
  PROVE  /\ Increasing(EstSent)
         /\ mode = "proposing" =>
              EndsWith(EstSent, EstPos) /\ EstPos.seq # SeqLeave
<1>1. EstPos \in OwnPosition /\ EstSent \in Seq(Message)
      /\ position \in OwnPosition /\ proposals \in Seq(Message)
  BY EstTypes DEF TypeOK
<1>2. CASE mode = "proposing" /\ EstChanges
  <2>1. position.seq # SeqLeave /\ EndsWith(proposals, position)
    BY <1>2 DEF WireInv
  <2>2. EstPos.seq = position.seq + 1 /\ EstPos.seq # SeqLeave
        /\ position.seq < EstPos.seq
    BY <1>1, <1>2, <2>1, SeqLeaveFacts
    DEF EstPos, ChangedPosition, OwnPosition
  <2>3. EstSent = Append(proposals, Sent(EstPos))
    BY <1>2, <2>2 DEF EstSent, Proposed, Proposing
  <2> QED
    BY <1>1, <2>1, <2>2, <2>3, AppendIncreasing DEF WireInv
<1>3. CASE ~EstChanges
  BY <1>3 DEF WireInv, EstSent, EstPos
<1>4. CASE mode # "proposing"
  BY <1>4 DEF WireInv, EstSent, Proposed, Proposing
<1> QED
  BY <1>2, <1>3, <1>4

\* A tick of the establish phase.
LEMMA PhaseEstablishWire ==
  ASSUME TypeOK, StanceConsistent, WireInv, PhaseEstablish
  PROVE  WireInv'
<1>1. haveResult /\ haveResult'
  BY EstablishParts DEF StanceConsistent, AtPhase
<1>2. /\ Increasing(EstSent)
      /\ mode = "proposing" =>
           EndsWith(EstSent, EstPos) /\ EstPos.seq # SeqLeave
  BY <1>1, EstablishParts, EstWire
<1>3. EstPos \in OwnPosition /\ EstSent \in Seq(Message)
  BY EstablishParts, EstTypes
<1>4. CASE Pause(EstPos, EstSent) \/ GoOn(EstPos, EstSent)
  BY <1>1, <1>2, <1>4 DEF Pause, GoOn, WireInv
<1>5. CASE Finish(EstPos, EstSent)
  <2>1. CASE BowsOut(mode, EstPos) /\ state' = "Expired"
    <3>1. Increasing(Append(EstSent, Sent(BowOut(EstPos))))
      BY <1>2, <1>3, <2>1, BowOutIncreasing DEF BowsOut
    <3>2. /\ proposals' = Append(EstSent, Sent(BowOut(EstPos)))
          /\ mode' # "proposing"
      BY <1>5, <2>1 DEF Finish, BowsOut, Proposing
    <3> QED
      BY <1>1, <3>1, <3>2 DEF WireInv
  <2>2. CASE ~(BowsOut(mode, EstPos) /\ state' = "Expired")
    <3>1. /\ position' = EstPos /\ proposals' = EstSent
          /\ mode' = "proposing" => mode = "proposing"
      BY <1>5, <2>2 DEF Finish
    <3> QED
      BY <1>1, <1>2, <3>1 DEF WireInv
  <2> QED
    BY <2>1, <2>2
<1> QED
  BY <1>4, <1>5, EstablishParts

\* Every step keeps what the network knows of us current.
LEMMA NextWire ==
  TypeOK /\ StanceConsistent /\ WireInv /\ [Next]_vars => WireInv'
<1> SUFFICES ASSUME TypeOK, StanceConsistent, WireInv, [Next]_vars
             PROVE  WireInv'
  OBVIOUS
<1>1. ASSUME UNCHANGED stanceVars, mode' = "proposing" => mode = "proposing"
      PROVE  WireInv'
  BY <1>1 DEF stanceVars, WireInv
<1>2. ASSUME NEW id, NEW ledger, NEW newMode, NEW recent, NEW rest,
             StartRoundInternal(id, ledger, newMode, recent, rest)
      PROVE  WireInv'
  <2>1. Increasing(<<>>)
    BY DEF Increasing
  <2> QED
    BY <1>2, <2>1 DEF StartRoundInternal, WireInv
<1>3. ASSUME Deliver PROVE WireInv'
  BY <1>1, <1>3 DEF Deliver, PeerProposal
<1>4. ASSUME NEW set \in TxSets, GotTxSet(set) PROVE WireInv'
  BY <1>1, <1>4 DEF GotTxSet
<1>5. ASSUME Start PROVE WireInv'
  BY <1>2, <1>5 DEF Start, StartRound
<1>6. ASSUME TimerEntry PROVE WireInv'
  <2>1. /\ position'.seq = position.seq /\ Sent(position') = Sent(position)
        /\ UNCHANGED <<mode, haveResult, proposals>>
    BY <1>6 DEF TimerEntry, Sent, TypeOK, OwnPosition
  <2> QED
    BY <2>1 DEF WireInv, EndsWith
<1>7. ASSUME \/ \E n \in Peers : Replay(n)
             \/ ReplayDone \/ MaybeBehind \/ KeepLedger \/ StillWrongLedger
             \/ PhaseOpenWaits \/ PhaseEstablishEarly
      PROVE  WireInv'
  BY ZenonT(60), <1>1, <1>7 DEF Replay, ReplayDone, MaybeBehind, KeepLedger,
     StillWrongLedger, PhaseOpenWaits, PhaseEstablishEarly
<1>8. ASSUME NEW net \in Ledgers, CheckLedger(net) PROVE WireInv'
  <2>1. haveResult' = haveResult
    BY <1>8 DEF CheckLedger
  <2>2. CASE LeaveConsensus
    BY <2>1, <2>2, LeaveConsensusWire
  <2>3. CASE UNCHANGED <<mode, position, proposals>>
    BY <2>1, <2>3 DEF WireInv
  <2> QED
    BY <1>8, <2>2, <2>3 DEF CheckLedger, HandleWrongLedger
<1>9. ASSUME SwitchLedger PROVE WireInv'
  BY <1>2, <1>9 DEF SwitchLedger
<1>10. ASSUME NEW set \in TxSets, NEW ct \in CloseTimes,
              PhaseOpenCloses(set, ct)
       PROVE  WireInv'
  BY <1>10, CloseLedgerWire DEF PhaseOpenCloses
<1>11. ASSUME PhaseEstablish PROVE WireInv'
  BY <1>11, PhaseEstablishWire
<1>12. CASE UNCHANGED vars
  BY <1>1, <1>12 DEF vars
<1> QED
  BY <1>3, <1>4, <1>5, <1>6, <1>7, <1>8, <1>9, <1>10, <1>11, <1>12
  DEF Next, Running

\* The invariant on what we broadcast holds in every state.
THEOREM WireInvariance == Spec => []WireInv
<1>1. Init => WireInv
  <2>1. Increasing(<<>>)
    BY DEF Increasing
  <2> QED
    BY <2>1 DEF Init, WireInv
<1>2. IInv /\ WireInv /\ [Next]_vars => WireInv'
  BY NextWire DEF IInv
<1> QED
  BY <1>1, <1>2, Invariance, PTL DEF Spec

\* Peers never take a change of our position for an old one, and a bow-out is
\* the last thing we say in a round.
THEOREM ProposalsOrdered == Spec => []ProposalsIncrease
<1>1. WireInv => ProposalsIncrease
  BY DEF WireInv, Increasing, ProposalsIncrease
<1> QED
  BY <1>1, WireInvariance, PTL

\* While we are proposing, the last thing we broadcast is our position.
THEOREM NetworkKnowsPosition == Spec => []WirePositionCurrent
<1>1. WireInv => WirePositionCurrent
  BY DEF WireInv, EndsWith, WirePositionCurrent
<1> QED
  BY <1>1, WireInvariance, PTL

-----------------------------------------------------------------------------
(* What a round ends on. *)

\* The parts of a sequence that is not empty, and of two joined ones.
LEMMA HeadTail ==
  ASSUME NEW T, NEW s \in Seq(T), s # <<>>
  PROVE  /\ Len(s) # 0 /\ Head(s) = s[1]
         /\ Tail(s) \in Seq(T) /\ Len(Tail(s)) = Len(s) - 1
         /\ \A i \in 1 .. Len(s) - 1 : Tail(s)[i] = s[i + 1]
<1>1. Len(s) # 0 /\ Head(s) = s[1]
  OBVIOUS
<1>2. Tail(s) \in Seq(T)
  OBVIOUS
<1>3. Len(Tail(s)) = Len(s) - 1
  OBVIOUS
<1>4. \A i \in 1 .. Len(s) - 1 : Tail(s)[i] = s[i + 1]
  OBVIOUS
<1> QED
  BY <1>1, <1>2, <1>3, <1>4

\* A concatenation, element by element.
LEMMA Joined ==
  ASSUME NEW T, NEW s \in Seq(T), NEW t \in Seq(T)
  PROVE  /\ Len(s \o t) = Len(s) + Len(t)
         /\ \A i \in 1 .. Len(s) : (s \o t)[i] = s[i]
         /\ \A i \in 1 .. Len(t) : (s \o t)[Len(s) + i] = t[i]
  OBVIOUS

\* The stack of a tick of the timer, with the switch of ledgers it may be in.
TickStack(s) ==
  /\ Len(s) <= 3
  /\ Len(s) > 0 => s[Len(s)] = "phase"
  /\ Len(s) = 2 => s[1] \in {"ledger", "switch"}
  /\ Len(s) = 3 => s[1] = "playback" /\ s[2] = "switch"

\* A round that has started to count its time runs in ticks only, and it ends
\* as the last thing a call does.
StackInv ==
  /\ phase = "accepted" => Len(stack) = 0
  /\ roundTime > 0 => TickStack(stack)

\* What a step leaves of the stack of a tick.
LEMMA TickTails ==
  ASSUME NEW s \in Seq(Labels), TickStack(s), s # <<>>
  PROVE  /\ TickStack(Tail(s))
         /\ Head(s) = "phase" => Len(Tail(s)) = 0
         /\ Head(s) = "ledger" => Len(Tail(s)) = 1 /\ Tail(s)[1] = "phase"
         /\ Head(s) # "behind"
<1> DEFINE t == Tail(s)
<1>1. /\ Len(s) # 0 /\ Head(s) = s[1]
      /\ t \in Seq(Labels) /\ Len(t) = Len(s) - 1
      /\ \A i \in 1 .. Len(s) - 1 : t[i] = s[i + 1]
  BY HeadTail
<1> SUFFICES /\ TickStack(t)
             /\ Head(s) = "phase" => Len(t) = 0
             /\ Head(s) = "ledger" => Len(t) = 1 /\ t[1] = "phase"
             /\ Head(s) # "behind"
  BY Zenon
<1> HIDE DEF t
<1>2. Head(s) = s[1]
  BY <1>1
<1>3. Len(s) \in {1, 2, 3}
  <2>1. Len(s) \in Nat /\ Len(s) # 0
    BY <1>1
  <2>2. Len(s) <= 3
    BY Zenon DEF TickStack
  <2>3. ASSUME NEW k \in Nat, k # 0, k <= 3
        PROVE  k \in {1, 2, 3}
    BY <2>3
  <2> QED
    BY <2>1, <2>2, <2>3, Zenon
<1>4. CASE Len(s) = 1
  <2>1. s[1] = "phase" /\ Len(t) = 0
    BY <1>1, <1>4 DEF TickStack
  <2>2. TickStack(t)
    BY <2>1 DEF TickStack
  <2> QED
    BY <1>1, <2>1, <2>2
<1>5. CASE Len(s) = 2
  <2>1. (s[1] = "ledger" \/ s[1] = "switch") /\ s[2] = "phase"
    BY <1>5 DEF TickStack
  <2>2. Len(t) = 1 /\ t[1] = s[2]
    BY <1>1, <1>5
  <2>3. TickStack(t)
    BY <2>1, <2>2 DEF TickStack
  <2>4. s[1] # "phase" /\ s[1] # "behind"
    BY <2>1
  <2>5. t[1] = "phase" /\ Len(t) = 1
    BY <2>1, <2>2
  <2> QED
    BY <1>2, <2>3, <2>4, <2>5, Zenon
<1>6. CASE Len(s) = 3
  <2>1. s[1] = "playback" /\ s[2] = "switch" /\ s[3] = "phase"
    BY <1>6 DEF TickStack
  <2>2. Len(t) = 2 /\ t[1] = s[2] /\ t[2] = s[3]
    BY <1>1, <1>6
  <2>3. TickStack(t)
    BY <2>1, <2>2 DEF TickStack
  <2> QED
    BY <1>1, <2>1, <2>2, <2>3
<1> QED
  BY <1>3, <1>4, <1>5, <1>6

\* checkLedger may put a switch of ledgers on the stack of a tick.
LEMMA TickSwitches ==
  ASSUME NEW s \in Seq(Labels), Len(s) = 1, s[1] = "phase"
  PROVE  /\ TickStack(s) /\ TickStack(<<"switch">> \o s)
         /\ TickStack(<<"playback", "switch">> \o s)
<1>1. TickStack(s)
  BY DEF TickStack
<1>2. TickStack(<<"switch">> \o s)
  <2> DEFINE a == <<"switch">>
             c == a \o s
  <2>1. a \in Seq(Labels) /\ Len(a) = 1 /\ a[1] = "switch"
    BY DEF Labels
  <2> HIDE DEF a
  <2>2. Len(c) = 2 /\ c[1] = a[1] /\ c[2] = s[1]
    BY <2>1, Joined
  <2> HIDE DEF c
  <2>3. TickStack(c)
    BY <2>1, <2>2 DEF TickStack
  <2> QED
    BY <2>3 DEF a, c
<1>3. TickStack(<<"playback", "switch">> \o s)
  <2> DEFINE a == <<"playback", "switch">>
             c == a \o s
  <2>1. a \in Seq(Labels) /\ Len(a) = 2 /\ a[1] = "playback" /\ a[2] = "switch"
    BY DEF Labels
  <2> HIDE DEF a
  <2>2. Len(c) = 3 /\ c[1] = a[1] /\ c[2] = a[2] /\ c[3] = s[1]
    <3>1. /\ Len(a \o s) = Len(a) + Len(s)
          /\ \A i \in 1 .. Len(a) : (a \o s)[i] = a[i]
          /\ \A i \in 1 .. Len(s) : (a \o s)[Len(a) + i] = s[i]
      BY <2>1, Joined
    <3> HIDE DEF c
    <3>2. /\ Len(c) = Len(a) + Len(s)
          /\ \A i \in 1 .. Len(a) : c[i] = a[i]
          /\ \A i \in 1 .. Len(s) : c[Len(a) + i] = s[i]
      BY <3>1, Zenon DEF c
    <3> QED
      BY <2>1, <3>2
  <2> HIDE DEF c
  <2>3. TickStack(c)
    BY <2>1, <2>2 DEF TickStack
  <2> QED
    BY <2>3 DEF a, c
<1> QED
  BY <1>1, <1>2, <1>3

\* checkConsensus says nothing but No until ledgerMIN_CONSENSUS has passed.
LEMMA TooEarly ==
  ASSUME NEW prev, NEW proposers, NEW agree, NEW finished, NEW last, NEW time, NEW stalled,
         NEW proposing,
         CheckConsensus(prev, proposers, agree, finished, last, time, stalled, proposing) # "No"
  PROVE  ~(time <= MinConsensus)
BY Zenon DEF CheckConsensus

\* A round ends late enough, and so on the stack of a tick.
LEMMA FinishStack ==
  ASSUME TypeOK, StackInv, PhaseEstablish, Finish(EstPos, EstSent)
  PROVE  Len(stack') = 0
<1>1. PICK finished \in 0..Cardinality(Peers) :
         state' = CheckConsensus(prevProposers, Cardinality(DOMAIN currPeerPositions'),
                                 Cardinality(Holders(currPeerPositions', EstPos.set)),
                                 finished, prevRoundTime, roundTime, AllStalled, Proposing)
  BY DEF Finish, Verdicts
<1>2. state' # "No"
  BY DEF Finish
<1>3. ~(roundTime <= MinConsensus)
  BY <1>1, <1>2, TooEarly
<1>4. roundTime > 0
  <2>1. roundTime \in Nat
    BY Zenon DEF TypeOK
  <2>2. MinConsensus \in Nat
    BY RulesAssumption, Zenon DEF RulesAssumption
  <2> QED
    BY <1>3, <2>1, <2>2
<1>5. AtPhase("establish") /\ stack' = Tail(stack)
  BY EstablishParts
<1>6. stack # <<>> /\ Head(stack) = "phase" /\ stack \in Seq(Labels)
  BY <1>5 DEF AtPhase, TypeOK
<1> QED
  BY <1>4, <1>5, <1>6, TickTails DEF StackInv

\* Every step leaves such a stack.
LEMMA NextStack == TypeOK /\ StackInv /\ [Next]_vars => StackInv'
<1> SUFFICES ASSUME TypeOK, StackInv, [Next]_vars
             PROVE  StackInv'
  OBVIOUS
<1>1. ASSUME UNCHANGED <<phase, roundTime, stack>>
      PROVE  StackInv'
  BY <1>1 DEF StackInv
<1>2. ASSUME NEW id, NEW ledger, NEW newMode, NEW recent, NEW rest,
             StartRoundInternal(id, ledger, newMode, recent, rest)
      PROVE  StackInv'
  BY <1>2 DEF StartRoundInternal, StackInv
<1>3. ASSUME stack # <<>>, stack' = Tail(stack), UNCHANGED <<phase, roundTime>>
      PROVE  StackInv'
  <2>1. stack \in Seq(Labels) /\ Len(stack) # 0
    <3>1. stack \in Seq(Labels)
      BY Zenon DEF TypeOK
    <3> QED
      BY <1>3, <3>1, HeadTail
  <2>2. TickStack(stack) => TickStack(stack')
    BY <1>3, <2>1, TickTails, Zenon
  <2>3. phase # "accepted"
    BY <2>1, Zenon DEF StackInv
  <2> QED
    BY <1>3, <2>2, <2>3, Zenon DEF StackInv
<1>4. ASSUME Deliver PROVE StackInv'
  BY <1>1, <1>4 DEF Deliver, PeerProposal, clockVars, callVars
<1>5. ASSUME NEW set \in TxSets, GotTxSet(set) PROVE StackInv'
  BY <1>1, <1>5 DEF GotTxSet, clockVars, callVars
<1>6. ASSUME Start PROVE StackInv'
  BY <1>2, <1>6 DEF Start, StartRound
<1>7. ASSUME TimerEntry PROVE StackInv'
  <2>1. TickStack(<<"ledger", "phase">>)
    BY DEF TickStack
  <2>2. phase' # "accepted" /\ stack' = <<"ledger", "phase">>
    BY <1>7 DEF TimerEntry
  <2> QED
    BY <2>1, <2>2 DEF StackInv
<1>8. ASSUME NEW n \in Peers, Replay(n) PROVE StackInv'
  BY <1>1, <1>8, Zenon DEF Replay, clockVars
<1>9. ASSUME ReplayDone \/ KeepLedger \/ StillWrongLedger \/ PhaseOpenWaits
      PROVE  StackInv'
  BY <1>3, <1>9, Zenon DEF ReplayDone, KeepLedger, StillWrongLedger, PhaseOpenWaits, AtPhase, clockVars
<1>10. ASSUME MaybeBehind PROVE StackInv'
  <2>1. stack # <<>> /\ Head(stack) = "behind" /\ UNCHANGED <<phase, roundTime>>
    BY <1>10 DEF MaybeBehind, clockVars
  <2>2. stack \in Seq(Labels) /\ Len(stack) # 0
    BY <2>1, HeadTail DEF TypeOK
  <2> QED
    BY <2>1, <2>2, TickTails DEF StackInv
<1>11. ASSUME NEW net \in Ledgers, CheckLedger(net) PROVE StackInv'
  <2>1. stack # <<>> /\ Head(stack) = "ledger" /\ UNCHANGED <<phase, roundTime>>
    BY <1>11 DEF CheckLedger, clockVars
  <2>2. stack \in Seq(Labels) /\ Len(stack) # 0 /\ Tail(stack) \in Seq(Labels)
    BY <2>1, HeadTail DEF TypeOK
  <2>3. roundTime > 0 => Len(Tail(stack)) = 1 /\ Tail(stack)[1] = "phase"
    BY <2>1, <2>2, TickTails, Zenon DEF StackInv
  <2>4. \/ stack' = Tail(stack)
        \/ stack' = <<"playback", "switch">> \o Tail(stack)
        \/ stack' = <<"switch">> \o Tail(stack)
    BY <1>11 DEF CheckLedger, HandleWrongLedger
  <2>5. roundTime > 0 => TickStack(stack')
    BY <2>2, <2>3, <2>4, TickSwitches, Zenon
  <2> QED
    BY <2>1, <2>2, <2>5 DEF StackInv
<1>12. ASSUME SwitchLedger PROVE StackInv'
  BY <1>2, <1>12 DEF SwitchLedger
<1>13. ASSUME NEW set \in TxSets, NEW ct \in CloseTimes, PhaseOpenCloses(set, ct)
       PROVE  StackInv'
  <2>1. phase' = "establish" /\ roundTime' = 0
    BY <1>13 DEF PhaseOpenCloses, CloseLedger
  <2> QED
    BY <2>1 DEF StackInv
<1>14. ASSUME PhaseEstablishEarly PROVE StackInv'
  BY <1>3, <1>14 DEF PhaseEstablishEarly, AtPhase, clockVars
<1>15. ASSUME PhaseEstablish PROVE StackInv'
  <2>1. stack # <<>> /\ stack' = Tail(stack) /\ roundTime' = roundTime
    BY <1>15, EstablishParts DEF AtPhase, clockVars
  <2>2. CASE Pause(EstPos, EstSent) \/ GoOn(EstPos, EstSent)
    BY <1>3, <2>1, <2>2 DEF Pause, GoOn
  <2>3. CASE Finish(EstPos, EstSent)
    <3>1. Len(stack') = 0
      BY <1>15, <2>3, FinishStack
    <3> QED
      BY <3>1 DEF StackInv, TickStack
  <2> QED
    BY <1>15, <2>2, <2>3, EstablishParts
<1>16. CASE UNCHANGED vars
  BY <1>1, <1>16 DEF vars, clockVars, callVars
<1> QED
  BY <1>4, <1>5, <1>6, <1>7, <1>8, <1>9, <1>10, <1>11, <1>12, <1>13, <1>14, <1>15, <1>16
  DEF Next, Running

\* Percentages: what a rounded-down quotient says of the numbers.
LEMMA Quotient ==
  ASSUME NEW a \in Nat, NEW b \in Nat \ {0}, NEW c \in Nat
  PROVE  /\ a \div b >= c => a >= c * b
         /\ a \div b > c => a > c * b
         /\ a \div b < c => a < c * b
<1> DEFINE q == a \div b
<1>1. q \in Nat /\ b * q <= a /\ a < b * (q + 1)
  OBVIOUS
<1> HIDE DEF q
<1>2. ASSUME q >= c PROVE c * b <= b * q
  BY <1>1, <1>2
<1>3. ASSUME q > c PROVE b * c + b <= b * q
  BY <1>1, <1>3
<1>4. ASSUME q < c PROVE b * (q + 1) <= b * c
  BY <1>1, <1>4
<1> QED
  BY <1>1, <1>2, <1>3, <1>4 DEF q

\* roundCloseTime rounds a rounded time to itself.
LEMMA RoundedStays ==
  ASSUME NEW t \in Nat, NEW r \in Resolutions
  PROVE  RoundCloseTime(RoundCloseTime(t, r), r) = RoundCloseTime(t, r)
  BY DEF RoundCloseTime, Resolutions

\* Rounding a close time of ours to the resolution again changes nothing.
LEMMA CloseTimeStays ==
  ASSUME previousLedger \in Ledgers, NEW raw \in Nat
  PROVE  AsCloseTime(AsCloseTime(raw)) = AsCloseTime(raw)
<1> DEFINE info == LedgerInfo[previousLedger]
<1>1. /\ info.resolution \in Resolutions /\ info.agree \in BOOLEAN
      /\ info.seq + 1 \in Nat
  BY ConsensusAssumption DEF ConsensusAssumption, Resolutions
<1>2. CloseResolution = NextTimeResolution(info.resolution, info.agree,
                                           info.seq + 1)
  BY DEF CloseResolution
<1> HIDE DEF info
<1>3. CloseResolution \in Resolutions
  BY <1>1, <1>2, ResolutionType
<1> QED
  BY <1>3, RoundedStays DEF AsCloseTime

\* Only one close time can lead the vote, and it is a rounded one.
LEMMA LeadingFacts ==
  ASSUME NEW fresh, IsPartialFunction(fresh, Peers, PeerPosition),
         previousLedger \in Ledgers, position.ct \in Nat,
         NEW t \in Leading(fresh)
  PROVE  /\ t \in Nat /\ AsCloseTime(t) = t
         /\ \A u \in Leading(fresh) : u = t
<1>1. \A n \in DOMAIN fresh : fresh[n].ct \in Nat
  BY ConsensusAssumption
  DEF ConsensusAssumption, IsPartialFunction, PeerPosition
<1>2. \A u \in VotedCloseTimes(fresh) : u \in Nat /\ AsCloseTime(u) = u
  <2> SUFFICES ASSUME NEW u \in VotedCloseTimes(fresh)
               PROVE  u \in Nat /\ AsCloseTime(u) = u
    OBVIOUS
  <2>1. PICK raw \in Nat : u = AsCloseTime(raw)
    BY <1>1 DEF VotedCloseTimes
  <2> QED
    BY <2>1, AsCloseTimeType, CloseTimeStays
<1>3. \A u \in Leading(fresh) : u \in VotedCloseTimes(fresh)
  BY DEF Leading
<1>4. ASSUME NEW u \in Leading(fresh)
      PROVE  u = t
  <2>1. /\ \/ CloseTimeVotes(fresh, u) < CloseTimeVotes(fresh, t)
           \/ CloseTimeVotes(fresh, u) = CloseTimeVotes(fresh, t) /\ u <= t
        /\ \/ CloseTimeVotes(fresh, t) < CloseTimeVotes(fresh, u)
           \/ CloseTimeVotes(fresh, t) = CloseTimeVotes(fresh, u) /\ t <= u
    BY DEF Leading
  <2>2. ASSUME NEW v PROVE CloseTimeVotes(fresh, v) \in Nat
    <3> DEFINE S == {n \in DOMAIN fresh : AsCloseTime(fresh[n].ct) = v}
    <3>1. S \subseteq Peers
      BY DEF IsPartialFunction
    <3>2. CloseTimeVotes(fresh, v) = Cardinality(S) + (IF AsCloseTime(position.ct) = v THEN Self ELSE 0)
      BY DEF CloseTimeVotes
    <3> HIDE DEF S
    <3>3. Cardinality(S) \in Nat
      BY <3>1, PeersCount
    <3>4. Self \in Nat
      BY DEF Self
    <3> QED
      BY <3>2, <3>3, <3>4
  <2>3. u \in Nat /\ t \in Nat
    BY <1>2, <1>3
  <2>4. CloseTimeVotes(fresh, u) \in Nat /\ CloseTimeVotes(fresh, t) \in Nat
    BY <2>2
  <2> QED
    BY <2>1, <2>3, <2>4
<1> QED
  BY <1>2, <1>3, <1>4

\* An ended round, as it is right after haveConsensus said yes.
LEMMA FinishVerdict ==
  ASSUME TypeOK, PhaseEstablish, Finish(EstPos, EstSent), phase' = "accepted",
         state' = "Yes", DOMAIN currPeerPositions' # {}
  PROVE  \/ (Cardinality(Holders(currPeerPositions', EstPos.set)) + Self) * 100
              >= MinConsensusPct * (Cardinality(DOMAIN currPeerPositions') + Self)
         \/ AllStalled
<1> DEFINE agree == Cardinality(Holders(currPeerPositions', EstPos.set))
           total == Cardinality(DOMAIN currPeerPositions')
<1>1. PICK finished \in 0..Cardinality(Peers) :
         "Yes" = CheckConsensus(prevProposers, total, agree, finished, prevRoundTime, roundTime,
                                AllStalled, Proposing)
  BY DEF Finish, Verdicts
<1>2. CheckConsensusReached(agree, total, Proposing, roundTime > MaxConsensus, AllStalled)
  BY <1>1, Zenon DEF CheckConsensus
<1>3. agree \in Nat /\ total \in Nat /\ total # 0
  <2>1. TypeOK'
    BY NextTypes DEF Next, Running
  <2>2. DOMAIN currPeerPositions' \subseteq Peers
    BY <2>1 DEF TypeOK, IsPartialFunction
  <2>3. Holders(currPeerPositions', EstPos.set) \subseteq Peers
    BY <2>2 DEF Holders
  <2>4. IsFiniteSet(DOMAIN currPeerPositions') /\ total \in Nat /\ agree \in Nat
    BY <2>2, <2>3, PeersCount
  <2>5. total # 0
    BY <2>4, FS_EmptySet
  <2> QED
    BY <2>4, <2>5
<1> HIDE DEF agree, total
<1>4. AllStalled \/ ((agree + Self) * 100) \div (total + Self) >= MinConsensusPct
  BY <1>2, <1>3 DEF CheckConsensusReached, Self
<1>5. Self \in Nat /\ MinConsensusPct \in Nat
  BY RulesAssumption DEF RulesAssumption, Self
<1>6. (agree + Self) * 100 \in Nat /\ total + Self \in Nat \ {0}
  BY <1>3, <1>5
<1>7. AllStalled \/ (agree + Self) * 100 >= MinConsensusPct * (total + Self)
  BY <1>4, <1>5, <1>6, Quotient
<1> QED
  BY <1>7 DEF agree, total

\* More than the required share of the votes on d, with self of our own, are
\* on one side.
Decided(d, self) ==
  LET yes    == (Yays(d) + (IF d.ourVote THEN self ELSE 0)) * 100
      voters == Yays(d) + Nays(d) + self
  IN  \/ yes > MinConsensusPct * voters
      \/ yes < (100 - MinConsensusPct) * voters

\* The dispute d is stalled when we are in the mode of this state.
StalledNow(d, unchanged) ==
  d.ourVote \in BOOLEAN /\ Stalled(d, Yays(d), Nays(d), Proposing, unchanged)

\* A stalled dispute is decided.
LEMMA StalledDecided ==
  ASSUME NEW d, NEW unchanged, StalledNow(d, unchanged)
  PROVE  Decided(d, Self)
<1>0. d.ourVote \in BOOLEAN /\ Stalled(d, Yays(d), Nays(d), Proposing, unchanged)
  BY DEF StalledNow
<1> DEFINE yes    == (Yays(d) + (IF d.ourVote THEN Self ELSE 0)) * 100
           voters == Yays(d) + Nays(d) + Self
<1>1. Yays(d) \in Nat /\ Nays(d) \in Nat /\ Self \in Nat
  BY YaysNaysType DEF Self
<1>2. /\ yes = (Yays(d) + (IF Proposing /\ d.ourVote THEN 1 ELSE 0)) * 100
      /\ voters = Nays(d) + Yays(d) + (IF Proposing THEN 1 ELSE 0)
  BY <1>1 DEF Self
<1>3. yes \in Nat /\ voters \in Nat
  BY <1>1
<1>4. voters # 0 /\ (yes \div voters > MinConsensusPct \/ yes \div voters < 100 - MinConsensusPct)
  BY <1>0, <1>2 DEF Stalled
<1> HIDE DEF yes, voters
<1>5. MinConsensusPct \in Nat /\ 100 - MinConsensusPct \in Nat
  BY RulesAssumption DEF RulesAssumption
<1>6. yes > MinConsensusPct * voters \/ yes < (100 - MinConsensusPct) * voters
  BY <1>3, <1>4, <1>5, Quotient
<1> QED
  BY <1>6 DEF yes, voters, Decided

\* The set a round ends on.
LEMMA FinishSet ==
  ASSUME TypeOK, TypeOK', StanceConsistent', PhaseEstablish, Finish(EstPos, EstSent)
  PROVE  AcceptedSetSupported'
<1> SUFFICES ASSUME phase' = "accepted", haveResult', state' = "Yes", DOMAIN currPeerPositions' # {}
             PROVE  AcceptedSetSupported'
  BY DEF AcceptedSetSupported, Live
<1>1. mode' = mode /\ position' = EstPos
  BY DEF Finish
<1>2. Self' = Self /\ (Proposing <=> Proposing')
  BY <1>1 DEF Self, Proposing
<1>3. EstPos.set = txns'
  BY <1>1 DEF StanceConsistent
<1>4. CASE (Cardinality(Holders(currPeerPositions', EstPos.set)) + Self) * 100
              >= MinConsensusPct * (Cardinality(DOMAIN currPeerPositions') + Self)
  BY <1>2, <1>3, <1>4 DEF AcceptedSetSupported, Live
<1>5. CASE AllStalled
  <2>1. DOMAIN disputes' # {}
    BY <1>5 DEF AllStalled
  <2>2. ASSUME NEW t \in DOMAIN disputes'
        PROVE  Decided(disputes'[t], Self)
    <3>1. Stalled(disputes'[t], Yays(disputes'[t]), Nays(disputes'[t]), Proposing, peerUnchangedCounter')
      BY <1>5 DEF AllStalled
    <3>2. disputes'[t].ourVote \in BOOLEAN
      BY Zenon DEF TypeOK, IsPartialFunction, Dispute
    <3>3. StalledNow(disputes'[t], peerUnchangedCounter')
      BY <3>1, <3>2, Zenon DEF StalledNow
    <3> QED
      BY <3>3, StalledDecided, Zenon
  <2>3. \A t \in DOMAIN disputes' : Decided(disputes'[t], Self')
    BY <1>2, <2>2
  <2> QED
    BY <2>1, <2>3, Zenon DEF AcceptedSetSupported, Decided, Yays, Nays
<1> QED
  BY <1>4, <1>5, FinishVerdict

\* The close time a round ends on.
LEMMA FinishCloseTime ==
  ASSUME TypeOK, PhaseEstablish, Finish(EstPos, EstSent)
  PROVE  AcceptedCloseTimeShared'
<1> SUFFICES ASSUME phase' = "accepted", haveResult', state' # "Expired", DOMAIN currPeerPositions' # {}
             PROVE  AcceptedCloseTimeShared'
  BY DEF AcceptedCloseTimeShared, Live
<1> DEFINE fresh == FreshPositions
<1>1. mode' = mode /\ position' = EstPos /\ haveCloseTimeConsensus'
  <2>1. phase # phase'
    BY EstablishParts DEF AtPhase
  <2> QED
    BY <2>1, Zenon DEF Finish
<1>2. currPeerPositions' = fresh /\ haveCloseTimeConsensus' = CloseTimeAgreed(fresh)
  BY EstablishParts, Zenon DEF UpdateOurPositions
<1>3. previousLedger' = previousLedger
  BY EstablishParts DEF ledgerVars
<1>4. IsPartialFunction(fresh, Peers, PeerPosition) /\ previousLedger \in Ledgers /\ position.ct \in Nat
  BY FreshFacts DEF TypeOK, OwnPosition
<1> HIDE DEF fresh
<1>5. PICK t \in Leading(fresh) :
         CloseTimeVotes(fresh, t) >= ParticipantsNeeded(Participants(fresh), CtConsensusPct)
  BY <1>1, <1>2, Zenon DEF CloseTimeAgreed
<1>6. /\ t \in Nat /\ AsCloseTime(t) = t
      /\ \A u \in Leading(fresh) : u = t
  BY <1>4, LeadingFacts
<1>7. EstCt = t
  <2>1. EstCt = CHOOSE u \in Leading(fresh) : TRUE
    BY <1>2, <1>5 DEF EstCt, ConsensusCloseTime, fresh
  <2> QED
    BY <1>5, <1>6, <2>1
<1>8. AsCloseTime(EstPos.ct) = t
  <2>1. CASE EstChanges
    <3>1. EstPos.ct = EstCt
      BY <2>1 DEF EstPos, ChangedPosition
    <3> QED
      BY <3>1, <1>6, <1>7
  <2>2. CASE ~EstChanges
    <3>1. EstPos = position /\ EstCt = AsCloseTime(position.ct)
      BY <2>2 DEF EstPos, EstChanges, PositionChanges
    <3> QED
      BY <3>1, <1>7
  <2> QED
    BY <2>1, <2>2
<1> DEFINE same == {n \in DOMAIN fresh : AsCloseTime(fresh[n].ct) = t}
<1>9. same \subseteq Peers
  BY <1>4 DEF IsPartialFunction
<1>10. CloseTimeVotes(fresh, t) = Cardinality(same) + (IF AsCloseTime(position.ct) = t THEN Self ELSE 0)
  BY DEF CloseTimeVotes
<1>11. {n \in DOMAIN currPeerPositions' :
           RoundCloseTime(currPeerPositions'[n].ct, CloseResolution')
             = RoundCloseTime(position'.ct, CloseResolution')} = same
  <2>1. CloseResolution' = CloseResolution
    BY <1>3 DEF CloseResolution
  <2> QED
    BY <1>1, <1>2, <1>8, <2>1 DEF AsCloseTime
<1> HIDE DEF same
<1>12. Cardinality(same) \in Nat /\ Self \in {0, 1} /\ Self' = Self
  BY <1>1, <1>9, PeersCount DEF Self, Proposing
<1>13. Cardinality(DOMAIN fresh) \in Nat
  BY <1>4, PeersCount DEF IsPartialFunction
<1>14. ParticipantsNeeded(Participants(fresh), CtConsensusPct) \in Int
  <2>1. Participants(fresh) \in Nat
    BY <1>12, <1>13 DEF Participants
  <2>2. CtConsensusPct \in Nat
    BY RulesAssumption DEF RulesAssumption
  <2> QED
    BY <2>1, <2>2 DEF ParticipantsNeeded
<1>15. Cardinality(same) + Self >= ParticipantsNeeded(Participants(fresh), CtConsensusPct)
  <2>1. /\ CloseTimeVotes(fresh, t) \in Int
        /\ CloseTimeVotes(fresh, t) <= Cardinality(same) + Self
    BY <1>10, <1>12
  <2> QED
    BY <1>5, <1>12, <1>14, <2>1
<1> QED
  BY <1>2, <1>11, <1>12, <1>15, Zenon DEF AcceptedCloseTimeShared, Live, Participants, AsCloseTime

AcceptInv == StackInv /\ AcceptedSetSupported /\ AcceptedCloseTimeShared

\* What these properties look at.
acceptVars == <<phase, mode, previousLedger, currPeerPositions, haveResult, txns, position,
                disputes, state>>

\* An ended round stays as it ended until the next one starts.
LEMMA AcceptedFrame ==
  ASSUME AcceptedSetSupported, AcceptedCloseTimeShared, UNCHANGED acceptVars
  PROVE  AcceptedSetSupported' /\ AcceptedCloseTimeShared'
<1>1. /\ phase' = phase /\ currPeerPositions' = currPeerPositions /\ haveResult' = haveResult
      /\ txns' = txns /\ position' = position /\ disputes' = disputes /\ state' = state
  BY DEF acceptVars
<1>2. Self' = Self
  BY DEF acceptVars, Self, Proposing
<1>3. CloseResolution' = CloseResolution
  BY DEF acceptVars, CloseResolution
<1>4. AcceptedSetSupported'
  <2>1. Live' = Live /\ Holders(currPeerPositions', txns') = Holders(currPeerPositions, txns)
    BY <1>1, Zenon DEF Live
  <2>2. AcceptedSetSupported <=>
          ((phase = "accepted" /\ haveResult /\ state = "Yes" /\ Live # {}) =>
             \/ (Cardinality(Holders(currPeerPositions, txns)) + Self) * 100
                  >= MinConsensusPct * (Cardinality(Live) + Self)
             \/ DOMAIN disputes # {} /\ \A t \in DOMAIN disputes : Decided(disputes[t], Self))
    BY Zenon DEF AcceptedSetSupported, Decided
  <2>3. AcceptedSetSupported' <=>
          ((phase' = "accepted" /\ haveResult' /\ state' = "Yes" /\ Live' # {}) =>
             \/ (Cardinality(Holders(currPeerPositions', txns')) + Self') * 100
                  >= MinConsensusPct * (Cardinality(Live') + Self')
             \/ DOMAIN disputes' # {} /\ \A t \in DOMAIN disputes' : Decided(disputes'[t], Self'))
    BY DEF AcceptedSetSupported, Decided, Holders, Yays, Nays
  <2> QED
    BY <1>1, <1>2, <2>1, <2>2, <2>3, Zenon
<1>5. AcceptedCloseTimeShared'
  BY <1>1, <1>2, <1>3, Zenon DEF AcceptedCloseTimeShared, Live, AsCloseTime
<1> QED
  BY <1>4, <1>5

\* A round that has not ended has nothing to account for.
LEMMA NotAccepted ==
  ASSUME phase' # "accepted" \/ ~haveResult'
  PROVE  AcceptedSetSupported' /\ AcceptedCloseTimeShared'
BY DEF AcceptedSetSupported, AcceptedCloseTimeShared

\* Every step of the engine ends a round, if at all, with that support.
LEMMA NextAccept ==
  ASSUME IInv, IInv', AcceptInv, [Next]_vars
  PROVE  AcceptedSetSupported' /\ AcceptedCloseTimeShared'
<1> DEFINE Goal == AcceptedSetSupported' /\ AcceptedCloseTimeShared'
<1>1. ASSUME stack # <<>>, phase' = phase
      PROVE  Goal
  <2>1. Len(stack) # 0
    BY <1>1, HeadTail DEF IInv, TypeOK
  <2>2. phase # "accepted"
    BY <2>1 DEF AcceptInv, StackInv
  <2> QED
    BY <1>1, <2>2, NotAccepted
<1>2. ASSUME NEW id, NEW ledger, NEW newMode, NEW recent, NEW rest,
             StartRoundInternal(id, ledger, newMode, recent, rest)
      PROVE  Goal
  BY <1>2, NotAccepted DEF StartRoundInternal
<1>3. ASSUME UNCHANGED acceptVars PROVE Goal
  BY <1>3, AcceptedFrame DEF AcceptInv
<1>4. ASSUME Deliver PROVE Goal
  <2>1. PICK n \in Peers : \E p : PeerProposal(n, p)
    BY <1>4 DEF Deliver
  <2>2. phase' = phase /\ UNCHANGED <<mode, ledgerVars, stanceVars>>
    BY <2>1 DEF PeerProposal
  <2>3. CASE phase = "accepted"
    <3>1. UNCHANGED <<peerVars, disputeVars>>
      BY <2>1, <2>3 DEF PeerProposal, PeerProposalInternal, Ignored
    <3> QED
      BY <1>3, <2>2, <3>1, Zenon DEF acceptVars, ledgerVars, stanceVars, peerVars, disputeVars
  <2> QED
    BY <2>2, <2>3, NotAccepted
<1>5. ASSUME NEW set \in TxSets, GotTxSet(set) PROVE Goal
  <2>1. phase' = phase /\ UNCHANGED <<mode, ledgerVars, stanceVars, currPeerPositions>>
    BY <1>5 DEF GotTxSet
  <2>2. CASE phase = "accepted"
    <3>1. UNCHANGED disputeVars
      BY <1>5, <2>2 DEF GotTxSet
    <3> QED
      BY <1>3, <2>1, <3>1 DEF acceptVars, ledgerVars, stanceVars, disputeVars
  <2> QED
    BY <2>1, <2>2, NotAccepted
<1>6. ASSUME Start PROVE Goal
  BY <1>2, <1>6 DEF Start, StartRound
<1>7. ASSUME TimerEntry PROVE Goal
  BY <1>7, NotAccepted DEF TimerEntry
<1>8. ASSUME \/ \E n \in Peers : Replay(n)
             \/ ReplayDone \/ MaybeBehind \/ KeepLedger \/ StillWrongLedger
             \/ PhaseOpenWaits \/ PhaseEstablishEarly
             \/ \E net \in Ledgers : CheckLedger(net)
      PROVE  Goal
  <2>1. stack # <<>> /\ phase' = phase
    BY <1>8, Zenon DEF Replay, ReplayDone, MaybeBehind, KeepLedger, StillWrongLedger,
       PhaseOpenWaits, PhaseEstablishEarly, CheckLedger, AtPhase
  <2> QED
    BY <1>1, <2>1
<1>9. ASSUME SwitchLedger PROVE Goal
  BY <1>2, <1>9 DEF SwitchLedger
<1>10. ASSUME NEW set \in TxSets, NEW ct \in CloseTimes, PhaseOpenCloses(set, ct)
       PROVE  Goal
  <2>1. phase' = "establish"
    BY <1>10 DEF PhaseOpenCloses, CloseLedger
  <2> QED
    BY <2>1, NotAccepted
<1>11. ASSUME PhaseEstablish PROVE Goal
  <2>1. CASE Pause(EstPos, EstSent) \/ GoOn(EstPos, EstSent)
    BY <1>1, <1>11, <2>1, EstablishParts DEF Pause, GoOn, AtPhase
  <2>2. CASE Finish(EstPos, EstSent)
    BY <1>11, <2>2, FinishSet, FinishCloseTime DEF IInv
  <2> QED
    BY <1>11, <2>1, <2>2, EstablishParts
<1>12. CASE UNCHANGED vars
  BY <1>3, <1>12 DEF vars, acceptVars, ledgerVars, stanceVars, peerVars, disputeVars
<1> QED
  BY <1>4, <1>5, <1>6, <1>7, <1>8, <1>9, <1>10, <1>11, <1>12, Zenon DEF Next, Running

\* What an ended round satisfies holds in every state.
THEOREM AcceptInvariance == Spec => []AcceptInv
<1>1. Init => AcceptInv
  <2> SUFFICES ASSUME Init PROVE AcceptInv
    OBVIOUS
  <2>1. haveResult = FALSE /\ stack = <<>> /\ roundTime = 0
    BY DEF Init
  <2>2. ~(roundTime > 0) /\ Len(stack) = 0
    BY <2>1
  <2> QED
    BY <2>1, <2>2, Zenon DEF AcceptInv, StackInv, AcceptedSetSupported, AcceptedCloseTimeShared
<1>2. IInv /\ IInv' /\ AcceptInv /\ [Next]_vars => AcceptInv'
  BY NextStack, NextAccept DEF IInv, AcceptInv
<1> QED
  BY <1>1, <1>2, Invariance, PTL DEF Spec

\* A round that ends with peers taking part ends on a set that the needed
\* share of them holds, or with every disputed transaction decided.
THEOREM EndsSupported == Spec => []AcceptedSetSupported
<1>1. AcceptInv => AcceptedSetSupported
  BY DEF AcceptInv
<1> QED
  BY <1>1, AcceptInvariance, PTL

\* A round that does not expire ends on a close time that the needed share of
\* the participants names.
THEOREM EndsOnSharedTime == Spec => []AcceptedCloseTimeShared
<1>1. AcceptInv => AcceptedCloseTimeShared
  BY DEF AcceptInv
<1> QED
  BY <1>1, AcceptInvariance, PTL
=============================================================================
