------------------------ MODULE ValidatorVoteTracker ------------------------
(***************************************************************************)
(* The tracker that turns validations into ValidatorVote transactions      *)
(* (src/xrpld/app/misc/ValidatorVoteTracker.{h,cpp}), with its two callers:*)
(* handleNewValidation of RCLValidations.cpp records a vote, onClose of    *)
(* RCLConsensus.cpp, when proposing, puts the votes for the last closed    *)
(* ledger into the initial position of the round.                          *)
(***************************************************************************)
EXTENDS Naturals, FiniteSets

CONSTANTS
  Validating,   \* the trusted validators
  MaxSeq,       \* bound on ledger numbers
  Keep,         \* the ledgers cleanup() keeps (10)
  Proposes      \* BOOLEAN values the node's proposing can have

ASSUME TrackerAssumption == MaxSeq \in Nat \ {0} /\ Keep \in Nat

VARIABLES
  votesByLedger,         \* votesByLedger_: the validators with a vote, by ledger
  processedValidators,   \* processedValidators_
  lastSeq,               \* the newest ledger each validator validated
  lcl,                   \* the last closed ledger
  position,              \* the votes in our initial position, once closed
  injected,              \* history: the votes ever put into a position
  again                  \* history: some vote was put into a position twice

trackerVars == <<votesByLedger, processedValidators, lastSeq, lcl, position, injected, again>>

Seqs == 1..MaxSeq
NoPosition == <<>>

TrackerInit ==
  /\ votesByLedger = [s \in Seqs |-> {}]
  /\ processedValidators = [s \in Seqs |-> {}]
  /\ lastSeq = [v \in Validating |-> 0]
  /\ lcl = 1
  /\ position = NoPosition
  /\ injected = {}
  /\ again = FALSE

\* handleNewValidation calls recordVote for a trusted validation that
\* Validations::add finds current, hence newer than the validator's last.
RecordVote(v, s) ==
  /\ s > lastSeq[v]
  /\ lastSeq' = [lastSeq EXCEPT ![v] = s]
  /\ votesByLedger' = [votesByLedger EXCEPT ![s] = @ \union {v}]
  /\ UNCHANGED <<processedValidators, lcl, position, injected, again>>

\* cleanup()
Kept(perLedger, current) ==
  [s \in Seqs |-> IF current > Keep /\ s < current - Keep THEN {} ELSE perLedger[s]]

\* Mutant of NewVotes: a vote that had its transaction is taken again.
NewVotesAgain(s) == votesByLedger[s]

\* The validators of the ledger's votes that have not had their transaction.
NewVotes(s) == votesByLedger[s] \ processedValidators[s]

\* doVoting(), from onClose of a proposing node.  With no vote for the ledger
\* it returns before the clean-up.
DoVoting ==
  /\ position = NoPosition
  /\ TRUE \in Proposes
  /\ IF votesByLedger[lcl] = {}
     THEN /\ position' = <<{}>>
          /\ UNCHANGED <<votesByLedger, processedValidators, injected, again>>
     ELSE LET new == NewVotes(lcl)
              txs == {<<lcl, v>> : v \in new}
          IN  /\ position' = <<new>>
              /\ injected' = injected \union txs
              /\ again' = (again \/ injected \intersect txs # {})
              /\ votesByLedger' = Kept(votesByLedger, lcl)
              /\ processedValidators' =
                   Kept([processedValidators EXCEPT ![lcl] = @ \union new], lcl)
  /\ UNCHANGED <<lastSeq, lcl>>

\* onClose of a node that does not propose.
CloseWithoutVoting ==
  /\ position = NoPosition
  /\ FALSE \in Proposes
  /\ position' = <<{}>>
  /\ UNCHANGED <<votesByLedger, processedValidators, lastSeq, lcl, injected, again>>

\* A round starts: on the next ledger, on the same one again, or on another
\* the network prefers.
StartRound(s) ==
  /\ position # NoPosition
  /\ lcl' = s
  /\ position' = NoPosition
  /\ UNCHANGED <<votesByLedger, processedValidators, lastSeq, injected, again>>

TrackerNext ==
  \/ \E v \in Validating, s \in Seqs : RecordVote(v, s)
  \/ DoVoting
  \/ CloseWithoutVoting
  \/ \E s \in Seqs : StartRound(s)

TrackerSpec == TrackerInit /\ [][TrackerNext]_trackerVars

-----------------------------------------------------------------------------
(* Properties. *)

\* No validator's vote for a ledger is put into two of our positions, however
\* often the node returns to that ledger and whatever cleanup() has dropped:
\* a vote counts once in ValidatorVoteStats (ValidatorVoteTracker.cpp:72-83).
VotedOncePerLedger == ~again

=============================================================================
