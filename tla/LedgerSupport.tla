--------------------------- MODULE LedgerSupport ---------------------------
(***************************************************************************)
(* What the ancestry trie of validated ledgers promises.  A ledger is the  *)
(* sequence of the identifiers of its ancestors, the genesis ledger being  *)
(* the empty one, so that its length is its sequence number and its        *)
(* prefixes are its ancestors.  The only state is how many validators      *)
(* stand on each ledger.  The preferred ledger is found one sequence       *)
(* number at a time, as the comment of LedgerTrie::getPreferred words it.  *)
(***************************************************************************)
EXTENDS Integers, Sequences, FiniteSets, FiniteSetsExt

CONSTANTS
    Ids,       \* identifiers, ordered as integers, that tell siblings apart
    MaxSeq,    \* bound on sequence numbers
    MaxTotal   \* bound on the support tracked at a time

Ledgers == UNION {[1 .. n -> Ids] : n \in 0 .. MaxSeq}

VARIABLE support

Ancestor(l, s) == SubSeq(l, 1, s)
IsAncestor(a, b) == Len(a) <= Len(b) /\ Ancestor(b, Len(a)) = a
Total(sup, S) == FoldSet(LAMBDA l, n : n + sup[l], 0, S)
Branch(sup, l) == Total(sup, {d \in Ledgers : IsAncestor(l, d)})

\* Validators that may still validate any ledger of sequence number s.
Uncommitted(sup, s, largest) ==
    Total(sup, {l \in Ledgers : Len(l) < s \/ Len(l) < largest})

Known(sup, l) ==
    {c \in Ledgers : Len(c) = Len(l) + 1 /\ IsAncestor(l, c) /\ Branch(sup, c) > 0}
LastId(l) == l[Len(l)]
Beats(sup, a, b) ==
    \/ Branch(sup, a) > Branch(sup, b)
    \/ Branch(sup, a) = Branch(sup, b) /\ LastId(a) > LastId(b)
\* How far the best child c is ahead of what any sibling has.
Margin(sup, c, siblings) ==
    IF siblings = {} THEN Branch(sup, c)
    ELSE LET second == CHOOSE b \in siblings : \A o \in siblings \ {b} : Beats(sup, b, o)
         IN  Branch(sup, c) - Branch(sup, second) + (IF LastId(c) > LastId(second) THEN 1 ELSE 0)

\* One sequence number of the walk from ledger l: the child to go on to.
Onward(sup, l, largest) ==
    LET kids == Known(sup, l)
        open == Uncommitted(sup, Len(l) + 1, largest)
    IN  {c \in kids : /\ \A o \in kids \ {c} : Beats(sup, c, o)
                      /\ Margin(sup, c, kids \ {c}) > open \/ open = 0}

\* One step of the walk, and where it stands after n sequence numbers.
Step(sup, l, largest) ==
    LET next == Onward(sup, l, largest)
    IN  IF next = {} THEN l ELSE CHOOSE c \in next : TRUE
Walk(sup, largest) ==
    LET at[n \in 0 .. MaxSeq] == IF n = 0 THEN <<>> ELSE Step(sup, at[n - 1], largest)
    IN  at
Preferred(sup, largest) == Walk(sup, largest)[MaxSeq]

SupportInit == support = [l \in Ledgers |-> 0]
Gain(l, n) == support' = [support EXCEPT ![l] = @ + n]
Lose(l, n) ==
    /\ support[l] > 0
    /\ support' = [support EXCEPT ![l] = IF n > @ THEN 0 ELSE @ - n]
SupportNext ==
    /\ support' # support
    /\ \E l \in Ledgers, n \in 1 .. MaxTotal : Gain(l, n) \/ Lose(l, n)
SupportSpec == SupportInit /\ [][SupportNext]_support
=============================================================================
