----------------------------- MODULE LedgerTrie -----------------------------
(***************************************************************************)
(* The compressed trie of LedgerTrie.h.  A node is known by the tip of its *)
(* span: the span is the ancestry of the tip from `start' to the tip, so   *)
(* the node's C++ span is [start, Len(tip) + 1).  Children are kept as the *)
(* set of their tips; the vector's order is never observed, because        *)
(* getPreferred orders by support and start identifier.                    *)
(***************************************************************************)
EXTENDS Integers, Sequences, FiniteSets, FiniteSetsExt, TLC

CONSTANTS
    Ids, MaxSeq, MaxTotal,   \* as in LedgerSupport
    Counts                   \* the counts that support is inserted or removed with

VARIABLES
    nodes,        \* the trie: a function from tips to nodes
    seqSupport    \* tip support of each sequence number, never zero

vars == <<nodes, seqSupport>>

TipSupport(l) == IF l \in DOMAIN nodes THEN nodes[l].tip ELSE 0

\* The plain count of support that the trie stands for.
Tips == [l \in UNION {[1 .. n -> Ids] : n \in 0 .. MaxSeq} |-> TipSupport(l)]
INSTANCE LedgerSupport WITH support <- Tips

Root(ns) == CHOOSE t \in DOMAIN ns : ns[t].start = 0
Parent(ns, t) == CHOOSE p \in DOMAIN ns : t \in ns[p].kids
End(t) == Len(t) + 1
Start(ns, t) == ns[t].start
StartID(ns, t) == Ancestor(t, Start(ns, t))

TypeOK ==
    /\ DOMAIN nodes \subseteq Ledgers
    /\ \A t \in DOMAIN nodes :
          nodes[t] \in [start : 0 .. MaxSeq, tip : Nat, branch : Nat, kids : SUBSET DOMAIN nodes]
    /\ DOMAIN seqSupport \subseteq 0 .. MaxSeq
    /\ \A s \in DOMAIN seqSupport : seqSupport[s] \in Nat \ {0}

TrieInit ==
    /\ nodes = (<<>> :> [start |-> 0, tip |-> 0, branch |-> 0, kids |-> {}])
    /\ seqSupport = <<>>

\* The first sequence number at which the span of t and ledger l may differ.
Agree(a, b) == Max({s \in 0 .. MaxSeq : s <= Len(a) /\ s <= Len(b) /\ Ancestor(a, s) = Ancestor(b, s)}) + 1
Clamp(lo, hi, v) == IF v < lo THEN lo ELSE IF v > hi THEN hi ELSE v
Diff(ns, t, l) == Clamp(Start(ns, t), End(t), Agree(t, l))

RECURSIVE FindFrom(_, _, _, _)
FindFrom(ns, t, pos, l) ==
    LET better == {c \in ns[t].kids : Diff(ns, c, l) > pos}
    IN  IF pos # End(t) \/ better = {} THEN <<t, pos>>
        ELSE LET c == CHOOSE c \in better : TRUE IN FindFrom(ns, c, Diff(ns, c, l), l)
Find(ns, l) == FindFrom(ns, Root(ns), Diff(ns, Root(ns), l), l)

RECURSIVE AddBranch(_, _, _)
AddBranch(ns, t, n) ==
    LET up == [ns EXCEPT ![t].branch = @ + n]
    IN  IF t = Root(ns) THEN up ELSE AddBranch(up, Parent(ns, t), n)
Renamed(ns, from, to) ==
    [t \in DOMAIN ns |-> [ns[t] EXCEPT !.kids =
        {IF k = from THEN to ELSE k : k \in @}]]

\* Mutant of Split: both parts have the tip support.
SplitKeepingTip(ns, t, pos) ==
    LET head == Ancestor(t, pos - 1)
        up   == Renamed(ns, t, head)
    IN  (t :> [ns[t] EXCEPT !.start = pos])
        @@ (head :> [start |-> ns[t].start, tip |-> ns[t].tip, branch |-> ns[t].branch, kids |-> {t}])
        @@ up

\* The node's span is cut at pos: what it held moves to a new child.
Split(ns, t, pos) ==
    LET head == Ancestor(t, pos - 1)
        up   == Renamed(ns, t, head)
    IN  (t :> [ns[t] EXCEPT !.start = pos])
        @@ (head :> [start |-> ns[t].start, tip |-> 0, branch |-> ns[t].branch, kids |-> {t}])
        @@ up
Grown(ns, t, l, pos) ==
    (l :> [start |-> pos, tip |-> 0, branch |-> 0, kids |-> {}]) @@ [ns EXCEPT ![t].kids = @ \cup {l}]

InsertedIn(ns, l, n) ==
    LET loc  == Find(ns, l)
        pos  == loc[2]
        cut  == IF pos < End(loc[1]) THEN Split(ns, loc[1], pos) ELSE ns
        head == Ancestor(loc[1], pos - 1)
        full == IF pos < End(l) THEN Grown(cut, head, l, pos) ELSE cut
    IN  AddBranch([full EXCEPT ![l].tip = @ + n], l, n)

Insert(l, n) ==
    /\ nodes[Root(nodes)].branch + n <= MaxTotal
    /\ nodes' = InsertedIn(nodes, l, n)
    /\ seqSupport' = (Len(l) :> n + (IF Len(l) \in DOMAIN seqSupport THEN seqSupport[Len(l)] ELSE 0))
                     @@ seqSupport

Dropped(ns, t) == [k \in DOMAIN ns \ {t} |-> [ns[k] EXCEPT !.kids = @ \ {t}]]
\* A node without tip support goes when it has no child, and merges with an
\* only child; the parent is then looked at in turn.
RECURSIVE CompressChildless(_, _)
CompressChildless(ns, t) ==
    IF ns[t].tip > 0 \/ t = Root(ns) \/ ns[t].kids # {} THEN ns
    ELSE CompressChildless(Dropped(ns, t), Parent(ns, t))
RECURSIVE Compress(_, _)
Compress(ns, t) ==
    IF ns[t].tip > 0 \/ t = Root(ns) \/ Cardinality(ns[t].kids) > 1 THEN ns
    ELSE LET p == Parent(ns, t)
         IN  IF ns[t].kids = {} THEN Compress(Dropped(ns, t), p)
             ELSE LET c == CHOOSE c \in ns[t].kids : TRUE
                      merged == [Dropped(ns, t) EXCEPT ![c].start = ns[t].start, ![p].kids = @ \cup {c}]
                  IN  Compress(merged, p)

\* Mutant of Remove: what stands on descendants goes with it.
RemovePruning(l, n) ==
    /\ l \in DOMAIN nodes \ {Root(nodes)} /\ nodes[l].tip > 0
    /\ LET less == AddBranch(nodes, l, -nodes[l].branch)
           kept == [t \in {t \in DOMAIN nodes : ~IsAncestor(l, t)} |-> [less[t] EXCEPT !.kids = @ \ {l}]]
       IN  /\ nodes' = Compress(kept, Parent(nodes, l))
           /\ seqSupport' = [s \in {Len(t) : t \in {t \in DOMAIN kept : kept[t].tip > 0}} |->
                                FoldSet(LAMBDA t, m : m + kept[t].tip, 0, {t \in DOMAIN kept : Len(t) = s})]
Remove(l, n) ==
    /\ l \in DOMAIN nodes /\ nodes[l].tip > 0
    /\ LET c == IF n > nodes[l].tip THEN nodes[l].tip ELSE n
           less == [nodes EXCEPT ![l].tip = @ - c]
           left == seqSupport[Len(l)] - c
       IN  /\ nodes' = Compress(AddBranch(less, l, -c), l)
           /\ seqSupport' = IF left = 0 THEN [s \in DOMAIN seqSupport \ {Len(l)} |-> seqSupport[s]]
                            ELSE [seqSupport EXCEPT ![Len(l)] = left]

TrieNext == \E l \in Ledgers, n \in Counts : Insert(l, n) \/ Remove(l, n)
TrieSpec == TrieInit /\ [][TrieNext]_vars

BranchSupport(l) ==
    LET loc == Find(nodes, l)
    IN  IF l \in DOMAIN nodes THEN nodes[l].branch
        ELSE IF loc[2] > Len(l) /\ Len(l) < End(loc[1]) THEN nodes[loc[1]].branch ELSE 0

\* Support of the sequence numbers below s, as seqSupport's iterator adds it.
Passed(s) == FoldSet(LAMBDA q, n : n + seqSupport[q], 0, {q \in DOMAIN seqSupport : q < s})
Later(s) == {q \in DOMAIN seqSupport : q >= s}

\* Within the span of t the walk jumps from one change of support to the next.
RECURSIVE Along(_, _, _)
Along(t, next, consumed) ==
    IF next >= End(t) \/ nodes[t].branch <= Passed(consumed) THEN <<next, consumed>>
    ELSE LET ahead == {q \in Later(consumed) : q < End(t)}
         IN  IF ahead = {} THEN Along(t, End(t), consumed)
             ELSE Along(t, Min(ahead) + 1, Min(ahead) + 1)

ChildBeats(a, b) ==
    \/ nodes[a].branch > nodes[b].branch
    \/ nodes[a].branch = nodes[b].branch /\ LastId(StartID(nodes, a)) > LastId(StartID(nodes, b))
ChildMargin(best, rest) ==
    IF rest = {} THEN nodes[best].branch
    ELSE LET second == CHOOSE b \in rest : \A o \in rest \ {b} : ChildBeats(b, o)
         IN  nodes[best].branch - nodes[second].branch
             + (IF LastId(StartID(nodes, best)) > LastId(StartID(nodes, second)) THEN 1 ELSE 0)

RECURSIVE GetPreferredFrom(_, _, _)
GetPreferredFrom(t, consumed, largest) ==
    LET first == Start(nodes, t) + 1
        used  == Max({consumed, first, largest})
        walk  == Along(t, first, used)
        kids  == nodes[t].kids
        open  == Passed(walk[2])
    IN  IF walk[1] < End(t) THEN Ancestor(t, walk[1] - 1)
        ELSE LET onward == {c \in kids : /\ \A o \in kids \ {c} : ChildBeats(c, o)
                                         /\ ChildMargin(c, kids \ {c}) > open \/ open = 0}
             IN  IF onward = {} THEN t
                 ELSE GetPreferredFrom(CHOOSE c \in onward : TRUE, walk[2], largest)
GetPreferred(largest) == GetPreferredFrom(Root(nodes), 0, largest)
Empty == nodes[Root(nodes)].branch = 0
-----------------------------------------------------------------------------
\* What LedgerTrie::checkInvariants checks: a node without tip support, other
\* than the root, has several children; branch support adds up along the
\* tree; seqSupport counts the tips of each sequence number.
CheckInvariants ==
    /\ \A t \in DOMAIN nodes \ {Root(nodes)} :
          nodes[t].tip = 0 => Cardinality(nodes[t].kids) > 1
    /\ \A t \in DOMAIN nodes :
          nodes[t].branch = nodes[t].tip
              + FoldSet(LAMBDA k, n : n + nodes[k].branch, 0, nodes[t].kids)
    /\ \A s \in 0 .. MaxSeq :
          (IF s \in DOMAIN seqSupport THEN seqSupport[s] ELSE 0)
             = FoldSet(LAMBDA t, n : n + nodes[t].tip, 0, {t \in DOMAIN nodes : Len(t) = s})

\* However spans were split and merged on the way, branchSupport of every
\* ledger, in the trie or inside a span or neither, is the number of validators
\* on it and on its descendants.
BranchIsCounted ==
    \A l \in Ledgers : BranchSupport(l) = Branch(Tips, l)

\* getPreferred, which jumps over compressed spans and over runs of sequence
\* numbers without support, finds the ledger that the walk one sequence number
\* at a time finds, for every sequence number the node may have issued.
PreferredIsWalk ==
    \A largest \in 0 .. MaxSeq + 1 :
        ~Empty => GetPreferred(largest) = Preferred(Tips, largest)

\* A fork is decided only when it can no longer turn: a validator that moves
\* on along its own chain, to any descendant of the ledger it stands on, never
\* makes a node whose largest issued sequence number is no higher change from
\* one branch to another; the preferred ledger only moves along one chain.
ForkStaysDecided ==
    \A a \in {l \in Ledgers : Tips[l] > 0}, largest \in 0 .. MaxSeq :
        \A b \in {l \in Ledgers : IsAncestor(a, l)} :
            LET before == GetPreferred(largest)
                after  == Preferred([[Tips EXCEPT ![a] = @ - 1] EXCEPT ![b] = @ + 1], largest)
            IN  IsAncestor(before, after) \/ IsAncestor(after, before)

\* The trie implements the plain count: every insertion and removal, with its
\* splits and merges, changes the tip support of that one ledger by exactly the
\* count, or by what is left of it.
ImplementsSupport == SupportSpec
=============================================================================
