----------------------------- MODULE Directory ------------------------------
(***************************************************************************)
(* A ledger directory (ApplyView.cpp): pages of keys in a ring through the *)
(* root page 0, whose previous page is the last one.  Whoever inserts a    *)
(* key keeps the number of its page (sfOwnerNode and its like) and removes *)
(* it by that number.  cleanupOnAccountDelete (View.cpp) walks a directory *)
(* with dirFirst and dirNext while its callback deletes the entries.       *)
(***************************************************************************)
EXTENDS Integers, FiniteSets, Sequences, SequencesExt, Functions, TLC

CONSTANTS
    Key,             \* keys of ledger entries, an ordered set of numbers
    MaxEntries,      \* dirNodeMaxEntries
    MaxPage,         \* the last page number: beyond it the directory is full
    Kept,            \* entries the deleter passes over (SkipEntry::Yes)
    Limits           \* values of maxNodesToDelete; -1 for none

VARIABLES
    pages,   \* page number -> [keys, next, prev]
    hint,    \* the page number each inserted key was given
    iter,    \* state of cleanupOnAccountDelete, or Idle
    broken   \* a "Directory chain" exception or assertion was met

vars == <<pages, hint, iter, broken>>

Root == 0
Exists(P, n) == n \in DOMAIN P
Page(ks, n, p) == [keys |-> ks, next |-> n, prev |-> p]
Without(P, n) == [m \in DOMAIN P \ {n} |-> P[m]]
Idle == [on |-> FALSE]

(***************************************************************************)
(* dirAdd                                                                  *)
(***************************************************************************)
CreateRoot(k) == (Root :> Page(<<k>>, Root, Root))
Sorted(ks, k) == SortSeq(Append(ks, k), <)
InsertKey(P, n, k, preserveOrder) ==
    [P EXCEPT ![n].keys = IF preserveOrder THEN Append(@, k) ELSE Sorted(@, k)]
\* Page numbers are unsigned: one past the last is the root's.
Wrap(n) == n % (MaxPage + 1)

\* Mutant of InsertPage: the root does not lead back to the new last page.
InsertPageUnlinked(P, n, k) ==
    [P EXCEPT ![n].next = n + 1] @@ ((n + 1) :> Page(<<k>>, Root, n))

InsertPage(P, n, k) ==
    (Wrap(n + 1) :> Page(<<k>>, Root, n))
        @@ [([P EXCEPT ![n].next = Wrap(n + 1)]) EXCEPT ![Root].prev = Wrap(n + 1)]

LastPage == pages[Root].prev
NoRoom(n) == n = MaxPage
NewPageNumber(n) == Wrap(n + 1)
\* [pages, page] after an insertion; page is -1 when there is no room.
Added(k, preserveOrder) ==
    IF ~Exists(pages, Root) THEN [pages |-> CreateRoot(k), page |-> Root]
    ELSE IF Len(pages[LastPage].keys) < MaxEntries
    THEN [pages |-> InsertKey(pages, LastPage, k, preserveOrder), page |-> LastPage]
    ELSE IF NoRoom(LastPage) THEN [pages |-> pages, page |-> -1]
    ELSE [pages |-> InsertPage(pages, LastPage, k), page |-> NewPageNumber(LastPage)]

DirAdd(k, preserveOrder) ==
    /\ ~iter.on
    /\ k \notin DOMAIN hint
    /\ \E r \in {Added(k, preserveOrder)} :
          /\ pages' = r.pages
          /\ hint' = IF r.page >= 0 THEN (k :> r.page) @@ hint ELSE hint
    /\ UNCHANGED <<iter, broken>>

(***************************************************************************)
(* dirRemove.                                                              *)
(***************************************************************************)
\* The root page is empty: a last page that is empty too goes with it.
EmptyRoot(P, keepRoot) ==
    IF (P[Root].next # Root /\ P[Root].prev # Root) \/ keepRoot THEN P ELSE Without(P, Root)
Unlink(P, n) ==
    Without([([P EXCEPT ![P[n].prev].next = P[n].next]) EXCEPT ![P[n].next].prev = P[n].prev], n)
\* Another page is empty: it is unlinked, and an empty root left alone goes.
AfterUnlink(P, n, keepRoot) ==
    IF ~keepRoot /\ DOMAIN P = {Root} /\ P[Root].keys = <<>> THEN Without(P, Root) ELSE P
DirRemoved(P, n, k, keepRoot) ==
    LET Q == [P EXCEPT ![n].keys = SelectSeq(@, LAMBDA x : x # k)]
    IN  IF Q[n].keys # <<>> THEN Q
        ELSE IF n = Root THEN EmptyRoot(Q, keepRoot)
        ELSE AfterUnlink(Unlink(Q, n), n, keepRoot)
\* What dirRemove checks, and throws for, on its way.
Consistent(P, n) ==
    /\ n # Root => P[n].next # n /\ P[n].prev # n /\ Exists(P, P[n].prev) /\ Exists(P, P[n].next)
    /\ n = Root => (P[Root].next = Root) = (P[Root].prev = Root)

DirRemove(k, keepRoot) ==
    /\ ~iter.on
    /\ k \in DOMAIN hint
    /\ broken' = ~Consistent(pages, hint[k])
    /\ pages' = IF broken' THEN pages ELSE DirRemoved(pages, hint[k], k, keepRoot)
    /\ hint' = Without(hint, k)
    /\ UNCHANGED iter

EmptyDirDelete ==
    /\ ~iter.on
    /\ Exists(pages, Root) /\ pages[Root].keys = <<>>
    /\ pages[Root].next = Root /\ pages[Root].prev = Root
    /\ pages' = Without(pages, Root)
    /\ UNCHANGED <<hint, iter, broken>>

\* dirDelete follows the chain and erases every page.
DirDelete ==
    /\ ~iter.on
    /\ Exists(pages, Root)
    /\ pages' = [n \in {} |-> Page(<<>>, Root, Root)]
    /\ hint' = [k \in {} |-> Root]
    /\ UNCHANGED <<iter, broken>>

(***************************************************************************)
(* cleanupOnAccountDelete.  The iterator is a page held by pointer, so it  *)
(* sees what dirRemove does to that page, also after it was erased, and    *)
(* an index into it.  One step per entry.                                  *)
(***************************************************************************)
Held(P, it) == IF Exists(P, it.page) THEN P[it.page] ELSE it.was
\* internalDirNext: [page, was, index, entry]; entry 0 at the end.
RECURSIVE DirNext(_, _)
DirNext(P, it) ==
    LET h == Held(P, it)
    IN  IF it.index < Len(h.keys)
        THEN [it EXCEPT !.was = h, !.entry = h.keys[it.index + 1], !.index = @ + 1]
        ELSE IF h.next = Root THEN [it EXCEPT !.entry = 0]
        ELSE IF ~Exists(P, h.next) THEN [it EXCEPT !.entry = 0, !.lost = TRUE]
        ELSE DirNext(P, [it EXCEPT !.page = h.next, !.was = P[h.next], !.index = 0])
DirFirst(P, limit) ==
    DirNext(P, [on |-> TRUE, page |-> Root, was |-> P[Root], index |-> 0, entry |-> 0,
                lost |-> FALSE, left |-> limit, todo |-> DOMAIN hint])

CleanupStart ==
    /\ ~iter.on
    /\ Exists(pages, Root)
    /\ \E limit \in Limits : iter' = DirFirst(pages, limit)
    /\ UNCHANGED <<pages, hint, broken>>

\* The page as the iterator's pointer sees it once the entry is removed.
Emptied(it, k) == [it EXCEPT !.was.keys = SelectSeq(@, LAMBDA x : x # k)]
Revalidate(it) == [it EXCEPT !.index = @ - 1]

\* Mutant of Skip: the iterator is set back by one entry.
SkipBack(it) == [it EXCEPT !.index = @ - 1]

Skip(it) == it
Counted(it) == [it EXCEPT !.left = IF @ < 0 THEN @ ELSE @ - 1]
CleanupStep(keepRoot) ==
    /\ iter.on /\ iter.entry # 0 /\ iter.left # 0
    /\ \E k \in {iter.entry} :
          IF k \in Kept
          THEN /\ iter' = DirNext(pages, Skip(Counted(iter)))
               /\ UNCHANGED <<pages, hint, broken>>
          ELSE /\ broken' = ~Consistent(pages, hint[k])
               /\ pages' = DirRemoved(pages, hint[k], k, keepRoot)
               /\ hint' = Without(hint, k)
               /\ iter' = DirNext(pages', Counted(Revalidate(Emptied(iter, k))))

CleanupEnd ==
    /\ iter.on
    /\ iter.entry = 0 \/ iter.left = 0
    /\ iter' = Idle
    /\ broken' = iter.lost
    /\ UNCHANGED <<pages, hint>>

Init ==
    /\ pages = [n \in {} |-> Page(<<>>, Root, Root)]
    /\ hint = [k \in {} |-> Root]
    /\ iter = Idle
    /\ broken = FALSE

Next ==
    \/ \E k \in Key, preserveOrder \in BOOLEAN : DirAdd(k, preserveOrder)
    \/ \E k \in Key, keepRoot \in BOOLEAN : DirRemove(k, keepRoot)
    \/ EmptyDirDelete \/ DirDelete
    \/ CleanupStart \/ CleanupEnd
    \/ \E keepRoot \in BOOLEAN : CleanupStep(keepRoot)

Spec == Init /\ [][Next]_vars /\ WF_vars((\E keepRoot \in BOOLEAN : CleanupStep(keepRoot)) \/ CleanupEnd)

-----------------------------------------------------------------------------
(* What is checked *)

Entries(P) == UNION {Range(P[n].keys) : n \in DOMAIN P}

\* The pages form one ring through the root: next and previous agree, no
\* page but the root is empty, and no page is lost.  These are the chains
\* whose breaks dirRemove and emptyDirDelete throw for.
RingIntact ==
    /\ ~broken
    /\ \A n \in DOMAIN pages :
          /\ pages[n].next \in DOMAIN pages /\ pages[pages[n].next].prev = n
          /\ pages[n].prev \in DOMAIN pages /\ pages[pages[n].prev].next = n
          /\ pages[n].keys = <<>> => n = Root
          /\ pages[n].next # Root => pages[n].next > n
          /\ Len(pages[n].keys) <= MaxEntries
    /\ DOMAIN pages # {} => Root \in DOMAIN pages

\* The page number given out at insertion leads to the key for as long as
\* the key is there: entries never move, whatever happens to other pages.
HintsLead ==
    \A k \in Key : \A n \in DOMAIN pages :
        k \in Range(pages[n].keys) <=> k \in DOMAIN hint /\ hint[k] = n

\* A clean-up that was not cut short by its limit has met every entry: what
\* is left is what the deleter passed over.
CleanedUp ==
    iter.on /\ iter.entry = 0 => Entries(pages) = iter.todo \intersect Kept

\* The walk ends: the iterator does not go round among deleted entries.
CleanupEnds == iter.on ~> ~iter.on

=============================================================================
