---------------------------- MODULE NFTokenPages ----------------------------
(***************************************************************************)
(* The page directory that holds the NFTokens of one account               *)
(* (NFTokenUtils.cpp).  Page k holds tokens whose low bits (pageMask) are  *)
(* below k; the last page has the key of all ones.  A token is a number    *)
(* whose quotient by Ties is its low bits, so that the order of tokens is  *)
(* compareTokens, and a page is a set of tokens.  The operators map a      *)
(* directory to the directory and the change of the owner count; a thrown  *)
(* exception or an error leaves the ledger as it was.                      *)
(***************************************************************************)
EXTENDS Integers, FiniteSets, FiniteSetsExt, Functions, TLC

CONSTANTS
    PageSize,       \* dirMaxTokensPerPage: 32, an even number
    Ties            \* how many tokens share their low bits
CONSTANT LastPage   \* the key of nftpage_max

None == -1
Low(t) == t \div Ties
EmptyDir == <<>>
Failed == [ok |-> FALSE, dir |-> EmptyDir, count |-> 0]
Done(dir, count) == [ok |-> TRUE, dir |-> dir, count |-> count]

Smallest(n, S) == CHOOSE T \in SUBSET S : Cardinality(T) = n /\ \A x \in T, y \in S \ T : x < y

\* view.succ: the first page whose key is above the low bits of the token.
LocatePage(dir, t) ==
    LET above == {k \in DOMAIN dir : k > Low(t)}
    IN  IF above = {} THEN (IF LastPage \in DOMAIN dir THEN LastPage ELSE None) ELSE Min(above)
FindToken(dir, t) == LocatePage(dir, t) # None /\ t \in dir[LocatePage(dir, t)].tokens

\* Mutant of Split: a page is split between equivalent tokens.
SplitAnywhere(tokens, t) == [ok |-> TRUE, moved |-> Smallest(PageSize \div 2, tokens)]

\* The tokens that move to the new page when the full page `tokens' is split:
\* half of them, but never a part of those with equal low bits.
Split(tokens, t) ==
    LET half == Smallest(PageSize \div 2, tokens)
        cmp == Low(Max(half))
        same == {x \in tokens : Low(x) = cmp}
        below == {x \in tokens : Low(x) < cmp}
    IN  IF \E x \in tokens \ half : Low(x) # cmp
        THEN [ok |-> TRUE, moved |-> below \cup same]
        ELSE IF below # {} THEN [ok |-> TRUE, moved |-> below]
        ELSE [ok |-> Low(t) # cmp, moved |-> IF Low(t) > cmp THEN tokens ELSE {}]

SetLink(dir, k, field, value) ==
    IF k \notin DOMAIN dir THEN dir
    ELSE [dir EXCEPT ![k] = IF field = "prev" THEN [@ EXCEPT !.prev = value] ELSE [@ EXCEPT !.next = value]]

\* The full page cp split in two: the tokens in narr move to a new page before
\* it, and t goes to the one it belongs on.
SplitPage(dir, cp, narr, carr, npKey, t) ==
    LET ppm == dir[cp].prev
        linked == SetLink([dir EXCEPT ![cp] = [@ EXCEPT !.tokens = carr, !.prev = npKey]], ppm, "next", npKey)
    IN  [ok |-> TRUE, page |-> IF Low(t) < npKey THEN npKey ELSE cp, count |-> 1,
         dir |-> linked @@ (npKey :> [tokens |-> narr, prev |-> ppm, next |-> cp])]
NewPageKey(narr, carr) == IF carr = {} THEN Low(Max(narr)) + 1 ELSE Low(Min(carr))
WhenSplit(dir, cp, split, t) ==
    IF ~split.ok THEN [ok |-> FALSE, page |-> None, count |-> 0, dir |-> dir]
    ELSE SplitPage(dir, cp, split.moved, dir[cp].tokens \ split.moved,
                   NewPageKey(split.moved, dir[cp].tokens \ split.moved), t)

\* The directory with a page that takes the token, and that page.
PageForToken(dir, t, cp) ==
    IF cp = None
    THEN [ok |-> TRUE, page |-> LastPage, count |-> 1,
          dir |-> dir @@ (LastPage :> [tokens |-> {}, prev |-> None, next |-> None])]
    ELSE IF Cardinality(dir[cp].tokens) # PageSize
    THEN [ok |-> TRUE, page |-> cp, count |-> 0, dir |-> dir]
    ELSE WhenSplit(dir, cp, Split(dir[cp].tokens, t), t)
GetPageForToken(dir, t) == PageForToken(dir, t, LocatePage(dir, t))

Placed(place, t) ==
    IF ~place.ok THEN Failed
    ELSE Done([place.dir EXCEPT ![place.page].tokens = @ \cup {t}], place.count)
InsertToken(dir, t) == Placed(GetPageForToken(dir, t), t)

Erase(dir, k) == Restrict(dir, DOMAIN dir \ {k})

\* mergePages throws when the two pages do not point at each other.
LinksBroken(dir, p1, p2) == p1 >= p2 \/ dir[p1].next # p2 \/ dir[p2].prev # p1
Fits(dir, p1, p2) == Cardinality(dir[p1].tokens) + Cardinality(dir[p2].tokens) <= PageSize
Merge(dir, p1, p2) ==
    SetLink(Erase([dir EXCEPT ![p2] = [@ EXCEPT !.tokens = @ \cup dir[p1].tokens, !.prev = dir[p1].prev]], p1),
            dir[p1].prev, "next", p2)

\* A link to a page that is not there makes loadPage throw.
Dangling(dir, k) ==
    \/ dir[k].prev # None /\ dir[k].prev \notin DOMAIN dir
    \/ dir[k].next # None /\ dir[k].next \notin DOMAIN dir

\* Merge when both pages fit into one; throws on broken links.
TryMerge(r, p1, p2) ==
    IF ~r.ok \/ p1 = None \/ p2 = None THEN r
    ELSE IF LinksBroken(r.dir, p1, p2) THEN Failed
    ELSE IF Fits(r.dir, p1, p2) THEN Done(Merge(r.dir, p1, p2), r.count - 1) ELSE r

\* With fixNFTokenPageLinks an emptied last page takes the tokens of the page
\* before it; without, it is erased like any other.
TakeOverPrevious(dir, curr) ==
    LET prev == dir[curr].prev
        moved == [dir EXCEPT ![curr] = [@ EXCEPT !.tokens = dir[prev].tokens, !.prev = dir[prev].prev]]
    IN  Done(Erase(SetLink(moved, dir[prev].prev, "next", curr), prev), -1)
EraseEmpty(dir, curr) ==
    LET prev == dir[curr].prev
        next == dir[curr].next
        bridged == SetLink(SetLink(dir, prev, "next", next), next, "prev", prev)
    IN  TryMerge(Done(Erase(bridged, curr), -1), prev, next)

RemoveToken(dir, t, fixed) ==
    LET curr == LocatePage(dir, t)
        left == [dir EXCEPT ![curr].tokens = @ \ {t}]
    IN  IF ~FindToken(dir, t) \/ Dangling(dir, curr) THEN Failed
        ELSE IF left[curr].tokens # {}
        THEN TryMerge(TryMerge(Done(left, 0), dir[curr].prev, curr), curr, dir[curr].next)
        ELSE IF dir[curr].prev # None /\ fixed /\ curr = LastPage
        THEN TakeOverPrevious(left, curr)
        ELSE EraseEmpty(left, curr)

\* repairNFTokenDirectoryLinks walks the pages in key order, links neighbours
\* and, when the last page is missing, moves the final page there.
Neighbour(keys, k, above) ==
    LET S == {x \in keys : IF above THEN x > k ELSE x < k}
    IN  IF S = {} THEN None ELSE IF above THEN Min(S) ELSE Max(S)
Relinked(dir) ==
    [k \in DOMAIN dir |-> [dir[k] EXCEPT !.prev = Neighbour(DOMAIN dir, k, FALSE),
                                         !.next = Neighbour(DOMAIN dir, k, TRUE)]]
Repair(dir) ==
    IF dir = EmptyDir THEN dir
    ELSE IF LastPage \in DOMAIN dir THEN Relinked(dir)
    ELSE LET final == Max(DOMAIN dir)
         IN  Relinked(Erase(dir, final) @@ (LastPage :> dir[final]))
-----------------------------------------------------------------------------
(***************************************************************************)
(* One account's directory: tokens come and go under the old rule, then    *)
(* under the amended one, and LedgerStateFix repairs what the old rule     *)
(* left.                                                                   *)
(***************************************************************************)
CONSTANTS Tokens, MayStartOld

VARIABLES dir, owners, owned, fixed, healthy
vars == <<dir, owners, owned, fixed, healthy>>

Init ==
    /\ dir = EmptyDir /\ owners = 0 /\ owned = {}
    /\ fixed \in {TRUE, ~MayStartOld} /\ healthy = fixed

Insert(t) ==
    LET r == InsertToken(dir, t)
    IN  /\ t \notin owned /\ r.ok
        /\ dir' = r.dir /\ owners' = owners + r.count /\ owned' = owned \cup {t}
        /\ UNCHANGED <<fixed, healthy>>
Remove(t) ==
    LET r == RemoveToken(dir, t, fixed)
    IN  /\ r.ok
        /\ dir' = r.dir /\ owners' = owners + r.count /\ owned' = owned \ {t}
        /\ UNCHANGED <<fixed, healthy>>
EnableFix ==
    /\ ~fixed /\ fixed' = TRUE
    /\ UNCHANGED <<dir, owners, owned, healthy>>
\* LedgerStateFix answers tecFAILED_PROCESSING when there was nothing to repair.
LedgerStateFix ==
    /\ fixed
    /\ dir' = Repair(dir) /\ healthy' = TRUE
    /\ UNCHANGED <<owners, owned, fixed>>

Next == EnableFix \/ LedgerStateFix \/ \E t \in Tokens : Insert(t) \/ Remove(t)
Spec == Init /\ [][Next]_vars
-----------------------------------------------------------------------------
TypeOK ==
    /\ DOMAIN dir \subseteq 1 .. LastPage
    /\ \A k \in DOMAIN dir : Cardinality(dir[k].tokens) \in 1 .. PageSize
    /\ owners \in Nat

\* No split, merge or repair, on sound links or broken ones, loses a token or
\* holds it twice, and each token is where findToken looks for it.
TokensKept ==
    /\ UNION {dir[k].tokens : k \in DOMAIN dir} = owned
    /\ \A t \in owned : FindToken(dir, t)
    /\ \A j, k \in DOMAIN dir : j # k => dir[j].tokens \cap dir[k].tokens = {}

\* Once repaired, or never run under the old rule, the pages are a doubly
\* linked list in key order that ends in the last page.
LinksInOrder ==
    healthy => /\ dir = Relinked(dir)
               /\ dir # EmptyDir => LastPage \in DOMAIN dir

\* The owner pays for each page, under either rule and across the repair.
PagesAccounted == owners = Cardinality(DOMAIN dir)

\* A token finds no page (tecNO_SUITABLE_NFTOKEN_PAGE) only where a whole page
\* of tokens shares its low bits.
RefusedOnlyForTies ==
    \A t \in Tokens \ owned :
        ~InsertToken(dir, t).ok => Cardinality({x \in owned : Low(x) = Low(t)}) >= PageSize

\* With sound links every token that is owned can be removed.
RemovalNeverThrows ==
    healthy => \A t \in owned : RemoveToken(dir, t, fixed).ok
=============================================================================
