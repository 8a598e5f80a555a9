--------------------------- MODULE PayChanProofs ---------------------------
(***************************************************************************)
(* Proofs about payment channels: a channel pays and ends on its terms,    *)
(* and the books balance, for any accounts, amounts, delays and numbers of *)
(* channels.  Conservation of XRP needs facts about sums over finite sets  *)
(* that the library states for no fold; they come first.                   *)
(***************************************************************************)
EXTENDS PayChan, FiniteSetTheorems, WellFoundedInduction, TLAPS

\* The sum of f over S; the element the fold takes first; and what makes g
\* the table of the sums of f over the subsets of S.
Sum(f, S) == SumFunctionOnSet(f, S)
Pick(s) == CHOOSE x \in s : TRUE
Sums(f, S, g) ==
    g = [s \in SUBSET S |-> IF s = {} THEN 0 ELSE f[Pick(s)] + g[s \ {Pick(s)}]]

\* A set of subsets of a finite set has a minimal one.
LEMMA Minimal ==
    ASSUME NEW S, IsFiniteSet(S), NEW T, T \subseteq SUBSET S, T # {}
    PROVE  \E s \in T : \A t \in T : ~(t \subseteq s /\ t # s)
<1> DEFINE R == StrictSubsetOrdering(S)
<1>1. IsWellFoundedOn(R, SUBSET S)
  <2>1. FiniteSubsetsOf(S) = SUBSET S
    BY FS_FiniteSubsetsOfFinite, Zenon
  <2>2. IsWellFoundedOn(StrictSubsetOrdering(S), FiniteSubsetsOf(S))
    BY FS_StrictSubsetOrderingWellFounded, Zenon
  <2> QED BY <2>1, <2>2, Zenon
<1>2. \A t, s \in SUBSET S : t \subseteq s /\ t # s => <<t, s>> \in R
  BY DEF StrictSubsetOrdering
<1> HIDE DEF R
<1>3. PICK s \in T : \A t \in T : ~(<<t, s>> \in R)
  BY <1>1, WFMin, Zenon
<1>4. \A t \in T : ~(t \subseteq s /\ t # s)
  BY <1>2, <1>3, Zenon
<1> QED BY <1>4, Zenon

\* The element taken is one of the set.
LEMMA PickIn == ASSUME NEW s, s # {} PROVE Pick(s) \in s
BY DEF Pick

\* The library's fold looks the sum up in the table.
LEMMA Unfold ==
    ASSUME NEW f, NEW S
    PROVE  Sum(f, S) = (CHOOSE h : Sums(f, S, h))[S]
BY DEF Sum, SumFunctionOnSet, FoldFunctionOnSet, MapThenFoldSet, Sums, Pick

\* The table gives the empty set 0.
LEMMA SumsEmpty == ASSUME NEW f, NEW S, NEW g, Sums(f, S, g) PROVE g[{}] = 0
BY DEF Sums

\* The table gives a set the element taken and the rest.
LEMMA SumsStep ==
    ASSUME NEW f, NEW S, NEW g, Sums(f, S, g), NEW s, s \subseteq S, s # {}
    PROVE  g[s] = f[Pick(s)] + g[s \ {Pick(s)}]
BY Zenon DEF Sums

\* Two tables agree where both are defined.
LEMMA SumsAgree ==
    ASSUME NEW f, NEW S, NEW T, IsFiniteSet(T), NEW g, NEW h,
           Sums(f, S, g), Sums(f, T, h), NEW r, r \subseteq T, r \subseteq S
    PROVE  g[r] = h[r]
<1> DEFINE B == {s \in SUBSET T : s \subseteq S /\ g[s] # h[s]}
<1> SUFFICES ASSUME B # {} PROVE FALSE
  OBVIOUS
<1>1. PICK s \in B : \A t \in B : ~(t \subseteq s /\ t # s)
  <2>1. B \subseteq SUBSET T
    OBVIOUS
  <2> HIDE DEF B
  <2> QED BY <2>1, Minimal
<1>2. s \subseteq S /\ s \subseteq T /\ g[s] # h[s]
  OBVIOUS
<1>3. s # {}
  BY <1>2, SumsEmpty, Zenon
<1>4. Pick(s) \in s
  BY <1>3, PickIn, Zenon
<1> DEFINE t == s \ {Pick(s)}
<1>5. t \in SUBSET T /\ t \subseteq S /\ t \subseteq s /\ t # s
  BY <1>4
<1>6. g[t] = h[t]
  BY <1>1, <1>5
<1>7. g[s] = f[Pick(s)] + g[t]
  BY <1>2, <1>3, SumsStep
<1>8. h[s] = f[Pick(s)] + h[t]
  BY <1>2, <1>3, SumsStep
<1> QED BY <1>2, <1>6, <1>7, <1>8, Zenon

\* There is a table for every finite set.
LEMMA SumsExist ==
    ASSUME NEW f, NEW S, IsFiniteSet(S)
    PROVE  \E g : Sums(f, S, g)
<1> DEFINE B == {s \in SUBSET S : \A g : ~Sums(f, s, g)}
<1> SUFFICES ASSUME B # {} PROVE FALSE
  OBVIOUS
<1>1. PICK t \in B : \A s \in B : ~(s \subseteq t /\ s # t)
  <2>1. B \subseteq SUBSET S
    OBVIOUS
  <2> HIDE DEF B
  <2> QED BY <2>1, Minimal
<1> DEFINE F(u) == CHOOSE h : Sums(f, u, h)
           g == [u \in SUBSET t |-> IF u = {} THEN 0
                                    ELSE f[Pick(u)] + F(u \ {Pick(u)})[u \ {Pick(u)}]]
<1>2. \A s \in SUBSET t : s # t => Sums(f, s, F(s))
  BY <1>1
<1>3. ASSUME NEW u \in SUBSET t, u # {}
      PROVE  g[u] = f[Pick(u)] + g[u \ {Pick(u)}]
  <2> DEFINE w == u \ {Pick(u)}
             v == w \ {Pick(w)}
  <2>1. Pick(u) \in u /\ w \in SUBSET t /\ w # t
    BY <1>3, PickIn
  <2>2. Sums(f, w, F(w))
    BY <1>2, <2>1, Zenon
  <2>3. g[u] = f[Pick(u)] + F(w)[w]
    BY <1>3
  <2>4. CASE w = {}
    BY <2>2, <2>3, <2>4, SumsEmpty, Zenon
  <2>5. CASE w # {}
    <3>1. Pick(w) \in w /\ v \in SUBSET t /\ v # t /\ v \subseteq w
      BY <2>1, <2>5, PickIn
    <3>2. Sums(f, v, F(v)) /\ IsFiniteSet(v)
      <4>1. IsFiniteSet(v)
        BY <1>1, <3>1, FS_Subset
      <4> QED BY <1>2, <3>1, <4>1, Zenon
    <3>3. F(w)[v] = F(v)[v]
      <4> HIDE DEF F, v, w
      <4>1. v \subseteq v
        OBVIOUS
      <4> QED BY <2>2, <3>1, <3>2, <4>1, SumsAgree
    <3>4. F(w)[w] = f[Pick(w)] + F(w)[v]
      <4>1. w \subseteq w
        OBVIOUS
      <4> HIDE DEF F, w
      <4> QED BY <2>2, <2>5, <4>1, SumsStep
    <3>5. g[w] = f[Pick(w)] + F(v)[v]
      BY <2>1, <2>5
    <3> QED BY <2>3, <3>3, <3>4, <3>5, Zenon
  <2> QED BY <2>4, <2>5
<1>4. Sums(f, t, g)
  <2>1. g = [u \in SUBSET t |-> g[u]]
    OBVIOUS
  <2>2. {} \in SUBSET t => g[{}] = 0
    OBVIOUS
  <2> HIDE DEF g
  <2>3. \A u \in SUBSET t : g[u] = IF u = {} THEN 0 ELSE f[Pick(u)] + g[u \ {Pick(u)}]
    BY <1>3, <2>2, Zenon
  <2>4. g = [u \in SUBSET t |-> IF u = {} THEN 0 ELSE f[Pick(u)] + g[u \ {Pick(u)}]]
    BY <2>1, <2>3, Zenon
  <2> QED BY <2>4, Zenon DEF Sums
<1> QED BY <1>1, <1>4

\* Any table of a larger set gives the sum.
LEMMA SumIs ==
    ASSUME NEW f, NEW S, IsFiniteSet(S), NEW g, Sums(f, S, g), NEW t, t \subseteq S
    PROVE  Sum(f, t) = g[t]
<1> DEFINE h == CHOOSE k : Sums(f, t, k)
<1>1. IsFiniteSet(t) /\ t \subseteq t
  BY FS_Subset
<1>2. Sums(f, t, h)
  BY <1>1, SumsExist
<1>3. Sum(f, t) = h[t]
  BY Unfold
<1> HIDE DEF h
<1>4. g[t] = h[t]
  BY <1>1, <1>2, SumsAgree
<1> QED BY <1>3, <1>4

\* A sum over nothing is 0.
LEMMA SumEmpty == ASSUME NEW f PROVE Sum(f, {}) = 0
<1>1. IsFiniteSet({})
  BY FS_EmptySet
<1>2. PICK g : Sums(f, {}, g)
  BY <1>1, SumsExist
<1>3. Sum(f, {}) = g[{}]
  BY <1>1, <1>2, SumIs
<1> QED BY <1>2, <1>3, SumsEmpty

\* A sum is the element taken and the sum of the rest.
LEMMA SumPick ==
    ASSUME NEW f, NEW S, IsFiniteSet(S), S # {}
    PROVE  Sum(f, S) = f[Pick(S)] + Sum(f, S \ {Pick(S)})
<1>1. PICK g : Sums(f, S, g)
  BY SumsExist
<1>2. g[S] = f[Pick(S)] + g[S \ {Pick(S)}]
  BY <1>1, SumsStep
<1>3. Sum(f, S) = g[S]
  BY <1>1, SumIs
<1> DEFINE t == S \ {Pick(S)}
<1>4. t \subseteq S
  OBVIOUS
<1> HIDE DEF t
<1>5. Sum(f, t) = g[t]
  BY <1>1, <1>4, SumIs
<1> QED BY <1>2, <1>3, <1>5 DEF t

\* A sum of integers is an integer.
LEMMA SumInt ==
    ASSUME NEW f, NEW S, IsFiniteSet(S), \A x \in S : f[x] \in Int
    PROVE  Sum(f, S) \in Int
<1> DEFINE B == {s \in SUBSET S : Sum(f, s) \notin Int}
<1> SUFFICES ASSUME B # {} PROVE FALSE
  OBVIOUS
<1>1. PICK s \in B : \A t \in B : ~(t \subseteq s /\ t # s)
  <2>1. B \subseteq SUBSET S
    OBVIOUS
  <2> HIDE DEF B
  <2> QED BY <2>1, Minimal
<1>2. s # {}
  BY SumEmpty
<1>3. Pick(s) \in s /\ IsFiniteSet(s)
  BY <1>2, PickIn, FS_Subset
<1>4. Sum(f, s) = f[Pick(s)] + Sum(f, s \ {Pick(s)})
  BY <1>2, <1>3, SumPick
<1>5. Sum(f, s \ {Pick(s)}) \in Int
  BY <1>1, <1>3
<1> QED BY <1>3, <1>4, <1>5

\* Any element can be taken out of a sum, not only the one taken first.
LEMMA SumRemove ==
    ASSUME NEW f, NEW S, IsFiniteSet(S), \A x \in S : f[x] \in Int, NEW e \in S
    PROVE  Sum(f, S) = f[e] + Sum(f, S \ {e})
<1> DEFINE B == {s \in SUBSET S : \E x \in s : Sum(f, s) # f[x] + Sum(f, s \ {x})}
<1> SUFFICES ASSUME B # {} PROVE FALSE
  OBVIOUS
<1>1. PICK s \in B : \A t \in B : ~(t \subseteq s /\ t # s)
  <2>1. B \subseteq SUBSET S
    OBVIOUS
  <2> HIDE DEF B
  <2> QED BY <2>1, Minimal
<1>2. PICK x \in s : Sum(f, s) # f[x] + Sum(f, s \ {x})
  BY <1>1
<1> DEFINE p == Pick(s)
<1>3. p \in s /\ IsFiniteSet(s) /\ s \subseteq S
  BY <1>2, PickIn, FS_Subset
<1>4. Sum(f, s) = f[p] + Sum(f, s \ {p})
  BY <1>2, <1>3, SumPick
<1> HIDE DEF p
<1>5. p # x
  BY <1>2, <1>4, Zenon
<1> DEFINE q == s \ {p}
           r == s \ {x}
           u == r \ {p}
<1>6. \A t \in SUBSET S : t \subseteq s /\ t # s => \A y \in t : Sum(f, t) = f[y] + Sum(f, t \ {y})
  BY <1>1, Zenon
<1>7. q \in SUBSET S /\ q \subseteq s /\ q # s /\ x \in q /\ q \ {x} = u
  BY <1>2, <1>3, <1>5
<1>8. r \in SUBSET S /\ r \subseteq s /\ r # s /\ p \in r
  BY <1>2, <1>3, <1>5
<1>9. IsFiniteSet(u) /\ (\A y \in u : f[y] \in Int) /\ f[x] \in Int /\ f[p] \in Int
  BY <1>2, <1>3, FS_Subset
<1>10. Sum(f, s) = f[p] + Sum(f, q) /\ Sum(f, s) # f[x] + Sum(f, r) /\ u = r \ {p}
  BY <1>2, <1>4
<1> HIDE DEF q, r, u
<1>11. Sum(f, q) = f[x] + Sum(f, u)
  BY <1>6, <1>7, Zenon
<1>12. Sum(f, r) = f[p] + Sum(f, u)
  BY <1>6, <1>8, <1>10, Zenon
<1>13. Sum(f, u) \in Int
  BY <1>9, SumInt
<1> QED BY <1>9, <1>10, <1>11, <1>12, <1>13

\* A sum depends on the terms summed only.
LEMMA SumSame ==
    ASSUME NEW f, NEW g, NEW S, IsFiniteSet(S), \A x \in S : f[x] = g[x]
    PROVE  Sum(f, S) = Sum(g, S)
<1> DEFINE B == {s \in SUBSET S : Sum(f, s) # Sum(g, s)}
<1> SUFFICES ASSUME B # {} PROVE FALSE
  OBVIOUS
<1>1. PICK s \in B : \A t \in B : ~(t \subseteq s /\ t # s)
  <2>1. B \subseteq SUBSET S
    OBVIOUS
  <2> HIDE DEF B
  <2> QED BY <2>1, Minimal
<1>2. s # {}
  BY SumEmpty
<1>3. Pick(s) \in s /\ IsFiniteSet(s)
  BY <1>2, PickIn, FS_Subset
<1>4. Sum(f, s) = f[Pick(s)] + Sum(f, s \ {Pick(s)})
  BY <1>2, <1>3, SumPick
<1>5. Sum(g, s) = g[Pick(s)] + Sum(g, s \ {Pick(s)})
  BY <1>2, <1>3, SumPick
<1>6. Sum(f, s \ {Pick(s)}) = Sum(g, s \ {Pick(s)})
  BY <1>1, <1>3
<1> QED BY <1>3, <1>4, <1>5, <1>6

\* A sum of equal terms is a product.
LEMMA SumConstant ==
    ASSUME NEW f, NEW n \in Nat, NEW S, IsFiniteSet(S), \A x \in S : f[x] = n
    PROVE  Sum(f, S) = n * Cardinality(S)
<1> DEFINE B == {s \in SUBSET S : Sum(f, s) # n * Cardinality(s)}
<1> SUFFICES ASSUME B # {} PROVE FALSE
  OBVIOUS
<1>1. PICK s \in B : \A t \in B : ~(t \subseteq s /\ t # s)
  <2>1. B \subseteq SUBSET S
    OBVIOUS
  <2> HIDE DEF B
  <2> QED BY <2>1, Minimal
<1>2. s # {}
  BY SumEmpty, FS_EmptySet
<1> DEFINE t == s \ {Pick(s)}
<1>3. Pick(s) \in s /\ IsFiniteSet(s) /\ IsFiniteSet(t)
  BY <1>2, PickIn, FS_Subset
<1>4. Sum(f, s) = n + Sum(f, t)
  BY <1>2, <1>3, SumPick
<1>5. Sum(f, t) = n * Cardinality(t)
  BY <1>1, <1>3
<1>6. Cardinality(t) = Cardinality(s) - 1 /\ Cardinality(t) \in Nat /\ Cardinality(s) \in Nat
  BY <1>3, FS_RemoveElement, FS_CardinalityType
<1> HIDE DEF t
<1>7. n + n * Cardinality(t) = n * (Cardinality(t) + 1)
  BY <1>6
<1> QED BY <1>1, <1>4, <1>5, <1>6, <1>7

\* Changing one term changes the sum by as much.
LEMMA SumChange ==
    ASSUME NEW f, NEW g, NEW S, IsFiniteSet(S), NEW e \in S,
           \A x \in S : f[x] \in Int /\ g[x] \in Int, \A x \in S \ {e} : g[x] = f[x]
    PROVE  Sum(g, S) = Sum(f, S) + g[e] - f[e]
<1> DEFINE t == S \ {e}
<1>1. IsFiniteSet(t) /\ t \subseteq S /\ \A x \in t : f[x] \in Int
  BY FS_Subset
<1>2. Sum(f, S) = f[e] + Sum(f, t)
  BY SumRemove
<1>3. Sum(g, S) = g[e] + Sum(g, t)
  BY SumRemove
<1>4. \A x \in t : g[x] = f[x]
  OBVIOUS
<1> HIDE DEF t
<1>5. Sum(g, t) = Sum(f, t)
  BY <1>1, <1>4, SumSame
<1>6. Sum(f, t) \in Int
  BY <1>1, SumInt
<1> QED BY <1>2, <1>3, <1>5, <1>6

\* A new term is added to the sum.
LEMMA SumInsert ==
    ASSUME NEW f, NEW g, NEW S, IsFiniteSet(S), NEW e, e \notin S,
           \A x \in S : f[x] \in Int /\ g[x] = f[x], g[e] \in Int
    PROVE  Sum(g, S \cup {e}) = Sum(f, S) + g[e]
<1> DEFINE t == S \cup {e}
<1>1. IsFiniteSet(t) /\ e \in t /\ t \ {e} = S /\ \A x \in t : g[x] \in Int
  BY FS_AddElement
<1>2. Sum(g, S) = Sum(f, S)
  BY SumSame
<1>3. Sum(f, S) \in Int
  BY SumInt
<1> HIDE DEF t
<1>4. Sum(g, t) = g[e] + Sum(g, t \ {e})
  BY <1>1, SumRemove
<1>5. Sum(g, t) = g[e] + Sum(f, S)
  BY <1>1, <1>2, <1>4, Zenon
<1>6. Sum(g, t) = Sum(f, S) + g[e]
  BY <1>3, <1>5
<1> QED BY <1>6 DEF t

\* A term that goes is taken off the sum.
LEMMA SumDelete ==
    ASSUME NEW f, NEW g, NEW S, IsFiniteSet(S), NEW e \in S,
           \A x \in S : f[x] \in Int, \A x \in S \ {e} : g[x] = f[x]
    PROVE  Sum(g, S \ {e}) = Sum(f, S) - f[e]
<1> DEFINE t == S \ {e}
<1>1. IsFiniteSet(t) /\ (\A x \in t : f[x] \in Int) /\ \A x \in t : g[x] = f[x]
  BY FS_Subset
<1>2. Sum(f, S) = f[e] + Sum(f, t)
  BY SumRemove
<1> HIDE DEF t
<1>3. Sum(g, t) = Sum(f, t)
  BY <1>1, SumSame
<1>4. Sum(f, t) \in Int
  BY <1>1, SumInt
<1>5. f[e] \in Int
  OBVIOUS
<1>6. Sum(g, t) = Sum(f, S) - f[e]
  BY <1>2, <1>3, <1>4, <1>5
<1> QED BY <1>6 DEF t
-----------------------------------------------------------------------------
\* The larger of two numbers is no smaller than either.
LEMMA MaxOfTwo ==
    ASSUME NEW a \in Nat, NEW b \in Nat
    PROVE  Max({a, b}) \in Nat /\ Max({a, b}) >= a /\ Max({a, b}) >= b
<1>1. \E x \in {a, b} : \A y \in {a, b} : x >= y
  BY a >= b \/ b >= a
<1> QED BY <1>1 DEF Max

\* A reserve is a natural number.
LEMMA ReserveNat == ASSUME NEW n \in Nat PROVE AccountReserve(n) \in Nat
BY PayChanAssumption DEF AccountReserve

\* What each channel keeps to: it has paid no more than it holds and than was
\* granted, what was signed for was granted, and its end is at least the settle
\* delay after it was set, which is not in the future.
TermsOf(c) ==
    /\ channels[c].paid <= channels[c].amount /\ channels[c].paid <= granted[c]
    /\ \A s \in signed[c] : s <= granted[c]
    /\ since[c] <= now
    /\ channels[c].expiration # 0 => channels[c].expiration >= since[c] + channels[c].delay

TermsInv == TypeOK /\ \A c \in DOMAIN channels : TermsOf(c)

\* No channel, no terms to break.
LEMMA InitTerms == Init => TermsInv
BY PayChanAssumption DEF Init, TermsInv, TypeOK

\* The types of the fields of a channel.
LEMMA ChannelParts ==
    ASSUME NEW ch \in Channel
    PROVE  /\ ch.src \in Accounts /\ ch.dst \in Accounts /\ ch.amount \in Nat /\ ch.paid \in Nat
           /\ ch.delay \in Delays /\ ch.cancel \in 0 .. MaxTime /\ ch.expiration \in Nat
BY DEF Channel

\* closeChannel takes the channel away and touches no other.
LEMMA CloseTerms ==
    ASSUME TermsInv, NEW c \in DOMAIN channels, NEW ch \in Channel, NEW bal \in [Accounts -> Nat],
           ch.paid <= ch.amount, CloseChannel(c, ch, bal), UNCHANGED <<now, made, signed, since>>,
           \A d \in DOMAIN channels \ {c} : granted'[d] = granted[d], granted' \in [1 .. made -> Nat]
    PROVE  TermsInv'
<1>1. DOMAIN channels' = DOMAIN channels \ {c}
  BY DEF Restrict, CloseChannel
<1>2. \A d \in DOMAIN channels' : d \in DOMAIN channels /\ d # c /\ channels'[d] = channels[d]
  BY DEF Restrict, CloseChannel
<1>3. /\ ch.src \in Accounts /\ ch.dst \in Accounts /\ ch.amount \in Nat /\ ch.paid \in Nat
  BY ChannelParts
<1>4. balance' \in [Accounts -> Nat]
  <2>1. bal[ch.src] + ch.amount - ch.paid \in Nat
    BY <1>3
  <2> QED BY <1>3, <2>1 DEF CloseChannel
<1>5. owners' \in [Accounts -> Nat]
  <2>1. owners \in [Accounts -> Nat]
    BY DEF TermsInv, TypeOK
  <2>2. ConfineOwnerCount(owners[ch.src], -1) \in Nat
    <3>1. owners[ch.src] \in Nat
      BY <1>3, <2>1, Zenon
    <3> QED BY <3>1 DEF ConfineOwnerCount
  <2> QED BY <1>3, <2>1, <2>2 DEF CloseChannel
<1>6. directory' \in [Accounts -> SUBSET (1 .. made)]
  <2>1. directory \in [Accounts -> SUBSET (1 .. made)]
    BY Zenon DEF TermsInv, TypeOK
  <2>2. directory' = [directory EXCEPT ![ch.src] = @ \ {c}, ![ch.dst] = @ \ {c}]
    BY Zenon DEF CloseChannel
  <2>3. ASSUME NEW f \in [Accounts -> SUBSET (1 .. made)], NEW b \in Accounts
        PROVE  [f EXCEPT ![b] = @ \ {c}] \in [Accounts -> SUBSET (1 .. made)]
    <3>1. f[b] \ {c} \in SUBSET (1 .. made)
      BY Zenon
    <3> QED BY <3>1, Zenon
  <2> QED BY <1>3, <2>1, <2>2, <2>3, Zenon
<1>7. TypeOK'
  BY <1>1, <1>2, <1>4, <1>5, <1>6, Zenon DEF TermsInv, TypeOK, Channel
<1>8. \A d \in DOMAIN channels' : TermsOf(d)'
  BY <1>2, Zenon DEF TermsOf, TermsInv
<1> QED BY <1>7, <1>8, Zenon DEF TermsInv

\* PayChanCreate makes a channel that has paid nothing and has no end.
LEMMA CreateTerms ==
    ASSUME TermsInv, NEW a \in Accounts, NEW d \in Accounts, NEW amount \in Amounts,
           NEW delay \in Delays, NEW cancel \in {0, MaxTime}, PayChanCreate(a, d, amount, delay, cancel)
    PROVE  TermsInv'
<1> DEFINE c == made + 1
           ch == [src |-> a, dst |-> d, amount |-> amount, paid |-> 0,
                  delay |-> delay, cancel |-> cancel, expiration |-> 0]
<1>1. /\ made \in Nat /\ made < MaxChannels /\ made' = c /\ MaxChannels \in Nat
      /\ DOMAIN channels \subseteq 1 .. made /\ c \notin 1 .. made /\ 1 .. c = (1 .. made) \cup {c}
  <2>1. made \in Nat /\ DOMAIN channels \subseteq 1 .. made
    <3>1. made \in 0 .. MaxChannels /\ DOMAIN channels \subseteq 1 .. made
      BY Zenon DEF TermsInv, TypeOK
    <3> QED BY <3>1
  <2>2. made < MaxChannels /\ made' = c
    BY DEF PayChanCreate
  <2> QED BY <2>1, <2>2, PayChanAssumption
<1>2. amount \in Nat /\ cancel \in 0 .. MaxTime
  BY PayChanAssumption
<1>3. ch \in Channel
  BY <1>2 DEF Channel
<1>4. /\ channels' = With(channels, c, ch) /\ signed' = With(signed, c, {})
      /\ granted' = With(granted, c, 0) /\ since' = With(since, c, 0) /\ now' = now
  BY DEF PayChanCreate
<1>5. ch.paid = 0 /\ ch.expiration = 0 /\ ch.amount = amount
  OBVIOUS
<1> HIDE DEF ch, c
<1>6. /\ DOMAIN channels' = DOMAIN channels \cup {c} /\ channels'[c] = ch
      /\ \A k \in DOMAIN channels : channels'[k] = channels[k]
  <2>1. c \notin DOMAIN channels
    BY <1>1
  <2> QED BY <1>4, <2>1 DEF With
<1>7. /\ signed'[c] = {} /\ granted'[c] = 0 /\ since'[c] = 0
      /\ \A k \in 1 .. made : signed'[k] = signed[k] /\ granted'[k] = granted[k] /\ since'[k] = since[k]
  <2>1. DOMAIN signed = 1 .. made /\ DOMAIN granted = 1 .. made /\ DOMAIN since = 1 .. made
    BY DEF TermsInv, TypeOK
  <2>2. signed'[c] = {} /\ \A k \in 1 .. made : signed'[k] = signed[k]
    BY <1>1, <1>4, <2>1, Zenon DEF With
  <2>3. granted'[c] = 0 /\ \A k \in 1 .. made : granted'[k] = granted[k]
    BY <1>1, <1>4, <2>1, Zenon DEF With
  <2>4. since'[c] = 0 /\ \A k \in 1 .. made : since'[k] = since[k]
    BY <1>1, <1>4, <2>1, Zenon DEF With
  <2> QED BY <2>2, <2>3, <2>4, Zenon
<1>8. /\ signed' \in [1 .. c -> SUBSET Nat]
      /\ granted' \in [1 .. c -> Nat] /\ since' \in [1 .. c -> Nat]
  <2>1. /\ signed \in [1 .. made -> SUBSET Nat]
        /\ granted \in [1 .. made -> Nat] /\ since \in [1 .. made -> Nat]
    BY Zenon DEF TermsInv, TypeOK
  <2>2. signed' \in [1 .. c -> SUBSET Nat]
    BY <1>1, <1>4, <2>1 DEF With
  <2>3. granted' \in [1 .. c -> Nat]
    BY <1>1, <1>4, <2>1 DEF With
  <2>4. since' \in [1 .. c -> Nat]
    BY <1>1, <1>4, <2>1 DEF With
  <2> QED BY <2>2, <2>3, <2>4
<1>9. balance' \in [Accounts -> Nat]
  <2>1. owners[a] + 1 \in Nat /\ balance \in [Accounts -> Nat]
    BY DEF TermsInv, TypeOK
  <2>2. AccountReserve(owners[a] + 1) \in Nat
    BY <2>1, ReserveNat
  <2>3. balance[a] - amount \in Nat
    <3>1. balance[a] >= AccountReserve(owners[a] + 1) + amount /\ balance[a] \in Nat
      BY <2>1, Zenon DEF PayChanCreate, CreatePreclaim
    <3> QED BY <1>2, <2>2, <3>1
  <2> QED BY <2>1, <2>3 DEF PayChanCreate
<1>10. owners' \in [Accounts -> Nat]
  BY DEF PayChanCreate, ConfineOwnerCount, TermsInv, TypeOK
<1>11. directory' \in [Accounts -> SUBSET (1 .. c)]
  <2>1. directory \in [Accounts -> SUBSET (1 .. made)]
    BY DEF TermsInv, TypeOK
  <2>2. directory' = [directory EXCEPT ![a] = @ \cup {c}, ![d] = @ \cup {c}]
    BY DEF PayChanCreate, c
  <2> QED BY <1>1, <2>1, <2>2
<1>12. TypeOK'
  <2>1. DOMAIN channels' \subseteq 1 .. c
    BY <1>1, <1>6, Zenon
  <2>2. \A k \in DOMAIN channels' : channels'[k] \in Channel
    BY <1>3, <1>6, Zenon DEF TermsInv, TypeOK
  <2>3. c \in 0 .. MaxChannels
    BY <1>1 DEF c
  <2>4. now' \in 0 .. MaxTime
    BY <1>4 DEF TermsInv, TypeOK
  <2> QED BY <1>1, <1>8, <1>9, <1>10, <1>11, <2>1, <2>2, <2>3, <2>4, Zenon DEF TypeOK, Channel
<1>13. ASSUME NEW k \in DOMAIN channels' PROVE TermsOf(k)'
  <2>1. CASE k = c
    BY <1>2, <1>4, <1>5, <1>6, <1>7, <2>1 DEF TermsOf, TermsInv, TypeOK
  <2>2. CASE k # c
    BY <1>1, <1>4, <1>6, <1>7, <2>2, Zenon DEF TermsOf, TermsInv
  <2> QED BY <2>1, <2>2
<1> QED BY <1>12, <1>13 DEF TermsInv

\* A channel after PayChanFund, and after a claim that leaves it open.
Funded(ch, amount, exp) == [ch EXCEPT !.amount = amount, !.expiration = exp]
Paid(ch, paid, exp) == [ch EXCEPT !.paid = paid, !.expiration = exp]

\* A channel with another amount and expiration.
LEMMA ChannelFunded ==
    ASSUME NEW ch \in Channel, NEW amount \in Nat, NEW exp \in Nat
    PROVE  /\ Funded(ch, amount, exp) \in Channel /\ Funded(ch, amount, exp).amount = amount
           /\ Funded(ch, amount, exp).expiration = exp /\ Funded(ch, amount, exp).src = ch.src
           /\ Funded(ch, amount, exp).dst = ch.dst /\ Funded(ch, amount, exp).paid = ch.paid
           /\ Funded(ch, amount, exp).delay = ch.delay
BY Zenon DEF Channel, Funded

\* A channel with another balance and expiration.
LEMMA ChannelPaid ==
    ASSUME NEW ch \in Channel, NEW paid \in Nat, NEW exp \in Nat
    PROVE  /\ Paid(ch, paid, exp) \in Channel /\ Paid(ch, paid, exp).paid = paid
           /\ Paid(ch, paid, exp).expiration = exp /\ Paid(ch, paid, exp).src = ch.src
           /\ Paid(ch, paid, exp).dst = ch.dst /\ Paid(ch, paid, exp).amount = ch.amount
           /\ Paid(ch, paid, exp).delay = ch.delay
BY Zenon DEF Channel, Paid

\* A step that changes one channel has the terms of that one to keep.
LEMMA ChangeTerms ==
    ASSUME TermsInv, NEW c \in DOMAIN channels, DOMAIN channels' = DOMAIN channels,
           \A k \in DOMAIN channels \ {c} : channels'[k] = channels[k],
           channels'[c] \in Channel, balance' \in [Accounts -> Nat],
           granted' \in [1 .. made -> Nat], since' \in [1 .. made -> Nat],
           \A k \in DOMAIN channels \ {c} : granted'[k] = granted[k] /\ since'[k] = since[k],
           TermsOf(c)', UNCHANGED <<now, made, owners, directory, signed>>
    PROVE  TermsInv'
<1>1. \A k \in DOMAIN channels' : channels'[k] \in Channel
  BY Zenon DEF TermsInv, TypeOK
<1>2. TypeOK'
  BY <1>1, Zenon DEF TermsInv, TypeOK, Channel
<1>3. ASSUME NEW k \in DOMAIN channels' PROVE TermsOf(k)'
  <2>1. CASE k # c
    BY <2>1, Zenon DEF TermsOf, TermsInv
  <2> QED BY <2>1
<1> QED BY <1>2, <1>3, Zenon DEF TermsInv

\* PayChanFund adds to the amount, and the end it sets keeps the settle delay:
\* the end it may shorten is itself far enough away.
LEMMA FundTerms ==
    ASSUME TermsInv, NEW c \in DOMAIN channels, NEW a \in Accounts, NEW amount \in Amounts,
           NEW extend \in {0} \cup now .. MaxTime, PayChanFund(a, c, amount, extend)
    PROVE  TermsInv'
<1> DEFINE ch == channels[c]
           exp == IF extend = 0 THEN ch.expiration ELSE extend
           total == ch.amount + amount
           new == Funded(ch, total, exp)
<1>1. /\ now \in 0 .. MaxTime /\ c \in 1 .. made /\ ch \in Channel /\ since[c] \in Nat
      /\ balance \in [Accounts -> Nat] /\ owners[a] \in Nat
      /\ granted \in [1 .. made -> Nat] /\ since \in [1 .. made -> Nat]
  BY Zenon DEF TermsInv, TypeOK
<1>2. amount \in Nat /\ extend \in Nat /\ now \in Nat /\ MaxTime \in Nat /\ Delays \subseteq Nat
  BY <1>1, PayChanAssumption
<1>3. ch.amount \in Nat /\ ch.paid \in Nat /\ ch.delay \in Nat /\ ch.expiration \in Nat
  BY <1>1, <1>2, ChannelParts, Zenon
<1>4. DOMAIN channels' = DOMAIN channels /\ \A k \in DOMAIN channels \ {c} : channels'[k] = channels[k]
  BY DEF PayChanFund
<1>5. channels'[c] = new
  BY DEF PayChanFund, Funded
<1>6. /\ new \in Channel /\ new.paid = ch.paid /\ new.amount = total
      /\ new.delay = ch.delay /\ new.expiration = exp
  <2>1. total \in Nat /\ exp \in Nat
    BY <1>2, <1>3
  <2>2. ch \in Channel
    BY <1>1
  <2> HIDE DEF ch, exp, total
  <2> QED BY <2>1, <2>2, ChannelFunded
<1>7. balance' \in [Accounts -> Nat]
  <2>1. AccountReserve(owners[a]) \in Nat
    BY <1>1, ReserveNat, Zenon
  <2>2. balance[a] - amount \in Nat
    <3>1. balance[a] >= AccountReserve(owners[a]) + amount /\ balance[a] \in Nat
      BY <1>1, Zenon DEF PayChanFund, CanFund
    <3> QED BY <1>2, <2>1, <3>1
  <2> QED BY <1>1, <2>2 DEF PayChanFund
<1>8. /\ since' \in [1 .. made -> Nat] /\ \A k \in DOMAIN channels \ {c} : since'[k] = since[k]
      /\ since'[c] = IF extend # 0 /\ ch.expiration = 0 THEN now ELSE since[c]
  BY <1>1, <1>2 DEF PayChanFund
<1>9. UNCHANGED <<now, made, owners, directory, signed, granted>>
  BY DEF PayChanFund
<1>10. TermsOf(c)'
  <2>1. TermsOf(c)
    BY DEF TermsInv
  <2>3. extend = 0 \/ extend >= MinExpiration(ch)
    BY DEF PayChanFund
  <2> HIDE DEF new
  <2>4. /\ new.paid <= new.amount /\ new.paid <= granted[c]
    <3>1. ch.paid <= ch.amount /\ ch.paid <= granted[c]
      BY <2>1, Zenon DEF TermsOf
    <3> QED BY <1>2, <1>3, <1>6, <3>1
  <2>5. since'[c] <= now
    <3>1. since[c] <= now
      BY <2>1, Zenon DEF TermsOf
    <3> QED BY <1>2, <1>8, <3>1
  <2>6. new.expiration # 0 => new.expiration >= since'[c] + new.delay
    <3>1. since[c] \in Nat /\ since[c] <= now
      BY <1>1, <2>1, Zenon DEF TermsOf
    <3>2. ch.expiration # 0 => ch.expiration >= since[c] + ch.delay
      BY <2>1, Zenon DEF TermsOf
    <3> HIDE DEF ch
    <3>3. new.expiration = exp /\ new.delay = ch.delay /\ exp \in Nat
      BY <1>2, <1>3, <1>6
    <3>4. CASE extend # 0
      <4>1. exp = extend /\ extend >= MinExpiration(ch)
        BY <2>3, <3>4
      <4>2. CASE ch.expiration = 0
        <5>1. since'[c] = now /\ MinExpiration(ch) = now + ch.delay
          BY <1>2, <1>3, <1>8, <3>4, <4>2 DEF MinExpiration
        <5> QED BY <3>3, <4>1, <5>1
      <4>3. CASE ch.expiration # 0
        <5>1. since'[c] = since[c]
          BY <1>8, <4>3
        <5>2. MinExpiration(ch) >= since[c] + ch.delay
          BY <1>2, <1>3, <3>1, <3>2, <4>3 DEF MinExpiration
        <5>3. MinExpiration(ch) \in Nat /\ extend \in Nat
          BY <1>2, <1>3 DEF MinExpiration
        <5> QED BY <1>3, <3>1, <3>3, <4>1, <5>1, <5>2, <5>3
      <4> QED BY <4>2, <4>3
    <3>5. CASE extend = 0
      <4>1. exp = ch.expiration /\ since'[c] = since[c]
        BY <1>8, <3>5
      <4> QED BY <1>3, <3>2, <3>3, <4>1
    <3> QED BY <3>4, <3>5
  <2> QED BY <1>5, <1>9, <2>1, <2>4, <2>5, <2>6 DEF TermsOf
<1> QED BY <1>1, <1>4, <1>5, <1>6, <1>7, <1>8, <1>9, <1>10, ChangeTerms, Zenon

\* A signature grants what it is for.
LEMMA SignTerms ==
    ASSUME TermsInv, NEW c \in DOMAIN channels, NEW amount \in Amounts, SignClaim(c, amount)
    PROVE  TermsInv'
<1>1. /\ c \in 1 .. made /\ granted \in [1 .. made -> Nat] /\ signed \in [1 .. made -> SUBSET Nat]
      /\ DOMAIN channels \subseteq 1 .. made
  BY Zenon DEF TermsInv, TypeOK
<1>2. amount \in Nat /\ granted[c] \in Nat
  BY <1>1, PayChanAssumption
<1> DEFINE most == Max({granted[c], amount})
<1>3. most \in Nat /\ most >= granted[c] /\ most >= amount
  BY <1>2, MaxOfTwo
<1>4. /\ signed' = [signed EXCEPT ![c] = @ \cup {amount}] /\ granted' = [granted EXCEPT ![c] = most]
      /\ UNCHANGED <<now, made, balance, owners, channels, directory, since>>
  BY DEF SignClaim, ledger
<1> HIDE DEF most
<1>5. signed' \in [1 .. made -> SUBSET Nat] /\ granted' \in [1 .. made -> Nat]
  BY <1>1, <1>2, <1>3, <1>4
<1>6. TypeOK'
  BY <1>4, <1>5, Zenon DEF TermsInv, TypeOK, Channel
<1>7. ASSUME NEW k \in DOMAIN channels' PROVE TermsOf(k)'
  <2>1. TermsOf(k) /\ k \in 1 .. made
    BY <1>1, <1>4 DEF TermsInv
  <2>2. CASE k # c
    BY <1>1, <1>4, <2>1, <2>2 DEF TermsOf
  <2>3. CASE k = c
    <3>1. channels[c] \in Channel
      BY DEF TermsInv, TypeOK
    <3>2. channels[c].paid \in Nat
      BY <3>1, ChannelParts
    <3>3. signed'[c] = signed[c] \cup {amount} /\ granted'[c] = most /\ signed[c] \subseteq Nat
      BY <1>1, <1>4
    <3>4. channels[c].paid <= most /\ \A s \in signed'[c] : s <= most
      BY <1>2, <1>3, <2>1, <2>3, <3>2, <3>3 DEF TermsOf
    <3> QED BY <1>4, <2>1, <2>3, <3>3, <3>4 DEF TermsOf
  <2> QED BY <2>2, <2>3
<1> QED BY <1>6, <1>7 DEF TermsInv

\* PayChanClaim pays what the owner asks or has signed for, and a request to
\* close sets an end no sooner than the settle delay.
LEMMA ClaimTerms ==
    ASSUME TermsInv, NEW c \in DOMAIN channels, NEW a \in Accounts, NEW req \in {0} \cup Amounts,
           NEW flag \in {"none", "renew", "close"}, PayChanClaim(a, c, req, flag)
    PROVE  TermsInv'
<1> DEFINE ch   == channels[c]
           paid == IF req = 0 THEN ch.paid ELSE req
           bal  == [balance EXCEPT ![ch.dst] = @ + paid - ch.paid]
           settle == now + ch.delay
           dry  == flag = "close" /\ (a = ch.dst \/ paid = ch.amount)
           expire == IF flag = "renew" THEN 0
                     ELSE IF flag = "close" /\ (ch.expiration = 0 \/ ch.expiration > settle) THEN settle
                     ELSE ch.expiration
           most == IF a = ch.src THEN Max({granted[c], paid}) ELSE granted[c]
<1>1. /\ now \in 0 .. MaxTime /\ c \in 1 .. made /\ ch \in Channel /\ DOMAIN channels \subseteq 1 .. made
      /\ balance \in [Accounts -> Nat] /\ granted \in [1 .. made -> Nat] /\ since \in [1 .. made -> Nat]
      /\ signed \in [1 .. made -> SUBSET Nat]
  BY Zenon DEF TermsInv, TypeOK
<1>2. req \in Nat /\ now \in Nat /\ Delays \subseteq Nat /\ granted[c] \in Nat /\ since[c] \in Nat
  BY <1>1, PayChanAssumption
<1>3. /\ ch.src \in Accounts /\ ch.dst \in Accounts /\ ch.amount \in Nat /\ ch.paid \in Nat
      /\ ch.delay \in Nat /\ ch.expiration \in Nat
  BY <1>1, <1>2, ChannelParts, Zenon
<1>4. TermsOf(c)
  BY DEF TermsInv
<1>5. /\ req # 0 => req <= ch.amount /\ req > ch.paid
      /\ req # 0 /\ a # ch.src => \E s \in signed[c] : s >= req
      /\ granted' = [granted EXCEPT ![c] = most] /\ UNCHANGED <<now, made, signed>>
  BY DEF PayChanClaim, ClaimPreflight, HasSignature
<1>6. \/ dry /\ CloseChannel(c, [ch EXCEPT !.paid = paid], bal) /\ UNCHANGED since
      \/ /\ channels' = [channels EXCEPT ![c].paid = paid, ![c].expiration = expire]
         /\ balance' = bal /\ UNCHANGED <<owners, directory>>
         /\ since' = [since EXCEPT ![c] = IF expire = 0 THEN 0 ELSE IF ch.expiration = 0 THEN now ELSE @]
  BY DEF PayChanClaim
<1>7. paid \in Nat /\ paid <= ch.amount /\ ch.paid <= paid
  BY <1>2, <1>3, <1>4, <1>5 DEF TermsOf
<1>8. most \in Nat /\ paid <= most /\ granted[c] <= most
  <2>1. CASE a = ch.src
    <3> HIDE DEF paid
    <3>1. Max({granted[c], paid}) \in Nat /\ Max({granted[c], paid}) >= granted[c] /\ Max({granted[c], paid}) >= paid
      BY <1>2, <1>7, MaxOfTwo
    <3> QED BY <1>2, <1>7, <2>1, <3>1
  <2>2. CASE a # ch.src
    <3>1. signed[c] \subseteq Nat
      BY <1>1
    <3>2. ch.paid <= granted[c] /\ \A s \in signed[c] : s <= granted[c]
      BY <1>4, Zenon DEF TermsOf
    <3>3. req # 0 => req <= granted[c]
      BY <1>2, <1>5, <2>2, <3>1, <3>2
    <3> QED BY <1>2, <1>3, <2>2, <3>2, <3>3
  <2> QED BY <2>1, <2>2
<1>9. bal \in [Accounts -> Nat]
  <2>1. balance[ch.dst] + paid - ch.paid \in Nat
    <3>1. balance[ch.dst] \in Nat
      BY <1>1, <1>3, Zenon
    <3> HIDE DEF ch, paid
    <3> QED BY <1>3, <1>7, <3>1
  <2> HIDE DEF ch, paid
  <2> QED BY <1>1, <1>3, <2>1
<1>10. granted' \in [1 .. made -> Nat] /\ granted'[c] = most /\ \A k \in DOMAIN channels \ {c} : granted'[k] = granted[k]
  <2> HIDE DEF most
  <2> QED BY <1>1, <1>5, <1>8
<1>11. expire \in Nat
  BY <1>2, <1>3
<1>12. CASE dry /\ CloseChannel(c, [ch EXCEPT !.paid = paid], bal) /\ UNCHANGED since
  <2> DEFINE closed == [ch EXCEPT !.paid = paid]
  <2>1. closed \in Channel /\ closed.paid = paid /\ closed.amount = ch.amount
    <3> HIDE DEF paid, ch
    <3> QED BY <1>1, <1>7, Zenon DEF Channel
  <2>2. closed.paid <= closed.amount
    BY <1>7, <2>1
  <2> HIDE DEF closed, bal
  <2> QED BY <1>5, <1>9, <1>10, <1>12, <2>1, <2>2, CloseTerms, Zenon DEF closed
<1>13. CASE /\ channels' = [channels EXCEPT ![c].paid = paid, ![c].expiration = expire]
            /\ balance' = bal /\ UNCHANGED <<owners, directory>>
            /\ since' = [since EXCEPT ![c] = IF expire = 0 THEN 0 ELSE IF ch.expiration = 0 THEN now ELSE @]
  <2> DEFINE new == Paid(ch, paid, expire)
  <2>1. DOMAIN channels' = DOMAIN channels /\ \A k \in DOMAIN channels \ {c} : channels'[k] = channels[k]
    BY <1>13
  <2>2. channels'[c] = new
    BY <1>13 DEF Paid
  <2>3. /\ new \in Channel /\ new.paid = paid /\ new.amount = ch.amount
        /\ new.delay = ch.delay /\ new.expiration = expire
    <3>1. ch \in Channel
      BY <1>1
    <3> HIDE DEF ch, paid, expire
    <3> QED BY <1>7, <1>11, <3>1, ChannelPaid
  <2> HIDE DEF new
  <2>4. /\ since' \in [1 .. made -> Nat] /\ \A k \in DOMAIN channels \ {c} : since'[k] = since[k]
        /\ since'[c] = IF expire = 0 THEN 0 ELSE IF ch.expiration = 0 THEN now ELSE since[c]
    <3> HIDE DEF ch, expire
    <3> QED BY <1>1, <1>2, <1>13
  <2>5. TermsOf(c)'
    <3>1. paid <= ch.amount /\ paid <= granted'[c]
      BY <1>7, <1>8, <1>10
    <3>2. \A s \in signed'[c] : s <= granted'[c]
      <4>1. signed[c] \subseteq Nat
        BY <1>1
      <4>2. \A s \in signed[c] : s <= granted[c]
        BY <1>4, Zenon DEF TermsOf
      <4> HIDE DEF most
      <4> QED BY <1>2, <1>5, <1>8, <1>10, <4>1, <4>2
    <3>3. since'[c] <= now
      <4>1. since[c] <= now
        BY <1>4, Zenon DEF TermsOf
      <4> HIDE DEF ch, expire
      <4> QED BY <1>2, <2>4, <4>1
    <3>4. expire # 0 => expire >= since'[c] + ch.delay
      <4>1. ch.expiration # 0 => ch.expiration >= since[c] + ch.delay /\ since[c] <= now
        BY <1>4, Zenon DEF TermsOf
      <4>2. expire \in {0, now + ch.delay, ch.expiration}
        BY Zenon
      <4>3. expire # 0 /\ ch.expiration = 0 => expire = now + ch.delay
        BY <4>2
      <4> HIDE DEF ch, expire
      <4>4. CASE ch.expiration = 0
        BY <1>2, <1>3, <2>4, <4>3, <4>4
      <4>5. CASE ch.expiration # 0
        BY <1>2, <1>3, <2>4, <4>1, <4>2, <4>5
      <4> QED BY <4>4, <4>5
    <3> HIDE DEF ch, paid, expire
    <3> QED BY <1>5, <2>2, <2>3, <3>1, <3>2, <3>3, <3>4, Zenon DEF TermsOf
  <2> HIDE DEF ch, paid, expire, bal
  <2> QED BY <1>5, <1>9, <1>10, <1>13, <2>1, <2>2, <2>3, <2>4, <2>5, ChangeTerms, Zenon
<1> HIDE DEF ch, paid, expire, bal, dry
<1> QED BY <1>6, <1>12, <1>13, Zenon

\* A transaction that meets an expired channel closes it.
LEMMA TouchTerms ==
    ASSUME TermsInv, NEW c \in DOMAIN channels, TouchExpired(c)
    PROVE  TermsInv'
<1>1. /\ channels[c] \in Channel /\ balance \in [Accounts -> Nat] /\ granted \in [1 .. made -> Nat]
      /\ channels[c].paid <= channels[c].amount
  BY Zenon DEF TermsInv, TypeOK, TermsOf
<1>2. CloseChannel(c, channels[c], balance) /\ UNCHANGED <<now, made, signed, granted, since>>
  BY DEF TouchExpired, history
<1> QED BY <1>1, <1>2, CloseTerms, Zenon

\* Every step keeps the terms of every channel.
LEMMA NextTerms == TermsInv /\ [Next]_vars => TermsInv'
<1> SUFFICES ASSUME TermsInv, [Next]_vars PROVE TermsInv'
  OBVIOUS
<1>1. CASE LedgerCloses
  <2>1. now' = now + 1 /\ now' \in 0 .. MaxTime /\ now \in Int /\ now <= now'
    BY <1>1, PayChanAssumption DEF LedgerCloses, TermsInv, TypeOK
  <2>2. UNCHANGED <<made, balance, owners, channels, directory, signed, granted, since>>
    BY <1>1 DEF LedgerCloses, ledger, history
  <2>3. TypeOK'
    BY <2>1, <2>2, Zenon DEF TermsInv, TypeOK, Channel
  <2>4. ASSUME NEW k \in DOMAIN channels' PROVE TermsOf(k)'
    <3>1. TermsOf(k) /\ since[k] \in Int
      BY <2>2 DEF TermsInv, TypeOK
    <3>2. since[k] <= now'
      BY <2>1, <3>1 DEF TermsOf
    <3> QED BY <2>2, <3>1, <3>2, Zenon DEF TermsOf
  <2> QED BY <2>3, <2>4, Zenon DEF TermsInv
<1>2. CASE \E a, d \in Accounts, amount \in Amounts, delay \in Delays, cancel \in {0, MaxTime} :
              PayChanCreate(a, d, amount, delay, cancel)
  BY <1>2, CreateTerms, Zenon
<1>3. ASSUME NEW c \in DOMAIN channels, OnChannel(c)
      PROVE  TermsInv'
  BY <1>3, TouchTerms, FundTerms, SignTerms, ClaimTerms, Zenon DEF OnChannel
<1>4. CASE UNCHANGED vars
  <2>1. TypeOK'
    BY <1>4, Zenon DEF vars, TermsInv, TypeOK, Channel
  <2>2. \A k \in DOMAIN channels' : TermsOf(k)'
    BY <1>4, Zenon DEF vars, TermsInv, TermsOf
  <2> QED BY <2>1, <2>2, Zenon DEF TermsInv
<1> QED BY <1>1, <1>2, <1>3, <1>4, Zenon DEF Next

\* The terms of every channel hold in every state (closeChannel, PayChanCreate,
\* PayChanFund and PayChanClaim): with them, the types.
THEOREM TermsInvariance == Spec => []TermsInv
BY InitTerms, NextTerms, PTL DEF Spec

\* PayChanClaim never lets the destination have more than the channel holds or
\* the owner granted, and the end of a channel stays at least the settle delay
\* after the moment it was set, in whatever order it is funded, claimed on,
\* renewed and asked to close.
THEOREM EndsOnTerms == Spec => []ChannelsOnTerms
<1>1. TermsInv => ChannelsOnTerms
  BY Zenon DEF TermsInv, TermsOf, ChannelsOnTerms, PaidIsGranted, OwnerWaits
<1> QED BY <1>1, TermsInvariance, PTL
-----------------------------------------------------------------------------
\* The channels of an account, and those in its directory.
Owned(a) == {c \in DOMAIN channels : channels[c].src = a}
Listed(a) == {c \in DOMAIN channels : a \in {channels[c].src, channels[c].dst}}

\* ObjectsAccounted, by the sets of channels owned and listed.
LEMMA ObjectsAre == ObjectsAccounted <=> \A a \in Accounts : owners[a] = Cardinality(Owned(a)) /\ directory[a] = Listed(a)
BY DEF ObjectsAccounted, Owned, Listed

\* The channels of an account are finitely many.
LEMMA OwnedFinite ==
    ASSUME TypeOK, NEW a
    PROVE  IsFiniteSet(DOMAIN channels) /\ IsFiniteSet(Owned(a)) /\ Cardinality(Owned(a)) \in Nat
<1>1. made \in Int /\ DOMAIN channels \subseteq 1 .. made
  BY DEF TypeOK
<1>2. IsFiniteSet(1 .. made)
  BY <1>1, FS_Interval
<1>3. IsFiniteSet(DOMAIN channels)
  BY <1>1, <1>2, FS_Subset
<1>4. Owned(a) \subseteq DOMAIN channels
  BY DEF Owned
<1>5. IsFiniteSet(Owned(a))
  BY <1>3, <1>4, FS_Subset
<1> QED BY <1>3, <1>5, FS_CardinalityType

\* A step that changes no end of a channel changes no count and no list.
LEMMA SameObjects ==
    ASSUME ObjectsAccounted, DOMAIN channels' = DOMAIN channels, UNCHANGED <<owners, directory>>,
           \A c \in DOMAIN channels : channels'[c].src = channels[c].src /\ channels'[c].dst = channels[c].dst
    PROVE  ObjectsAccounted'
<1>1. ASSUME NEW a \in Accounts
      PROVE  Owned(a)' = Owned(a) /\ Listed(a)' = Listed(a)
  BY DEF Owned, Listed
<1>2. \A a \in Accounts : owners'[a] = Cardinality(Owned(a)') /\ directory'[a] = Listed(a)'
  BY <1>1, ObjectsAre
<1> QED BY <1>2 DEF ObjectsAccounted, Owned, Listed

\* closeChannel takes one off the count of the owner, and the channel off both
\* directories.
LEMMA CloseObjects ==
    ASSUME TypeOK, ObjectsAccounted, NEW c \in DOMAIN channels, NEW ch,
           ch.src = channels[c].src, ch.dst = channels[c].dst, NEW bal, CloseChannel(c, ch, bal)
    PROVE  ObjectsAccounted'
<1>1. channels' = [k \in DOMAIN channels \ {c} |-> channels[k]]
  BY DEF CloseChannel, Restrict
<1>2. ch.src \in Accounts /\ ch.dst \in Accounts
  BY ChannelParts DEF TypeOK
<1>3. /\ owners \in [Accounts -> Nat] /\ directory \in [Accounts -> SUBSET (1 .. made)]
      /\ directory' = [directory EXCEPT ![ch.src] = @ \ {c}, ![ch.dst] = @ \ {c}]
      /\ owners' = [owners EXCEPT ![ch.src] = ConfineOwnerCount(@, -1)]
  BY Zenon DEF TypeOK, CloseChannel
<1>4. ASSUME NEW a \in Accounts PROVE owners'[a] = Cardinality(Owned(a)')
  <2>1. owners[a] = Cardinality(Owned(a)) /\ IsFiniteSet(Owned(a)) /\ owners[a] \in Nat
    BY <1>3, ObjectsAre, OwnedFinite
  <2>2. CASE a = ch.src
    <3>1. c \in Owned(a) /\ Owned(a)' = Owned(a) \ {c}
      BY <1>1, <2>2 DEF Owned
    <3>2. Cardinality(Owned(a) \ {c}) = Cardinality(Owned(a)) - 1 /\ Cardinality(Owned(a) \ {c}) \in Nat
      BY <2>1, <3>1, FS_RemoveElement, FS_CardinalityType, FS_Subset
    <3>3. owners'[a] = ConfineOwnerCount(owners[a], -1)
      BY <1>3, <2>2
    <3>4. owners[a] - 1 >= 0 /\ ConfineOwnerCount(owners[a], -1) = owners[a] - 1
      BY <2>1, <3>2 DEF ConfineOwnerCount
    <3> QED BY <2>1, <3>1, <3>2, <3>3, <3>4
  <2>3. CASE a # ch.src
    <3>1. Owned(a)' = Owned(a)
      BY <1>1, <2>3 DEF Owned
    <3>2. owners'[a] = owners[a]
      BY <1>3, <2>3
    <3> QED BY <2>1, <3>1, <3>2
  <2> QED BY <2>2, <2>3
<1>5. ASSUME NEW a \in Accounts PROVE directory'[a] = Listed(a)'
  <2>1. directory[a] = Listed(a)
    BY ObjectsAre
  <2>2. Listed(a)' = Listed(a) \ {c}
    BY <1>1 DEF Listed
  <2>3. CASE a \in {ch.src, ch.dst}
    <3>1. directory'[a] = directory[a] \ {c}
      BY <1>2, <1>3, <2>3
    <3> QED BY <2>1, <2>2, <3>1
  <2>4. CASE a \notin {ch.src, ch.dst}
    <3>1. directory'[a] = directory[a]
      BY <1>3, <2>4
    <3>2. c \notin Listed(a)
      BY <2>4 DEF Listed
    <3> QED BY <2>1, <2>2, <3>1, <3>2
  <2> QED BY <2>3, <2>4
<1> QED BY <1>4, <1>5, Zenon DEF ObjectsAccounted, Owned, Listed

\* PayChanCreate adds one to the count of the owner, and the channel to both
\* directories.
LEMMA CreateObjects ==
    ASSUME TypeOK, ObjectsAccounted, NEW a \in Accounts, NEW d \in Accounts, NEW amount,
           NEW delay, NEW cancel, PayChanCreate(a, d, amount, delay, cancel)
    PROVE  ObjectsAccounted'
<1> DEFINE c == made + 1
           ch == [src |-> a, dst |-> d, amount |-> amount, paid |-> 0,
                  delay |-> delay, cancel |-> cancel, expiration |-> 0]
<1>1. c \notin DOMAIN channels
  BY DEF TypeOK
<1>2. /\ owners \in [Accounts -> Nat] /\ directory \in [Accounts -> SUBSET (1 .. made)]
      /\ channels' = With(channels, c, ch)
      /\ directory' = [directory EXCEPT ![a] = @ \cup {c}, ![d] = @ \cup {c}]
      /\ owners' = [owners EXCEPT ![a] = ConfineOwnerCount(@, 1)]
  BY Zenon DEF TypeOK, PayChanCreate
<1>3. ch.src = a /\ ch.dst = d
  OBVIOUS
<1> HIDE DEF c, ch
<1>4. /\ DOMAIN channels' = DOMAIN channels \cup {c} /\ channels'[c] = ch
      /\ \A k \in DOMAIN channels : channels'[k] = channels[k]
  BY <1>1, <1>2 DEF With
<1>5. ASSUME NEW b \in Accounts PROVE owners'[b] = Cardinality(Owned(b)')
  <2>1. owners[b] = Cardinality(Owned(b)) /\ IsFiniteSet(Owned(b)) /\ owners[b] \in Nat
    BY <1>2, ObjectsAre, OwnedFinite
  <2>2. CASE a = b
    <3>1. c \notin Owned(b) /\ Owned(b)' = Owned(b) \cup {c}
      BY <1>1, <1>3, <1>4, <2>2 DEF Owned
    <3>2. Cardinality(Owned(b) \cup {c}) = Cardinality(Owned(b)) + 1
      BY <2>1, <3>1, FS_AddElement
    <3>3. owners'[b] = ConfineOwnerCount(owners[b], 1)
      BY <1>2, <2>2
    <3>4. ConfineOwnerCount(owners[b], 1) = owners[b] + 1
      BY <2>1 DEF ConfineOwnerCount
    <3> QED BY <2>1, <3>1, <3>2, <3>3, <3>4
  <2>3. CASE a # b
    <3>1. Owned(b)' = Owned(b)
      BY <1>1, <1>3, <1>4, <2>3 DEF Owned
    <3>2. owners'[b] = owners[b]
      BY <1>2, <2>3
    <3> QED BY <2>1, <3>1, <3>2
  <2> QED BY <2>2, <2>3
<1>6. ASSUME NEW b \in Accounts PROVE directory'[b] = Listed(b)'
  <2>1. directory[b] = Listed(b)
    BY ObjectsAre
  <2>2. CASE b \in {a, d}
    <3>1. directory'[b] = directory[b] \cup {c}
      BY <1>2, <2>2
    <3>2. Listed(b)' = Listed(b) \cup {c}
      BY <1>3, <1>4, <2>2 DEF Listed
    <3> QED BY <2>1, <3>1, <3>2
  <2>3. CASE b \notin {a, d}
    <3>1. directory'[b] = directory[b]
      BY <1>2, <2>3
    <3>2. Listed(b)' = Listed(b)
      BY <1>1, <1>3, <1>4, <2>3 DEF Listed
    <3> QED BY <2>1, <3>1, <3>2
  <2> QED BY <2>2, <2>3
<1> QED BY <1>5, <1>6, Zenon DEF ObjectsAccounted, Owned, Listed
-----------------------------------------------------------------------------
\* What a channel holds is an integer, and the channels are finitely many.
LEMMA HeldType ==
    ASSUME TypeOK
    PROVE  /\ DOMAIN Held = DOMAIN channels /\ IsFiniteSet(DOMAIN channels)
           /\ \A c \in DOMAIN channels : /\ Held[c] = channels[c].amount - channels[c].paid
                                         /\ Held[c] \in Int
<1>1. \A c \in DOMAIN channels : channels[c].amount \in Nat /\ channels[c].paid \in Nat
  BY ChannelParts DEF TypeOK
<1> QED BY <1>1, OwnedFinite DEF Held

\* The totals of XrpConserved as sums.
LEMMA TotalsAre ==
    ASSUME TypeOK
    PROVE  /\ SumFunction(balance) = Sum(balance, Accounts) /\ Sum(balance, Accounts) \in Int
           /\ SumFunction(Held) = Sum(Held, DOMAIN channels) /\ Sum(Held, DOMAIN channels) \in Int
<1>1. DOMAIN balance = Accounts /\ IsFiniteSet(Accounts) /\ \A a \in Accounts : balance[a] \in Int
  BY PayChanAssumption DEF TypeOK
<1>2. Sum(balance, Accounts) \in Int
  BY <1>1, SumInt
<1>3. Sum(Held, DOMAIN channels) \in Int
  BY HeldType, SumInt
<1> QED BY <1>1, <1>2, <1>3, HeldType, Zenon DEF SumFunction, Sum

\* A step that moves an amount from the accounts to the channels.
Moved(amount) ==
    /\ Sum(balance', Accounts) = Sum(balance, Accounts) - amount
    /\ Sum(Held', DOMAIN channels') = Sum(Held, DOMAIN channels) + amount

\* Moving an amount between accounts and channels makes and loses nothing.
LEMMA MovedConserves ==
    ASSUME TypeOK, TypeOK', XrpConserved, NEW amount \in Int, Moved(amount)
    PROVE  XrpConserved'
<1>1. /\ SumFunction(balance)' = Sum(balance', Accounts)
      /\ SumFunction(Held)' = Sum(Held', DOMAIN channels')
  <2>1. DOMAIN balance' = Accounts /\ DOMAIN Held' = DOMAIN channels'
    BY DEF TypeOK, Held
  <2> QED BY <2>1, Zenon DEF SumFunction, Sum
<1>2. Sum(balance', Accounts) + Sum(Held', DOMAIN channels') = Sum(balance, Accounts) + Sum(Held, DOMAIN channels)
  BY TotalsAre DEF Moved
<1>3. SumFunction(balance) + SumFunction(Held) = Sum(balance, Accounts) + Sum(Held, DOMAIN channels)
  BY TotalsAre, Zenon
<1> QED BY <1>1, <1>2, <1>3, Zenon DEF XrpConserved

\* The total of the balances after one of them is set.
LEMMA BalanceChange ==
    ASSUME NEW f \in [Accounts -> Nat], NEW a \in Accounts, NEW v \in Int
    PROVE  Sum([f EXCEPT ![a] = v], Accounts) = Sum(f, Accounts) + v - f[a]
<1> DEFINE g == [f EXCEPT ![a] = v]
<1>1. /\ IsFiniteSet(Accounts) /\ g[a] = v
      /\ \A x \in Accounts : f[x] \in Int /\ g[x] \in Int
      /\ \A x \in Accounts \ {a} : g[x] = f[x]
  BY PayChanAssumption
<1> HIDE DEF g
<1>2. Sum(g, Accounts) = Sum(f, Accounts) + g[a] - f[a]
  BY <1>1, SumChange
<1> QED BY <1>1, <1>2 DEF g

\* closeChannel pays the owner what is left, and the channel holds nothing.
LEMMA CloseMoves ==
    ASSUME TypeOK, NEW c \in DOMAIN channels, NEW ch \in Channel, NEW bal \in [Accounts -> Nat],
           CloseChannel(c, ch, bal)
    PROVE  /\ Sum(balance', Accounts) = Sum(bal, Accounts) + ch.amount - ch.paid
           /\ Sum(Held', DOMAIN channels') = Sum(Held, DOMAIN channels) - Held[c]
<1>1. ch.src \in Accounts /\ ch.amount \in Nat /\ ch.paid \in Nat
  BY ChannelParts
<1> DEFINE v == bal[ch.src] + ch.amount - ch.paid
<1>2. v \in Int /\ balance' = [bal EXCEPT ![ch.src] = v] /\ bal[ch.src] \in Int
  <2>1. bal[ch.src] \in Nat
    BY <1>1
  <2>2. balance' = [bal EXCEPT ![ch.src] = v]
    BY DEF CloseChannel
  <2> QED BY <1>1, <2>1, <2>2
<1>3. Sum(bal, Accounts) \in Int
  <2>1. IsFiniteSet(Accounts) /\ \A a \in Accounts : bal[a] \in Int
    BY PayChanAssumption
  <2> QED BY <2>1, SumInt
<1>4. Sum(balance', Accounts) = Sum(bal, Accounts) + ch.amount - ch.paid
  <2>1. Sum(balance', Accounts) = Sum(bal, Accounts) + v - bal[ch.src]
    <3> HIDE DEF v
    <3> QED BY <1>1, <1>2, BalanceChange, Zenon
  <2> QED BY <1>1, <1>2, <1>3, <2>1
<1>5. /\ DOMAIN channels' = DOMAIN channels \ {c}
      /\ \A x \in DOMAIN channels \ {c} : Held'[x] = Held[x]
  BY DEF CloseChannel, Restrict, Held
<1>6. Sum(Held', DOMAIN channels \ {c}) = Sum(Held, DOMAIN channels) - Held[c]
  BY <1>5, HeldType, SumDelete
<1> QED BY <1>4, <1>5, <1>6

\* What the channels hold after one of them changed.
LEMMA ChangeMoves ==
    ASSUME TypeOK, TypeOK', NEW c \in DOMAIN channels, DOMAIN channels' = DOMAIN channels,
           \A k \in DOMAIN channels \ {c} : channels'[k] = channels[k]
    PROVE  Sum(Held', DOMAIN channels') = Sum(Held, DOMAIN channels)
               + (channels'[c].amount - channels'[c].paid) - Held[c]
<1>1. \A x \in DOMAIN channels : Held[x] \in Int /\ Held'[x] \in Int
  <2>1. \A k \in DOMAIN channels' : channels'[k] \in Channel
    BY DEF TypeOK, Channel
  <2>2. \A k \in DOMAIN channels' : channels'[k].amount \in Nat /\ channels'[k].paid \in Nat
    BY <2>1, ChannelParts
  <2>3. \A k \in DOMAIN channels' : Held'[k] = channels'[k].amount - channels'[k].paid
    BY DEF Held
  <2> QED BY <2>2, <2>3, HeldType
<1>2. \A x \in DOMAIN channels \ {c} : Held'[x] = Held[x]
  BY DEF Held
<1>3. Held'[c] = channels'[c].amount - channels'[c].paid
  BY DEF Held
<1>4. Sum(Held', DOMAIN channels) = Sum(Held, DOMAIN channels) + Held'[c] - Held[c]
  BY <1>1, <1>2, HeldType, SumChange
<1> QED BY <1>3, <1>4

\* PayChanCreate moves the amount from the owner to the channel.
LEMMA CreateMoves ==
    ASSUME TypeOK, NEW a \in Accounts, NEW d \in Accounts, NEW amount \in Nat,
           NEW delay, NEW cancel, PayChanCreate(a, d, amount, delay, cancel)
    PROVE  Moved(amount)
<1> DEFINE c == made + 1
           ch == [src |-> a, dst |-> d, amount |-> amount, paid |-> 0,
                  delay |-> delay, cancel |-> cancel, expiration |-> 0]
<1>1. c \notin DOMAIN channels
  BY DEF TypeOK
<1>2. channels' = With(channels, c, ch) /\ balance' = [balance EXCEPT ![a] = balance[a] - amount]
  BY DEF PayChanCreate
<1>3. ch.amount = amount /\ ch.paid = 0
  OBVIOUS
<1> HIDE DEF c, ch
<1>4. /\ DOMAIN channels' = DOMAIN channels \cup {c} /\ channels'[c] = ch
      /\ \A k \in DOMAIN channels : channels'[k] = channels[k]
  BY <1>1, <1>2 DEF With
<1>5. Held'[c] = amount /\ \A x \in DOMAIN channels : Held'[x] = Held[x]
  <2>1. Held'[c] = ch.amount - ch.paid
    BY <1>4 DEF Held
  <2>2. \A x \in DOMAIN channels : Held'[x] = Held[x]
    BY <1>4 DEF Held
  <2> QED BY <1>3, <2>1, <2>2
<1>6. Sum(Held', DOMAIN channels \cup {c}) = Sum(Held, DOMAIN channels) + Held'[c]
  <2>1. \A x \in DOMAIN channels : Held[x] \in Int /\ Held'[x] = Held[x]
    BY <1>5, HeldType
  <2>2. IsFiniteSet(DOMAIN channels) /\ Held'[c] \in Int
    BY <1>5, HeldType
  <2>3. ASSUME NEW f, NEW g, \A x \in DOMAIN channels : f[x] \in Int /\ g[x] = f[x], g[c] \in Int
        PROVE  Sum(g, DOMAIN channels \cup {c}) = Sum(f, DOMAIN channels) + g[c]
    BY <1>1, <2>2, <2>3, SumInsert
  <2> QED BY <2>1, <2>2, <2>3
<1>7. balance \in [Accounts -> Nat] /\ balance[a] \in Nat /\ balance[a] - amount \in Int
  <2>1. balance \in [Accounts -> Nat] /\ balance[a] \in Nat
    BY Zenon DEF TypeOK
  <2> QED BY <2>1
<1> DEFINE v == balance[a] - amount
<1>8. Sum(balance', Accounts) = Sum(balance, Accounts) + v - balance[a]
  <2> HIDE DEF v
  <2> QED BY <1>2, <1>7, BalanceChange, Zenon DEF v
<1>9. Sum(balance', Accounts) = Sum(balance, Accounts) - amount
  BY <1>7, <1>8, TotalsAre
<1> QED BY <1>4, <1>5, <1>6, <1>9, Zenon DEF Moved

\* So does PayChanFund.
LEMMA FundMoves ==
    ASSUME TypeOK, TypeOK', NEW c \in DOMAIN channels, NEW a \in Accounts, NEW amount \in Nat,
           NEW extend, PayChanFund(a, c, amount, extend)
    PROVE  Moved(amount)
<1>1. /\ DOMAIN channels' = DOMAIN channels
      /\ \A k \in DOMAIN channels \ {c} : channels'[k] = channels[k]
      /\ balance' = [balance EXCEPT ![a] = balance[a] - amount]
  BY DEF PayChanFund
<1>2. channels[c] \in Channel
  BY DEF TypeOK
<1>3. channels'[c].amount = channels[c].amount + amount /\ channels'[c].paid = channels[c].paid
  BY <1>2 DEF PayChanFund, Channel
<1>4. channels[c].amount \in Nat /\ channels[c].paid \in Nat
  BY <1>2, ChannelParts
<1>5. Sum(Held', DOMAIN channels') = Sum(Held, DOMAIN channels)
          + (channels'[c].amount - channels'[c].paid) - Held[c]
  BY <1>1, ChangeMoves
<1>6. Sum(Held', DOMAIN channels') = Sum(Held, DOMAIN channels) + amount
  <2>1. Held[c] = channels[c].amount - channels[c].paid
    BY HeldType
  <2>2. Sum(Held, DOMAIN channels) \in Int
    BY TotalsAre
  <2> QED BY <1>3, <1>4, <1>5, <2>1, <2>2
<1>7. balance \in [Accounts -> Nat] /\ balance[a] \in Nat /\ balance[a] - amount \in Int
  <2>1. balance \in [Accounts -> Nat] /\ balance[a] \in Nat
    BY Zenon DEF TypeOK
  <2> QED BY <2>1
<1> DEFINE v == balance[a] - amount
<1>8. Sum(balance', Accounts) = Sum(balance, Accounts) + v - balance[a]
  <2> HIDE DEF v
  <2> QED BY <1>1, <1>7, BalanceChange, Zenon DEF v
<1>9. Sum(balance', Accounts) = Sum(balance, Accounts) - amount
  BY <1>7, <1>8, TotalsAre
<1> QED BY <1>6, <1>9 DEF Moved

\* Closing an expired channel moves all it holds back to the owner.
LEMMA TouchMoves ==
    ASSUME TypeOK, NEW c \in DOMAIN channels, TouchExpired(c)
    PROVE  Held[c] \in Int /\ Moved(-Held[c])
<1>1. channels[c] \in Channel /\ balance \in [Accounts -> Nat]
  BY DEF TypeOK
<1>2. /\ Sum(balance', Accounts) = Sum(balance, Accounts) + channels[c].amount - channels[c].paid
      /\ Sum(Held', DOMAIN channels') = Sum(Held, DOMAIN channels) - Held[c]
  BY <1>1, CloseMoves DEF TouchExpired
<1>3. channels[c].amount \in Nat /\ channels[c].paid \in Nat
  BY <1>1, ChannelParts
<1>4. Held[c] = channels[c].amount - channels[c].paid /\ Held[c] \in Int
  BY HeldType
<1>5. Sum(balance, Accounts) \in Int /\ Sum(Held, DOMAIN channels) \in Int
  BY TotalsAre
<1> QED BY <1>2, <1>3, <1>4, <1>5 DEF Moved

\* PayChanClaim moves what it pays, and the rest if it closes the channel.
LEMMA ClaimMoves ==
    ASSUME TermsInv, TypeOK', NEW c \in DOMAIN channels, NEW a \in Accounts, NEW req \in Nat,
           NEW flag, PayChanClaim(a, c, req, flag)
    PROVE  \E amount \in Int : Moved(amount)
<1> DEFINE ch   == channels[c]
           paid == IF req = 0 THEN ch.paid ELSE req
           v    == balance[ch.dst] + paid - ch.paid
           bal  == [balance EXCEPT ![ch.dst] = v]
           closed == [ch EXCEPT !.paid = paid]
<1>1. TypeOK /\ ch \in Channel /\ balance \in [Accounts -> Nat]
  BY DEF TermsInv, TypeOK
<1>2. ch.src \in Accounts /\ ch.dst \in Accounts /\ ch.amount \in Nat /\ ch.paid \in Nat
  BY <1>1, ChannelParts
<1>3. paid \in Nat /\ ch.paid <= paid
  BY <1>2 DEF PayChanClaim
<1>4. v \in Nat /\ balance[ch.dst] \in Nat
  BY <1>1, <1>2, <1>3
<1>5. \/ CloseChannel(c, closed, bal)
      \/ \E expire : channels' = [channels EXCEPT ![c].paid = paid, ![c].expiration = expire] /\ balance' = bal
  BY Zenon DEF PayChanClaim
<1> HIDE DEF v
<1>6. Sum(bal, Accounts) = Sum(balance, Accounts) + v - balance[ch.dst] /\ bal \in [Accounts -> Nat]
  <2>1. v \in Int
    BY <1>4
  <2> HIDE DEF ch
  <2> QED BY <1>1, <1>2, <1>4, <2>1, BalanceChange, Zenon
<1>7. Sum(bal, Accounts) = Sum(balance, Accounts) + paid - ch.paid
  <2>1. Sum(balance, Accounts) \in Int
    BY <1>1, TotalsAre
  <2>2. Sum(bal, Accounts) = Sum(balance, Accounts) + (balance[ch.dst] + paid - ch.paid) - balance[ch.dst]
    BY <1>6, Zenon DEF v
  <2> HIDE DEF bal, ch, paid
  <2> QED BY <1>2, <1>3, <1>4, <2>1, <2>2
<1>8. Held[c] = ch.amount - ch.paid
  BY <1>1, HeldType
<1> HIDE DEF paid, ch
<1>9. CASE CloseChannel(c, closed, bal)
  <2>1. closed \in Channel /\ closed.paid = paid /\ closed.amount = ch.amount
    BY <1>1, <1>3, Zenon DEF Channel
  <2> HIDE DEF closed, bal
  <2>2. /\ Sum(balance', Accounts) = Sum(bal, Accounts) + closed.amount - closed.paid
        /\ Sum(Held', DOMAIN channels') = Sum(Held, DOMAIN channels) - Held[c]
    BY <1>1, <1>6, <1>9, <2>1, CloseMoves, Zenon
  <2>3. Moved(ch.paid - ch.amount)
    <3>1. Sum(balance, Accounts) \in Int /\ Sum(Held, DOMAIN channels) \in Int
      BY <1>1, TotalsAre
    <3>2. Sum(balance', Accounts) = Sum(balance, Accounts) + paid - ch.paid + ch.amount - paid
      BY <1>7, <2>1, <2>2, Zenon
    <3>3. Sum(balance', Accounts) = Sum(balance, Accounts) - (ch.paid - ch.amount)
      BY <1>2, <1>3, <3>1, <3>2
    <3>4. Sum(Held', DOMAIN channels') = Sum(Held, DOMAIN channels) - (ch.amount - ch.paid)
      BY <1>8, <2>2, Zenon
    <3>5. Sum(Held', DOMAIN channels') = Sum(Held, DOMAIN channels) + (ch.paid - ch.amount)
      BY <1>2, <3>1, <3>4
    <3> QED BY <3>3, <3>5, Zenon DEF Moved
  <2>4. ch.paid - ch.amount \in Int
    BY <1>2
  <2> QED BY <2>3, <2>4
<1>10. CASE \E expire : channels' = [channels EXCEPT ![c].paid = paid, ![c].expiration = expire] /\ balance' = bal
  <2>1. PICK expire : channels' = [channels EXCEPT ![c].paid = paid, ![c].expiration = expire] /\ balance' = bal
    BY <1>10, Zenon
  <2>2. DOMAIN channels' = DOMAIN channels /\ \A k \in DOMAIN channels \ {c} : channels'[k] = channels[k]
    BY <2>1
  <2>3. channels'[c].paid = paid /\ channels'[c].amount = ch.amount
    BY <1>1, <2>1 DEF ch, Channel
  <2> HIDE DEF bal
  <2>4. Sum(Held', DOMAIN channels') = Sum(Held, DOMAIN channels)
            + (channels'[c].amount - channels'[c].paid) - Held[c]
    BY <1>1, <2>2, ChangeMoves
  <2>5. Moved(ch.paid - paid)
    <3>1. Sum(balance, Accounts) \in Int /\ Sum(Held, DOMAIN channels) \in Int
      BY <1>1, TotalsAre
    <3>2. Sum(balance', Accounts) = Sum(balance, Accounts) - (ch.paid - paid)
      BY <1>2, <1>3, <1>7, <2>1, <3>1
    <3>3. Sum(Held', DOMAIN channels') = Sum(Held, DOMAIN channels) + (ch.paid - paid)
      <4>1. Sum(Held', DOMAIN channels') =
              Sum(Held, DOMAIN channels) + (ch.amount - paid) - (ch.amount - ch.paid)
        BY <1>8, <2>3, <2>4, Zenon
      <4> QED BY <1>2, <1>3, <3>1, <4>1
    <3> QED BY <3>2, <3>3, Zenon DEF Moved
  <2>6. ch.paid - paid \in Int
    BY <1>2, <1>3
  <2> QED BY <2>5, <2>6
<1> QED BY <1>5, <1>9, <1>10, Zenon

\* The inductive invariant of the books: closing pays out amount less paid,
\* which is no balance unless the channel kept its terms.
AccountsInv == TermsInv /\ ChannelsAccounted

\* The books balance at the start.
LEMMA InitAccounts == Init => AccountsInv
<1> SUFFICES ASSUME Init PROVE AccountsInv
  OBVIOUS
<1>1. TermsInv /\ TypeOK
  BY InitTerms DEF TermsInv
<1>2. ObjectsAccounted
  BY FS_EmptySet DEF Init, ObjectsAccounted
<1>3. Sum(Held, DOMAIN channels) = 0
  <2>1. DOMAIN channels = {}
    BY DEF Init
  <2> QED BY <2>1, SumEmpty, Zenon
<1>4. Sum(balance, Accounts) = Funds * Cardinality(Accounts)
  <2>1. IsFiniteSet(Accounts) /\ Funds \in Nat /\ \A a \in Accounts : balance[a] = Funds
    BY PayChanAssumption DEF Init
  <2> QED BY <2>1, SumConstant
<1>5. XrpConserved
  BY <1>1, <1>3, <1>4, TotalsAre DEF XrpConserved
<1> QED BY <1>1, <1>2, <1>5 DEF AccountsInv, ChannelsAccounted

\* Every step keeps the books balanced.
LEMMA NextAccounts == AccountsInv /\ [Next]_vars => AccountsInv'
<1> SUFFICES ASSUME AccountsInv, [Next]_vars PROVE AccountsInv'
  OBVIOUS
<1>1. TermsInv /\ TypeOK /\ XrpConserved /\ ObjectsAccounted
  BY DEF AccountsInv, TermsInv, ChannelsAccounted
<1>2. TermsInv' /\ TypeOK'
  BY <1>1, NextTerms DEF TermsInv
<1> SUFFICES (\E amount \in Int : Moved(amount)) /\ ObjectsAccounted'
  <2>1. ASSUME NEW amount \in Int, Moved(amount) PROVE XrpConserved'
    BY <1>1, <1>2, <2>1, MovedConserves
  <2> QED BY <1>2, <2>1 DEF AccountsInv, ChannelsAccounted
<1>3. CASE UNCHANGED <<balance, owners, channels, directory>>
  <2>1. ObjectsAccounted'
    BY <1>1, <1>3, SameObjects
  <2>2. Held' = Held
    BY <1>3 DEF Held
  <2>3. Moved(0)
    BY <1>1, <1>3, <2>2, TotalsAre DEF Moved
  <2> QED BY <2>1, <2>3
<1>4. ASSUME NEW a \in Accounts, NEW d \in Accounts, NEW amount \in Amounts, NEW delay \in Delays,
             NEW cancel \in {0, MaxTime}, PayChanCreate(a, d, amount, delay, cancel)
      PROVE  (\E n \in Int : Moved(n)) /\ ObjectsAccounted'
  <2>1. amount \in Nat /\ amount \in Int
    BY PayChanAssumption
  <2>2. Moved(amount)
    BY <1>1, <1>4, <2>1, CreateMoves
  <2>3. ObjectsAccounted'
    BY <1>1, <1>4, CreateObjects
  <2> QED BY <2>1, <2>2, <2>3
<1>5. ASSUME NEW c \in DOMAIN channels, TouchExpired(c)
      PROVE  (\E n \in Int : Moved(n)) /\ ObjectsAccounted'
  <2>1. Held[c] \in Int /\ Moved(-Held[c])
    BY <1>1, <1>5, TouchMoves
  <2>2. ObjectsAccounted'
    BY <1>1, <1>5, CloseObjects DEF TouchExpired
  <2>3. -Held[c] \in Int
    BY <2>1
  <2> QED BY <2>1, <2>2, <2>3
<1>6. ASSUME NEW c \in DOMAIN channels, NEW a \in Accounts, NEW amount \in Amounts,
             NEW extend \in {0} \cup now .. MaxTime, PayChanFund(a, c, amount, extend)
      PROVE  (\E n \in Int : Moved(n)) /\ ObjectsAccounted'
  <2>1. amount \in Nat /\ amount \in Int
    BY PayChanAssumption
  <2>2. Moved(amount)
    BY <1>1, <1>2, <1>6, <2>1, FundMoves
  <2>3. ObjectsAccounted'
    <3>1. channels[c] \in Channel
      BY <1>1 DEF TypeOK
    <3>2. channels'[c].src = channels[c].src /\ channels'[c].dst = channels[c].dst
      BY <1>6, <3>1 DEF PayChanFund, Channel
    <3>3. /\ DOMAIN channels' = DOMAIN channels /\ UNCHANGED <<owners, directory>>
          /\ \A k \in DOMAIN channels \ {c} : channels'[k] = channels[k]
      BY <1>6 DEF PayChanFund
    <3>4. \A k \in DOMAIN channels : channels'[k].src = channels[k].src /\ channels'[k].dst = channels[k].dst
      BY <3>2, <3>3, Zenon
    <3> QED BY <1>1, <3>3, <3>4, SameObjects
  <2> QED BY <2>1, <2>2, <2>3
<1>7. ASSUME NEW c \in DOMAIN channels, NEW a \in Accounts, NEW req \in {0} \cup Amounts,
             NEW flag \in {"none", "renew", "close"}, PayChanClaim(a, c, req, flag)
      PROVE  (\E n \in Int : Moved(n)) /\ ObjectsAccounted'
  <2>1. req \in Nat
    BY PayChanAssumption
  <2>2. \E n \in Int : Moved(n)
    BY <1>1, <1>2, <1>7, <2>1, ClaimMoves
  <2>3. channels[c] \in Channel
    BY <1>1 DEF TypeOK
  <2> DEFINE paid == IF req = 0 THEN channels[c].paid ELSE req
             bal  == [balance EXCEPT ![channels[c].dst] = @ + paid - channels[c].paid]
             closed == [channels[c] EXCEPT !.paid = paid]
  <2>4. \/ CloseChannel(c, closed, bal)
        \/ \E expire : /\ channels' = [channels EXCEPT ![c].paid = paid, ![c].expiration = expire]
                       /\ UNCHANGED <<owners, directory>>
    BY <1>7, Zenon DEF PayChanClaim
  <2> HIDE DEF paid, bal
  <2>5. CASE CloseChannel(c, closed, bal)
    <3>1. closed.src = channels[c].src /\ closed.dst = channels[c].dst
      BY <2>3 DEF Channel
    <3> HIDE DEF closed
    <3> QED BY <1>1, <2>2, <2>5, <3>1, CloseObjects, Zenon
  <2>6. ASSUME NEW expire, channels' = [channels EXCEPT ![c].paid = paid, ![c].expiration = expire],
               UNCHANGED <<owners, directory>>
        PROVE  (\E n \in Int : Moved(n)) /\ ObjectsAccounted'
    <3>1. channels'[c].src = channels[c].src /\ channels'[c].dst = channels[c].dst
      BY <2>3, <2>6 DEF Channel
    <3>2. /\ DOMAIN channels' = DOMAIN channels
          /\ \A k \in DOMAIN channels \ {c} : channels'[k] = channels[k]
      BY <2>6
    <3>3. \A k \in DOMAIN channels : channels'[k].src = channels[k].src /\ channels'[k].dst = channels[k].dst
      BY <3>1, <3>2, Zenon
    <3> QED BY <1>1, <2>2, <2>6, <3>2, <3>3, SameObjects
  <2> QED BY <2>4, <2>5, <2>6, Zenon
<1>8. CASE LedgerCloses \/ UNCHANGED vars
  BY <1>3, <1>8, Zenon DEF LedgerCloses, ledger, vars
<1>9. ASSUME NEW c \in DOMAIN channels, OnChannel(c)
      PROVE  (\E n \in Int : Moved(n)) /\ ObjectsAccounted'
  <2>1. CASE \E amount \in Amounts : SignClaim(c, amount)
    BY <1>3, <2>1, Zenon DEF SignClaim, ledger
  <2> QED BY <1>5, <1>6, <1>7, <1>9, <2>1, Zenon DEF OnChannel
<1> QED BY <1>4, <1>8, <1>9, Zenon DEF Next

\* PayChanCreate, PayChanFund, PayChanClaim and closeChannel neither make nor
\* lose XRP, and the owner counts and the directories of both ends know
\* exactly the channels there are.
THEOREM BooksBalance == Spec => []ChannelsAccounted
<1>1. AccountsInv => ChannelsAccounted
  BY DEF AccountsInv
<1> QED BY <1>1, InitAccounts, NextAccounts, PTL DEF Spec
============================================================================
