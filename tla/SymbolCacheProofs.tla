------------------------- MODULE SymbolCacheProofs -------------------------
(***************************************************************************)
(* What is proved of SymbolCache for any number of replicas, lookups and   *)
(* changes, any releases and files and any bounds: the accounts of every   *)
(* cache agree; a row has its object unless an upload and a deletion of    *)
(* its file overlapped; and a cache keeps no stale map but of a load that  *)
(* a Forget passed or of another replica's change.                         *)
(***************************************************************************)
EXTENDS SymbolCache, FiniteSetTheorems, SequenceTheorems, WellFoundedInduction,
        TLAPS

LEMMA LeastNatural ==
    ASSUME NEW S, S \subseteq Nat, S # {}
    PROVE  \E x \in S : \A y \in S : x <= y
  <1>1. \E x \in S : \A y \in S : ~ (<<y, x>> \in OpToRel(<, Nat))
    BY NatLessThanWellFounded, WFMin
  <1>2. PICK x \in S : \A y \in S : ~ (<<y, x>> \in OpToRel(<, Nat))
    BY <1>1
  <1>3. \A y \in S : ~(y < x)
    <2>1. \A y \in S : y \in Nat
      OBVIOUS
    <2>2. QED
      BY <1>2, <2>1, Zenon DEF OpToRel
  <1>4. QED
    BY <1>3

-----------------------------------------------------------------------------
(* Folding a sequence from the left.  The fold of the community modules    *)
(* descends from the set of all indices by their maximum; what it computes *)
(* along the prefixes 1..k is the running value of a loop.                 *)

IsFold(f, n, base, step) ==
    f = [s \in SUBSET (1..n) |->
            IF s = {} THEN base ELSE step[<<f[s \ {Max(s)}], Max(s)>>]]

LEMMA MaxOfPrefix ==
    ASSUME NEW k \in Nat, NEW s \in SUBSET (1..(k+1)), k + 1 \in s
    PROVE  Max(s) = k + 1
  <1>1. \A y \in s : k + 1 >= y /\ y \in Nat
    OBVIOUS
  <1>2. \A x \in s : (\A y \in s : x >= y) => x = k + 1
    BY <1>1
  <1>3. QED
    BY <1>1, <1>2 DEF Max

LEMMA FoldStep ==
    ASSUME NEW Acc, NEW base \in Acc, NEW n \in Nat,
           NEW step \in [Acc \X (1..n) -> Acc],
           NEW k \in Nat, k + 1 <= n,
           NEW f \in [SUBSET (1..k) -> Acc], IsFold(f, k, base, step)
    PROVE  \E g \in [SUBSET (1..(k+1)) -> Acc] : IsFold(g, k + 1, base, step)
  <1> DEFINE g == [s \in SUBSET (1..(k+1)) |->
                     IF k + 1 \in s THEN step[<<f[s \ {k + 1}], k + 1>>] ELSE f[s]]
  <1>1. \A s \in SUBSET (1..(k+1)) : s \ {k + 1} \in SUBSET (1..k)
    OBVIOUS
  <1>2. \A s \in SUBSET (1..(k+1)) : k + 1 \notin s => s \in SUBSET (1..k)
    OBVIOUS
  <1>3. \A s \in SUBSET (1..(k+1)) : g[s] \in Acc
    <2> TAKE s \in SUBSET (1..(k+1))
    <2>1. CASE k + 1 \in s
      <3>1. f[s \ {k + 1}] \in Acc
        BY <1>1
      <3>2. <<f[s \ {k + 1}], k + 1>> \in Acc \X (1..n)
        BY <3>1
      <3>3. QED
        BY <2>1, <3>2
    <2>2. CASE k + 1 \notin s
      BY <1>2, <2>2
    <2>3. QED
      BY <2>1, <2>2
  <1>4. ASSUME NEW s \in SUBSET (1..(k+1))
        PROVE  g[s] = IF s = {} THEN base ELSE step[<<g[s \ {Max(s)}], Max(s)>>]
    <2>1. CASE k + 1 \in s
      <3>1. Max(s) = k + 1 /\ s # {}
        BY <2>1, MaxOfPrefix
      <3>2. g[s \ {k + 1}] = f[s \ {k + 1}]
        BY <1>1
      <3>3. QED
        BY <2>1, <3>1, <3>2
    <2>2. CASE k + 1 \notin s
      <3>1. s \in SUBSET (1..k) /\ g[s] = f[s]
        BY <1>2, <2>2
      <3>2. f[s] = IF s = {} THEN base ELSE step[<<f[s \ {Max(s)}], Max(s)>>]
        BY <3>1 DEF IsFold
      <3>3. g[s \ {Max(s)}] = f[s \ {Max(s)}]
        BY <2>2
      <3>4. QED
        BY <3>1, <3>2, <3>3
    <2>3. QED
      BY <2>1, <2>2
  <1>5. g \in [SUBSET (1..(k+1)) -> Acc]
    BY <1>3
  <1>6. IsFold(g, k + 1, base, step)
    <2>1. g = [s \in SUBSET (1..(k+1)) |-> g[s]]
      OBVIOUS
    <2> HIDE DEF g
    <2>2. QED
      BY <1>4, <2>1 DEF IsFold
  <1>7. QED
    BY <1>5, <1>6

LEMMA FoldExists ==
    ASSUME NEW Acc, NEW base \in Acc, NEW n \in Nat,
           NEW step \in [Acc \X (1..n) -> Acc]
    PROVE  \E f \in [SUBSET (1..n) -> Acc] : IsFold(f, n, base, step)
  <1> DEFINE Has(k) == \E f \in [SUBSET (1..k) -> Acc] : IsFold(f, k, base, step)
  <1> DEFINE None == {k \in Nat : k <= n /\ ~Has(k)}
  <1>1. Has(0)
    <2> DEFINE f == [s \in SUBSET (1..0) |-> base]
    <2>1. \A s \in SUBSET (1..0) : s = {}
      OBVIOUS
    <2>2. f \in [SUBSET (1..0) -> Acc]
      OBVIOUS
    <2>3. IsFold(f, 0, base, step)
      BY <2>1 DEF IsFold
    <2>4. QED
      BY <2>2, <2>3
  <1>2. ASSUME NEW k \in Nat, k + 1 <= n, Has(k)
        PROVE  Has(k + 1)
    <2>1. PICK f \in [SUBSET (1..k) -> Acc] : IsFold(f, k, base, step)
      BY <1>2
    <2>2. QED
      BY <1>2, <2>1, FoldStep
  <1> HIDE DEF Has
  <1>3. None = {}
    <2> SUFFICES ASSUME None # {} PROVE FALSE
      OBVIOUS
    <2>1. PICK m \in None : \A k \in None : m <= k
      BY LeastNatural
    <2>2. m \in Nat /\ m # 0 /\ m <= n /\ ~Has(m)
      BY <1>1, <2>1
    <2>3. m - 1 \in Nat /\ (m - 1) + 1 = m /\ ~(m <= m - 1) /\ m - 1 <= n
      BY <2>2
    <2>4. Has(m - 1)
      BY <2>1, <2>3
    <2>5. Has((m - 1) + 1)
      BY <1>2, <2>2, <2>3, <2>4
    <2>6. QED
      BY <2>2, <2>3, <2>5
  <1>4. Has(n)
    BY <1>3
  <1>5. QED
    BY <1>4 DEF Has

LEMMA MaxIsIn ==
    ASSUME NEW n \in Nat, NEW s \in SUBSET (1..n), s # {}
    PROVE  Max(s) \in s
  <1> DEFINE Room == {n - x : x \in s}
  <1>1. Room \subseteq Nat /\ Room # {}
    <2>1. \A x \in s : x \in Nat /\ x <= n
      OBVIOUS
    <2>2. \A x \in s : n - x \in Nat
      BY <2>1
    <2>3. PICK x \in s : TRUE
      OBVIOUS
    <2>4. n - x \in Room
      OBVIOUS
    <2>5. QED
      BY <2>2, <2>4
  <1>2. PICK d \in Room : \A y \in Room : d <= y
    BY <1>1, LeastNatural
  <1>3. PICK x \in s : d = n - x
    BY <1>2
  <1>4. \A y \in s : x >= y
    <2> TAKE y \in s
    <2>1. n - y \in Room /\ x \in Nat /\ y \in Nat
      OBVIOUS
    <2>2. n - x <= n - y
      BY <1>2, <1>3, <2>1
    <2>3. QED
      BY <2>1, <2>2
  <1>5. QED
    BY <1>3, <1>4 DEF Max

LEMMA MaxOfInitial ==
    ASSUME NEW n \in Nat, NEW k \in 1..n
    PROVE  /\ 1..k \in SUBSET (1..n) /\ 1..k # {}
           /\ Max(1..k) = k /\ (1..k) \ {k} = 1..(k-1)
  <1>1. k - 1 \in Nat /\ (k - 1) + 1 = k
    OBVIOUS
  <1>2. 1..k \in SUBSET (1..n) /\ k \in 1..k /\ 1..k # {}
    OBVIOUS
  <1>3. Max(1..k) = k
    BY <1>1, <1>2, MaxOfPrefix
  <1>4. (1..k) \ {k} = 1..(k-1)
    OBVIOUS
  <1>5. QED
    BY <1>2, <1>3, <1>4

LEMMA EntryFields ==
    ASSUME NEW e \in Entry
    PROVE  e.key \in Keys /\ e.map \in Maps /\ e.size \in Nat
  BY DEF Entry

LEMMA EntriesOf ==
    ASSUME NEW q \in Seq(Entry), NEW i \in 1..Len(q)
    PROVE  q[i] \in Entry /\ q[i].key \in Keys /\ q[i].size \in Nat
  <1>1. q[i] \in Entry
    BY ElementOfSeq
  <1>2. QED
    BY <1>1, EntryFields

(* The running total of the sizes.                                         *)
IsTotal(f, q) ==
    /\ f \in [0..Len(q) -> Nat]
    /\ f[0] = 0
    /\ \A k \in 1..Len(q) : f[k] = f[k-1] + q[k].size

SizeTable(f, q) ==
    f = [s \in SUBSET (DOMAIN q) |->
            IF s = {} THEN 0 ELSE f[s \ {Max(s)}] + q[Max(s)].size]

LEMMA SizeTableExists ==
    ASSUME NEW q \in Seq(Entry)
    PROVE  \E f : SizeTable(f, q)
  <1> DEFINE n == Len(q)
  <1> DEFINE step == [p \in Nat \X (1..n) |-> p[1] + q[p[2]].size]
  <1>1. n \in Nat /\ DOMAIN q = 1..n
    BY LenProperties
  <1>2. \A i \in 1..n : q[i].size \in Nat
    BY EntriesOf
  <1>3. step \in [Nat \X (1..n) -> Nat]
    BY <1>2
  <1>4. PICK f \in [SUBSET (1..n) -> Nat] : IsFold(f, n, 0, step)
    <2> HIDE DEF step
    <2>1. QED
      BY <1>1, <1>3, FoldExists
  <1>5. ASSUME NEW s \in SUBSET (1..n), s # {}
        PROVE  f[s] = f[s \ {Max(s)}] + q[Max(s)].size
    <2>1. Max(s) \in s
      BY <1>1, <1>5, MaxIsIn
    <2>2. f[s] = step[<<f[s \ {Max(s)}], Max(s)>>]
      <3> HIDE DEF step
      <3>1. QED
        BY <1>4, <1>5, Zenon DEF IsFold
    <2>3. f[s \ {Max(s)}] \in Nat
      BY <1>4
    <2>4. QED
      BY <2>1, <2>2, <2>3
  <1>6. f[{}] = 0
    <2> HIDE DEF step
    <2>1. {} \in SUBSET (1..n)
      OBVIOUS
    <2>2. QED
      BY <1>4, <2>1, Zenon DEF IsFold
  <1>7. SizeTable(f, q)
    <2>1. f = [s \in SUBSET (1..n) |-> f[s]]
      BY <1>4
    <2>2. QED
      BY <1>1, <1>5, <1>6, <2>1 DEF SizeTable
  <1>8. QED
    BY <1>7

LEMMA SizeTotals ==
    ASSUME NEW q \in Seq(Entry)
    PROVE  \E f : IsTotal(f, q) /\ Size(q) = f[Len(q)]
  <1> DEFINE n == Len(q)
  <1> DEFINE t == CHOOSE t : SizeTable(t, q)
  <1>1. n \in Nat /\ DOMAIN q = 1..n
    BY LenProperties
  <1>2. \A i \in 1..n : q[i].size \in Nat
    BY EntriesOf
  <1>3. Size(q) = t[1..n]
    BY <1>1, Zenon DEF Size, FoldLeft, MapThenFoldSet, SizeTable
  <1>4. SizeTable(t, q)
    BY SizeTableExists
  <1> HIDE DEF t
  <1>5. \A s \in SUBSET (1..n) :
           t[s] = IF s = {} THEN 0 ELSE t[s \ {Max(s)}] + q[Max(s)].size
    BY <1>1, <1>4, Zenon DEF SizeTable
  <1>6. t[1..0] = 0
    <2>1. 1..0 = {} /\ {} \in SUBSET (1..n)
      OBVIOUS
    <2>2. QED
      BY <1>5, <2>1
  <1>7. \A k \in 1..n : t[1..k] = t[1..(k-1)] + q[k].size
    <2> TAKE k \in 1..n
    <2>1. t[1..k] = t[(1..k) \ {Max(1..k)}] + q[Max(1..k)].size
      BY <1>1, <1>5, MaxOfInitial, Zenon
    <2>2. QED
      BY <1>1, <2>1, MaxOfInitial, Zenon
  <1>8. \A k \in 0..n : t[1..k] \in Nat
    <2> DEFINE Bad == {k \in Nat : k <= n /\ t[1..k] \notin Nat}
    <2>1. Bad = {}
      <3> SUFFICES ASSUME Bad # {} PROVE FALSE
        OBVIOUS
      <3>1. PICK m \in Bad : \A k \in Bad : m <= k
        BY LeastNatural
      <3>2. m \in 1..n /\ m - 1 \in Nat /\ m - 1 <= n
        BY <1>1, <1>6, <3>1
      <3>3. t[1..(m-1)] \in Nat
        BY <3>1, <3>2
      <3>4. QED
        BY <1>2, <1>7, <3>1, <3>2, <3>3
    <2>2. QED
      BY <1>1, <2>1
  <1> DEFINE f == [k \in 0..n |-> t[1..k]]
  <1>9. IsTotal(f, q)
    <2>1. f \in [0..n -> Nat]
      BY <1>8
    <2>2. f[0] = 0
      BY <1>1, <1>6
    <2>3. \A k \in 1..n : f[k] = f[k-1] + q[k].size
      BY <1>1, <1>7
    <2>4. QED
      BY <2>1, <2>2, <2>3 DEF IsTotal
  <1>10. Size(q) = f[n]
    BY <1>1, <1>3
  <1>11. QED
    BY <1>9, <1>10

LEMMA TotalsAgree ==
    ASSUME NEW q \in Seq(Entry), NEW f, NEW g, IsTotal(f, q), IsTotal(g, q),
           NEW n \in 0..Len(q)
    PROVE  f[n] = g[n]
  <1> DEFINE Bad == {k \in Nat : k <= Len(q) /\ f[k] # g[k]}
  <1>1. Len(q) \in Nat
    BY LenProperties
  <1>2. Bad = {}
    <2> SUFFICES ASSUME Bad # {} PROVE FALSE
      OBVIOUS
    <2>1. PICK m \in Bad : \A k \in Bad : m <= k
      BY LeastNatural
    <2>2. m \in 1..Len(q) /\ m - 1 \in Nat /\ m - 1 <= Len(q)
      BY <1>1, <2>1 DEF IsTotal
    <2>3. f[m-1] = g[m-1]
      BY <2>1, <2>2
    <2>4. QED
      BY <2>1, <2>2, <2>3 DEF IsTotal
  <1>3. QED
    BY <1>1, <1>2

LEMMA SizeIsTotal ==
    ASSUME NEW q \in Seq(Entry), NEW f, IsTotal(f, q)
    PROVE  Size(q) = f[Len(q)] /\ Size(q) \in Nat
  <1>1. PICK g : IsTotal(g, q) /\ Size(q) = g[Len(q)]
    BY SizeTotals
  <1>2. Len(q) \in 0..Len(q)
    BY LenProperties
  <1>3. f[Len(q)] = g[Len(q)]
    BY <1>1, <1>2, TotalsAgree
  <1>4. QED
    BY <1>1, <1>2, <1>3 DEF IsTotal

LEMMA SizeIsNat ==
    ASSUME NEW q \in Seq(Entry)
    PROVE  Size(q) \in Nat
  BY SizeTotals, SizeIsTotal

LEMMA SizeEmpty == Size(<<>>) = 0
  <1>1. <<>> \in Seq(Entry) /\ Len(<<>>) = 0
    BY EmptySeq
  <1>2. PICK f : IsTotal(f, <<>>) /\ Size(<<>>) = f[Len(<<>>)]
    BY <1>1, SizeTotals
  <1>3. QED
    BY <1>1, <1>2 DEF IsTotal

LEMMA SizeConcat ==
    ASSUME NEW p \in Seq(Entry), NEW q \in Seq(Entry)
    PROVE  Size(p \o q) = Size(p) + Size(q)
  <1>1. PICK f : IsTotal(f, p) /\ Size(p) = f[Len(p)]
    BY SizeTotals
  <1>2. PICK g : IsTotal(g, q) /\ Size(q) = g[Len(q)]
    BY SizeTotals
  <1> DEFINE m == Len(p)
  <1> DEFINE n == Len(q)
  <1>3. m \in Nat /\ n \in Nat
    BY LenProperties
  <1>4. /\ p \o q \in Seq(Entry) /\ Len(p \o q) = m + n
        /\ \A i \in 1..(m + n) : (p \o q)[i] = IF i <= m THEN p[i] ELSE q[i - m]
    BY ConcatProperties
  <1> DEFINE h == [k \in 0..(m + n) |-> IF k <= m THEN f[k] ELSE f[m] + g[k - m]]
  <1>5. f \in [0..m -> Nat] /\ g \in [0..n -> Nat] /\ f[0] = 0 /\ g[0] = 0
    BY <1>1, <1>2 DEF IsTotal
  <1>6. h \in [0..(m + n) -> Nat]
    <2>1. \A k \in 0..(m + n) : k <= m => k \in 0..m
      BY <1>3
    <2>2. \A k \in 0..(m + n) : ~(k <= m) => k - m \in 0..n
      BY <1>3
    <2>3. m \in 0..m
      BY <1>3
    <2>4. \A k \in 0..(m + n) : (IF k <= m THEN f[k] ELSE f[m] + g[k - m]) \in Nat
      <3> TAKE k \in 0..(m + n)
      <3>1. CASE k <= m
        BY <1>5, <2>1, <3>1
      <3>2. CASE ~(k <= m)
        <4>1. f[m] \in Nat /\ g[k - m] \in Nat
          BY <1>5, <2>2, <2>3, <3>2
        <4>2. QED
          BY <3>2, <4>1
      <3>3. QED
        BY <3>1, <3>2
    <2>5. QED
      BY <2>4
  <1>7. h[0] = 0
    BY <1>3, <1>5
  <1>8. ASSUME NEW k \in 1..(m + n)
        PROVE  h[k] = h[k-1] + (p \o q)[k].size
    <2>1. CASE k <= m
      <3>1. f[k] = f[k-1] + p[k].size
        BY <1>1, <1>3, <2>1 DEF IsTotal
      <3>2. h[k] = f[k] /\ h[k-1] = f[k-1] /\ (p \o q)[k] = p[k]
        BY <1>3, <1>4, <2>1
      <3>3. QED
        BY <3>1, <3>2
    <2>2. CASE k > m
      <3>1. k - m \in 1..n /\ (k - 1) - m = (k - m) - 1 /\ (k - m) - 1 \in 0..n
        BY <1>3, <2>2
      <3>2. g[k - m] = g[(k - m) - 1] + q[k - m].size
        BY <1>2, <3>1 DEF IsTotal
      <3>3. h[k] = f[m] + g[k - m] /\ (p \o q)[k] = q[k - m]
        BY <1>3, <1>4, <2>2
      <3>4. h[k-1] = f[m] + g[(k - m) - 1]
        <4>1. CASE k - 1 = m
          <5>1. (k - m) - 1 = 0 /\ h[k-1] = f[m]
            BY <1>3, <4>1
          <5>2. f[m] \in Nat
            BY <1>3, <1>5, SMTT(30)
          <5>3. g[(k - m) - 1] = 0
            BY <1>5, <5>1
          <5>4. QED
            BY <5>1, <5>2, <5>3
        <4>2. CASE k - 1 # m
          <5>1. ~(k - 1 <= m) /\ k - 1 \in 0..(m + n)
            BY <1>3, <2>2, <4>2
          <5>2. h[k-1] = f[m] + g[(k - 1) - m]
            BY <5>1
          <5>3. QED
            BY <3>1, <5>2
        <4>3. QED
          BY <4>1, <4>2
      <3>5. q[k - m].size \in Nat /\ g[(k - m) - 1] \in Nat /\ f[m] \in Nat
        <4>1. q[k - m].size \in Nat
          <5> HIDE DEF m
          <5>1. QED
            BY <3>1, EntriesOf
        <4>2. m \in 0..m
          BY <1>3
        <4>3. QED
          BY <1>5, <3>1, <4>1, <4>2
      <3>6. QED
        BY <3>2, <3>3, <3>4, <3>5
    <2>3. QED
      BY <1>3, <2>1, <2>2
  <1>9. IsTotal(h, p \o q)
    <2> HIDE DEF h
    <2>1. QED
      BY <1>4, <1>6, <1>7, <1>8 DEF IsTotal
  <1>10. Size(p \o q) = h[m + n]
    <2> HIDE DEF h
    <2>1. QED
      BY <1>4, <1>9, SizeIsTotal
  <1>11. h[m + n] = f[m] + g[n]
    <2>1. CASE n = 0
      BY <1>3, <1>5, <2>1
    <2>2. CASE n # 0
      <3>1. ~(m + n <= m) /\ m + n \in 0..(m + n) /\ (m + n) - m = n
        BY <1>3, <2>2
      <3>2. QED
        BY <3>1
    <2>3. QED
      BY <2>1, <2>2
  <1>12. QED
    BY <1>1, <1>2, <1>10, <1>11

LEMMA SizeOne ==
    ASSUME NEW e \in Entry
    PROVE  <<e>> \in Seq(Entry) /\ Len(<<e>>) = 1 /\ Size(<<e>>) = e.size
  <1>1. <<e>> \in Seq(Entry) /\ Len(<<e>>) = 1 /\ <<e>>[1] = e
    OBVIOUS
  <1>2. PICK f : IsTotal(f, <<e>>) /\ Size(<<e>>) = f[Len(<<e>>)]
    BY <1>1, SizeTotals
  <1>3. f[1] = f[0] + e.size /\ f[0] = 0
    BY <1>1, <1>2 DEF IsTotal
  <1>4. QED
    BY <1>1, <1>2, <1>3, EntryFields

LEMMA SizeAppend ==
    ASSUME NEW q \in Seq(Entry), NEW e \in Entry
    PROVE  Size(Append(q, e)) = Size(q) + e.size
  <1>1. Append(q, e) = q \o <<e>>
    BY AppendIsConcat
  <1>2. QED
    BY <1>1, SizeOne, SizeConcat

(* Cut in two, a list of entries keeps its size.                           *)
LEMMA SizeSplit ==
    ASSUME NEW q \in Seq(Entry), NEW n \in 0..Len(q)
    PROVE  /\ SubSeq(q, 1, n) \in Seq(Entry) /\ SubSeq(q, n + 1, Len(q)) \in Seq(Entry)
           /\ q = SubSeq(q, 1, n) \o SubSeq(q, n + 1, Len(q))
           /\ Size(q) = Size(SubSeq(q, 1, n)) + Size(SubSeq(q, n + 1, Len(q)))
  <1>1. Len(q) \in Nat /\ n \in Nat
    BY LenProperties
  <1>2. SubSeq(q, 1, n) \in Seq(Entry) /\ SubSeq(q, n + 1, Len(q)) \in Seq(Entry)
    BY <1>1, SubSeqProperties
  <1>3. q = SubSeq(q, 1, n) \o SubSeq(q, n + 1, Len(q))
    <2>1. 1 \in 1..(Len(q) + 1) /\ n \in (1-1)..Len(q) /\ Len(q) \in n..Len(q)
      BY <1>1
    <2>2. SubSeq(q, 1, n) \o SubSeq(q, n + 1, Len(q)) = SubSeq(q, 1, Len(q))
      BY <2>1, ConcatAdjacentSubSeq
    <2>3. QED
      BY <2>2, SubSeqFull
  <1>4. QED
    BY <1>2, <1>3, SizeConcat

-----------------------------------------------------------------------------
(* Part keeps the entries of one side, in their order.                     *)

Chosen(e, release, goes) == OfRelease(e.key, release) = goes

IsParting(f, q, release, goes) ==
    /\ f \in [0..Len(q) -> Seq(Entry)]
    /\ f[0] = <<>>
    /\ \A k \in 1..Len(q) :
         f[k] = IF Chosen(q[k], release, goes) THEN Append(f[k-1], q[k]) ELSE f[k-1]

PartTable(f, q, release, goes) ==
    f = [s \in SUBSET (DOMAIN q) |->
            IF s = {} THEN <<>>
            ELSE IF OfRelease(q[Max(s)].key, release) = goes
                 THEN Append(f[s \ {Max(s)}], q[Max(s)]) ELSE f[s \ {Max(s)}]]

LEMMA PartTableExists ==
    ASSUME NEW q \in Seq(Entry), NEW release, NEW goes
    PROVE  \E f : PartTable(f, q, release, goes)
  <1> DEFINE n == Len(q)
  <1> DEFINE step == [p \in Seq(Entry) \X (1..n) |->
                        IF OfRelease(q[p[2]].key, release) = goes
                        THEN Append(p[1], q[p[2]]) ELSE p[1]]
  <1>1. n \in Nat /\ DOMAIN q = 1..n
    BY LenProperties
  <1>2. step \in [Seq(Entry) \X (1..n) -> Seq(Entry)]
    <2>1. \A p \in Seq(Entry) \X (1..n) : q[p[2]] \in Entry /\ p[1] \in Seq(Entry)
      BY EntriesOf
    <2>2. \A p \in Seq(Entry) \X (1..n) : Append(p[1], q[p[2]]) \in Seq(Entry)
      BY <2>1, AppendProperties
    <2>3. QED
      BY <2>1, <2>2
  <1>3. PICK f \in [SUBSET (1..n) -> Seq(Entry)] : IsFold(f, n, <<>>, step)
    <2> HIDE DEF step
    <2>1. <<>> \in Seq(Entry)
      BY EmptySeq
    <2>2. QED
      BY <1>1, <1>2, <2>1, FoldExists
  <1>4. ASSUME NEW s \in SUBSET (1..n), s # {}
        PROVE  f[s] = IF OfRelease(q[Max(s)].key, release) = goes
                      THEN Append(f[s \ {Max(s)}], q[Max(s)]) ELSE f[s \ {Max(s)}]
    <2>1. Max(s) \in s
      BY <1>1, <1>4, MaxIsIn
    <2>2. f[s] = step[<<f[s \ {Max(s)}], Max(s)>>]
      <3> HIDE DEF step
      <3>1. QED
        BY <1>3, <1>4, Zenon DEF IsFold
    <2>3. <<f[s \ {Max(s)}], Max(s)>> \in Seq(Entry) \X (1..n)
      BY <1>3, <2>1
    <2>4. QED
      BY <2>2, <2>3
  <1>5. f[{}] = <<>>
    <2> HIDE DEF step
    <2>1. {} \in SUBSET (1..n)
      OBVIOUS
    <2>2. QED
      BY <1>3, <2>1, Zenon DEF IsFold
  <1>6. PartTable(f, q, release, goes)
    <2>1. f = [s \in SUBSET (1..n) |-> f[s]]
      BY <1>3
    <2> HIDE DEF step
    <2>2. QED
      BY <1>1, <1>4, <1>5, <2>1 DEF PartTable
  <1>7. QED
    BY <1>6

LEMMA PartIsParting ==
    ASSUME NEW q \in Seq(Entry), NEW release, NEW goes
    PROVE  \E f : IsParting(f, q, release, goes) /\ Part(q, release, goes) = f[Len(q)]
  <1> DEFINE n == Len(q)
  <1> DEFINE t == CHOOSE t : PartTable(t, q, release, goes)
  <1>1. n \in Nat /\ DOMAIN q = 1..n
    BY LenProperties
  <1>2. Part(q, release, goes) = t[1..n]
    BY <1>1, Zenon DEF Part, FoldLeft, MapThenFoldSet, PartTable
  <1>3. PartTable(t, q, release, goes)
    BY PartTableExists
  <1> HIDE DEF t
  <1>4. \A s \in SUBSET (1..n) :
           t[s] = IF s = {} THEN <<>>
                  ELSE IF OfRelease(q[Max(s)].key, release) = goes
                       THEN Append(t[s \ {Max(s)}], q[Max(s)]) ELSE t[s \ {Max(s)}]
    BY <1>1, <1>3, Zenon DEF PartTable
  <1>5. t[1..0] = <<>>
    <2>1. 1..0 = {} /\ {} \in SUBSET (1..n)
      OBVIOUS
    <2>2. QED
      BY <1>4, <2>1
  <1>6. \A k \in 1..n :
           t[1..k] = IF Chosen(q[k], release, goes)
                     THEN Append(t[1..(k-1)], q[k]) ELSE t[1..(k-1)]
    <2> TAKE k \in 1..n
    <2>1. 1..k \in SUBSET (1..n) /\ 1..k # {} /\ Max(1..k) = k /\ (1..k) \ {k} = 1..(k-1)
      BY <1>1, MaxOfInitial
    <2>2. t[1..k] = IF OfRelease(q[Max(1..k)].key, release) = goes
                    THEN Append(t[(1..k) \ {Max(1..k)}], q[Max(1..k)])
                    ELSE t[(1..k) \ {Max(1..k)}]
      BY <1>4, <2>1, Zenon
    <2>3. QED
      BY <2>1, <2>2, Zenon DEF Chosen
  <1>7. \A k \in 0..n : t[1..k] \in Seq(Entry)
    <2> DEFINE Bad == {k \in Nat : k <= n /\ t[1..k] \notin Seq(Entry)}
    <2>1. Bad = {}
      <3> SUFFICES ASSUME Bad # {} PROVE FALSE
        OBVIOUS
      <3>1. PICK m \in Bad : \A k \in Bad : m <= k
        BY LeastNatural
      <3>2. m \in 1..n /\ m - 1 \in Nat /\ m - 1 <= n
        <4>1. t[1..0] \in Seq(Entry)
          BY <1>5, EmptySeq
        <4>2. m # 0
          BY <3>1, <4>1
        <4>3. QED
          BY <1>1, <3>1, <4>2
      <3>3. t[1..(m-1)] \in Seq(Entry)
        BY <3>1, <3>2
      <3>4. q[m] \in Entry
        BY <3>2, EntriesOf
      <3>5. Append(t[1..(m-1)], q[m]) \in Seq(Entry)
        BY <3>3, <3>4, AppendProperties
      <3>6. t[1..m] \in Seq(Entry)
        BY <1>6, <3>2, <3>3, <3>5
      <3>7. QED
        BY <3>1, <3>6
    <2>2. QED
      BY <1>1, <2>1
  <1> DEFINE f == [k \in 0..n |-> t[1..k]]
  <1>8. IsParting(f, q, release, goes)
    <2>1. f \in [0..n -> Seq(Entry)]
      BY <1>7
    <2>2. f[0] = <<>>
      BY <1>1, <1>5
    <2>3. \A k \in 1..n : f[k] = IF Chosen(q[k], release, goes)
                                THEN Append(f[k-1], q[k]) ELSE f[k-1]
      BY <1>1, <1>6
    <2>4. QED
      BY <2>1, <2>2, <2>3 DEF IsParting
  <1>9. Part(q, release, goes) = f[n]
    BY <1>1, <1>2
  <1>10. QED
    BY <1>8, <1>9

(* What a list is parted into has the sizes of the list, and the keys are  *)
(* those on each side, once each if they were.                             *)
LEMMA PartSizes ==
    ASSUME NEW q \in Seq(Entry), NEW release
    PROVE  Size(q) = Size(Part(q, release, FALSE)) + Size(Part(q, release, TRUE))
  <1> DEFINE n == Len(q)
  <1>1. PICK f : IsParting(f, q, release, FALSE) /\ Part(q, release, FALSE) = f[n]
    BY PartIsParting
  <1>2. PICK g : IsParting(g, q, release, TRUE) /\ Part(q, release, TRUE) = g[n]
    BY PartIsParting
  <1>3. PICK h : IsTotal(h, q) /\ Size(q) = h[n]
    BY SizeTotals
  <1>4. n \in Nat
    BY LenProperties
  <1> DEFINE Bad == {k \in Nat : k <= n /\ h[k] # Size(f[k]) + Size(g[k])}
  <1>5. Bad = {}
    <2> SUFFICES ASSUME Bad # {} PROVE FALSE
      OBVIOUS
    <2>1. PICK m \in Bad : \A k \in Bad : m <= k
      BY LeastNatural
    <2>2. m # 0
      BY <1>1, <1>2, <1>3, SizeEmpty DEF IsParting, IsTotal
    <2>3. m \in 1..n /\ m - 1 \in 0..n /\ m - 1 \in Nat /\ m - 1 <= n
      BY <1>4, <2>1, <2>2
    <2>4. h[m-1] = Size(f[m-1]) + Size(g[m-1])
      BY <2>1, <2>3
    <2>5. f[m-1] \in Seq(Entry) /\ g[m-1] \in Seq(Entry) /\ q[m] \in Entry
      <3>1. q[m] \in Entry
        BY <2>3, EntriesOf
      <3>2. QED
        BY <1>1, <1>2, <2>3, <3>1 DEF IsParting
    <2>6. /\ Size(f[m-1]) \in Nat /\ Size(g[m-1]) \in Nat /\ q[m].size \in Nat
          /\ Size(Append(f[m-1], q[m])) = Size(f[m-1]) + q[m].size
          /\ Size(Append(g[m-1], q[m])) = Size(g[m-1]) + q[m].size
      BY <2>5, SizeIsNat, SizeAppend, EntryFields
    <2>7. h[m] = h[m-1] + q[m].size
      BY <1>3, <2>3 DEF IsTotal
    <2>8. \/ f[m] = Append(f[m-1], q[m]) /\ g[m] = g[m-1]
          \/ f[m] = f[m-1] /\ g[m] = Append(g[m-1], q[m])
      <3>1. OfRelease(q[m].key, release) \in BOOLEAN
        BY DEF OfRelease
      <3>2. /\ f[m] = IF Chosen(q[m], release, FALSE) THEN Append(f[m-1], q[m]) ELSE f[m-1]
            /\ g[m] = IF Chosen(q[m], release, TRUE) THEN Append(g[m-1], q[m]) ELSE g[m-1]
        BY <1>1, <1>2, <2>3 DEF IsParting
      <3>3. Chosen(q[m], release, FALSE) <=> ~Chosen(q[m], release, TRUE)
        BY <3>1, Zenon DEF Chosen
      <3>4. QED
        BY <3>2, <3>3, Zenon
    <2>9. h[m] = Size(f[m]) + Size(g[m])
      <3>1. CASE f[m] = Append(f[m-1], q[m]) /\ g[m] = g[m-1]
        <4>1. Size(f[m]) = Size(f[m-1]) + q[m].size /\ Size(g[m]) = Size(g[m-1])
          BY <2>6, <3>1
        <4>2. QED
          BY <2>4, <2>6, <2>7, <4>1
      <3>2. CASE f[m] = f[m-1] /\ g[m] = Append(g[m-1], q[m])
        <4>1. Size(f[m]) = Size(f[m-1]) /\ Size(g[m]) = Size(g[m-1]) + q[m].size
          BY <2>6, <3>2
        <4>2. QED
          BY <2>4, <2>6, <2>7, <4>1
      <3>3. QED
        BY <2>8, <3>1, <3>2
    <2>10. QED
      BY <2>1, <2>9
  <1>6. h[n] = Size(f[n]) + Size(g[n])
    BY <1>4, <1>5
  <1>7. QED
    BY <1>1, <1>2, <1>3, <1>6

Distinct(q) == \A i, j \in 1..Len(q) : q[i].key = q[j].key => i = j

LEMMA PartElements ==
    ASSUME NEW q \in Seq(Entry), NEW release
    PROVE  /\ Part(q, release, FALSE) \in Seq(Entry)
           /\ Part(q, release, TRUE) \in Seq(Entry)
           /\ ToSet(Part(q, release, FALSE)) = {e \in ToSet(q) : ~OfRelease(e.key, release)}
           /\ Distinct(q) => Distinct(Part(q, release, FALSE))
           /\ Len(Part(q, release, FALSE)) <= Len(q)
  <1> DEFINE n == Len(q)
  <1> DEFINE Side(k) == {q[i] : i \in {j \in 1..k : ~OfRelease(q[j].key, release)}}
  <1>1. PICK f : IsParting(f, q, release, FALSE) /\ Part(q, release, FALSE) = f[n]
    BY PartIsParting
  <1>2. PICK g : IsParting(g, q, release, TRUE) /\ Part(q, release, TRUE) = g[n]
    BY PartIsParting
  <1>3. n \in Nat /\ DOMAIN q = 1..n
    BY LenProperties
  <1> DEFINE Good(k) ==
        /\ \A x \in 1..Len(f[k]) : f[k][x] \in Side(k)
        /\ \A e \in Side(k) : \E x \in 1..Len(f[k]) : f[k][x] = e
        /\ Distinct(q) => Distinct(f[k])
        /\ Len(f[k]) <= k
  <1>4. Good(0)
    <2>1. f[0] = <<>> /\ Len(<<>>) = 0 /\ Side(0) = {}
      BY <1>1, EmptySeq DEF IsParting
    <2>2. QED
      BY <2>1 DEF Distinct
  <1>5. ASSUME NEW m \in 1..n, Good(m - 1)
        PROVE  Good(m)
    <2>1. m - 1 \in 0..n /\ m \in Nat /\ 1..m = (1..(m-1)) \cup {m} /\ m \notin 1..(m-1)
      BY <1>3
    <2>2. f[m-1] \in Seq(Entry) /\ q[m] \in Entry
      <3>1. q[m] \in Entry
        BY EntriesOf
      <3>2. QED
        BY <1>1, <2>1, <3>1 DEF IsParting
    <2>3. f[m] = IF Chosen(q[m], release, FALSE) THEN Append(f[m-1], q[m]) ELSE f[m-1]
      BY <1>1 DEF IsParting
    <2>4. CASE OfRelease(q[m].key, release)
      <3>1. f[m] = f[m-1]
        BY <2>3, <2>4 DEF Chosen
      <3>2. Side(m) = Side(m - 1)
        BY <2>1, <2>4
      <3>3. Len(f[m]) \in Nat /\ Len(f[m]) <= m
        BY <1>5, <2>1, <2>2, <3>1, LenProperties
      <3> HIDE DEF Side
      <3>4. QED
        BY <1>5, <3>1, <3>2, <3>3
    <2>5. CASE ~OfRelease(q[m].key, release)
      <3>1. Chosen(q[m], release, FALSE)
        <4>1. OfRelease(q[m].key, release) \in BOOLEAN
          BY DEF OfRelease
        <4>2. QED
          BY <2>5, <4>1, Zenon DEF Chosen
      <3>2. f[m] = Append(f[m-1], q[m])
        BY <2>3, <3>1
      <3>3. Side(m) = Side(m - 1) \cup {q[m]}
        BY <2>1, <2>5
      <3>4. /\ Len(f[m-1]) \in Nat /\ Len(f[m]) = Len(f[m-1]) + 1
            /\ \A x \in 1..Len(f[m-1]) : f[m][x] = f[m-1][x]
            /\ f[m][Len(f[m-1]) + 1] = q[m]
        BY <2>2, <3>2, AppendProperties, LenProperties
      <3>5. Distinct(q) => Distinct(f[m])
        <4> SUFFICES ASSUME Distinct(q),
                            NEW i \in 1..Len(f[m]), NEW j \in 1..Len(f[m]),
                            f[m][i].key = f[m][j].key
                     PROVE  i = j
          BY DEF Distinct
        <4>1. ASSUME NEW x \in 1..Len(f[m-1])
              PROVE  f[m-1][x].key # q[m].key
          <5>1. PICK y \in 1..(m-1) : f[m-1][x] = q[y]
            BY <1>5
          <5>2. y \in 1..n /\ y # m
            BY <1>3, <5>1
          <5>3. QED
            BY <5>1, <5>2 DEF Distinct
        <4>2. CASE i \in 1..Len(f[m-1]) /\ j \in 1..Len(f[m-1])
          BY <1>5, <3>4, <4>2 DEF Distinct
        <4>3. CASE i = Len(f[m-1]) + 1 /\ j \in 1..Len(f[m-1])
          BY <3>4, <4>1, <4>3
        <4>4. CASE j = Len(f[m-1]) + 1 /\ i \in 1..Len(f[m-1])
          BY <3>4, <4>1, <4>4
        <4>5. CASE i = Len(f[m-1]) + 1 /\ j = Len(f[m-1]) + 1
          BY <4>5
        <4>6. /\ i \in 1..Len(f[m-1]) \/ i = Len(f[m-1]) + 1
              /\ j \in 1..Len(f[m-1]) \/ j = Len(f[m-1]) + 1
          BY <3>4
        <4>7. QED
          BY <4>2, <4>3, <4>4, <4>5, <4>6
      <3> HIDE DEF Side
      <3>6. \A x \in 1..Len(f[m]) : f[m][x] \in Side(m)
        <4> TAKE x \in 1..Len(f[m])
        <4>1. CASE x \in 1..Len(f[m-1])
          BY <1>5, <3>3, <3>4, <4>1
        <4>2. CASE x = Len(f[m-1]) + 1
          BY <3>3, <3>4, <4>2
        <4>3. QED
          BY <3>4, <4>1, <4>2
      <3>7. \A e \in Side(m) : \E x \in 1..Len(f[m]) : f[m][x] = e
        <4> TAKE e \in Side(m)
        <4>1. CASE e \in Side(m - 1)
          <5>1. PICK x \in 1..Len(f[m-1]) : f[m-1][x] = e
            BY <1>5, <4>1
          <5>2. x \in 1..Len(f[m]) /\ f[m][x] = e
            BY <3>4, <5>1
          <5>3. QED
            BY <5>2
        <4>2. CASE e = q[m]
          <5>1. Len(f[m-1]) + 1 \in 1..Len(f[m])
            BY <3>4
          <5>2. QED
            BY <3>4, <4>2, <5>1
        <4>3. QED
          BY <3>3, <4>1, <4>2
      <3>8. Len(f[m]) <= m
        BY <1>5, <2>1, <3>4
      <3>9. QED
        BY <3>5, <3>6, <3>7, <3>8
    <2>6. QED
      BY <2>4, <2>5
  <1> HIDE DEF Good
  <1>6. Good(n)
    <2> DEFINE Bad == {k \in Nat : k <= n /\ ~Good(k)}
    <2>1. Bad = {}
      <3> SUFFICES ASSUME Bad # {} PROVE FALSE
        OBVIOUS
      <3>1. PICK m \in Bad : \A k \in Bad : m <= k
        BY LeastNatural
      <3>2. m # 0 /\ m \in Nat /\ m <= n
        BY <1>4, <3>1
      <3>3. m \in 1..n /\ m - 1 \in Nat /\ m - 1 <= n /\ ~(m <= m - 1)
        BY <1>3, <3>2
      <3>4. Good(m - 1)
        BY <3>1, <3>3
      <3>5. QED
        BY <1>5, <3>1, <3>3, <3>4
    <2>2. QED
      BY <1>3, <2>1
  <1>7. f[n] \in Seq(Entry) /\ g[n] \in Seq(Entry)
    BY <1>1, <1>2, <1>3 DEF IsParting
  <1>8. ToSet(f[n]) = {e \in ToSet(q) : ~OfRelease(e.key, release)}
    <2>1. DOMAIN f[n] = 1..Len(f[n])
      BY <1>7, LenProperties
    <2>2. Side(n) = {e \in ToSet(q) : ~OfRelease(e.key, release)}
      BY <1>3 DEF ToSet
    <2>3. ToSet(f[n]) = Side(n)
      <3> HIDE DEF Side
      <3>1. QED
        BY <1>6, <2>1 DEF Good, ToSet
    <2>4. QED
      BY <2>2, <2>3
  <1>9. QED
    BY <1>1, <1>2, <1>6, <1>7, <1>8 DEF Good

-----------------------------------------------------------------------------
(* What the three operations make of one replica's list.                   *)

KeysOf(q) == {e.key : e \in ToSet(q)}

LEMMA ToFrontProperties ==
    ASSUME NEW q \in Seq(Entry), Distinct(q), NEW key \in KeysOf(q)
    PROVE  /\ ToFront(q, key) \in Seq(Entry)
           /\ Len(ToFront(q, key)) = Len(q)
           /\ ToSet(ToFront(q, key)) = ToSet(q)
           /\ Distinct(ToFront(q, key))
           /\ Size(ToFront(q, key)) = Size(q)
  <1> DEFINE L == Len(q)
  <1> DEFINE n == CHOOSE n \in DOMAIN q : q[n].key = key
  <1>1. L \in Nat /\ DOMAIN q = 1..L
    BY LenProperties
  <1>2. n \in 1..L /\ q[n].key = key
    <2>1. \E i \in DOMAIN q : q[i].key = key
      BY DEF KeysOf, ToSet
    <2>2. QED
      BY <1>1, <2>1
  <1> DEFINE a == SubSeq(q, 1, n - 1)
  <1> DEFINE b == SubSeq(q, n + 1, L)
  <1>3. ToFront(q, key) = <<q[n]>> \o (a \o b)
    BY DEF ToFront, RemoveAt
  <1> HIDE DEF n
  <1>4. q[n] \in Entry
    BY <1>2, EntriesOf
  <1>5. n - 1 \in 0..L /\ n \in 0..L /\ (n - 1) + 1 = n /\ n \in Nat
    BY <1>1, <1>2
  <1>6. /\ a \in Seq(Entry) /\ SubSeq(q, n, L) \in Seq(Entry)
        /\ Size(q) = Size(a) + Size(SubSeq(q, n, L))
    <2>1. /\ SubSeq(q, 1, n - 1) \in Seq(Entry)
          /\ SubSeq(q, (n - 1) + 1, Len(q)) \in Seq(Entry)
          /\ Size(q) = Size(SubSeq(q, 1, n - 1)) + Size(SubSeq(q, (n - 1) + 1, Len(q)))
      BY <1>5, SizeSplit
    <2>2. QED
      BY <1>5, <2>1
  <1>7. b \in Seq(Entry)
    BY <1>5, SizeSplit
  <1>8. SubSeq(q, n, L) = <<q[n]>> \o b
    <2>1. L \in n..L
      BY <1>1, <1>2
    <2>2. QED
      BY <1>2, <2>1, SubSeqRecursiveFirst
  <1>9. /\ <<q[n]>> \in Seq(Entry) /\ Len(<<q[n]>>) = 1 /\ <<q[n]>>[1] = q[n]
        /\ Size(<<q[n]>>) = q[n].size
    BY <1>4, SizeOne
  <1>10. Size(SubSeq(q, n, L)) = q[n].size + Size(b)
    BY <1>7, <1>8, <1>9, SizeConcat
  <1>11. a \o b \in Seq(Entry) /\ Size(a \o b) = Size(a) + Size(b)
    BY <1>6, <1>7, SizeConcat, ConcatProperties
  <1>12. /\ Len(a) = n - 1 /\ Len(b) = L - n
         /\ \A i \in 1..(n-1) : a[i] = q[i]
         /\ \A i \in 1..(L-n) : b[i] = q[n + i]
    <2>1. \A i \in 1..L : q[i] \in Entry
      BY EntriesOf
    <2>2. /\ Len(SubSeq(q, 1, n - 1)) = IF 1 <= n - 1 THEN (n - 1) - 1 + 1 ELSE 0
          /\ \A i \in 1..((n-1) - 1 + 1) : SubSeq(q, 1, n - 1)[i] = q[1 + i - 1]
      <3>1. \A i \in 1..(n-1) : q[i] \in Entry
        BY <1>1, <1>2, <2>1
      <3>2. 1 \in Int /\ n - 1 \in Int
        BY <1>5
      <3>3. QED
        BY <3>1, <3>2, SubSeqProperties
    <2>3. /\ Len(SubSeq(q, n + 1, L)) = IF n + 1 <= L THEN L - (n + 1) + 1 ELSE 0
          /\ \A i \in 1..(L - (n + 1) + 1) : SubSeq(q, n + 1, L)[i] = q[(n + 1) + i - 1]
      <3>1. \A i \in (n+1)..L : q[i] \in Entry
        BY <1>1, <1>2, <2>1
      <3>2. n + 1 \in Int /\ L \in Int
        BY <1>1, <1>5
      <3>3. QED
        BY <3>1, <3>2, SubSeqProperties
    <2>4. Len(a) = n - 1
      BY <1>2, <1>5, <2>2
    <2>5. Len(b) = L - n
      <3> HIDE DEF L, b
      <3>1. n \in Nat /\ L \in Nat /\ n <= L
        BY <1>1, <1>2
      <3>2. CASE n = L
        <4>1. ~(n + 1 <= L) /\ L - n = 0
          BY <3>1, <3>2
        <4>2. QED
          BY <2>3, <4>1 DEF b
      <3>3. CASE n # L
        <4>1. n + 1 <= L /\ L - (n + 1) + 1 = L - n
          BY <3>1, <3>3
        <4>2. QED
          BY <2>3, <4>1 DEF b
      <3>4. QED
        BY <3>2, <3>3
    <2>6. \A i \in 1..(n-1) : a[i] = q[i]
      <3> TAKE i \in 1..(n-1)
      <3>1. i \in 1..((n-1) - 1 + 1) /\ 1 + i - 1 = i
        BY <1>5
      <3>2. QED
        BY <2>2, <3>1
    <2>7. \A i \in 1..(L-n) : b[i] = q[n + i]
      <3> TAKE i \in 1..(L-n)
      <3>1. i \in 1..(L - (n + 1) + 1) /\ (n + 1) + i - 1 = n + i
        BY <1>1, <1>5
      <3>2. QED
        BY <2>3, <3>1
    <2>8. QED
      BY <2>4, <2>5, <2>6, <2>7
  <1> DEFINE z == <<q[n]>> \o (a \o b)
  <1> DEFINE from(i) == IF i = 1 THEN n ELSE IF i <= n THEN i - 1 ELSE i
  <1>13. /\ z \in Seq(Entry) /\ Len(z) = L
         /\ \A i \in 1..L : z[i] = q[from(i)]
    <2>1. /\ Len(a \o b) = L - 1
          /\ \A i \in 1..(L - 1) : (a \o b)[i] = IF i <= n - 1 THEN a[i] ELSE b[i - (n - 1)]
      <3>1. /\ Len(a \o b) = Len(a) + Len(b)
            /\ \A i \in 1..(Len(a) + Len(b)) :
                  (a \o b)[i] = IF i <= Len(a) THEN a[i] ELSE b[i - Len(a)]
        <4> HIDE DEF a, b
        <4>1. QED
          BY <1>6, <1>7, ConcatProperties
      <3> HIDE DEF a, b, z, from, L
      <3>2. Len(a) = n - 1 /\ Len(a) + Len(b) = L - 1
        BY <1>1, <1>5, <1>12
      <3>3. QED
        BY <3>1, <3>2
    <2>2. /\ z \in Seq(Entry) /\ Len(z) = 1 + (L - 1)
          /\ \A i \in 1..(1 + (L - 1)) : z[i] = IF i <= 1 THEN q[n] ELSE (a \o b)[i - 1]
      <3>1. /\ z \in Seq(Entry) /\ Len(z) = Len(<<q[n]>>) + Len(a \o b)
            /\ \A i \in 1..(Len(<<q[n]>>) + Len(a \o b)) :
                  z[i] = IF i <= Len(<<q[n]>>) THEN <<q[n]>>[i] ELSE (a \o b)[i - Len(<<q[n]>>)]
        BY <1>9, <1>11, ConcatProperties
      <3> HIDE DEF a, b, z
      <3>2. \A i \in 1..(1 + (L - 1)) :
                  z[i] = IF i <= 1 THEN <<q[n]>>[i] ELSE (a \o b)[i - 1]
        BY <1>9, <2>1, <3>1
      <3>3. \A i \in 1..(1 + (L - 1)) : i <= 1 => i = 1
        BY <1>1
      <3>4. QED
        BY <1>9, <2>1, <3>1, <3>2, <3>3
    <2>3. 1 + (L - 1) = L
      BY <1>1
    <2>4. ASSUME NEW i \in 1..L
          PROVE  z[i] = q[from(i)]
      <3>1. CASE i = 1
        BY <2>2, <2>3, <3>1
      <3>2. CASE i # 1 /\ i <= n
        <4>1. i - 1 \in 1..(n-1) /\ i - 1 \in 1..(L-1) /\ i - 1 <= n - 1 /\ ~(i <= 1)
          BY <1>1, <1>2, <3>2
        <4>2. z[i] = (a \o b)[i - 1]
          BY <2>2, <2>3, <4>1
        <4>3. QED
          BY <1>12, <2>1, <3>2, <4>1, <4>2
      <3>3. CASE ~(i <= n)
        <4>1. /\ i - 1 \in 1..(L-1) /\ ~(i - 1 <= n - 1) /\ ~(i <= 1)
              /\ i - n \in 1..(L-n) /\ (i - 1) - (n - 1) = i - n /\ n + (i - n) = i /\ i # 1
          BY <1>1, <1>2, <3>3
        <4>2. z[i] = (a \o b)[i - 1]
          BY <2>2, <2>3, <4>1
        <4>3. z[i] = b[i - n]
          BY <2>1, <4>1, <4>2
        <4>4. QED
          BY <1>12, <3>3, <4>1, <4>3
      <3>4. QED
        BY <3>1, <3>2, <3>3
    <2> HIDE DEF from, z
    <2>5. QED
      BY <2>2, <2>3, <2>4
  <1>14. \A i \in 1..L : from(i) \in 1..L
    BY <1>1, <1>2
  <1>15. \A i, j \in 1..L : from(i) = from(j) => i = j
    BY <1>1, <1>2
  <1>16. \A j \in 1..L : \E i \in 1..L : from(i) = j
    <2> TAKE j \in 1..L
    <2>1. CASE j = n
      BY <1>1, <1>2, <2>1
    <2>2. CASE j < n
      <3>1. j + 1 \in 1..L /\ from(j + 1) = j
        BY <1>1, <1>2, <2>2
      <3>2. QED
        BY <3>1
    <2>3. CASE j > n
      <3>1. from(j) = j
        BY <1>1, <1>2, <2>3
      <3>2. QED
        BY <3>1
    <2>4. QED
      BY <1>1, <1>2, <2>1, <2>2, <2>3
  <1>17. Size(z) = Size(q)
    <2>1. Size(z) = q[n].size + Size(a \o b)
      BY <1>9, <1>11, SizeConcat
    <2>2. q[n].size \in Nat /\ Size(a) \in Nat /\ Size(b) \in Nat
      BY <1>4, <1>6, <1>7, EntryFields, SizeIsNat
    <2> HIDE DEF z
    <2>3. QED
      BY <1>6, <1>10, <1>11, <2>1, <2>2
  <1> HIDE DEF from, z
  <1>18. DOMAIN z = 1..L
    BY <1>13, LenProperties
  <1>19. ToSet(z) = ToSet(q)
    <2>1. ToSet(z) = {z[i] : i \in 1..L} /\ ToSet(q) = {q[i] : i \in 1..L}
      BY <1>1, <1>18 DEF ToSet
    <2>2. \A i \in 1..L : from(i) \in 1..L /\ z[i] = q[from(i)]
      BY <1>13, <1>14
    <2>3. ASSUME NEW x \in ToSet(z) PROVE x \in ToSet(q)
      BY <2>1, <2>2
    <2>4. ASSUME NEW x \in ToSet(q) PROVE x \in ToSet(z)
      <3>1. PICK j \in 1..L : x = q[j]
        BY <2>1
      <3>2. PICK i \in 1..L : from(i) = j
        BY <1>16
      <3>3. QED
        BY <2>1, <2>2, <3>1, <3>2
    <2>5. QED
      BY <2>3, <2>4
  <1>20. Distinct(z)
    <2>1. \A i, j \in 1..L : z[i].key = z[j].key => from(i) = from(j)
      BY <1>13, <1>14, SMTT(30) DEF Distinct
    <2>2. QED
      BY <1>13, <1>15, <2>1 DEF Distinct
  <1>21. QED
    BY <1>3, <1>13, <1>17, <1>19, <1>20 DEF z

(* What evict() may keep: the list is inside both bounds or has one entry. *)
Fits(q) == Len(q) <= 1 \/ (Size(q) <= MaxBytes /\ Len(q) <= MaxEntries)

LEMMA KeptProperties ==
    ASSUME NEW q \in Seq(Entry), q # <<>>
    PROVE  /\ Kept(q, Size(q)) \in 1..Len(q)
           /\ Fits(SubSeq(q, 1, Kept(q, Size(q))))
  <1> DEFINE L == Len(q)
  <1> DEFINE Over(n) == \/ Size(q) - Size(SubSeq(q, n + 1, L)) > MaxBytes
                        \/ n > MaxEntries
  <1> DEFINE Fine(n) == /\ \A m \in n + 1 .. L : Over(m)
                        /\ n = 1 \/ ~Over(n)
  <1>1. L \in Nat /\ L # 0
    BY EmptySeq, LenProperties
  <1>2. Kept(q, Size(q)) = CHOOSE n \in 1..L : Fine(n)
    BY DEF Kept
  <1> HIDE DEF Over
  <1>3. \E n \in 1..L : Fine(n)
    <2> DEFINE From == {n \in 1..L : \A m \in n + 1 .. L : Over(m)}
    <2>1. L \in From
      BY <1>1
    <2>2. PICK n \in From : \A k \in From : n <= k
      <3>1. From \subseteq Nat /\ From # {}
        BY <2>1
      <3> HIDE DEF From
      <3>2. QED
        BY <3>1, LeastNatural
    <2>3. n \in 1..L /\ \A m \in n + 1 .. L : Over(m)
      BY <2>2
    <2>4. ASSUME n # 1, Over(n) PROVE FALSE
      <3>1. n - 1 \in 1..L /\ (n - 1) + 1 .. L = {n} \cup (n + 1 .. L) /\ ~(n <= n - 1)
        BY <1>1, <2>3, <2>4
      <3>2. n - 1 \in From
        BY <2>3, <2>4, <3>1
      <3>3. QED
        BY <2>2, <3>1, <3>2
    <2>5. QED
      BY <2>3, <2>4
  <1> DEFINE n == CHOOSE n \in 1..L : Fine(n)
  <1>4. n \in 1..L /\ (n = 1 \/ ~Over(n))
    BY <1>3
  <1> HIDE DEF n
  <1>5. n \in 0..L /\ n \in Nat
    BY <1>1, <1>4
  <1>6. /\ SubSeq(q, 1, n) \in Seq(Entry) /\ SubSeq(q, n + 1, L) \in Seq(Entry)
        /\ Size(q) = Size(SubSeq(q, 1, n)) + Size(SubSeq(q, n + 1, L))
    BY <1>5, SizeSplit
  <1>7. Size(SubSeq(q, 1, n)) \in Nat /\ Size(SubSeq(q, n + 1, L)) \in Nat
    BY <1>6, SizeIsNat
  <1>8. Len(SubSeq(q, 1, n)) = n
    <2>1. \A i \in 1..n : q[i] \in Entry
      BY <1>1, <1>4, EntriesOf
    <2>2. Len(SubSeq(q, 1, n)) = IF 1 <= n THEN n - 1 + 1 ELSE 0
      BY <1>5, <2>1, SubSeqProperties
    <2>3. QED
      BY <1>4, <1>5, <2>2
  <1>9. Fits(SubSeq(q, 1, n))
    <2>1. CASE n = 1
      BY <1>8, <2>1 DEF Fits
    <2>2. CASE ~Over(n)
      <3>1. ~(Size(q) - Size(SubSeq(q, n + 1, L)) > MaxBytes) /\ ~(n > MaxEntries)
        BY <2>2 DEF Over
      <3>2. Size(q) - Size(SubSeq(q, n + 1, L)) = Size(SubSeq(q, 1, n))
        BY <1>6, <1>7
      <3>3. Size(SubSeq(q, 1, n)) <= MaxBytes /\ n <= MaxEntries
        BY <1>5, <1>7, <3>1, <3>2, SymbolAssumption
      <3>4. QED
        BY <1>8, <3>3 DEF Fits
    <2>3. QED
      BY <1>4, <2>1, <2>2
  <1>10. QED
    BY <1>2, <1>4, <1>9 DEF n

(* A list with a new entry in front, cut after n.                          *)
LEMMA PushedProperties ==
    ASSUME NEW q \in Seq(Entry), Distinct(q), NEW e \in Entry, e.key \notin KeysOf(q),
           NEW n \in 1..Len(<<e>> \o q)
    PROVE  LET p    == <<e>> \o q
               kept == SubSeq(p, 1, n)
               gone == SubSeq(p, n + 1, Len(p))
           IN  /\ p \in Seq(Entry) /\ p # <<>>
               /\ Size(p) = e.size + Size(q)
               /\ kept \in Seq(Entry) /\ Distinct(kept)
               /\ ToSet(kept) \subseteq {e} \cup ToSet(q)
               /\ KeysOf(kept) = (KeysOf(q) \cup {e.key}) \ {x.key : x \in ToSet(gone)}
               /\ Size(kept) = Size(p) - Size(gone)
  <1> DEFINE p == <<e>> \o q
  <1> DEFINE kept == SubSeq(p, 1, n)
  <1> DEFINE gone == SubSeq(p, n + 1, Len(p))
  <1> DEFINE L == Len(q)
  <1>1. L \in Nat /\ DOMAIN q = 1..L
    BY LenProperties
  <1>2. <<e>> \in Seq(Entry) /\ Len(<<e>>) = 1 /\ <<e>>[1] = e /\ Size(<<e>>) = e.size
    BY SizeOne
  <1>3. /\ p \in Seq(Entry) /\ Len(p) = L + 1 /\ p[1] = e
        /\ \A i \in 1..L : p[i + 1] = q[i]
    <2>1. /\ p \in Seq(Entry) /\ Len(p) = Len(<<e>>) + Len(q)
          /\ \A i \in 1..(Len(<<e>>) + Len(q)) :
                p[i] = IF i <= Len(<<e>>) THEN <<e>>[i] ELSE q[i - Len(<<e>>)]
      BY <1>2, ConcatProperties
    <2> HIDE DEF p, L
    <2>2. Len(<<e>>) + Len(q) = L + 1 /\ Len(<<e>>) = 1
      BY <1>1, <1>2 DEF L
    <2>3. \A i \in 1..(L + 1) : p[i] = IF i <= 1 THEN <<e>>[i] ELSE q[i - 1]
      BY <2>1, <2>2
    <2>4. p[1] = e
      BY <1>1, <1>2, <2>3
    <2>5. ASSUME NEW i \in 1..L PROVE p[i + 1] = q[i]
      <3>1. i + 1 \in 1..(L + 1) /\ ~(i + 1 <= 1) /\ (i + 1) - 1 = i
        BY <1>1
      <3>2. QED
        BY <2>3, <3>1
    <2>6. QED
      BY <2>1, <2>2, <2>4, <2>5
  <1>4. p # <<>>
    <2>1. Len(p) # 0
      BY <1>1, <1>3
    <2>2. QED
      BY <2>1, EmptySeq
  <1>5. Size(p) = e.size + Size(q)
    BY <1>2, SizeConcat
  <1>6. Distinct(p)
    <2> SUFFICES ASSUME NEW i \in 1..Len(p), NEW j \in 1..Len(p), p[i].key = p[j].key
                 PROVE  i = j
      BY DEF Distinct
    <2>1. \A k \in 1..Len(p) : k = 1 \/ (k - 1 \in 1..L /\ p[k] = q[k - 1])
      <3> TAKE k \in 1..Len(p)
      <3>1. k # 1 => k - 1 \in 1..L /\ (k - 1) + 1 = k
        BY <1>1, <1>3
      <3>2. QED
        BY <1>3, <3>1
    <2>2. \A k \in 1..L : q[k].key # e.key
      BY <1>1 DEF KeysOf, ToSet
    <2> HIDE DEF p
    <2>3. CASE i = 1 /\ j = 1
      BY <2>3
    <2>4. CASE i = 1 /\ j # 1
      BY <1>3, <2>1, <2>2, <2>4
    <2>5. CASE i # 1 /\ j = 1
      BY <1>3, <2>1, <2>2, <2>5
    <2>6. CASE i # 1 /\ j # 1
      <3>1. q[i - 1].key = q[j - 1].key /\ i - 1 \in 1..L /\ j - 1 \in 1..L
        BY <2>1, <2>6
      <3>2. i - 1 = j - 1
        BY <3>1 DEF Distinct
      <3>3. QED
        BY <1>1, <1>3, <3>2
    <2>7. QED
      BY <2>3, <2>4, <2>5, <2>6
  <1>7. n \in 0..Len(p) /\ n \in Nat /\ Len(p) \in Nat
    BY <1>1, <1>3
  <1>8. /\ kept \in Seq(Entry) /\ gone \in Seq(Entry)
        /\ Size(p) = Size(kept) + Size(gone)
    <2> HIDE DEF p
    <2>1. QED
      BY <1>3, <1>7, SizeSplit
  <1>9. Size(kept) = Size(p) - Size(gone)
    <2>1. Size(kept) \in Nat /\ Size(gone) \in Nat
      BY <1>8, SizeIsNat
    <2> HIDE DEF kept, gone, p
    <2>2. QED
      BY <1>8, <2>1
  <1>10. /\ Len(kept) = n /\ \A i \in 1..n : kept[i] = p[i]
         /\ Len(gone) = Len(p) - n /\ \A i \in 1..(Len(p) - n) : gone[i] = p[n + i]
    <2> HIDE DEF p
    <2>1. \A i \in 1..Len(p) : p[i] \in Entry
      BY <1>3, EntriesOf
    <2>2. /\ Len(kept) = IF 1 <= n THEN n - 1 + 1 ELSE 0
          /\ \A i \in 1..(n - 1 + 1) : kept[i] = p[1 + i - 1]
      <3>1. \A i \in 1..n : p[i] \in Entry
        BY <1>7, <2>1
      <3>2. QED
        BY <1>7, <3>1, SubSeqProperties
    <2>3. /\ Len(gone) = IF n + 1 <= Len(p) THEN Len(p) - (n + 1) + 1 ELSE 0
          /\ \A i \in 1..(Len(p) - (n + 1) + 1) : gone[i] = p[(n + 1) + i - 1]
      <3>1. \A i \in (n + 1)..Len(p) : p[i] \in Entry
        BY <1>7, <2>1
      <3>2. QED
        BY <1>7, <3>1, SubSeqProperties
    <2> HIDE DEF kept, gone
    <2>4. \A i \in 1..n : kept[i] = p[i]
      <3> TAKE i \in 1..n
      <3>1. i \in 1..(n - 1 + 1) /\ 1 + i - 1 = i
        BY <1>7
      <3>2. QED
        BY <2>2, <3>1
    <2>5. \A i \in 1..(Len(p) - n) : gone[i] = p[n + i]
      <3> TAKE i \in 1..(Len(p) - n)
      <3>1. i \in 1..(Len(p) - (n + 1) + 1) /\ (n + 1) + i - 1 = n + i
        BY <1>7
      <3>2. QED
        BY <2>3, <3>1
    <2>6. Len(kept) = n /\ Len(gone) = Len(p) - n
      BY <1>7, <2>2, <2>3
    <2>7. QED
      BY <2>4, <2>5, <2>6
  <1>11. Distinct(kept)
    <2> HIDE DEF p, kept
    <2>1. \A i \in 1..n : i \in 1..Len(p)
      BY <1>7
    <2>2. QED
      BY <1>6, <1>10, <2>1 DEF Distinct
  <1>12. DOMAIN kept = 1..n /\ DOMAIN gone = 1..(Len(p) - n) /\ DOMAIN p = 1..Len(p)
    <2> HIDE DEF p, kept, gone
    <2>1. QED
      BY <1>3, <1>8, <1>10, LenProperties
  <1>13. ToSet(p) = {e} \cup ToSet(q)
    <2>1. ASSUME NEW x \in ToSet(p) PROVE x \in {e} \cup ToSet(q)
      <3>1. PICK i \in 1..Len(p) : x = p[i]
        BY <1>12 DEF ToSet
      <3>2. i # 1 => i - 1 \in 1..L /\ (i - 1) + 1 = i
        BY <1>1, <1>3
      <3>3. QED
        BY <1>1, <1>3, <3>1, <3>2 DEF ToSet
    <2>2. e \in ToSet(p)
      <3>1. 1 \in 1..Len(p)
        BY <1>1, <1>3
      <3>2. QED
        BY <1>3, <1>12, <3>1 DEF ToSet
    <2>3. ASSUME NEW x \in ToSet(q) PROVE x \in ToSet(p)
      <3>1. PICK i \in 1..L : x = q[i]
        BY <1>1 DEF ToSet
      <3>2. i + 1 \in 1..Len(p)
        BY <1>1, <1>3
      <3>3. QED
        BY <1>3, <1>12, <3>1, <3>2 DEF ToSet
    <2>4. QED
      BY <2>1, <2>2, <2>3
  <1> HIDE DEF p, kept, gone, L
  <1>14. ToSet(kept) \subseteq ToSet(p)
    <2>1. \A i \in 1..n : i \in 1..Len(p)
      BY <1>7
    <2>2. QED
      BY <1>10, <1>12, <2>1 DEF ToSet
  <1>15. \A k : k \in KeysOf(p) <=> k \in KeysOf(kept) \/ k \in KeysOf(gone)
    <2>1. \A i \in 1..n : i \in 1..Len(p)
      BY <1>7
    <2>2. \A i \in 1..(Len(p) - n) : n + i \in 1..Len(p)
      BY <1>7
    <2>3. \A i \in 1..Len(p) : i \in 1..n \/ (i - n \in 1..(Len(p) - n) /\ n + (i - n) = i)
      BY <1>7
    <2>4. ToSet(p) = ToSet(kept) \cup ToSet(gone)
      <3>1. ASSUME NEW x \in ToSet(p) PROVE x \in ToSet(kept) \cup ToSet(gone)
        <4>1. PICK i \in 1..Len(p) : x = p[i]
          BY <1>12 DEF ToSet
        <4>2. CASE i \in 1..n
          BY <1>10, <1>12, <4>1, <4>2 DEF ToSet
        <4>3. CASE i - n \in 1..(Len(p) - n) /\ n + (i - n) = i
          BY <1>10, <1>12, <4>1, <4>3 DEF ToSet
        <4>4. QED
          BY <2>3, <4>2, <4>3
      <3>2. ASSUME NEW x \in ToSet(gone) PROVE x \in ToSet(p)
        BY <1>10, <1>12, <2>2 DEF ToSet
      <3>3. QED
        BY <1>14, <3>1, <3>2
    <2>5. QED
      BY <2>4 DEF KeysOf
  <1>16. \A k : ~(k \in KeysOf(kept) /\ k \in KeysOf(gone))
    <2> SUFFICES ASSUME NEW k, k \in KeysOf(kept), k \in KeysOf(gone) PROVE FALSE
      OBVIOUS
    <2>1. PICK i \in 1..n : kept[i].key = k
      BY <1>12 DEF KeysOf, ToSet
    <2>2. PICK j \in 1..(Len(p) - n) : gone[j].key = k
      BY <1>12 DEF KeysOf, ToSet
    <2>3. i \in 1..Len(p) /\ n + j \in 1..Len(p) /\ i # n + j
      BY <1>7
    <2>4. p[i].key = p[n + j].key
      BY <1>10, <2>1, <2>2
    <2>5. QED
      BY <1>6, <2>3, <2>4 DEF Distinct
  <1>17. KeysOf(p) = KeysOf(q) \cup {e.key}
    BY <1>13 DEF KeysOf
  <1>18. KeysOf(kept) = (KeysOf(q) \cup {e.key}) \ {x.key : x \in ToSet(gone)}
    <2>1. KeysOf(gone) = {x.key : x \in ToSet(gone)}
      BY DEF KeysOf
    <2>2. QED
      BY <1>15, <1>16, <1>17, <2>1
  <1>19. QED
    BY <1>3, <1>4, <1>5, <1>8, <1>9, <1>11, <1>13, <1>14, <1>18 DEF p, kept, gone

-----------------------------------------------------------------------------
(* The accounts of every cache, as an invariant.                           *)

Accounts(q, ix, b) ==
    q \in Seq(Entry) /\ Distinct(q) /\ ix = KeysOf(q) /\ b = Size(q) /\ Fits(q)

CacheType ==
    /\ index \in [Replicas -> SUBSET Keys]
    /\ order \in [Replicas -> Seq(Entry)]
    /\ bytes \in [Replicas -> Nat]

CacheInv == CacheType /\ \A r \in Replicas : Accounts(order[r], index[r], bytes[r])

(* The rest of the types.  An idle lookup wants nothing in particular.     *)
LookupType ==
    /\ lpc \in [Lookups -> {"idle", "row", "get", "insert"}]
    /\ loaded \in [Lookups -> Maps]
    /\ DOMAIN wanted = Lookups /\ wanted = [l \in Lookups |-> wanted[l]]
    /\ \A l \in Lookups : lpc[l] # "idle" => wanted[l] \in Keys

ChangeType ==
    /\ rows \in [Keys -> Maps] /\ objects \in [Keys -> Maps]
    /\ cpc \in [Changes -> {"idle", "putRow", "forget", "forgetDeleted",
                            "deleteObject", "done", "refused", "failed"}]
    /\ target \in [Changes -> Keys]

SymbolType == LookupType /\ ChangeType

LEMMA NewEntryIsEntry ==
    ASSUME NEW key \in Keys, NEW m \in Maps
    PROVE  /\ NewEntry(key, m) \in Entry
           /\ NewEntry(key, m).key = key /\ NewEntry(key, m).map = Parsed(m)
  <1>1. Parsed(m) \in Maps /\ (Parsed(m) # NoMap => m \in Changes)
    BY DEF Parsed, Maps
  <1>2. (IF Parsed(m) = NoMap THEN MissingBytes ELSE SizeOf[m]) \in Nat
    BY <1>1, SymbolAssumption
  <1> DEFINE z == IF Parsed(m) = NoMap THEN MissingBytes ELSE SizeOf[m]
  <1>3. NewEntry(key, m) = [key |-> key, map |-> Parsed(m), size |-> z]
    BY DEF NewEntry
  <1>4. z \in Nat
    BY <1>2
  <1> HIDE DEF z
  <1>5. QED
    BY <1>1, <1>3, <1>4 DEF Entry

LEMMA TouchAccounts ==
    ASSUME CacheInv, NEW r \in Replicas, NEW key \in index[r], Touch(r, key)
    PROVE  /\ CacheInv'
           /\ \A s \in Replicas : ToSet(order'[s]) = ToSet(order[s])
  <1>1. Accounts(order[r], index[r], bytes[r]) /\ key \in KeysOf(order[r])
    BY DEF CacheInv, Accounts
  <1> DEFINE q == ToFront(order[r], key)
  <1>2. /\ q \in Seq(Entry) /\ Len(q) = Len(order[r]) /\ ToSet(q) = ToSet(order[r])
        /\ Distinct(q) /\ Size(q) = Size(order[r])
    BY <1>1, ToFrontProperties DEF Accounts
  <1>3. Accounts(q, index[r], bytes[r])
    BY <1>1, <1>2 DEF Accounts, KeysOf, Fits
  <1>4. order' = [order EXCEPT ![r] = q] /\ index' = index /\ bytes' = bytes
    BY DEF Touch
  <1> HIDE DEF q
  <1>5. order'[r] = q /\ \A s \in Replicas : s # r => order'[s] = order[s]
    BY <1>4 DEF CacheInv, CacheType
  <1>6. CacheType'
    BY <1>2, <1>4 DEF CacheInv, CacheType
  <1>7. \A s \in Replicas : Accounts(order'[s], index'[s], bytes'[s])
    BY <1>3, <1>4, <1>5 DEF CacheInv
  <1>8. QED
    BY <1>2, <1>5, <1>6, <1>7 DEF CacheInv, Accounts, Distinct, KeysOf, Fits

LEMMA PushAccounts ==
    ASSUME CacheInv, NEW r \in Replicas, NEW e \in Entry, e.key \notin index[r],
           Push(r, e)
    PROVE  /\ CacheInv'
           /\ \A s \in Replicas : s # r => order'[s] = order[s]
           /\ ToSet(order'[r]) \subseteq ToSet(order[r]) \cup {e}
  <1> DEFINE q == order[r]
  <1> DEFINE p == <<e>> \o q
  <1> DEFINE n == Kept(p, Size(p))
  <1> DEFINE kept == SubSeq(p, 1, n)
  <1> DEFINE gone == SubSeq(p, n + 1, Len(p))
  <1>1. /\ q \in Seq(Entry) /\ Distinct(q) /\ index[r] = KeysOf(q) /\ bytes[r] = Size(q)
        /\ e.key \notin KeysOf(q)
    BY DEF CacheInv, Accounts
  <1>2. p \in Seq(Entry) /\ p # <<>> /\ Size(p) = e.size + Size(q)
    <2>1. <<e>> \in Seq(Entry) /\ Size(<<e>>) = e.size /\ Len(<<e>>) = 1
      BY SizeOne
    <2>2. p \in Seq(Entry) /\ Len(p) = 1 + Len(q) /\ Len(q) \in Nat
      BY <1>1, <2>1, ConcatProperties, LenProperties
    <2>3. Size(p) = e.size + Size(q)
      BY <1>1, <2>1, SizeConcat
    <2>4. Len(p) # 0
      BY <2>2
    <2>5. QED
      BY <2>2, <2>3, <2>4, EmptySeq
  <1>3. n \in 1..Len(p) /\ Fits(kept)
    <2> HIDE DEF p
    <2>1. QED
      BY <1>2, KeptProperties
  <1>4. /\ kept \in Seq(Entry) /\ Distinct(kept) /\ ToSet(kept) \subseteq {e} \cup ToSet(q)
        /\ KeysOf(kept) = (KeysOf(q) \cup {e.key}) \ {x.key : x \in ToSet(gone)}
        /\ Size(kept) = Size(p) - Size(gone)
    <2> HIDE DEF n
    <2>1. QED
      BY <1>1, <1>3, PushedProperties
  <1>5. bytes[r] + e.size = Size(p)
    <2>1. Size(q) \in Nat /\ e.size \in Nat
      BY <1>1, SizeIsNat, EntryFields
    <2> HIDE DEF p
    <2>2. QED
      BY <1>1, <1>2, <2>1
  <1>6. /\ order' = [order EXCEPT ![r] = kept]
        /\ index' = [index EXCEPT ![r] = (index[r] \cup {e.key}) \ {x.key : x \in ToSet(gone)}]
        /\ bytes' = [bytes EXCEPT ![r] = Size(p) - Size(gone)]
    <2>1. /\ order' = [order EXCEPT ![r] = SubSeq(p, 1, Kept(p, bytes[r] + e.size))]
          /\ index' = [index EXCEPT ![r] = (index[r] \cup {e.key}) \
               {x.key : x \in ToSet(SubSeq(p, Kept(p, bytes[r] + e.size) + 1, Len(p)))}]
          /\ bytes' = [bytes EXCEPT ![r] = (bytes[r] + e.size) -
               Size(SubSeq(p, Kept(p, bytes[r] + e.size) + 1, Len(p)))]
      BY DEF Push
    <2> HIDE DEF p
    <2>2. QED
      BY <1>5, <2>1
  <1> HIDE DEF kept, gone, p, n
  <1>7. /\ order'[r] = kept /\ index'[r] = KeysOf(kept) /\ bytes'[r] = Size(kept)
        /\ \A s \in Replicas : s # r => /\ order'[s] = order[s] /\ index'[s] = index[s]
                                       /\ bytes'[s] = bytes[s]
    BY <1>1, <1>4, <1>6 DEF CacheInv, CacheType
  <1>8. Accounts(kept, KeysOf(kept), Size(kept))
    BY <1>3, <1>4 DEF Accounts
  <1>9. \A s \in Replicas : Accounts(order'[s], index'[s], bytes'[s])
    BY <1>7, <1>8 DEF CacheInv
  <1>10. CacheType'
    <2>1. KeysOf(kept) \subseteq Keys
      <3>1. \A i \in 1..Len(kept) : kept[i].key \in Keys
        BY <1>4, EntriesOf
      <3>2. DOMAIN kept = 1..Len(kept)
        BY <1>4, LenProperties
      <3>3. QED
        BY <3>1, <3>2 DEF KeysOf, ToSet
    <2>2. Size(kept) \in Nat
      BY <1>4, SizeIsNat
    <2>3. /\ index' = [index EXCEPT ![r] = KeysOf(kept)]
          /\ bytes' = [bytes EXCEPT ![r] = Size(kept)]
      BY <1>1, <1>4, <1>6
    <2>4. QED
      BY <1>4, <1>6, <2>1, <2>2, <2>3 DEF CacheInv, CacheType
  <1>11. CacheInv'
    BY <1>9, <1>10 DEF CacheInv, Accounts, Distinct, KeysOf, Fits
  <1>12. QED
    BY <1>4, <1>7, <1>11

LEMMA ForgetAccounts ==
    ASSUME CacheInv, NEW r \in Replicas, NEW release, Forget(r, release)
    PROVE  /\ CacheInv'
           /\ \A s \in Replicas : s # r => order'[s] = order[s]
           /\ ToSet(order'[r]) = {e \in ToSet(order[r]) : ~OfRelease(e.key, release)}
  <1> DEFINE q == order[r]
  <1> DEFINE left == Part(q, release, FALSE)
  <1> DEFINE gone == Part(q, release, TRUE)
  <1>1. /\ q \in Seq(Entry) /\ Distinct(q) /\ index[r] = KeysOf(q) /\ bytes[r] = Size(q)
        /\ Fits(q)
    BY DEF CacheInv, Accounts
  <1>2. /\ left \in Seq(Entry) /\ gone \in Seq(Entry)
        /\ ToSet(left) = {e \in ToSet(q) : ~OfRelease(e.key, release)}
        /\ Distinct(left) /\ Len(left) <= Len(q)
    BY <1>1, PartElements
  <1>3. /\ Size(left) = Size(q) - Size(gone)
        /\ Size(left) \in Nat /\ Size(left) <= Size(q) /\ Size(q) \in Nat
    <2>1. /\ Size(q) = Size(left) + Size(gone)
          /\ Size(left) \in Nat /\ Size(gone) \in Nat
      BY <1>1, <1>2, PartSizes, SizeIsNat
    <2>2. \A a, b, c \in Nat : a = b + c => b = a - c /\ b <= a /\ a \in Nat
      OBVIOUS
    <2>3. Size(q) \in Nat
      BY <1>1, SizeIsNat
    <2> HIDE DEF left, gone, q
    <2>4. Size(left) = Size(q) - Size(gone) /\ Size(left) <= Size(q)
      BY <2>1, <2>2, <2>3
    <2>5. QED
      BY <2>1, <2>3, <2>4
  <1>4. KeysOf(left) = {k \in KeysOf(q) : ~OfRelease(k, release)}
    <2> HIDE DEF left, q
    <2>1. \A k : k \in KeysOf(left) <=> k \in KeysOf(q) /\ ~OfRelease(k, release)
      <3>1. \A k : k \in KeysOf(left) <=> \E e \in ToSet(left) : e.key = k
        BY Zenon DEF KeysOf
      <3>2. \A k : k \in KeysOf(q) <=> \E e \in ToSet(q) : e.key = k
        BY Zenon DEF KeysOf
      <3>3. \A e : e \in ToSet(left) <=> e \in ToSet(q) /\ ~OfRelease(e.key, release)
        BY <1>2
      <3>4. QED
        BY <3>1, <3>2, <3>3, Zenon
    <2>2. QED
      BY <2>1
  <1>5. Fits(left)
    <2>1. Len(left) \in Nat /\ Len(q) \in Nat
      BY <1>1, <1>2, LenProperties
    <2> HIDE DEF left, q
    <2>2. MaxBytes \in Nat /\ MaxEntries \in Nat
      BY SymbolAssumption
    <2>3. CASE Len(q) <= 1
      <3>1. Len(left) <= 1
        BY <1>2, <2>1, <2>3
      <3>2. QED
        BY <3>1 DEF Fits
    <2>4. CASE Size(q) <= MaxBytes /\ Len(q) <= MaxEntries
      <3>1. Size(left) <= MaxBytes /\ Len(left) <= MaxEntries
        <4>1. \A a, b, c \in Nat : a <= b /\ b <= c => a <= c
          OBVIOUS
        <4>2. Size(left) <= MaxBytes
          BY <1>3, <2>2, <2>4, <4>1, Zenon
        <4>3. Len(left) <= MaxEntries
          BY <1>2, <2>1, <2>2, <2>4, <4>1, Zenon
        <4>4. QED
          BY <4>2, <4>3
      <3>2. QED
        BY <3>1 DEF Fits
    <2>5. QED
      BY <1>1, <2>3, <2>4 DEF Fits
  <1>6. /\ order' = [order EXCEPT ![r] = left]
        /\ index' = [index EXCEPT ![r] = KeysOf(left)]
        /\ bytes' = [bytes EXCEPT ![r] = Size(left)]
    <2>1. /\ order' = [order EXCEPT ![r] = left]
          /\ index' = [index EXCEPT ![r] = {k \in index[r] : ~OfRelease(k, release)}]
          /\ bytes' = [bytes EXCEPT ![r] = bytes[r] - Size(gone)]
      BY DEF Forget
    <2> HIDE DEF left, q
    <2>2. QED
      BY <1>1, <1>3, <1>4, <2>1
  <1> HIDE DEF left
  <1>7. /\ order'[r] = left /\ index'[r] = KeysOf(left) /\ bytes'[r] = Size(left)
        /\ \A s \in Replicas : s # r => /\ order'[s] = order[s] /\ index'[s] = index[s]
                                       /\ bytes'[s] = bytes[s]
    BY <1>6 DEF CacheInv, CacheType
  <1>8. Accounts(left, KeysOf(left), Size(left))
    BY <1>2, <1>5 DEF Accounts
  <1>9. \A s \in Replicas : Accounts(order'[s], index'[s], bytes'[s])
    BY <1>7, <1>8 DEF CacheInv
  <1>10. CacheType'
    <2>1. KeysOf(left) \subseteq Keys
      BY <1>1, <1>4 DEF CacheInv, CacheType
    <2>2. QED
      BY <1>2, <1>3, <1>6, <2>1 DEF CacheInv, CacheType
  <1>11. CacheInv'
    BY <1>9, <1>10 DEF CacheInv, Accounts, Distinct, KeysOf, Fits
  <1>12. QED
    BY <1>2, <1>7, <1>11

LEMMA InitTypes == Init => SymbolType /\ CacheInv
  <1> SUFFICES ASSUME Init PROVE SymbolType /\ CacheInv
    OBVIOUS
  <1>1. SymbolType
    BY SymbolAssumption DEF Init, SymbolType, LookupType, ChangeType, Maps
  <1>2. <<>> \in Seq(Entry) /\ Len(<<>>) = 0 /\ Size(<<>>) = 0
    BY EmptySeq, SizeEmpty
  <1>3. ToSet(<<>>) = {}
    BY DEF ToSet
  <1>4. Accounts(<<>>, {}, 0)
    BY <1>2, <1>3 DEF Accounts, Distinct, KeysOf, Fits
  <1>5. CacheInv
    BY <1>2, <1>4 DEF Init, CacheInv, CacheType
  <1>6. QED
    BY <1>1, <1>5

LEMMA CacheUnchanged ==
    ASSUME CacheInv, UNCHANGED cache
    PROVE  CacheInv'
  BY DEF CacheInv, CacheType, cache, Accounts, Distinct, KeysOf, Fits

(* What an insertion may bring in beside the entries that are there.       *)
LEMMA InsertAccounts ==
    ASSUME SymbolType, CacheInv, NEW l \in Lookups, Insert(l)
    PROVE  /\ CacheInv'
           /\ \A r \in Replicas : \A e \in ToSet(order'[r]) :
                \/ e \in ToSet(order[r])
                \/ /\ r = ReplicaOf[l] /\ wanted[l] \notin index[r]
                   /\ e = NewEntry(wanted[l], loaded[l])
  <1> DEFINE r == ReplicaOf[l]
  <1>1. r \in Replicas /\ wanted[l] \in Keys /\ loaded[l] \in Maps
    BY SymbolAssumption DEF SymbolType, LookupType, Insert
  <1> DEFINE e == NewEntry(wanted[l], loaded[l])
  <1>2. e \in Entry /\ e.key = wanted[l]
    BY <1>1, NewEntryIsEntry
  <1>3. CASE wanted[l] \in index[r]
    <2>1. Touch(r, wanted[l])
      BY <1>3 DEF Insert
    <2> HIDE DEF r
    <2>2. CacheInv' /\ \A s \in Replicas : ToSet(order'[s]) = ToSet(order[s])
      BY <1>1, <1>3, <2>1, TouchAccounts
    <2>3. QED
      BY <2>2
  <1>4. CASE wanted[l] \notin index[r]
    <2>1. Push(r, e)
      BY <1>4 DEF Insert
    <2> HIDE DEF r, e
    <2>2. /\ CacheInv' /\ \A s \in Replicas : s # r => order'[s] = order[s]
          /\ ToSet(order'[r]) \subseteq ToSet(order[r]) \cup {e}
      BY <1>1, <1>2, <1>4, <2>1, PushAccounts
    <2>3. \A s \in Replicas : \A x \in ToSet(order'[s]) : x \in ToSet(order[s]) \/ (s = r /\ x = e)
      BY <2>2
    <2>4. QED
      BY <1>4, <2>2, <2>3 DEF e, r
  <1>5. QED
    BY <1>3, <1>4

LEMMA NextTypes ==
    ASSUME SymbolType, CacheInv, [Next]_vars
    PROVE  SymbolType' /\ CacheInv'
  <1> USE DEF SymbolType
  <1>1. CASE UNCHANGED vars
    <2>1. CacheInv'
      BY <1>1, CacheUnchanged DEF vars, program
    <2>2. SymbolType'
      BY <1>1 DEF vars, program, artifacts, lookup, change, LookupType, ChangeType
    <2>3. QED
      BY <2>1, <2>2
  <1>2. ASSUME NEW l \in Lookups, NEW key \in Keys, Hit(l, key)
        PROVE  SymbolType' /\ CacheInv'
    <2>1. ReplicaOf[l] \in Replicas /\ key \in index[ReplicaOf[l]] /\ Touch(ReplicaOf[l], key)
      BY <1>2, SymbolAssumption DEF Hit
    <2>2. CacheInv'
      BY <2>1, TouchAccounts
    <2>3. SymbolType'
      BY <1>2 DEF Hit, artifacts, lookup, change, LookupType, ChangeType
    <2>4. QED
      BY <2>2, <2>3
  <1>3. ASSUME NEW l \in Lookups, NEW key \in Keys, Miss(l, key)
        PROVE  SymbolType' /\ CacheInv'
    <2>1. CacheInv'
      BY <1>3, CacheUnchanged DEF Miss
    <2>2. ChangeType'
      BY <1>3 DEF Miss, artifacts, change, ChangeType
    <2>3. LookupType'
      BY <1>3 DEF Miss, LGoto, LookupType
    <2>4. QED
      BY <2>1, <2>2, <2>3
  <1>4. ASSUME NEW l \in Lookups, CheckRow(l) \/ GetObject(l)
        PROVE  SymbolType' /\ CacheInv'
    <2>1. CacheInv'
      BY <1>4, CacheUnchanged DEF CheckRow, GetObject
    <2>2. ChangeType'
      BY <1>4 DEF CheckRow, GetObject, artifacts, change, ChangeType
    <2>3. LookupType'
      <3>1. wanted[l] \in Keys
        BY <1>4 DEF CheckRow, GetObject, LookupType
      <3>2. objects[wanted[l]] \in Maps /\ NoMap \in Maps
        BY <3>1 DEF ChangeType, Maps
      <3>3. CASE CheckRow(l)
        BY <3>2, <3>3 DEF CheckRow, LGoto, LookupType
      <3>4. CASE GetObject(l)
        BY <3>2, <3>4 DEF GetObject, LGoto, LookupType
      <3>5. QED
        BY <1>4, <3>3, <3>4
    <2>4. QED
      BY <2>1, <2>2, <2>3
  <1>5. ASSUME NEW l \in Lookups, LoadFails(l) \/ Insert(l)
        PROVE  SymbolType' /\ CacheInv'
    <2>1. CacheInv'
      <3>1. CASE LoadFails(l)
        BY <3>1, CacheUnchanged DEF LoadFails
      <3>2. CASE Insert(l)
        BY <3>2, InsertAccounts
      <3>3. QED
        BY <1>5, <3>1, <3>2
    <2>2. ChangeType'
      BY <1>5 DEF LoadFails, Insert, artifacts, change, ChangeType
    <2>3. LookupType'
      <3>1. Return(l) /\ NoMap \in Maps
        BY <1>5 DEF LoadFails, Insert, Maps
      <3>2. QED
        BY <3>1 DEF Return, LGoto, LookupType
    <2>4. QED
      BY <2>1, <2>2, <2>3
  <1>6. ASSUME NEW c \in Changes, PutArtifact(c) \/ DeleteArtifact(c) \/ ChangeFails(c)
        PROVE  SymbolType' /\ CacheInv'
    <2> USE DEF PutArtifact, DeleteArtifact, PutObject, PutRow, DeleteRow, DeleteObject,
                ChangeFails
    <2>1. CacheInv'
      BY <1>6, CacheUnchanged
    <2>2. LookupType'
      BY <1>6 DEF lookup, LookupType, artifacts
    <2>3. ChangeType'
      <3>1. c \in Maps /\ NoMap \in Maps
        BY DEF Maps
      <3>2. CASE PutObject(c)
        BY <3>1, <3>2 DEF CGoto, ChangeType
      <3>3. CASE PutRow(c)
        BY <3>1, <3>3 DEF CGoto, ChangeType
      <3>4. CASE DeleteRow(c)
        BY <3>1, <3>4 DEF CGoto, ChangeType
      <3>5. CASE DeleteObject(c)
        BY <3>1, <3>5 DEF CGoto, ChangeType
      <3>6. CASE ChangeFails(c)
        BY <3>6 DEF CGoto, ChangeType, artifacts
      <3>7. QED
        BY <1>6, <3>2, <3>3, <3>4, <3>5, <3>6
    <2>4. QED
      BY <2>1, <2>2, <2>3
  <1>7. ASSUME NEW c \in Changes, ForgetRelease(c)
        PROVE  SymbolType' /\ CacheInv'
    <2>1. CacheInv'
      <3>1. ReplicaOf[c] \in Replicas /\ Forget(ReplicaOf[c], target[c][1])
        BY <1>7, SymbolAssumption DEF ForgetRelease
      <3>2. QED
        BY <3>1, ForgetAccounts
    <2>2. LookupType'
      BY <1>7 DEF ForgetRelease, lookup, LookupType
    <2>3. ChangeType'
      BY <1>7 DEF ForgetRelease, CGoto, ChangeType, artifacts
    <2>4. QED
      BY <2>1, <2>2, <2>3
  <1>8. QED
    BY <1>1, <1>2, <1>3, <1>4, <1>5, <1>6, <1>7 DEF Next, Resolve

LEMMA TypesInvariant == Spec => [](SymbolType /\ CacheInv)
  <1>1. SymbolType /\ CacheInv /\ [Next]_vars => (SymbolType /\ CacheInv)'
    BY NextTypes
  <1>2. QED
    BY InitTypes, <1>1, PTL DEF Spec

(* One index entry per list element.                                       *)
LEMMA KeysAreCounted ==
    ASSUME NEW q \in Seq(Entry), Distinct(q)
    PROVE  Cardinality(KeysOf(q)) = Len(q)
  <1> DEFINE L == Len(q)
  <1> DEFINE f == [i \in 1..L |-> q[i].key]
  <1>1. L \in Nat /\ DOMAIN q = 1..L
    BY LenProperties
  <1>2. f \in Bijection(1..L, KeysOf(q))
    <2>1. \A i \in 1..L : f[i] \in KeysOf(q)
      BY <1>1 DEF KeysOf, ToSet
    <2>2. \A i, j \in 1..L : f[i] = f[j] => i = j
      BY DEF Distinct
    <2>3. \A k \in KeysOf(q) : \E i \in 1..L : f[i] = k
      BY <1>1 DEF KeysOf, ToSet
    <2>4. QED
      BY <2>1, <2>2, <2>3 DEF Bijection, Injection, Surjection, IsInjective
  <1>3. IsFiniteSet(1..L) /\ Cardinality(1..L) = L
    BY <1>1, FS_Interval
  <1>4. ExistsBijection(1..L, KeysOf(q))
    BY <1>2 DEF ExistsBijection
  <1>5. QED
    BY <1>3, <1>4, FS_Bijection

(* The cache's three accounts - the bytes, the list and the map from keys  *)
(* to its elements - agree with each other and with the bounds, whichever  *)
(* lookups load the same map at once and whatever changes overlap.         *)
THEOREM CachesAddUp == Spec => []CacheAccounts
  <1>1. CacheInv => CacheAccounts
    <2> SUFFICES ASSUME CacheInv, NEW r \in Replicas
                 PROVE  /\ bytes[r] = Size(order[r])
                        /\ \/ Len(order[r]) <= 1
                           \/ bytes[r] <= MaxBytes /\ Len(order[r]) <= MaxEntries
                        /\ index[r] = KeysOf(order[r])
                        /\ Cardinality(index[r]) = Len(order[r])
      BY DEF CacheAccounts, BytesAreSizes, WithinBound, IndexIsOrder, KeysOf
    <2>1. Accounts(order[r], index[r], bytes[r])
      BY DEF CacheInv
    <2>2. QED
      BY <2>1, KeysAreCounted DEF Accounts, Fits
  <1>2. QED
    BY TypesInvariant, <1>1, PTL

-----------------------------------------------------------------------------
(* Rows and objects: but for keys that an upload and a deletion met about, *)
(* an upload that is about to write its row still has an object, and a     *)
(* deletion that has removed its row finds it removed until it is done.    *)

PairInv ==
    /\ Crossing \subseteq crossed
    /\ \A c \in Changes : cpc[c] = "putRow" /\ target[c] \notin crossed => objects[target[c]] # NoMap
    /\ \A c \in Changes : Deleting(c) /\ target[c] \notin crossed => rows[target[c]] = NoMap
    /\ RowHasObject

LEMMA NextPairs ==
    ASSUME SymbolType, PairInv, [Next]_vars
    PROVE  PairInv'
  <1> USE DEF Uploading, Deleting
  <1>1. ASSUME UNCHANGED <<artifacts, change, crossed>> PROVE PairInv'
    BY <1>1 DEF artifacts, change, PairInv, RowHasObject, Crossing
  <1>2. ASSUME NEW l \in Lookups, Resolve(l), NoteLookup(l) PROVE PairInv'
    BY <1>1, <1>2 DEF Resolve, Hit, Miss, CheckRow, GetObject, LoadFails, Insert, NoteLookup
  <1>3. ASSUME NEW c \in Changes, PutObject(c), NoteWrite(c) PROVE PairInv'
    <2>1. /\ c # NoMap /\ target' = target /\ rows' = rows /\ target[c] \in Keys
          /\ objects' = [objects EXCEPT ![target[c]] = c]
          /\ cpc' = [cpc EXCEPT ![c] = "putRow"]
          /\ crossed' = crossed \cup Crossing'
      BY <1>3, SymbolAssumption DEF PutObject, CGoto, SymbolType, ChangeType, NoteWrite
    <2>2. \A d \in Changes : d # c => cpc'[d] = cpc[d]
      BY <2>1 DEF SymbolType, ChangeType
    <2>3. cpc'[c] = "putRow" /\ \A k \in Keys : objects'[k] = IF k = target[c] THEN c ELSE objects[k]
      BY <2>1 DEF SymbolType, ChangeType
    <2>4. RowHasObject'
      BY <2>1, <2>3 DEF PairInv, RowHasObject
    <2>5. \A d \in Changes : target[d] \in Keys
      BY DEF SymbolType, ChangeType
    <2>6. QED
      BY <2>1, <2>2, <2>3, <2>4, <2>5 DEF PairInv
  <1>4. ASSUME NEW c \in Changes, PutRow(c), NoteWrite(c) PROVE PairInv'
    <2>1. /\ target' = target /\ objects' = objects /\ target[c] \in Keys /\ c # NoMap
          /\ rows' = [rows EXCEPT ![target[c]] = c] /\ cpc[c] = "putRow"
          /\ cpc' = [cpc EXCEPT ![c] = "forget"]
          /\ crossed' = crossed \cup Crossing'
      BY <1>4, SymbolAssumption DEF PutRow, CGoto, SymbolType, ChangeType, NoteWrite
    <2>2. \A d \in Changes : d # c => cpc'[d] = cpc[d]
      BY <2>1 DEF SymbolType, ChangeType
    <2>3. cpc'[c] = "forget" /\ \A k \in Keys : rows'[k] = IF k = target[c] THEN c ELSE rows[k]
      BY <2>1 DEF SymbolType, ChangeType
    <2>4. \A d \in Changes : cpc'[d] \in {"forgetDeleted", "deleteObject"} /\ target[d] = target[c]
                               => target[c] \in crossed'
      <3>1. \A d \in Changes : Deleting(d)' /\ target[d] = target[c] => target[c] \in Crossing'
        BY <2>1, <2>3 DEF Crossing
      <3>2. QED
        BY <2>1, <3>1
    <2>5. RowHasObject'
      BY <2>1, <2>3 DEF PairInv, RowHasObject
    <2>6. \A d \in Changes : target[d] \in Keys
      BY DEF SymbolType, ChangeType
    <2>7. QED
      BY <2>1, <2>2, <2>3, <2>4, <2>5, <2>6 DEF PairInv
  <1>5. ASSUME NEW c \in Changes, DeleteRow(c), NoteWrite(c) PROVE PairInv'
    <2>1. /\ target' = target /\ objects' = objects /\ target[c] \in Keys
          /\ rows' = [rows EXCEPT ![target[c]] = NoMap]
          /\ \/ cpc' = [cpc EXCEPT ![c] = "refused"]
             \/ cpc' = [cpc EXCEPT ![c] = "forgetDeleted"]
          /\ crossed' = crossed \cup Crossing'
      BY <1>5 DEF DeleteRow, CGoto, SymbolType, ChangeType, NoteWrite
    <2>2. \A d \in Changes : d # c => cpc'[d] = cpc[d]
      BY <2>1 DEF SymbolType, ChangeType
    <2>3. /\ cpc'[c] \in {"refused", "forgetDeleted"}
          /\ \A k \in Keys : rows'[k] = IF k = target[c] THEN NoMap ELSE rows[k]
      BY <2>1 DEF SymbolType, ChangeType
    <2>4. RowHasObject'
      BY <2>1, <2>3 DEF PairInv, RowHasObject
    <2>5. \A d \in Changes : target[d] \in Keys
      BY DEF SymbolType, ChangeType
    <2>6. QED
      BY <2>1, <2>2, <2>3, <2>4, <2>5 DEF PairInv
  <1>6. ASSUME NEW c \in Changes, DeleteObject(c), NoteWrite(c) PROVE PairInv'
    <2>1. /\ target' = target /\ rows' = rows /\ target[c] \in Keys /\ cpc[c] = "deleteObject"
          /\ objects' = [objects EXCEPT ![target[c]] = NoMap]
          /\ cpc' = [cpc EXCEPT ![c] = "done"]
          /\ crossed' = crossed \cup Crossing'
      BY <1>6 DEF DeleteObject, CGoto, SymbolType, ChangeType, NoteWrite
    <2>2. \A d \in Changes : d # c => cpc'[d] = cpc[d]
      BY <2>1 DEF SymbolType, ChangeType
    <2>3. cpc'[c] = "done" /\ \A k \in Keys : objects'[k] = IF k = target[c] THEN NoMap ELSE objects[k]
      BY <2>1 DEF SymbolType, ChangeType
    <2>4. target[c] \notin crossed => rows[target[c]] = NoMap
      BY <2>1 DEF PairInv
    <2>5. \A d \in Changes : cpc[d] = "putRow" /\ target[d] = target[c] => target[c] \in crossed
      <3>1. \A d \in Changes : cpc[d] = "putRow" /\ target[d] = target[c] => target[c] \in Crossing
        BY <2>1 DEF Crossing
      <3>2. QED
        BY <3>1 DEF PairInv
    <2>6. RowHasObject'
      BY <2>1, <2>3, <2>4 DEF PairInv, RowHasObject
    <2>7. \A d \in Changes : target[d] \in Keys
      BY DEF SymbolType, ChangeType
    <2>8. QED
      BY <2>1, <2>2, <2>3, <2>5, <2>6, <2>7 DEF PairInv
  <1>7. ASSUME NEW c \in Changes, ForgetRelease(c) \/ ChangeFails(c), crossed' = crossed PROVE PairInv'
    <2>1. /\ target' = target /\ rows' = rows /\ objects' = objects
          /\ \/ cpc[c] = "forgetDeleted" /\ cpc' = [cpc EXCEPT ![c] = "deleteObject"]
             \/ cpc' = [cpc EXCEPT ![c] = "done"]
             \/ cpc' = [cpc EXCEPT ![c] = "failed"]
      BY <1>7 DEF ForgetRelease, ChangeFails, CGoto, artifacts
    <2>2. \A d \in Changes : d # c => cpc'[d] = cpc[d]
      BY <2>1 DEF SymbolType, ChangeType
    <2>3. \/ cpc[c] = "forgetDeleted" /\ cpc'[c] = "deleteObject"
          \/ cpc'[c] \in {"done", "failed"}
      BY <2>1 DEF SymbolType, ChangeType
    <2>4. RowHasObject'
      BY <1>7, <2>1 DEF PairInv, RowHasObject
    <2>5. \A d \in Changes : /\ Uploading(d)' => Uploading(d)
                             /\ Deleting(d)' => Deleting(d)
                             /\ cpc'[d] = "putRow" => cpc[d] = "putRow"
      BY <2>2, <2>3
    <2>6. Crossing' \subseteq Crossing
      BY <2>1, <2>5 DEF Crossing
    <2>7. QED
      BY <1>7, <2>1, <2>4, <2>5, <2>6 DEF PairInv
  <1>8. CASE UNCHANGED vars
    BY <1>1, <1>8 DEF vars, program, history
  <1>9. QED
    BY <1>2, <1>3, <1>4, <1>5, <1>6, <1>7, <1>8
       DEF Next, PutArtifact, DeleteArtifact, NoteForget, history

LEMMA PairInvariant == Spec => [](SymbolType /\ CacheInv /\ PairInv)
  <1>1. Init => PairInv
    BY DEF Init, PairInv, RowHasObject, Crossing, Uploading, Deleting
  <1>2. SymbolType /\ PairInv /\ [Next]_vars => PairInv'
    BY NextPairs
  <1>3. QED
    BY TypesInvariant, <1>1, <1>2, PTL DEF Spec

(* A row never points at nothing, whichever calls fail in between, unless  *)
(* an upload and a deletion of its file were once under way together:      *)
(* uploads write the object first and deletions remove the row first       *)
(* (PutArtifact, DeleteArtifact).                                          *)
THEOREM RowsHaveObjects == Spec => []RowHasObject
  <1>1. PairInv => RowHasObject
    BY DEF PairInv
  <1>2. QED
    BY PairInvariant, <1>1, PTL

-----------------------------------------------------------------------------
(* Stale maps. *)

(* Replica r has been told of all that was written of the key, and what    *)
(* was written is whole.                                                   *)
Told(r, k) ==
    /\ k \notin crossed /\ <<r, k>> \notin behind
    /\ \A c \in Changes : target[c] = k /\ ReplicaOf[c] = r =>
          cpc[c] \in {"idle", "done", "refused", "deleteObject"}

(* Entries agree with what is stored, and so will the maps under way.      *)
EntriesFresh ==
    \A r \in Replicas : \A e \in ToSet(order[r]) :
        Told(r, e.key) => e.map = Stored(rows, objects, e.key)

LoadsFresh ==
    \A l \in Lookups \ passed :
        Told(ReplicaOf[l], wanted[l]) =>
            /\ lpc[l] = "get" => rows[wanted[l]] # NoMap
            /\ lpc[l] = "insert" => Parsed(loaded[l]) = Stored(rows, objects, wanted[l])

StaleInv == EntriesFresh /\ LoadsFresh

LEMMA EntryKeys ==
    ASSUME CacheInv, NEW r \in Replicas, NEW e \in ToSet(order[r])
    PROVE  e.key \in Keys
  <1>1. order[r] \in Seq(Entry)
    BY DEF CacheInv, CacheType
  <1>2. PICK i \in 1..Len(order[r]) : e = order[r][i]
    BY <1>1, LenProperties DEF ToSet
  <1>3. QED
    BY <1>1, <1>2, EntriesOf

(* A step of a lookup leaves what is stored alone.                         *)
LEMMA LookupsKeepFresh ==
    ASSUME SymbolType, CacheInv, StaleInv, NEW l \in Lookups, Resolve(l), NoteLookup(l)
    PROVE  StaleInv'
  <1>1. rows' = rows /\ objects' = objects /\ cpc' = cpc /\ target' = target
    BY DEF Resolve, Hit, Miss, CheckRow, GetObject, LoadFails, Insert, artifacts, change
  <1>2. Parsed(NoMap) = NoMap
    BY DEF Parsed
  <1>3. crossed' = crossed /\ behind \subseteq behind'
    BY DEF NoteLookup
  <1>4. \A r, k : Told(r, k)' => Told(r, k)
    BY <1>1, <1>3 DEF Told
  <1>5. EntriesFresh'
    <2> SUFFICES ASSUME NEW r \in Replicas, NEW e \in ToSet(order'[r]), Told(r, e.key)'
                 PROVE  e.map = Stored(rows, objects, e.key)
      BY <1>1 DEF EntriesFresh, Stored
    <2>1. CASE e \in ToSet(order[r])
      BY <1>4, <2>1 DEF StaleInv, EntriesFresh
    <2>2. ASSUME NEW key \in Keys, Hit(l, key) PROVE e \in ToSet(order[r])
      <3>1. ReplicaOf[l] \in Replicas /\ key \in index[ReplicaOf[l]] /\ Touch(ReplicaOf[l], key)
        BY <2>2, SymbolAssumption DEF Hit
      <3>2. QED
        BY <3>1, TouchAccounts
    <2>3. ASSUME Insert(l), e \notin ToSet(order[r]) PROVE e.map = Stored(rows, objects, e.key)
      <3>1. r = ReplicaOf[l] /\ wanted[l] \notin index[r] /\ e = NewEntry(wanted[l], loaded[l])
        BY <2>3, InsertAccounts
      <3>2. wanted[l] \in Keys /\ loaded[l] \in Maps /\ lpc[l] = "insert"
        BY <2>3 DEF Insert, SymbolType, LookupType
      <3>3. e.key = wanted[l] /\ e.map = Parsed(loaded[l])
        BY <3>1, <3>2, NewEntryIsEntry
      <3>4. l \notin passed
        <4> SUFFICES ASSUME l \in passed PROVE FALSE
          OBVIOUS
        <4>1. <<r, e.key>> \in behind'
          BY <3>1, <3>2, <3>3 DEF NoteLookup
        <4>2. QED
          BY <4>1 DEF Told
      <3>5. QED
        BY <1>4, <3>1, <3>2, <3>3, <3>4 DEF StaleInv, LoadsFresh
    <2>4. ASSUME UNCHANGED cache PROVE e \in ToSet(order[r])
      BY <2>4 DEF cache
    <2>5. QED
      BY <2>1, <2>2, <2>3, <2>4 DEF Resolve, Miss, CheckRow, GetObject, LoadFails
  <1>6. LoadsFresh'
    <2> SUFFICES ASSUME NEW k \in Lookups, k \notin passed', Told(ReplicaOf[k], wanted[k])'
                 PROVE  /\ lpc'[k] = "get" => rows[wanted'[k]] # NoMap
                        /\ lpc'[k] = "insert" => Parsed(loaded'[k]) = Stored(rows, objects, wanted'[k])
      BY <1>1 DEF LoadsFresh, Stored
    <2>1. CASE lpc'[k] = lpc[k] /\ wanted'[k] = wanted[k] /\ loaded'[k] = loaded[k] /\ k \notin passed
      BY <1>4, <2>1 DEF StaleInv, LoadsFresh
    <2>2. CASE k # l
      <3>1. lpc'[k] = lpc[k] /\ wanted'[k] = wanted[k] /\ loaded'[k] = loaded[k]
        BY <2>2 DEF Resolve, Hit, Miss, CheckRow, GetObject, LoadFails, Insert, Return,
                    LGoto, lookup, SymbolType, LookupType
      <3>2. k \notin passed
        BY <2>2 DEF NoteLookup
      <3>3. QED
        BY <2>1, <3>1, <3>2
    <2>3. CASE k = l /\ lpc'[k] # "idle"
      <3>a. k \notin passed
        BY <2>3 DEF NoteLookup
      <3>1. ASSUME NEW key \in Keys, Hit(l, key)
            PROVE  lpc'[k] = lpc[k] /\ wanted'[k] = wanted[k] /\ loaded'[k] = loaded[k]
        BY <3>1 DEF Hit, lookup
      <3>2. ASSUME NEW key \in Keys, Miss(l, key) PROVE lpc'[k] = "row"
        BY <2>3, <3>2 DEF Miss, LGoto, SymbolType, LookupType
      <3>3. ASSUME LoadFails(l) \/ Insert(l) PROVE lpc'[k] = "idle"
        BY <2>3, <3>3 DEF LoadFails, Insert, Return, LGoto, SymbolType, LookupType
      <3>4. CASE CheckRow(l)
        <4>1. wanted'[k] = wanted[k] /\ loaded'[k] = NoMap
          BY <2>3, <3>4 DEF CheckRow, SymbolType, LookupType
        <4>2. CASE rows[wanted[k]] = NoMap
          <5>1. lpc'[k] = "insert"
            BY <2>3, <3>4, <4>2 DEF CheckRow, LGoto, SymbolType, LookupType
          <5>2. QED
            BY <1>2, <4>1, <4>2, <5>1 DEF Stored
        <4>3. CASE rows[wanted[k]] # NoMap
          <5>1. lpc'[k] = "get"
            BY <2>3, <3>4, <4>3 DEF CheckRow, LGoto, SymbolType, LookupType
          <5>2. QED
            BY <4>1, <4>3, <5>1
        <4>4. QED
          BY <4>2, <4>3
      <3>5. CASE GetObject(l)
        <4>1. /\ lpc[k] = "get" /\ lpc'[k] = "insert" /\ wanted'[k] = wanted[k]
              /\ loaded'[k] = objects[wanted[k]]
          BY <2>3, <3>5 DEF GetObject, LGoto, SymbolType, LookupType
        <4>2. rows[wanted[k]] # NoMap
          BY <1>4, <3>a, <4>1 DEF StaleInv, LoadsFresh
        <4>3. QED
          BY <4>1, <4>2 DEF Stored
      <3>6. QED
        BY <2>1, <3>a, <3>1, <3>2, <3>3, <3>4, <3>5 DEF Resolve
    <2>4. CASE lpc'[k] = "idle"
      BY <2>4
    <2>5. QED
      BY <2>2, <2>3, <2>4
  <1>7. QED
    BY <1>5, <1>6 DEF StaleInv

(* A change that leaves the cache alone is not told of yet, or writes      *)
(* nothing that is looked at.                                              *)
LEMMA ChangesKeepFresh ==
    ASSUME SymbolType, CacheInv, StaleInv, UNCHANGED <<cache, lookup, passed>>,
           \A r \in Replicas, k \in Keys : Told(r, k)' =>
              /\ Told(r, k)
              /\ (rows'[k] = NoMap <=> rows[k] = NoMap)
              /\ Stored(rows', objects', k) = Stored(rows, objects, k)
    PROVE  StaleInv'
  <1>1. order' = order /\ lpc' = lpc /\ wanted' = wanted /\ loaded' = loaded /\ passed' = passed
    BY DEF cache, lookup
  <1>2. EntriesFresh'
    <2> SUFFICES ASSUME NEW r \in Replicas, NEW e \in ToSet(order[r]), Told(r, e.key)'
                 PROVE  e.map = Stored(rows', objects', e.key)
      BY <1>1 DEF EntriesFresh, Stored
    <2>1. e.key \in Keys
      BY EntryKeys
    <2>2. QED
      BY <2>1 DEF StaleInv, EntriesFresh
  <1>3. LoadsFresh'
    <2> SUFFICES ASSUME NEW l \in Lookups, l \notin passed, lpc[l] \in {"get", "insert"},
                        Told(ReplicaOf[l], wanted[l])'
                 PROVE  /\ lpc[l] = "get" => rows'[wanted[l]] # NoMap
                        /\ lpc[l] = "insert" =>
                               Parsed(loaded[l]) = Stored(rows', objects', wanted[l])
      BY <1>1 DEF LoadsFresh, Stored
    <2>1. wanted[l] \in Keys /\ ReplicaOf[l] \in Replicas
      BY SymbolAssumption DEF SymbolType, LookupType
    <2>2. Told(ReplicaOf[l], wanted[l])
          /\ (rows'[wanted[l]] = NoMap <=> rows[wanted[l]] = NoMap)
          /\ Stored(rows', objects', wanted[l]) = Stored(rows, objects, wanted[l])
      <3>1. PICK k \in Keys : k = wanted[l]
        BY <2>1
      <3>2. Told(ReplicaOf[l], k)'
        BY <1>1, <3>1 DEF Told
      <3>3. QED
        BY <2>1, <3>1, <3>2
    <2>3. QED
      BY <2>2 DEF StaleInv, LoadsFresh
  <1>4. QED
    BY <1>2, <1>3 DEF StaleInv

(* A replica that is not the one of the change is behind, or nothing was   *)
(* written; on its own, the change is to tell of it.                       *)
LEMMA WritesKeepFresh ==
    ASSUME SymbolType, CacheInv, StaleInv, NEW c \in Changes, NoteWrite(c),
           UNCHANGED <<cache, lookup, target>>,
           \A d \in Changes : d # c => cpc'[d] = cpc[d],
           \A k \in Keys : k # target[c] => rows'[k] = rows[k] /\ objects'[k] = objects[k],
           Told(ReplicaOf[c], target[c])' =>
              /\ Told(ReplicaOf[c], target[c])
              /\ (rows'[target[c]] = NoMap <=> rows[target[c]] = NoMap)
              /\ Stored(rows', objects', target[c]) = Stored(rows, objects, target[c])
    PROVE  StaleInv'
  <1>1. target' = target /\ passed' = passed /\ crossed \subseteq crossed' /\ behind \subseteq behind'
    BY DEF NoteWrite
  <1>2. ASSUME NEW r \in Replicas, NEW k \in Keys, Told(r, k)', k # target[c] \/ r # ReplicaOf[c]
        PROVE  Told(r, k) /\ rows'[k] = rows[k] /\ objects'[k] = objects[k]
    <2>1. Told(r, k)
      BY <1>1, <1>2 DEF Told
    <2>2. CASE k # target[c]
      BY <2>1, <2>2
    <2>3. CASE k = target[c] /\ r # ReplicaOf[c]
      <3>1. <<r, k>> \notin behind'
        BY <1>2 DEF Told
      <3>2. artifacts' = artifacts
        BY <2>3, <3>1 DEF NoteWrite
      <3>3. QED
        BY <2>1, <3>2 DEF artifacts
    <2>4. QED
      BY <1>2, <2>2, <2>3
  <1>3. \A r \in Replicas, k \in Keys : Told(r, k)' =>
              /\ Told(r, k)
              /\ (rows'[k] = NoMap <=> rows[k] = NoMap)
              /\ Stored(rows', objects', k) = Stored(rows, objects, k)
    <2> TAKE r \in Replicas, k \in Keys
    <2> HAVE Told(r, k)'
    <2>1. CASE k # target[c] \/ r # ReplicaOf[c]
      BY <1>2, <2>1 DEF Stored
    <2>2. CASE k = target[c] /\ r = ReplicaOf[c]
      BY <2>2
    <2>3. QED
      BY <2>1, <2>2
  <1>4. QED
    BY <1>1, <1>3, ChangesKeepFresh

(* A Forget drops the entries of the release, and remembers its loads.     *)
LEMMA ForgetKeepsFresh ==
    ASSUME SymbolType, CacheInv, StaleInv, NEW c \in Changes, ForgetRelease(c), NoteForget(c)
    PROVE  StaleInv'
  <1> DEFINE release == target[c][1]
  <1> DEFINE home == ReplicaOf[c]
  <1>1. /\ rows' = rows /\ objects' = objects /\ target' = target /\ lpc' = lpc
        /\ wanted' = wanted /\ loaded' = loaded
        /\ \E label : cpc' = [cpc EXCEPT ![c] = label]
    BY DEF ForgetRelease, CGoto, artifacts, lookup
  <1>2. home \in Replicas /\ Forget(home, release)
    BY SymbolAssumption DEF ForgetRelease
  <1>3. /\ crossed' = crossed /\ passed' = passed \cup Loading(home, release)
        /\ behind' = {b \in behind : b[1] # home \/ ~OfRelease(b[2], release)}
    BY DEF NoteForget
  <1>4. \A d \in Changes : d # c => cpc'[d] = cpc[d]
    BY <1>1 DEF SymbolType, ChangeType
  <1>5. ASSUME NEW r, NEW k, r # home \/ ~OfRelease(k, release), Told(r, k)'
        PROVE  Told(r, k)
    <2>1. k \notin crossed
      BY <1>3, <1>5 DEF Told
    <2>2. <<r, k>> \notin behind
      BY <1>3, <1>5 DEF Told
    <2>3. ASSUME NEW d \in Changes, target[d] = k, ReplicaOf[d] = r PROVE d # c
      BY <1>5, <2>3 DEF OfRelease
    <2>4. QED
      BY <1>1, <1>4, <1>5, <2>1, <2>2, <2>3 DEF Told
  <1>6. EntriesFresh'
    <2> SUFFICES ASSUME NEW r \in Replicas, NEW e \in ToSet(order'[r]), Told(r, e.key)'
                 PROVE  e.map = Stored(rows, objects, e.key)
      BY <1>1 DEF EntriesFresh, Stored
    <2> HIDE DEF release, home
    <2>1. e \in ToSet(order[r]) /\ (r = home => ~OfRelease(e.key, release))
      BY <1>2, ForgetAccounts
    <2>2. Told(r, e.key)
      BY <1>5, <2>1
    <2>3. QED
      BY <2>1, <2>2 DEF StaleInv, EntriesFresh
  <1>7. LoadsFresh'
    <2> SUFFICES ASSUME NEW l \in Lookups, l \notin passed', lpc[l] \in {"get", "insert"},
                        Told(ReplicaOf[l], wanted[l])'
                 PROVE  /\ lpc[l] = "get" => rows[wanted[l]] # NoMap
                        /\ lpc[l] = "insert" =>
                               Parsed(loaded[l]) = Stored(rows, objects, wanted[l])
      BY <1>1 DEF LoadsFresh, Stored
    <2> HIDE DEF release, home
    <2>1. l \notin passed /\ (ReplicaOf[l] = home => ~OfRelease(wanted[l], release))
      BY <1>3 DEF Loading
    <2>2. Told(ReplicaOf[l], wanted[l])
      <3>1. PICK k \in Keys : k = wanted[l]
        BY DEF SymbolType, LookupType
      <3>2. Told(ReplicaOf[l], k)'
        BY <1>1, <3>1 DEF Told
      <3>3. QED
        BY <1>5, <2>1, <3>1, <3>2
    <2>3. QED
      BY <2>1, <2>2 DEF StaleInv, LoadsFresh
  <1>8. QED
    BY <1>6, <1>7 DEF StaleInv

LEMMA NextStale ==
    ASSUME SymbolType, CacheInv, PairInv, StaleInv, [Next]_vars
    PROVE  StaleInv'
  <1>1. CASE UNCHANGED vars
    <2>1. /\ UNCHANGED <<cache, lookup, passed>> /\ target' = target /\ cpc' = cpc /\ rows' = rows
          /\ objects' = objects /\ crossed' = crossed /\ behind' = behind
      BY <1>1 DEF vars, program, history, artifacts, change
    <2>2. QED
      BY <2>1, ChangesKeepFresh DEF Told, Stored
  <1>2. ASSUME NEW c \in Changes, PutObject(c), NoteWrite(c) PROVE StaleInv'
    <2>1. /\ target' = target /\ rows' = rows /\ target[c] \in Keys /\ UNCHANGED <<cache, lookup>>
          /\ objects' = [objects EXCEPT ![target[c]] = c]
          /\ cpc' = [cpc EXCEPT ![c] = "putRow"]
      BY <1>2 DEF PutObject, CGoto, SymbolType, ChangeType
    <2>2. cpc'[c] = "putRow" /\ \A d \in Changes : d # c => cpc'[d] = cpc[d]
      BY <2>1 DEF SymbolType, ChangeType
    <2>3. \A k \in Keys : k # target[c] => objects'[k] = objects[k]
      BY <2>1 DEF SymbolType, ChangeType
    <2>4. ~Told(ReplicaOf[c], target[c])'
      BY <2>1, <2>2 DEF Told
    <2>5. QED
      BY <1>2, <2>1, <2>2, <2>3, <2>4, WritesKeepFresh
  <1>3. ASSUME NEW c \in Changes, PutRow(c), NoteWrite(c) PROVE StaleInv'
    <2>1. /\ target' = target /\ objects' = objects /\ target[c] \in Keys
          /\ UNCHANGED <<cache, lookup>>
          /\ rows' = [rows EXCEPT ![target[c]] = c]
          /\ cpc' = [cpc EXCEPT ![c] = "forget"]
      BY <1>3 DEF PutRow, CGoto, SymbolType, ChangeType
    <2>2. cpc'[c] = "forget" /\ \A d \in Changes : d # c => cpc'[d] = cpc[d]
      BY <2>1 DEF SymbolType, ChangeType
    <2>3. \A k \in Keys : k # target[c] => rows'[k] = rows[k]
      BY <2>1 DEF SymbolType, ChangeType
    <2>4. ~Told(ReplicaOf[c], target[c])'
      BY <2>1, <2>2 DEF Told
    <2>5. QED
      BY <1>3, <2>1, <2>2, <2>3, <2>4, WritesKeepFresh
  <1>4. ASSUME NEW c \in Changes, DeleteRow(c), NoteWrite(c) PROVE StaleInv'
    <2>1. /\ target' = target /\ objects' = objects /\ target[c] \in Keys
          /\ UNCHANGED <<cache, lookup>>
          /\ rows' = [rows EXCEPT ![target[c]] = NoMap] /\ cpc[c] = "idle"
          /\ cpc' = [cpc EXCEPT ![c] = IF rows[target[c]] = NoMap THEN "refused"
                                       ELSE "forgetDeleted"]
      BY <1>4 DEF DeleteRow, CGoto, SymbolType, ChangeType
    <2>2. /\ \A d \in Changes : d # c => cpc'[d] = cpc[d]
          /\ cpc'[c] = IF rows[target[c]] = NoMap THEN "refused" ELSE "forgetDeleted"
      BY <2>1 DEF SymbolType, ChangeType
    <2>3. /\ rows'[target[c]] = NoMap
          /\ \A k \in Keys : k # target[c] => rows'[k] = rows[k]
      BY <2>1 DEF SymbolType, ChangeType
    <2>4. ASSUME Told(ReplicaOf[c], target[c])'
          PROVE  /\ Told(ReplicaOf[c], target[c]) /\ rows[target[c]] = NoMap
                 /\ Stored(rows', objects', target[c]) = Stored(rows, objects, target[c])
      <3>1. rows[target[c]] = NoMap
        BY <2>1, <2>2, <2>4 DEF Told
      <3>2. Told(ReplicaOf[c], target[c])
        BY <1>4, <2>1, <2>2, <2>4 DEF Told, NoteWrite
      <3>3. QED
        BY <2>1, <2>3, <3>1, <3>2 DEF Stored
    <2>5. QED
      BY <1>4, <2>1, <2>2, <2>3, <2>4, WritesKeepFresh
  <1>5. ASSUME NEW c \in Changes, DeleteObject(c), NoteWrite(c) PROVE StaleInv'
    <2>1. /\ target' = target /\ rows' = rows /\ target[c] \in Keys
          /\ UNCHANGED <<cache, lookup>> /\ cpc[c] = "deleteObject"
          /\ objects' = [objects EXCEPT ![target[c]] = NoMap]
          /\ cpc' = [cpc EXCEPT ![c] = "done"]
          /\ (target[c] \notin crossed => rows[target[c]] = NoMap)
      BY <1>5 DEF DeleteObject, CGoto, SymbolType, ChangeType, PairInv, Deleting
    <2>2. cpc'[c] = "done" /\ \A d \in Changes : d # c => cpc'[d] = cpc[d]
      BY <2>1 DEF SymbolType, ChangeType
    <2>3. \A k \in Keys : k # target[c] => objects'[k] = objects[k]
      BY <2>1 DEF SymbolType, ChangeType
    <2>4. ASSUME Told(ReplicaOf[c], target[c])'
          PROVE  /\ Told(ReplicaOf[c], target[c])
                 /\ Stored(rows', objects', target[c]) = Stored(rows, objects, target[c])
      <3>1. Told(ReplicaOf[c], target[c])
        BY <1>5, <2>1, <2>2, <2>4 DEF Told, NoteWrite
      <3>2. rows[target[c]] = NoMap
        BY <2>1, <3>1 DEF Told
      <3>3. QED
        BY <2>1, <3>1, <3>2 DEF Stored
    <2>5. QED
      BY <1>5, <2>1, <2>2, <2>3, <2>4, WritesKeepFresh
  <1>6. ASSUME NEW c \in Changes, ChangeFails(c), UNCHANGED history PROVE StaleInv'
    <2>1. /\ UNCHANGED <<artifacts, cache, lookup, target>>
          /\ cpc' = [cpc EXCEPT ![c] = "failed"]
      BY <1>6 DEF ChangeFails, CGoto
    <2>2. cpc'[c] = "failed" /\ \A d \in Changes : d # c => cpc'[d] = cpc[d]
      BY <2>1 DEF SymbolType, ChangeType
    <2>3. \A r, k : Told(r, k)' => Told(r, k)
      BY <1>6, <2>1, <2>2 DEF Told, history
    <2>4. QED
      BY <1>6, <2>1, <2>3, ChangesKeepFresh DEF artifacts, history, Stored
  <1>7. ASSUME NEW l \in Lookups, Resolve(l), NoteLookup(l) PROVE StaleInv'
    BY <1>7, LookupsKeepFresh
  <1>8. ASSUME NEW c \in Changes, ForgetRelease(c), NoteForget(c) PROVE StaleInv'
    BY <1>8, ForgetKeepsFresh
  <1>9. QED
    BY <1>1, <1>2, <1>3, <1>4, <1>5, <1>6, <1>7, <1>8 DEF Next, PutArtifact, DeleteArtifact

(* A re-uploaded or deleted map takes effect without a restart: when no    *)
(* change of a key is going on, what a cache holds for it is what is       *)
(* stored, unless a load that a Forget passed has inserted it, another     *)
(* replica has changed it, or an upload and a deletion of it have met      *)
(* (Cache.consumer, Cache.Forget, PutArtifact, DeleteArtifact).            *)
THEOREM ToldCachesAreFresh == Spec => []NoStaleMap
  <1>1. Init => StaleInv
    <2>1. ToSet(<<>>) = {}
      BY DEF ToSet
    <2>2. QED
      BY <2>1 DEF Init, StaleInv, EntriesFresh, LoadsFresh
  <1>2. SymbolType /\ CacheInv /\ PairInv /\ StaleInv /\ [Next]_vars => StaleInv'
    BY NextStale
  <1>3. StaleInv => NoStaleMap
    <2> SUFFICES ASSUME StaleInv, NEW r \in Replicas, NEW e \in ToSet(order[r]),
                        Settled(e.key), e.key \notin crossed, <<r, e.key>> \notin behind
                 PROVE  e.map = Stored(rows, objects, e.key)
      BY DEF NoStaleMap
    <2>1. Told(r, e.key)
      BY DEF Settled, Told
    <2>2. QED
      BY <2>1 DEF StaleInv, EntriesFresh
  <1>4. QED
    BY PairInvariant, <1>1, <1>2, <1>3, PTL DEF Spec
=============================================================================
