--------------------------- MODULE MessageLinkProofs ---------------------------
(***************************************************************************)
(* The linker keeps its promises for every request it admits: any scopes,  *)
(* catalogs, references, selectors, policies and delivery graphs.          *)
(*                                                                         *)
(* First the automaton of match_pattern is shown to find exactly the keys  *)
(* a pattern covers; the rest reasons about keys by what selectors mean.   *)
(***************************************************************************)
EXTENDS MessageLinkProperties, FiniteSetTheorems, WellFoundedInduction, TLAPS

-----------------------------------------------------------------------------
(* Natural numbers: a least one, and induction over a set of them.          *)
LEMMA LeastOfNaturals ==
    ASSUME NEW S \in SUBSET Nat, S # {}
    PROVE  \E m \in S : \A n \in S : m <= n
  <1> DEFINE R == {p \in Nat \X Nat : p[1] < p[2]}
  <1>1. R = OpToRel(<, Nat)
    BY DEF OpToRel
  <1>2. IsWellFoundedOn(R, Nat)
    BY ONLY <1>1, NatLessThanWellFounded, Zenon
  <1>3. PICK m \in S : \A n \in S : <<n, m>> \notin R
    <2> HIDE DEF R
    <2> QED BY <1>2, WFMin
  <1>4. ASSUME NEW n \in S PROVE m <= n
    <2>1. n \in Nat /\ m \in Nat /\ <<n, m>> \notin R
      BY <1>3
    <2>2. ~(n < m)
      BY <2>1
    <2> QED BY <2>1, <2>2
  <1> QED BY <1>4

LEMMA InductionOnNaturals ==
    ASSUME NEW S, 0 \in S, \A n \in Nat : n \in S => n + 1 \in S
    PROVE  Nat \subseteq S
  <1> SUFFICES ASSUME Nat \ S # {} PROVE FALSE
    OBVIOUS
  <1>1. PICK m \in Nat \ S : \A n \in Nat \ S : m <= n
    BY LeastOfNaturals
  <1>2. m # 0 /\ m - 1 \in Nat
    BY <1>1
  <1>3. m - 1 \in S
    BY <1>1, <1>2
  <1>4. (m - 1) + 1 \in S
    BY <1>2, <1>3
  <1> QED BY <1>1, <1>4

-----------------------------------------------------------------------------
(* What the first p tokens of a pattern can stand for.                      *)

\* The first p tokens cover the first n tokens of the key.
PartCovers(pattern, key, p, n) ==
    \E cut \in [0..p -> 0..Len(key)] :
        /\ cut[0] = 0 /\ cut[p] = n
        /\ \A i \in 1..p :
              /\ cut[i - 1] <= cut[i]
              /\ pattern[i] # AnyMany => cut[i] = cut[i - 1] + 1
              /\ pattern[i].kind = "literal" => key[cut[i]] = pattern[i].token

\* One token of the pattern stands for one token of the key.
Fits(pattern, p, token) ==
    pattern[p] # AnyMany /\ (pattern[p].kind = "literal" => token = pattern[p].token)

LEMMA PatternShape ==
    ASSUME NEW pattern, ValidPattern(pattern)
    PROVE  /\ Len(pattern) \in Nat /\ DOMAIN pattern = 1..Len(pattern) /\ Len(pattern) # 0
           /\ \A p \in 1..Len(pattern) :
                 pattern[p] \in {AnyOne, AnyMany} \/ pattern[p] = Literal(pattern[p].token)
  <1>1. pattern \in Seq(ToSet(pattern)) /\ pattern # <<>>
    BY DEF ValidPattern, IsVector
  <1>2. Len(pattern) \in Nat /\ DOMAIN pattern = 1..Len(pattern) /\ Len(pattern) # 0
    BY <1>1
  <1>3. \A p \in 1..Len(pattern) : pattern[p] \in ToSet(pattern)
    BY <1>2 DEF ToSet
  <1> QED BY <1>2, <1>3 DEF ValidPattern

LEMMA FitsIsStep ==
    ASSUME NEW pattern, ValidPattern(pattern), NEW p \in 1..Len(pattern), NEW token
    PROVE  pattern[p] \in {Literal(token), AnyOne} <=> Fits(pattern, p, token)
  <1>1. CASE pattern[p] = AnyOne
    BY <1>1 DEF AnyOne, AnyMany, Fits
  <1>2. CASE pattern[p] = AnyMany
    BY <1>2 DEF AnyOne, AnyMany, Literal, Fits
  <1>3. CASE pattern[p] = Literal(pattern[p].token)
    <2>1. pattern[p] # AnyOne /\ pattern[p] # AnyMany /\ pattern[p].kind = "literal"
      BY <1>3 DEF AnyOne, AnyMany, Literal
    <2>2. pattern[p] = Literal(token) <=> token = pattern[p].token
      BY <1>3 DEF Literal
    <2> QED BY <2>1, <2>2 DEF Fits
  <1> QED BY <1>1, <1>2, <1>3, PatternShape

LEMMA CoverNothing ==
    ASSUME NEW pattern, NEW key, Len(key) \in Nat, NEW n \in 0..Len(key)
    PROVE  PartCovers(pattern, key, 0, n) <=> n = 0
  <1>1. ASSUME n = 0 PROVE PartCovers(pattern, key, 0, n)
    <2> DEFINE cut == [i \in 0..0 |-> 0]
    <2>1. cut \in [0..0 -> 0..Len(key)] /\ cut[0] = 0 /\ 1..0 = {}
      OBVIOUS
    <2> QED BY <1>1, <2>1 DEF PartCovers
  <1> QED BY <1>1 DEF PartCovers

LEMMA CoverOne ==
    ASSUME NEW pattern, ValidPattern(pattern), NEW key, Len(key) \in Nat,
           NEW p \in 1..Len(pattern), NEW n \in 0..Len(key), pattern[p] # AnyMany
    PROVE  PartCovers(pattern, key, p, n) <=>
              n # 0 /\ PartCovers(pattern, key, p - 1, n - 1) /\ Fits(pattern, p, key[n])
  <1> DEFINE N == Len(key)
             Good(cut, i) == /\ cut[i - 1] <= cut[i]
                             /\ pattern[i] # AnyMany => cut[i] = cut[i - 1] + 1
                             /\ pattern[i].kind = "literal" => key[cut[i]] = pattern[i].token
  <1>0. p \in Nat /\ p - 1 \in Nat /\ p # 0 /\ n \in Nat
    BY PatternShape
  <1>1. ASSUME PartCovers(pattern, key, p, n)
        PROVE  n # 0 /\ PartCovers(pattern, key, p - 1, n - 1) /\ Fits(pattern, p, key[n])
    <2>1. PICK cut \in [0..p -> 0..N] : cut[0] = 0 /\ cut[p] = n /\ \A i \in 1..p : Good(cut, i)
      BY <1>1 DEF PartCovers
    <2>2. Good(cut, p) /\ cut[p - 1] \in 0..N
      BY <2>1, <1>0
    <2>3. n = cut[p - 1] + 1 /\ n # 0 /\ cut[p - 1] = n - 1
      BY <2>1, <2>2, <1>0
    <2>4. Fits(pattern, p, key[n])
      BY <2>1, <2>2 DEF Fits
    <2> DEFINE cut2 == [i \in 0..(p - 1) |-> cut[i]]
    <2>5. cut2 \in [0..(p - 1) -> 0..N] /\ cut2[0] = 0 /\ cut2[p - 1] = n - 1
      BY <2>1, <2>3, <1>0
    <2>6. ASSUME NEW i \in 1..(p - 1) PROVE Good(cut2, i)
      <3>1. i \in 1..p /\ cut2[i] = cut[i] /\ cut2[i - 1] = cut[i - 1]
        BY <1>0
      <3> QED BY <3>1, <2>1
    <2>7. PartCovers(pattern, key, p - 1, n - 1)
      <3> HIDE DEF cut2
      <3> QED BY <2>5, <2>6 DEF PartCovers
    <2> QED BY <2>3, <2>4, <2>7
  <1>2. ASSUME n # 0, PartCovers(pattern, key, p - 1, n - 1), Fits(pattern, p, key[n])
        PROVE  PartCovers(pattern, key, p, n)
    <2>1. PICK cut \in [0..(p - 1) -> 0..N] :
             cut[0] = 0 /\ cut[p - 1] = n - 1 /\ \A i \in 1..(p - 1) : Good(cut, i)
      BY <1>2 DEF PartCovers
    <2> DEFINE cut2 == [i \in 0..p |-> IF i = p THEN n ELSE cut[i]]
    <2>2. cut2 \in [0..p -> 0..N] /\ cut2[0] = 0 /\ cut2[p] = n
      BY <2>1, <1>0
    <2>3. ASSUME NEW i \in 1..p PROVE Good(cut2, i)
      <3>1. CASE i = p
        <4>1. cut2[i] = n /\ cut2[i - 1] = n - 1
          BY <3>1, <2>1, <1>0
        <4> HIDE DEF cut2
        <4> QED BY <3>1, <4>1, <1>0, <1>2 DEF Fits
      <3>2. CASE i # p
        <4>1. i \in 1..(p - 1) /\ cut2[i] = cut[i] /\ cut2[i - 1] = cut[i - 1]
          BY <3>2, <1>0
        <4> QED BY <4>1, <2>1
      <3> QED BY <3>1, <3>2
    <2> HIDE DEF cut2
    <2> QED BY <2>2, <2>3 DEF PartCovers
  <1> QED BY <1>1, <1>2

LEMMA CoverMany ==
    ASSUME NEW pattern, ValidPattern(pattern), NEW key, Len(key) \in Nat,
           NEW p \in 1..Len(pattern), NEW n \in 0..Len(key), pattern[p] = AnyMany
    PROVE  PartCovers(pattern, key, p, n) <=>
              \/ PartCovers(pattern, key, p - 1, n)
              \/ n # 0 /\ PartCovers(pattern, key, p, n - 1)
  <1> DEFINE N == Len(key)
             Good(cut, i) == /\ cut[i - 1] <= cut[i]
                             /\ pattern[i] # AnyMany => cut[i] = cut[i - 1] + 1
                             /\ pattern[i].kind = "literal" => key[cut[i]] = pattern[i].token
  <1>0. p \in Nat /\ p - 1 \in Nat /\ p # 0 /\ n \in Nat /\ pattern[p].kind # "literal"
    BY PatternShape DEF AnyMany
  <1>1. ASSUME NEW m \in 0..N, NEW cut \in [0..(p - 1) -> 0..N], cut[0] = 0, cut[p - 1] <= m,
               \A i \in 1..(p - 1) : Good(cut, i)
        PROVE  PartCovers(pattern, key, p, m)
    <2> DEFINE cut2 == [i \in 0..p |-> IF i = p THEN m ELSE cut[i]]
    <2>2. cut2 \in [0..p -> 0..N] /\ cut2[0] = 0 /\ cut2[p] = m
      BY <1>1, <1>0
    <2>3. ASSUME NEW i \in 1..p PROVE Good(cut2, i)
      <3>1. CASE i = p
        <4>1. cut2[i] = m /\ cut2[i - 1] = cut[i - 1]
          BY <3>1, <1>0
        <4> HIDE DEF cut2
        <4> QED BY <3>1, <4>1, <1>0, <1>1
      <3>2. CASE i # p
        <4>1. i \in 1..(p - 1) /\ cut2[i] = cut[i] /\ cut2[i - 1] = cut[i - 1]
          BY <3>2, <1>0
        <4> QED BY <4>1, <1>1
      <3> QED BY <3>1, <3>2
    <2> HIDE DEF cut2
    <2> QED BY <2>2, <2>3 DEF PartCovers
  <1>2. ASSUME NEW m \in 0..N, PartCovers(pattern, key, p, m)
        PROVE  \E cut \in [0..(p - 1) -> 0..N] :
                  cut[0] = 0 /\ cut[p - 1] <= m /\ \A i \in 1..(p - 1) : Good(cut, i)
    <2>1. PICK cut \in [0..p -> 0..N] : cut[0] = 0 /\ cut[p] = m /\ \A i \in 1..p : Good(cut, i)
      BY <1>2 DEF PartCovers
    <2> DEFINE cut2 == [i \in 0..(p - 1) |-> cut[i]]
    <2>2. Good(cut, p) /\ cut[p - 1] \in 0..N
      BY <2>1, <1>0
    <2>5. cut2 \in [0..(p - 1) -> 0..N] /\ cut2[0] = 0 /\ cut2[p - 1] <= m
      BY <2>1, <2>2, <1>0
    <2>6. ASSUME NEW i \in 1..(p - 1) PROVE Good(cut2, i)
      <3>1. i \in 1..p /\ cut2[i] = cut[i] /\ cut2[i - 1] = cut[i - 1]
        BY <1>0
      <3> QED BY <3>1, <2>1
    <2> HIDE DEF cut2
    <2> QED BY <2>5, <2>6
  <1>3. ASSUME PartCovers(pattern, key, p - 1, n) PROVE PartCovers(pattern, key, p, n)
    <2>1. PICK cut \in [0..(p - 1) -> 0..N] :
             cut[0] = 0 /\ cut[p - 1] = n /\ \A i \in 1..(p - 1) : Good(cut, i)
      BY <1>3 DEF PartCovers
    <2>2. cut[p - 1] <= n
      BY <2>1, <1>0
    <2> QED BY <2>1, <2>2, <1>1
  <1>4. ASSUME n # 0, PartCovers(pattern, key, p, n - 1) PROVE PartCovers(pattern, key, p, n)
    <2>1. n - 1 \in 0..N
      BY <1>4
    <2>2. PICK cut \in [0..(p - 1) -> 0..N] :
             cut[0] = 0 /\ cut[p - 1] <= n - 1 /\ \A i \in 1..(p - 1) : Good(cut, i)
      BY <1>2, <1>4, <2>1
    <2>3. cut[p - 1] \in 0..N
      BY <1>0
    <2>4. cut[p - 1] <= n
      BY <2>2, <2>3, <1>0
    <2> QED BY <2>2, <2>4, <1>1
  <1>5. ASSUME PartCovers(pattern, key, p, n), ~PartCovers(pattern, key, p - 1, n)
        PROVE  n # 0 /\ PartCovers(pattern, key, p, n - 1)
    <2>2. PICK cut \in [0..(p - 1) -> 0..N] :
             cut[0] = 0 /\ cut[p - 1] <= n /\ \A i \in 1..(p - 1) : Good(cut, i)
      BY <1>2, <1>5
    <2>3. cut[p - 1] # n
      BY <2>2, <1>5 DEF PartCovers
    <2>4. cut[p - 1] \in 0..N
      BY <1>0
    <2>5. n # 0 /\ n - 1 \in 0..N /\ cut[p - 1] <= n - 1
      BY <2>2, <2>3, <2>4, <1>0
    <2> QED BY <2>2, <2>5, <1>1
  <1> QED BY <1>3, <1>4, <1>5

-----------------------------------------------------------------------------
(* The automaton.                                                           *)

(* The positions after each token, each from the one before, exist.         *)
IsRun(pattern, key, n, g) ==
    /\ g = [i \in 0..n |-> g[i]] /\ g[0] = Closed(pattern, {0})
    /\ \A i \in 1..n : g[i] = Closed(pattern, Step(pattern, g[i - 1], key[i]))

LEMMA RunExists ==
    ASSUME NEW pattern, NEW key, NEW n \in Nat
    PROVE  \E g : IsRun(pattern, key, n, g)
  <1> DEFINE Reads(active, token) == Closed(pattern, Step(pattern, active, token))
             start == Closed(pattern, {0})
             Run(k, g) == IsRun(pattern, key, k, g)
             S == {k \in Nat : \E g : Run(k, g)}
  <1>0. \A k, g : Run(k, g) <=>
            /\ g = [i \in 0..k |-> g[i]] /\ g[0] = start
            /\ \A i \in 1..k : g[i] = Reads(g[i - 1], key[i])
    BY DEF IsRun
  <1> HIDE DEF Run
  <1> HIDE DEF Reads, start
  <1>1. 0 \in S
    <2> DEFINE g == [i \in 0..0 |-> start]
    <2>1. g[0] = start
      OBVIOUS
    <2>2. g = [i \in 0..0 |-> g[i]] /\ 1..0 = {}
      BY <2>1
    <2> HIDE DEF g
    <2>3. Run(0, g)
      BY <2>1, <2>2, <1>0
    <2> QED BY <2>3
  <1>2. ASSUME NEW k \in Nat, k \in S PROVE k + 1 \in S
    <2>0. PICK g : Run(k, g)
      BY <1>2
    <2>1. g[0] = start /\ \A i \in 1..k : g[i] = Reads(g[i - 1], key[i])
      BY <2>0, <1>0
    <2> DEFINE h == [i \in 0..(k + 1) |-> IF i <= k THEN g[i] ELSE Reads(g[k], key[k + 1])]
    <2>2. h[0] = start
      BY <2>1
    <2>3. ASSUME NEW i \in 1..(k + 1) PROVE h[i] = Reads(h[i - 1], key[i])
      <3>1. CASE i <= k
        <4>1. i \in 1..k /\ h[i] = g[i] /\ h[i - 1] = g[i - 1]
          BY <3>1
        <4> HIDE DEF h
        <4> QED BY <4>1, <2>1
      <3>2. CASE i = k + 1
        <4>1. h[i] = Reads(g[k], key[i]) /\ h[i - 1] = g[k]
          BY <3>2
        <4> HIDE DEF h
        <4> QED BY <4>1
      <3> QED BY <3>1, <3>2
    <2>4. h = [i \in 0..(k + 1) |-> h[i]]
      OBVIOUS
    <2> HIDE DEF h
    <2>5. Run(k + 1, h)
      BY <2>2, <2>3, <2>4, <1>0
    <2>6. k + 1 \in Nat
      OBVIOUS
    <2> QED BY <2>5, <2>6
  <1>3. n \in S
    <2> HIDE DEF S
    <2> QED BY <1>1, <1>2, InductionOnNaturals
  <1> QED BY <1>3 DEF Run

LEMMA ClosedIsPositions ==
    ASSUME NEW pattern, NEW active
    PROVE  Closed(pattern, active) \in SUBSET (0..Len(pattern))
  BY DEF Closed

LEMMA ActiveRuns ==
    ASSUME NEW pattern, NEW key, Len(key) \in Nat
    PROVE  /\ Active(pattern, key)[0] = Closed(pattern, {0})
           /\ \A n \in 1..Len(key) :
                 Active(pattern, key)[n] = Closed(pattern, Step(pattern, Active(pattern, key)[n - 1], key[n]))
  <1> DEFINE N == Len(key)
             Next1(A, n) == Closed(pattern, Step(pattern, A, key[n]))
             Runs(g) == g = [n \in 0..Len(key) |->
                IF n = 0 THEN Closed(pattern, {0})
                ELSE Closed(pattern, Step(pattern, g[n - 1], key[n]))]
  <1>1. PICK g : IsRun(pattern, key, N, g)
    BY RunExists
  <1>2. /\ g = [i \in 0..N |-> g[i]] /\ g[0] = Closed(pattern, {0})
        /\ \A i \in 1..N : g[i] = Closed(pattern, Step(pattern, g[i - 1], key[i]))
    BY <1>1 DEF IsRun
  <1>3. \A i \in 1..N : g[i] = Next1(g[i - 1], i)
    BY <1>2
  <1>4. Runs(g)
    <2> DEFINE h == [n \in 0..N |-> IF n = 0 THEN Closed(pattern, {0}) ELSE Next1(g[n - 1], n)]
    <2>1. ASSUME NEW n \in 0..N PROVE g[n] = h[n]
      <3> HIDE DEF Next1
      <3>1. CASE n = 0
        BY <3>1, <1>2
      <3>2. CASE n \in 1..N
        BY <3>2, <1>3
      <3> QED BY <3>1, <3>2
    <2>2. g = [n \in 0..N |-> g[n]] /\ h = [n \in 0..N |-> h[n]]
      BY <1>2
    <2>3. g = h
      <3> HIDE DEF h
      <3> QED BY <2>1, <2>2
    <2> QED BY <2>3
  <1>5. Active(pattern, key) = CHOOSE g2 : Runs(g2)
    BY DEF Active
  <1>6. Runs(Active(pattern, key))
    <2> HIDE DEF Runs
    <2> QED BY <1>4, <1>5
  <1> DEFINE after == Active(pattern, key)
  <1> HIDE DEF after
  <1>7. after = [n \in 0..N |-> IF n = 0 THEN Closed(pattern, {0}) ELSE Next1(after[n - 1], n)]
    BY <1>6 DEF after
  <1>8. after[0] = Closed(pattern, {0}) /\ \A n \in 1..N : after[n] = Next1(after[n - 1], n)
    <2> HIDE DEF Next1
    <2>1. 0 \in 0..N /\ \A n \in 1..N : n \in 0..N /\ n # 0
      OBVIOUS
    <2> QED BY <1>7, <2>1
  <1> QED BY <1>8 DEF after

(* Closing climbs one AnyMany at a time.                                    *)
LEMMA ClosedClimbs ==
    ASSUME NEW pattern, Len(pattern) \in Nat, NEW active \in SUBSET (0..Len(pattern)),
           NEW p \in 0..Len(pattern)
    PROVE  p \in Closed(pattern, active) <=>
              p \in active \/ (p # 0 /\ pattern[p] = AnyMany /\ p - 1 \in Closed(pattern, active))
  <1>1. ASSUME p \in active PROVE p \in Closed(pattern, active)
    <2>1. p <= p /\ (p + 1)..p = {}
      OBVIOUS
    <2> QED BY <1>1, <2>1 DEF Closed
  <1>2. ASSUME p # 0, pattern[p] = AnyMany, p - 1 \in Closed(pattern, active)
        PROVE  p \in Closed(pattern, active)
    <2>1. PICK q \in active : q <= p - 1 /\ \A i \in (q + 1)..(p - 1) : pattern[i] = AnyMany
      BY <1>2 DEF Closed
    <2>2. q <= p /\ \A i \in (q + 1)..p : i = p \/ i \in (q + 1)..(p - 1)
      BY <2>1
    <2> QED BY <1>2, <2>1, <2>2 DEF Closed
  <1>3. ASSUME p \in Closed(pattern, active), p \notin active
        PROVE  p # 0 /\ pattern[p] = AnyMany /\ p - 1 \in Closed(pattern, active)
    <2>1. PICK q \in active : q <= p /\ \A i \in (q + 1)..p : pattern[i] = AnyMany
      BY <1>3 DEF Closed
    <2>2. q # p /\ q \in 0..Len(pattern)
      BY <1>3
    <2>3. p # 0 /\ q <= p - 1 /\ p \in (q + 1)..p /\ p - 1 \in 0..Len(pattern)
      BY <2>1, <2>2
    <2>4. \A i \in (q + 1)..(p - 1) : i \in (q + 1)..p
      BY <2>2
    <2> QED BY <2>1, <2>3, <2>4 DEF Closed
  <1> QED BY <1>1, <1>2, <1>3

(* After n tokens the automaton is at p when the first p tokens of the      *)
(* pattern cover them, or would with the AnyMany that follows.              *)
At(pattern, key, p, n) ==
    \/ PartCovers(pattern, key, p, n)
    \/ p < Len(pattern) /\ pattern[p + 1] = AnyMany /\ PartCovers(pattern, key, p + 1, n)

LEMMA StartsAtNothing ==
    ASSUME NEW pattern, ValidPattern(pattern), NEW key, Len(key) \in Nat
    PROVE  \A p \in 0..Len(pattern) : p \in Active(pattern, key)[0] <=> At(pattern, key, p, 0)
  <1> DEFINE L == Len(pattern)
             C == Closed(pattern, {0})
             S == {p \in Nat : p <= L => (p \in C <=> PartCovers(pattern, key, p, 0))}
  <1>1. L \in Nat /\ {0} \in SUBSET (0..L)
    BY PatternShape
  <1>2. \A p \in 0..L : p \in C <=> p = 0 \/ (p # 0 /\ pattern[p] = AnyMany /\ p - 1 \in C)
    <2> TAKE p \in 0..L
    <2> HIDE DEF C
    <2> QED BY <1>1, ClosedClimbs DEF C
  <1>3. \A p \in 1..L : PartCovers(pattern, key, p, 0) <=>
            pattern[p] = AnyMany /\ PartCovers(pattern, key, p - 1, 0)
    <2> TAKE p \in 1..L
    <2>1. 0 \in 0..Len(key)
      OBVIOUS
    <2> QED BY <2>1, CoverOne, CoverMany
  <1>4. 0 \in S
    <2>1. 0 \in 0..Len(key) /\ 0 \in 0..L
      BY <1>1
    <2>2. PartCovers(pattern, key, 0, 0)
      BY <2>1, CoverNothing
    <2>3. 0 \in C
      BY <1>2, <2>1
    <2> HIDE DEF C
    <2> QED BY <2>2, <2>3
  <1>5. ASSUME NEW p \in Nat, p \in S PROVE p + 1 \in S
    <2> SUFFICES ASSUME p + 1 <= L PROVE p + 1 \in C <=> PartCovers(pattern, key, p + 1, 0)
      OBVIOUS
    <2>1. p + 1 \in 1..L /\ p + 1 \in 0..L /\ (p + 1) - 1 = p /\ p <= L /\ p + 1 # 0
      BY <1>1
    <2>2. p \in C <=> PartCovers(pattern, key, p, 0)
      BY <1>5, <2>1
    <2>3. p + 1 \in C <=> pattern[p + 1] = AnyMany /\ p \in C
      <3> HIDE DEF C
      <3> QED BY <1>2, <2>1
    <2>4. PartCovers(pattern, key, p + 1, 0) <=> pattern[p + 1] = AnyMany /\ PartCovers(pattern, key, p, 0)
      BY <1>3, <2>1
    <2> HIDE DEF C
    <2> QED BY <2>2, <2>3, <2>4
  <1>6. \A p \in 0..L : p \in C <=> PartCovers(pattern, key, p, 0)
    <2>1. Nat \subseteq S
      <3> HIDE DEF S
      <3> QED BY <1>4, <1>5, InductionOnNaturals
    <2> TAKE p \in 0..L
    <2>2. p \in S /\ p <= L
      <3> HIDE DEF S
      <3> QED BY <2>1, <1>1
    <2> QED BY <2>2
  <1>7. Active(pattern, key)[0] = C
    BY ActiveRuns
  <1>8. ASSUME NEW p \in 0..L PROVE p \in C <=> At(pattern, key, p, 0)
    <2>1. ASSUME p < L, pattern[p + 1] = AnyMany, PartCovers(pattern, key, p + 1, 0)
          PROVE  PartCovers(pattern, key, p, 0)
      <3>1. p + 1 \in 1..L /\ (p + 1) - 1 = p
        BY <1>1, <2>1
      <3> QED BY <3>1, <1>3, <2>1
    <2> HIDE DEF C
    <2> QED BY <2>1, <1>6 DEF At
  <1> HIDE DEF C
  <1> QED BY <1>7, <1>8

LEMMA ReadsOneToken ==
    ASSUME NEW pattern, ValidPattern(pattern), NEW key, Len(key) \in Nat, NEW n \in 1..Len(key),
           \A p \in 0..Len(pattern) :
              p \in Active(pattern, key)[n - 1] <=> At(pattern, key, p, n - 1)
    PROVE  \A p \in 0..Len(pattern) : p \in Active(pattern, key)[n] <=> At(pattern, key, p, n)
  <1> DEFINE L == Len(pattern)
             A == Active(pattern, key)[n - 1]
             Read == Step(pattern, A, key[n])
             B == Active(pattern, key)[n]
             PC(p, m) == PartCovers(pattern, key, p, m)
  <1>1. L \in Nat /\ n \in 0..Len(key) /\ n # 0 /\ n - 1 \in 0..Len(key)
    BY PatternShape
  <1>2. B = Closed(pattern, Read)
    BY ActiveRuns
  <1>3. \A p \in 0..L : p \in A <=> At(pattern, key, p, n - 1)
    OBVIOUS
  <1>4. A \in SUBSET (0..L)
    <2>1. n - 1 = 0 \/ n - 1 \in 1..Len(key)
      BY <1>1
    <2> QED BY <2>1, ActiveRuns, ClosedIsPositions
  <1>5. Read \in SUBSET (0..L)
    <2> HIDE DEF A
    <2>1. \A p \in 1..L : p \in 0..L
      BY <1>1
    <2> QED BY <1>4, <2>1 DEF Step
  <1>6. \A p \in 0..L : p \in B <=> p \in Read \/ (p # 0 /\ pattern[p] = AnyMany /\ p - 1 \in B)
    <2> TAKE p \in 0..L
    <2> HIDE DEF B, Read
    <2> QED BY <1>1, <1>2, <1>5, ClosedClimbs
  <1>7. \A p \in 0..L : p \in Read <=>
           \/ p # 0 /\ p - 1 \in A /\ Fits(pattern, p, key[n])
           \/ p \in A /\ p < L /\ pattern[p + 1] = AnyMany
    <2> TAKE p \in 0..L
    <2>1. p # 0 => p \in 1..L
      BY <1>1
    <2>2. p \in 1..L => p # 0
      BY <1>1
    <2> HIDE DEF A
    <2>3. p \in Read <=>
             \/ p \in 1..L /\ p - 1 \in A /\ pattern[p] \in {Literal(key[n]), AnyOne}
             \/ p \in A /\ p < L /\ pattern[p + 1] = AnyMany
      BY DEF Step
    <2>4. p \in 1..L => (pattern[p] \in {Literal(key[n]), AnyOne} <=> Fits(pattern, p, key[n]))
      BY FitsIsStep
    <2> HIDE DEF Read
    <2> QED BY <2>1, <2>2, <2>3, <2>4
  <1> HIDE DEF A, B, Read
  <1>8. \A p \in 1..L : pattern[p] # AnyMany =>
           (PC(p, n) <=> PC(p - 1, n - 1) /\ Fits(pattern, p, key[n]))
    BY <1>1, CoverOne
  <1>9. \A p \in 1..L : pattern[p] = AnyMany => (PC(p, n) <=> PC(p - 1, n) \/ PC(p, n - 1))
    BY <1>1, CoverMany
  <1>10. ~PC(0, n)
    BY <1>1, CoverNothing
  <1>11. \A p \in 1..L : pattern[p] = AnyMany /\ PC(p - 1, n - 1) => PC(p, n - 1)
    BY <1>1, CoverMany
  <1>12. \A p \in 0..L : At(pattern, key, p, n) <=>
            PC(p, n) \/ (p < L /\ pattern[p + 1] = AnyMany /\ PC(p + 1, n))
    BY DEF At
  <1>13. \A p \in 0..L : p \in A <=>
            PC(p, n - 1) \/ (p < L /\ pattern[p + 1] = AnyMany /\ PC(p + 1, n - 1))
    BY <1>3 DEF At
  <1> HIDE DEF PC
  <1>14. \A p \in 1..L : p - 1 \in 0..L /\ p \in 0..L /\ p # 0 /\ (p - 1) + 1 = p /\ p - 1 < L
    BY <1>1
  <1>15. \A p \in 0..L : p < L => p + 1 \in 1..L /\ (p + 1) - 1 = p
    BY <1>1
  \* Reading: from where the automaton was to where it stays or steps.
  <1>16. ASSUME NEW p \in 0..L, p \in Read PROVE At(pattern, key, p, n)
    <2>1. CASE p # 0 /\ p - 1 \in A /\ Fits(pattern, p, key[n])
      <3>1. p \in 1..L /\ pattern[p] # AnyMany
        BY <2>1, <1>1 DEF Fits
      <3>2. PC(p - 1, n - 1)
        BY <2>1, <3>1, <1>13, <1>14
      <3> QED BY <2>1, <3>1, <3>2, <1>8, <1>12
    <2>2. CASE p \in A /\ p < L /\ pattern[p + 1] = AnyMany
      <3>1. PC(p + 1, n - 1)
        BY <2>2, <1>11, <1>13, <1>15
      <3>2. PC(p + 1, n)
        BY <3>1, <2>2, <1>9, <1>15
      <3> QED BY <3>2, <2>2, <1>12
    <2> QED BY <1>16, <1>7, <2>1, <2>2
  <1>17. ASSUME NEW p \in 0..L, p < L, pattern[p + 1] = AnyMany, PC(p + 1, n - 1) PROVE p \in B
    BY <1>17, <1>13, <1>7, <1>6
  <1> DEFINE S == {p \in Nat : p <= L => (p \in B => At(pattern, key, p, n)) /\ (PC(p, n) => p \in B)}
  <1>18. 0 \in S
    <2>1. 0 \in 0..L
      BY <1>1
    <2> QED BY <2>1, <1>6, <1>10, <1>16
  <1>19. ASSUME NEW q \in Nat, q \in S PROVE q + 1 \in S
    <2> SUFFICES ASSUME q + 1 <= L
                 PROVE  (q + 1 \in B => At(pattern, key, q + 1, n)) /\ (PC(q + 1, n) => q + 1 \in B)
      OBVIOUS
    <2> DEFINE p == q + 1
    <2>1. p \in 1..L /\ p \in 0..L /\ p - 1 = q /\ q <= L /\ q < L /\ q \in 0..L /\ p # 0
      BY <1>1
    <2>2. (q \in B => At(pattern, key, q, n)) /\ (PC(q, n) => q \in B)
      BY <1>19, <2>1
    <2> HIDE DEF S
    <2>3. ASSUME p \in B PROVE At(pattern, key, p, n)
      <3>1. CASE p \in Read
        BY <3>1, <1>16, <2>1
      <3>2. CASE pattern[p] = AnyMany /\ q \in B
        <4>1. PC(q, n) \/ PC(p, n)
          BY <2>2, <3>2, <1>12, <2>1
        <4>2. PC(p, n)
          BY <4>1, <3>2, <1>9, <2>1
        <4> QED BY <4>2, <1>12, <2>1
      <3> HIDE DEF p
      <3> QED BY <3>1, <3>2, <2>3, <1>6, <2>1
    <2>4. ASSUME PC(p, n) PROVE p \in B
      <3>1. CASE pattern[p] = AnyMany
        <4>1. PC(q, n) \/ PC(p, n - 1)
          BY <2>4, <3>1, <1>9, <2>1
        <4>2. q \in B
          BY <4>1, <2>2, <1>17, <2>1, <3>1
        <4> QED BY <4>2, <3>1, <1>6, <2>1
      <3>2. CASE pattern[p] # AnyMany
        <4> HIDE DEF p
        <4>1. PC(p - 1, n - 1) /\ Fits(pattern, p, key[n])
          BY <2>4, <3>2, <1>8, <2>1
        <4>2. p - 1 \in A
          BY <4>1, <1>13, <1>14, <2>1
        <4> QED BY <4>1, <4>2, <1>7, <1>6, <2>1
      <3> QED BY <3>1, <3>2
    <2> QED BY <2>3, <2>4
  <1>20. ASSUME NEW p \in 0..L PROVE p \in B <=> At(pattern, key, p, n)
    <2>1. p \in S
      <3> HIDE DEF S
      <3>1. Nat \subseteq S
        BY <1>18, <1>19, InductionOnNaturals
      <3> QED BY <3>1, <1>1
    <2>2. (p \in B => At(pattern, key, p, n)) /\ (PC(p, n) => p \in B)
      BY <2>1, <1>1
    <2> HIDE DEF S
    <2>3. ASSUME p < L, pattern[p + 1] = AnyMany, PC(p + 1, n) PROVE p \in B
      <3>1. PC(p, n) \/ PC(p + 1, n - 1)
        BY <2>3, <1>9, <1>15
      <3> QED BY <3>1, <2>2, <2>3, <1>17
    <2> QED BY <2>2, <2>3, <1>12
  <1> QED BY <1>20 DEF B

(* match_pattern matches a key exactly when its pattern covers the key.     *)
THEOREM MatchingIsCovering ==
    ASSUME NEW pattern, ValidPattern(pattern), NEW key, Len(key) \in Nat
    PROVE  MatchPattern(pattern, key) <=> Covers(pattern, key)
  <1> DEFINE S == {n \in Nat : n <= Len(key) => \A p \in 0..Len(pattern) :
                        p \in Active(pattern, key)[n] <=> At(pattern, key, p, n)}
  <1>1. 0 \in S
    BY StartsAtNothing
  <1>2. ASSUME NEW n \in Nat, n \in S PROVE n + 1 \in S
    <2> SUFFICES ASSUME n + 1 <= Len(key)
                 PROVE  \A p \in 0..Len(pattern) :
                           p \in Active(pattern, key)[n + 1] <=> At(pattern, key, p, n + 1)
      OBVIOUS
    <2>1. n <= Len(key) /\ n + 1 \in 1..Len(key) /\ (n + 1) - 1 = n
      OBVIOUS
    <2>2. \A p \in 0..Len(pattern) : p \in Active(pattern, key)[n] <=> At(pattern, key, p, n)
      BY <1>2, <2>1
    <2> HIDE DEF S
    <2> QED BY <2>1, <2>2, ReadsOneToken
  <1>3. Len(key) \in S
    <2> HIDE DEF S
    <2> QED BY <1>1, <1>2, InductionOnNaturals
  <1>4. Len(pattern) \in Nat /\ Len(pattern) \in 0..Len(pattern) /\ DOMAIN pattern = 1..Len(pattern)
    BY PatternShape
  <1>5. MatchPattern(pattern, key) <=> At(pattern, key, Len(pattern), Len(key))
    BY <1>3, <1>4 DEF MatchPattern
  <1>6. At(pattern, key, Len(pattern), Len(key)) <=> PartCovers(pattern, key, Len(pattern), Len(key))
    BY <1>4 DEF At
  <1>7. PartCovers(pattern, key, Len(pattern), Len(key)) <=> Covers(pattern, key)
    BY <1>4 DEF PartCovers, Covers
  <1> QED BY <1>5, <1>6, <1>7

-----------------------------------------------------------------------------
(* What a selector selects among candidates is what it means.               *)
LEMMA VectorsHaveLength ==
    ASSUME NEW s, IsVector(s)
    PROVE  Len(s) \in Nat /\ DOMAIN s = 1..Len(s) /\ s = SubSeq(s, 1, Len(s))
  <1>1. s \in Seq(ToSet(s))
    BY DEF IsVector
  <1> QED BY <1>1

LEMMA PrefixMeans ==
    ASSUME NEW tokens, IsVector(tokens), NEW key, IsVector(key)
    PROVE  IsPrefix(tokens, key) <=> \E n \in 0..Len(key) : SubSeq(key, 1, n) = tokens
  <1>1. /\ Len(tokens) \in Nat /\ tokens = SubSeq(tokens, 1, Len(tokens))
        /\ Len(key) \in Nat /\ key \in Seq(ToSet(key))
    BY VectorsHaveLength DEF IsVector
  <1>2. ASSUME NEW n \in 0..Len(key) PROVE Len(SubSeq(key, 1, n)) = n
    BY <1>1
  <1>3. IsPrefix(tokens, key) <=>
           Len(tokens) <= Len(key) /\ tokens = SubSeq(key, 1, Len(tokens))
    BY <1>1 DEF IsPrefix
  <1>4. ASSUME Len(tokens) <= Len(key) PROVE Len(tokens) \in 0..Len(key)
    BY <1>1, <1>4
  <1>5. ASSUME NEW n \in 0..Len(key), SubSeq(key, 1, n) = tokens PROVE n = Len(tokens) /\ n <= Len(key)
    BY <1>2, <1>5, <1>1
  <1> QED BY <1>3, <1>4, <1>5

\* Keys are selected by a bounded selector of some request.
Bounded(selector) == ValidSelector(selector) /\ selector # UnboundedDynamic

LEMMA SelectorKinds ==
    ASSUME NEW selector, ValidSelector(selector)
    PROVE  /\ selector.kind \in {"exact", "prefix", "pattern", "all", "unbounded"}
           /\ selector.kind = "unbounded" <=> selector = UnboundedDynamic
           /\ selector.kind = "exact" => IsVector(selector.key)
           /\ selector.kind = "prefix" => IsVector(selector.tokens)
           /\ selector.kind = "pattern" => ValidPattern(selector.tokens)
  <1>1. CASE selector.kind \in {"exact", "prefix", "pattern"}
    <2>1. selector # AllInScope /\ selector # UnboundedDynamic
      BY <1>1 DEF AllInScope, UnboundedDynamic
    <2> QED BY <1>1, <2>1 DEF ValidSelector
  <1>2. CASE selector = AllInScope
    BY <1>2 DEF AllInScope, UnboundedDynamic
  <1>3. CASE selector = UnboundedDynamic
    BY <1>3 DEF UnboundedDynamic
  <1> QED BY <1>1, <1>2, <1>3 DEF ValidSelector

LEMMA SelectingIsMeaning ==
    ASSUME NEW selector, Bounded(selector), NEW candidates,
           \A k \in candidates : IsVector(k), NEW key
    PROVE  key \in SelectKeys(selector, candidates) <=>
              (selector.kind = "exact" \/ key \in candidates) /\ Means(selector, key)
  <1>1. selector.kind \in {"exact", "prefix", "pattern", "all"}
    BY SelectorKinds DEF Bounded
  <1>2. CASE selector.kind = "exact"
    BY <1>2 DEF SelectKeys, Means
  <1>3. CASE selector.kind = "prefix"
    <2>1. IsVector(selector.tokens)
      BY <1>3, SelectorKinds DEF Bounded
    <2>2. SelectKeys(selector, candidates) = {k \in candidates : IsPrefix(selector.tokens, k)}
      BY <1>3 DEF SelectKeys
    <2>3. Means(selector, key) <=> \E n \in 0..Len(key) : SubSeq(key, 1, n) = selector.tokens
      BY <1>3 DEF Means
    <2>4. key \in candidates => (IsPrefix(selector.tokens, key) <=> Means(selector, key))
      BY <2>1, <2>3, PrefixMeans
    <2> QED BY <1>3, <2>2, <2>4
  <1>4. CASE selector.kind = "pattern"
    <2>1. ValidPattern(selector.tokens)
      BY <1>4, SelectorKinds DEF Bounded
    <2>2. SelectKeys(selector, candidates) = {k \in candidates : MatchPattern(selector.tokens, k)}
      BY <1>4 DEF SelectKeys
    <2>3. Means(selector, key) <=> Covers(selector.tokens, key)
      BY <1>4 DEF Means
    <2>4. key \in candidates => (MatchPattern(selector.tokens, key) <=> Means(selector, key))
      BY <2>1, <2>3, MatchingIsCovering, VectorsHaveLength
    <2> QED BY <1>4, <2>2, <2>4
  <1>5. CASE selector.kind = "all"
    BY <1>5 DEF SelectKeys, Means
  <1> QED BY <1>1, <1>2, <1>3, <1>4, <1>5

-----------------------------------------------------------------------------
(* The semantic index.                                                      *)
LEMMA DefinitionShape ==
    ASSUME NEW r, WellFormed(r), NEW d \in Definitions(r)
    PROVE  /\ d = [logical |-> d.logical, locale |-> d.locale, at |-> d.at]
           /\ d.logical = Logical(d.logical.scope, d.logical.key)
           /\ IsVector(d.logical.key)
  <1>1. PICK e \in r.definitions :
           d = [logical |-> Logical(Resolved(r, e.scope), e.key), locale |-> e.locale, at |-> e.at]
    BY DEF Definitions
  <1>2. IsVector(e.key)
    BY DEF WellFormed
  <1> QED BY <1>1, <1>2 DEF Logical

LEMMA CandidatesAreDefined ==
    ASSUME NEW r, WellFormed(r), NEW scope, NEW key
    PROVE  /\ key \in Candidates(r, scope) <=> \E d \in Definitions(r) : d.logical = Logical(scope, key)
           /\ key \in Candidates(r, scope) => IsVector(key)
  <1>1. ASSUME NEW d \in Definitions(r)
        PROVE  /\ d.logical = Logical(scope, key) <=> d.logical.scope = scope /\ d.logical.key = key
               /\ IsVector(d.logical.key)
    <2>1. d.logical = Logical(d.logical.scope, d.logical.key) /\ IsVector(d.logical.key)
      BY DefinitionShape
    <2>2. Logical(d.logical.scope, d.logical.key) = Logical(scope, key)
             <=> d.logical.scope = scope /\ d.logical.key = key
      BY DEF Logical
    <2> QED BY <2>1, <2>2
  <1> QED BY <1>1 DEF Candidates

LEMMA ReferenceShape ==
    ASSUME NEW r, WellFormed(r), NEW ref \in References(r)
    PROVE  \E f \in r.references :
              /\ ref = [id |-> f.id, unit |-> f.unit, scope |-> Resolved(r, f.scope), selector |-> f.selector]
              /\ ValidSelector(ref.selector)
  BY DEF References, WellFormed

LEMMA RootShape ==
    ASSUME NEW r, WellFormed(r), NEW root \in ConfiguredRoots(r)
    PROVE  \E x \in r.roots :
              /\ root = [scope |-> Resolved(r, x.scope), selector |-> x.selector]
              /\ Bounded(root.selector)
  BY DEF ConfiguredRoots, WellFormed, Bounded

LEMMA LogicalIsInjective ==
    ASSUME NEW s, NEW k, NEW t, NEW m
    PROVE  Logical(s, k) = Logical(t, m) <=> s = t /\ k = m
  BY DEF Logical

\* A reference selects a message: the names a bounded one means, whatever
\* is defined, if exact; all of its scope, if dynamic and tolerated.
SelectsKey(r, ref, key) ==
    IF ref.selector = UnboundedDynamic THEN r.dynamic = "compat" /\ key \in Candidates(r, ref.scope)
    ELSE /\ ref.selector.kind = "exact" \/ key \in Candidates(r, ref.scope)
         /\ Means(ref.selector, key)

LEMMA SelectedMeans ==
    ASSUME NEW r, WellFormed(r), NEW ref \in References(r), NEW l
    PROVE  l \in Selected(r, ref) <=> \E key : l = Logical(ref.scope, key) /\ SelectsKey(r, ref, key)
  <1> DEFINE C == Candidates(r, ref.scope)
             K == IF ref.selector # UnboundedDynamic THEN SelectKeys(ref.selector, C)
                  ELSE IF r.dynamic = "compat" THEN C ELSE {}
  <1>1. \A k \in C : IsVector(k)
    BY CandidatesAreDefined
  <1>2. \A key : key \in K <=> SelectsKey(r, ref, key)
    <2> TAKE key
    <2> HIDE DEF C
    <2>1. CASE ref.selector = UnboundedDynamic
      BY <2>1 DEF SelectsKey, C
    <2>2. CASE ref.selector # UnboundedDynamic
      <3>1. Bounded(ref.selector)
        BY <2>2, ReferenceShape DEF Bounded
      <3>2. key \in SelectKeys(ref.selector, C) <=>
               (ref.selector.kind = "exact" \/ key \in C) /\ Means(ref.selector, key)
        BY <3>1, <1>1, SelectingIsMeaning
      <3> QED BY <2>2, <3>2 DEF SelectsKey, C
    <2> QED BY <2>1, <2>2
  <1>3. Selected(r, ref) = LogicalOf(ref.scope, K)
    BY DEF Selected
  <1> HIDE DEF K
  <1> QED BY <1>2, <1>3 DEF LogicalOf

LEMMA RootSelectedMeans ==
    ASSUME NEW r, WellFormed(r), NEW l
    PROVE  l \in RootSelected(r) <=>
              \E root \in ConfiguredRoots(r) : \E key :
                 /\ l = Logical(root.scope, key) /\ Means(root.selector, key)
                 /\ root.selector.kind = "exact" \/ key \in Candidates(r, root.scope)
  <1>1. ASSUME NEW root \in ConfiguredRoots(r)
        PROVE  l \in LogicalOf(root.scope, SelectKeys(root.selector, Candidates(r, root.scope))) <=>
                  \E key : /\ l = Logical(root.scope, key) /\ Means(root.selector, key)
                           /\ root.selector.kind = "exact" \/ key \in Candidates(r, root.scope)
    <2> DEFINE C == Candidates(r, root.scope)
    <2>1. \A k \in C : IsVector(k)
      BY CandidatesAreDefined
    <2>2. Bounded(root.selector)
      BY RootShape
    <2> HIDE DEF C
    <2>3. \A key : key \in SelectKeys(root.selector, C) <=>
               (root.selector.kind = "exact" \/ key \in C) /\ Means(root.selector, key)
      BY <2>1, <2>2, SelectingIsMeaning
    <2>4. l \in LogicalOf(root.scope, SelectKeys(root.selector, C)) <=>
             \E key \in SelectKeys(root.selector, C) : l = Logical(root.scope, key)
      BY DEF LogicalOf
    <2> QED BY <2>3, <2>4 DEF C
  <1> QED BY <1>1 DEF RootSelected

-----------------------------------------------------------------------------
(* The outcomes of link, and what it means that nothing blocks.             *)
Found(r) == Findings(r, Facts(r))
Blocked(r) == \E f \in Found(r) : Blocking(f)

LEMMA LinkMeans ==
    ASSUME NEW r
    PROVE  \/ Link(r) = NoOutcome("limit") /\ MatchWork(r) > MaxMatchStates
           \/ /\ Link(r) = NoOutcome("internal")
              /\ ~LookupsSucceed(r) \/ ~(Blocked(r) \/ FactsSuffice(r, Facts(r)))
           \/ /\ ~(MatchWork(r) > MaxMatchStates) /\ LookupsSucceed(r) /\ Blocked(r)
              /\ Link(r) = Outcome("blocked", Found(r), NoPlans, TypedKeyModels(r))
           \/ /\ ~(MatchWork(r) > MaxMatchStates) /\ LookupsSucceed(r) /\ ~Blocked(r)
              /\ FactsSuffice(r, Facts(r))
              /\ Link(r) = Outcome("planned", Found(r), Plans(r, Facts(r)), TypedKeyModels(r))
  BY Zenon DEF Link, Found, Blocked

\* The tables are looked up with what admission checked.
LEMMA LookupsAlwaysSucceed ==
    ASSUME NEW r, ValidScopes(r), ValidDelivery(r)
    PROVE  LookupsSucceed(r)
  <1> SUFFICES ASSUME NEW ref \in References(r) PROVE ref.unit \in r.units /\ ref.scope \in Scopes(r)
    BY DEF LookupsSucceed, UnitIsKnown, ScopeIsKnown
  <1>1. PICK f \in r.references :
           ref = [id |-> f.id, unit |-> f.unit, scope |-> Resolved(r, f.scope), selector |-> f.selector]
    BY DEF References
  <1>2. f.unit \in r.units
    BY DEF ValidDelivery
  <1>3. Resolved(r, f.scope) \in Scopes(r)
    BY DEF ValidScopes, Scopes
  <1> QED BY <1>1, <1>2, <1>3

LEMMA RootsAreInScope ==
    ASSUME NEW r, ValidScopes(r), NEW root \in ConfiguredRoots(r)
    PROVE  root.scope \in Scopes(r)
  BY DEF ValidScopes, Scopes, ConfiguredRoots

LEMMA DefinitionsAreInScope ==
    ASSUME NEW r, ValidScopes(r), NEW d \in Definitions(r)
    PROVE  d.logical.scope \in Scopes(r)
  <1>1. PICK e \in r.definitions :
           d = [logical |-> Logical(Resolved(r, e.scope), e.key), locale |-> e.locale, at |-> e.at]
    BY DEF Definitions
  <1>2. Resolved(r, e.scope) \in Scopes(r)
    BY DEF ValidScopes, Scopes
  <1> QED BY <1>1, <1>2 DEF Logical

LEMMA UnblockedMeans ==
    ASSUME NEW r, ~Blocked(r)
    PROVE  /\ Ambiguities(r) = {}
           /\ \A s \in Scopes(r) : DefinitionSideClosed(r, s)
           /\ \A ref \in References(r) : Failures(r, Facts(r), ref) = {}
           /\ \A ref \in References(r) : ref.selector = UnboundedDynamic => r.dynamic # "strict"
  <1>0. \A f \in Found(r) : ~Blocking(f)
    BY DEF Blocked
  <1>1. ASSUME NEW d \in Ambiguities(r) PROVE FALSE
    <2> DEFINE f == [kind |-> "ambiguous", logical |-> d.logical, locale |-> d.locale]
    <2>1. f \in {[kind |-> "ambiguous", logical |-> e.logical, locale |-> e.locale] : e \in Ambiguities(r)}
      OBVIOUS
    <2>2. f \in Found(r)
      <3> HIDE DEF f
      <3> QED BY <2>1, Zenon DEF Found, Findings
    <2>3. Blocking(f)
      BY DEF Blocking
    <2> QED BY <2>2, <2>3, <1>0
  <1>2. ASSUME NEW s \in Scopes(r), ~DefinitionSideClosed(r, s) PROVE FALSE
    <2> DEFINE f == [kind |-> "partial", scope |-> s, side |-> "definitions"]
    <2>1. f \in Partials(r) /\ ~SideClosed(r, f.side, f.scope)
      BY <1>2 DEF Partials, DefinitionSideClosed
    <2>2. f \in Found(r)
      <3> HIDE DEF f
      <3>1. f \in {p \in Partials(r) : ~SideClosed(r, p.side, p.scope)}
        BY <2>1
      <3> QED BY <3>1, Zenon DEF Found, Findings
    <2>3. Blocking(f)
      BY DEF Blocking
    <2> QED BY <2>2, <2>3, <1>0
  <1>3. ASSUME NEW ref \in References(r), Failures(r, Facts(r), ref) # {} PROVE FALSE
    <2> DEFINE f == [kind |-> "unresolved", reference |-> ref.id, failures |-> Failures(r, Facts(r), ref)]
    <2>1. f \in Unresolved(r, Facts(r))
      BY <1>3 DEF Unresolved
    <2>2. f \in Found(r)
      <3> HIDE DEF f
      <3> QED BY <2>1, Zenon DEF Found, Findings
    <2>3. Blocking(f)
      BY DEF Blocking
    <2> QED BY <2>2, <2>3, <1>0
  <1>4. ASSUME NEW ref \in References(r), ref.selector = UnboundedDynamic, r.dynamic = "strict" PROVE FALSE
    <2> DEFINE f == [kind |-> "unbounded", reference |-> ref.id, mode |-> r.dynamic]
    <2>1. f \in {[kind |-> "unbounded", reference |-> g.id, mode |-> r.dynamic] :
                   g \in {h \in References(r) : h.selector = UnboundedDynamic}}
      BY <1>4
    <2>2. f \in Found(r)
      <3> HIDE DEF f
      <3> QED BY <2>1, Zenon DEF Found, Findings
    <2>3. Blocking(f)
      BY <1>4 DEF Blocking
    <2> QED BY <2>2, <2>3, <1>0
  <1> QED BY <1>1, <1>2, <1>3, <1>4

LEMMA DemandsMeans ==
    ASSUME NEW r, NEW l
    PROVE  l \in Demands(r) <=>
              /\ l \in RootSelected(r) \/ \E ref \in References(r) : l \in Selected(r, ref)
              /\ l \notin AmbiguousLogical(r) /\ DefinitionSideClosed(r, l.scope)
  BY DEF Demands

LEMMA ReachableMeans ==
    ASSUME NEW r, NEW unit, NEW l
    PROVE  l \in Reachable(r, unit) <=>
              /\ \/ \E ref \in References(r) : ref.unit = unit /\ l \in Selected(r, ref)
                 \/ unit \in RootUnits(r) /\ l \in RootSelected(r)
              /\ l \notin AmbiguousLogical(r)
  BY DEF Reachable

LEMMA SelectedInScope ==
    ASSUME NEW r, WellFormed(r), ValidScopes(r), ValidDelivery(r)
    PROVE  /\ \A ref \in References(r) : \A l \in Selected(r, ref) : l.scope \in Scopes(r)
           /\ \A l \in RootSelected(r) : l.scope \in Scopes(r)
  <1>1. \A s, k : Logical(s, k).scope = s
    BY DEF Logical
  <1>2. \A ref \in References(r) : ref.scope \in Scopes(r)
    BY LookupsAlwaysSucceed DEF LookupsSucceed, UnitIsKnown, ScopeIsKnown
  <1>3. ASSUME NEW ref \in References(r), NEW l \in Selected(r, ref) PROVE l.scope \in Scopes(r)
    BY <1>1, <1>2, SelectedMeans
  <1>4. ASSUME NEW l \in RootSelected(r) PROVE l.scope \in Scopes(r)
    BY <1>1, RootsAreInScope, RootSelectedMeans
  <1> QED BY <1>3, <1>4

(* Unless something blocks, every message a unit carries has its fact.      *)
LEMMA FactsAlwaysSuffice ==
    ASSUME NEW r, WellFormed(r), ValidScopes(r), ValidDelivery(r), ~Blocked(r)
    PROVE  FactsSuffice(r, Facts(r))
  <1> SUFFICES ASSUME NEW unit \in r.units, NEW l \in Reachable(r, unit) PROVE l \in DOMAIN Facts(r)
    BY DEF FactsSuffice
  <1>1. l \in RootSelected(r) \/ \E ref \in References(r) : l \in Selected(r, ref)
    BY ReachableMeans
  <1>2. DefinitionSideClosed(r, l.scope)
    BY <1>1, SelectedInScope, UnblockedMeans
  <1>3. l \in Demands(r)
    BY <1>1, <1>2, DemandsMeans, ReachableMeans
  <1> QED BY <1>3 DEF Facts

-----------------------------------------------------------------------------
(* What a plan holds.                                                       *)
LEMMA ChainShape ==
    ASSUME NEW r, WellFormed(r), NEW locale
    PROVE  /\ Len(Chain(r, locale)) \in Nat
           /\ DOMAIN Chain(r, locale) = 1..Len(Chain(r, locale))
           /\ \A i \in DOMAIN Chain(r, locale) :
                 \/ Chain(r, locale)[i] = locale
                 \/ locale \in DOMAIN r.fallbacks /\ Chain(r, locale)[i] \in ToSet(r.fallbacks[locale])
  <1> DEFINE rest == IF locale \in DOMAIN r.fallbacks THEN r.fallbacks[locale] ELSE <<>>
  <1>1. rest \in Seq(ToSet(rest)) /\ rest # <<>> => locale \in DOMAIN r.fallbacks /\ rest = r.fallbacks[locale]
    BY DEF WellFormed, IsVector
  <1>2. rest \in Seq(ToSet(rest))
    <2>1. CASE locale \in DOMAIN r.fallbacks
      BY <2>1 DEF WellFormed, IsVector
    <2>2. CASE locale \notin DOMAIN r.fallbacks
      BY <2>2
    <2> QED BY <2>1, <2>2
  <1>3. Chain(r, locale) = <<locale>> \o rest
    BY DEF Chain
  <1> HIDE DEF rest
  <1>4. /\ Len(rest) \in Nat /\ Len(Chain(r, locale)) = 1 + Len(rest)
        /\ DOMAIN Chain(r, locale) = 1..Len(Chain(r, locale))
    BY <1>2, <1>3
  <1>5. ASSUME NEW i \in DOMAIN Chain(r, locale), i # 1
        PROVE  Chain(r, locale)[i] = rest[i - 1] /\ i - 1 \in 1..Len(rest)
    BY <1>2, <1>3, <1>4, <1>5
  <1>6. ASSUME NEW i \in DOMAIN Chain(r, locale), i # 1
        PROVE  locale \in DOMAIN r.fallbacks /\ Chain(r, locale)[i] \in ToSet(r.fallbacks[locale])
    <2>1. rest # <<>> /\ DOMAIN rest = 1..Len(rest)
      BY <1>2, <1>5, <1>6
    <2>2. rest[i - 1] \in ToSet(rest)
      BY <2>1, <1>5, <1>6 DEF ToSet
    <2> QED BY <2>1, <2>2, <1>1, <1>2, <1>5, <1>6
  <1>7. Chain(r, locale)[1] = locale
    BY <1>2, <1>3
  <1> QED BY <1>4, <1>6, <1>7

LEMMA MinIsLeast ==
    ASSUME NEW S \in SUBSET Nat, S # {}
    PROVE  Min(S) \in S /\ \A n \in S : Min(S) <= n
  <1>1. \E m \in S : \A n \in S : m <= n
    BY LeastOfNaturals
  <1> QED BY <1>1 DEF Min

LEMMA UnambiguousAreUnique ==
    ASSUME NEW r, Ambiguities(r) = {}
    PROVE  UniqueDefinitions(r) = Definitions(r) /\ AmbiguousLogical(r) = {}
  BY DEF UniqueDefinitions, AmbiguousLogical

LEMMA ChosenIsFirst ==
    ASSUME NEW r, WellFormed(r), NEW l, NEW locale, NEW d
    PROVE  d \in Chosen(r, l, locale) <=>
              /\ d \in UniqueDefinitions(r) /\ d.logical = l
              /\ \E i \in DOMAIN Chain(r, locale) :
                    /\ Chain(r, locale)[i] = d.locale
                    /\ \A j \in 1 .. i - 1 : \A e \in UniqueDefinitions(r) :
                          e.logical = l => e.locale # Chain(r, locale)[j]
  <1> DEFINE chain == Chain(r, locale)
             hits == {i \in DOMAIN chain : ExactDefinition(r, l, chain[i]) # {}}
  <1>1. DOMAIN chain = 1..Len(chain) /\ Len(chain) \in Nat
    BY ChainShape
  <1>2. hits \in SUBSET Nat
    BY <1>1
  <1>3. Chosen(r, l, locale) = IF hits = {} THEN {} ELSE ExactDefinition(r, l, chain[Min(hits)])
    BY DEF Chosen
  <1>4. \A e, x : e \in ExactDefinition(r, l, x) <=>
            e \in UniqueDefinitions(r) /\ e.logical = l /\ e.locale = x
    BY DEF ExactDefinition
  <1>5. \A i : i \in hits <=> i \in DOMAIN chain /\ \E e : e \in ExactDefinition(r, l, chain[i])
    OBVIOUS
  <1> HIDE DEF hits, chain
  <1>6. ASSUME d \in Chosen(r, l, locale)
        PROVE  /\ d \in UniqueDefinitions(r) /\ d.logical = l
               /\ \E i \in DOMAIN chain :
                    /\ chain[i] = d.locale
                    /\ \A j \in 1 .. i - 1 : \A e \in UniqueDefinitions(r) :
                          e.logical = l => e.locale # chain[j]
    <2>1. hits # {} /\ d \in ExactDefinition(r, l, chain[Min(hits)])
      BY <1>6, <1>3
    <2>2. Min(hits) \in hits /\ (\A n \in hits : Min(hits) <= n) /\ Min(hits) \in DOMAIN chain
      BY <2>1, <1>2, <1>5, MinIsLeast
    <2>3. ASSUME NEW j \in 1 .. Min(hits) - 1 PROVE j \in DOMAIN chain /\ j \notin hits
      BY <2>2, <1>1, <1>2
    <2>4. chain[Min(hits)] = d.locale /\ d \in UniqueDefinitions(r) /\ d.logical = l
      BY <2>1, <1>4
    <2>5. \A j \in 1 .. Min(hits) - 1 : \A e \in UniqueDefinitions(r) :
             e.logical = l => e.locale # chain[j]
      BY <2>3, <1>4, <1>5
    <2> QED BY <2>2, <2>4, <2>5
  <1>7. ASSUME d \in UniqueDefinitions(r), d.logical = l, NEW i \in DOMAIN chain, chain[i] = d.locale,
               \A j \in 1 .. i - 1 : \A e \in UniqueDefinitions(r) : e.logical = l => e.locale # chain[j]
        PROVE  d \in Chosen(r, l, locale)
    <2>1. d \in ExactDefinition(r, l, chain[i])
      BY <1>7, <1>4
    <2>2. i \in hits
      BY <2>1, <1>5
    <2>3. \A j \in 1 .. i - 1 : j \notin hits
      BY <1>4, <1>5, <1>7
    <2>4. Min(hits) \in hits /\ Min(hits) <= i
      BY <2>2, <1>2, MinIsLeast
    <2>5. Min(hits) \in 1..Len(chain) /\ i \in 1..Len(chain)
      BY <2>4, <2>2, <1>1, <1>5
    <2>6. Min(hits) = i
      BY <2>3, <2>4, <2>5, <1>1
    <2> QED BY <2>1, <2>2, <2>6, <1>3
  <1> QED BY <1>6, <1>7 DEF chain

LEMMA ChosenIsNearest ==
    ASSUME NEW r, WellFormed(r), Ambiguities(r) = {}, NEW l, NEW locale, NEW d
    PROVE  d \in Chosen(r, l, locale) <=>
              d \in Definitions(r) /\ d.logical = l /\ Nearest(r, d, locale)
  <1>1. ASSUME d.logical = l
        PROVE  Nearest(r, d, locale) <=>
                 \E i \in DOMAIN Chain(r, locale) :
                    /\ Chain(r, locale)[i] = d.locale
                    /\ \A j \in 1 .. i - 1 : \A e \in Definitions(r) :
                          e.logical = l => e.locale # Chain(r, locale)[j]
    BY <1>1 DEF Nearest
  <1>2. UniqueDefinitions(r) = Definitions(r)
    BY UnambiguousAreUnique
  <1> QED BY <1>1, <1>2, ChosenIsFirst

LEMMA PlanMeans ==
    ASSUME NEW r, WellFormed(r), FactsSuffice(r, Facts(r)),
           NEW unit \in r.units, NEW locale \in r.locales, NEW d
    PROVE  d \in Plans(r, Facts(r))[unit][locale] <=>
              d.logical \in Reachable(r, unit) /\ d \in Chosen(r, d.logical, locale)
  <1>1. Plans(r, Facts(r))[unit][locale] = UNION {Facts(r)[l][locale] : l \in Reachable(r, unit)}
    BY DEF Plans
  <1>2. \A l \in Reachable(r, unit) : Facts(r)[l][locale] = Chosen(r, l, locale)
    BY DEF Facts, FactsSuffice
  <1>3. \A l : d \in Chosen(r, l, locale) => d.logical = l
    BY ChosenIsFirst
  <1> QED BY <1>1, <1>2, <1>3

(* Who asks for a message.                                                  *)
LEMMA AskedIsReachable ==
    ASSUME NEW r, WellFormed(r), ~Blocked(r), NEW unit \in r.units, NEW d \in Definitions(r)
    PROVE  d.logical \in Reachable(r, unit) <=>
              \E s \in Askers(r, unit, d.logical.scope) : Means(s, d.logical.key)
  <1> DEFINE scope == d.logical.scope
             key == d.logical.key
  <1>1. d.logical = Logical(scope, key) /\ key \in Candidates(r, scope)
    BY DefinitionShape, CandidatesAreDefined
  <1>2. AmbiguousLogical(r) = {}
    BY UnblockedMeans, UnambiguousAreUnique
  <1>3. \A s : s \in Askers(r, unit, scope) <=>
           \/ \E f \in r.references : f.unit = unit /\ r.mapping[f.scope] = scope /\ s = f.selector
           \/ \E x \in r.roots : /\ r.mapping[x.scope] = scope /\ s = x.selector
                                 /\ ~\E m \in r.units : <<m, unit>> \in r.edges
    BY DEF Askers
  <1> HIDE DEF scope, key
  <1>4. (\E ref \in References(r) : ref.unit = unit /\ d.logical \in Selected(r, ref)) <=>
        (\E f \in r.references : f.unit = unit /\ r.mapping[f.scope] = scope /\ Means(f.selector, key))
    <2>1. ASSUME NEW f \in r.references
          PROVE  LET ref == [id |-> f.id, unit |-> f.unit, scope |-> Resolved(r, f.scope),
                             selector |-> f.selector]
                 IN  /\ ref \in References(r)
                     /\ d.logical \in Selected(r, ref) <=>
                           r.mapping[f.scope] = scope /\ Means(f.selector, key)
      <3> DEFINE ref == [id |-> f.id, unit |-> f.unit, scope |-> Resolved(r, f.scope),
                         selector |-> f.selector]
      <3>1. ref \in References(r)
        BY DEF References
      <3>2. ref.scope = r.mapping[f.scope] /\ ref.selector = f.selector
        BY DEF Resolved
      <3> HIDE DEF ref
      <3>3. d.logical \in Selected(r, ref) <=> ref.scope = scope /\ SelectsKey(r, ref, key)
        BY <3>1, <1>1, SelectedMeans, LogicalIsInjective
      <3>4. ASSUME ref.scope = scope PROVE SelectsKey(r, ref, key) <=> Means(ref.selector, key)
        <4>1. CASE ref.selector = UnboundedDynamic
          <5>1. r.dynamic = "compat"
            BY <4>1, <3>1, UnblockedMeans DEF WellFormed
          <5>2. Means(ref.selector, key)
            BY <4>1 DEF Means, UnboundedDynamic
          <5> QED BY <4>1, <5>1, <5>2, <3>4, <1>1 DEF SelectsKey
        <4>2. CASE ref.selector # UnboundedDynamic
          BY <4>2, <3>4, <1>1 DEF SelectsKey
        <4> QED BY <4>1, <4>2
      <3> QED BY <3>1, <3>2, <3>3, <3>4 DEF ref
    <2>2. \A ref \in References(r) : \E f \in r.references :
             ref = [id |-> f.id, unit |-> f.unit, scope |-> Resolved(r, f.scope),
                    selector |-> f.selector]
      BY DEF References
    <2>3. \A ref \in References(r) : \E f \in r.references :
             /\ ref.unit = f.unit
             /\ d.logical \in Selected(r, ref) <=> r.mapping[f.scope] = scope /\ Means(f.selector, key)
      BY <2>1, <2>2
    <2>4. \A f \in r.references : \E ref \in References(r) :
             /\ ref.unit = f.unit
             /\ d.logical \in Selected(r, ref) <=> r.mapping[f.scope] = scope /\ Means(f.selector, key)
      BY <2>1
    <2> QED BY <2>3, <2>4
  <1>5. d.logical \in RootSelected(r) <=>
           \E x \in r.roots : r.mapping[x.scope] = scope /\ Means(x.selector, key)
    <2>1. ASSUME NEW root \in ConfiguredRoots(r)
          PROVE  (\E k : /\ d.logical = Logical(root.scope, k) /\ Means(root.selector, k)
                         /\ root.selector.kind = "exact" \/ k \in Candidates(r, root.scope))
                 <=> root.scope = scope /\ Means(root.selector, key)
      <3>1. \A k : d.logical = Logical(root.scope, k) <=> root.scope = scope /\ k = key
        BY <1>1, LogicalIsInjective
      <3> QED BY <3>1, <1>1
    <2>2. d.logical \in RootSelected(r) <=>
              \E root \in ConfiguredRoots(r) : root.scope = scope /\ Means(root.selector, key)
      BY <2>1, RootSelectedMeans
    <2>3. \A root \in ConfiguredRoots(r) : \E x \in r.roots :
             root.scope = r.mapping[x.scope] /\ root.selector = x.selector
      BY DEF ConfiguredRoots, Resolved
    <2>4. \A x \in r.roots : \E root \in ConfiguredRoots(r) :
             root.scope = r.mapping[x.scope] /\ root.selector = x.selector
      <3> TAKE x \in r.roots
      <3> DEFINE root == [scope |-> Resolved(r, x.scope), selector |-> x.selector]
      <3>1. root \in ConfiguredRoots(r)
        BY DEF ConfiguredRoots
      <3>2. root.scope = r.mapping[x.scope] /\ root.selector = x.selector
        BY DEF Resolved
      <3> HIDE DEF root
      <3> QED BY <3>1, <3>2
    <2> QED BY <2>2, <2>3, <2>4
  <1>6. unit \in RootUnits(r) <=> ~\E m \in r.units : <<m, unit>> \in r.edges
    BY DEF RootUnits
  <1> QED BY <1>2, <1>3, <1>4, <1>5, <1>6, ReachableMeans DEF scope, key

-----------------------------------------------------------------------------
(* The inductive invariant: what is linked was admitted.                    *)
LinkedAsAdmitted ==
    /\ request \in Requests
    /\ \/ outcome \in {NoOutcome("submitted"), NoOutcome("rejected")}
       \/ Admissible(request) /\ outcome \in {NoOutcome("admitted"), Link(request)}

LEMMA LinkedAsAdmittedHolds == Spec => []LinkedAsAdmitted
  <1>1. ASSUME Init PROVE LinkedAsAdmitted
    BY <1>1 DEF Init, LinkedAsAdmitted
  <1>2. ASSUME LinkedAsAdmitted, [Next]_vars PROVE LinkedAsAdmitted'
    <2>1. CASE Admit
      <3> DEFINE now == IF Admissible(request) THEN "admitted" ELSE "rejected"
      <3>1. outcome' = NoOutcome(now) /\ request' = request
        BY <2>1 DEF Admit
      <3>2. CASE Admissible(request)
        <4>1. outcome' = NoOutcome("admitted")
          BY <3>1, <3>2
        <4>2. Admissible(request')
          BY <3>1, <3>2
        <4> QED BY <4>1, <4>2, <3>1, <1>2 DEF LinkedAsAdmitted
      <3>3. CASE ~Admissible(request)
        <4>1. outcome' = NoOutcome("rejected")
          BY <3>1, <3>3
        <4> QED BY <4>1, <3>1, <1>2 DEF LinkedAsAdmitted
      <3> QED BY <3>2, <3>3
    <2>2. CASE LinkRequest
      <3>1. outcome.status = "admitted" /\ outcome' = Link(request) /\ request' = request
        BY <2>2 DEF LinkRequest
      <3>2. Admissible(request)
        <4>1. outcome \notin {NoOutcome("submitted"), NoOutcome("rejected")}
          BY <3>1 DEF NoOutcome, Outcome
        <4> QED BY <4>1, <1>2 DEF LinkedAsAdmitted
      <3>3. Admissible(request') /\ outcome' = Link(request')
        BY <3>1, <3>2
      <3> QED BY <3>1, <3>3, <1>2 DEF LinkedAsAdmitted
    <2>3. CASE UNCHANGED vars
      <3>1. request' = request /\ outcome' = outcome
        BY <2>3 DEF vars
      <3> QED BY <3>1, <1>2 DEF LinkedAsAdmitted
    <2> QED BY <1>2, <2>1, <2>2, <2>3 DEF Next
  <1> QED BY <1>1, <1>2, PTL DEF Spec

\* What each outcome says of its request.
LEMMA OutcomeMeans ==
    ASSUME LinkedAsAdmitted
    PROVE  /\ outcome.status # "internal"
           /\ WellFormed(request)
           /\ outcome.status \in {"planned", "blocked"} =>
                 /\ Admissible(request) /\ ~(MatchWork(request) > MaxMatchStates)
                 /\ LookupsSucceed(request)
                 /\ outcome.findings = Found(request)
                 /\ outcome.models = TypedKeyModels(request)
           /\ outcome.status = "planned" =>
                 /\ ~Blocked(request) /\ FactsSuffice(request, Facts(request))
                 /\ outcome.plans = Plans(request, Facts(request))
           /\ outcome.status = "blocked" => Blocked(request) /\ outcome.plans = NoPlans
           /\ outcome.status \notin {"planned", "blocked"} => outcome.models = {}
  <1>1. WellFormed(request)
    BY RequestsAssumption DEF LinkedAsAdmitted
  <1>2. \A s : NoOutcome(s).status = s /\ NoOutcome(s).models = {}
    BY DEF NoOutcome, Outcome
  <1>3. CASE outcome \in {NoOutcome("submitted"), NoOutcome("rejected"), NoOutcome("admitted")}
    <2>1. outcome.status \in {"submitted", "rejected", "admitted"} /\ outcome.models = {}
      BY <1>2, <1>3
    <2> QED BY <1>1, <2>1
  <1>4. CASE Admissible(request) /\ outcome = Link(request)
    <2>1. LookupsSucceed(request)
      BY <1>4, LookupsAlwaysSucceed DEF Admissible
    <2>2. Blocked(request) \/ FactsSuffice(request, Facts(request))
      BY <1>1, <1>4, FactsAlwaysSuffice DEF Admissible
    <2>3. CASE outcome = NoOutcome("limit")
      BY <1>1, <1>2, <2>3
    <2>4. CASE /\ ~(MatchWork(request) > MaxMatchStates) /\ Blocked(request)
               /\ outcome = Outcome("blocked", Found(request), NoPlans, TypedKeyModels(request))
      <3>1. /\ outcome.status = "blocked" /\ outcome.findings = Found(request)
            /\ outcome.plans = NoPlans /\ outcome.models = TypedKeyModels(request)
        BY <2>4 DEF Outcome
      <3> QED BY <3>1, <1>1, <1>4, <2>1, <2>4
    <2>5. CASE /\ ~(MatchWork(request) > MaxMatchStates) /\ ~Blocked(request)
               /\ outcome = Outcome("planned", Found(request), Plans(request, Facts(request)),
                                    TypedKeyModels(request))
      <3>1. /\ outcome.status = "planned" /\ outcome.findings = Found(request)
            /\ outcome.plans = Plans(request, Facts(request))
            /\ outcome.models = TypedKeyModels(request)
        BY <2>5 DEF Outcome
      <3> QED BY <3>1, <1>1, <1>4, <2>1, <2>2, <2>5
    <2> QED BY <1>4, <2>1, <2>2, <2>3, <2>4, <2>5, LinkMeans
  <1> QED BY <1>3, <1>4 DEF LinkedAsAdmitted

(* Every plan holds the nearest definition of exactly the messages its unit *)
(* asks for, for every request (match_pattern, resolve_references,          *)
(* materialize_plans).                                                      *)
THEOREM PlansCarryWhatIsAsked == Spec => []PlansHoldWhatIsAsked
  <1>1. ASSUME LinkedAsAdmitted PROVE PlansHoldWhatIsAsked
    <2> SUFFICES ASSUME outcome.status = "planned",
                        NEW unit \in request.units, NEW locale \in request.locales, NEW d
                 PROVE  d \in outcome.plans[unit][locale] <=>
                           /\ d \in Definitions(request)
                           /\ \E s \in Askers(request, unit, d.logical.scope) : Means(s, d.logical.key)
                           /\ Nearest(request, d, locale)
      BY DEF PlansHoldWhatIsAsked
    <2>1. /\ WellFormed(request) /\ ~Blocked(request) /\ FactsSuffice(request, Facts(request))
          /\ outcome.plans = Plans(request, Facts(request))
      BY <1>1, OutcomeMeans
    <2>2. d \in outcome.plans[unit][locale] <=>
             d.logical \in Reachable(request, unit) /\ d \in Chosen(request, d.logical, locale)
      BY <2>1, PlanMeans
    <2>3. d \in Chosen(request, d.logical, locale) <=>
             d \in Definitions(request) /\ Nearest(request, d, locale)
      BY <2>1, UnblockedMeans, ChosenIsNearest
    <2>4. d \in Definitions(request) =>
             (d.logical \in Reachable(request, unit) <=>
                \E s \in Askers(request, unit, d.logical.scope) : Means(s, d.logical.key))
      BY <2>1, AskedIsReachable
    <2> QED BY <2>2, <2>3, <2>4
  <1> QED BY <1>1, LinkedAsAdmittedHolds, PTL

(* A reference that resolved: its messages have a definition everywhere.    *)
LEMMA ResolvedReferencesFind ==
    ASSUME NEW r, WellFormed(r), Admissible(r), ~Blocked(r), FactsSuffice(r, Facts(r)),
           NEW ref \in References(r), ref.selector # UnboundedDynamic
    PROVE  /\ \E key : SelectsKey(r, ref, key)
           /\ \A key : SelectsKey(r, ref, key) =>
                 \A locale \in r.locales : Chosen(r, Logical(ref.scope, key), locale) # {}
  <1>1. Failures(r, Facts(r), ref) = {} /\ ref.unit \in r.units /\ ref.scope \in Scopes(r)
    BY UnblockedMeans, LookupsAlwaysSucceed DEF Admissible, LookupsSucceed, UnitIsKnown, ScopeIsKnown
  <1>2. PICK locale0 \in r.locales : TRUE
    BY DEF Admissible, ValidPolicy
  <1>3. ~UnmatchedNonExact(r, ref)
    <2> SUFFICES ASSUME UnmatchedNonExact(r, ref) PROVE FALSE
      OBVIOUS
    <2>1. Failures(r, Facts(r), ref) = {[key |-> "selector", locale |-> l] : l \in r.locales}
      BY DEF Failures
    <2> QED BY <1>1, <1>2, <2>1
  <1>4. \E key : SelectsKey(r, ref, key)
    <2>1. CASE ref.selector.kind = "exact"
      BY <2>1 DEF SelectsKey, Means
    <2>2. CASE ref.selector.kind # "exact"
      <3>1. IsNonExactBounded(ref.selector)
        BY <2>2, ReferenceShape, SelectorKinds DEF IsNonExactBounded
      <3>2. DefinitionSideClosed(r, ref.scope)
        BY <1>1, UnblockedMeans
      <3>3. Selected(r, ref) # {}
        BY <1>3, <3>1, <3>2 DEF UnmatchedNonExact
      <3> QED BY <3>3, SelectedMeans
    <2> QED BY <2>1, <2>2
  <1>5. ASSUME NEW key, SelectsKey(r, ref, key), NEW locale \in r.locales
        PROVE  Chosen(r, Logical(ref.scope, key), locale) # {}
    <2> DEFINE l == Logical(ref.scope, key)
               f == [key |-> key, locale |-> locale]
    <2>1. l \in Selected(r, ref) /\ l.key = key
      BY <1>5, SelectedMeans DEF Logical
    <2>2. l \notin AmbiguousLogical(r)
      BY UnblockedMeans, UnambiguousAreUnique
    <2>3. l \in DOMAIN Facts(r)
      BY <1>1, <2>1, <2>2, ReachableMeans DEF FactsSuffice
    <2>4. Facts(r)[l][locale] = Chosen(r, l, locale)
      BY <2>3 DEF Facts
    <2> SUFFICES ASSUME Chosen(r, l, locale) = {} PROVE FALSE
      OBVIOUS
    <2>5. f \in [key : {m.key : m \in Selected(r, ref)}, locale : r.locales]
      <3>1. key \in {m.key : m \in Selected(r, ref)}
        BY <2>1
      <3> QED BY <3>1
    <2>6. f.key = key /\ f.locale = locale
      OBVIOUS
    <2> HIDE DEF f
    <2>7. f \in {g \in [key : {m.key : m \in Selected(r, ref)}, locale : r.locales] :
                  /\ Logical(ref.scope, g.key) \in DOMAIN Facts(r)
                  /\ Facts(r)[Logical(ref.scope, g.key)][g.locale] = {}}
      BY <2>3, <2>4, <2>5, <2>6
    <2>8. Failures(r, Facts(r), ref) =
             {g \in [key : {m.key : m \in Selected(r, ref)}, locale : r.locales] :
                  /\ Logical(ref.scope, g.key) \in DOMAIN Facts(r)
                  /\ Facts(r)[Logical(ref.scope, g.key)][g.locale] = {}}
      BY <1>3 DEF Failures
    <2> QED BY <1>1, <2>7, <2>8
  <1> QED BY <1>4, <1>5

(* Published plans answer every lookup, and none of link's own lookups of   *)
(* units, scopes and facts ends in InternalInvariant, for every admitted    *)
(* request (materialize_findings, build_duplicate_reachability, link).      *)
THEOREM PlannedLookupsSucceed == Spec => []NoLookupComesUpEmpty
  <1>1. ASSUME LinkedAsAdmitted PROVE NoLookupComesUpEmpty
    <2> DEFINE Defined == {d.logical : d \in Definitions(request)}
               Meant(f) == {k \in {d.logical.key : d \in Definitions(request)} :
                              Logical(request.mapping[f.scope], k) \in Defined /\ Means(f.selector, k)}
               Carried(f, locale) == {d.logical : d \in outcome.plans[f.unit][locale]}
    <2>1. SUFFICES ASSUME outcome.status = "planned", NEW f \in request.references,
                          f.selector # UnboundedDynamic, NEW locale \in request.locales
                   PROVE  /\ Meant(f) # {}
                          /\ LogicalOf(request.mapping[f.scope], Meant(f)) \subseteq Carried(f, locale)
      BY <1>1, OutcomeMeans DEF NoLookupComesUpEmpty
    <2> DEFINE ref == [id |-> f.id, unit |-> f.unit, scope |-> Resolved(request, f.scope),
                       selector |-> f.selector]
               scope == request.mapping[f.scope]
    <2>2. /\ WellFormed(request) /\ Admissible(request) /\ ~Blocked(request)
          /\ FactsSuffice(request, Facts(request)) /\ outcome.plans = Plans(request, Facts(request))
      BY <1>1, <2>1, OutcomeMeans
    <2>3. ref \in References(request)
      BY DEF References
    <2>4. ref.unit = f.unit /\ ref.scope = scope /\ ref.selector = f.selector
      BY DEF Resolved
    <2> HIDE DEF ref, scope
    <2>5. /\ \E key : SelectsKey(request, ref, key)
          /\ \A key : SelectsKey(request, ref, key) => Chosen(request, Logical(scope, key), locale) # {}
      BY <2>1, <2>2, <2>3, <2>4, ResolvedReferencesFind
    <2>6. \A key : SelectsKey(request, ref, key) <=>
             (ref.selector.kind = "exact" \/ key \in Candidates(request, scope)) /\ Means(f.selector, key)
      BY <2>1, <2>4 DEF SelectsKey
    <2>7. \A l : \A d \in Chosen(request, l, locale) : d \in Definitions(request) /\ d.logical = l
      BY <2>2, ChosenIsFirst DEF UniqueDefinitions
    <2>8. \A key : Logical(scope, key).key = key
      BY DEF Logical
    <2>9. \A key : key \in Meant(f) <=> Logical(scope, key) \in Defined /\ Means(f.selector, key)
      BY <2>8 DEF scope
    <2>10. Meant(f) # {}
      <3>1. PICK key : SelectsKey(request, ref, key)
        BY <2>5
      <3>2. PICK d : d \in Chosen(request, Logical(scope, key), locale)
        BY <2>5, <3>1
      <3>3. Logical(scope, key) \in Defined /\ Means(f.selector, key)
        BY <2>6, <2>7, <3>1, <3>2
      <3> HIDE DEF Meant
      <3> QED BY <2>9, <3>3
    <2>11. ASSUME NEW key \in Meant(f) PROVE Logical(scope, key) \in Carried(f, locale)
      <3>1. Logical(scope, key) \in Defined /\ Means(f.selector, key)
        <4> HIDE DEF Meant, Defined
        <4> QED BY <2>9
      <3>2. key \in Candidates(request, scope)
        BY <3>1, <2>2, CandidatesAreDefined
      <3>3. SelectsKey(request, ref, key)
        BY <3>1, <3>2, <2>6
      <3>4. PICK d : d \in Chosen(request, Logical(scope, key), locale)
        BY <2>5, <3>3
      <3>5. d.logical = Logical(scope, key)
        BY <2>7, <3>4
      <3>6. Logical(scope, key) \in Selected(request, ref)
        BY <2>2, <2>3, <2>4, <3>3, SelectedMeans
      <3>7. d.logical \in Reachable(request, f.unit)
        BY <2>2, <2>3, <2>4, <3>5, <3>6, ReachableMeans, UnblockedMeans, UnambiguousAreUnique
      <3>8. f.unit \in request.units
        BY <2>2 DEF Admissible, ValidDelivery
      <3>9. d \in outcome.plans[f.unit][locale]
        BY <2>2, <3>4, <3>5, <3>7, <3>8, PlanMeans
      <3> QED BY <3>5, <3>9
    <2> HIDE DEF Meant, Carried
    <2>12. LogicalOf(scope, Meant(f)) \subseteq Carried(f, locale)
      BY <2>11 DEF LogicalOf
    <2> QED BY <2>10, <2>12 DEF scope
  <1> QED BY <1>1, LinkedAsAdmittedHolds, PTL

(* Where a typed-key model exists its scope has one baseline locale, and    *)
(* unambiguous definitions give each key one definition there.              *)
LEMMA BaselineIsSingle ==
    ASSUME NEW r, ValidResolution(r), NEW scope, NEW x \in BaselineOf(r, scope),
           NEW y \in BaselineOf(r, scope)
    PROVE  x = y
  BY DEF BaselineOf, ValidResolution

LEMMA BaselineDefinesOnce ==
    ASSUME NEW r, WellFormed(r), ValidResolution(r), NEW scope,
           NEW d \in BaselineDefinitions(r, scope), NEW e \in BaselineDefinitions(r, scope),
           d.logical.key = e.logical.key
    PROVE  d = e
  <1>1. /\ d \in Definitions(r) /\ e \in Definitions(r)
        /\ d.logical.scope = scope /\ e.logical.scope = scope
        /\ d.logical \notin AmbiguousLogical(r)
        /\ d.locale \in BaselineOf(r, scope) /\ e.locale \in BaselineOf(r, scope)
    BY DEF BaselineDefinitions, UniqueIn, UniqueDefinitions
  <1>2. d.logical = e.logical
    <2>1. d.logical = Logical(d.logical.scope, d.logical.key) /\ e.logical = Logical(e.logical.scope, e.logical.key)
      BY <1>1, DefinitionShape
    <2> QED BY <1>1, <2>1
  <1>3. d.locale = e.locale
    BY <1>1, BaselineIsSingle
  <1>4. d.at = e.at
    BY <1>1, <1>2, <1>3 DEF Ambiguities, AmbiguousLogical
  <1>5. /\ d = [logical |-> d.logical, locale |-> d.locale, at |-> d.at]
        /\ e = [logical |-> e.logical, locale |-> e.locale, at |-> e.at]
    BY <1>1, DefinitionShape
  <1> QED BY <1>2, <1>3, <1>4, <1>5

(* A locale's chain leads to production locales only.                       *)
LEMMA ChainsAreProduction ==
    ASSUME NEW r, WellFormed(r), ValidPolicy(r), NEW locale \in r.locales,
           NEW i \in DOMAIN Chain(r, locale)
    PROVE  Chain(r, locale)[i] \in r.locales
  <1>1. CASE Chain(r, locale)[i] = locale
    BY <1>1
  <1>2. CASE locale \in DOMAIN r.fallbacks /\ Chain(r, locale)[i] \in ToSet(r.fallbacks[locale])
    <2>1. ToSet(r.fallbacks[locale]) \subseteq r.locales \ {locale}
      BY <1>2 DEF ValidPolicy
    <2> QED BY <1>2, <2>1
  <1> QED BY <1>1, <1>2, ChainShape

(* Typed accessors have every key that is shipped, and one baseline         *)
(* definition to type it by (analyze_coverage, construct_typed_key_models). *)
THEOREM TypedKeysCoverPlans == Spec => []ModelsCoverPlans
  <1>1. ASSUME LinkedAsAdmitted PROVE ModelsCoverPlans
    <2> SUFFICES ASSUME NEW m \in outcome.models
                 PROVE  LET offered == {d.logical.key : d \in m.baseline}
                        IN  /\ \A k \in offered : Cardinality({d \in m.baseline : d.logical.key = k}) = 1
                            /\ outcome.status = "planned" =>
                                  \A unit \in request.units, locale \in request.locales :
                                     \A d \in outcome.plans[unit][locale] :
                                        d.logical.scope = m.scope => d.logical.key \in offered
      BY DEF ModelsCoverPlans
    <2>1. outcome.status \in {"planned", "blocked"}
      BY <1>1, OutcomeMeans
    <2>2. WellFormed(request) /\ Admissible(request) /\ outcome.models = TypedKeyModels(request)
      BY <1>1, <2>1, OutcomeMeans
    <2>3. HasModel(request, m.scope) /\ m.baseline = BaselineDefinitions(request, m.scope)
      BY <2>2 DEF TypedKeyModels
    <2> DEFINE offered == {d.logical.key : d \in m.baseline}
    <2>4. ASSUME NEW k \in offered PROVE Cardinality({d \in m.baseline : d.logical.key = k}) = 1
      <3>1. PICK d \in m.baseline : d.logical.key = k
        OBVIOUS
      <3>2. \A e \in m.baseline : e.logical.key = k => e = d
        BY <2>2, <2>3, <3>1, BaselineDefinesOnce DEF Admissible
      <3>3. {e \in m.baseline : e.logical.key = k} = {d}
        BY <3>1, <3>2
      <3> QED BY <3>3, FS_Singleton
    <2>5. ASSUME outcome.status = "planned", NEW unit \in request.units, NEW locale \in request.locales,
                 NEW d \in outcome.plans[unit][locale], d.logical.scope = m.scope
          PROVE  d.logical.key \in offered
      <3>1. outcome.plans = Plans(request, Facts(request)) /\ FactsSuffice(request, Facts(request))
        BY <1>1, <2>5, OutcomeMeans
      <3>2. d \in Chosen(request, d.logical, locale)
        BY <2>2, <2>5, <3>1, PlanMeans
      <3>3. d \in UniqueDefinitions(request) /\ d.locale \in request.locales
        BY <2>2, <3>2, ChosenIsFirst, ChainsAreProduction DEF Admissible
      <3>4. d \in UniqueIn(request, m.scope)
        BY <2>5, <3>3 DEF UniqueIn
      <3>5. d.logical.key \notin KeysMissing(request, m.scope)
        BY <2>3 DEF HasModel
      <3>6. d.logical.key \in {e.logical.key : e \in BaselineDefinitions(request, m.scope)}
        BY <3>3, <3>4, <3>5 DEF KeysMissing
      <3> QED BY <2>3, <3>6
    <2> QED BY <2>4, <2>5
  <1> QED BY <1>1, LinkedAsAdmittedHolds, PTL

-----------------------------------------------------------------------------
(* A request without some definitions costs no more to match.               *)
LEMMA FiniteImage ==
    ASSUME NEW S, IsFiniteSet(S), NEW T, NEW f \in [S -> T], \A t \in T : \E x \in S : f[x] = t
    PROVE  IsFiniteSet(T)
  <1>1. f \in Surjection(S, T)
    BY DEF Surjection
  <1> QED BY <1>1, FS_Surjection

LEMMA FiniteUnion ==
    ASSUME NEW S, IsFiniteSet(S), \A x \in S : IsFiniteSet(x)
    PROVE  IsFiniteSet(UNION S)
  <1> DEFINE A == {n \in Nat : \A T \in SUBSET S : Cardinality(T) = n => IsFiniteSet(UNION T)}
  <1>1. 0 \in A
    <2> SUFFICES ASSUME NEW T \in SUBSET S, Cardinality(T) = 0 PROVE IsFiniteSet(UNION T)
      OBVIOUS
    <2>1. T = {}
      BY FS_Subset, FS_EmptySet
    <2>2. UNION T = {}
      BY <2>1
    <2> QED BY <2>2, FS_EmptySet
  <1>2. ASSUME NEW n \in Nat, n \in A PROVE n + 1 \in A
    <2> SUFFICES ASSUME NEW T \in SUBSET S, Cardinality(T) = n + 1 PROVE IsFiniteSet(UNION T)
      OBVIOUS
    <2>1. IsFiniteSet(T) /\ T # {}
      BY FS_Subset, FS_EmptySet
    <2>2. PICK x \in T : TRUE
      BY <2>1
    <2>3. Cardinality(T \ {x}) = (n + 1) - 1
      BY <2>1, <2>2, FS_RemoveElement
    <2>4. T \ {x} \in SUBSET S /\ Cardinality(T \ {x}) = n /\ x \in S
      BY <2>2, <2>3
    <2>5. IsFiniteSet(UNION (T \ {x})) /\ IsFiniteSet(x)
      BY <2>4, <1>2
    <2>6. UNION T = (UNION (T \ {x})) \cup x
      BY <2>2
    <2> DEFINE U == UNION (T \ {x})
    <2> HIDE DEF U
    <2>7. IsFiniteSet(U) /\ UNION T = U \cup x
      BY <2>5, <2>6 DEF U
    <2>8. IsFiniteSet(U \cup x)
      BY <2>5, <2>7, FS_Union
    <2> QED BY <2>7, <2>8
  <1>3. Nat \subseteq A
    <2> HIDE DEF A
    <2> QED BY <1>1, <1>2, InductionOnNaturals
  <1>4. Cardinality(S) \in Nat
    BY FS_CardinalityType
  <1>5. Cardinality(S) \in A
    <2> HIDE DEF A
    <2> QED BY <1>3, <1>4
  <1> QED BY <1>5

LEMMA IndexIsFinite ==
    ASSUME NEW r, WellFormed(r)
    PROVE  /\ IsFiniteSet(References(r)) /\ IsFiniteSet(ConfiguredRoots(r))
           /\ \A scope : IsFiniteSet(Candidates(r, scope))
  <1>1. IsFiniteSet(References(r))
    <2> DEFINE f == [x \in r.references |->
                      [id |-> x.id, unit |-> x.unit, scope |-> Resolved(r, x.scope), selector |-> x.selector]]
    <2>1. f \in [r.references -> References(r)] /\ \A t \in References(r) : \E x \in r.references : f[x] = t
      BY DEF References
    <2> HIDE DEF f
    <2> QED BY <2>1, FiniteImage DEF WellFormed
  <1>2. IsFiniteSet(ConfiguredRoots(r))
    <2> DEFINE f == [x \in r.roots |-> [scope |-> Resolved(r, x.scope), selector |-> x.selector]]
    <2>1. f \in [r.roots -> ConfiguredRoots(r)] /\ \A t \in ConfiguredRoots(r) : \E x \in r.roots : f[x] = t
      BY DEF ConfiguredRoots
    <2> HIDE DEF f
    <2> QED BY <2>1, FiniteImage DEF WellFormed
  <1>3. IsFiniteSet(Definitions(r))
    <2> DEFINE f == [x \in r.definitions |->
                      [logical |-> Logical(Resolved(r, x.scope), x.key), locale |-> x.locale, at |-> x.at]]
    <2>1. f \in [r.definitions -> Definitions(r)] /\ \A t \in Definitions(r) : \E x \in r.definitions : f[x] = t
      BY DEF Definitions
    <2> HIDE DEF f
    <2> QED BY <2>1, FiniteImage DEF WellFormed
  <1>4. ASSUME NEW scope PROVE IsFiniteSet(Candidates(r, scope))
    <2> DEFINE D == {e \in Definitions(r) : e.logical.scope = scope}
               f == [d \in D |-> d.logical.key]
    <2>1. IsFiniteSet(D)
      BY <1>3, FS_Subset
    <2>2. f \in [D -> Candidates(r, scope)] /\ \A t \in Candidates(r, scope) : \E x \in D : f[x] = t
      BY DEF Candidates
    <2> HIDE DEF f, D
    <2> QED BY <2>1, <2>2, FiniteImage
  <1> QED BY <1>1, <1>2, <1>4

LEMMA ChargeIsFinite ==
    ASSUME NEW by, ValidPattern(by.selector.tokens), NEW key, IsVector(key)
    PROVE  IsFiniteSet(Charged(by, key))
  <1> DEFINE P == 0..Len(by.selector.tokens)
             K == 0..Len(key)
             M == MatchStates(by.selector.tokens, key)
  <1>1. IsFiniteSet(P) /\ IsFiniteSet(K)
    <2>1. Len(by.selector.tokens) \in Int /\ Len(key) \in Int /\ 0 \in Int
      BY PatternShape, VectorsHaveLength
    <2> QED BY <2>1, FS_Interval
  <1> HIDE DEF P, K
  <1>2. ASSUME NEW n PROVE IsFiniteSet({<<n, p>> : p \in P})
    <2> DEFINE f == [p \in P |-> <<n, p>>]
               T == {<<n, p>> : p \in P}
    <2>1. f \in [P -> T] /\ \A t \in T : \E x \in P : f[x] = t
      OBVIOUS
    <2> HIDE DEF f, T
    <2>2. IsFiniteSet(T)
      BY <1>1, <2>1, FiniteImage
    <2> QED BY <2>2 DEF T
  <1>3. IsFiniteSet({{<<n, p>> : p \in P} : n \in K})
    <2> DEFINE T == {{<<n, p>> : p \in P} : n \in K}
               f == [n \in K |-> {<<n, p>> : p \in P}]
    <2>1. f \in [K -> T] /\ \A t \in T : \E x \in K : f[x] = t
      OBVIOUS
    <2> HIDE DEF f, T
    <2>2. IsFiniteSet(T)
      BY <1>1, <2>1, FiniteImage
    <2> QED BY <2>2 DEF T
  <1>4. IsFiniteSet(UNION {{<<n, p>> : p \in P} : n \in K})
    BY <1>2, <1>3, FiniteUnion
  <1>5. M \subseteq UNION {{<<n, p>> : p \in P} : n \in K}
    BY DEF MatchStates, P, K
  <1>6. IsFiniteSet(M)
    BY <1>4, <1>5, FS_Subset
  <1> HIDE DEF M
  <1> DEFINE g == [s \in M |-> <<by, key, s>>]
             T == {<<by, key, s>> : s \in M}
  <1>7. g \in [M -> T] /\ \A t \in T : \E x \in M : g[x] = t
    OBVIOUS
  <1> HIDE DEF g
  <1>8. Charged(by, key) = T
    BY DEF Charged, M
  <1> HIDE DEF T
  <1> QED BY <1>6, <1>7, <1>8, FiniteImage

\* All that is charged.
Charges(r) ==
    UNION {ChargedBy(r, x) :
        x \in {y \in References(r) \cup ConfiguredRoots(r) : y.selector.kind = "pattern"}}

LEMMA ChargesAreFinite ==
    ASSUME NEW r, WellFormed(r)
    PROVE  IsFiniteSet(Charges(r))
  <1> DEFINE X == {y \in References(r) \cup ConfiguredRoots(r) : y.selector.kind = "pattern"}
  <1>1. IsFiniteSet(X)
    <2>1. IsFiniteSet(References(r) \cup ConfiguredRoots(r))
      BY IndexIsFinite, FS_Union
    <2> QED BY <2>1, FS_Subset
  <1>2. \A x \in X : ValidPattern(x.selector.tokens)
    BY ReferenceShape, RootShape, SelectorKinds DEF Bounded
  <1> HIDE DEF X
  <1>3. ASSUME NEW x \in X PROVE IsFiniteSet(ChargedBy(r, x))
    <2> DEFINE C == Candidates(r, x.scope)
               T == {Charged(x, key) : key \in C}
               f == [key \in C |-> Charged(x, key)]
    <2>1. IsFiniteSet(C) /\ \A key \in C : IsVector(key)
      BY IndexIsFinite, CandidatesAreDefined
    <2> HIDE DEF C
    <2>2. f \in [C -> T] /\ \A t \in T : \E y \in C : f[y] = t
      OBVIOUS
    <2>3. \A t \in T : IsFiniteSet(t)
      BY <1>2, <2>1, ChargeIsFinite
    <2> HIDE DEF f
    <2>4. ChargedBy(r, x) = UNION T
      BY DEF ChargedBy, C
    <2> HIDE DEF T
    <2>5. IsFiniteSet(T)
      BY <2>1, <2>2, FiniteImage
    <2> QED BY <2>3, <2>4, <2>5, FiniteUnion
  <1> DEFINE T == {ChargedBy(r, x) : x \in X}
             f == [x \in X |-> ChargedBy(r, x)]
  <1>4. f \in [X -> T] /\ \A t \in T : \E y \in X : f[y] = t
    OBVIOUS
  <1>5. \A t \in T : IsFiniteSet(t)
    BY <1>3
  <1>6. Charges(r) = UNION T
    BY DEF Charges, X
  <1> HIDE DEF T, f
  <1>7. IsFiniteSet(T)
    BY <1>1, <1>4, FiniteImage
  <1> QED BY <1>5, <1>6, <1>7, FiniteUnion

-----------------------------------------------------------------------------
(* Removing unused definitions leaves everything else as it was.            *)
LEMMA PrunedShape ==
    ASSUME NEW r, WellFormed(r), NEW gone
    PROVE  LET p == Without(r, gone)
           IN  /\ p.references = r.references /\ p.mapping = r.mapping /\ p.partial = r.partial
               /\ p.locales = r.locales /\ p.fallbacks = r.fallbacks /\ p.roots = r.roots
               /\ p.dynamic = r.dynamic /\ p.units = r.units /\ p.edges = r.edges
               /\ DOMAIN p = DOMAIN r
               /\ p.definitions =
                    {d \in r.definitions : \A e \in gone :
                       ~(e.logical = Logical(Resolved(r, d.scope), d.key) /\ e.locale = d.locale /\ e.at = d.at)}
  BY DEF Without, WellFormed

LEMMA PrunedIndex ==
    ASSUME NEW r, WellFormed(r), NEW gone, gone \subseteq Definitions(r)
    PROVE  LET p == Without(r, gone)
           IN  /\ WellFormed(p)
               /\ References(p) = References(r) /\ ConfiguredRoots(p) = ConfiguredRoots(r)
               /\ Scopes(p) = Scopes(r) /\ RootUnits(p) = RootUnits(r)
               /\ \A scope : DefinitionSideClosed(p, scope) <=> DefinitionSideClosed(r, scope)
               /\ \A side, scope : SideClosed(p, side, scope) <=> SideClosed(r, side, scope)
               /\ \A locale : Chain(p, locale) = Chain(r, locale)
               /\ Definitions(p) = Definitions(r) \ gone
  <1> DEFINE p == Without(r, gone)
  <1>1. /\ p.references = r.references /\ p.mapping = r.mapping /\ p.partial = r.partial
        /\ p.locales = r.locales /\ p.fallbacks = r.fallbacks /\ p.roots = r.roots
        /\ p.dynamic = r.dynamic /\ p.units = r.units /\ p.edges = r.edges
        /\ DOMAIN p = DOMAIN r
        /\ p.definitions =
             {d \in r.definitions : \A e \in gone :
                ~(e.logical = Logical(Resolved(r, d.scope), d.key) /\ e.locale = d.locale /\ e.at = d.at)}
    BY PrunedShape
  <1> HIDE DEF p
  <1>2. WellFormed(p)
    <2>1. p.definitions \subseteq r.definitions /\ IsFiniteSet(r.definitions)
      BY <1>1 DEF WellFormed
    <2>2. IsFiniteSet(p.definitions)
      BY <2>1, FS_Subset
    <2> QED BY <1>1, <2>1, <2>2 DEF WellFormed
  <1>3. \A s : Resolved(p, s) = Resolved(r, s)
    BY <1>1 DEF Resolved
  <1>4. References(p) = References(r)
    BY <1>1, <1>3 DEF References
  <1>5. ConfiguredRoots(p) = ConfiguredRoots(r)
    BY <1>1, <1>3 DEF ConfiguredRoots
  <1>6. Scopes(p) = Scopes(r)
    BY <1>1, <1>3 DEF Scopes
  <1>7. RootUnits(p) = RootUnits(r)
    BY <1>1 DEF RootUnits
  <1>8. \A side, scope : SideClosed(p, side, scope) <=> SideClosed(r, side, scope)
    BY <1>1, <1>3 DEF SideClosed
  <1>9. \A locale : Chain(p, locale) = Chain(r, locale)
    BY <1>1 DEF Chain
  <1>10. Definitions(p) = Definitions(r) \ gone
    <2> DEFINE Of(d) == [logical |-> Logical(Resolved(r, d.scope), d.key), locale |-> d.locale, at |-> d.at]
    <2>1. \A e \in gone : e = [logical |-> e.logical, locale |-> e.locale, at |-> e.at]
      BY DefinitionShape
    <2>2. \A d : \A e \in gone :
             e = Of(d) <=> e.logical = Logical(Resolved(r, d.scope), d.key) /\ e.locale = d.locale /\ e.at = d.at
      BY <2>1
    <2>3. Definitions(r) = {Of(d) : d \in r.definitions}
      BY DEF Definitions
    <2>4. Definitions(p) = {Of(d) : d \in p.definitions}
      BY <1>3 DEF Definitions
    <2>5. \A d : d \in p.definitions <=> d \in r.definitions /\ Of(d) \notin gone
      <3> HIDE DEF Of
      <3> QED BY <1>1, <2>2
    <2> HIDE DEF Of
    <2> QED BY <2>3, <2>4, <2>5
  <1> QED BY <1>2, <1>4, <1>5, <1>6, <1>7, <1>8, <1>9, <1>10 DEF p, DefinitionSideClosed

LEMMA PrunedCandidates ==
    ASSUME NEW r, WellFormed(r), NEW gone, gone \subseteq Definitions(r), NEW scope, NEW key
    PROVE  key \in Candidates(Without(r, gone), scope) <=>
              \E d \in Definitions(r) \ gone : d.logical = Logical(scope, key)
  <1>1. WellFormed(Without(r, gone)) /\ Definitions(Without(r, gone)) = Definitions(r) \ gone
    BY PrunedIndex
  <1> QED BY <1>1, CandidatesAreDefined

LEMMA PrunedCostsNoMore ==
    ASSUME NEW r, WellFormed(r), NEW gone, gone \subseteq Definitions(r),
           ~(MatchWork(r) > MaxMatchStates)
    PROVE  ~(MatchWork(Without(r, gone)) > MaxMatchStates)
  <1> DEFINE p == Without(r, gone)
  <1>1. \A scope : Candidates(p, scope) \subseteq Candidates(r, scope)
    BY PrunedCandidates, CandidatesAreDefined
  <1>2. WellFormed(p) /\ References(p) = References(r) /\ ConfiguredRoots(p) = ConfiguredRoots(r)
    BY PrunedIndex
  <1> HIDE DEF p
  <1>3. \A x : ChargedBy(p, x) \subseteq ChargedBy(r, x)
    BY <1>1 DEF ChargedBy
  <1>4. Charges(p) \subseteq Charges(r)
    BY <1>2, <1>3 DEF Charges
  <1>5. IsFiniteSet(Charges(r)) /\ IsFiniteSet(Charges(p))
    BY <1>2, ChargesAreFinite
  <1>6. Cardinality(Charges(p)) <= Cardinality(Charges(r))
    BY <1>4, <1>5, FS_Subset
  <1>7. Cardinality(Charges(p)) \in Nat /\ Cardinality(Charges(r)) \in Nat
    BY <1>5, FS_CardinalityType
  <1>8. MatchWork(p) = Cardinality(Charges(p)) /\ MatchWork(r) = Cardinality(Charges(r))
    BY DEF MatchWork, Charges
  <1> QED BY <1>6, <1>7, <1>8, MaxMatchStatesAssumption DEF p

LEMMA PrunedAmbiguities ==
    ASSUME NEW r, WellFormed(r), NEW gone, gone \subseteq UniqueDefinitions(r)
    PROVE  LET p == Without(r, gone)
           IN  /\ Ambiguities(p) = Ambiguities(r) /\ AmbiguousLogical(p) = AmbiguousLogical(r)
               /\ UniqueDefinitions(p) = UniqueDefinitions(r) \ gone
  <1> DEFINE p == Without(r, gone)
  <1>1. gone \subseteq Definitions(r) /\ \A d \in gone : d.logical \notin AmbiguousLogical(r)
    BY DEF UniqueDefinitions
  <1>2. Definitions(p) = Definitions(r) \ gone
    BY <1>1, PrunedIndex
  <1> HIDE DEF p
  <1>3. \A d : d \in Ambiguities(r) <=> d \in Definitions(r) /\ \E e \in Definitions(r) :
            e.logical = d.logical /\ e.locale = d.locale /\ e.at # d.at
    BY DEF Ambiguities
  <1>4. \A d : d \in Ambiguities(p) <=> d \in Definitions(p) /\ \E e \in Definitions(p) :
            e.logical = d.logical /\ e.locale = d.locale /\ e.at # d.at
    BY DEF Ambiguities
  <1>5. \A d \in Ambiguities(r) : d.logical \in AmbiguousLogical(r)
    BY DEF AmbiguousLogical
  <1>6. Ambiguities(p) = Ambiguities(r)
    <2>1. ASSUME NEW d \in Ambiguities(r) PROVE d \in Ambiguities(p)
      <3>1. PICK e \in Definitions(r) : e.logical = d.logical /\ e.locale = d.locale /\ e.at # d.at
        BY <1>3
      <3>2. d \notin gone /\ e \notin gone
        BY <3>1, <1>1, <1>5
      <3> QED BY <3>1, <3>2, <1>2, <1>3, <1>4
    <2> QED BY <2>1, <1>2, <1>3, <1>4
  <1>7. AmbiguousLogical(p) = AmbiguousLogical(r)
    BY <1>6 DEF AmbiguousLogical
  <1>8. UniqueDefinitions(p) = UniqueDefinitions(r) \ gone
    BY <1>2, <1>7 DEF UniqueDefinitions
  <1> QED BY <1>6, <1>7, <1>8 DEF p

LEMMA UnusedIsUnselected ==
    ASSUME NEW r, WellFormed(r), Admissible(r), NEW g \in UnusedDefinitions(r)
    PROVE  /\ g \in UniqueDefinitions(r)
           /\ g.logical \notin RootSelected(r)
           /\ \A ref \in References(r) : g.logical \notin Selected(r, ref)
  <1>1. /\ g \in UniqueDefinitions(r) /\ g.logical \notin AmbiguousLogical(r)
        /\ \A unit \in r.units : g.logical \notin Reachable(r, unit)
    BY DEF UnusedDefinitions, UniqueDefinitions
  <1>2. ASSUME NEW ref \in References(r) PROVE g.logical \notin Selected(r, ref)
    <2>1. ref.unit \in r.units
      BY LookupsAlwaysSucceed DEF Admissible, LookupsSucceed, UnitIsKnown, ScopeIsKnown
    <2> QED BY <1>1, <2>1, ReachableMeans
  <1>3. ASSUME g.logical \in RootSelected(r) PROVE FALSE
    <2>1. ConfiguredRoots(r) # {}
      BY <1>3, RootSelectedMeans
    <2>2. r.roots # {}
      BY <2>1 DEF ConfiguredRoots
    <2>3. r.units # {}
      BY <2>2 DEF Admissible, ValidDelivery
    <2>4. r.units \in (SUBSET r.units) \ {{}}
      BY <2>3
    <2>5. PICK n \in r.units : \A m \in r.units : <<m, n>> \notin r.edges
      BY <2>4 DEF Admissible, ValidGraph
    <2>6. n \in RootUnits(r)
      BY <2>5 DEF RootUnits
    <2> QED BY <1>1, <1>3, <2>5, <2>6, ReachableMeans
  <1> QED BY <1>1, <1>2, <1>3

LEMMA PrunedSelection ==
    ASSUME NEW r, WellFormed(r), Admissible(r), NEW gone, gone \subseteq UnusedDefinitions(r)
    PROVE  LET p == Without(r, gone)
           IN  /\ \A ref \in References(r) : Selected(p, ref) = Selected(r, ref)
               /\ RootSelected(p) = RootSelected(r)
               /\ \A unit : Reachable(p, unit) = Reachable(r, unit)
               /\ Demands(p) = Demands(r)
  <1> DEFINE p == Without(r, gone)
  <1>1. gone \subseteq UniqueDefinitions(r) /\ gone \subseteq Definitions(r)
    BY UnusedIsUnselected DEF UniqueDefinitions
  <1>2. /\ WellFormed(p) /\ References(p) = References(r) /\ ConfiguredRoots(p) = ConfiguredRoots(r)
        /\ RootUnits(p) = RootUnits(r)
        /\ \A scope : DefinitionSideClosed(p, scope) <=> DefinitionSideClosed(r, scope)
    BY <1>1, PrunedIndex
  <1>3. p.dynamic = r.dynamic
    BY PrunedShape
  <1>4. AmbiguousLogical(p) = AmbiguousLogical(r)
    BY <1>1, PrunedAmbiguities
  <1>5. \A scope, key : key \in Candidates(p, scope) <=>
            \E d \in Definitions(r) \ gone : d.logical = Logical(scope, key)
    BY <1>1, PrunedCandidates
  <1> HIDE DEF p
  <1>6. \A scope, key : key \in Candidates(r, scope) /\ key \notin Candidates(p, scope) =>
            \E d \in gone : d.logical = Logical(scope, key)
    BY <1>5, CandidatesAreDefined
  <1>7. \A scope : Candidates(p, scope) \subseteq Candidates(r, scope)
    BY <1>5, CandidatesAreDefined
  <1>8. ASSUME NEW ref \in References(r) PROVE Selected(p, ref) = Selected(r, ref)
    <2>1. ASSUME NEW key PROVE SelectsKey(p, ref, key) <=> SelectsKey(r, ref, key)
      <3>1. SelectsKey(p, ref, key) => SelectsKey(r, ref, key)
        BY <1>3, <1>7 DEF SelectsKey
      <3>2. ASSUME SelectsKey(r, ref, key), ~SelectsKey(p, ref, key) PROVE FALSE
        <4>1. key \in Candidates(r, ref.scope) /\ key \notin Candidates(p, ref.scope)
          BY <3>2, <1>3 DEF SelectsKey
        <4>2. PICK d \in gone : d.logical = Logical(ref.scope, key)
          BY <4>1, <1>6
        <4>3. d.logical \in Selected(r, ref)
          BY <3>2, <4>2, SelectedMeans
        <4> QED BY <4>3, UnusedIsUnselected
      <3> QED BY <3>1, <3>2
    <2>2. \A l : l \in Selected(p, ref) <=> \E key : l = Logical(ref.scope, key) /\ SelectsKey(p, ref, key)
      BY <1>2, SelectedMeans
    <2>3. \A l : l \in Selected(r, ref) <=> \E key : l = Logical(ref.scope, key) /\ SelectsKey(r, ref, key)
      BY SelectedMeans
    <2>4. \A l : l \in Selected(p, ref) <=> l \in Selected(r, ref)
      BY <2>1, <2>2, <2>3
    <2>5. \A l \in Selected(p, ref) : l \in Selected(r, ref)
      BY <2>4
    <2>6. Selected(p, ref) \subseteq Selected(r, ref) /\ Selected(r, ref) \subseteq Selected(p, ref)
      BY <2>4
    <2> QED BY <2>6
  <1>9. RootSelected(p) = RootSelected(r)
    <2>1. \A l : l \in RootSelected(p) <=>
             \E root \in ConfiguredRoots(r) : \E key :
                 /\ l = Logical(root.scope, key) /\ Means(root.selector, key)
                 /\ root.selector.kind = "exact" \/ key \in Candidates(p, root.scope)
      BY <1>2, RootSelectedMeans
    <2>2. \A l : l \in RootSelected(r) <=>
             \E root \in ConfiguredRoots(r) : \E key :
                 /\ l = Logical(root.scope, key) /\ Means(root.selector, key)
                 /\ root.selector.kind = "exact" \/ key \in Candidates(r, root.scope)
      BY RootSelectedMeans
    <2>3. ASSUME NEW l, l \in RootSelected(p) PROVE l \in RootSelected(r)
      BY <2>1, <2>2, <2>3, <1>7
    <2>4. ASSUME NEW l, l \in RootSelected(r) PROVE l \in RootSelected(p)
      <3>1. PICK root, key :
                 /\ root \in ConfiguredRoots(r)
                 /\ l = Logical(root.scope, key) /\ Means(root.selector, key)
                 /\ root.selector.kind = "exact" \/ key \in Candidates(r, root.scope)
        BY <2>2, <2>4
      <3>2. CASE root.selector.kind = "exact" \/ key \in Candidates(p, root.scope)
        BY <3>1, <3>2, <2>1
      <3>3. CASE key \in Candidates(r, root.scope) /\ key \notin Candidates(p, root.scope)
        <4>1. PICK d \in gone : d.logical = l
          BY <3>1, <3>3, <1>6
        <4> QED BY <4>1, <2>4, UnusedIsUnselected
      <3> QED BY <3>1, <3>2, <3>3
    <2> QED BY <2>3, <2>4
  <1>10. ASSUME NEW unit PROVE Reachable(p, unit) = Reachable(r, unit)
    <2>1. \A l : l \in Reachable(p, unit) <=> l \in Reachable(r, unit)
      BY <1>2, <1>4, <1>8, <1>9, ReachableMeans
    <2>2. Reachable(p, unit) \subseteq Reachable(r, unit) /\ Reachable(r, unit) \subseteq Reachable(p, unit)
      BY <2>1
    <2> QED BY <2>2
  <1>11. Demands(p) = Demands(r)
    <2>1. \A l : l \in Demands(p) <=> l \in Demands(r)
      BY <1>2, <1>4, <1>8, <1>9, DemandsMeans
    <2>2. Demands(p) \subseteq Demands(r) /\ Demands(r) \subseteq Demands(p)
      BY <2>1
    <2> QED BY <2>2
  <1> QED BY <1>8, <1>9, <1>10, <1>11 DEF p

LEMMA PrunedFacts ==
    ASSUME NEW r, WellFormed(r), Admissible(r), NEW gone, gone \subseteq UnusedDefinitions(r)
    PROVE  Facts(Without(r, gone)) = Facts(r)
  <1> DEFINE p == Without(r, gone)
  <1>1. gone \subseteq UniqueDefinitions(r) /\ gone \subseteq Definitions(r)
    BY UnusedIsUnselected DEF UniqueDefinitions
  <1>2. (\A locale : Chain(p, locale) = Chain(r, locale)) /\ p.locales = r.locales
    BY <1>1, PrunedIndex, PrunedShape
  <1>3. UniqueDefinitions(p) = UniqueDefinitions(r) \ gone
    BY <1>1, PrunedAmbiguities
  <1>4. Demands(p) = Demands(r)
    BY PrunedSelection
  <1>5. \A l \in Demands(r) : \A d \in gone : d.logical # l
    BY DemandsMeans, UnusedIsUnselected
  <1> HIDE DEF p
  <1>6. ASSUME NEW l \in Demands(r), NEW locale PROVE Chosen(p, l, locale) = Chosen(r, l, locale)
    <2>1. ASSUME NEW x PROVE ExactDefinition(p, l, x) = ExactDefinition(r, l, x)
      BY <1>3, <1>5 DEF ExactDefinition
    <2> DEFINE chain == Chain(r, locale)
               hits(q) == {i \in DOMAIN chain : ExactDefinition(q, l, chain[i]) # {}}
               First(q, at) == IF at = {} THEN {} ELSE ExactDefinition(q, l, chain[Min(at)])
    <2>2. hits(p) = hits(r)
      BY <2>1
    <2>3. Chosen(r, l, locale) = First(r, hits(r))
      BY Zenon DEF Chosen
    <2>4. Chosen(p, l, locale) = First(p, hits(p))
      <3>1. Chain(p, locale) = chain
        BY <1>2
      <3> QED BY <3>1, Zenon DEF Chosen
    <2> HIDE DEF hits, chain
    <2>5. First(p, hits(r)) = First(r, hits(r))
      BY <2>1
    <2> HIDE DEF First
    <2> QED BY <2>2, <2>3, <2>4, <2>5
  <1>7. Facts(p) = [l \in Demands(r) |-> [locale \in r.locales |-> Chosen(p, l, locale)]]
    BY <1>2, <1>4 DEF Facts
  <1>8. Facts(r) = [l \in Demands(r) |-> [locale \in r.locales |-> Chosen(r, l, locale)]]
    BY DEF Facts
  <1>9. \A l \in Demands(r) : [locale \in r.locales |-> Chosen(p, l, locale)] =
                              [locale \in r.locales |-> Chosen(r, l, locale)]
    BY <1>6
  <1> QED BY <1>7, <1>8, <1>9 DEF p

(* What blocks, kind by kind.                                               *)
AmbiguousFindings(r) ==
    {[kind |-> "ambiguous", logical |-> d.logical, locale |-> d.locale] : d \in Ambiguities(r)}
UnboundedFindings(r) ==
    {[kind |-> "unbounded", reference |-> ref.id, mode |-> r.dynamic] :
        ref \in {f \in References(r) : f.selector = UnboundedDynamic}}
WideFindings(r) ==
    {[kind |-> "wide", reference |-> ref.id] : ref \in {f \in References(r) : f.selector = AllInScope}}
UnusedFindings(r) == {[kind |-> "unused", definition |-> d] : d \in UnusedDefinitions(r)}
PartialFindings(r) == {p \in Partials(r) : ~SideClosed(r, p.side, p.scope)}

LEMMA FoundMeans ==
    ASSUME NEW r, NEW f
    PROVE  f \in Found(r) <=>
              \/ f \in AmbiguousFindings(r) \/ f \in Unresolved(r, Facts(r))
              \/ f \in MissingTranslations(r, Facts(r)) \/ f \in OrphanedTranslations(r)
              \/ f \in UnusedFindings(r) \/ f \in UnboundedFindings(r)
              \/ f \in WideFindings(r) \/ f \in PartialFindings(r)
  <1>1. Found(r) = AmbiguousFindings(r) \cup Unresolved(r, Facts(r)) \cup MissingTranslations(r, Facts(r))
                   \cup OrphanedTranslations(r) \cup UnusedFindings(r) \cup UnboundedFindings(r)
                   \cup WideFindings(r) \cup PartialFindings(r)
    BY Zenon DEF Found, Findings, AmbiguousFindings, UnusedFindings, UnboundedFindings,
                 WideFindings, PartialFindings
  <1> QED BY <1>1, Zenon

LEMMA KindsAreTold ==
    ASSUME NEW r, NEW f
    PROVE  /\ f \in AmbiguousFindings(r) => f.kind = "ambiguous"
           /\ f \in Unresolved(r, Facts(r)) => f.kind = "unresolved"
           /\ f \in MissingTranslations(r, Facts(r)) => f.kind = "missing"
           /\ f \in OrphanedTranslations(r) => f.kind = "orphaned"
           /\ f \in UnusedFindings(r) => f.kind = "unused"
           /\ f \in UnboundedFindings(r) => f.kind = "unbounded"
           /\ f \in WideFindings(r) => f.kind = "wide"
           /\ f \in PartialFindings(r) => f.kind = "partial"
  <1>1. f \in AmbiguousFindings(r) => f.kind = "ambiguous"
    BY DEF AmbiguousFindings
  <1>2. f \in Unresolved(r, Facts(r)) => f.kind = "unresolved"
    BY DEF Unresolved
  <1>3. f \in MissingTranslations(r, Facts(r)) => f.kind = "missing"
    BY DEF MissingTranslations
  <1>4. f \in OrphanedTranslations(r) => f.kind = "orphaned"
    BY DEF OrphanedTranslations
  <1>5. f \in UnusedFindings(r) => f.kind = "unused"
    BY DEF UnusedFindings
  <1>6. f \in UnboundedFindings(r) => f.kind = "unbounded"
    BY DEF UnboundedFindings
  <1>7. f \in WideFindings(r) => f.kind = "wide"
    BY DEF WideFindings
  <1>8. f \in PartialFindings(r) => f.kind = "partial"
    BY DEF PartialFindings, Partials
  <1> QED BY <1>1, <1>2, <1>3, <1>4, <1>5, <1>6, <1>7, <1>8

LEMMA BlockersMeans ==
    ASSUME NEW r, NEW f
    PROVE  f \in Found(r) /\ Blocking(f) <=>
              \/ f \in AmbiguousFindings(r) \/ f \in Unresolved(r, Facts(r)) \/ f \in PartialFindings(r)
              \/ f \in UnboundedFindings(r) /\ f.mode = "strict"
  BY FoundMeans, KindsAreTold DEF Blocking

LEMMA PrunedBlockers ==
    ASSUME NEW r, WellFormed(r), Admissible(r), NEW gone, gone \subseteq UnusedDefinitions(r), NEW f
    PROVE  f \in Found(Without(r, gone)) /\ Blocking(f) <=> f \in Found(r) /\ Blocking(f)
  <1> DEFINE p == Without(r, gone)
  <1>1. gone \subseteq UniqueDefinitions(r) /\ gone \subseteq Definitions(r)
    BY UnusedIsUnselected DEF UniqueDefinitions
  <1>2. /\ References(p) = References(r) /\ Scopes(p) = Scopes(r)
        /\ \A scope : DefinitionSideClosed(p, scope) <=> DefinitionSideClosed(r, scope)
        /\ \A side, scope : SideClosed(p, side, scope) <=> SideClosed(r, side, scope)
    BY <1>1, PrunedIndex
  <1>3. p.dynamic = r.dynamic /\ p.locales = r.locales
    BY PrunedShape
  <1>4. Ambiguities(p) = Ambiguities(r)
    BY <1>1, PrunedAmbiguities
  <1>5. \A ref \in References(r) : Selected(p, ref) = Selected(r, ref)
    BY PrunedSelection
  <1>6. Facts(p) = Facts(r)
    BY PrunedFacts
  <1> HIDE DEF p
  <1>7. AmbiguousFindings(p) = AmbiguousFindings(r)
    BY <1>4 DEF AmbiguousFindings
  <1>8. ASSUME NEW ref \in References(r)
        PROVE  Failures(p, Facts(r), ref) = Failures(r, Facts(r), ref)
    <2>1. Selected(p, ref) = Selected(r, ref)
      BY <1>5
    <2>2. UnmatchedNonExact(p, ref) <=> UnmatchedNonExact(r, ref)
      BY <1>2, <2>1 DEF UnmatchedNonExact
    <2> DEFINE gaps == {g \in [key : {l.key : l \in Selected(r, ref)}, locale : r.locales] :
                          /\ Logical(ref.scope, g.key) \in DOMAIN Facts(r)
                          /\ Facts(r)[Logical(ref.scope, g.key)][g.locale] = {}}
               all == {[key |-> "selector", locale |-> l] : l \in r.locales}
    <2>3. Failures(r, Facts(r), ref) =
             IF ref.selector = UnboundedDynamic THEN {}
             ELSE IF UnmatchedNonExact(r, ref) THEN all ELSE gaps
      BY Zenon DEF Failures
    <2>4. Failures(p, Facts(r), ref) =
             IF ref.selector = UnboundedDynamic THEN {}
             ELSE IF UnmatchedNonExact(p, ref) THEN all ELSE gaps
      BY <1>3, <2>1, Zenon DEF Failures
    <2> HIDE DEF gaps, all
    <2> QED BY <2>2, <2>3, <2>4
  <1>9. Unresolved(p, Facts(p)) = Unresolved(r, Facts(r))
    BY <1>2, <1>6, <1>8 DEF Unresolved
  <1>10. PartialFindings(p) = PartialFindings(r)
    BY <1>2 DEF PartialFindings, Partials
  <1>11. UnboundedFindings(p) = UnboundedFindings(r)
    BY <1>2, <1>3 DEF UnboundedFindings
  <1> QED BY <1>7, <1>9, <1>10, <1>11, BlockersMeans DEF p

LEMMA PrunedLink ==
    ASSUME NEW r, WellFormed(r), Admissible(r), ~(MatchWork(r) > MaxMatchStates),
           NEW gone, gone \subseteq UnusedDefinitions(r)
    PROVE  LET p == Without(r, gone)
           IN  /\ Link(p).findings = Found(p)
               /\ Link(p).plans = IF Blocked(r) THEN NoPlans ELSE Plans(r, Facts(r))
  <1> DEFINE p == Without(r, gone)
  <1>1. gone \subseteq UniqueDefinitions(r) /\ gone \subseteq Definitions(r)
    BY UnusedIsUnselected DEF UniqueDefinitions
  <1>2. References(p) = References(r) /\ Scopes(p) = Scopes(r)
    BY <1>1, PrunedIndex
  <1>3. p.units = r.units /\ p.locales = r.locales
    BY PrunedShape
  <1>4. ~(MatchWork(p) > MaxMatchStates)
    BY <1>1, PrunedCostsNoMore
  <1>5. Facts(p) = Facts(r) /\ \A unit : Reachable(p, unit) = Reachable(r, unit)
    BY PrunedFacts, PrunedSelection
  <1>6. Blocked(p) <=> Blocked(r)
    BY PrunedBlockers DEF Blocked
  <1> HIDE DEF p
  <1>7. LookupsSucceed(p)
    <2>1. LookupsSucceed(r)
      BY LookupsAlwaysSucceed DEF Admissible
    <2> QED BY <1>2, <1>3, <2>1 DEF LookupsSucceed, UnitIsKnown, ScopeIsKnown
  <1>8. Blocked(p) \/ FactsSuffice(p, Facts(p))
    <2>1. Blocked(r) \/ FactsSuffice(r, Facts(r))
      BY FactsAlwaysSuffice DEF Admissible
    <2>2. FactsSuffice(p, Facts(p)) <=> FactsSuffice(r, Facts(r))
      BY <1>3, <1>5 DEF FactsSuffice
    <2> QED BY <1>6, <2>1, <2>2
  <1>9. Plans(p, Facts(p)) = Plans(r, Facts(r))
    <2> DEFINE F == Facts(r)
               Held(q, unit, locale) == UNION {F[l][locale] : l \in Reachable(q, unit)}
    <2>1. \A unit, locale : Held(p, unit, locale) = Held(r, unit, locale)
      BY <1>5
    <2>2. Plans(p, F) = [unit \in r.units |-> [locale \in r.locales |-> Held(p, unit, locale)]]
      BY <1>3, Zenon DEF Plans
    <2>3. Plans(r, F) = [unit \in r.units |-> [locale \in r.locales |-> Held(r, unit, locale)]]
      BY Zenon DEF Plans
    <2> HIDE DEF Held, F
    <2>4. \A unit : [locale \in r.locales |-> Held(p, unit, locale)] =
                    [locale \in r.locales |-> Held(r, unit, locale)]
      BY <2>1
    <2>5. Plans(p, F) = Plans(r, F)
      BY <2>2, <2>3, <2>4
    <2> QED BY <2>5, <1>5 DEF F
  <1>10. CASE Blocked(r)
    <2>1. Link(p) = Outcome("blocked", Found(p), NoPlans, TypedKeyModels(p))
      BY <1>4, <1>6, <1>7, <1>8, <1>10, LinkMeans
    <2>2. Link(p).findings = Found(p) /\ Link(p).plans = NoPlans
      BY <2>1 DEF Outcome
    <2> QED BY <1>10, <2>2 DEF p
  <1>11. CASE ~Blocked(r)
    <2>1. Link(p) = Outcome("planned", Found(p), Plans(p, Facts(p)), TypedKeyModels(p))
      BY <1>4, <1>6, <1>7, <1>8, <1>11, LinkMeans
    <2>2. Link(p).findings = Found(p) /\ Link(p).plans = Plans(p, Facts(p))
      BY <2>1 DEF Outcome
    <2> QED BY <1>9, <1>11, <2>2 DEF p
  <1> QED BY <1>10, <1>11

LEMMA UnusedMeans ==
    ASSUME NEW o, NEW r, o.findings = Found(r)
    PROVE  Unused(o) = UnusedDefinitions(r)
  <1>1. \A f : f \in o.findings /\ f.kind = "unused" <=> f \in UnusedFindings(r)
    BY FoundMeans, KindsAreTold
  <1>2. \A d : d \in UnusedDefinitions(r) <=>
            \E f \in UnusedFindings(r) : d = f.definition
    <2>1. ASSUME NEW d \in UnusedDefinitions(r)
          PROVE  \E f \in UnusedFindings(r) : d = f.definition
      <3> DEFINE f == [kind |-> "unused", definition |-> d]
      <3>1. f \in UnusedFindings(r) /\ d = f.definition
        BY DEF UnusedFindings
      <3> QED BY <3>1
    <2>2. \A f \in UnusedFindings(r) : f.definition \in UnusedDefinitions(r)
      BY DEF UnusedFindings
    <2> QED BY <2>1, <2>2
  <1>3. \A d : d \in Unused(o) <=> \E f \in o.findings : f.kind = "unused" /\ d = f.definition
    BY DEF Unused
  <1>4. \A d : d \in Unused(o) <=> d \in UnusedDefinitions(r)
    BY <1>1, <1>2, <1>3
  <1>5. Unused(o) \subseteq UnusedDefinitions(r) /\ UnusedDefinitions(r) \subseteq Unused(o)
    BY <1>4
  <1> QED BY <1>5

(* Deleting reported definitions, any of them, changes no plan and no       *)
(* blocking finding, and deleting all of them leaves none to report, for    *)
(* every request (should_report_unused).                                    *)
THEOREM UnusedIsRemovable == Spec => []UnusedCanBePruned
  <1>1. ASSUME LinkedAsAdmitted PROVE UnusedCanBePruned
    <2> DEFINE r == request
               o == outcome
    <2> SUFFICES ASSUME outcome.status \in {"planned", "blocked"}
                 PROVE  /\ \A gone \in SUBSET Unused(o) :
                              /\ Link(Without(r, gone)).plans = o.plans
                              /\ Blockers(Link(Without(r, gone))) = Blockers(o)
                        /\ Unused(Link(Without(r, Unused(o)))) = {}
      BY DEF UnusedCanBePruned
    <2>1. /\ WellFormed(r) /\ Admissible(r) /\ ~(MatchWork(r) > MaxMatchStates)
          /\ o.findings = Found(r)
          /\ o.plans = IF Blocked(r) THEN NoPlans ELSE Plans(r, Facts(r))
      <3>1. CASE outcome.status = "planned"
        BY <1>1, <3>1, OutcomeMeans
      <3>2. CASE outcome.status = "blocked"
        BY <1>1, <3>2, OutcomeMeans
      <3> QED BY <3>1, <3>2
    <2> HIDE DEF r, o
    <2>2. Unused(o) = UnusedDefinitions(r)
      BY <2>1, UnusedMeans
    <2>3. ASSUME NEW gone \in SUBSET Unused(o)
          PROVE  /\ Link(Without(r, gone)).plans = o.plans
                 /\ Blockers(Link(Without(r, gone))) = Blockers(o)
      <3>1. gone \subseteq UnusedDefinitions(r)
        BY <2>2
      <3>2. /\ Link(Without(r, gone)).findings = Found(Without(r, gone))
            /\ Link(Without(r, gone)).plans = o.plans
        BY <2>1, <3>1, PrunedLink
      <3>3. \A f : f \in Blockers(Link(Without(r, gone))) <=> f \in Blockers(o)
        BY <2>1, <3>1, <3>2, PrunedBlockers DEF Blockers
      <3>4. /\ Blockers(Link(Without(r, gone))) \subseteq Blockers(o)
            /\ Blockers(o) \subseteq Blockers(Link(Without(r, gone)))
        BY <3>3
      <3> QED BY <3>2, <3>4
    <2>4. Unused(Link(Without(r, Unused(o)))) = {}
      <3> DEFINE gone == UnusedDefinitions(r)
                 p == Without(r, gone)
      <3>1. Link(p).findings = Found(p)
        BY <2>1, PrunedLink
      <3>2. gone \subseteq UniqueDefinitions(r) /\ gone \subseteq Definitions(r)
        BY <2>1, UnusedIsUnselected DEF UniqueDefinitions
      <3>3. /\ References(p) = References(r)
            /\ \A side, scope : SideClosed(p, side, scope) <=> SideClosed(r, side, scope)
        BY <2>1, <3>2, PrunedIndex
      <3>4. p.units = r.units
        BY <2>1, PrunedShape
      <3>5. UniqueDefinitions(p) = UniqueDefinitions(r) \ gone
        BY <2>1, <3>2, PrunedAmbiguities
      <3>6. \A unit : Reachable(p, unit) = Reachable(r, unit)
        BY <2>1, PrunedSelection
      <3> HIDE DEF p
      <3>7. UnboundedScopes(p) = UnboundedScopes(r)
        BY <3>3 DEF UnboundedScopes
      <3>8. \A scope : BothSidesClosed(p, scope) <=> BothSidesClosed(r, scope)
        BY <3>3 DEF BothSidesClosed
      <3>9. ASSUME NEW d \in UnusedDefinitions(p) PROVE FALSE
        <4>1. /\ d \in UniqueDefinitions(r) /\ d \notin gone
              /\ \A unit \in r.units : d.logical \notin Reachable(r, unit)
              /\ d.logical.scope \notin UnboundedScopes(r) /\ BothSidesClosed(r, d.logical.scope)
          BY <3>4, <3>5, <3>6, <3>7, <3>8 DEF UnusedDefinitions
        <4> QED BY <4>1 DEF UnusedDefinitions
      <3>10. Unused(Link(p)) = {}
        BY <3>1, <3>9, UnusedMeans
      <3> QED BY <3>10, <2>2 DEF p
    <2> QED BY <2>3, <2>4
  <1> QED BY <1>1, LinkedAsAdmittedHolds, PTL
=============================================================================
