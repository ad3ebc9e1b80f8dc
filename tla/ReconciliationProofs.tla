-------------------------- MODULE ReconciliationProofs --------------------------
(***************************************************************************)
(* The planner keeps its promises whatever a host brings, for every        *)
(* registry it may meet: what it plans, its registry accepts; the plan     *)
(* covers the inventory, follows the text and retires nothing unseen; and  *)
(* the check of its bases disagrees with it only where the properties say. *)
(*                                                                         *)
(* The proofs go rule by rule through Classify, whose parts are named      *)
(* here: no two rules decide about one ID or want one declaration.         *)
(*                                                                         *)
(* First the arithmetic of edits, for every list of replacements that      *)
(* validates and every range: where fate moves a range is where replaying  *)
(* the list puts its bytes, and text that is called inserted holds none of *)
(* the old.                                                                *)
(***************************************************************************)
EXTENDS IntentRegistryProofs, FiniteSetTheorems

(* A set of positions that goes all the way down is a prefix.               *)
LEMMA PrefixOfPositions ==
    ASSUME NEW n \in Nat, NEW A \in SUBSET (1..n),
           \A j \in A : \A i \in 1..n : i < j => i \in A
    PROVE  \E k \in 0..n : A = 1..k
  <1> DEFINE Out == {j \in 1..(n + 1) : j \notin A}
  <1>1. Out \in SUBSET Nat /\ n + 1 \in Out
    OBVIOUS
  <1>2. PICK m \in Out : \A j \in Out : m <= j
    BY <1>1, LeastOfNaturals
  <1>3. \A i \in 1..n : i < m => i \in A
    BY <1>2
  <1>4. \A i \in A : i < m
    BY <1>2
  <1>5. m \in 1..(n + 1) /\ m - 1 \in 0..n
    BY <1>2
  <1>6. ASSUME NEW i \in A PROVE i \in 1..(m - 1)
    <2>1. i \in 1..n /\ i < m
      BY <1>4
    <2> HIDE DEF Out
    <2> QED BY <2>1, <1>5
  <1>7. ASSUME NEW i \in 1..(m - 1) PROVE i \in A
    <2>1. i \in 1..n /\ i < m
      BY <1>5
    <2> QED BY <2>1, <1>3
  <1>8. A = 1..(m - 1)
    BY <1>6, <1>7
  <1> QED BY <1>5, <1>8

-----------------------------------------------------------------------------
(* Sums over replacements.                                                  *)

\* The change in length of the replacements in `at', up to each position.
Sums(rs, at) ==
    CHOOSE sum : sum = [i \in 0..Len(rs) |->
        IF i = 0 THEN 0 ELSE sum[i - 1] + IF i \in at THEN Delta(rs[i]) ELSE 0]

LEMMA SumsExist ==
    ASSUME NEW n \in Nat, NEW f \in [1..n -> Int]
    PROVE  \E g \in [0..n -> Int] : g[0] = 0 /\ \A i \in 1..n : g[i] = g[i - 1] + f[i]
  <1> DEFINE Sum(k, g) == g \in [0..k -> Int] /\ g[0] = 0
                            /\ \A i \in 1..k : g[i] = g[i - 1] + f[i]
             S == {k \in Nat : k <= n => \E g : Sum(k, g)}
  <1>1. 0 \in S
    <2> DEFINE g == [i \in 0..0 |-> 0]
    <2>1. Sum(0, g)
      OBVIOUS
    <2> QED BY <2>1
  <1>2. ASSUME NEW k \in Nat, k \in S PROVE k + 1 \in S
    <2> SUFFICES ASSUME k + 1 <= n PROVE \E h : Sum(k + 1, h)
      OBVIOUS
    <2>1. PICK g : Sum(k, g)
      BY <1>2
    <2> DEFINE h == [i \in 0..(k + 1) |-> IF i <= k THEN g[i] ELSE g[k] + f[k + 1]]
    <2>2. h \in [0..(k + 1) -> Int]
      BY <2>1
    <2>3. h[0] = 0
      BY <2>1
    <2>4. ASSUME NEW i \in 1..(k + 1) PROVE h[i] = h[i - 1] + f[i]
      <3>1. CASE i <= k
        BY <3>1, <2>1
      <3>2. CASE i = k + 1
        BY <3>2, <2>1
      <3> QED BY <3>1, <3>2
    <2>5. Sum(k + 1, h)
      BY <2>2, <2>3, <2>4
    <2> QED BY <2>5
  <1>3. n \in S
    <2> HIDE DEF S
    <2> QED BY <1>1, <1>2, InductionOnNaturals
  <1> QED BY <1>3

LEMMA SumsAdd ==
    ASSUME NEW rs \in Seq(Replacements), NEW at
    PROVE  /\ Sums(rs, at) \in [0..Len(rs) -> Int]
           /\ Sums(rs, at)[0] = 0
           /\ \A i \in 1..Len(rs) :
                 Sums(rs, at)[i] = Sums(rs, at)[i - 1] + IF i \in at THEN Delta(rs[i]) ELSE 0
  <1> DEFINE n == Len(rs)
             f == [i \in 1..n |-> IF i \in at THEN Delta(rs[i]) ELSE 0]
             Sum(s) == s = [i \in 0..Len(rs) |->
                  IF i = 0 THEN 0 ELSE s[i - 1] + IF i \in at THEN Delta(rs[i]) ELSE 0]
  <1>1. n \in Nat /\ \A i \in 1..n : rs[i] \in Replacements
    OBVIOUS
  <1>2. \A r \in Replacements : Delta(r) \in Int
    BY DEF Replacements, Delta
  <1>3. f \in [1..n -> Int]
    BY <1>1, <1>2
  <1>4. PICK g \in [0..n -> Int] : g[0] = 0 /\ \A i \in 1..n : g[i] = g[i - 1] + f[i]
    BY <1>1, <1>3, SumsExist
  <1>5. Sum(g)
    <2> DEFINE h == [i \in 0..n |->
                  IF i = 0 THEN 0 ELSE g[i - 1] + IF i \in at THEN Delta(rs[i]) ELSE 0]
    <2>1. ASSUME NEW i \in 0..n PROVE g[i] = h[i]
      <3>1. CASE i = 0
        BY <3>1, <1>4
      <3>2. CASE i \in 1..n
        BY <3>2, <1>4, <1>1
      <3> QED BY <3>1, <3>2, <1>1
    <2>2. g = [i \in 0..n |-> g[i]] /\ h = [i \in 0..n |-> h[i]]
      BY <1>4
    <2> QED BY <2>1, <2>2
  <1>6. Sums(rs, at) = CHOOSE s : Sum(s)
    BY DEF Sums
  <1>7. Sum(Sums(rs, at))
    <2> HIDE DEF Sum
    <2> QED BY <1>5, <1>6
  <1> DEFINE s == Sums(rs, at)
  <1> HIDE DEF s
  <1>8. s = [i \in 0..n |->
                  IF i = 0 THEN 0 ELSE s[i - 1] + IF i \in at THEN Delta(rs[i]) ELSE 0]
    BY <1>7 DEF s
  <1>9. /\ DOMAIN s = 0..n /\ s[0] = 0
        /\ \A i \in 1..n : s[i] = s[i - 1] + f[i]
    BY <1>8, <1>1
  <1>10. s \in [0..n -> Int]
    <2> DEFINE S == {k \in Nat : k <= n => s[k] \in Int}
    <2>1. 0 \in S
      BY <1>9
    <2>2. ASSUME NEW k \in Nat, k \in S PROVE k + 1 \in S
      <3> SUFFICES ASSUME k + 1 <= n PROVE s[k + 1] \in Int
        OBVIOUS
      <3>1. s[k] \in Int /\ k + 1 \in 1..n
        BY <2>2, <1>1
      <3>2. s[k + 1] = s[(k + 1) - 1] + f[k + 1]
        BY <1>9, <3>1
      <3> HIDE DEF f
      <3>3. f[k + 1] \in Int /\ (k + 1) - 1 = k
        BY <1>3, <3>1
      <3> QED BY <3>1, <3>2, <3>3
    <2>3. Nat \subseteq S
      <3> HIDE DEF S
      <3> QED BY <2>1, <2>2, InductionOnNaturals
    <2>4. \A k \in 0..n : s[k] \in Int
      BY <2>3, <1>1
    <2>5. s = [i \in 0..n |-> s[i]]
      BY <1>8
    <2> QED BY <2>4, <2>5
  <1> QED BY <1>9, <1>10 DEF s

(* The change in length before the replacement after position k.            *)
Upto(rs, k) == Sums(rs, DOMAIN rs)[k]

\* Where the text of replacement k begins once the list has been replayed.
Start(rs, k) == rs[k].from + Upto(rs, k - 1)

LEMMA UptoAdds ==
    ASSUME NEW rs \in Seq(Replacements)
    PROVE  /\ \A k \in 0..Len(rs) : Upto(rs, k) \in Int
           /\ Upto(rs, 0) = 0
           /\ \A k \in 1..Len(rs) :
                 /\ Upto(rs, k) = Upto(rs, k - 1) + Delta(rs[k])
                 /\ Start(rs, k) \in Int
                 /\ Start(rs, k) + rs[k].text = rs[k].to + Upto(rs, k)
  <1> DEFINE s == Sums(rs, DOMAIN rs)
  <1>1. /\ s \in [0..Len(rs) -> Int] /\ s[0] = 0
        /\ \A i \in 1..Len(rs) :
              s[i] = s[i - 1] + IF i \in DOMAIN rs THEN Delta(rs[i]) ELSE 0
    BY SumsAdd
  <1>2. Len(rs) \in Nat /\ DOMAIN rs = 1..Len(rs) /\ \A k \in 1..Len(rs) : rs[k] \in Replacements
    OBVIOUS
  <1> HIDE DEF s
  <1>3. ASSUME NEW k \in 1..Len(rs)
        PROVE  /\ s[k] = s[k - 1] + Delta(rs[k]) /\ s[k] \in Int /\ s[k - 1] \in Int
               /\ rs[k].from \in Nat /\ rs[k].to \in Nat /\ rs[k].text \in Nat
    <2>1. k \in 0..Len(rs) /\ k - 1 \in 0..Len(rs) /\ k \in DOMAIN rs
      BY <1>2
    <2>2. s[k] = s[k - 1] + Delta(rs[k])
      BY <1>1, <2>1
    <2>3. s[k] \in Int /\ s[k - 1] \in Int
      BY <1>1, <2>1
    <2>4. rs[k] \in Replacements
      BY <1>2
    <2> QED BY <2>2, <2>3, <2>4 DEF Replacements
  <1>4. \A k \in 0..Len(rs) : Upto(rs, k) = s[k]
    BY DEF s, Upto
  <1>5. (\A k \in 0..Len(rs) : Upto(rs, k) \in Int) /\ Upto(rs, 0) = 0
    BY <1>1, <1>2, <1>4
  <1>6. ASSUME NEW k \in 1..Len(rs)
        PROVE  /\ Upto(rs, k) = Upto(rs, k - 1) + Delta(rs[k])
               /\ Start(rs, k) \in Int
               /\ Start(rs, k) + rs[k].text = rs[k].to + Upto(rs, k)
    <2>1. k \in 0..Len(rs) /\ k - 1 \in 0..Len(rs)
      BY <1>2
    <2>2. Upto(rs, k) = s[k] /\ Upto(rs, k - 1) = s[k - 1]
      BY <1>4, <2>1
    <2>3. Start(rs, k) = rs[k].from + s[k - 1]
      BY <2>2 DEF Start
    <2>4. s[k] = s[k - 1] + (rs[k].text - (rs[k].to - rs[k].from))
      BY <1>3 DEF Delta
    <2> QED BY <1>3, <2>2, <2>3, <2>4
  <1> QED BY <1>5, <1>6

(* A sum over a prefix of the positions is the sum up to its end.           *)
LEMMA ShiftOfPrefix ==
    ASSUME NEW rs \in Seq(Replacements), NEW k \in 0..Len(rs)
    PROVE  Shift(rs, 1..k) = Upto(rs, k)
  <1> DEFINE s == Sums(rs, 1..k)
             S == {i \in Nat : i <= Len(rs) => s[i] = Upto(rs, IF i <= k THEN i ELSE k)}
  <1>1. /\ s \in [0..Len(rs) -> Int] /\ s[0] = 0
        /\ \A i \in 1..Len(rs) : s[i] = s[i - 1] + IF i \in 1..k THEN Delta(rs[i]) ELSE 0
    BY SumsAdd
  <1> HIDE DEF s
  <1>2. Len(rs) \in Nat
    OBVIOUS
  <1>3. 0 \in S
    BY <1>1, <1>2, UptoAdds
  <1>4. ASSUME NEW i \in Nat, i \in S PROVE i + 1 \in S
    <2> SUFFICES ASSUME i + 1 <= Len(rs)
                 PROVE  s[i + 1] = Upto(rs, IF i + 1 <= k THEN i + 1 ELSE k)
      OBVIOUS
    <2>1. i + 1 \in 1..Len(rs) /\ (i + 1) - 1 = i
      BY <1>2
    <2>2. s[i + 1] = s[i] + IF i + 1 \in 1..k THEN Delta(rs[i + 1]) ELSE 0
      BY <1>1, <2>1
    <2>3. s[i] = Upto(rs, IF i <= k THEN i ELSE k)
      BY <1>4, <2>1
    <2>4. CASE i + 1 <= k
      <3>1. Upto(rs, i + 1) = Upto(rs, i) + Delta(rs[i + 1])
        BY <2>1, UptoAdds
      <3> QED BY <3>1, <2>2, <2>3, <2>4
    <2>5. CASE ~(i + 1 <= k)
      <3>1. s[i + 1] = s[i] + 0 /\ s[i] \in Int
        BY <2>2, <2>5, <2>1, <1>1
      <3>2. i <= k => i = k
        BY <2>5
      <3> QED BY <3>1, <3>2, <2>3, <2>5
    <2> QED BY <2>4, <2>5
  <1>5. Len(rs) \in S
    <2> HIDE DEF S
    <2> QED BY <1>2, <1>3, <1>4, InductionOnNaturals
  <1>6. s[Len(rs)] = Upto(rs, k)
    <2>1. Len(rs) <= k => Len(rs) = k
      BY <1>2
    <2> QED BY <1>5, <2>1
  <1> QED BY <1>6 DEF Shift, Sums, s

(* Sums over disjoint positions add up.                                     *)
LEMMA ShiftOfUnion ==
    ASSUME NEW rs \in Seq(Replacements), NEW A, NEW B, A \cap B = {}
    PROVE  /\ Shift(rs, A \cup B) = Shift(rs, A) + Shift(rs, B)
           /\ Shift(rs, A) \in Int /\ Shift(rs, B) \in Int
  <1> DEFINE a == Sums(rs, A)
             b == Sums(rs, B)
             c == Sums(rs, A \cup B)
             S == {i \in Nat : i <= Len(rs) => c[i] = a[i] + b[i]}
  <1>1. /\ a \in [0..Len(rs) -> Int] /\ a[0] = 0
        /\ \A i \in 1..Len(rs) : a[i] = a[i - 1] + IF i \in A THEN Delta(rs[i]) ELSE 0
    BY SumsAdd
  <1>2. /\ b \in [0..Len(rs) -> Int] /\ b[0] = 0
        /\ \A i \in 1..Len(rs) : b[i] = b[i - 1] + IF i \in B THEN Delta(rs[i]) ELSE 0
    BY SumsAdd
  <1>3. /\ c \in [0..Len(rs) -> Int] /\ c[0] = 0
        /\ \A i \in 1..Len(rs) : c[i] = c[i - 1] + IF i \in A \cup B THEN Delta(rs[i]) ELSE 0
    BY SumsAdd
  <1>4. Len(rs) \in Nat /\ \A i \in 1..Len(rs) : Delta(rs[i]) \in Int
    BY DEF Replacements, Delta
  <1> HIDE DEF a, b, c
  <1>5. 0 \in S
    BY <1>1, <1>2, <1>3
  <1>6. ASSUME NEW i \in Nat, i \in S PROVE i + 1 \in S
    <2> SUFFICES ASSUME i + 1 <= Len(rs) PROVE c[i + 1] = a[i + 1] + b[i + 1]
      OBVIOUS
    <2>1. i + 1 \in 1..Len(rs) /\ i \in 0..Len(rs) /\ (i + 1) - 1 = i
      BY <1>4
    <2>2. c[i] = a[i] + b[i] /\ a[i] \in Int /\ b[i] \in Int /\ Delta(rs[i + 1]) \in Int
      BY <1>6, <2>1, <1>1, <1>2, <1>4
    <2>3. /\ a[i + 1] = a[i] + IF i + 1 \in A THEN Delta(rs[i + 1]) ELSE 0
          /\ b[i + 1] = b[i] + IF i + 1 \in B THEN Delta(rs[i + 1]) ELSE 0
          /\ c[i + 1] = c[i] + IF i + 1 \in A \cup B THEN Delta(rs[i + 1]) ELSE 0
      BY <2>1, <1>1, <1>2, <1>3
    <2>4. ~(i + 1 \in A /\ i + 1 \in B)
      OBVIOUS
    <2> QED BY <2>2, <2>3, <2>4
  <1>7. Len(rs) \in S
    <2> HIDE DEF S
    <2> QED BY <1>4, <1>5, <1>6, InductionOnNaturals
  <1>8. /\ c[Len(rs)] = a[Len(rs)] + b[Len(rs)]
        /\ a[Len(rs)] \in Int /\ b[Len(rs)] \in Int
    BY <1>7, <1>4, <1>1, <1>2
  <1> QED BY <1>8 DEF Shift, Sums, a, b, c

LEMMA ShiftIsInteger ==
    ASSUME NEW rs \in Seq(Replacements), NEW A
    PROVE  Shift(rs, A) \in Int
  <1>1. A \cap {} = {}
    OBVIOUS
  <1> QED BY <1>1, ShiftOfUnion

-----------------------------------------------------------------------------
(* A list that validates: its replacements lie in order, before and after.  *)

LEMMA Skips ==
    ASSUME NEW x \in Int, NEW y \in Int, NEW z \in Int, NEW t \in Nat, x <= y, y + t <= z
    PROVE  x <= z
  OBVIOUS

LEMMA Climbs ==
    ASSUME NEW x \in Nat, NEW y \in Nat, NEW z \in Nat, NEW w \in Nat, x <= y, y <= z, z <= w
    PROVE  x <= w
  OBVIOUS

LEMMA InOrder ==
    ASSUME NEW rs \in Seq(Replacements), NEW length \in Nat, ValidReplacements(rs, length),
           NEW i \in 1..Len(rs), NEW j \in 1..Len(rs), i < j
    PROVE  /\ rs[i].to <= rs[j].from
           /\ Start(rs, i) + rs[i].text <= Start(rs, j)
  <1>1. Len(rs) \in Nat /\ DOMAIN rs = 1..Len(rs)
    OBVIOUS
  <1>2. ASSUME NEW k \in 1..Len(rs)
        PROVE  /\ rs[k].from \in Nat /\ rs[k].to \in Nat /\ rs[k].text \in Nat
               /\ rs[k].from <= rs[k].to
               /\ Start(rs, k) \in Int /\ Upto(rs, k) \in Int
               /\ Start(rs, k) + rs[k].text = rs[k].to + Upto(rs, k)
    <2>1. rs[k] \in Replacements
      OBVIOUS
    <2>2. k \in 0..Len(rs)
      OBVIOUS
    <2> QED BY <2>1, <2>2, UptoAdds DEF Replacements
  <1>3. ASSUME NEW k \in 1..Len(rs), k + 1 \in 1..Len(rs)
        PROVE  /\ rs[k].to <= rs[k + 1].from
               /\ Start(rs, k) + rs[k].text <= Start(rs, k + 1)
    <2>1. k + 1 \in DOMAIN rs \ {1} /\ (k + 1) - 1 = k
      BY <1>1, <1>3
    <2>2. rs[k + 1].from >= rs[k].to
      BY <2>1 DEF ValidReplacements
    <2>3. Start(rs, k + 1) = rs[k + 1].from + Upto(rs, k)
      BY <2>1 DEF Start
    <2>4. /\ rs[k].to \in Nat /\ rs[k + 1].from \in Nat /\ Upto(rs, k) \in Int
          /\ Start(rs, k) + rs[k].text = rs[k].to + Upto(rs, k)
      BY <1>2, <1>3
    <2> QED BY <2>2, <2>3, <2>4
  <1> DEFINE S == {d \in Nat : i + 1 + d <= Len(rs) =>
                      /\ rs[i].to <= rs[i + 1 + d].from
                      /\ Start(rs, i) + rs[i].text <= Start(rs, i + 1 + d)}
  <1>4. 0 \in S
    <2> SUFFICES ASSUME i + 1 + 0 <= Len(rs)
                 PROVE  /\ rs[i].to <= rs[i + 1 + 0].from
                        /\ Start(rs, i) + rs[i].text <= Start(rs, i + 1 + 0)
      OBVIOUS
    <2>1. i + 1 \in 1..Len(rs) /\ i + 1 + 0 = i + 1
      BY <1>1
    <2> QED BY <2>1, <1>3
  <1>5. ASSUME NEW d \in Nat, d \in S PROVE d + 1 \in S
    <2> DEFINE k == i + 1 + d
    <2> SUFFICES ASSUME i + 1 + (d + 1) <= Len(rs)
                 PROVE  /\ rs[i].to <= rs[i + 1 + (d + 1)].from
                        /\ Start(rs, i) + rs[i].text <= Start(rs, i + 1 + (d + 1))
      OBVIOUS
    <2>1. k \in 1..Len(rs) /\ k + 1 \in 1..Len(rs) /\ i + 1 + (d + 1) = k + 1 /\ k <= Len(rs)
      BY <1>1
    <2>2. rs[i].to <= rs[k].from /\ Start(rs, i) + rs[i].text <= Start(rs, k)
      BY <1>5, <2>1
    <2>3. rs[k].to <= rs[k + 1].from /\ Start(rs, k) + rs[k].text <= Start(rs, k + 1)
      BY <1>3, <2>1
    <2>4. /\ rs[i].to \in Nat /\ rs[k].from \in Nat /\ rs[k].to \in Nat /\ rs[k + 1].from \in Nat
          /\ rs[k].from <= rs[k].to /\ rs[k].text \in Nat /\ rs[i].text \in Nat
          /\ Start(rs, i) \in Int /\ Start(rs, k) \in Int /\ Start(rs, k + 1) \in Int
      BY <1>2, <2>1
    <2> HIDE DEF k, S
    <2>5. rs[i].to <= rs[k + 1].from
      BY ONLY <2>2, <2>3, <2>4, Climbs
    <2>6. Start(rs, i) + rs[i].text \in Int
      BY ONLY <2>4
    <2>7. Start(rs, i) + rs[i].text <= Start(rs, k + 1)
      BY <2>2, <2>3, <2>4, <2>6, Skips
    <2> QED BY <2>1, <2>5, <2>7
  <1>6. j - (i + 1) \in Nat /\ i + 1 + (j - (i + 1)) = j
    BY <1>1
  <1>7. j - (i + 1) \in S
    <2> HIDE DEF S
    <2> QED BY <1>4, <1>5, <1>6, InductionOnNaturals
  <1> QED BY <1>6, <1>7

LEMMA Lying ==
    ASSUME NEW rs \in Seq(Replacements), NEW k \in 1..Len(rs)
    PROVE  /\ rs[k].from \in Nat /\ rs[k].to \in Nat /\ rs[k].text \in Nat
           /\ rs[k].from <= rs[k].to
  <1>1. rs[k] \in Replacements
    OBVIOUS
  <1> QED BY <1>1 DEF Replacements

(* No text begins before the first byte.                                    *)
LEMMA StartsAreNaturals ==
    ASSUME NEW rs \in Seq(Replacements), NEW length \in Nat, ValidReplacements(rs, length),
           NEW k \in 1..Len(rs)
    PROVE  Start(rs, k) \in Nat
  <1>1. 1 \in 1..Len(rs) /\ Len(rs) \in Nat /\ 1 - 1 = 0
    OBVIOUS
  <1>2. Start(rs, 1) = rs[1].from /\ rs[1].from \in Nat /\ rs[1].text \in Nat
    <2>1. rs[1].from + 0 = rs[1].from
      BY <1>1, Lying
    <2> QED BY <1>1, <2>1, Lying, UptoAdds DEF Start
  <1>3. CASE k = 1
    BY <1>2, <1>3
  <1>4. CASE 1 < k
    <2>1. Start(rs, 1) + rs[1].text <= Start(rs, k)
      BY <1>1, <1>4, InOrder
    <2>2. Start(rs, k) \in Int
      BY UptoAdds
    <2> QED BY <1>2, <2>1, <2>2
  <1> QED BY <1>3, <1>4

(* The replacements that end at or before a byte are the first ones.        *)
LEMMA EndedIsPrefix ==
    ASSUME NEW rs \in Seq(Replacements), NEW length \in Nat, ValidReplacements(rs, length),
           NEW b \in Int
    PROVE  \E k \in 0..Len(rs) :
              /\ {i \in DOMAIN rs : rs[i].to <= b} = 1..k
              /\ \A i \in 1..k : rs[i].to <= b
              /\ \A i \in (k + 1)..Len(rs) : rs[i].to > b
  <1> DEFINE A == {i \in DOMAIN rs : rs[i].to <= b}
  <1>1. Len(rs) \in Nat /\ DOMAIN rs = 1..Len(rs) /\ A \in SUBSET (1..Len(rs))
    OBVIOUS
  <1>2. ASSUME NEW j \in A, NEW i \in 1..Len(rs), i < j PROVE i \in A
    <2>1. j \in 1..Len(rs) /\ rs[j].to <= b
      BY <1>1
    <2>2. rs[i].to <= rs[j].from
      BY <1>2, <2>1, InOrder
    <2>3. rs[i].to \in Nat /\ rs[j].from \in Nat /\ rs[j].to \in Nat /\ rs[j].from <= rs[j].to
      BY <2>1, Lying
    <2>4. rs[i].to <= b
      BY <2>1, <2>2, <2>3
    <2> QED BY <1>1, <2>4
  <1> HIDE DEF A
  <1>3. PICK k \in 0..Len(rs) : A = 1..k
    BY <1>1, <1>2, PrefixOfPositions
  <1>4. ASSUME NEW i \in (k + 1)..Len(rs) PROVE rs[i].to > b
    <2>1. i \in 1..Len(rs) /\ i \notin A
      BY <1>1, <1>3
    <2>2. rs[i].to \in Nat /\ ~(rs[i].to <= b)
      BY <2>1, <1>1, Lying DEF A
    <2> QED BY <2>2
  <1>5. \A i \in 1..k : rs[i].to <= b
    BY <1>3 DEF A
  <1> QED BY <1>3, <1>4, <1>5 DEF A

(* Where a byte that survives lands: after every text that ends before it,  *)
(* before every text that begins after it.                                  *)
LEMMA LandsBetween ==
    ASSUME NEW rs \in Seq(Replacements), NEW length \in Nat, ValidReplacements(rs, length),
           NEW b \in Nat, Survives(rs, b)
    PROVE  /\ Landing(rs, b) \in Nat
           /\ \A i \in 1..Len(rs) :
                 \/ rs[i].to <= b /\ Start(rs, i) + rs[i].text <= Landing(rs, b)
                 \/ b < rs[i].from /\ Landing(rs, b) < Start(rs, i)
  <1>1. Len(rs) \in Nat /\ DOMAIN rs = 1..Len(rs)
    OBVIOUS
  <1>2. PICK k \in 0..Len(rs) :
              /\ {i \in DOMAIN rs : rs[i].to <= b} = 1..k
              /\ \A i \in 1..k : rs[i].to <= b
              /\ \A i \in (k + 1)..Len(rs) : rs[i].to > b
    <2>1. b \in Int
      OBVIOUS
    <2> QED BY <2>1, EndedIsPrefix
  <1>3. Landing(rs, b) = b + Upto(rs, k) /\ Upto(rs, k) \in Int
    BY <1>2, ShiftOfPrefix, UptoAdds DEF Landing
  <1>4. ASSUME NEW i \in 1..k
        PROVE  rs[i].to <= b /\ Start(rs, i) + rs[i].text <= Landing(rs, b)
    <2>1. i \in 1..Len(rs) /\ k \in 1..Len(rs)
      BY <1>1
    <2>2. /\ Start(rs, k) + rs[k].text = rs[k].to + Upto(rs, k)
          /\ Start(rs, k) \in Int /\ Start(rs, i) \in Int
      BY <2>1, UptoAdds
    <2>3. rs[k].to <= b /\ rs[k].to \in Nat /\ rs[k].text \in Nat /\ rs[i].text \in Nat
      BY <2>1, <1>2, Lying
    <2>4. Start(rs, k) + rs[k].text <= Landing(rs, b)
      BY <1>3, <2>2, <2>3
    <2>5. CASE i < k
      <3>1. Start(rs, i) + rs[i].text <= Start(rs, k)
        BY <2>1, <2>5, InOrder
      <3>2. Start(rs, i) + rs[i].text \in Int /\ Landing(rs, b) \in Int
        BY <2>2, <2>3, <1>3
      <3>3. Start(rs, i) + rs[i].text <= Landing(rs, b)
        BY <3>1, <3>2, <2>2, <2>3, <2>4, Skips
      <3> QED BY <3>3, <1>2
    <2>6. CASE i = k
      BY <2>4, <2>6, <1>2
    <2> QED BY <2>5, <2>6
  <1>5. ASSUME NEW i \in (k + 1)..Len(rs)
        PROVE  b < rs[i].from /\ Landing(rs, b) < Start(rs, i)
    <2>1. i \in 1..Len(rs) /\ k + 1 \in 1..Len(rs) /\ (k + 1) - 1 = k
      BY <1>1
    <2>2. ASSUME NEW m \in (k + 1)..Len(rs)
          PROVE  b < rs[m].from /\ rs[m].from \in Nat
      <3>1. m \in 1..Len(rs) /\ rs[m].to > b
        BY <1>2
      <3>2. ~(rs[m].from <= b /\ b < rs[m].to)
        BY <3>1, <1>1 DEF Survives
      <3> QED BY <3>1, <3>2, Lying
    <2>3. Start(rs, k + 1) = rs[k + 1].from + Upto(rs, k)
      BY <2>1 DEF Start
    <2>4. b < rs[k + 1].from /\ rs[k + 1].from \in Nat /\ rs[k + 1].text \in Nat
      BY <2>1, <2>2, Lying
    <2>5. Landing(rs, b) < Start(rs, k + 1) /\ Start(rs, k + 1) \in Int /\ Landing(rs, b) \in Int
      BY <1>3, <2>3, <2>4
    <2>6. CASE i = k + 1
      BY <2>5, <2>6, <2>2
    <2>7. CASE k + 1 < i
      <3>1. Start(rs, k + 1) + rs[k + 1].text <= Start(rs, i) /\ Start(rs, i) \in Int
        BY <2>1, <2>7, InOrder, UptoAdds
      <3> QED BY <3>1, <2>4, <2>5, <2>2
    <2> QED BY <2>6, <2>7
  <1>6. ASSUME NEW i \in 1..Len(rs) PROVE i \in 1..k \/ i \in (k + 1)..Len(rs)
    OBVIOUS
  <1>7. Landing(rs, b) \in Nat
    <2>1. CASE k = 0
      <3>1. Upto(rs, 0) = 0
        BY UptoAdds
      <3> QED BY <3>1, <2>1, <1>3
    <2>2. CASE k # 0
      <3>1. k \in 1..Len(rs) /\ k \in 1..k
        BY <2>2, <1>1
      <3>2. Start(rs, k) \in Nat /\ rs[k].text \in Nat
        BY <3>1, StartsAreNaturals, Lying
      <3>3. Start(rs, k) + rs[k].text <= Landing(rs, b) /\ Landing(rs, b) \in Int
        BY <3>1, <1>3, <1>4
      <3> QED BY <3>2, <3>3
    <2> QED BY <2>1, <2>2
  <1> QED BY <1>4, <1>5, <1>6, <1>7

(* Replaying a list keeps the order of what survives.                       *)
LEMMA LandingsKeepOrder ==
    ASSUME NEW rs \in Seq(Replacements), NEW length \in Nat, ValidReplacements(rs, length),
           NEW b \in Nat, NEW c \in Nat, b < c, Survives(rs, b), Survives(rs, c)
    PROVE  Landing(rs, b) < Landing(rs, c)
  <1> DEFINE Ended(x) == {i \in DOMAIN rs : rs[i].to <= x}
  <1>1. Len(rs) \in Nat /\ DOMAIN rs = 1..Len(rs)
    OBVIOUS
  <1>2. Landing(rs, b) \in Nat /\ Landing(rs, c) \in Nat
    BY LandsBetween
  <1>3. CASE Ended(b) = Ended(c)
    <2>1. Landing(rs, b) = b + Shift(rs, Ended(b)) /\ Landing(rs, c) = c + Shift(rs, Ended(b))
      BY <1>3 DEF Landing
    <2>2. Shift(rs, Ended(b)) \in Int
      BY ShiftIsInteger
    <2> HIDE DEF Ended
    <2> QED BY <2>1, <2>2
  <1>4. CASE Ended(b) # Ended(c)
    <2>1. PICK i \in 1..Len(rs) : ~(rs[i].to <= b <=> rs[i].to <= c)
      BY <1>1, <1>4
    <2>2. rs[i].to \in Nat /\ rs[i].text \in Nat /\ Start(rs, i) \in Nat
      BY Lying, StartsAreNaturals
    <2>3. ~(rs[i].to <= b) /\ rs[i].to <= c
      BY <2>1, <2>2
    <2>4. rs[i].to <= b \/ Landing(rs, b) < Start(rs, i)
      BY LandsBetween
    <2>5. Start(rs, i) + rs[i].text <= Landing(rs, c) \/ c < rs[i].from
      BY LandsBetween
    <2>6. ~(c < rs[i].from)
      BY <2>3, Lying
    <2> QED BY <1>2, <2>2, <2>3, <2>4, <2>5, <2>6
  <1> QED BY <1>3, <1>4

-----------------------------------------------------------------------------
(* What a relation and a fate say.                                          *)

IsRange(range) == range.from \in Nat /\ range.to \in Nat /\ range.from <= range.to

LEMMA RelationMeans ==
    ASSUME NEW r \in Replacements, NEW range, IsRange(range)
    PROVE  /\ Relation(r, range) \in {"before", "after", "inside", "replaced", "touched"}
           /\ Relation(r, range) = "before" <=> r.to < range.from
           /\ Relation(r, range) = "after" <=> r.from > range.to
           /\ Relation(r, range) = "inside" <=> range.from < r.from /\ r.to < range.to
           /\ Relation(r, range) = "replaced" =>
                 r.from # r.to /\ r.from <= range.from /\ range.to <= r.to
  <1>1. r.from \in Nat /\ r.to \in Nat /\ r.from <= r.to
    BY DEF Replacements
  <1> QED BY <1>1 DEF Relation, IsRange

LEMMA FateMeans ==
    ASSUME NEW rs \in Seq(Replacements), NEW range, IsRange(range)
    PROVE  /\ Fate(rs, range) \in {"moved", "replaced", "touched"}
           /\ Fate(rs, range) = "moved" =>
                 \A i \in 1..Len(rs) : Relation(rs[i], range) \in {"before", "after", "inside"}
           /\ Fate(rs, range) = "replaced" =>
                 \E i \in 1..Len(rs) : Relation(rs[i], range) = "replaced"
  <1> DEFINE ends == At(rs, range, "touched") \cup At(rs, range, "replaced")
             first == CHOOSE i \in ends : \A j \in ends : i <= j
  <1>1. DOMAIN rs = 1..Len(rs) /\ Len(rs) \in Nat
    OBVIOUS
  <1>2. \A i \in 1..Len(rs) :
           i \in ends <=> Relation(rs[i], range) \in {"touched", "replaced"}
    BY <1>1 DEF At
  <1>3. ends \in SUBSET Nat /\ ends \subseteq 1..Len(rs)
    BY <1>1 DEF At
  <1>4. Fate(rs, range) = IF ends = {} THEN "moved" ELSE Relation(rs[first], range)
    BY DEF Fate
  <1>5. CASE ends = {}
    <2>1. ASSUME NEW i \in 1..Len(rs)
          PROVE  Relation(rs[i], range) \in {"before", "after", "inside"}
      <3>1. rs[i] \in Replacements
        OBVIOUS
      <3> QED BY <3>1, <1>2, <1>5, RelationMeans
    <2> QED BY <2>1, <1>4, <1>5
  <1>6. CASE ends # {}
    <2>1. \E m \in ends : \A j \in ends : m <= j
      BY <1>3, <1>6, LeastOfNaturals
    <2> HIDE DEF ends
    <2>2. first \in ends
      BY <2>1
    <2>3. Relation(rs[first], range) \in {"touched", "replaced"} /\ first \in 1..Len(rs)
      BY <1>2, <1>3, <2>2
    <2> QED BY <1>4, <1>6, <2>3
  <1> QED BY <1>5, <1>6

(* A replacement of a range leaves none of its bytes.                       *)
LEMMA ReplacedLeavesNothing ==
    ASSUME NEW rs \in Seq(Replacements), NEW range, IsRange(range),
           Fate(rs, range) = "replaced", NEW b \in range.from..(range.to - 1)
    PROVE  ~Survives(rs, b)
  <1>1. PICK i \in 1..Len(rs) : Relation(rs[i], range) = "replaced"
    BY FateMeans
  <1>2. rs[i] \in Replacements
    OBVIOUS
  <1>3. rs[i].from <= range.from /\ range.to <= rs[i].to
    BY <1>1, <1>2, RelationMeans
  <1>4. rs[i].from \in Nat /\ rs[i].to \in Nat /\ range.from \in Nat /\ range.to \in Nat
    BY Lying DEF IsRange
  <1>5. rs[i].from <= b /\ b < rs[i].to
    BY <1>3, <1>4
  <1> QED BY <1>5 DEF Survives

-----------------------------------------------------------------------------
(* The theorems.                                                            *)

(* Where fate says that a range moves, the moved range is one: the code     *)
(* converts back from signed arithmetic and never falls back to zero; and   *)
(* the first and last byte of the range survive replaying the edit and land *)
(* on the first and last byte of the moved range (fate against replay).     *)
THEOREM MovedRangesFollowText ==
    ASSUME NEW rs \in Seq(Replacements), NEW length \in Nat, ValidReplacements(rs, length),
           NEW range, IsRange(range), Fate(rs, range) = "moved"
    PROVE  /\ IsRange(Moved(rs, range))
           /\ range.from < range.to =>
                 /\ Survives(rs, range.from) /\ Survives(rs, range.to - 1)
                 /\ Landing(rs, range.from) = Moved(rs, range).from
                 /\ Landing(rs, range.to - 1) = Moved(rs, range).to - 1
  <1> DEFINE B == At(rs, range, "before")
             I == At(rs, range, "inside")
             from == range.from
             to == range.to
  <1>1. Len(rs) \in Nat /\ DOMAIN rs = 1..Len(rs)
    OBVIOUS
  <1>2. from \in Nat /\ to \in Nat /\ from <= to
    BY DEF IsRange
  <1>3. ASSUME NEW i \in 1..Len(rs)
        PROVE  /\ \/ rs[i].to < from
                  \/ rs[i].from > to
                  \/ from < rs[i].from /\ rs[i].to < to
               /\ i \in B <=> rs[i].to < from
               /\ i \in I <=> from < rs[i].from /\ rs[i].to < to
               /\ rs[i].from \in Nat /\ rs[i].to \in Nat /\ rs[i].from <= rs[i].to
    <2>1. rs[i] \in Replacements
      OBVIOUS
    <2>2. Relation(rs[i], range) \in {"before", "after", "inside"}
      BY FateMeans
    <2> QED BY <2>1, <2>2, <1>1, RelationMeans, Lying DEF At
  <1>4. B \subseteq 1..Len(rs) /\ I \subseteq 1..Len(rs)
    BY <1>1 DEF At
  <1>5. B \cap I = {}
    BY <1>2, <1>3, <1>4
  <1>6. /\ Shift(rs, B \cup I) = Shift(rs, B) + Shift(rs, I)
        /\ Shift(rs, B) \in Int /\ Shift(rs, I) \in Int
    BY <1>5, ShiftOfUnion
  <1>7. /\ Moved(rs, range).from = from + Shift(rs, B)
        /\ Moved(rs, range).to = to + Shift(rs, B) + Shift(rs, I)
    BY DEF Moved, ByteRange
  <1> HIDE DEF B, I
  \* A position that no replacement touches from below moves to a natural.
  <1>8. ASSUME NEW b \in Int, NEW A, A = {i \in DOMAIN rs : rs[i].to <= b}
        PROVE  \E k \in 0..Len(rs) :
                  /\ A = 1..k /\ Shift(rs, A) = Upto(rs, k) /\ Upto(rs, k) \in Int
                  /\ k # 0 =>
                        /\ rs[k].to <= b /\ Start(rs, k) \in Nat /\ rs[k].text \in Nat
                        /\ Start(rs, k) + rs[k].text = rs[k].to + Upto(rs, k)
    <2>1. PICK k \in 0..Len(rs) :
              /\ {i \in DOMAIN rs : rs[i].to <= b} = 1..k
              /\ \A i \in 1..k : rs[i].to <= b
      BY EndedIsPrefix
    <2>2. Shift(rs, A) = Upto(rs, k) /\ Upto(rs, k) \in Int /\ A = 1..k
      BY <1>8, <2>1, ShiftOfPrefix, UptoAdds
    <2>3. k # 0 => /\ rs[k].to <= b /\ Start(rs, k) \in Nat /\ rs[k].text \in Nat
                   /\ Start(rs, k) + rs[k].text = rs[k].to + Upto(rs, k)
      BY <2>1, UptoAdds, StartsAreNaturals, Lying
    <2> QED BY <2>2, <2>3
  <1> HIDE DEF from, to
  <1>8a. ASSUME NEW i \in 1..Len(rs)
         PROVE  /\ i \in B <=> rs[i].to <= from - 1
                /\ from < to => (i \in B <=> rs[i].to <= from)
                /\ from < to => (i \in B \/ i \in I <=> rs[i].to <= to - 1)
                /\ from = to => i \notin I
    <2>1. rs[i].from \in Nat /\ rs[i].to \in Nat /\ rs[i].from <= rs[i].to
      BY <1>3
    <2>2. rs[i].to < from \/ rs[i].from > to \/ (from < rs[i].from /\ rs[i].to < to)
      BY <1>3
    <2>3. (i \in B <=> rs[i].to < from) /\ (i \in I <=> (from < rs[i].from /\ rs[i].to < to))
      BY <1>3
    <2>4. i \in B <=> rs[i].to <= from - 1
      BY <2>1, <2>3, <1>2
    <2>5. ASSUME from < to PROVE i \in B <=> rs[i].to <= from
      BY <2>1, <2>2, <2>3, <2>5, <1>2
    <2>6. ASSUME from < to PROVE i \in B \/ i \in I <=> rs[i].to <= to - 1
      BY <2>1, <2>2, <2>3, <2>6, <1>2
    <2>7. from = to => i \notin I
      BY <2>1, <2>3, <1>2
    <2> QED BY <2>4, <2>5, <2>6, <2>7
  <1>9. B = {i \in DOMAIN rs : rs[i].to <= from - 1}
    BY <1>1, <1>4, <1>8a
  <1>10. from < to => B = {i \in DOMAIN rs : rs[i].to <= from}
    BY <1>1, <1>4, <1>8a
  <1>11. from < to => B \cup I = {i \in DOMAIN rs : rs[i].to <= to - 1}
    BY <1>1, <1>4, <1>8a
  <1>12. from = to => I = {}
    BY <1>4, <1>8a
  <1>13. from + Shift(rs, B) \in Nat
    <2>1. PICK k \in 0..Len(rs) :
              /\ B = 1..k /\ Shift(rs, B) = Upto(rs, k) /\ Upto(rs, k) \in Int
              /\ k # 0 =>
                    /\ rs[k].to <= from - 1 /\ Start(rs, k) \in Nat /\ rs[k].text \in Nat
                    /\ Start(rs, k) + rs[k].text = rs[k].to + Upto(rs, k)
      <3>1. from - 1 \in Int
        BY <1>2
      <3> QED BY <3>1, <1>8, <1>9
    <2>2. CASE k = 0
      <3>1. Shift(rs, B) = 0
        BY <2>1, <2>2, UptoAdds
      <3> QED BY <3>1, <1>2
    <2>3. CASE k # 0
      <3>1. rs[k].to \in Nat
        BY <2>3, Lying
      <3> QED BY <2>1, <2>3, <3>1, <1>2
    <2> QED BY <2>2, <2>3
  <1>14. CASE from = to
    <2>1. B \cup I = B
      BY <1>12, <1>14
    <2>2. Shift(rs, B \cup I) = Shift(rs, B)
      BY <2>1
    <2>3. Shift(rs, I) = 0
      BY <2>2, <1>6
    <2>4. Moved(rs, range).from \in Nat /\ Moved(rs, range).to = Moved(rs, range).from
      BY <2>3, <1>2, <1>6, <1>7, <1>13, <1>14
    <2> QED BY <2>4, <1>2, <1>14 DEF IsRange, from, to
  <1>15. CASE from < to
    <2>1. Survives(rs, from) /\ Survives(rs, to - 1)
      <3>1. ASSUME NEW i \in 1..Len(rs)
            PROVE  /\ ~(rs[i].from <= from /\ from < rs[i].to)
                   /\ ~(rs[i].from <= to - 1 /\ to - 1 < rs[i].to)
        <4>1. rs[i].to < from \/ rs[i].from > to \/ (from < rs[i].from /\ rs[i].to < to)
          BY <1>3
        <4>2. rs[i].from \in Nat /\ rs[i].to \in Nat
          BY <1>3
        <4> QED BY <4>1, <4>2, <1>2, <1>15
      <3> QED BY <3>1, <1>1 DEF Survives
    <2>2. Landing(rs, from) = Moved(rs, range).from
      BY <1>7, <1>10, <1>15 DEF Landing
    <2>3. Landing(rs, to - 1) = Moved(rs, range).to - 1
      <3>1. Landing(rs, to - 1) = (to - 1) + Shift(rs, B \cup I)
        BY <1>11, <1>15 DEF Landing
      <3> QED BY <3>1, <1>2, <1>6, <1>7
    <2>4. Landing(rs, from) <= Landing(rs, to - 1)
      <3>1. CASE from = to - 1
        BY <3>1, <2>2, <1>7, <1>13
      <3>2. CASE from # to - 1
        <4>1. from \in Nat /\ to - 1 \in Nat /\ from < to - 1
          BY <1>2, <1>15, <3>2
        <4>2. Landing(rs, from) < Landing(rs, to - 1)
          BY <4>1, <2>1, LandingsKeepOrder
        <4>3. Landing(rs, from) \in Nat /\ Landing(rs, to - 1) \in Nat
          BY <4>1, <2>1, LandsBetween
        <4> QED BY <4>2, <4>3
      <3> QED BY <3>1, <3>2
    <2>5. Moved(rs, range).from \in Nat /\ Moved(rs, range).to \in Int
      BY <1>2, <1>6, <1>7, <1>13
    <2>6. Moved(rs, range).to \in Nat /\ Moved(rs, range).from <= Moved(rs, range).to
      BY <2>2, <2>3, <2>4, <2>5
    <2> QED BY <2>1, <2>2, <2>3, <2>5, <2>6 DEF IsRange, from, to
  <1> QED BY <1>2, <1>14, <1>15

(* Text that counts as inserted is new: no byte of the before text that     *)
(* survives replaying the edit lands in it (inserted against replay).       *)
THEOREM InsertedTextIsNew ==
    ASSUME NEW rs \in Seq(Replacements), NEW length \in Nat, ValidReplacements(rs, length),
           NEW range, IsRange(range), Inserted(rs, range),
           NEW b \in Nat, Survives(rs, b)
    PROVE  Landing(rs, b) \notin range.from..(range.to - 1)
  <1>1. Len(rs) \in Nat /\ DOMAIN rs = 1..Len(rs)
    OBVIOUS
  <1>2. PICK i \in 1..Len(rs) :
           LET start == rs[i].from + Shift(rs, 1..(i - 1))
           IN  start <= range.from /\ range.to <= start + rs[i].text
    BY <1>1 DEF Inserted
  <1>3. Shift(rs, 1..(i - 1)) = Upto(rs, i - 1)
    <2>1. i - 1 \in 0..Len(rs)
      BY <1>1
    <2> QED BY <2>1, ShiftOfPrefix
  <1>4. Start(rs, i) <= range.from /\ range.to <= Start(rs, i) + rs[i].text
    BY <1>2, <1>3 DEF Start
  <1>5. /\ Start(rs, i) \in Nat /\ rs[i].text \in Nat /\ Landing(rs, b) \in Nat
        /\ range.from \in Nat /\ range.to \in Nat
    BY StartsAreNaturals, Lying, LandsBetween DEF IsRange
  <1>6. Start(rs, i) + rs[i].text <= Landing(rs, b) \/ Landing(rs, b) < Start(rs, i)
    BY LandsBetween
  <1> QED BY <1>4, <1>5, <1>6

-----------------------------------------------------------------------------
(* The parts of a classification.                                           *)

Explicit(inventory, inputs) == AcceptedExplicit(inputs.explicit, inventory)
ChosenTo(inventory, inputs) == {d.to : d \in Explicit(inventory, inputs)}
MovedIds(inventory, inputs) ==
    {d.id : d \in {d \in Explicit(inventory, inputs) : d.kind # "allocate"}}
Staying(inventory, inputs) == {e \in Active(Snapshot) : e.id \notin MovedIds(inventory, inputs)}
Retained(inventory, inputs) ==
    {e \in Staying(inventory, inputs) : e.declaration \in inventory.declarations}
Gone(inventory, inputs) == Staying(inventory, inputs) \ Retained(inventory, inputs)
OfKind(kind, inventory, inputs) ==
    {e \in Gone(inventory, inputs) : Account(e, inventory, inputs.edits).kind = kind}
EditOf(e, inputs) == CHOOSE edit \in EditsFrom(inputs.edits, e.declaration.source) : TRUE
To(e, inputs) == Target(EditOf(e, inputs), e.declaration)
Continued(inventory, inputs) ==
    {e \in OfKind("carried", inventory, inputs) :
        /\ To(e, inputs) \notin ChosenTo(inventory, inputs)
        /\ Claimants(To(e, inputs), inventory, inputs.edits) = {e.id}}
IsRemoved(e, inputs) ==
    /\ \A x \in EditsFrom(inputs.edits, e.declaration.source) : x.after = Nowhere
    /\ e.declaration.source.unit \in inputs.membership
Absent(inventory, inputs) ==
    IF inventory.complete /\ Automatic(inventory, inputs)
    THEN {e \in OfKind("gone", inventory, inputs) : ~IsRemoved(e, inputs)} ELSE {}
KeptEntries(inventory, inputs) ==
    {e \in Gone(inventory, inputs) : Stays(Account(e, inventory, inputs.edits).kind, inventory)}
Remaining(inventory, inputs) ==
    inventory.declarations \
        (ChosenTo(inventory, inputs)
         \cup {e.declaration : e \in Retained(inventory, inputs)}
         \cup {To(e, inputs) : e \in OfKind("carried", inventory, inputs)})
NewOnes(inventory, inputs) ==
    IF ~Automatic(inventory, inputs) THEN {}
    ELSE {d \in Remaining(inventory, inputs) :
             \/ Snapshot = {}
             \/ Claimants(d, inventory, inputs.edits) = {} /\ ShownNew(d, inputs.edits)}
Continuation(e, inputs) ==
    [kind |-> "continue", id |-> e.id, from |-> e.declaration, to |-> To(e, inputs),
     basis |-> "verified-edit", changes |-> {EditOf(e, inputs)}]
Retirement(e) ==
    [kind |-> "retire", id |-> e.id, from |-> e.declaration, to |-> Nowhere,
     basis |-> "complete-absence", changes |-> {}]
Allocation(id, to) ==
    [kind |-> "allocate", id |-> id, from |-> Nowhere, to |-> to, basis |-> "confirmed-new",
     changes |-> {}]

Resolved(inventory, inputs) ==
    /\ Cardinality(Explicit(inventory, inputs)) = Cardinality(inputs.explicit)
    /\ Gone(inventory, inputs) =
          Continued(inventory, inputs) \cup Absent(inventory, inputs)
          \cup KeptEntries(inventory, inputs)
    /\ Remaining(inventory, inputs) = NewOnes(inventory, inputs)

LEMMA ClassifyIs ==
    ASSUME NEW inventory, NEW inputs
    PROVE  Classify(inventory, inputs) =
             [resolved |-> Resolved(inventory, inputs),
              explicit |-> Explicit(inventory, inputs),
              continuations |-> {Continuation(e, inputs) : e \in Continued(inventory, inputs)},
              retirements |-> {Retirement(e) : e \in Absent(inventory, inputs)},
              new |-> NewOnes(inventory, inputs)]
  BY Zenon DEF Classify, Resolved, Explicit, ChosenTo, MovedIds, Staying, Retained, Gone, OfKind, EditOf,
         To, Continued, IsRemoved, Absent, KeptEntries, Remaining, NewOnes, Continuation,
         Retirement

-----------------------------------------------------------------------------
(* What each part is made of.                                               *)

(* A host that reconciles: its registry is one that updates made, and its   *)
(* inputs have their types and were admitted.                               *)
Facing(inventory, inputs) ==
    RegistryInv /\ WellTyped(inventory, inputs) /\ Admitted(inventory, inputs)

LEMMA BaseIs ==
    ASSUME RegistryInv
    PROVE  /\ Snapshot \subseteq Entry /\ WellFormed(Snapshot) /\ Generation \in Nat
           /\ \A e \in Active(Snapshot) :
                 /\ e \in Snapshot /\ e.id \in Ids /\ e.declaration \in Declarations
                 /\ e.id \in IdsOf(Snapshot) /\ IsRange(e.declaration.range)
           /\ \A e, f \in Snapshot : e.id = f.id => e = f
<1>1. Snapshot \subseteq Entry /\ WellFormed(Snapshot) /\ Generation \in Nat
  BY SnapshotTyped, SnapshotWellFormed, StepTyped DEF RegistryInv, Generation
<1>2. ASSUME NEW e \in Active(Snapshot)
      PROVE  /\ e \in Snapshot /\ e.id \in Ids /\ e.declaration \in Declarations
             /\ e.id \in IdsOf(Snapshot) /\ IsRange(e.declaration.range)
  <2>1. e \in Snapshot
    BY DEF Active
  <2>2. e \in Entry
    BY <1>1, <2>1
  <2> QED BY <2>1, <2>2, DeclarationsAssumption DEF Entry, IdsOf, IsRange
<1> QED BY <1>1, <1>2 DEF WellFormed

LEMMA ExplicitMeans ==
    ASSUME NEW inventory, NEW inputs, WellTyped(inventory, inputs),
           NEW d \in Explicit(inventory, inputs)
    PROVE  /\ d \in Decision /\ d.basis = "explicit" /\ d.changes = {}
           /\ d.kind \in {"continue", "allocate", "restore"}
           /\ d.to \in inventory.declarations /\ d.to \in Declarations /\ d.to # Nowhere
           /\ FitsBase(d, Snapshot, inventory)
           /\ \A o \in Explicit(inventory, inputs) : o # d => o.id # d.id /\ o.to # d.to
<1>1. PICK x \in inputs.explicit : d = x.decision /\ Fits(x, inventory)
  BY DEF Explicit, AcceptedExplicit
<1>2. d \in Decision /\ d.basis = "explicit"
  BY <1>1 DEF WellTyped
<1>3. /\ d.changes = {} /\ d.kind \in {"continue", "allocate", "restore"}
  BY <1>2 DEF Decision, DecisionOf
<1>4. d.to \in inventory.declarations /\ FitsBase(d, Snapshot, inventory)
  BY <1>1 DEF Fits
<1>5. d.to \in Declarations /\ d.to # Nowhere
  BY <1>4, NowhereAssumption DEF WellTyped
<1>6. \A o \in Explicit(inventory, inputs) : o # d => o.id # d.id /\ o.to # d.to
  BY DEF Explicit, AcceptedExplicit
<1> QED BY <1>2, <1>3, <1>4, <1>5, <1>6

(* In a resolved reconciliation every decision of the host was accepted, so *)
(* whoever holds a declaration it gives away is itself moved elsewhere.     *)
LEMMA HoldersMakeRoom ==
    ASSUME NEW inventory, NEW inputs, WellTyped(inventory, inputs), Resolved(inventory, inputs),
           NEW d \in Explicit(inventory, inputs), NEW h \in Holders(Snapshot, d.to)
    PROVE  h.id \in MovedIds(inventory, inputs)
<1> DEFINE X == inputs.explicit
           A == Explicit(inventory, inputs)
           Y == {x \in X : Fits(x, inventory) /\ x.decision \in A}
           f == [x \in Y |-> x.decision]
           alone == {x.decision : x \in {x \in X : Fits(x, inventory)}}
           fitting == {o \in alone : \A p \in alone \ {o} : p.id # o.id /\ p.to # o.to}
           moved == {o.id : o \in {o \in fitting : o.kind # "allocate"}}
<1>1. A = {o \in fitting : \A g \in Holders(Snapshot, o.to) : g.id \in moved}
  BY DEF Explicit, AcceptedExplicit
<1>2. IsFiniteSet(X) /\ Y \in SUBSET X /\ Cardinality(A) = Cardinality(X)
  BY DEF WellTyped, Resolved
<1>3. \A o \in A : \E x \in Y : o = x.decision
  BY <1>1
<1> HIDE DEF A, alone, fitting, moved
<1>4. f \in Surjection(Y, A)
  BY <1>3 DEF Surjection
<1> HIDE DEF X, Y, f
<1>5. /\ IsFiniteSet(Y) /\ Cardinality(Y) <= Cardinality(X)
      /\ Cardinality(X) = Cardinality(Y) => X = Y
  BY <1>2, FS_Subset
<1>6. IsFiniteSet(A) /\ Cardinality(A) <= Cardinality(Y)
  BY <1>4, <1>5, FS_Surjection
<1>7. Cardinality(X) \in Nat /\ Cardinality(Y) \in Nat
  BY <1>2, <1>5, FS_CardinalityType
<1>8. X = Y
  BY <1>2, <1>5, <1>6, <1>7
<1>9. fitting \subseteq A
  BY <1>8 DEF fitting, alone, Y
<1>10. h.id \in moved
  BY <1>1 DEF A
<1> QED BY <1>9, <1>10 DEF moved, MovedIds, A

(* A set with something in it and no two things is what CHOOSE makes of it. *)
LEMMA SoleMember ==
    ASSUME NEW S, IsFiniteSet(S), NEW T \in SUBSET S, T # {}, ~(Cardinality(T) > 1)
    PROVE  T = {CHOOSE x \in T : TRUE}
<1>1. IsFiniteSet(T) /\ Cardinality(T) \in Nat
  BY FS_Subset, FS_CardinalityType
<1>2. Cardinality(T) # 0
  BY <1>1, FS_EmptySet
<1>3. Cardinality(T) = 1
  BY <1>1, <1>2
<1>4. \E x : T = {x}
  BY <1>1, <1>3, FS_Singleton
<1> QED BY <1>4

(* An account that carries an entry rests on one edit that keeps it.        *)
LEMMA CarriedMeans ==
    ASSUME NEW inventory, NEW inputs, Facing(inventory, inputs),
           NEW e \in OfKind("carried", inventory, inputs)
    PROVE  LET edit == EditOf(e, inputs)
           IN  /\ EditsFrom(inputs.edits, e.declaration.source) = {edit}
               /\ edit \in inputs.edits /\ edit.before = e.declaration.source
               /\ e.declaration.source \notin inventory.units
               /\ Carries(edit, e.declaration)
               /\ To(e, inputs) = Target(edit, e.declaration)
               /\ To(e, inputs) \in inventory.declarations
<1> DEFINE source == e.declaration.source
           from == EditsFrom(inputs.edits, source)
           edit == EditOf(e, inputs)
           fate == Fate(edit.replacements, e.declaration.range)
<1>1. Account(e, inventory, inputs.edits).kind = "carried"
  BY DEF OfKind
<1>2. /\ from # {} /\ source \notin inventory.units /\ ~(Cardinality(from) > 1)
      /\ edit.replay = "ok" /\ edit.after # Nowhere /\ fate # "replaced" /\ fate # "touched"
      /\ Target(edit, e.declaration) \in inventory.declarations
  BY <1>1 DEF Account, EditOf
<1>3. from \in SUBSET inputs.edits /\ IsFiniteSet(inputs.edits)
  BY DEF EditsFrom, Facing, WellTyped
<1>4. from = {edit}
  BY <1>2, <1>3, SoleMember DEF EditOf
<1>5. edit \in inputs.edits /\ edit.before = source
  BY <1>4 DEF EditsFrom
<1>6. fate = "moved"
  <2>1. edit.replacements \in Seq(Replacements)
    BY <1>5 DEF Facing, WellTyped, SourceEdit
  <2>2. IsRange(e.declaration.range)
    BY BaseIs DEF OfKind, Gone, Staying, Facing
  <2> QED BY <1>2, <2>1, <2>2, FateMeans
<1> QED BY <1>2, <1>4, <1>5, <1>6 DEF Carries, To

LEMMA ContinuedMeans ==
    ASSUME NEW inventory, NEW inputs, Facing(inventory, inputs),
           NEW e \in Continued(inventory, inputs)
    PROVE  /\ e \in OfKind("carried", inventory, inputs)
           /\ e \in Gone(inventory, inputs) /\ e \in Active(Snapshot)
           /\ e.id \notin MovedIds(inventory, inputs)
           /\ e.declaration \notin inventory.declarations
           /\ To(e, inputs) \in Declarations
           /\ To(e, inputs) \in inventory.declarations
           /\ To(e, inputs) \notin ChosenTo(inventory, inputs)
           /\ Claimants(To(e, inputs), inventory, inputs.edits) = {e.id}
           /\ Holders(Snapshot, To(e, inputs)) = {}
<1>1. /\ e \in OfKind("carried", inventory, inputs)
      /\ To(e, inputs) \notin ChosenTo(inventory, inputs)
      /\ Claimants(To(e, inputs), inventory, inputs.edits) = {e.id}
  BY DEF Continued
<1>2. /\ e \in Gone(inventory, inputs) /\ e \in Active(Snapshot)
      /\ e.id \notin MovedIds(inventory, inputs) /\ e.declaration \notin inventory.declarations
  BY <1>1 DEF OfKind, Gone, Staying, Retained
<1>3. To(e, inputs) \in inventory.declarations
  BY <1>1, CarriedMeans
<1>4. To(e, inputs) \in Declarations
  BY <1>3 DEF Facing, WellTyped
<1>5. ASSUME NEW h \in Holders(Snapshot, To(e, inputs)) PROVE FALSE
  <2>1. h \in Active(Snapshot) /\ h.declaration = To(e, inputs)
    BY DEF Holders
  <2>2. h.id \in Claimants(To(e, inputs), inventory, inputs.edits)
    BY <1>3, <2>1 DEF Claimants
  <2>3. h.id = e.id
    BY <1>1, <2>2
  <2>4. h = e
    BY <1>2, <2>1, <2>3, BaseIs DEF Facing
  <2> QED BY <1>2, <1>3, <2>1, <2>4
<1> QED BY <1>1, <1>2, <1>3, <1>4, <1>5

LEMMA AbsentMeans ==
    ASSUME NEW inventory, NEW inputs, NEW e \in Absent(inventory, inputs)
    PROVE  /\ inventory.complete /\ Automatic(inventory, inputs)
           /\ e \in OfKind("gone", inventory, inputs) /\ ~IsRemoved(e, inputs)
           /\ e \in Gone(inventory, inputs) /\ e \in Active(Snapshot)
           /\ e.id \notin MovedIds(inventory, inputs)
           /\ e.declaration \notin inventory.declarations
           /\ e \notin Continued(inventory, inputs)
<1>1. /\ inventory.complete /\ Automatic(inventory, inputs)
      /\ e \in OfKind("gone", inventory, inputs) /\ ~IsRemoved(e, inputs)
  BY DEF Absent
<1>2. /\ e \in Gone(inventory, inputs) /\ e \in Active(Snapshot)
      /\ e.id \notin MovedIds(inventory, inputs) /\ e.declaration \notin inventory.declarations
  BY <1>1 DEF OfKind, Gone, Staying, Retained
<1>3. e \notin Continued(inventory, inputs)
  BY <1>1 DEF Continued, OfKind
<1> QED BY <1>1, <1>2, <1>3
-----------------------------------------------------------------------------
(* What the planner draws for the new declarations.                         *)

NewCount(inventory, inputs) == Cardinality(NewOnes(inventory, inputs))
NewOrder(inventory, inputs) ==
    CHOOSE f \in [1..NewCount(inventory, inputs) -> NewOnes(inventory, inputs)] :
        \A i, j \in 1..NewCount(inventory, inputs) : f[i] = f[j] => i = j
Draw(i, inventory, inputs) ==
    Allocation(inputs.candidates[i], NewOrder(inventory, inputs)[i])

\* A resolved reconciliation with enough candidates, which forms an update.
Forms(inventory, inputs) ==
    /\ Facing(inventory, inputs) /\ Resolved(inventory, inputs)
    /\ Usable(Classify(inventory, inputs), inputs.candidates)

LEMMA NewMeans ==
    ASSUME NEW inventory, NEW inputs, NEW d \in NewOnes(inventory, inputs)
    PROVE  /\ d \in Remaining(inventory, inputs) /\ Automatic(inventory, inputs)
           /\ \/ Snapshot = {}
              \/ Claimants(d, inventory, inputs.edits) = {} /\ ShownNew(d, inputs.edits)
  BY DEF NewOnes

(* What remains is an inventory's declaration that nobody chose and no      *)
(* entry the plan leaves alone holds.                                       *)
LEMMA RemainingMeans ==
    ASSUME NEW inventory, NEW inputs, NEW d \in Remaining(inventory, inputs)
    PROVE  /\ d \in inventory.declarations /\ d \notin ChosenTo(inventory, inputs)
           /\ \A e \in OfKind("carried", inventory, inputs) : d # To(e, inputs)
           /\ \A h \in Holders(Snapshot, d) : h.id \in MovedIds(inventory, inputs)
<1>1. /\ d \in inventory.declarations /\ d \notin ChosenTo(inventory, inputs)
      /\ \A e \in OfKind("carried", inventory, inputs) : d # To(e, inputs)
      /\ \A e \in Retained(inventory, inputs) : d # e.declaration
  BY DEF Remaining
<1>2. ASSUME NEW h \in Holders(Snapshot, d), h.id \notin MovedIds(inventory, inputs)
      PROVE  FALSE
  <2>1. h \in Active(Snapshot) /\ h.declaration = d
    BY DEF Holders
  <2>2. h \in Retained(inventory, inputs)
    BY <1>1, <1>2, <2>1 DEF Retained, Staying
  <2> QED BY <1>1, <2>1, <2>2
<1> QED BY <1>1, <1>2

LEMMA NewOrderIsOneToOne ==
    ASSUME NEW inventory, NEW inputs, WellTyped(inventory, inputs)
    PROVE  LET n == NewCount(inventory, inputs)
               order == NewOrder(inventory, inputs)
           IN  /\ n \in Nat /\ order \in [1..n -> NewOnes(inventory, inputs)]
               /\ \A i, j \in 1..n : order[i] = order[j] => i = j
               /\ \A d \in NewOnes(inventory, inputs) : \E i \in 1..n : order[i] = d
<1> DEFINE new == NewOnes(inventory, inputs)
           n == Cardinality(new)
           order == NewOrder(inventory, inputs)
<1>1. new \in SUBSET inventory.declarations
  BY NewMeans, RemainingMeans
<1>2. IsFiniteSet(new) /\ n \in Nat /\ ExistsBijection(1..n, new)
  BY <1>1, FS_Subset, FS_CardinalityType DEF WellTyped
<1> HIDE DEF new
<1>3. \E f \in [1..n -> new] : \A i, j \in 1..n : f[i] = f[j] => i = j
  <2>1. PICK f : f \in Bijection(1..n, new)
    BY <1>2 DEF ExistsBijection
  <2> QED BY <2>1 DEF Bijection, Injection, IsInjective
<1>4. order \in [1..n -> new] /\ \A i, j \in 1..n : order[i] = order[j] => i = j
  BY <1>3 DEF NewOrder, NewCount, new
<1> HIDE DEF order
<1>5. order \in Injection(1..n, new)
  BY <1>4 DEF Injection, IsInjective
<1>6. Cardinality(1..n) = n
  BY <1>2, FS_Interval
<1> HIDE DEF n
<1>7. order \in Surjection(1..n, new)
  BY <1>2, <1>5, <1>6, FS_Injection DEF n
<1>8. \A d \in new : \E i \in 1..n : order[i] = d
  BY <1>7 DEF Surjection
<1> QED BY <1>2, <1>4, <1>8 DEF n, new, order, NewCount

LEMMA DrawMeans ==
    ASSUME NEW inventory, NEW inputs, Forms(inventory, inputs),
           NEW i \in 1..NewCount(inventory, inputs)
    PROVE  LET d == Draw(i, inventory, inputs)
           IN  /\ d.id = inputs.candidates[i] /\ d.id \in Ids
               /\ d.to = NewOrder(inventory, inputs)[i] /\ d.to \in NewOnes(inventory, inputs)
               /\ d.to \in Remaining(inventory, inputs) /\ d.to \in inventory.declarations
               /\ d.to \in Declarations
               /\ d.id \notin IdsOf(Snapshot)
               /\ \A o \in Explicit(inventory, inputs) : o.id # d.id
               /\ d.kind = "allocate" /\ d.from = Nowhere /\ d.basis = "confirmed-new"
               /\ d.changes = {}
               /\ \A j \in 1..NewCount(inventory, inputs) :
                     LET o == Draw(j, inventory, inputs)
                     IN  d.id = o.id \/ d.to = o.to => i = j
<1> DEFINE n == NewCount(inventory, inputs)
           d == Draw(i, inventory, inputs)
<1>1. WellTyped(inventory, inputs) /\ inputs.candidates \in Seq(Ids)
  BY DEF Forms, Facing, WellTyped
<1>2. n \in Nat /\ n <= Len(inputs.candidates)
  BY <1>1, NewOrderIsOneToOne, ClassifyIs DEF Forms, Usable, NewCount
<1>3. \A j \in 1..n : j \in DOMAIN inputs.candidates /\ inputs.candidates[j] \in Ids
  BY <1>1, <1>2
<1>4. /\ inputs.candidates[i] \notin IdsOf(Snapshot)
      /\ \A o \in Explicit(inventory, inputs) : o.id # inputs.candidates[i]
  BY ClassifyIs DEF Forms, Usable, NewCount
<1>5. \A j \in 1..n : inputs.candidates[i] = inputs.candidates[j] => i = j
  BY <1>3 DEF Forms, Facing, Admitted
<1>6. /\ NewOrder(inventory, inputs)[i] \in NewOnes(inventory, inputs)
      /\ \A j \in 1..n : NewOrder(inventory, inputs)[i] = NewOrder(inventory, inputs)[j] => i = j
  BY <1>1, NewOrderIsOneToOne
<1>7. /\ NewOrder(inventory, inputs)[i] \in Remaining(inventory, inputs)
      /\ NewOrder(inventory, inputs)[i] \in inventory.declarations
      /\ NewOrder(inventory, inputs)[i] \in Declarations
  BY <1>1, <1>6, NewMeans, RemainingMeans DEF WellTyped
<1>8. \A j \in 1..n : /\ Draw(j, inventory, inputs).id = inputs.candidates[j]
                      /\ Draw(j, inventory, inputs).to = NewOrder(inventory, inputs)[j]
  BY DEF Draw, Allocation
<1>9. /\ d.kind = "allocate" /\ d.from = Nowhere /\ d.basis = "confirmed-new" /\ d.changes = {}
  BY DEF Draw, Allocation
<1> QED BY <1>3, <1>4, <1>5, <1>6, <1>7, <1>8, <1>9
-----------------------------------------------------------------------------
(* The update a resolved reconciliation forms.                              *)

PlannedUpdate(inventory, inputs) == Formed(Classify(inventory, inputs), inventory, inputs)

LEMMA FormedIs ==
    ASSUME NEW inventory, NEW inputs
    PROVE  LET update == PlannedUpdate(inventory, inputs)
           IN  /\ update.base = Generation /\ update.inventory = inventory
               /\ update.links = inputs.links
               /\ update = [base |-> Generation, inventory |-> inventory,
                            decisions |-> update.decisions, links |-> inputs.links]
               /\ update.decisions =
                     Explicit(inventory, inputs)
                     \cup {Continuation(e, inputs) : e \in Continued(inventory, inputs)}
                     \cup {Retirement(e) : e \in Absent(inventory, inputs)}
                     \cup {Draw(i, inventory, inputs) : i \in 1..NewCount(inventory, inputs)}
<1> DEFINE class == Classify(inventory, inputs)
<1>1. /\ class.explicit = Explicit(inventory, inputs)
      /\ class.continuations = {Continuation(e, inputs) : e \in Continued(inventory, inputs)}
      /\ class.retirements = {Retirement(e) : e \in Absent(inventory, inputs)}
      /\ class.new = NewOnes(inventory, inputs)
  BY ClassifyIs
<1> HIDE DEF class
<1>2. Allocations(class, inputs.candidates) =
         {Draw(i, inventory, inputs) : i \in 1..NewCount(inventory, inputs)}
  <2> DEFINE Drawn(new) ==
          LET n == Cardinality(new)
              order == CHOOSE f \in [1..n -> new] : \A i, j \in 1..n : f[i] = f[j] => i = j
          IN  {Allocation(inputs.candidates[i], order[i]) : i \in 1..n}
  <2>1. Allocations(class, inputs.candidates) = Drawn(class.new)
    BY Zenon DEF Allocations, Allocation
  <2>2. Drawn(NewOnes(inventory, inputs)) =
           {Draw(i, inventory, inputs) : i \in 1..NewCount(inventory, inputs)}
    BY Zenon DEF Draw, NewOrder, NewCount
  <2> HIDE DEF Drawn
  <2> QED BY <1>1, <2>1, <2>2
<1>3. PlannedUpdate(inventory, inputs) =
         [base |-> Generation, inventory |-> inventory,
          decisions |-> class.explicit \cup class.continuations \cup class.retirements
                        \cup Allocations(class, inputs.candidates),
          links |-> inputs.links]
  BY DEF PlannedUpdate, Formed, class
<1> QED BY <1>1, <1>2, <1>3

LEMMA DecisionIsOf ==
    ASSUME NEW inventory, NEW inputs, NEW d \in PlannedUpdate(inventory, inputs).decisions
    PROVE  \/ d \in Explicit(inventory, inputs)
           \/ \E e \in Continued(inventory, inputs) : d = Continuation(e, inputs)
           \/ \E e \in Absent(inventory, inputs) : d = Retirement(e)
           \/ \E i \in 1..NewCount(inventory, inputs) : d = Draw(i, inventory, inputs)
  BY FormedIs

LEMMA PartsAreDecided ==
    ASSUME NEW inventory, NEW inputs
    PROVE  LET update == PlannedUpdate(inventory, inputs)
           IN  /\ MovedIds(inventory, inputs) \subseteq Decided(update)
               /\ \A e \in Continued(inventory, inputs) : e.id \in Decided(update)
               /\ \A e \in Absent(inventory, inputs) : e.id \in Decided(update)
<1> DEFINE update == PlannedUpdate(inventory, inputs)
<1>1. /\ Explicit(inventory, inputs) \subseteq update.decisions
      /\ \A e \in Continued(inventory, inputs) : Continuation(e, inputs) \in update.decisions
      /\ \A e \in Absent(inventory, inputs) : Retirement(e) \in update.decisions
  BY FormedIs
<1>2. /\ \A e : Continuation(e, inputs).id = e.id
      /\ \A e : Retirement(e).id = e.id
  BY DEF Continuation, Retirement
<1> QED BY <1>1, <1>2 DEF Decided, MovedIds

LEMMA ContinuationMeans ==
    ASSUME NEW inventory, NEW inputs, Facing(inventory, inputs),
           NEW e \in Continued(inventory, inputs)
    PROVE  LET d == Continuation(e, inputs)
           IN  /\ d \in Decision
               /\ d.kind = "continue" /\ d.id = e.id /\ d.from = e.declaration
               /\ d.to = To(e, inputs) /\ d.to # Nowhere
               /\ d.basis = "verified-edit" /\ d.changes = {EditOf(e, inputs)}
<1>1. e.id \in Ids /\ e.declaration \in Declarations /\ To(e, inputs) \in Declarations
  BY ContinuedMeans, BaseIs DEF Facing
<1>2. EditOf(e, inputs) \in Edits
  BY ContinuedMeans, CarriedMeans DEF Facing, WellTyped, SourceEdit
<1>3. {EditOf(e, inputs)} \in SUBSET Edits
  BY <1>2
<1>4. Continuation(e, inputs) \in DecisionOf("continue", Declarations, Declarations,
                                             {"verified-edit"}, SUBSET Edits)
  BY <1>1, <1>3 DEF Continuation, DecisionOf
<1> QED BY <1>1, <1>4, NowhereAssumption DEF Continuation, Decision

LEMMA RetirementMeans ==
    ASSUME NEW inventory, NEW inputs, Facing(inventory, inputs),
           NEW e \in Absent(inventory, inputs)
    PROVE  LET d == Retirement(e)
           IN  /\ d \in Decision
               /\ d.kind = "retire" /\ d.id = e.id /\ d.from = e.declaration
               /\ d.to = Nowhere /\ d.basis = "complete-absence" /\ d.changes = {}
<1>1. e.id \in Ids /\ e.declaration \in Declarations
  BY AbsentMeans, BaseIs DEF Facing
<1>2. Retirement(e) \in DecisionOf("retire", Declarations, {Nowhere}, {"complete-absence"}, {{}})
  BY <1>1 DEF Retirement, DecisionOf
<1> QED BY <1>2 DEF Retirement, Decision

LEMMA DrawTyped ==
    ASSUME NEW inventory, NEW inputs, Forms(inventory, inputs),
           NEW i \in 1..NewCount(inventory, inputs)
    PROVE  Draw(i, inventory, inputs) \in Decision
<1>1. /\ inputs.candidates[i] \in Ids /\ NewOrder(inventory, inputs)[i] \in Declarations
  BY DrawMeans
<1>2. Draw(i, inventory, inputs) \in
         DecisionOf("allocate", {Nowhere}, Declarations, {"confirmed-new", "explicit"}, {{}})
  BY <1>1 DEF Draw, Allocation, DecisionOf
<1> QED BY <1>2 DEF Decision

LEMMA PlannedUpdateTyped ==
    ASSUME NEW inventory, NEW inputs, Forms(inventory, inputs)
    PROVE  PlannedUpdate(inventory, inputs) \in Update
<1> DEFINE update == PlannedUpdate(inventory, inputs)
<1>1. Facing(inventory, inputs)
  BY DEF Forms
<1>2. ASSUME NEW d \in update.decisions PROVE d \in Decision
  BY <1>1, DecisionIsOf, ExplicitMeans, ContinuationMeans, RetirementMeans, DrawTyped DEF Facing
<1>3. Generation \in Nat /\ inventory \in Inventories /\ inputs.links \subseteq LineageLink
  BY <1>1, BaseIs DEF Facing, WellTyped
<1>4. update = [base |-> Generation, inventory |-> inventory,
                decisions |-> update.decisions, links |-> inputs.links]
  BY FormedIs
<1> HIDE DEF update
<1> QED BY <1>2, <1>3, <1>4 DEF Update, update
-----------------------------------------------------------------------------
(* What is planned, the registry accepts.                                   *)

(* No two rules decide about one ID or want one declaration.                *)
LEMMA DecisionsApart ==
    ASSUME NEW inventory, NEW inputs, Forms(inventory, inputs),
           NEW d \in PlannedUpdate(inventory, inputs).decisions,
           NEW o \in PlannedUpdate(inventory, inputs).decisions, d # o
    PROVE  d.id # o.id /\ (d.to = Nowhere \/ d.to # o.to)
<1> DEFINE Ex == Explicit(inventory, inputs)
           Co == Continued(inventory, inputs)
           Ab == Absent(inventory, inputs)
           Dr == 1..NewCount(inventory, inputs)
           Apart(x, y) == x.id # y.id /\ x.to # y.to
<1>1. Facing(inventory, inputs) /\ WellTyped(inventory, inputs) /\ RegistryInv
  BY DEF Forms, Facing
<1>2. ASSUME NEW x \in Ex
      PROVE  /\ x.to \in ChosenTo(inventory, inputs) /\ x.to # Nowhere
             /\ x.id \in MovedIds(inventory, inputs) \/ x.id \notin IdsOf(Snapshot)
             /\ \A y \in Ex : y # x => Apart(x, y)
  <2>1. x.kind # "allocate" => x.id \in MovedIds(inventory, inputs)
    BY DEF MovedIds
  <2>2. x.kind = "allocate" => x.id \notin IdsOf(Snapshot)
    BY <1>1, ExplicitMeans DEF FitsBase
  <2>3. x.to \in ChosenTo(inventory, inputs)
    BY DEF ChosenTo
  <2> QED BY <1>1, <2>1, <2>2, <2>3, ExplicitMeans
<1>3. ASSUME NEW e \in Co
      PROVE  LET x == Continuation(e, inputs)
             IN  /\ x.id \in IdsOf(Snapshot) /\ x.id \notin MovedIds(inventory, inputs)
                 /\ x.to \notin ChosenTo(inventory, inputs) /\ x.to # Nowhere
                 /\ \A f \in Co : e # f => Apart(x, Continuation(f, inputs))
  <2>1. /\ Continuation(e, inputs).id = e.id /\ Continuation(e, inputs).to = To(e, inputs)
        /\ To(e, inputs) # Nowhere
    BY <1>1, ContinuationMeans
  <2>2. /\ e.id \in IdsOf(Snapshot) /\ e.id \notin MovedIds(inventory, inputs)
        /\ To(e, inputs) \notin ChosenTo(inventory, inputs)
    BY <1>1, ContinuedMeans, BaseIs
  <2>3. ASSUME NEW f \in Co, e # f PROVE e.id # f.id /\ To(e, inputs) # To(f, inputs)
    <3>1. e \in Snapshot /\ f \in Snapshot
      BY <1>1, ContinuedMeans, BaseIs
    <3>2. e.id # f.id
      BY <1>1, <2>3, <3>1, BaseIs
    <3>3. /\ Claimants(To(e, inputs), inventory, inputs.edits) = {e.id}
          /\ Claimants(To(f, inputs), inventory, inputs.edits) = {f.id}
      BY <1>1, ContinuedMeans
    <3> QED BY <3>2, <3>3
  <2>4. \A f \in Co : Continuation(f, inputs).id = f.id /\ Continuation(f, inputs).to = To(f, inputs)
    BY DEF Continuation
  <2> QED BY <2>1, <2>2, <2>3, <2>4
<1>4. ASSUME NEW e \in Ab
      PROVE  LET x == Retirement(e)
             IN  /\ x.id \in IdsOf(Snapshot) /\ x.id \notin MovedIds(inventory, inputs)
                 /\ x.to = Nowhere
                 /\ \A f \in Ab : e # f => x.id # Retirement(f).id
                 /\ \A f \in Co : x.id # Continuation(f, inputs).id
  <2>1. Retirement(e).id = e.id /\ Retirement(e).to = Nowhere
    BY DEF Retirement
  <2>2. e \in Snapshot /\ e.id \in IdsOf(Snapshot) /\ e.id \notin MovedIds(inventory, inputs)
    BY <1>1, AbsentMeans, BaseIs
  <2>3. ASSUME NEW f \in Ab, e # f PROVE e.id # f.id
    <3>1. f \in Snapshot
      BY <1>1, AbsentMeans, BaseIs
    <3> QED BY <1>1, <2>2, <2>3, <3>1, BaseIs
  <2>4. ASSUME NEW f \in Co PROVE e.id # f.id
    <3>1. f \in Snapshot /\ e # f
      BY <1>1, AbsentMeans, ContinuedMeans, BaseIs
    <3> QED BY <1>1, <2>2, <3>1, BaseIs
  <2>5. /\ \A f \in Ab : Retirement(f).id = f.id
        /\ \A f \in Co : Continuation(f, inputs).id = f.id
    BY DEF Retirement, Continuation
  <2> QED BY <2>1, <2>2, <2>3, <2>4, <2>5
<1>5. ASSUME NEW i \in Dr
      PROVE  LET x == Draw(i, inventory, inputs)
             IN  /\ x.id \notin IdsOf(Snapshot) /\ x.to # Nowhere
                 /\ x.to \notin ChosenTo(inventory, inputs)
                 /\ \A y \in Ex : x.id # y.id
                 /\ \A f \in Co : x.to # Continuation(f, inputs).to
                 /\ \A j \in Dr : i # j => Apart(x, Draw(j, inventory, inputs))
  <2>1. /\ Draw(i, inventory, inputs).to \in Remaining(inventory, inputs)
        /\ Draw(i, inventory, inputs).to \in Declarations
    BY DrawMeans
  <2>2. /\ Draw(i, inventory, inputs).id \notin IdsOf(Snapshot)
        /\ \A y \in Ex : Draw(i, inventory, inputs).id # y.id
        /\ \A j \in Dr : i # j => Apart(Draw(i, inventory, inputs), Draw(j, inventory, inputs))
    BY DrawMeans
  <2>3. \A f \in Co : Continuation(f, inputs).to = To(f, inputs)
                      /\ f \in OfKind("carried", inventory, inputs)
    BY DEF Continuation, Continued
  <2> QED BY <2>1, <2>2, <2>3, RemainingMeans, NowhereAssumption
<1>6. /\ d \in Ex \/ (\E e \in Co : d = Continuation(e, inputs))
         \/ (\E e \in Ab : d = Retirement(e)) \/ (\E i \in Dr : d = Draw(i, inventory, inputs))
      /\ o \in Ex \/ (\E e \in Co : o = Continuation(e, inputs))
         \/ (\E e \in Ab : o = Retirement(e)) \/ (\E i \in Dr : o = Draw(i, inventory, inputs))
  BY DecisionIsOf
<1> HIDE DEF Ex, Co, Ab, Dr
<1>7. CASE d \in Ex
  BY <1>2, <1>3, <1>4, <1>5, <1>6, <1>7
<1>8. CASE \E e \in Co : d = Continuation(e, inputs)
  BY <1>2, <1>3, <1>4, <1>5, <1>6, <1>8
<1>9. CASE \E e \in Ab : d = Retirement(e)
  BY <1>2, <1>3, <1>4, <1>5, <1>6, <1>9
<1>10. CASE \E i \in Dr : d = Draw(i, inventory, inputs)
  BY <1>2, <1>3, <1>4, <1>5, <1>6, <1>10
<1> QED BY <1>6, <1>7, <1>8, <1>9, <1>10

LEMMA DecisionsFit ==
    ASSUME NEW inventory, NEW inputs, Forms(inventory, inputs),
           NEW d \in PlannedUpdate(inventory, inputs).decisions
    PROVE  /\ FitsBase(d, Snapshot, inventory)
           /\ TargetIsFree(d, Snapshot, PlannedUpdate(inventory, inputs), inventory)
<1> DEFINE update == PlannedUpdate(inventory, inputs)
<1>1. Facing(inventory, inputs) /\ WellTyped(inventory, inputs) /\ RegistryInv
      /\ Resolved(inventory, inputs)
  BY DEF Forms, Facing
<1>2. MovedIds(inventory, inputs) \subseteq Decided(update)
  BY PartsAreDecided
<1> HIDE DEF update
<1>3. CASE d \in Explicit(inventory, inputs)
  <2>1. \A h \in Holders(Snapshot, d.to) : h.id \in MovedIds(inventory, inputs)
    BY <1>1, <1>3, HoldersMakeRoom
  <2>2. FitsBase(d, Snapshot, inventory) /\ d.to \in inventory.declarations
    BY <1>1, <1>3, ExplicitMeans
  <2> QED BY <1>2, <2>1, <2>2 DEF TargetIsFree, update
<1>4. ASSUME NEW e \in Continued(inventory, inputs), d = Continuation(e, inputs)
      PROVE  FitsBase(d, Snapshot, inventory) /\ TargetIsFree(d, Snapshot, update, inventory)
  <2>1. d.kind = "continue" /\ d.id = e.id /\ d.from = e.declaration /\ d.to = To(e, inputs)
    BY <1>1, <1>4, ContinuationMeans
  <2>2. e \in Snapshot /\ e.state = "active"
    BY <1>1, ContinuedMeans DEF Active
  <2>3. To(e, inputs) \in inventory.declarations /\ Holders(Snapshot, To(e, inputs)) = {}
    BY <1>1, ContinuedMeans
  <2> QED BY <2>1, <2>2, <2>3 DEF FitsBase, TargetIsFree
<1>5. ASSUME NEW e \in Absent(inventory, inputs), d = Retirement(e)
      PROVE  FitsBase(d, Snapshot, inventory) /\ TargetIsFree(d, Snapshot, update, inventory)
  <2>1. d.kind = "retire" /\ d.id = e.id /\ d.from = e.declaration /\ d.to = Nowhere
    BY <1>1, <1>5, RetirementMeans
  <2>2. e \in Snapshot /\ e.state = "active" /\ inventory.complete
    BY AbsentMeans DEF Active
  <2> QED BY <2>1, <2>2 DEF FitsBase, TargetIsFree
<1>6. ASSUME NEW i \in 1..NewCount(inventory, inputs), d = Draw(i, inventory, inputs)
      PROVE  FitsBase(d, Snapshot, inventory) /\ TargetIsFree(d, Snapshot, update, inventory)
  <2>1. /\ d.kind = "allocate" /\ d.id \notin IdsOf(Snapshot)
        /\ d.to \in Remaining(inventory, inputs)
    BY <1>6, DrawMeans
  <2>2. /\ d.to \in inventory.declarations
        /\ \A h \in Holders(Snapshot, d.to) : h.id \in MovedIds(inventory, inputs)
    BY <2>1, RemainingMeans
  <2> QED BY <1>2, <2>1, <2>2 DEF FitsBase, TargetIsFree
<1> QED BY <1>3, <1>4, <1>5, <1>6, DecisionIsOf DEF update
(* An ID the plan leaves alone is neither moved, continued nor retired, and *)
(* it is not one of the new ones.                                           *)
LEMMA RetainedIsLeftAlone ==
    ASSUME NEW inventory, NEW inputs, Forms(inventory, inputs),
           NEW e \in Retained(inventory, inputs)
    PROVE  e.id \notin Decided(PlannedUpdate(inventory, inputs))
<1> DEFINE update == PlannedUpdate(inventory, inputs)
<1>1. Facing(inventory, inputs) /\ WellTyped(inventory, inputs) /\ RegistryInv
  BY DEF Forms, Facing
<1>2. /\ e \in Active(Snapshot) /\ e.id \notin MovedIds(inventory, inputs)
      /\ e.declaration \in inventory.declarations
  BY DEF Retained, Staying
<1>3. e \in Snapshot /\ e.id \in IdsOf(Snapshot)
  BY <1>1, <1>2, BaseIs
<1> SUFFICES ASSUME NEW d \in update.decisions, d.id = e.id PROVE FALSE
  BY DEF Decided
<1>4. CASE d \in Explicit(inventory, inputs)
  <2>1. d.kind = "allocate"
    BY <1>2, <1>4 DEF MovedIds
  <2>2. d.id \notin IdsOf(Snapshot)
    BY <1>1, <1>4, <2>1, ExplicitMeans DEF FitsBase
  <2> QED BY <1>3, <2>2
<1>5. ASSUME NEW f \in Snapshot, f.declaration \notin inventory.declarations, d.id = f.id
      PROVE  FALSE
  <2>1. f = e
    BY <1>1, <1>3, <1>5, BaseIs
  <2> QED BY <1>2, <1>5, <2>1
<1>6. ASSUME NEW f \in Continued(inventory, inputs), d = Continuation(f, inputs) PROVE FALSE
  <2>1. d.id = f.id /\ f.declaration \notin inventory.declarations /\ f \in Snapshot
    BY <1>1, <1>6, ContinuationMeans, ContinuedMeans, BaseIs
  <2> QED BY <1>5, <2>1
<1>7. ASSUME NEW f \in Absent(inventory, inputs), d = Retirement(f) PROVE FALSE
  <2>1. d.id = f.id /\ f.declaration \notin inventory.declarations /\ f \in Snapshot
    BY <1>1, <1>7, RetirementMeans, AbsentMeans, BaseIs
  <2> QED BY <1>5, <2>1
<1>8. ASSUME NEW i \in 1..NewCount(inventory, inputs), d = Draw(i, inventory, inputs)
      PROVE  FALSE
  BY <1>3, <1>8, DrawMeans
<1> QED BY <1>4, <1>6, <1>7, <1>8, DecisionIsOf

LEMMA CarriedAreContinued ==
    ASSUME NEW inventory, NEW inputs, Forms(inventory, inputs)
    PROVE  OfKind("carried", inventory, inputs) \subseteq Continued(inventory, inputs)
<1> SUFFICES ASSUME NEW e \in OfKind("carried", inventory, inputs)
             PROVE  e \in Continued(inventory, inputs)
  OBVIOUS
<1>1. /\ e \in Gone(inventory, inputs)
      /\ Account(e, inventory, inputs.edits).kind = "carried"
  BY DEF OfKind
<1>2. e \notin Absent(inventory, inputs)
  BY <1>1 DEF Absent, OfKind
<1>3. e \notin KeptEntries(inventory, inputs)
  BY <1>1 DEF KeptEntries, Stays
<1> QED BY <1>1, <1>2, <1>3 DEF Forms, Resolved

LEMMA PlanCovers ==
    ASSUME NEW inventory, NEW inputs, Forms(inventory, inputs)
    PROVE  Covers(Snapshot, PlannedUpdate(inventory, inputs), inventory)
<1> DEFINE update == PlannedUpdate(inventory, inputs)
<1>1. Facing(inventory, inputs) /\ WellTyped(inventory, inputs) /\ RegistryInv
      /\ Resolved(inventory, inputs)
  BY DEF Forms, Facing
<1>2. ASSUME NEW d \in update.decisions, d.to # Nowhere PROVE d.to \in Given(update)
  BY <1>2 DEF Given
<1>3. /\ Explicit(inventory, inputs) \subseteq update.decisions
      /\ \A e \in Continued(inventory, inputs) : Continuation(e, inputs) \in update.decisions
      /\ \A i \in 1..NewCount(inventory, inputs) :
            Draw(i, inventory, inputs) \in update.decisions
  BY FormedIs
<1> HIDE DEF update
<1> SUFFICES ASSUME NEW declaration \in inventory.declarations
             PROVE  \/ declaration \in Given(update)
                    \/ \E e \in Holders(Snapshot, declaration) : e.id \notin Decided(update)
  BY DEF Covers, update
<1>4. CASE declaration \in ChosenTo(inventory, inputs)
  <2>1. PICK d \in Explicit(inventory, inputs) : declaration = d.to
    BY <1>4 DEF ChosenTo
  <2>2. d.to # Nowhere
    BY <1>1, ExplicitMeans
  <2> QED BY <1>2, <1>3, <2>1, <2>2
<1>5. ASSUME NEW e \in Retained(inventory, inputs), declaration = e.declaration
      PROVE  \E h \in Holders(Snapshot, declaration) : h.id \notin Decided(update)
  <2>1. e \in Holders(Snapshot, declaration)
    BY <1>5 DEF Retained, Staying, Holders
  <2> QED BY <2>1, RetainedIsLeftAlone DEF update
<1>6. ASSUME NEW e \in OfKind("carried", inventory, inputs), declaration = To(e, inputs)
      PROVE  declaration \in Given(update)
  <2>1. e \in Continued(inventory, inputs)
    BY CarriedAreContinued
  <2>2. /\ Continuation(e, inputs).to = To(e, inputs)
        /\ Continuation(e, inputs).to # Nowhere
    BY <1>1, <2>1, ContinuationMeans
  <2> QED BY <1>2, <1>3, <1>6, <2>1, <2>2
<1>7. CASE declaration \in NewOnes(inventory, inputs)
  <2>1. PICK i \in 1..NewCount(inventory, inputs) :
             NewOrder(inventory, inputs)[i] = declaration
    BY <1>1, <1>7, NewOrderIsOneToOne
  <2>2. /\ Draw(i, inventory, inputs).to = declaration
        /\ Draw(i, inventory, inputs).to # Nowhere
    BY <2>1, DrawMeans, NowhereAssumption
  <2> QED BY <1>2, <1>3, <2>2
<1>8. \/ declaration \in ChosenTo(inventory, inputs)
      \/ \E e \in Retained(inventory, inputs) : declaration = e.declaration
      \/ \E e \in OfKind("carried", inventory, inputs) : declaration = To(e, inputs)
      \/ declaration \in NewOnes(inventory, inputs)
  BY <1>1 DEF Remaining, Resolved
<1> QED BY <1>4, <1>5, <1>6, <1>7, <1>8

LEMMA PlanIsValid ==
    ASSUME NEW inventory, NEW inputs, Forms(inventory, inputs), inputs.links = {}
    PROVE  ValidUpdate(PlannedUpdate(inventory, inputs))
<1> DEFINE update == PlannedUpdate(inventory, inputs)
<1>1. update.links = {}
  BY FormedIs
<1>2. Facing(inventory, inputs) /\ WellTyped(inventory, inputs)
  BY DEF Forms, Facing
<1>3. \A d \in update.decisions : d.basis # "unchanged-snapshot"
  BY <1>2, DecisionIsOf, ExplicitMeans, ContinuationMeans, RetirementMeans, DrawMeans
<1>4. ASSUME NEW d \in update.decisions, NEW o \in update.decisions, d # o
      PROVE  d.id # o.id /\ (d.to = Nowhere \/ d.to # o.to)
  BY <1>4, DecisionsApart
<1> QED BY <1>1, <1>3, <1>4 DEF ValidUpdate

LEMMA PlanPasses ==
    ASSUME NEW inventory, NEW inputs, Forms(inventory, inputs), inputs.links = {}
    PROVE  ChecksPass(Generation, Snapshot, PlannedUpdate(inventory, inputs), inventory)
<1> DEFINE update == PlannedUpdate(inventory, inputs)
<1>1. update.base = Generation /\ update.inventory = inventory /\ update.links = {}
  BY FormedIs
<1>2. Paired(inventory)
  BY DEF Forms, Facing, Admitted
<1>3. LinksResolve(Snapshot, update)
  BY <1>1 DEF LinksResolve
<1> QED BY <1>1, <1>2, <1>3, DecisionsFit, PlanCovers DEF ChecksPass

(* Without lineage links, the registry never refuses what the planner forms.*)
LEMMA PlanApplies ==
    ASSUME NEW inventory, NEW inputs, Forms(inventory, inputs), inputs.links = {}
    PROVE  /\ ValidUpdate(PlannedUpdate(inventory, inputs))
           /\ Apply(Generation, Snapshot, PlannedUpdate(inventory, inputs), inventory)
                 \in {"applied", "unchanged"}
<1>1. RegistryInv
  BY DEF Forms, Facing
<1>2. Snapshot \in SUBSET Entry /\ WellFormed(Snapshot)
  BY <1>1, BaseIs
<1>3. WellFormed(EntriesAfter(Snapshot, PlannedUpdate(inventory, inputs)))
  BY <1>2, PlannedUpdateTyped, PlanIsValid, PlanPasses, ChecksSuffice
<1> QED BY <1>3, PlanIsValid, PlanPasses DEF Apply
-----------------------------------------------------------------------------
(* What the outcome of a reconciliation rests on.                           *)

(* The decisions bring no edit that the host did not supply.                *)
LEMMA EvidenceIsSupplied ==
    ASSUME NEW inventory, NEW inputs, Forms(inventory, inputs)
    PROVE  Evidence(PlannedUpdate(inventory, inputs), inputs) = inputs.edits
<1>1. Facing(inventory, inputs) /\ WellTyped(inventory, inputs)
  BY DEF Forms, Facing
<1>2. ASSUME NEW d \in PlannedUpdate(inventory, inputs).decisions
      PROVE  d.changes \subseteq inputs.edits
  <2>1. CASE d \in Explicit(inventory, inputs)
    BY <1>1, <2>1, ExplicitMeans
  <2>2. ASSUME NEW e \in Continued(inventory, inputs), d = Continuation(e, inputs)
        PROVE  d.changes \subseteq inputs.edits
    <3>1. d.changes = {EditOf(e, inputs)}
      BY <1>1, <2>2, ContinuationMeans
    <3>2. EditOf(e, inputs) \in inputs.edits
      BY <1>1, ContinuedMeans, CarriedMeans
    <3> QED BY <3>1, <3>2
  <2>3. ASSUME NEW e \in Absent(inventory, inputs), d = Retirement(e)
        PROVE  d.changes \subseteq inputs.edits
    BY <1>1, <2>3, RetirementMeans
  <2>4. ASSUME NEW i \in 1..NewCount(inventory, inputs), d = Draw(i, inventory, inputs)
        PROVE  d.changes \subseteq inputs.edits
    BY <2>4, DrawMeans
  <2> QED BY <2>1, <2>2, <2>3, <2>4, DecisionIsOf
<1> QED BY <1>2 DEF Evidence

(* An outcome that gets past the inputs, the classification and the         *)
(* candidates is the plan of the update that was formed.                    *)
LEMMA OutcomeCases ==
    ASSUME NEW inventory, NEW inputs, RegistryInv, WellTyped(inventory, inputs)
    PROVE  \/ Outcome(inventory, inputs) = Failed("inputs")
           \/ Outcome(inventory, inputs) = Unresolved("classification")
           \/ Outcome(inventory, inputs) = Failed("candidates")
           \/ /\ Forms(inventory, inputs)
              /\ Outcome(inventory, inputs) = Plan(PlannedUpdate(inventory, inputs), inventory, inputs)
<1>1. Classify(inventory, inputs).resolved <=> Resolved(inventory, inputs)
  BY ClassifyIs
<1> QED BY <1>1, Zenon DEF Outcome, Forms, Facing, PlannedUpdate

LEMMA PlannedMeans ==
    ASSUME NEW inventory, NEW inputs, RegistryInv, WellTyped(inventory, inputs),
           Outcome(inventory, inputs).kind = "planned"
    PROVE  LET update == PlannedUpdate(inventory, inputs)
           IN  /\ Forms(inventory, inputs)
               /\ Outcome(inventory, inputs).update = update
               /\ Outcome(inventory, inputs).entries = EntriesAfter(Snapshot, update)
               /\ ChecksPass(Generation, Snapshot, update, inventory)
               /\ \A d \in update.decisions :
                     Verdict(d, update, inventory, inputs) # "unproven"
<1> DEFINE update == PlannedUpdate(inventory, inputs)
<1>1. /\ Forms(inventory, inputs)
      /\ Outcome(inventory, inputs) = Plan(update, inventory, inputs)
  BY OutcomeCases DEF Failed, Unresolved
<1>2. Plan(update, inventory, inputs).kind = "planned"
  BY <1>1
<1> HIDE DEF update
<1>3. /\ Plan(update, inventory, inputs) =
            [kind |-> "planned", update |-> update, entries |-> EntriesAfter(Snapshot, update)]
      /\ Apply(Generation, Snapshot, update, inventory) \notin {"refused", "malformed", "unchanged"}
      /\ ~\E d \in update.decisions : VerifyBases(update, inventory, inputs)[d] = "unproven"
  BY <1>2 DEF Plan, Failed, Unresolved
<1>4. ASSUME NEW d \in update.decisions
      PROVE  Verdict(d, update, inventory, inputs) # "unproven"
  BY <1>3 DEF VerifyBases
<1>5. ChecksPass(Generation, Snapshot, update, inventory)
  BY <1>3 DEF Apply
<1> QED BY <1>1, <1>3, <1>4, <1>5 DEF update

LEMMA UnresolvedBasesMeans ==
    ASSUME NEW inventory, NEW inputs, RegistryInv, WellTyped(inventory, inputs),
           Outcome(inventory, inputs) = Unresolved("bases")
    PROVE  LET update == PlannedUpdate(inventory, inputs)
           IN  /\ Forms(inventory, inputs)
               /\ \E d \in update.decisions :
                     \/ Verdict(d, update, inventory, inputs) = "unproven"
                     \/ \E o \in update.decisions :
                           o.kind # "retire" /\ Verdict(o, update, inventory, inputs) = "unproven"
<1> DEFINE update == PlannedUpdate(inventory, inputs)
<1>1. /\ Forms(inventory, inputs)
      /\ Outcome(inventory, inputs) = Plan(update, inventory, inputs)
  BY OutcomeCases DEF Failed, Unresolved
<1> HIDE DEF update
<1>2. Plan(update, inventory, inputs) = [kind |-> "unresolved", cause |-> "bases"]
  BY <1>1 DEF Unresolved
<1>3. \E d \in update.decisions : VerifyBases(update, inventory, inputs)[d] = "unproven"
  BY <1>2 DEF Plan, Failed, Unresolved
<1>4. PICK d \in update.decisions : VerifyBases(update, inventory, inputs)[d] = "unproven"
  BY <1>3
<1>5. \/ Verdict(d, update, inventory, inputs) = "unproven"
      \/ \E o \in update.decisions :
            o.kind # "retire" /\ Verdict(o, update, inventory, inputs) = "unproven"
  BY <1>4 DEF VerifyBases
<1> QED BY <1>1, <1>5 DEF update
-----------------------------------------------------------------------------
(* The properties, for one reconciliation.                                  *)

LEMMA RetirementIsOf ==
    ASSUME NEW inventory, NEW inputs, Forms(inventory, inputs),
           NEW d \in PlannedUpdate(inventory, inputs).decisions, d.kind = "retire"
    PROVE  \E e \in Absent(inventory, inputs) : d = Retirement(e)
<1>1. Facing(inventory, inputs) /\ WellTyped(inventory, inputs)
  BY DEF Forms, Facing
<1>2. d \notin Explicit(inventory, inputs)
  BY <1>1, ExplicitMeans
<1>3. ~\E e \in Continued(inventory, inputs) : d = Continuation(e, inputs)
  BY DEF Continuation
<1>4. ~\E i \in 1..NewCount(inventory, inputs) : d = Draw(i, inventory, inputs)
  BY DEF Draw, Allocation
<1> QED BY <1>2, <1>3, <1>4, DecisionIsOf

(* What is retired was shown to be gone.                                    *)
LEMMA PlanRetiresWhatIsGone ==
    ASSUME NEW inventory, NEW inputs, RegistryInv, WellTyped(inventory, inputs),
           Outcome(inventory, inputs).kind = "planned",
           NEW d \in Outcome(inventory, inputs).update.decisions, d.kind = "retire"
    PROVE  /\ inventory.complete
           /\ UnitsOf(inventory.units) = inputs.membership
           /\ \/ d.from.source.unit \notin inputs.membership
              \/ \E edit \in inputs.edits :
                    /\ edit.before = d.from.source /\ edit.replay = "ok"
                    /\ Kept(edit, d.from.range) = {}
<1> DEFINE update == PlannedUpdate(inventory, inputs)
<1>1. /\ Forms(inventory, inputs) /\ d \in update.decisions
      /\ Verdict(d, update, inventory, inputs) # "unproven"
  BY PlannedMeans
<1>2. PICK e \in Absent(inventory, inputs) : d = Retirement(e)
  BY <1>1, RetirementIsOf
<1>3. /\ inventory.complete /\ Automatic(inventory, inputs)
      /\ d.basis = "complete-absence" /\ d.from = e.declaration /\ e \in Active(Snapshot)
  BY <1>1, <1>2, AbsentMeans, RetirementMeans DEF Forms
<1>4. UnitsOf(inventory.units) = inputs.membership
  BY <1>3 DEF Automatic
<1>5. ShownAbsent(d, inventory, inputs, inputs.edits)
  <2>1. Evidence(update, inputs) = inputs.edits
    BY <1>1, EvidenceIsSupplied
  <2> HIDE DEF update
  <2> QED BY <1>1, <1>3, <2>1 DEF Verdict
<1>6. ASSUME NEW edit \in EditsFrom(inputs.edits, d.from.source), edit.replay = "ok",
             Fate(edit.replacements, d.from.range) = "replaced"
      PROVE  /\ edit \in inputs.edits /\ edit.before = d.from.source
             /\ Kept(edit, d.from.range) = {}
  <2>1. edit \in inputs.edits /\ edit.before = d.from.source
    BY DEF EditsFrom
  <2>2. edit.replacements \in Seq(Replacements)
    BY <2>1 DEF WellTyped, SourceEdit
  <2>3. IsRange(d.from.range)
    BY <1>3, BaseIs
  <2>4. \A byte \in Bytes(d.from.range) : ~Survives(edit.replacements, byte)
    BY <1>6, <2>2, <2>3, ReplacedLeavesNothing DEF Bytes
  <2> QED BY <2>1, <2>4 DEF Kept
<1> QED BY <1>3, <1>4, <1>5, <1>6 DEF ShownAbsent

(* An applied update leaves a registry that holds something.                *)
LEMMA RegistryHoldsSomething ==
    ASSUME RegistryInv, chain # <<>>
    PROVE  Snapshot # {}
<1> DEFINE i == Len(chain)
           step == chain[i]
           base == BaseOf(chain, i)
           update == step.update
<1>1. i \in 1..Len(chain)
  BY StepTyped DEF RegistryInv
<1>2. ValidUpdate(update) /\ Replays(chain, i) /\ Snapshot = step.entries
  BY <1>1 DEF RegistryInv, StepReplays, Snapshot
<1>3. /\ Apply(i - 1, base, update, update.inventory) = "applied"
      /\ Snapshot = EntriesAfter(base, update)
  BY <1>2 DEF Replays
<1> HIDE DEF i, step, base, update
<1>4. /\ update.decisions # {} \/ update.links # {}
      /\ LinksResolve(base, update)
  BY <1>3 DEF Apply, ChecksPass
<1>5. CASE update.decisions # {}
  BY <1>3, <1>5 DEF EntriesAfter
<1>6. CASE update.decisions = {}
  <2>1. PICK link \in update.links : ValidLink(update, link)
    BY <1>2, <1>4, <1>6 DEF ValidUpdate
  <2>2. link.predecessors # {}
    <3>1. \/ \E p \in Ids : link.predecessors = {p}
          \/ Cardinality(link.predecessors) = 1
          \/ Cardinality(link.predecessors) >= 2
      BY <2>1 DEF ValidLink
    <3>2. Cardinality({}) = 0
      BY FS_EmptySet
    <3>3. ~(0 >= 2)
      OBVIOUS
    <3> QED BY ONLY <3>1, <3>2, <3>3
  <2>3. PICK p \in link.predecessors : p \in IdsOf(base)
    BY <1>4, <2>1, <2>2 DEF LinksResolve
  <2>4. PICK e \in base : e.id = p
    BY <2>3 DEF IdsOf
  <2>5. e \in EntriesAfter(base, update)
    BY <1>6, <2>4 DEF EntriesAfter, Decided
  <2> QED BY <1>3, <2>5
<1> QED BY <1>5, <1>6
(* The length a valid edit is held to is a number, whether or not the edit  *)
(* has a text before it.                                                    *)
LEMMA EditsAreValid ==
    ASSUME NEW inventory, NEW inputs, Facing(inventory, inputs), NEW edit \in inputs.edits
    PROVE  /\ edit.replacements \in Seq(Replacements)
           /\ \E length \in Nat :
                 /\ edit.before # Nowhere => length = edit.before.length
                 /\ ValidReplacements(edit.replacements, length)
<1>1. edit \in SourceEdit /\ ValidEdit(edit)
  BY DEF Facing, WellTyped, Admitted
<1>2. (IF edit.before = Nowhere THEN 0 ELSE edit.before.length) \in Nat
  BY <1>1 DEF SourceEdit
<1> QED BY <1>1, <1>2 DEF SourceEdit, ValidEdit

(* A continuation keeps both ends of the text it names.                     *)
LEMMA PlanContinuesText ==
    ASSUME NEW inventory, NEW inputs, Forms(inventory, inputs),
           NEW d \in PlannedUpdate(inventory, inputs).decisions, d.basis = "verified-edit"
    PROVE  /\ d.from.source \notin inventory.units
           /\ \E edit \in inputs.edits :
                 LET first == d.from.range.from
                     last == d.from.range.to - 1
                 IN  /\ edit.replay = "ok"
                     /\ edit.before = d.from.source /\ edit.after = d.to.source
                     /\ first <= last =>
                           /\ {first, last} \subseteq Kept(edit, d.from.range)
                           /\ Landing(edit.replacements, first) = d.to.range.from
                           /\ Landing(edit.replacements, last) = d.to.range.to - 1
<1>1. Facing(inventory, inputs) /\ WellTyped(inventory, inputs) /\ RegistryInv
  BY DEF Forms, Facing
<1>2. PICK e \in Continued(inventory, inputs) : d = Continuation(e, inputs)
  <2>1. d \notin Explicit(inventory, inputs)
    BY <1>1, ExplicitMeans
  <2>2. ~\E e \in Absent(inventory, inputs) : d = Retirement(e)
    BY DEF Retirement
  <2>3. ~\E i \in 1..NewCount(inventory, inputs) : d = Draw(i, inventory, inputs)
    BY DEF Draw, Allocation
  <2> QED BY <2>1, <2>2, <2>3, DecisionIsOf
<1> DEFINE edit == EditOf(e, inputs)
           range == e.declaration.range
           to == Moved(edit.replacements, range)
<1>3. /\ e \in Active(Snapshot) /\ e \in OfKind("carried", inventory, inputs)
      /\ d.from = e.declaration /\ d.to = To(e, inputs)
  BY <1>1, <1>2, ContinuedMeans, ContinuationMeans
<1>4. /\ edit \in inputs.edits /\ edit.before = e.declaration.source
      /\ e.declaration.source \notin inventory.units
      /\ edit.replay = "ok" /\ Fate(edit.replacements, range) = "moved"
      /\ d.to = Target(edit, e.declaration)
  BY <1>1, <1>3, CarriedMeans DEF Carries
<1>5. d.to.source = edit.after /\ d.to.range = to
  BY <1>4 DEF Target
<1>6. IsRange(range)
  BY <1>1, <1>3, BaseIs
<1>7. /\ IsRange(to)
      /\ range.from < range.to =>
            /\ Survives(edit.replacements, range.from)
            /\ Survives(edit.replacements, range.to - 1)
            /\ Landing(edit.replacements, range.from) = to.from
            /\ Landing(edit.replacements, range.to - 1) = to.to - 1
  <2>1. PICK length \in Nat : ValidReplacements(edit.replacements, length)
    BY <1>1, <1>4, EditsAreValid
  <2>2. edit.replacements \in Seq(Replacements)
    BY <1>1, <1>4, EditsAreValid
  <2> HIDE DEF edit, range, to
  <2> QED BY <1>4, <1>6, <2>1, <2>2, MovedRangesFollowText DEF to
<1>8. ASSUME range.from <= range.to - 1
      PROVE  /\ {range.from, range.to - 1} \subseteq Kept(edit, range)
             /\ Landing(edit.replacements, range.from) = to.from
             /\ Landing(edit.replacements, range.to - 1) = to.to - 1
  <2> HIDE DEF edit, range, to
  <2>1. /\ range.from < range.to
        /\ range.from \in range.from..(range.to - 1)
        /\ range.to - 1 \in range.from..(range.to - 1)
    BY <1>6, <1>8 DEF IsRange
  <2> QED BY <1>7, <2>1 DEF Kept, Bytes
<1> QED
  <2> HIDE DEF edit, to
  <2>1. d.from.range = range /\ d.from.source = e.declaration.source
    BY <1>3
  <2> HIDE DEF range
  <2> QED BY <1>4, <1>5, <1>8, <2>1

(* A declaration the plan calls new has no byte of the text before.         *)
LEMMA PlanDrawsNewText ==
    ASSUME NEW inventory, NEW inputs, Forms(inventory, inputs), inputs.previous # {},
           NEW d \in PlannedUpdate(inventory, inputs).decisions, d.basis = "confirmed-new"
    PROVE  \E edit \in inputs.edits :
              /\ edit.replay = "ok" /\ edit.after = d.to.source
              /\ edit.before # Nowhere =>
                    \A b \in 0..(edit.before.length - 1) :
                        Survives(edit.replacements, b) =>
                            Landing(edit.replacements, b) \notin Bytes(d.to.range)
<1>1. Facing(inventory, inputs) /\ WellTyped(inventory, inputs) /\ RegistryInv
  BY DEF Forms, Facing
<1>2. PICK i \in 1..NewCount(inventory, inputs) : d = Draw(i, inventory, inputs)
  <2>1. d \notin Explicit(inventory, inputs)
    BY <1>1, ExplicitMeans
  <2>2. ~\E e \in Absent(inventory, inputs) : d = Retirement(e)
    BY DEF Retirement
  <2>3. ~\E e \in Continued(inventory, inputs) : d = Continuation(e, inputs)
    BY DEF Continuation
  <2> QED BY <2>1, <2>2, <2>3, DecisionIsOf
<1>3. d.to \in NewOnes(inventory, inputs) /\ d.to \in Declarations
  BY <1>2, DrawMeans
<1>4. Snapshot # {}
  <2>1. chain # <<>>
    BY <1>1 DEF Facing, Admitted, Previous
  <2> QED BY <1>1, <2>1, RegistryHoldsSomething
<1>5. ShownNew(d.to, inputs.edits)
  BY <1>3, <1>4, NewMeans
<1>6. PICK edit \in inputs.edits :
         /\ edit.replay = "ok" /\ edit.after = d.to.source
         /\ Inserted(edit.replacements, d.to.range)
  BY <1>5 DEF ShownNew
<1>7. IsRange(d.to.range)
  BY <1>3, DeclarationsAssumption DEF IsRange
<1>8. PICK length \in Nat :
         /\ edit.before # Nowhere => length = edit.before.length
         /\ ValidReplacements(edit.replacements, length)
  BY <1>1, EditsAreValid
<1>9. edit.replacements \in Seq(Replacements)
  BY <1>1, EditsAreValid
<1>10. ASSUME edit.before # Nowhere, NEW b \in 0..(edit.before.length - 1),
              Survives(edit.replacements, b)
       PROVE  Landing(edit.replacements, b) \notin Bytes(d.to.range)
  <2>1. b \in Nat
    BY <1>8, <1>10
  <2> QED BY <1>6, <1>7, <1>8, <1>9, <1>10, <2>1, InsertedTextIsNew DEF Bytes
<1> QED BY <1>6, <1>10
(* A plan covers its inventory, and over a partial one it touches nothing   *)
(* the inventory does not show.                                             *)
LEMMA PlanIsWhole ==
    ASSUME NEW inventory, NEW inputs, RegistryInv, WellTyped(inventory, inputs),
           Outcome(inventory, inputs).kind = "planned"
    PROVE  LET active == Active(Outcome(inventory, inputs).entries)
               held == {e.declaration : e \in active}
           IN  IF inventory.complete
               THEN held = inventory.declarations
               ELSE /\ inventory.declarations \subseteq held
                    /\ \A e \in active :
                          e.declaration \in inventory.declarations \/ e \in Snapshot
<1> DEFINE update == PlannedUpdate(inventory, inputs)
           entries == EntriesAfter(Snapshot, update)
           active == Active(entries)
           held == {e.declaration : e \in active}
<1>1. /\ Forms(inventory, inputs) /\ Outcome(inventory, inputs).entries = entries
      /\ ChecksPass(Generation, Snapshot, update, inventory)
  BY PlannedMeans
<1>2. Resolved(inventory, inputs) /\ RegistryInv
  BY <1>1 DEF Forms
<1>3. \A d \in update.decisions : d \in Decision
  BY <1>1, PlannedUpdateTyped DEF Update
<1>4. ASSUME NEW e \in active
      PROVE  \/ \E d \in update.decisions : d.to # Nowhere /\ e.declaration = d.to
             \/ e \in Active(Snapshot) /\ e.id \notin Decided(update)
  <2>1. e \in entries /\ e.state = "active"
    BY DEF Active
  <2> HIDE DEF update
  <2>2. CASE e \in Snapshot /\ e.id \notin Decided(update)
    BY <2>1, <2>2 DEF Active
  <2>3. ASSUME NEW d \in update.decisions, e = EntryAfter(d)
        PROVE  d.to # Nowhere /\ e.declaration = d.to
    <3>1. d.kind # "retire"
      BY <2>1, <2>3 DEF EntryAfter
    <3>2. d.to \in Declarations
      BY <1>3, <3>1, DecisionShape
    <3> QED BY <2>3, <3>1, <3>2, NowhereAssumption DEF EntryAfter
  <2> QED BY <2>1, <2>2, <2>3 DEF EntriesAfter
<1>5. \A d \in update.decisions : d.to # Nowhere => d.to \in inventory.declarations
  BY <1>1 DEF ChecksPass, TargetIsFree
<1>6. ASSUME NEW declaration \in inventory.declarations PROVE declaration \in held
  <2> HIDE DEF update
  <2>1. \/ declaration \in Given(update)
        \/ \E e \in Holders(Snapshot, declaration) : e.id \notin Decided(update)
    BY <1>1 DEF ChecksPass, Covers
  <2>2. ASSUME NEW d \in update.decisions, d.to # Nowhere, d.to = declaration
        PROVE  declaration \in held
    <3>1. d.kind # "retire"
      BY <1>3, <2>2, DecisionShape
    <3>2. EntryAfter(d) \in active /\ EntryAfter(d).declaration = declaration
      BY <2>2, <3>1 DEF EntryAfter, EntriesAfter, Active
    <3> QED BY <3>2
  <2>3. ASSUME NEW e \in Holders(Snapshot, declaration), e.id \notin Decided(update)
        PROVE  declaration \in held
    <3>1. e \in active /\ e.declaration = declaration
      BY <2>3 DEF Holders, Active, EntriesAfter
    <3> QED BY <3>1
  <2> QED BY <2>1, <2>2, <2>3 DEF Given
<1>7. ASSUME inventory.complete, NEW e \in active PROVE e.declaration \in inventory.declarations
  <2>1. CASE \E d \in update.decisions : d.to # Nowhere /\ e.declaration = d.to
    BY <1>5, <2>1
  <2>2. CASE e \in Active(Snapshot) /\ e.id \notin Decided(update)
    <3>1. e \in Staying(inventory, inputs)
      BY <2>2, PartsAreDecided DEF Staying
    <3>2. e \notin Continued(inventory, inputs) /\ e \notin Absent(inventory, inputs)
      BY <2>2, PartsAreDecided
    <3>3. e \notin KeptEntries(inventory, inputs)
      BY <1>7 DEF KeptEntries, Stays, Account
    <3>4. e \notin Gone(inventory, inputs)
      BY <1>2, <3>2, <3>3 DEF Resolved
    <3> QED BY <3>1, <3>4 DEF Gone, Retained
  <2> QED BY <1>4, <2>1, <2>2
<1>8. ASSUME NEW e \in active
      PROVE  e.declaration \in inventory.declarations \/ e \in Snapshot
  BY <1>4, <1>5 DEF Active
<1> HIDE DEF active
<1>9. inventory.complete => held = inventory.declarations
  BY <1>6, <1>7
<1>10. inventory.declarations \subseteq held
  BY <1>6
<1> QED BY <1>1, <1>8, <1>9, <1>10 DEF active

(* Every decision of a plan but a retirement is proven or explicit.         *)
LEMMA AllButRetirementsAreShown ==
    ASSUME NEW inventory, NEW inputs, Forms(inventory, inputs),
           NEW d \in PlannedUpdate(inventory, inputs).decisions, d.kind # "retire"
    PROVE  Verdict(d, PlannedUpdate(inventory, inputs), inventory, inputs) # "unproven"
<1> DEFINE update == PlannedUpdate(inventory, inputs)
<1>1. Facing(inventory, inputs) /\ WellTyped(inventory, inputs) /\ RegistryInv
  BY DEF Forms, Facing
<1>2. Evidence(update, inputs) = inputs.edits
  BY EvidenceIsSupplied
<1> HIDE DEF update
<1>3. CASE d \in Explicit(inventory, inputs)
  BY <1>1, <1>3, ExplicitMeans DEF Verdict
<1>4. ASSUME NEW e \in Continued(inventory, inputs), d = Continuation(e, inputs)
      PROVE  Verdict(d, update, inventory, inputs) # "unproven"
  <2> DEFINE edit == EditOf(e, inputs)
  <2>1. /\ d.basis = "verified-edit" /\ d.from = e.declaration /\ d.to = To(e, inputs)
        /\ d.changes = {edit} /\ d.id = e.id
    BY <1>1, <1>4, ContinuationMeans
  <2>2. /\ e \in OfKind("carried", inventory, inputs)
        /\ Claimants(d.to, inventory, inputs.edits) = {d.id}
    BY <1>1, <2>1, ContinuedMeans
  <2>3. /\ EditsFrom(inputs.edits, d.from.source) = {edit} /\ edit.before = d.from.source
        /\ d.from.source \notin inventory.units
        /\ Carries(edit, d.from) /\ d.to = Target(edit, d.from)
    BY <1>1, <2>1, <2>2, CarriedMeans
  <2>4. edit.after = d.to.source
    BY <2>3 DEF Target
  <2> HIDE DEF edit
  <2>5. ShownContinued(d, inventory, inputs.edits)
    BY <2>1, <2>2, <2>3, <2>4 DEF ShownContinued
  <2> QED BY <1>2, <2>1, <2>5 DEF Verdict
<1>5. ASSUME NEW i \in 1..NewCount(inventory, inputs), d = Draw(i, inventory, inputs)
      PROVE  Verdict(d, update, inventory, inputs) # "unproven"
  <2>1. d.basis = "confirmed-new" /\ d.to \in NewOnes(inventory, inputs)
    BY <1>5, DrawMeans
  <2>2. Automatic(inventory, inputs) /\ ShownAllocated(d, inventory, inputs.edits)
    BY <2>1, NewMeans DEF ShownAllocated
  <2> QED BY <1>2, <2>1, <2>2 DEF Verdict
<1>6. ~\E e \in Absent(inventory, inputs) : d = Retirement(e)
  BY DEF Retirement
<1> QED BY <1>3, <1>4, <1>5, <1>6, DecisionIsOf DEF update

(* Where planner and checker disagree, a removal is at fault.               *)
LEMMA DisagreementIsARemoval ==
    ASSUME NEW inventory, NEW inputs, RegistryInv, WellTyped(inventory, inputs),
           Outcome(inventory, inputs) = Unresolved("bases")
    PROVE  /\ inventory.complete
           /\ \E e \in Active(Snapshot) :
                 /\ e.declaration \notin inventory.declarations
                 /\ e.declaration.source.unit \notin inputs.membership
                 /\ \E edit \in EditsFrom(inputs.edits, e.declaration.source) :
                       /\ edit.after = Nowhere
                       /\ Fate(edit.replacements, e.declaration.range) # "replaced"
<1> DEFINE update == PlannedUpdate(inventory, inputs)
<1>1. Forms(inventory, inputs)
  BY UnresolvedBasesMeans
<1>2. Facing(inventory, inputs)
  BY <1>1 DEF Forms
<1>3. PICK d \in update.decisions :
         d.kind = "retire" /\ Verdict(d, update, inventory, inputs) = "unproven"
  BY <1>1, UnresolvedBasesMeans, AllButRetirementsAreShown
<1>4. PICK e \in Absent(inventory, inputs) : d = Retirement(e)
  BY <1>1, <1>3, RetirementIsOf
<1> DEFINE source == e.declaration.source
           from == EditsFrom(inputs.edits, source)
<1>5. /\ inventory.complete /\ Automatic(inventory, inputs)
      /\ e \in OfKind("gone", inventory, inputs) /\ ~IsRemoved(e, inputs)
      /\ e \in Active(Snapshot) /\ e.declaration \notin inventory.declarations
      /\ d.basis = "complete-absence" /\ d.from = e.declaration
  BY <1>2, <1>4, AbsentMeans, RetirementMeans
<1>6. ~ShownAbsent(d, inventory, inputs, inputs.edits)
  <2>1. Evidence(update, inputs) = inputs.edits
    BY <1>1, EvidenceIsSupplied
  <2> HIDE DEF update
  <2> QED BY <1>3, <1>5, <2>1 DEF Verdict
<1>7. Account(e, inventory, inputs.edits).kind = "gone"
  BY <1>5 DEF OfKind
<1>8. CASE from = {}
  <2>1. source \notin inventory.units
    BY <1>5, <1>7, <1>8 DEF Account
  <2>2. source.unit \notin inputs.membership
    BY <1>5, <1>8 DEF IsRemoved
  <2> QED BY <1>5, <1>6, <1>8, <2>1, <2>2 DEF ShownAbsent
<1>9. CASE from # {}
  <2> DEFINE edit == CHOOSE edit \in from : TRUE
             fate == Fate(edit.replacements, e.declaration.range)
  <2>1. /\ source \notin inventory.units /\ ~(Cardinality(from) > 1) /\ edit.replay = "ok"
        /\ edit.after = Nowhere \/ fate = "replaced"
    BY <1>5, <1>7, <1>9 DEF Account
  <2>2. from = {edit}
    <3>1. from \in SUBSET inputs.edits /\ IsFiniteSet(inputs.edits)
      BY DEF EditsFrom, WellTyped
    <3> QED BY <1>9, <2>1, <3>1, SoleMember
  <2>3. edit \in inputs.edits
    BY <2>2 DEF EditsFrom
  <2> HIDE DEF edit
  <2>4. edit.after # Nowhere => edit.after \in inventory.units
    BY <1>2, <2>3 DEF Facing, Admitted, EditSetFits
  <2>5. edit.after = Nowhere => source.unit \notin inputs.membership
    BY <1>5, <2>2 DEF IsRemoved
  <2>6. fate # "replaced"
    <3> SUFFICES ASSUME fate = "replaced" PROVE FALSE
      OBVIOUS
    <3>1. ShownAbsent(d, inventory, inputs, inputs.edits)
      BY <1>5, <2>1, <2>2, <2>4, <2>5 DEF ShownAbsent
    <3> QED BY <1>6, <3>1
  <2>7. edit.after = Nowhere /\ edit \in from
    BY <2>1, <2>2, <2>6
  <2> QED BY <1>5, <2>5, <2>6, <2>7
<1> QED BY <1>8, <1>9
-----------------------------------------------------------------------------
(* The properties, in every behaviour.                                      *)

(* An answer is about a base the registry has or had.                       *)
AnswerInv == Answered => answer.base \in 0..Len(chain)

Answer(inventory, inputs) ==
    [kind |-> "given", base |-> Generation, inventory |-> inventory, inputs |-> inputs,
     outcome |-> Outcome(inventory, inputs)]

(* A step reconciles, or it drops the answer, or it leaves the answer and   *)
(* may append to the chain.                                                 *)
LEMMA AnswerSteps ==
    ASSUME RegistryInv, [Next]_vars
    PROVE  /\ Len(chain) \in Nat /\ Len(chain') \in Nat
           /\ \/ \E inventory, inputs :
                    /\ WellTyped(inventory, inputs) /\ chain' = chain
                    /\ answer' = Answer(inventory, inputs)
              \/ answer' = NoAnswer
              \/ answer' = answer /\ (chain' = chain \/ Len(chain') = Len(chain) + 1)
<1>0. ChainTypeOK /\ Len(chain) \in Nat
  BY StepTyped DEF RegistryInv
<1>1. CASE Reconcile
  BY <1>0, <1>1 DEF Reconcile, Answer
<1>2. CASE Publish
  <2>1. PICK update, inventory : Accept(update, inventory)
    BY <1>2 DEF Publish
  <2> QED BY <1>0, <1>2, <2>1, AcceptAppends DEF Publish
<1>3. CASE HandUpdate
  <2>1. PICK update, inventory : Accept(update, inventory)
    BY <1>3 DEF HandUpdate
  <2>2. Len(chain') = Len(chain) + 1
    BY <1>0, <2>1, AcceptAppends
  <2> QED BY <1>0, <1>3, <2>2 DEF HandUpdate
<1>4. CASE Discard \/ UNCHANGED vars
  BY <1>0, <1>4 DEF Discard, vars
<1> QED BY <1>1, <1>2, <1>3, <1>4 DEF Next

LEMMA AnswerIs ==
    ASSUME NEW inventory, NEW inputs, answer' = Answer(inventory, inputs)
    PROVE  /\ answer'.kind = "given" /\ answer'.base = Generation
           /\ answer'.inventory = inventory /\ answer'.inputs = inputs
           /\ answer'.outcome = Outcome(inventory, inputs)
  BY DEF Answer

LEMMA AnswersAreCurrent == Spec => []AnswerInv
<1>1. Init => AnswerInv
  BY DEF Init, AnswerInv, Answered, NoAnswer
<1>2. RegistryInv /\ AnswerInv /\ [Next]_vars => AnswerInv'
  <2> SUFFICES ASSUME RegistryInv, AnswerInv, [Next]_vars, Answered'
               PROVE  answer'.base \in 0..Len(chain')
    BY DEF AnswerInv
  <2>1. ASSUME NEW inventory, NEW inputs, chain' = chain, answer' = Answer(inventory, inputs)
        PROVE  answer'.base \in 0..Len(chain')
    BY <2>1, AnswerIs, AnswerSteps DEF Generation
  <2>2. CASE answer' = NoAnswer
    BY <2>2 DEF Answered, NoAnswer
  <2>3. CASE answer' = answer /\ (chain' = chain \/ Len(chain') = Len(chain) + 1)
    BY <2>3, AnswerSteps DEF AnswerInv, Answered
  <2> QED BY <2>1, <2>2, <2>3, AnswerSteps
<1> QED BY <1>1, <1>2, InvHolds, PTL DEF Spec

(* Every chain, plan and result has its type: what reconcile plans is an    *)
(* update its host may publish as it is.                                    *)
THEOREM PlansAreTyped == Spec => []TypeOK
<1> DEFINE Typed ==
      Planned => answer.outcome.update \in Update /\ answer.outcome.entries \subseteq Entry
<1>1. Init => Typed
  BY DEF Init, Planned, NoAnswer
<1>2. RegistryInv /\ Typed /\ [Next]_vars => Typed'
  <2> SUFFICES ASSUME RegistryInv, Typed, [Next]_vars PROVE Typed'
    OBVIOUS
  <2>1. ASSUME NEW inventory, NEW inputs, WellTyped(inventory, inputs),
               answer' = Answer(inventory, inputs)
        PROVE  Typed'
    <3> SUFFICES ASSUME Planned'
                 PROVE  /\ answer'.outcome.update \in Update
                        /\ answer'.outcome.entries \subseteq Entry
      OBVIOUS
    <3>1. /\ Forms(inventory, inputs)
          /\ answer'.outcome.update = PlannedUpdate(inventory, inputs)
          /\ answer'.outcome.entries = EntriesAfter(Snapshot, PlannedUpdate(inventory, inputs))
      BY <2>1, AnswerIs, PlannedMeans DEF Planned
    <3>2. Snapshot \in SUBSET Entry
      BY BaseIs
    <3> QED BY <3>1, <3>2, PlannedUpdateTyped, EntriesAfterTyped
  <2>2. CASE answer' = NoAnswer
    BY <2>2 DEF Planned, NoAnswer
  <2>3. CASE answer' = answer
    BY <2>3 DEF Planned
  <2> QED BY <2>1, <2>2, <2>3, AnswerSteps
<1>3. RegistryInv /\ Typed => TypeOK
  BY DEF RegistryInv, TypeOK
<1> HIDE DEF Typed
<1> QED BY <1>1, <1>2, <1>3, InvHolds, PTL DEF Spec

(* The planner never forms an update its own registry refuses, unless the   *)
(* host's lineage links do not fit.                                         *)
THEOREM PlansAlwaysApply == Spec => []PlansApply
<1>1. Init => PlansApply
  BY DEF Init, PlansApply, Answered, NoAnswer
<1>2. RegistryInv /\ PlansApply /\ [Next]_vars => PlansApply'
  <2> SUFFICES ASSUME RegistryInv, PlansApply, [Next]_vars PROVE PlansApply'
    OBVIOUS
  <2>1. ASSUME NEW inventory, NEW inputs, WellTyped(inventory, inputs), inputs.links = {}
        PROVE  Outcome(inventory, inputs) \notin {Failed("update"), Failed("transition")}
    <3> DEFINE update == PlannedUpdate(inventory, inputs)
    <3>1. CASE /\ Forms(inventory, inputs)
               /\ Outcome(inventory, inputs) = Plan(update, inventory, inputs)
      <4>1. /\ ValidUpdate(update)
            /\ Apply(Generation, Snapshot, update, inventory) \in {"applied", "unchanged"}
        BY <2>1, <3>1, PlanApplies
      <4> HIDE DEF update
      <4>2. Plan(update, inventory, inputs).kind # "failed"
        BY <4>1 DEF Plan, Unresolved
      <4> QED BY <3>1, <4>2 DEF Failed
    <3> QED BY <2>1, <3>1, OutcomeCases DEF Failed, Unresolved
  <2>2. ASSUME NEW inventory, NEW inputs, WellTyped(inventory, inputs),
               answer' = Answer(inventory, inputs)
        PROVE  PlansApply'
    <3>1. answer'.inputs = inputs /\ answer'.outcome = Outcome(inventory, inputs)
      BY <2>2, AnswerIs
    <3>2. inputs.links = {} =>
            Outcome(inventory, inputs) \notin {Failed("update"), Failed("transition")}
      BY <2>1, <2>2
    <3> QED BY <3>1, <3>2 DEF PlansApply, Failed
  <2>3. CASE answer' = NoAnswer
    BY <2>3 DEF PlansApply, Answered, NoAnswer
  <2>4. CASE answer' = answer
    BY <2>4 DEF PlansApply, Answered, Failed
  <2> QED BY <2>2, <2>3, <2>4, AnswerSteps
<1> QED BY <1>1, <1>2, InvHolds, PTL DEF Spec
(* An ID follows the text it names, and what is called new is new.          *)
THEOREM PlannedIdsFollowText == Spec => []PlansFollowText
<1>1. Init => PlansFollowText
  BY DEF Init, PlansFollowText, Planned, NoAnswer
<1>2. RegistryInv /\ PlansFollowText /\ [Next]_vars => PlansFollowText'
  <2> SUFFICES ASSUME RegistryInv, PlansFollowText, [Next]_vars PROVE PlansFollowText'
    OBVIOUS
  <2>1. ASSUME NEW inventory, NEW inputs, WellTyped(inventory, inputs),
               answer' = Answer(inventory, inputs), Planned'
        PROVE  PlansFollowText'
    <3>1. /\ answer'.inventory = inventory /\ answer'.inputs = inputs
          /\ answer'.outcome = Outcome(inventory, inputs)
      BY <2>1, AnswerIs
    <3>2. /\ Forms(inventory, inputs)
          /\ answer'.outcome.update = PlannedUpdate(inventory, inputs)
      BY <2>1, <3>1, PlannedMeans DEF Planned
    <3>3. Decisions' = PlannedUpdate(inventory, inputs).decisions
      BY <2>1, <3>2 DEF Decisions
    <3> SUFFICES ASSUME NEW d \in PlannedUpdate(inventory, inputs).decisions
                 PROVE  /\ d.basis = "verified-edit" =>
                              /\ d.from.source \notin inventory.units
                              /\ \E edit \in inputs.edits :
                                    LET first == d.from.range.from
                                        last == d.from.range.to - 1
                                    IN  /\ edit.replay = "ok"
                                        /\ edit.before = d.from.source
                                        /\ edit.after = d.to.source
                                        /\ first <= last =>
                                              /\ {first, last} \subseteq Kept(edit, d.from.range)
                                              /\ Landing(edit.replacements, first)
                                                    = d.to.range.from
                                              /\ Landing(edit.replacements, last)
                                                    = d.to.range.to - 1
                        /\ d.basis = "confirmed-new" /\ inputs.previous # {} =>
                              \E edit \in inputs.edits :
                                  /\ edit.replay = "ok" /\ edit.after = d.to.source
                                  /\ edit.before # Nowhere =>
                                        \A b \in 0..(edit.before.length - 1) :
                                            Survives(edit.replacements, b) =>
                                                Landing(edit.replacements, b)
                                                    \notin Bytes(d.to.range)
      BY <3>1, <3>3, Zenon DEF PlansFollowText
    <3> QED BY <3>2, PlanContinuesText, PlanDrawsNewText
  <2>2. CASE ~Planned'
    BY <2>2 DEF PlansFollowText
  <2>3. CASE answer' = answer
    BY <2>3 DEF PlansFollowText, Planned, Decisions
  <2>4. answer' = NoAnswer => ~Planned'
    BY DEF NoAnswer, Planned
  <2> QED BY <2>1, <2>2, <2>3, <2>4, AnswerSteps
<1> QED BY <1>1, <1>2, InvHolds, PTL DEF Spec

(* An ID is retired only when its declaration was shown to be gone.         *)
THEOREM RetiredWereSeenToGo == Spec => []NothingRetiredUnseen
<1>1. Init => NothingRetiredUnseen
  BY DEF Init, NothingRetiredUnseen, Planned, NoAnswer
<1>2. RegistryInv /\ NothingRetiredUnseen /\ [Next]_vars => NothingRetiredUnseen'
  <2> SUFFICES ASSUME RegistryInv, NothingRetiredUnseen, [Next]_vars
               PROVE  NothingRetiredUnseen'
    OBVIOUS
  <2>1. ASSUME NEW inventory, NEW inputs, WellTyped(inventory, inputs),
               answer' = Answer(inventory, inputs), Planned'
        PROVE  NothingRetiredUnseen'
    <3>1. /\ answer'.inventory = inventory /\ answer'.inputs = inputs
          /\ answer'.outcome = Outcome(inventory, inputs)
      BY <2>1, AnswerIs
    <3>2. Outcome(inventory, inputs).kind = "planned"
      BY <2>1, <3>1 DEF Planned
    <3>3. Decisions' = Outcome(inventory, inputs).update.decisions
      BY <2>1, <3>1 DEF Decisions
    <3>4. ASSUME NEW d \in Outcome(inventory, inputs).update.decisions, d.kind = "retire"
          PROVE  /\ inventory.complete
                 /\ UnitsOf(inventory.units) = inputs.membership
                 /\ \/ d.from.source.unit \notin inputs.membership
                    \/ \E edit \in inputs.edits :
                          /\ edit.before = d.from.source /\ edit.replay = "ok"
                          /\ Kept(edit, d.from.range) = {}
      BY <2>1, <3>2, <3>4, PlanRetiresWhatIsGone
    <3> QED BY <3>1, <3>3, <3>4 DEF NothingRetiredUnseen
  <2>2. CASE ~Planned'
    BY <2>2 DEF NothingRetiredUnseen
  <2>3. CASE answer' = answer
    BY <2>3 DEF NothingRetiredUnseen, Planned, Decisions
  <2>4. answer' = NoAnswer => ~Planned'
    BY DEF NoAnswer, Planned
  <2> QED BY <2>1, <2>2, <2>3, <2>4, AnswerSteps
<1> QED BY <1>1, <1>2, InvHolds, PTL DEF Spec

(* A plan leaves no loose end.                                              *)
THEOREM PlansLeaveNoLooseEnd == Spec => []PlansAreWhole
<1>1. Init => PlansAreWhole
  BY DEF Init, PlansAreWhole, Planned, NoAnswer
<1>2. RegistryInv /\ AnswerInv /\ PlansAreWhole /\ [Next]_vars => PlansAreWhole'
  <2> SUFFICES ASSUME RegistryInv, AnswerInv, PlansAreWhole, [Next]_vars, Planned', IsCurrent'
               PROVE  PlansAreWhole'
    BY DEF PlansAreWhole
  <2>1. ASSUME NEW inventory, NEW inputs, WellTyped(inventory, inputs), chain' = chain,
               answer' = Answer(inventory, inputs)
        PROVE  PlansAreWhole'
    <3>1. /\ answer'.inventory = inventory /\ answer'.outcome = Outcome(inventory, inputs)
      BY <2>1, AnswerIs
    <3>2. Outcome(inventory, inputs).kind = "planned" /\ Snapshot' = Snapshot
      BY <2>1, <3>1 DEF Planned, Snapshot
    <3>3. LET active == Active(Outcome(inventory, inputs).entries)
              held == {e.declaration : e \in active}
          IN  IF inventory.complete
              THEN held = inventory.declarations
              ELSE /\ inventory.declarations \subseteq held
                   /\ \A e \in active :
                         e.declaration \in inventory.declarations \/ e \in Snapshot
      BY <2>1, <3>2, PlanIsWhole
    <3> QED BY <3>1, <3>2, <3>3 DEF PlansAreWhole, Active
  <2>2. CASE answer' = answer /\ chain' = chain
    BY <2>2 DEF PlansAreWhole, IsCurrent, Answered, Planned, Generation, Snapshot, Active
  <2>3. CASE answer' = answer /\ Len(chain') = Len(chain) + 1
    BY <2>3, AnswerSteps DEF AnswerInv, IsCurrent, Answered, Generation
  <2>4. answer' # NoAnswer
    BY DEF NoAnswer, Planned
  <2> QED BY <2>1, <2>2, <2>3, <2>4, AnswerSteps
<1> QED BY <1>1, <1>2, InvHolds, AnswersAreCurrent, PTL DEF Spec

(* The check of a plan's bases disagrees with the planner over nothing but  *)
(* a removal that is recorded as something else than one replacement.       *)
THEOREM PlannerIsProvenButForRemovals == Spec => []DisagreesOnlyOnRemovals
<1>1. Init => DisagreesOnlyOnRemovals
  BY DEF Init, DisagreesOnlyOnRemovals, IsCurrent, Answered, NoAnswer
<1>2. RegistryInv /\ AnswerInv /\ DisagreesOnlyOnRemovals /\ [Next]_vars
        => DisagreesOnlyOnRemovals'
  <2> SUFFICES ASSUME RegistryInv, AnswerInv, DisagreesOnlyOnRemovals, [Next]_vars,
                      IsCurrent', answer'.outcome = Unresolved("bases")
               PROVE  DisagreesOnlyOnRemovals'
    BY DEF DisagreesOnlyOnRemovals, Unresolved
  <2>1. ASSUME NEW inventory, NEW inputs, WellTyped(inventory, inputs), chain' = chain,
               answer' = Answer(inventory, inputs)
        PROVE  DisagreesOnlyOnRemovals'
    <3>1. /\ answer'.inventory = inventory /\ answer'.inputs = inputs
          /\ answer'.outcome = Outcome(inventory, inputs) /\ Snapshot' = Snapshot
      BY <2>1, AnswerIs DEF Snapshot
    <3>2. /\ inventory.complete
          /\ \E e \in Active(Snapshot) :
                /\ e.declaration \notin inventory.declarations
                /\ e.declaration.source.unit \notin inputs.membership
                /\ \E edit \in EditsFrom(inputs.edits, e.declaration.source) :
                      /\ edit.after = Nowhere
                      /\ Fate(edit.replacements, e.declaration.range) # "replaced"
      BY <2>1, <3>1, DisagreementIsARemoval
    <3> QED BY <3>1, <3>2 DEF DisagreesOnlyOnRemovals, Active, EditsFrom
  <2>2. CASE answer' = answer /\ chain' = chain
    BY <2>2 DEF DisagreesOnlyOnRemovals, IsCurrent, Answered, Unresolved, Generation, Snapshot,
                Active, EditsFrom
  <2>3. CASE answer' = answer /\ Len(chain') = Len(chain) + 1
    BY <2>3, AnswerSteps DEF AnswerInv, IsCurrent, Answered, Generation
  <2>4. answer' # NoAnswer
    BY DEF NoAnswer, IsCurrent, Answered
  <2> QED BY <2>1, <2>2, <2>3, <2>4, AnswerSteps
<1> QED BY <1>1, <1>2, InvHolds, AnswersAreCurrent, PTL DEF Spec
=============================================================================
