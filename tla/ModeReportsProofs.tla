------------------------- MODULE ModeReportsProofs -------------------------
(***************************************************************************)
(* Proofs about the two reports, for any number of plugins and runs: the   *)
(* groups are the classes of equal behaviour, and the report is the one    *)
(* that the results allow, whatever std::sort does with equals.            *)
(***************************************************************************)
EXTENDS ModeReports, FiniteSetTheorems, TLAPS

(* Every set of naturals that is not empty has a least element.             *)
LEMMA LeastNat ==
  ASSUME NEW T, T \subseteq Nat, T # {}
  PROVE  \E n \in T : \A m \in T : n <= m
<1>1. IsWellFoundedOn({p \in Nat \X Nat : p[1] < p[2]}, Nat)
  BY NatLessThanWellFounded DEF OpToRel
<1>2. PICK n \in T : \A m \in T : ~(<<m, n>> \in {p \in Nat \X Nat : p[1] < p[2]})
  BY <1>1, WFMin
<1>3. \A m \in T : ~(m < n)
  BY <1>2
<1>4. QED
  BY <1>3

(* Induction, for a set: what holds of none and of each one more.           *)
LEMMA Onward ==
  ASSUME NEW n \in Nat, NEW T, 0 \in T,
         \A k \in 0 .. n : k \in T /\ k < n => k + 1 \in T
  PROVE  \A k \in 0 .. n : k \in T
<1>. PICK outside : outside = {k \in 0 .. n : k \notin T}
  OBVIOUS
<1>1. SUFFICES ASSUME outside # {} PROVE FALSE
  OBVIOUS
<1>2. PICK k \in outside : \A m \in outside : k <= m
  <2>1. outside \subseteq Nat
    OBVIOUS
  <2>2. QED
    BY <1>1, <2>1, LeastNat
<1>3. k \in 0 .. n /\ k \notin T /\ k # 0
  OBVIOUS
<1>4. PICK m \in 0 .. n : m < n /\ m + 1 = k
  <2>1. k - 1 \in 0 .. n /\ k - 1 < n /\ k - 1 + 1 = k
    BY <1>3
  <2>2. QED
    BY <2>1
<1>5. m \notin outside
  BY <1>2, <1>3, <1>4
<1>6. m \in T
  BY <1>5
<1>7. QED
  BY <1>3, <1>4, <1>6

-----------------------------------------------------------------------------
LEMMA ElementsOfSequence ==
  ASSUME NEW S, NEW s \in Seq(S)
  PROVE  /\ Len(s) \in Nat /\ DOMAIN s = 1 .. Len(s) /\ s \in [1 .. Len(s) -> S]
         /\ \A i \in DOMAIN s : s[i] \in S
OBVIOUS

LEMMA SubsetSequences ==
  ASSUME NEW S, NEW T, S \subseteq T, NEW s \in Seq(S)
  PROVE  s \in Seq(T)
OBVIOUS

(* The totals are numbers.                                                  *)

Sums(w, values, n) == w = [i \in 0 .. n |-> IF i = 0 THEN 0 ELSE w[i - 1] + values[i]]

LEMMA SumsAt ==
  ASSUME NEW n \in Nat, NEW values, NEW w, Sums(w, values, n)
  PROVE  w[0] = 0 /\ \A i \in 1 .. n : w[i] = w[i - 1] + values[i]
<1>1. w = [i \in 0 .. n |-> IF i = 0 THEN 0 ELSE w[i - 1] + values[i]]
  BY DEF Sums
<1>. PICK f : f = [i \in 0 .. n |-> IF i = 0 THEN 0 ELSE w[i - 1] + values[i]]
  OBVIOUS
<1>2. f[0] = 0
  OBVIOUS
<1>3. ASSUME NEW i \in 1 .. n PROVE f[i] = w[i - 1] + values[i]
  <2>1. i \in 0 .. n /\ i # 0
    OBVIOUS
  <2>2. QED
    BY <2>1
<1>4. f = w
  BY <1>1
<1>5. QED
  BY ONLY <1>2, <1>3, <1>4

LEMMA SumsFrom ==
  ASSUME NEW n \in Nat, NEW values, NEW w, w = [i \in 0 .. n |-> w[i]],
         w[0] = 0, \A i \in 1 .. n : w[i] = w[i - 1] + values[i]
  PROVE  Sums(w, values, n)
<1>1. ASSUME NEW i \in 0 .. n
      PROVE  w[i] = IF i = 0 THEN 0 ELSE w[i - 1] + values[i]
  <2>1. i = 0 \/ i \in 1 .. n
    OBVIOUS
  <2>2. QED
    BY <2>1
<1>2. QED
  BY <1>1 DEF Sums

LEMMA SumsOneMore ==
  ASSUME NEW k \in Nat, NEW values, NEW v, Sums(v, values, k)
  PROVE  \E w : Sums(w, values, k + 1)
<1>. PICK more \in Nat : more = k + 1
  OBVIOUS
<1>. PICK last : last = v[k] + values[more]
  OBVIOUS
<1>. PICK w : w = [i \in 0 .. more |-> IF i = more THEN last ELSE v[i]]
  OBVIOUS
<1>1. w = [i \in 0 .. more |-> w[i]]
  OBVIOUS
<1>2. w[more] = last /\ \A i \in 0 .. k : w[i] = v[i]
  <2>1. more \in 0 .. more /\ \A i \in 0 .. k : i \in 0 .. more /\ i # more
    OBVIOUS
  <2>2. QED
    BY <2>1
<1>3. w[0] = 0
  <2>1. v[0] = 0
    BY SumsAt
  <2>2. 0 \in 0 .. k
    OBVIOUS
  <2>3. QED
    BY <1>2, <2>1, <2>2
<1>4. ASSUME NEW i \in 1 .. more
      PROVE  w[i] = w[i - 1] + values[i]
  <2>1. CASE i = more
    <3>1. i - 1 = k /\ w[k] = v[k]
      BY <1>2, <2>1
    <3>2. QED
      BY <1>2, <2>1, <3>1
  <2>2. CASE i # more
    <3>1. i \in 1 .. k /\ i \in 0 .. k /\ i - 1 \in 0 .. k
      BY <2>2
    <3>2. w[i] = v[i] /\ w[i - 1] = v[i - 1]
      BY <1>2, <3>1
    <3>3. v[i] = v[i - 1] + values[i]
      BY <3>1, SumsAt
    <3>4. QED
      BY <3>2, <3>3
  <2>3. QED
    BY <2>1, <2>2
<1>5. \A i \in 1 .. more : w[i] = w[i - 1] + values[i]
  BY <1>4
<1>6. Sums(w, values, more)
  BY ONLY more \in Nat, <1>1, <1>3, <1>5, SumsFrom
<1>7. QED
  BY <1>6

LEMMA SumsExist ==
  ASSUME NEW n \in Nat, NEW values
  PROVE  \E w : Sums(w, values, n)
<1>. DEFINE with == {k \in Nat : \E w : Sums(w, values, k)}
<1>1. 0 \in with
  <2>. PICK w : w = [k \in 0 .. 0 |-> 0]
    OBVIOUS
  <2>1. w = [k \in 0 .. 0 |-> w[k]] /\ w[0] = 0 /\ 1 .. 0 = {}
    OBVIOUS
  <2>2. Sums(w, values, 0)
    BY <2>1, SumsFrom
  <2>3. QED
    BY <2>2
<1>2. ASSUME NEW k \in 0 .. n, k \in with
      PROVE  k + 1 \in with
  <2>1. PICK v : Sums(v, values, k)
    BY <1>2
  <2>2. \E w : Sums(w, values, k + 1)
    BY <2>1, SumsOneMore
  <2>3. QED
    BY <2>2
<1>3. \A k \in 0 .. n : k \in with /\ k < n => k + 1 \in with
  BY <1>2
<1>. HIDE DEF with
<1>4. \A k \in 0 .. n : k \in with
  BY <1>1, <1>3, Onward
<1>5. QED
  BY <1>4 DEF with

LEMMA TotalIsANumber ==
  ASSUME NEW n \in Nat, NEW values, Len(values) = n, \A i \in 1 .. n : values[i] \in Int
  PROVE  Total(values) \in Int
<1>. DEFINE w == CHOOSE w : w = [i \in 0 .. Len(values) |->
                                  IF i = 0 THEN 0 ELSE w[i - 1] + values[i]]
<1>1. \E x : x = [i \in 0 .. Len(values) |-> IF i = 0 THEN 0 ELSE x[i - 1] + values[i]]
  BY SumsExist DEF Sums
<1>2. w = [i \in 0 .. Len(values) |-> IF i = 0 THEN 0 ELSE w[i - 1] + values[i]]
  BY <1>1
<1>3. Total(values) = w[Len(values)]
  BY DEF Total
<1>. HIDE DEF w
<1>4. Sums(w, values, n)
  BY <1>2 DEF Sums
<1>5. w[0] = 0 /\ \A i \in 1 .. n : w[i] = w[i - 1] + values[i]
  BY ONLY <1>4, n \in Nat, SumsAt
<1>. DEFINE whole == {k \in 0 .. n : w[k] \in Int}
<1>6. ASSUME NEW k \in 0 .. n, k \in whole, k < n PROVE k + 1 \in whole
  <2>1. k + 1 \in 1 .. n /\ (k + 1) - 1 = k
    BY <1>6
  <2>2. w[k + 1] = w[k] + values[k + 1]
    BY <1>5, <2>1
  <2>3. QED
    BY <1>6, <2>1, <2>2
<1>7. 0 \in whole
  BY <1>5
<1>8. \A k \in 0 .. n : k \in whole /\ k < n => k + 1 \in whole
  BY <1>6
<1>9. n \in whole
  <2>. HIDE DEF whole
  <2>1. \A k \in 0 .. n : k \in whole
    BY ONLY n \in Nat, <1>7, <1>8, Onward
  <2>2. QED
    BY ONLY n \in Nat, <2>1
<1>10. QED
  BY <1>3, <1>9

LEMMA TotalsAreNumbers ==
  ASSUME NEW runs \in Results
  PROVE  totalsOf(runs) \in [score : Int, steps : Int]
<1>. PICK n \in Nat : n = Len(runs) /\ DOMAIN runs = 1 .. n
  BY DEF Results
<1>1. \A i \in 1 .. n : runs[i] \in [score : Int, steps : Nat]
  BY ElementsOfSequence DEF Results
<1>2. PICK scores : scores = [i \in 1 .. n |-> runs[i].score]
  OBVIOUS
<1>3. PICK steps : steps = [i \in 1 .. n |-> runs[i].steps]
  OBVIOUS
<1>4. scores \in [1 .. n -> Int] /\ steps \in [1 .. n -> Int]
  BY <1>1, <1>2, <1>3
<1>5. Len(scores) = n /\ Len(steps) = n
  BY <1>2, <1>3
<1>6. Total(scores) \in Int /\ Total(steps) \in Int
  BY <1>4, <1>5, TotalIsANumber
<1>7. totalsOf(runs) = [score |-> Total(scores), steps |-> Total(steps)]
  BY <1>2, <1>3 DEF totalsOf
<1>8. QED
  BY ONLY <1>6, <1>7

(* A record of the manager has a score and steps and nothing else.          *)
LEMMA KeyIsTheRuns ==
  ASSUME NEW runs \in Results
  PROVE  behaviourKeyOf(runs) = runs
<1>. PICK n \in Nat : n = Len(runs) /\ DOMAIN runs = 1 .. n
  BY DEF Results
<1>1. runs \in [1 .. n -> [score : Int, steps : Nat]]
  BY ElementsOfSequence DEF Results
<1>2. \A i \in 1 .. n : [score |-> runs[i].score, steps |-> runs[i].steps] = runs[i]
  BY <1>1
<1>3. QED
  BY <1>1, <1>2 DEF behaviourKeyOf

-----------------------------------------------------------------------------
(* A list in the order of its elements is the list of them in order.        *)

EachOnce(t, n) == \A i, j \in 1 .. n : t[i] = t[j] => i = j

AllOf(t, n, S) == \A x \in S : \E i \in 1 .. n : t[i] = x

TheFirst(t, m) == {t[k] : k \in 1 .. m}

(* The elements come as the pairs in R have them. *)
Follows(t, n, R) ==
  /\ \A i \in 1 .. n : <<t[i], t[i]>> \notin R
  /\ \A i, j \in 1 .. n : i < j => <<t[i], t[j]>> \in R /\ <<t[j], t[i]>> \notin R

IsRank(t, n, S, R) ==
  \A i \in 1 .. n : \A x \in S : Cardinality({y \in S : <<y, x>> \in R}) = i - 1 <=> x = t[i]

LEMMA ImageOfTheFirst ==
  ASSUME NEW n \in Nat, NEW S, NEW t \in [1 .. n -> S], EachOnce(t, n), NEW m \in 0 .. n
  PROVE  Cardinality(TheFirst(t, m)) = m
<1>. PICK T : T = TheFirst(t, m)
  OBVIOUS
<1>. PICK f : f = [k \in 1 .. m |-> t[k]]
  OBVIOUS
<1>1. \A k \in 1 .. m : k \in 1 .. n
  OBVIOUS
<1>2. f \in [1 .. m -> T] /\ \A x \in T : \E k \in 1 .. m : f[k] = x
  BY DEF TheFirst
<1>3. \A i, j \in 1 .. m : f[i] = f[j] => i = j
  BY <1>1 DEF EachOnce
<1>4. f \in Surjection(1 .. m, T) /\ f \in Injection(1 .. m, T)
  BY <1>2, <1>3 DEF Surjection, Injection, IsInjective
<1>5. IsFiniteSet(1 .. m) /\ Cardinality(1 .. m) = m
  <2>1. m \in Int /\ 1 \in Int
    OBVIOUS
  <2>2. IsFiniteSet(1 .. m) /\ Cardinality(1 .. m) = IF 1 > m THEN 0 ELSE m - 1 + 1
    BY ONLY <2>1, FS_Interval
  <2>3. QED
    BY <2>2
<1>6. IsFiniteSet(T) /\ Cardinality(T) = Cardinality(1 .. m)
  BY ONLY <1>4, <1>5, FS_Surjection
<1>7. QED
  BY <1>5, <1>6

(* before is the set R of pairs: the i-th element has i - 1 before it.      *)
LEMMA Ranks ==
  ASSUME NEW n \in Nat, NEW S, NEW t \in [1 .. n -> S], AllOf(t, n, S),
         NEW R, Follows(t, n, R)
  PROVE  Cardinality(S) = n /\ IsRank(t, n, S, R)
<1>1. ASSUME NEW i \in 1 .. n, NEW j \in 1 .. n, t[i] = t[j] PROVE i = j
  <2>1. ~(i < j) /\ ~(j < i)
    BY <1>1 DEF Follows
  <2>2. QED
    BY <2>1
<1>2. EachOnce(t, n)
  BY <1>1 DEF EachOnce
<1>3. S = TheFirst(t, n)
  BY DEF AllOf, TheFirst
<1>4. Cardinality(S) = n
  <2>1. n \in 0 .. n
    OBVIOUS
  <2>2. Cardinality(TheFirst(t, n)) = n
    BY <1>2, <2>1, ImageOfTheFirst
  <2>3. QED
    BY ONLY <1>3, <2>2
<1>5. ASSUME NEW j \in 1 .. n
      PROVE  Cardinality({y \in S : <<y, t[j]>> \in R}) = j - 1
  <2>1. ASSUME NEW k \in 1 .. n PROVE <<t[k], t[j]>> \in R <=> k < j
    <3>1. k < j \/ k = j \/ j < k
      OBVIOUS
    <3>2. QED
      BY <3>1 DEF Follows
  <2>2. PICK m \in 0 .. n : m = j - 1
    OBVIOUS
  <2>3. \A k \in 1 .. n : k < j <=> k \in 1 .. m
    BY <2>2
  <2>4. \A k \in 1 .. m : k \in 1 .. n
    OBVIOUS
  <2>5. {y \in S : <<y, t[j]>> \in R} = TheFirst(t, m)
    <3>1. ASSUME NEW y \in S, <<y, t[j]>> \in R PROVE y \in TheFirst(t, m)
      <4>1. PICK k \in 1 .. n : t[k] = y
        BY DEF AllOf
      <4>2. k \in 1 .. m
        BY <2>1, <2>3, <3>1, <4>1
      <4>3. QED
        BY <4>1, <4>2 DEF TheFirst
    <3>2. ASSUME NEW k \in 1 .. m PROVE t[k] \in S /\ <<t[k], t[j]>> \in R
      BY <2>1, <2>3, <2>4
    <3>3. QED
      BY ONLY <3>1, <3>2 DEF TheFirst
  <2>6. Cardinality(TheFirst(t, m)) = m
    BY <1>2, ImageOfTheFirst
  <2>7. QED
    BY ONLY <2>2, <2>5, <2>6
<1>6. ASSUME NEW i \in 1 .. n, NEW x \in S
      PROVE  Cardinality({y \in S : <<y, x>> \in R}) = i - 1 <=> x = t[i]
  <2>1. PICK j \in 1 .. n : x = t[j]
    BY DEF AllOf
  <2>2. Cardinality({y \in S : <<y, x>> \in R}) = j - 1
    BY <1>5, <2>1
  <2>3. j - 1 = i - 1 <=> j = i
    OBVIOUS
  <2>4. x = t[i] <=> j = i
    BY <1>1, <2>1
  <2>5. QED
    BY ONLY <2>2, <2>3, <2>4
<1>7. QED
  BY <1>4, <1>6 DEF IsRank

Ascends(t, n) == \A i, j \in 1 .. n : i < j => t[i] < t[j]

LEMMA AscendingIs ==
  ASSUME NEW n \in Nat, NEW S, S \subseteq Nat, NEW t \in [1 .. n -> S],
         AllOf(t, n, S), Ascends(t, n)
  PROVE  Ascending(S) = t
<1>. PICK R : R = {p \in S \X S : p[1] < p[2]}
  OBVIOUS
<1>1. \A x, y \in S : <<y, x>> \in R <=> y < x
  OBVIOUS
<1>2. \A i \in 1 .. n : t[i] \in S /\ t[i] \in Nat
  OBVIOUS
<1>3. \A i \in 1 .. n : <<t[i], t[i]>> \notin R
  BY <1>1, <1>2
<1>4. \A i, j \in 1 .. n : i < j => <<t[i], t[j]>> \in R /\ <<t[j], t[i]>> \notin R
  BY <1>1, <1>2 DEF Ascends
<1>. Follows(t, n, R)
  BY <1>3, <1>4 DEF Follows
<1>5. Cardinality(S) = n /\ IsRank(t, n, S, R)
  BY Ranks
<1>6. \A x \in S : {y \in S : <<y, x>> \in R} = {y \in S : y < x}
  BY <1>1
<1>7. ASSUME NEW i \in 1 .. n
      PROVE  (CHOOSE x \in S : Cardinality({y \in S : y < x}) = i - 1) = t[i]
  <2>1. \A x \in S : Cardinality({y \in S : y < x}) = i - 1 <=> x = t[i]
    BY ONLY <1>5, <1>6, <1>7 DEF IsRank
  <2>2. t[i] \in S
    BY <1>2
  <2>3. QED
    BY ONLY <2>1, <2>2
<1>8. Ascending(S) = [i \in 1 .. n |-> CHOOSE x \in S : Cardinality({y \in S : y < x}) = i - 1]
  BY <1>5 DEF Ascending, Listed
<1>9. QED
  BY <1>7, <1>8

AreBetter(t, n) ==
  /\ \A i \in 1 .. n : ~Better(t[i], t[i])
  /\ \A i, j \in 1 .. n : i < j => Better(t[i], t[j]) /\ ~Better(t[j], t[i])

LEMMA BetterListIs ==
  ASSUME NEW n \in Nat, NEW S, NEW t \in [1 .. n -> S],
         AllOf(t, n, S), AreBetter(t, n)
  PROVE  Listed(S, Better) = t
<1>. PICK R : R = {p \in S \X S : Better(p[1], p[2])}
  OBVIOUS
<1>1. \A x, y \in S : <<y, x>> \in R <=> Better(y, x)
  OBVIOUS
<1>2. \A i \in 1 .. n : t[i] \in S
  OBVIOUS
<1>3. \A i \in 1 .. n : <<t[i], t[i]>> \notin R
  BY <1>1, <1>2 DEF AreBetter
<1>4. \A i, j \in 1 .. n : i < j => <<t[i], t[j]>> \in R /\ <<t[j], t[i]>> \notin R
  BY <1>1, <1>2 DEF AreBetter
<1>. Follows(t, n, R)
  BY <1>3, <1>4 DEF Follows
<1>5. Cardinality(S) = n /\ IsRank(t, n, S, R)
  BY Ranks
<1>6. \A x \in S : {y \in S : <<y, x>> \in R} = {y \in S : Better(y, x)}
  BY <1>1
<1>7. ASSUME NEW i \in 1 .. n
      PROVE  (CHOOSE x \in S : Cardinality({y \in S : Better(y, x)}) = i - 1) = t[i]
  <2>1. \A x \in S : Cardinality({y \in S : Better(y, x)}) = i - 1 <=> x = t[i]
    BY ONLY <1>5, <1>6, <1>7 DEF IsRank
  <2>2. t[i] \in S
    BY <1>2
  <2>3. QED
    BY ONLY <2>1, <2>2
<1>8. Listed(S, Better)
        = [i \in 1 .. n |-> CHOOSE x \in S : Cardinality({y \in S : Better(y, x)}) = i - 1]
  BY <1>5 DEF Listed
<1>9. QED
  BY <1>7, <1>8

AreBigger(t, n) ==
  /\ \A i \in 1 .. n : ~Bigger(t[i], t[i])
  /\ \A i, j \in 1 .. n : i < j => Bigger(t[i], t[j]) /\ ~Bigger(t[j], t[i])

LEMMA BiggerListIs ==
  ASSUME NEW n \in Nat, NEW S, NEW t \in [1 .. n -> S],
         AllOf(t, n, S), AreBigger(t, n)
  PROVE  Listed(S, Bigger) = t
<1>. PICK R : R = {p \in S \X S : Bigger(p[1], p[2])}
  OBVIOUS
<1>1. \A x, y \in S : <<y, x>> \in R <=> Bigger(y, x)
  OBVIOUS
<1>2. \A i \in 1 .. n : t[i] \in S
  OBVIOUS
<1>3. \A i \in 1 .. n : <<t[i], t[i]>> \notin R
  BY <1>1, <1>2 DEF AreBigger
<1>4. \A i, j \in 1 .. n : i < j => <<t[i], t[j]>> \in R /\ <<t[j], t[i]>> \notin R
  BY <1>1, <1>2 DEF AreBigger
<1>. Follows(t, n, R)
  BY <1>3, <1>4 DEF Follows
<1>5. Cardinality(S) = n /\ IsRank(t, n, S, R)
  BY Ranks
<1>6. \A x \in S : {y \in S : <<y, x>> \in R} = {y \in S : Bigger(y, x)}
  BY <1>1
<1>7. ASSUME NEW i \in 1 .. n
      PROVE  (CHOOSE x \in S : Cardinality({y \in S : Bigger(y, x)}) = i - 1) = t[i]
  <2>1. \A x \in S : Cardinality({y \in S : Bigger(y, x)}) = i - 1 <=> x = t[i]
    BY ONLY <1>5, <1>6, <1>7 DEF IsRank
  <2>2. t[i] \in S
    BY <1>2
  <2>3. QED
    BY ONLY <2>1, <2>2
<1>8. Listed(S, Bigger)
        = [i \in 1 .. n |-> CHOOSE x \in S : Cardinality({y \in S : Bigger(y, x)}) = i - 1]
  BY <1>5 DEF Listed
<1>9. QED
  BY <1>7, <1>8

-----------------------------------------------------------------------------
(* What std::sort makes of a list.                                          *)

(* s has every element of S once. *)
Lists(s, S) ==
  /\ s \in Seq(S)
  /\ AllOf(s, Len(s), S)
  /\ EachOnce(s, Len(s))

LEMMA ListsNothing == Lists(<< >>, {})
<1>1. << >> \in Seq({}) /\ Len(<< >>) = 0 /\ 1 .. 0 = {}
  OBVIOUS
<1>2. QED
  BY <1>1 DEF Lists, AllOf, EachOnce

LEMMA ListsOneMore ==
  ASSUME NEW S, NEW s, Lists(s, S), NEW x, x \notin S
  PROVE  Lists(Append(s, x), S \cup {x})
<1>. PICK T : T = S \cup {x}
  OBVIOUS
<1>. PICK n \in Nat : n = Len(s)
  BY DEF Lists
<1>. PICK t : t = Append(s, x)
  OBVIOUS
<1>1. s \in Seq(S) /\ s \in Seq(T) /\ x \in T
  BY DEF Lists
<1>2. t \in Seq(T) /\ Len(t) = n + 1 /\ t[n + 1] = x /\ \A i \in 1 .. n : t[i] = s[i]
  BY ONLY <1>1, n \in Nat, n = Len(s), t = Append(s, x)
<1>3. \A i \in 1 .. n : s[i] \in S
  BY <1>1
<1>4. \A i \in 1 .. n + 1 : i \in 1 .. n \/ i = n + 1
  OBVIOUS
<1>5. n + 1 \in 1 .. n + 1 /\ \A i \in 1 .. n : i \in 1 .. n + 1
  OBVIOUS
<1>6. ASSUME NEW y \in T PROVE \E i \in 1 .. n + 1 : t[i] = y
  <2>1. CASE y = x
    BY <1>2, <1>5, <2>1
  <2>2. CASE y \in S
    <3>1. PICK i \in 1 .. n : s[i] = y
      BY <2>2 DEF Lists, AllOf
    <3>2. QED
      BY <1>2, <1>5, <3>1
  <2>3. QED
    BY <2>1, <2>2
<1>7. ASSUME NEW i \in 1 .. n + 1, NEW j \in 1 .. n + 1, t[i] = t[j] PROVE i = j
  <2>1. CASE i \in 1 .. n /\ j \in 1 .. n
    BY <1>2, <1>7, <2>1 DEF Lists, EachOnce
  <2>2. CASE i = n + 1 /\ j = n + 1
    BY <2>2
  <2>3. CASE i \in 1 .. n /\ j = n + 1
    BY <1>2, <1>3, <1>7, <2>3
  <2>4. CASE j \in 1 .. n /\ i = n + 1
    BY <1>2, <1>3, <1>7, <2>4
  <2>5. QED
    BY <1>4, <2>1, <2>2, <2>3, <2>4
<1>8. Lists(t, T)
  BY <1>2, <1>6, <1>7 DEF Lists, AllOf, EachOnce
<1>9. QED
  BY <1>8

LEMMA ListsArranged ==
  ASSUME NEW S, NEW s, Lists(s, S), NEW t \in Arrangements(s)
  PROVE  Lists(t, S) /\ Len(t) = Len(s)
<1>. PICK n \in Nat : n = Len(s)
  BY DEF Lists
<1>1. s \in Seq(S) /\ DOMAIN s = 1 .. n /\ \A i \in 1 .. n : s[i] \in S
  BY ElementsOfSequence DEF Lists
<1>2. PICK p \in [1 .. n -> 1 .. n] : /\ \A i, j \in 1 .. n : p[i] = p[j] => i = j
                                      /\ t = [i \in 1 .. n |-> s[p[i]]]
  <2>1. DOMAIN s = 1 .. n
    BY <1>1
  <2>2. t \in {[i \in DOMAIN s |-> s[p[i]]] : p \in {q \in [DOMAIN s -> DOMAIN s] :
                                           \A i, j \in DOMAIN s : q[i] = q[j] => i = j}}
    BY ONLY t \in Arrangements(s) DEF Arrangements
  <2>3. QED
    BY ONLY <2>1, <2>2
<1>3. p \in Injection(1 .. n, 1 .. n)
  BY <1>2 DEF Injection, IsInjective
<1>4. p \in Surjection(1 .. n, 1 .. n)
  <2>1. IsFiniteSet(1 .. n)
    BY FS_Interval
  <2>2. QED
    BY ONLY <1>3, <2>1, FS_Injection
<1>5. \A j \in 1 .. n : \E i \in 1 .. n : p[i] = j
  BY <1>4 DEF Surjection
<1>6. \A i \in 1 .. n : p[i] \in 1 .. n /\ t[i] = s[p[i]] /\ t[i] \in S
  BY <1>1, <1>2
<1>7. t \in Seq(S) /\ Len(t) = n
  BY <1>2, <1>6
<1>8. AllOf(t, n, S)
  <2>1. ASSUME NEW x \in S PROVE \E i \in 1 .. n : t[i] = x
    <3>1. PICK j \in 1 .. n : s[j] = x
      BY DEF Lists, AllOf
    <3>2. PICK i \in 1 .. n : p[i] = j
      BY <1>5
    <3>3. QED
      BY <1>6, <3>1, <3>2
  <2>2. QED
    BY <2>1 DEF AllOf
<1>9. EachOnce(t, n)
  <2>1. ASSUME NEW i \in 1 .. n, NEW j \in 1 .. n, t[i] = t[j] PROVE i = j
    <3>1. s[p[i]] = s[p[j]] /\ p[i] \in 1 .. n /\ p[j] \in 1 .. n
      BY <1>6, <2>1
    <3>2. p[i] = p[j]
      BY <3>1 DEF Lists, EachOnce
    <3>3. QED
      BY <1>2, <3>2
  <2>2. QED
    BY <2>1 DEF EachOnce
<1>10. QED
  BY <1>7, <1>8, <1>9 DEF Lists

(* Names have one order only. *)
LEMMA NamesSorted ==
  ASSUME NEW S, S \subseteq Nat, NEW s, Lists(s, S), NEW t \in Arrangements(s),
         \A i, j \in DOMAIN t : i < j => ~(t[j] < t[i])
  PROVE  Lists(t, S) /\ Len(t) = Len(s) /\ t = Ascending(S)
<1>1. \A i, j \in DOMAIN t : i < j => ~(t[j] < t[i])
  OBVIOUS
<1>2. Lists(t, S) /\ Len(t) = Len(s)
  BY ListsArranged
<1>. PICK n \in Nat : n = Len(t)
  BY <1>2 DEF Lists
<1>3. t \in [1 .. n -> S] /\ DOMAIN t = 1 .. n /\ \A i \in 1 .. n : t[i] \in S
  BY <1>2, ElementsOfSequence DEF Lists
<1>4. AllOf(t, n, S) /\ EachOnce(t, n)
  BY <1>2 DEF Lists
<1>5. ASSUME NEW i \in 1 .. n, NEW j \in 1 .. n, i < j PROVE t[i] < t[j]
  <2>1. t[i] \in Nat /\ t[j] \in Nat
    BY <1>3
  <2>2. t[i] # t[j]
    BY <1>4, <1>5 DEF EachOnce
  <2>3. ~(t[j] < t[i])
    BY <1>1, <1>3, <1>5
  <2>4. QED
    BY ONLY <2>1, <2>2, <2>3
<1>6. Ascends(t, n)
  BY ONLY <1>5 DEF Ascends
<1>7. Ascending(S) = t
  BY ONLY <1>3, <1>4, <1>6, n \in Nat, S \subseteq Nat, AscendingIs
<1>8. QED
  BY <1>2, <1>7

-----------------------------------------------------------------------------
(* partitionOutcomes.                                                       *)

Plugins == [name : Nat, runs : Results]

LEMMA InputIs ==
  ASSUME input \in Inputs
  PROVE  /\ input.mode \in {"comparative", "competition"}
         /\ input.outcomes \in Seq(Plugins)
         /\ input.failed_to_load \in Seq(Nat)
         /\ NamesDiffer(input.outcomes, input.failed_to_load)
BY InputsAssumption DEF Plugins

Seen(k) == {input.outcomes[i] : i \in 1 .. k}
UsableIn(k) == {o \in Seen(k) : ~producedNothingUsable(o.runs)}
NamesFailed(k) == {o.name : o \in {p \in Seen(k) : producedNothingUsable(p.runs)}}

LEMMA OneMoreSeen ==
  ASSUME input \in Inputs, NEW k \in Nat, k < Len(input.outcomes),
         NEW o, o = input.outcomes[k + 1]
  PROVE  /\ Seen(k + 1) = Seen(k) \cup {o}
         /\ o \in Plugins /\ o \notin Seen(k)
         /\ \A p \in Seen(k) : p.name # o.name
         /\ o.name \notin FailedToLoad
<1>. PICK n \in Nat : n = Len(input.outcomes)
  BY InputIs
<1>1. /\ input.outcomes \in Seq(Plugins) /\ DOMAIN input.outcomes = 1 .. n
      /\ NamesDiffer(input.outcomes, input.failed_to_load)
  BY InputIs, ElementsOfSequence
<1>2. k + 1 \in 1 .. n /\ \A i \in 1 .. k : i \in 1 .. n /\ i # k + 1
  OBVIOUS
<1>3. \A i \in 1 .. k + 1 : i \in 1 .. k \/ i = k + 1
  OBVIOUS
<1>4. k + 1 \in 1 .. k + 1 /\ \A i \in 1 .. k : i \in 1 .. k + 1
  OBVIOUS
<1>5. Seen(k + 1) = Seen(k) \cup {o}
  BY <1>3, <1>4 DEF Seen
<1>6. o \in Plugins
  BY <1>1, <1>2, ElementsOfSequence
<1>7. \A p \in Seen(k) : p.name # o.name
  BY <1>1, <1>2 DEF Seen, NamesDiffer
<1>8. o.name \notin FailedToLoad
  BY <1>1, <1>2 DEF FailedToLoad, NamesDiffer
<1>9. QED
  BY <1>5, <1>6, <1>7, <1>8

LEMMA AllSeen ==
  ASSUME input \in Inputs
  PROVE  /\ Outcomes = Seen(Len(input.outcomes)) /\ Outcomes \subseteq Plugins
         /\ \A o, p \in Outcomes : o.name = p.name => o = p
         /\ \A o \in Outcomes : o.name \notin FailedToLoad
         /\ FailedToLoad \subseteq Nat
<1>. PICK n \in Nat : n = Len(input.outcomes)
  BY InputIs
<1>1. /\ input.outcomes \in Seq(Plugins) /\ DOMAIN input.outcomes = 1 .. n
      /\ NamesDiffer(input.outcomes, input.failed_to_load)
  BY InputIs, ElementsOfSequence
<1>2. Outcomes = Seen(n)
  BY <1>1 DEF Outcomes, Seen
<1>3. Outcomes \subseteq Plugins
  BY <1>1, ElementsOfSequence DEF Outcomes
<1>4. \A o, p \in Outcomes : o.name = p.name => o = p
  BY <1>1 DEF Outcomes, NamesDiffer
<1>5. \A o \in Outcomes : o.name \notin FailedToLoad
  BY <1>1 DEF Outcomes, FailedToLoad, NamesDiffer
<1>6. FailedToLoad \subseteq Nat
  BY InputIs, ElementsOfSequence DEF FailedToLoad
<1>7. QED
  BY <1>2, <1>3, <1>4, <1>5, <1>6

PartitionInv ==
  /\ at \in Nat /\ at <= Len(input.outcomes)
  /\ Lists(usable, UsableIn(at))
  /\ Lists(errors, NamesFailed(at) \cup FailedToLoad)

LEMMA InitPartition ==
  ASSUME Init PROVE PartitionInv
<1>1. input \in Inputs /\ at = 0 /\ usable = << >> /\ errors = input.failed_to_load
  BY DEF Init
<1>2. at \in Nat /\ at <= Len(input.outcomes)
  BY <1>1, InputIs
<1>3. Seen(0) = {}
  <2>1. 1 .. 0 = {}
    OBVIOUS
  <2>2. QED
    BY <2>1 DEF Seen
<1>4. UsableIn(at) = {} /\ NamesFailed(at) = {}
  BY <1>1, <1>3 DEF UsableIn, NamesFailed
<1>. PICK n \in Nat : n = Len(errors)
  BY <1>1, InputIs
<1>5. errors \in Seq(Nat) /\ DOMAIN errors = 1 .. n /\ FailedToLoad = {errors[i] : i \in 1 .. n}
  BY <1>1, InputIs, ElementsOfSequence DEF FailedToLoad
<1>6. EachOnce(errors, n)
  BY <1>1, <1>5, InputIs DEF NamesDiffer, EachOnce
<1>7. errors \in Seq(FailedToLoad) /\ AllOf(errors, n, FailedToLoad)
  BY <1>5 DEF AllOf
<1>8. Lists(errors, FailedToLoad)
  BY <1>6, <1>7 DEF Lists
<1>9. QED
  BY <1>1, <1>2, <1>4, <1>8, ListsNothing DEF PartitionInv

LEMMA PartitionKeeps ==
  ASSUME input \in Inputs, PartitionInv, Partition
  PROVE  PartitionInv'
<1>. PICK k \in Nat : k = at
  BY DEF PartitionInv
<1>1. k < Len(input.outcomes) /\ k + 1 <= Len(input.outcomes) /\ at' = k + 1 /\ input' = input
  BY InputIs DEF Partition, More
<1>. PICK o : o = input.outcomes[k + 1]
  OBVIOUS
<1>2. /\ Seen(k + 1) = Seen(k) \cup {o}
      /\ o \in Plugins /\ o \notin Seen(k)
      /\ \A p \in Seen(k) : p.name # o.name
      /\ o.name \notin FailedToLoad
  BY <1>1, OneMoreSeen
<1>3. IF producedNothingUsable(o.runs)
      THEN errors' = Append(errors, o.name) /\ usable' = usable
      ELSE usable' = Append(usable, o) /\ errors' = errors
  BY DEF Partition, Outcome
<1>4. Lists(usable, UsableIn(k)) /\ Lists(errors, NamesFailed(k) \cup FailedToLoad)
  BY DEF PartitionInv
<1>5. /\ UsableIn(at)' = UsableIn(k + 1) /\ NamesFailed(at)' = NamesFailed(k + 1)
      /\ FailedToLoad' = FailedToLoad
  BY <1>1 DEF UsableIn, NamesFailed, Seen, FailedToLoad
<1>6. ASSUME Lists(usable', UsableIn(k + 1)), Lists(errors', NamesFailed(k + 1) \cup FailedToLoad)
      PROVE  PartitionInv'
  <2>1. at' \in Nat /\ at' <= Len(input'.outcomes)
    BY <1>1
  <2>2. Lists(usable', UsableIn(at)') /\ Lists(errors', NamesFailed(at)' \cup FailedToLoad')
    BY ONLY <1>5, <1>6
  <2>3. QED
    BY ONLY <2>1, <2>2 DEF PartitionInv
<1>7. CASE producedNothingUsable(o.runs)
  <2>1. UsableIn(k + 1) = UsableIn(k)
    BY <1>2, <1>7 DEF UsableIn
  <2>2. NamesFailed(k + 1) = NamesFailed(k) \cup {o.name}
    BY <1>2, <1>7 DEF NamesFailed
  <2>3. o.name \notin NamesFailed(k) \cup FailedToLoad
    BY <1>2 DEF NamesFailed
  <2>4. Lists(errors', (NamesFailed(k) \cup FailedToLoad) \cup {o.name})
    <3>1. errors' = Append(errors, o.name)
      BY ONLY <1>3, <1>7
    <3>2. Lists(Append(errors, o.name), (NamesFailed(k) \cup FailedToLoad) \cup {o.name})
      BY ONLY <1>4, <2>3, ListsOneMore
    <3>3. QED
      BY ONLY <3>1, <3>2
  <2>5. (NamesFailed(k) \cup FailedToLoad) \cup {o.name} = NamesFailed(k + 1) \cup FailedToLoad
    BY ONLY <2>2
  <2>6. Lists(usable', UsableIn(k + 1))
    BY ONLY <1>3, <1>4, <1>7, <2>1
  <2>7. QED
    BY ONLY <1>6, <2>4, <2>5, <2>6
<1>8. CASE ~producedNothingUsable(o.runs)
  <2>1. UsableIn(k + 1) = UsableIn(k) \cup {o}
    BY <1>2, <1>8 DEF UsableIn
  <2>2. NamesFailed(k + 1) = NamesFailed(k)
    BY <1>2, <1>8 DEF NamesFailed
  <2>3. o \notin UsableIn(k)
    BY <1>2 DEF UsableIn
  <2>4. Lists(usable', UsableIn(k) \cup {o})
    <3>1. usable' = Append(usable, o)
      BY ONLY <1>3, <1>8
    <3>2. Lists(Append(usable, o), UsableIn(k) \cup {o})
      BY ONLY <1>4, <2>3, ListsOneMore
    <3>3. QED
      BY ONLY <3>1, <3>2
  <2>5. Lists(errors', NamesFailed(k + 1) \cup FailedToLoad)
    BY ONLY <1>3, <1>4, <1>8, <2>2
  <2>6. QED
    BY ONLY <1>6, <2>1, <2>4, <2>5
<1>9. QED
  BY <1>7, <1>8

(* The names that failed, in their order, whatever the sort does. *)
LEMMA PartitionEnds ==
  ASSUME input \in Inputs, PartitionInv, SortErrors
  PROVE  Lists(usable, Usable) /\ errors' = TheErrors
<1>1. at = Len(input.outcomes)
  <2>1. ~(at < Len(input.outcomes))
    BY DEF SortErrors, More
  <2>2. at \in Nat /\ at <= Len(input.outcomes) /\ Len(input.outcomes) \in Nat
    BY InputIs, ElementsOfSequence DEF PartitionInv
  <2>3. QED
    BY ONLY <2>1, <2>2
<1>2. Outcomes = Seen(at) /\ Outcomes \subseteq Plugins /\ FailedToLoad \subseteq Nat
  BY <1>1, AllSeen
<1>3. UsableIn(at) = Usable
  BY <1>2 DEF UsableIn, Usable
<1>4. NamesFailed(at) = {o.name : o \in Outcomes \ Usable}
  BY <1>2 DEF NamesFailed, Usable
<1>. PICK names : names = NamesFailed(at) \cup FailedToLoad
  OBVIOUS
<1>5. names \subseteq Nat
  <2>1. \A p \in Outcomes : p.name \in Nat
    BY <1>2 DEF Plugins
  <2>2. NamesFailed(at) \subseteq Nat
    BY <1>2, <2>1 DEF NamesFailed
  <2>3. QED
    BY <1>2, <2>2
<1>6. errors' \in Arrangements(errors) /\ \A i, j \in DOMAIN errors' : i < j => ~(errors'[j] < errors'[i])
  BY DEF SortErrors, Sorted
<1>7. Lists(errors, names) /\ Lists(usable, Usable)
  BY <1>3 DEF PartitionInv
<1>8. errors' = Ascending(names)
  BY ONLY <1>5, <1>6, <1>7, NamesSorted
<1>9. QED
  BY <1>4, <1>7, <1>8 DEF TheErrors

-----------------------------------------------------------------------------
(* The groups.                                                              *)

LikeIn(U, key) == {o.name : o \in {p \in U : p.runs = key}}

Groups == [key : Results, names : Seq(Nat), totals : [score : Int, steps : Int]]

(* A group has the plugins of U that behaved as its key says. *)
IsClass(group, U) ==
  /\ Lists(group.names, LikeIn(U, group.key))
  /\ group.totals = totalsOf(group.key)
  /\ \E o \in U : o.runs = group.key

GroupsOf(gs, U) ==
  /\ gs \in Seq(Groups)
  /\ \A g \in DOMAIN gs : IsClass(gs[g], U)
  /\ \A g, h \in DOMAIN gs : gs[g].key = gs[h].key => g = h
  /\ \A o \in U : \E g \in DOMAIN gs : gs[g].key = o.runs

LEMMA NoGroups == GroupsOf(<< >>, {})
BY DEF GroupsOf

LEMMA UsablePlugins ==
  ASSUME input \in Inputs
  PROVE  /\ Usable \subseteq Plugins
         /\ \A o, p \in Usable : o.name = p.name => o = p
         /\ \A o \in Usable : o.name \in Nat /\ o.runs \in Results
<1>1. Outcomes \subseteq Plugins /\ \A o, p \in Outcomes : o.name = p.name => o = p
  BY AllSeen
<1>2. Usable \subseteq Outcomes
  BY DEF Usable
<1>3. \A o \in Plugins : o.name \in Nat /\ o.runs \in Results
  BY DEF Plugins
<1>4. QED
  BY ONLY <1>1, <1>2, <1>3

(* One more plugin changes the class of its own behaviour only. *)
LEMMA OneMoreLike ==
  ASSUME NEW U, NEW o, NEW key, NEW W, W = U \cup {o}
  PROVE  /\ key = o.runs => LikeIn(W, key) = LikeIn(U, key) \cup {o.name}
         /\ key # o.runs => LikeIn(W, key) = LikeIn(U, key)
<1>1. CASE key = o.runs
  <2>1. {p \in W : p.runs = key} = {p \in U : p.runs = key} \cup {o}
    BY <1>1
  <2>2. LikeIn(W, key) = LikeIn(U, key) \cup {o.name}
    BY ONLY <2>1 DEF LikeIn
  <2>3. QED
    BY ONLY <1>1, <2>2
<1>2. CASE key # o.runs
  <2>1. {p \in W : p.runs = key} = {p \in U : p.runs = key}
    BY <1>2
  <2>2. LikeIn(W, key) = LikeIn(U, key)
    BY ONLY <2>1 DEF LikeIn
  <2>3. QED
    BY ONLY <1>2, <2>2
<1>3. QED
  BY <1>1, <1>2

(* A plugin that behaved as none before it. *)
LEMMA NewGroup ==
  ASSUME NEW U, NEW gs, GroupsOf(gs, U), NEW o \in Plugins,
         \A g \in DOMAIN gs : gs[g].key # o.runs
  PROVE  GroupsOf(Append(gs, [key |-> o.runs, names |-> <<o.name>>, totals |-> totalsOf(o.runs)]),
                  U \cup {o})
<1>. PICK n \in Nat : n = Len(gs)
  BY DEF GroupsOf
<1>. PICK new : new = [key |-> o.runs, names |-> <<o.name>>, totals |-> totalsOf(o.runs)]
  OBVIOUS
<1>. PICK W : W = U \cup {o}
  OBVIOUS
<1>. PICK more : more = Append(gs, new)
  OBVIOUS
<1>1. gs \in Seq(Groups) /\ DOMAIN gs = 1 .. n
  BY ElementsOfSequence DEF GroupsOf
<1>2. o.name \in Nat /\ o.runs \in Results
  BY DEF Plugins
<1>3. /\ new.key = o.runs /\ new.names = <<o.name>> /\ new.totals = totalsOf(o.runs)
      /\ new = [key |-> new.key, names |-> new.names, totals |-> new.totals]
  OBVIOUS
<1>4. new \in Groups
  <2>1. new.names \in Seq(Nat) /\ new.totals \in [score : Int, steps : Int] /\ new.key \in Results
    BY <1>2, <1>3, TotalsAreNumbers
  <2>2. QED
    BY ONLY <1>3, <2>1 DEF Groups
<1>5. /\ more \in Seq(Groups) /\ DOMAIN more = 1 .. n + 1
      /\ more[n + 1] = new /\ \A g \in 1 .. n : more[g] = gs[g]
  BY ONLY <1>1, <1>4, n \in Nat, n = Len(gs), more = Append(gs, new)
<1>6. \A g \in 1 .. n + 1 : g \in 1 .. n \/ g = n + 1
  OBVIOUS
<1>7. n + 1 \in 1 .. n + 1 /\ \A g \in 1 .. n : g \in 1 .. n + 1
  OBVIOUS
<1>8. ASSUME NEW g \in 1 .. n PROVE IsClass(gs[g], W)
  <2>. PICK group : group = gs[g]
    OBVIOUS
  <2>1. IsClass(group, U) /\ group.key # o.runs
    BY <1>1 DEF GroupsOf
  <2>2. LikeIn(W, group.key) = LikeIn(U, group.key)
    BY ONLY <2>1, OneMoreLike, W = U \cup {o}
  <2>3. QED
    BY ONLY <2>1, <2>2, group = gs[g], W = U \cup {o} DEF IsClass
<1>9. IsClass(new, W)
  <2>1. LikeIn(U, o.runs) = {}
    BY <1>1 DEF LikeIn, GroupsOf
  <2>2. LikeIn(W, o.runs) = {o.name}
    BY ONLY <2>1, OneMoreLike, W = U \cup {o}
  <2>3. Lists(<<o.name>>, {o.name})
    BY DEF Lists, AllOf, EachOnce
  <2>4. \E p \in W : p.runs = new.key
    BY <1>3
  <2>5. QED
    BY ONLY <1>3, <2>2, <2>3, <2>4 DEF IsClass
<1>10. \A g \in 1 .. n + 1 : IsClass(more[g], W)
  BY ONLY <1>5, <1>6, <1>8, <1>9
<1>11. ASSUME NEW g \in 1 .. n + 1, NEW h \in 1 .. n + 1, more[g].key = more[h].key
       PROVE  g = h
  <2>1. CASE g \in 1 .. n /\ h \in 1 .. n
    BY <1>1, <1>5, <1>11, <2>1 DEF GroupsOf
  <2>2. CASE g \in 1 .. n /\ h = n + 1
    BY <1>1, <1>3, <1>5, <1>11, <2>2
  <2>3. CASE h \in 1 .. n /\ g = n + 1
    BY <1>1, <1>3, <1>5, <1>11, <2>3
  <2>4. CASE g = n + 1 /\ h = n + 1
    BY <2>4
  <2>5. QED
    BY <1>6, <2>1, <2>2, <2>3, <2>4
<1>12. ASSUME NEW p \in W PROVE \E g \in 1 .. n + 1 : more[g].key = p.runs
  <2>1. CASE p \in U
    <3>1. PICK g \in 1 .. n : gs[g].key = p.runs
      BY <1>1, <2>1 DEF GroupsOf
    <3>2. QED
      BY <1>5, <1>7, <3>1
  <2>2. CASE p = o
    BY <1>3, <1>5, <1>7, <2>2
  <2>3. QED
    BY <2>1, <2>2
<1>13. GroupsOf(more, W)
  BY ONLY <1>5, <1>10, <1>11, <1>12 DEF GroupsOf
<1>14. QED
  BY ONLY <1>13, W = U \cup {o}, more = Append(gs, new),
     new = [key |-> o.runs, names |-> <<o.name>>, totals |-> totalsOf(o.runs)]

(* A change of one group's names that leaves it the class it was, of W. *)
LEMMA NamesOfOneGroup ==
  ASSUME NEW U, NEW gs, GroupsOf(gs, U), NEW g \in DOMAIN gs, NEW names, NEW W, U \subseteq W,
         names \in Seq(Nat), Lists(names, LikeIn(W, gs[g].key)),
         \A h \in DOMAIN gs : h # g => LikeIn(W, gs[h].key) = LikeIn(U, gs[h].key),
         \A o \in W : o \in U \/ o.runs = gs[g].key
  PROVE  GroupsOf([gs EXCEPT ![g].names = names], W)
<1>. PICK n \in Nat : n = Len(gs)
  BY DEF GroupsOf
<1>. PICK hs : hs = [gs EXCEPT ![g].names = names]
  OBVIOUS
<1>1. gs \in Seq(Groups) /\ DOMAIN gs = 1 .. n /\ gs = [h \in 1 .. n |-> gs[h]]
      /\ \A h \in 1 .. n : gs[h] \in Groups
  BY ElementsOfSequence DEF GroupsOf
<1>2. gs[g] = [key |-> gs[g].key, names |-> gs[g].names, totals |-> gs[g].totals]
  BY <1>1 DEF Groups
<1>. PICK new : new = [key |-> gs[g].key, names |-> names, totals |-> gs[g].totals]
  OBVIOUS
<1>3. hs = [h \in 1 .. n |-> IF h = g THEN new ELSE gs[h]]
  <2>1. [gs[g] EXCEPT !.names = names] = new
    BY ONLY <1>2, new = [key |-> gs[g].key, names |-> names, totals |-> gs[g].totals]
  <2>2. hs = [gs EXCEPT ![g] = [gs[g] EXCEPT !.names = names]]
    BY ONLY hs = [gs EXCEPT ![g].names = names], <1>1, g \in DOMAIN gs
  <2>3. hs = [gs EXCEPT ![g] = new]
    BY ONLY <2>1, <2>2
  <2>4. QED
    BY ONLY <1>1, <2>3
<1>4. new.key = gs[g].key /\ new.names = names /\ new.totals = gs[g].totals
  OBVIOUS
<1>5. new \in Groups
  BY <1>1 DEF Groups
<1>6. /\ DOMAIN hs = 1 .. n /\ hs[g] = new
      /\ \A h \in 1 .. n : h # g => hs[h] = gs[h]
  BY <1>1, <1>3
<1>7. \A h \in 1 .. n : hs[h] \in Groups
  BY ONLY <1>1, <1>5, <1>6
<1>8. hs \in Seq(Groups)
  <2>1. hs \in [1 .. n -> Groups]
    BY ONLY <1>3, <1>6, <1>7
  <2>2. QED
    BY ONLY <2>1, n \in Nat
<1>9. \A h \in 1 .. n : IsClass(gs[h], U)
  BY <1>1 DEF GroupsOf
<1>10. IsClass(new, W)
  <2>1. gs[g].totals = totalsOf(gs[g].key) /\ \E o \in U : o.runs = gs[g].key
    BY <1>1, <1>9 DEF IsClass
  <2>2. QED
    BY <1>4, <2>1 DEF IsClass
<1>11. ASSUME NEW h \in 1 .. n, h # g PROVE IsClass(gs[h], W)
  <2>1. LikeIn(W, gs[h].key) = LikeIn(U, gs[h].key)
    BY <1>1, <1>11
  <2>2. IsClass(gs[h], U)
    BY <1>9
  <2>3. QED
    BY ONLY <2>1, <2>2, U \subseteq W DEF IsClass
<1>12. \A h \in 1 .. n : IsClass(hs[h], W)
  BY ONLY <1>6, <1>10, <1>11
<1>13. \A h \in 1 .. n : hs[h].key = gs[h].key
  BY ONLY <1>4, <1>6
<1>14. \A h, i \in 1 .. n : hs[h].key = hs[i].key => h = i
  <2>1. \A h, i \in 1 .. n : gs[h].key = gs[i].key => h = i
    BY ONLY <1>1, GroupsOf(gs, U) DEF GroupsOf
  <2>2. QED
    BY ONLY <1>13, <2>1
<1>15. \A o \in W : \E h \in 1 .. n : hs[h].key = o.runs
  <2>1. \A o \in U : \E h \in 1 .. n : gs[h].key = o.runs
    BY ONLY <1>1, GroupsOf(gs, U) DEF GroupsOf
  <2>2. g \in 1 .. n /\ \A o \in W : o \in U \/ o.runs = gs[g].key
    BY <1>1
  <2>3. QED
    BY ONLY <1>13, <2>1, <2>2
<1>16. GroupsOf(hs, W)
  BY ONLY <1>6, <1>8, <1>12, <1>14, <1>15 DEF GroupsOf
<1>17. QED
  BY <1>16

-----------------------------------------------------------------------------
(* The grouping loop, and the loop that sorts the members.                  *)

Placed(k) == {usable[i] : i \in 1 .. k}

LEMMA OneMorePlaced ==
  ASSUME Lists(usable, Usable), NEW k \in Nat, k < Len(usable), NEW o, o = usable[k + 1]
  PROVE  /\ Placed(k + 1) = Placed(k) \cup {o} /\ o \in Usable
         /\ o \notin Placed(k) /\ Placed(k) \subseteq Usable
<1>. PICK n \in Nat : n = Len(usable)
  BY DEF Lists
<1>1. DOMAIN usable = 1 .. n /\ \A i \in 1 .. n : usable[i] \in Usable
  BY ElementsOfSequence DEF Lists
<1>2. k + 1 \in 1 .. n /\ \A i \in 1 .. k : i \in 1 .. n /\ i # k + 1
  OBVIOUS
<1>3. \A i \in 1 .. k + 1 : i \in 1 .. k \/ i = k + 1
  OBVIOUS
<1>4. k + 1 \in 1 .. k + 1 /\ \A i \in 1 .. k : i \in 1 .. k + 1
  OBVIOUS
<1>5. Placed(k + 1) = Placed(k) \cup {o}
  BY <1>3, <1>4 DEF Placed
<1>6. o \in Usable /\ Placed(k) \subseteq Usable
  BY <1>1, <1>2 DEF Placed
<1>7. o \notin Placed(k)
  BY <1>2 DEF Placed, Lists, EachOnce
<1>8. QED
  BY <1>5, <1>6, <1>7

LEMMA AllPlaced ==
  ASSUME Lists(usable, Usable)
  PROVE  Placed(Len(usable)) = Usable
<1>. PICK n \in Nat : n = Len(usable)
  BY DEF Lists
<1>1. \A i \in 1 .. n : usable[i] \in Usable
  BY ElementsOfSequence DEF Lists
<1>2. AllOf(usable, n, Usable)
  BY DEF Lists
<1>3. QED
  BY <1>1, <1>2 DEF Placed, AllOf

LEMMA GroupKeeps ==
  ASSUME input \in Inputs, Lists(usable, Usable), NEW k \in Nat, k = at,
         GroupsOf(groups, Placed(k)), Group
  PROVE  k < Len(usable) /\ at' = k + 1 /\ GroupsOf(groups', Placed(k + 1))
<1>1. k < Len(usable) /\ at' = k + 1
  BY DEF Group
<1>. PICK o : o = usable[k + 1]
  OBVIOUS
<1>. PICK U : U = Placed(k)
  OBVIOUS
<1>2. Placed(k + 1) = U \cup {o} /\ o \in Usable /\ o \notin U /\ U \subseteq Usable
  BY <1>1, OneMorePlaced
<1>3. /\ o \in Plugins /\ o.runs \in Results /\ o.name \in Nat
      /\ \A p \in U : p.name # o.name
  <2>1. \A p, q \in Usable : p.name = q.name => p = q
    BY UsablePlugins
  <2>2. o \in Plugins /\ o.runs \in Results /\ o.name \in Nat
    BY <1>2, UsablePlugins
  <2>3. QED
    BY ONLY <1>2, <2>1, <2>2
<1>4. behaviourKeyOf(o.runs) = o.runs
  BY <1>3, KeyIsTheRuns
<1>5. IF GroupOf(o.runs) = {}
      THEN groups' = Append(groups, [key |-> o.runs, names |-> <<o.name>>,
                                     totals |-> totalsOf(o.runs)])
      ELSE \E g \in GroupOf(o.runs) : groups' = [groups EXCEPT ![g].names = Append(@, o.name)]
  BY <1>4 DEF Group
<1>6. GroupsOf(groups, U)
  OBVIOUS
<1>7. CASE GroupOf(o.runs) = {}
  <2>1. \A g \in DOMAIN groups : groups[g].key # o.runs
    BY <1>7 DEF GroupOf
  <2>2. GroupsOf(Append(groups, [key |-> o.runs, names |-> <<o.name>>,
                                 totals |-> totalsOf(o.runs)]), U \cup {o})
    BY ONLY <1>3, <1>6, <2>1, NewGroup
  <2>3. QED
    BY ONLY <1>1, <1>2, <1>5, <1>7, <2>2
<1>8. CASE GroupOf(o.runs) # {}
  <2>1. PICK g \in GroupOf(o.runs) : groups' = [groups EXCEPT ![g].names = Append(@, o.name)]
    BY ONLY <1>5, <1>8
  <2>2. g \in DOMAIN groups /\ groups[g].key = o.runs
    BY <2>1 DEF GroupOf
  <2>. PICK names : names = Append(groups[g].names, o.name)
    OBVIOUS
  <2>3. groups' = [groups EXCEPT ![g].names = names]
    BY ONLY <2>1, names = Append(groups[g].names, o.name)
  <2>. PICK W : W = U \cup {o}
    OBVIOUS
  <2>4. Lists(groups[g].names, LikeIn(U, o.runs))
    BY <1>6, <2>2 DEF GroupsOf, IsClass
  <2>5. o.name \notin LikeIn(U, o.runs)
    BY <1>3 DEF LikeIn
  <2>6. LikeIn(W, o.runs) = LikeIn(U, o.runs) \cup {o.name}
    BY ONLY W = U \cup {o}, OneMoreLike
  <2>7. Lists(names, LikeIn(W, groups[g].key))
    BY ONLY <2>2, <2>4, <2>5, <2>6, names = Append(groups[g].names, o.name), ListsOneMore
  <2>8. names \in Seq(Nat)
    <3>1. groups[g].names \in Seq(Nat)
      <4>1. groups \in Seq(Groups)
        BY ONLY <1>6 DEF GroupsOf
      <4>2. groups[g] \in Groups
        BY ONLY <2>2, <4>1, ElementsOfSequence
      <4>3. QED
        BY ONLY <4>2 DEF Groups
    <3>2. QED
      BY ONLY <1>3, <3>1, names = Append(groups[g].names, o.name)
  <2>9. ASSUME NEW h \in DOMAIN groups, h # g
        PROVE  LikeIn(W, groups[h].key) = LikeIn(U, groups[h].key)
    <3>1. groups[h].key # o.runs
      BY <1>6, <2>2, <2>9 DEF GroupsOf
    <3>2. QED
      BY ONLY <3>1, W = U \cup {o}, OneMoreLike
  <2>10. U \subseteq W /\ \A p \in W : p \in U \/ p.runs = groups[g].key
    BY ONLY <2>2, W = U \cup {o}
  <2>11. GroupsOf([groups EXCEPT ![g].names = names], W)
    BY ONLY <1>6, <2>2, <2>7, <2>8, <2>9, <2>10, NamesOfOneGroup
  <2>12. QED
    BY ONLY <1>1, <1>2, <2>3, <2>11, W = U \cup {o}
<1>9. QED
  BY <1>7, <1>8

(* The members of the first k groups are in their order. *)
MembersSorted(gs, k) == \A g \in 1 .. k : gs[g].names = Ascending(LikeIn(Usable, gs[g].key))

LEMMA NamesAreNumbers ==
  ASSUME input \in Inputs, NEW key
  PROVE  LikeIn(Usable, key) \subseteq Nat
<1>1. \A o \in Usable : o.name \in Nat
  BY UsablePlugins
<1>2. QED
  BY ONLY <1>1 DEF LikeIn

LEMMA SortMembersKeeps ==
  ASSUME input \in Inputs, NEW k \in Nat, k = at,
         GroupsOf(groups, Usable), MembersSorted(groups, k), SortMembers
  PROVE  /\ at' = k + 1 /\ k < Len(groups) /\ Len(groups') = Len(groups)
         /\ GroupsOf(groups', Usable) /\ MembersSorted(groups', k + 1)
<1>1. at' = k + 1 /\ k < Len(groups)
  BY DEF SortMembers
<1>. PICK n \in Nat : n = Len(groups)
  BY DEF GroupsOf
<1>. PICK g : g = k + 1
  OBVIOUS
<1>2. /\ groups \in Seq(Groups) /\ DOMAIN groups = 1 .. n /\ g \in 1 .. n
      /\ \A h \in 1 .. n : groups[h] \in Groups
  BY <1>1, ElementsOfSequence DEF GroupsOf
<1>3. PICK names : /\ names \in Arrangements(groups[g].names)
                   /\ \A i, j \in DOMAIN names : i < j => ~(names[j] < names[i])
                   /\ groups' = [groups EXCEPT ![g].names = names]
  BY DEF SortMembers, Sorted
<1>. PICK class : class = LikeIn(Usable, groups[g].key)
  OBVIOUS
<1>4. class \subseteq Nat
  BY NamesAreNumbers
<1>5. Lists(groups[g].names, class)
  BY <1>2 DEF GroupsOf, IsClass
<1>6. Lists(names, class) /\ names = Ascending(class)
  BY ONLY <1>3, <1>4, <1>5, NamesSorted
<1>7. names \in Seq(Nat)
  <2>1. names \in Seq(class)
    BY <1>6 DEF Lists
  <2>2. QED
    BY ONLY <1>4, <2>1, SubsetSequences
<1>8. GroupsOf([groups EXCEPT ![g].names = names], Usable)
  <2>1. GroupsOf(groups, Usable) /\ g \in DOMAIN groups
    BY <1>2
  <2>2. /\ \A h \in DOMAIN groups : h # g =>
             LikeIn(Usable, groups[h].key) = LikeIn(Usable, groups[h].key)
        /\ \A o \in Usable : o \in Usable \/ o.runs = groups[g].key
        /\ Usable \subseteq Usable
    OBVIOUS
  <2>3. Lists(names, LikeIn(Usable, groups[g].key))
    BY <1>6
  <2>4. QED
    BY ONLY <1>7, <2>1, <2>2, <2>3, NamesOfOneGroup
<1>9. GroupsOf(groups', Usable)
  BY ONLY <1>3, <1>8
<1>10. /\ groups'[g].key = groups[g].key /\ groups'[g].names = names
       /\ \A h \in 1 .. n : h # g => groups'[h] = groups[h]
       /\ DOMAIN groups' = 1 .. n
  BY ONLY <1>2, <1>3 DEF Groups
<1>11. Len(groups') = n
  <2>1. groups' \in Seq(Groups)
    BY ONLY <1>9 DEF GroupsOf
  <2>2. QED
    BY ONLY <1>10, <2>1, n \in Nat
<1>12. MembersSorted(groups', k + 1)
  <2>1. \A h \in 1 .. k + 1 : h \in 1 .. k \/ h = g
    OBVIOUS
  <2>2. \A h \in 1 .. k : h # g /\ h \in 1 .. n
    BY <1>2
  <2>3. \A h \in 1 .. k : groups'[h].names = Ascending(LikeIn(Usable, groups'[h].key))
    BY ONLY <1>10, <2>2, MembersSorted(groups, k) DEF MembersSorted
  <2>4. groups'[g].names = Ascending(LikeIn(Usable, groups'[g].key))
    BY ONLY <1>6, <1>10, class = LikeIn(Usable, groups[g].key)
  <2>5. QED
    BY ONLY <2>1, <2>3, <2>4 DEF MembersSorted
<1>13. QED
  BY <1>1, <1>9, <1>11, <1>12

-----------------------------------------------------------------------------
(* The comparative report.                                                  *)

(* A group that is done, as the report has it. *)
IsDone(group) ==
  /\ group \in Groups /\ IsClass(group, Usable)
  /\ group.names = Ascending(LikeIn(Usable, group.key))

LEMMA FirstMember ==
  ASSUME NEW group, IsDone(group)
  PROVE  /\ Len(group.names) \in Nat /\ group.names[1] \in LikeIn(Usable, group.key)
         /\ LikeIn(Usable, group.key) # {}
<1>. PICK class : class = LikeIn(Usable, group.key)
  OBVIOUS
<1>. PICK names : names = group.names
  OBVIOUS
<1>1. Lists(names, class) /\ \E o \in Usable : o.runs = group.key
  BY DEF IsDone, IsClass
<1>2. class # {}
  BY <1>1 DEF LikeIn
<1>3. Len(names) \in Nat /\ \A i \in 1 .. Len(names) : names[i] \in class
  BY <1>1, ElementsOfSequence DEF Lists
<1>4. PICK i \in 1 .. Len(names) : TRUE
  BY <1>1, <1>2 DEF Lists, AllOf
<1>5. 1 \in 1 .. Len(names)
  BY <1>3, <1>4
<1>6. names[1] \in class
  BY <1>3, <1>5
<1>7. QED
  BY <1>2, <1>3, <1>6

(* Two groups of one size differ in their first names. *)
LEMMA FirstNamesDiffer ==
  ASSUME input \in Inputs, NEW a, NEW b, IsDone(a), IsDone(b), a.key # b.key
  PROVE  a.names[1] \in Nat /\ b.names[1] \in Nat /\ a.names[1] # b.names[1]
<1>1. a.names[1] \in LikeIn(Usable, a.key) /\ b.names[1] \in LikeIn(Usable, b.key)
  BY FirstMember
<1>2. a.names[1] \in Nat /\ b.names[1] \in Nat
  BY ONLY <1>1, input \in Inputs, NamesAreNumbers
<1>3. \A o, p \in Usable : o.name = p.name => o = p
  BY UsablePlugins
<1>4. a.names[1] # b.names[1]
  BY ONLY <1>1, <1>3, a.key # b.key DEF LikeIn
<1>5. QED
  BY <1>2, <1>4

Row(group) == [same_results |-> group.names, totals |-> group.totals]

LEMMA GroupOrder ==
  ASSUME input \in Inputs, NEW a, NEW b, IsDone(a), IsDone(b)
  PROVE  /\ ~Bigger(Row(a), Row(a))
         /\ a.key # b.key /\ ~groupBefore(b, a) => Bigger(Row(a), Row(b)) /\ ~Bigger(Row(b), Row(a))
<1>. PICK l : l = Len(a.names)
  OBVIOUS
<1>. PICK m : m = Len(b.names)
  OBVIOUS
<1>. PICK x : x = a.names[1]
  OBVIOUS
<1>. PICK y : y = b.names[1]
  OBVIOUS
<1>1. l \in Nat /\ m \in Nat /\ x \in Nat /\ y \in Nat
  <2>1. l \in Nat /\ m \in Nat
    BY FirstMember
  <2>2. x \in LikeIn(Usable, a.key) /\ y \in LikeIn(Usable, b.key)
    BY FirstMember
  <2>3. x \in Nat /\ y \in Nat
    BY ONLY <2>2, input \in Inputs, NamesAreNumbers
  <2>4. QED
    BY <2>1, <2>3
<1>2. Row(a).same_results = a.names /\ Row(b).same_results = b.names
  BY DEF Row
<1>3. /\ Bigger(Row(a), Row(a)) <=> l > l \/ (l = l /\ x < x)
      /\ Bigger(Row(a), Row(b)) <=> l > m \/ (l = m /\ x < y)
      /\ Bigger(Row(b), Row(a)) <=> m > l \/ (m = l /\ y < x)
  BY ONLY <1>2, l = Len(a.names), m = Len(b.names), x = a.names[1], y = b.names[1] DEF Bigger
<1>4. groupBefore(b, a) <=> m > l \/ (m = l /\ y < x)
  BY ONLY l = Len(a.names), m = Len(b.names), x = a.names[1], y = b.names[1] DEF groupBefore
<1>5. ~Bigger(Row(a), Row(a))
  BY ONLY <1>1, <1>3
<1>6. ASSUME a.key # b.key, ~groupBefore(b, a)
      PROVE  Bigger(Row(a), Row(b)) /\ ~Bigger(Row(b), Row(a))
  <2>1. x # y
    BY <1>6, FirstNamesDiffer
  <2>2. QED
    BY ONLY <1>1, <1>3, <1>4, <1>6, <2>1
<1>7. QED
  BY <1>5, <1>6

Entries == {[same_results |-> NamesLike(o), totals |-> totalsOf(o.runs)] : o \in Usable}

LEMMA RowIsEntry ==
  ASSUME NEW group, IsDone(group), NEW o \in Usable, o.runs = group.key
  PROVE  Row(group) = [same_results |-> NamesLike(o), totals |-> totalsOf(o.runs)]
<1>1. NamesLike(o) = Ascending(LikeIn(Usable, o.runs))
  BY DEF NamesLike, LikeIn
<1>2. group.totals = totalsOf(group.key) /\ group.names = Ascending(LikeIn(Usable, group.key))
  BY DEF IsDone, IsClass
<1>3. QED
  BY ONLY <1>1, <1>2, o.runs = group.key DEF Row

LEMMA ComparativeIs ==
  ASSUME input \in Inputs, GroupsOf(groups, Usable), MembersSorted(groups, Len(groups)),
         NEW sorted \in Arrangements(groups),
         \A i, j \in DOMAIN sorted : i < j => ~groupBefore(sorted[j], sorted[i])
  PROVE  [g \in DOMAIN sorted |-> [same_results |-> sorted[g].names, totals |-> sorted[g].totals]]
           = Listed(Entries, Bigger)
<1>. PICK n \in Nat : n = Len(groups)
  BY DEF GroupsOf
<1>1. groups \in Seq(Groups) /\ DOMAIN groups = 1 .. n /\ groups = [g \in 1 .. n |-> groups[g]]
  BY ElementsOfSequence DEF GroupsOf
<1>. PICK S : S = {groups[g] : g \in 1 .. n}
  OBVIOUS
<1>2. \A a \in S : IsDone(a)
  <2>1. ASSUME NEW g \in 1 .. n PROVE IsDone(groups[g])
    <3>1. groups[g] \in Groups
      BY ONLY <1>1, <2>1, ElementsOfSequence
    <3>2. IsClass(groups[g], Usable)
      BY ONLY <1>1, <2>1, GroupsOf(groups, Usable) DEF GroupsOf
    <3>3. groups[g].names = Ascending(LikeIn(Usable, groups[g].key))
      BY ONLY n = Len(groups), <2>1, MembersSorted(groups, Len(groups)) DEF MembersSorted
    <3>4. QED
      BY ONLY <3>1, <3>2, <3>3 DEF IsDone
  <2>2. QED
    BY ONLY <2>1, S = {groups[g] : g \in 1 .. n}
<1>3. \A g, h \in 1 .. n : groups[g].key = groups[h].key => g = h
  BY ONLY <1>1, GroupsOf(groups, Usable) DEF GroupsOf
<1>4. \A a, b \in S : a.key = b.key => a = b
  BY ONLY <1>3, S = {groups[g] : g \in 1 .. n}
<1>5. Lists(groups, S)
  <2>1. groups \in Seq(S)
    BY ONLY <1>1, n \in Nat, S = {groups[g] : g \in 1 .. n}
  <2>2. AllOf(groups, n, S)
    BY ONLY S = {groups[g] : g \in 1 .. n} DEF AllOf
  <2>3. EachOnce(groups, n)
    BY ONLY <1>3 DEF EachOnce
  <2>4. QED
    BY ONLY <2>1, <2>2, <2>3, n = Len(groups) DEF Lists
<1>6. Lists(sorted, S) /\ Len(sorted) = n
  BY ONLY <1>5, n = Len(groups), sorted \in Arrangements(groups), ListsArranged
<1>7. DOMAIN sorted = 1 .. n /\ \A i \in 1 .. n : sorted[i] \in S
  BY ONLY <1>6, ElementsOfSequence DEF Lists
<1>8. AllOf(sorted, n, S) /\ EachOnce(sorted, n)
  BY ONLY <1>6 DEF Lists
<1>. PICK t : t = [i \in 1 .. n |-> Row(sorted[i])]
  OBVIOUS
<1>9. t = [g \in DOMAIN sorted |-> [same_results |-> sorted[g].names, totals |-> sorted[g].totals]]
  BY ONLY <1>7, t = [i \in 1 .. n |-> Row(sorted[i])] DEF Row
<1>10. \A i \in 1 .. n : t[i] = Row(sorted[i])
  OBVIOUS
<1>11. ASSUME NEW i \in 1 .. n PROVE t[i] \in Entries
  <2>1. IsDone(sorted[i])
    BY ONLY <1>2, <1>7, <1>11
  <2>2. PICK o \in Usable : o.runs = sorted[i].key
    BY ONLY <2>1 DEF IsDone, IsClass
  <2>3. Row(sorted[i]) = [same_results |-> NamesLike(o), totals |-> totalsOf(o.runs)]
    BY ONLY <2>1, <2>2, RowIsEntry
  <2>4. QED
    BY ONLY <1>10, <1>11, <2>2, <2>3 DEF Entries
<1>12. ASSUME NEW x \in Entries PROVE \E i \in 1 .. n : t[i] = x
  <2>1. PICK o \in Usable : x = [same_results |-> NamesLike(o), totals |-> totalsOf(o.runs)]
    BY DEF Entries
  <2>2. PICK g \in 1 .. n : groups[g].key = o.runs
    BY ONLY <1>1, <2>1, GroupsOf(groups, Usable) DEF GroupsOf
  <2>3. groups[g] \in S
    BY ONLY <2>2, S = {groups[h] : h \in 1 .. n}
  <2>4. PICK i \in 1 .. n : sorted[i] = groups[g]
    BY ONLY <1>8, <2>3 DEF AllOf
  <2>5. Row(groups[g]) = x
    BY ONLY <1>2, <2>1, <2>2, <2>3, RowIsEntry
  <2>6. QED
    BY ONLY <1>10, <2>4, <2>5
<1>13. ASSUME NEW i \in 1 .. n PROVE ~Bigger(t[i], t[i])
  <2>1. IsDone(sorted[i])
    BY ONLY <1>2, <1>7, <1>13
  <2>2. QED
    BY ONLY <1>10, <1>13, <2>1, input \in Inputs, GroupOrder
<1>14. ASSUME NEW i \in 1 .. n, NEW j \in 1 .. n, i < j
       PROVE  Bigger(t[i], t[j]) /\ ~Bigger(t[j], t[i])
  <2>1. IsDone(sorted[i]) /\ IsDone(sorted[j])
    BY ONLY <1>2, <1>7, <1>14
  <2>2. sorted[i].key # sorted[j].key
    <3>1. i # j
      BY <1>14
    <3>2. sorted[i] # sorted[j]
      BY ONLY <1>8, <3>1, i \in 1 .. n, j \in 1 .. n DEF EachOnce
    <3>3. QED
      BY ONLY <1>4, <1>7, <3>2, i \in 1 .. n, j \in 1 .. n
  <2>3. ~groupBefore(sorted[j], sorted[i])
    BY <1>7, <1>14
  <2>4. QED
    BY ONLY <1>10, i \in 1 .. n, j \in 1 .. n, <2>1, <2>2, <2>3, input \in Inputs, GroupOrder
<1>15. t \in [1 .. n -> Entries]
  BY ONLY <1>11, t = [i \in 1 .. n |-> Row(sorted[i])]
<1>16. AllOf(t, n, Entries)
  BY ONLY <1>12 DEF AllOf
<1>17. AreBigger(t, n)
  BY ONLY <1>13, <1>14 DEF AreBigger
<1>18. Listed(Entries, Bigger) = t
  BY ONLY <1>15, <1>16, <1>17, n \in Nat, BiggerListIs
<1>19. QED
  BY ONLY <1>9, <1>18

-----------------------------------------------------------------------------
(* The competitive report.                                                  *)

Ranking == {[name |-> o.name, totals |-> totalsOf(o.runs)] : o \in Usable}

LEMMA RankOrder ==
  ASSUME NEW a \in [name : Nat, totals : [score : Int, steps : Int]],
         NEW b \in [name : Nat, totals : [score : Int, steps : Int]]
  PROVE  /\ ~Better(a, a)
         /\ a.name # b.name /\ ~rankedBefore(b, a) => Better(a, b) /\ ~Better(b, a)
<1>1. /\ a.name \in Nat /\ a.totals.score \in Int /\ a.totals.steps \in Int
      /\ b.name \in Nat /\ b.totals.score \in Int /\ b.totals.steps \in Int
  OBVIOUS
<1>2. a.totals = b.totals <=> a.totals.score = b.totals.score /\ a.totals.steps = b.totals.steps
  <2>1. a.totals \in [score : Int, steps : Int] /\ b.totals \in [score : Int, steps : Int]
    OBVIOUS
  <2>2. \A s, t \in [score : Int, steps : Int] : s = t <=> s.score = t.score /\ s.steps = t.steps
    OBVIOUS
  <2>3. QED
    BY ONLY <2>1, <2>2
<1>3. ~Better(a, a)
  BY ONLY <1>1 DEF Better
<1>4. ASSUME a.name # b.name, ~rankedBefore(b, a) PROVE Better(a, b) /\ ~Better(b, a)
  BY ONLY <1>1, <1>2, <1>4 DEF Better, rankedBefore
<1>5. QED
  BY <1>3, <1>4

LEMMA CompetitiveIs ==
  ASSUME input \in Inputs, Lists(usable, Usable),
         NEW ranked, ranked = [i \in DOMAIN usable |->
                                [name |-> usable[i].name, totals |-> totalsOf(usable[i].runs)]],
         NEW sorted \in Arrangements(ranked),
         \A i, j \in DOMAIN sorted : i < j => ~rankedBefore(sorted[j], sorted[i])
  PROVE  sorted = Listed(Ranking, Better)
<1>. PICK n \in Nat : n = Len(usable)
  BY DEF Lists
<1>1. DOMAIN usable = 1 .. n /\ \A i \in 1 .. n : usable[i] \in Usable
  BY ElementsOfSequence DEF Lists
<1>2. AllOf(usable, n, Usable) /\ EachOnce(usable, n)
  BY DEF Lists
<1>3. /\ Usable \subseteq Plugins
      /\ \A o, p \in Usable : o.name = p.name => o = p
      /\ \A o \in Usable : o.name \in Nat /\ o.runs \in Results
  BY UsablePlugins
<1>4. DOMAIN ranked = 1 .. n /\ \A i \in 1 .. n :
        ranked[i] = [name |-> usable[i].name, totals |-> totalsOf(usable[i].runs)]
  BY <1>1
<1>5. \A i \in 1 .. n : ranked[i] \in Ranking /\ ranked[i].name = usable[i].name
  BY <1>1, <1>4 DEF Ranking
<1>6. AllOf(ranked, n, Ranking)
  BY ONLY <1>2, <1>4 DEF AllOf, Ranking
<1>7. EachOnce(ranked, n)
  BY ONLY <1>1, <1>2, <1>3, <1>5 DEF EachOnce
<1>8. ranked \in Seq(Ranking) /\ Len(ranked) = n
  <2>1. ranked = [i \in 1 .. n |-> ranked[i]]
    BY ONLY <1>1, ranked = [i \in DOMAIN usable |->
                              [name |-> usable[i].name, totals |-> totalsOf(usable[i].runs)]]
  <2>2. ranked \in [1 .. n -> Ranking]
    BY ONLY <1>5, <2>1
  <2>3. QED
    BY ONLY <2>2, n \in Nat
<1>9. Lists(ranked, Ranking)
  BY ONLY <1>6, <1>7, <1>8 DEF Lists
<1>10. Lists(sorted, Ranking) /\ Len(sorted) = n
  BY ONLY <1>8, <1>9, sorted \in Arrangements(ranked), ListsArranged
<1>11. DOMAIN sorted = 1 .. n /\ sorted \in [1 .. n -> Ranking]
  BY ONLY <1>10, ElementsOfSequence DEF Lists
<1>12. AllOf(sorted, n, Ranking) /\ EachOnce(sorted, n)
  BY ONLY <1>10 DEF Lists
<1>13. \A o \in Usable : totalsOf(o.runs) \in [score : Int, steps : Int]
  BY ONLY <1>3, TotalsAreNumbers
<1>14. Ranking \subseteq [name : Nat, totals : [score : Int, steps : Int]]
  BY ONLY <1>3, <1>13 DEF Ranking
<1>15. \A a, b \in Ranking : a.name = b.name => a = b
  BY ONLY <1>3 DEF Ranking
<1>16. ASSUME NEW i \in 1 .. n PROVE ~Better(sorted[i], sorted[i])
  <2>1. sorted[i] \in [name : Nat, totals : [score : Int, steps : Int]]
    BY ONLY <1>11, <1>14, <1>16
  <2>2. QED
    BY ONLY <2>1, RankOrder
<1>17. ASSUME NEW i \in 1 .. n, NEW j \in 1 .. n, i < j
       PROVE  Better(sorted[i], sorted[j]) /\ ~Better(sorted[j], sorted[i])
  <2>1. /\ sorted[i] \in [name : Nat, totals : [score : Int, steps : Int]]
        /\ sorted[j] \in [name : Nat, totals : [score : Int, steps : Int]]
    BY ONLY <1>11, <1>14, <1>17
  <2>2. sorted[i] # sorted[j]
    <3>1. i # j
      BY <1>17
    <3>2. QED
      BY ONLY <1>12, <3>1, i \in 1 .. n, j \in 1 .. n DEF EachOnce
  <2>3. sorted[i].name # sorted[j].name
    BY ONLY <1>11, <1>15, <2>2, i \in 1 .. n, j \in 1 .. n
  <2>4. ~rankedBefore(sorted[j], sorted[i])
    BY <1>11, <1>17
  <2>5. QED
    BY ONLY <2>1, <2>3, <2>4, RankOrder
<1>18. AreBetter(sorted, n)
  BY ONLY <1>16, <1>17 DEF AreBetter
<1>19. Listed(Ranking, Better) = sorted
  BY ONLY <1>11, <1>12, <1>18, n \in Nat, BetterListIs
<1>20. QED
  BY <1>19

-----------------------------------------------------------------------------
(* The inductive invariant: what each loop has made of the outcomes seen.   *)

ModeInv ==
  /\ phase \in {"comparative", "members"} => input.mode = "comparative"
  /\ phase = "competition" => input.mode = "competition"

WriterInv ==
  /\ phase \in {"partition", "competition"} => groups = << >>
  /\ phase # "partition" => Lists(usable, Usable) /\ errors = TheErrors
  /\ phase = "comparative" =>
       at \in Nat /\ at <= Len(usable) /\ GroupsOf(groups, Placed(at))
  /\ phase = "members" =>
       /\ at \in Nat /\ at <= Len(groups)
       /\ GroupsOf(groups, Usable) /\ MembersSorted(groups, at)

ReportInv ==
  /\ phase # "written" => report = Unwritten
  /\ phase = "written" => /\ report.written
                          /\ report.summary = TheSummary /\ report.errors = TheErrors
                          /\ input.mode = "comparative" => GroupsOf(groups, Usable)

Phases == {"partition", "comparative", "members", "competition", "written"}

IInv ==
  /\ input \in Inputs /\ phase \in Phases
  /\ phase = "partition" => PartitionInv
  /\ ModeInv /\ WriterInv /\ ReportInv

LEMMA InitIInv == Init => IInv
<1>. SUFFICES ASSUME Init PROVE IInv
  OBVIOUS
<1>1. PartitionInv
  BY InitPartition
<1>2. input \in Inputs /\ phase = "partition" /\ groups = << >> /\ report = Unwritten
  BY DEF Init
<1>3. QED
  BY ONLY <1>1, <1>2 DEF IInv, ModeInv, WriterInv, ReportInv, Phases

(* The outcomes are what they were, and the sets that come from them. *)
LEMMA SameInput ==
  ASSUME input' = input
  PROVE  /\ Usable' = Usable /\ Outcomes' = Outcomes /\ TheErrors' = TheErrors
         /\ TheSummary' = TheSummary
<1>1. Outcomes' = Outcomes /\ FailedToLoad' = FailedToLoad
  BY DEF Outcomes, FailedToLoad
<1>2. Usable' = Usable
  BY <1>1 DEF Usable
<1>3. TheErrors' = TheErrors
  BY <1>1, <1>2 DEF TheErrors
<1>4. TheSummary' = TheSummary
  BY <1>2 DEF TheSummary, NamesLike
<1>5. QED
  BY <1>1, <1>2, <1>3, <1>4

LEMMA SummaryIs ==
  TheSummary = IF input.mode = "competition" THEN Listed(Ranking, Better)
                                             ELSE Listed(Entries, Bigger)
BY DEF TheSummary, Ranking, Entries

LEMMA NextIInv == IInv /\ [Next]_vars => IInv'
<1>. SUFFICES ASSUME IInv, [Next]_vars PROVE IInv'
  OBVIOUS
<1>1. input \in Inputs /\ ModeInv /\ WriterInv /\ ReportInv
      /\ (phase = "partition" => PartitionInv) /\ phase \in Phases
  BY DEF IInv
<1>2. input' = input
  BY DEF Next, Partition, SortErrors, Group, Grouped, SortMembers, WriteComparativeReport,
         WriteCompetitiveReport, Written, vars
<1>3. input' \in Inputs
  BY ONLY <1>1, <1>2
<1>4. Usable' = Usable /\ TheErrors' = TheErrors /\ TheSummary' = TheSummary
  BY <1>2, SameInput
<1>5. CASE Partition
  <2>1. phase = "partition" /\ phase' = "partition" /\ groups' = groups /\ report' = report
    BY <1>5 DEF Partition
  <2>2. PartitionInv'
    BY <1>1, <1>5, <2>1, PartitionKeeps
  <2>3. groups = << >> /\ report = Unwritten
    BY ONLY <1>1, <2>1 DEF WriterInv, ReportInv
  <2>4. ModeInv' /\ WriterInv' /\ ReportInv'
    BY ONLY <2>1, <2>3 DEF ModeInv, WriterInv, ReportInv, Unwritten
  <2>5. QED
    BY ONLY <1>3, <2>1, <2>2, <2>4 DEF IInv, Phases
<1>6. CASE SortErrors
  <2>1. /\ phase = "partition" /\ phase' = input.mode /\ groups' = groups /\ report' = report
        /\ at' = 0 /\ usable' = usable
    BY <1>6 DEF SortErrors
  <2>2. Lists(usable, Usable) /\ errors' = TheErrors
    BY <1>1, <1>6, <2>1, PartitionEnds
  <2>3. groups = << >> /\ report = Unwritten
    BY ONLY <1>1, <2>1 DEF WriterInv, ReportInv
  <2>4. phase' \in {"comparative", "competition"}
    BY <1>1, <2>1, InputIs
  <2>5. Lists(usable', Usable') /\ errors' = TheErrors'
    BY ONLY <1>4, <2>1, <2>2
  <2>6. at' \in Nat /\ at' <= Len(usable') /\ GroupsOf(groups', Placed(at)')
    <3>1. Len(usable) \in Nat
      BY <2>2 DEF Lists
    <3>2. Placed(at)' = {}
      <4>1. 1 .. 0 = {}
        OBVIOUS
      <4>2. QED
        BY ONLY <2>1, <4>1 DEF Placed
    <3>3. GroupsOf(groups', Placed(at)')
      <4>1. GroupsOf(<< >>, {})
        BY ONLY NoGroups
      <4>2. groups' = << >>
        BY ONLY <2>1, <2>3
      <4>3. QED
        BY ONLY <3>2, <4>1, <4>2
    <3>4. QED
      BY ONLY <2>1, <3>1, <3>3
  <2>7. WriterInv'
    BY ONLY <2>1, <2>3, <2>4, <2>5, <2>6 DEF WriterInv
  <2>8. ModeInv' /\ ReportInv'
    BY ONLY <1>2, <2>1, <2>3, <2>4 DEF ModeInv, ReportInv, Unwritten
  <2>9. QED
    BY ONLY <1>3, <2>4, <2>7, <2>8 DEF IInv, Phases
<1>7. CASE Group
  <2>1. /\ phase = "comparative" /\ phase' = "comparative" /\ usable' = usable
        /\ errors' = errors /\ report' = report
    BY <1>7 DEF Group
  <2>2. /\ Lists(usable, Usable) /\ errors = TheErrors /\ at \in Nat
        /\ GroupsOf(groups, Placed(at)) /\ input.mode = "comparative" /\ report = Unwritten
    BY ONLY <1>1, <2>1 DEF WriterInv, ModeInv, ReportInv
  <2>3. at < Len(usable) /\ at' = at + 1 /\ GroupsOf(groups', Placed(at + 1))
    BY ONLY <1>1, <1>7, <2>2, GroupKeeps
  <2>4. Placed(at)' = Placed(at + 1)
    BY ONLY <2>1, <2>3 DEF Placed
  <2>5. at' \in Nat /\ at' <= Len(usable')
    <3>1. Len(usable) \in Nat
      BY ONLY <2>2 DEF Lists
    <3>2. QED
      BY ONLY <2>1, <2>2, <2>3, <3>1
  <2>6. Lists(usable', Usable') /\ errors' = TheErrors'
    BY ONLY <1>4, <2>1, <2>2
  <2>7. GroupsOf(groups', Placed(at)')
    BY ONLY <2>3, <2>4
  <2>8. WriterInv'
    BY ONLY <2>1, <2>5, <2>6, <2>7 DEF WriterInv
  <2>9. ModeInv' /\ ReportInv'
    BY ONLY <1>2, <2>1, <2>2 DEF ModeInv, ReportInv, Unwritten
  <2>10. QED
    BY ONLY <1>3, <2>1, <2>8, <2>9 DEF IInv, Phases
<1>8. CASE Grouped
  <2>1. /\ phase = "comparative" /\ at = Len(usable) /\ at' = 0 /\ phase' = "members"
        /\ usable' = usable /\ errors' = errors /\ groups' = groups /\ report' = report
    BY <1>8 DEF Grouped
  <2>2. /\ Lists(usable, Usable) /\ errors = TheErrors
        /\ GroupsOf(groups, Placed(at)) /\ input.mode = "comparative" /\ report = Unwritten
    BY ONLY <1>1, <2>1 DEF WriterInv, ModeInv, ReportInv
  <2>3. GroupsOf(groups, Usable)
    <3>1. Placed(at) = Usable
      BY ONLY <2>1, <2>2, AllPlaced
    <3>2. QED
      BY ONLY <2>2, <3>1
  <2>4. Lists(usable', Usable') /\ errors' = TheErrors' /\ GroupsOf(groups', Usable')
    BY ONLY <1>4, <2>1, <2>2, <2>3
  <2>5. at' \in Nat /\ at' <= Len(groups') /\ MembersSorted(groups, at)'
    <3>1. Len(groups) \in Nat
      BY ONLY <2>3, ElementsOfSequence DEF GroupsOf
    <3>2. 1 .. 0 = {}
      OBVIOUS
    <3>3. QED
      BY ONLY <2>1, <3>1, <3>2 DEF MembersSorted
  <2>6. WriterInv'
    BY ONLY <2>1, <2>4, <2>5 DEF WriterInv
  <2>7. ModeInv' /\ ReportInv'
    BY ONLY <1>2, <2>1, <2>2 DEF ModeInv, ReportInv, Unwritten
  <2>8. QED
    BY ONLY <1>3, <2>1, <2>6, <2>7 DEF IInv, Phases
<1>9. CASE SortMembers
  <2>1. /\ phase = "members" /\ phase' = "members" /\ usable' = usable /\ errors' = errors
        /\ report' = report
    BY <1>9 DEF SortMembers
  <2>2. /\ Lists(usable, Usable) /\ errors = TheErrors /\ at \in Nat
        /\ GroupsOf(groups, Usable) /\ MembersSorted(groups, at)
        /\ input.mode = "comparative" /\ report = Unwritten
    BY ONLY <1>1, <2>1 DEF WriterInv, ModeInv, ReportInv
  <2>3. /\ at' = at + 1 /\ at < Len(groups) /\ Len(groups') = Len(groups)
        /\ GroupsOf(groups', Usable) /\ MembersSorted(groups', at + 1)
    BY ONLY <1>1, <1>9, <2>2, SortMembersKeeps
  <2>4. Lists(usable', Usable') /\ errors' = TheErrors' /\ GroupsOf(groups', Usable')
    BY ONLY <1>4, <2>1, <2>2, <2>3
  <2>5. at' \in Nat /\ at' <= Len(groups')
    <3>1. Len(groups) \in Nat
      BY ONLY <2>2, ElementsOfSequence DEF GroupsOf
    <3>2. QED
      BY ONLY <2>2, <2>3, <3>1
  <2>6. MembersSorted(groups, at)'
    BY ONLY <1>4, <2>3 DEF MembersSorted
  <2>7. WriterInv'
    BY ONLY <2>1, <2>4, <2>5, <2>6 DEF WriterInv
  <2>8. ModeInv' /\ ReportInv'
    BY ONLY <1>2, <2>1, <2>2 DEF ModeInv, ReportInv, Unwritten
  <2>9. QED
    BY ONLY <1>3, <2>1, <2>7, <2>8 DEF IInv, Phases
<1>10. CASE WriteComparativeReport
  <2>1. /\ phase = "members" /\ at = Len(groups) /\ phase' = "written" /\ usable' = usable
        /\ errors' = errors /\ groups' = groups
    BY <1>10 DEF WriteComparativeReport
  <2>2. /\ Lists(usable, Usable) /\ errors = TheErrors
        /\ GroupsOf(groups, Usable) /\ MembersSorted(groups, Len(groups))
        /\ input.mode = "comparative"
    BY ONLY <1>1, <2>1 DEF WriterInv, ModeInv
  <2>3. PICK sorted :
          /\ sorted \in Arrangements(groups)
          /\ \A i, j \in DOMAIN sorted : i < j => ~groupBefore(sorted[j], sorted[i])
          /\ report' = [written |-> TRUE, errors |-> errors,
                        summary |-> [g \in DOMAIN sorted |->
                          [same_results |-> sorted[g].names, totals |-> sorted[g].totals]]]
    BY <1>10 DEF WriteComparativeReport, Sorted
  <2>4. [g \in DOMAIN sorted |-> [same_results |-> sorted[g].names, totals |-> sorted[g].totals]]
          = Listed(Entries, Bigger)
    BY ONLY <1>1, <2>2, <2>3, ComparativeIs
  <2>5. TheSummary = Listed(Entries, Bigger)
    BY <2>2, SummaryIs
  <2>6. report'.written /\ report'.errors = errors /\ report'.summary = TheSummary
    BY ONLY <2>3, <2>4, <2>5
  <2>7. ReportInv'
    BY ONLY <1>4, <2>1, <2>2, <2>6 DEF ReportInv
  <2>8. Lists(usable', Usable') /\ errors' = TheErrors'
    BY ONLY <1>4, <2>1, <2>2
  <2>9. ModeInv' /\ WriterInv'
    BY ONLY <2>1, <2>8 DEF ModeInv, WriterInv
  <2>10. QED
    BY ONLY <1>3, <2>1, <2>7, <2>9 DEF IInv, Phases
<1>11. CASE WriteCompetitiveReport
  <2>1. /\ phase = "competition" /\ phase' = "written" /\ usable' = usable
        /\ errors' = errors /\ groups' = groups
    BY <1>11 DEF WriteCompetitiveReport
  <2>2. Lists(usable, Usable) /\ errors = TheErrors /\ input.mode = "competition"
    BY ONLY <1>1, <2>1 DEF WriterInv, ModeInv
  <2>. PICK ranked : ranked = [i \in DOMAIN usable |->
                                [name |-> usable[i].name, totals |-> totalsOf(usable[i].runs)]]
    OBVIOUS
  <2>3. PICK sorted :
          /\ sorted \in Arrangements(ranked)
          /\ \A i, j \in DOMAIN sorted : i < j => ~rankedBefore(sorted[j], sorted[i])
          /\ report' = [written |-> TRUE, errors |-> errors, summary |-> sorted]
    BY <1>11 DEF WriteCompetitiveReport, Sorted
  <2>4. sorted = Listed(Ranking, Better)
    BY ONLY <1>1, <2>2, <2>3, CompetitiveIs,
       ranked = [i \in DOMAIN usable |->
                  [name |-> usable[i].name, totals |-> totalsOf(usable[i].runs)]]
  <2>5. TheSummary = Listed(Ranking, Better)
    BY <2>2, SummaryIs
  <2>6. report'.written /\ report'.errors = errors /\ report'.summary = TheSummary
    BY ONLY <2>3, <2>4, <2>5
  <2>7. ReportInv'
    BY ONLY <1>2, <1>4, <2>1, <2>2, <2>6 DEF ReportInv
  <2>8. Lists(usable', Usable') /\ errors' = TheErrors'
    BY ONLY <1>4, <2>1, <2>2
  <2>9. ModeInv' /\ WriterInv'
    BY ONLY <2>1, <2>8 DEF ModeInv, WriterInv
  <2>10. QED
    BY ONLY <1>3, <2>1, <2>7, <2>9 DEF IInv, Phases
<1>12. CASE Written \/ UNCHANGED vars
  <2>1. /\ phase' = phase /\ at' = at /\ usable' = usable /\ errors' = errors
        /\ groups' = groups /\ report' = report
    BY <1>12 DEF Written, vars
  <2>2. FailedToLoad' = FailedToLoad /\ UsableIn(at)' = UsableIn(at)
        /\ NamesFailed(at)' = NamesFailed(at) /\ Placed(at)' = Placed(at)
    BY ONLY <1>2, <2>1 DEF FailedToLoad, UsableIn, NamesFailed, Seen, Placed
  <2>3. phase = "partition" => PartitionInv'
    BY ONLY <1>1, <1>2, <2>1, <2>2 DEF PartitionInv
  <2>4. MembersSorted(groups, at) => MembersSorted(groups, at)'
    BY ONLY <1>4, <2>1 DEF MembersSorted
  <2>5. ModeInv'
    BY ONLY <1>1, <1>2, <2>1 DEF ModeInv
  <2>6. WriterInv'
    BY ONLY <1>1, <1>4, <2>1, <2>2, <2>4 DEF WriterInv
  <2>7. ReportInv'
    BY ONLY <1>1, <1>2, <1>4, <2>1 DEF ReportInv, Unwritten
  <2>8. QED
    BY ONLY <1>1, <1>3, <2>1, <2>3, <2>5, <2>6, <2>7 DEF IInv
<1>13. QED
  BY <1>5, <1>6, <1>7, <1>8, <1>9, <1>10, <1>11, <1>12 DEF Next

(* What each loop has made of the outcomes it has seen: the usable ones and *)
(* the names of the others, each once; the classes of the plugins grouped;  *)
(* and the lists that are sorted.                                           *)
THEOREM ReportsInvariant == Spec => []IInv
BY InitIInv, NextIInv, PTL DEF Spec

(* Nothing in the report depends on the order in which the plugins were     *)
(* found or on what std::sort does with equals (ModeReportWriters.cpp, the  *)
(* notes on both writers).                                                  *)
THEOREM ReportIsReproducibleHolds == Spec => []ReportIsReproducible
<1>1. IInv => ReportIsReproducible
  <2>. SUFFICES ASSUME IInv, report.written PROVE ReportIsReproducible
    BY DEF ReportIsReproducible
  <2>1. ReportInv
    BY DEF IInv
  <2>2. phase = "written"
    BY <2>1 DEF ReportInv, Unwritten
  <2>3. QED
    BY ONLY <2>1, <2>2 DEF ReportInv, ReportIsReproducible
<1>2. QED
  BY <1>1, ReportsInvariant, PTL

(* Two plugins stand in one group of the comparative report just when every *)
(* run of one had the score and the steps of the same run of the other.     *)
THEOREM GroupsAreBehaviourClassesHolds == Spec => []GroupsAreBehaviourClasses
<1>1. IInv => GroupsAreBehaviourClasses
  <2>. SUFFICES ASSUME IInv, Finished
                PROVE  /\ UNION {Members(g) : g \in DOMAIN groups} = {o.name : o \in Usable}
                       /\ \A o, p \in Usable, g \in DOMAIN groups : o.name \in Members(g) =>
                            /\ p.name \in Members(g) <=> o.runs = p.runs
                            /\ groups[g].totals = totalsOf(o.runs)
    BY DEF GroupsAreBehaviourClasses
  <2>1. input \in Inputs /\ ReportInv /\ report.written /\ input.mode = "comparative"
    BY DEF IInv, Finished
  <2>2. phase = "written"
    BY ONLY <2>1 DEF ReportInv, Unwritten
  <2>3. GroupsOf(groups, Usable)
    BY ONLY <2>1, <2>2 DEF ReportInv
  <2>4. \A o, p \in Usable : o.name = p.name => o = p
    BY <2>1, UsablePlugins
  <2>5. ASSUME NEW g \in DOMAIN groups
        PROVE  /\ Members(g) = LikeIn(Usable, groups[g].key)
               /\ groups[g].totals = totalsOf(groups[g].key)
    <3>. PICK class : class = LikeIn(Usable, groups[g].key)
      OBVIOUS
    <3>. PICK names : names = groups[g].names
      OBVIOUS
    <3>1. Lists(names, class) /\ groups[g].totals = totalsOf(groups[g].key)
      BY ONLY <2>3, <2>5, class = LikeIn(Usable, groups[g].key), names = groups[g].names
         DEF GroupsOf, IsClass
    <3>2. /\ DOMAIN names = 1 .. Len(names) /\ \A i \in DOMAIN names : names[i] \in class
          /\ AllOf(names, Len(names), class)
      BY ONLY <3>1, ElementsOfSequence DEF Lists
    <3>3. Members(g) = class
      BY ONLY <3>2, names = groups[g].names DEF Members, AllOf
    <3>4. QED
      BY ONLY <3>1, <3>3, class = LikeIn(Usable, groups[g].key)
  <2>6. \A key : \A o \in Usable : o.name \in LikeIn(Usable, key) <=> o.runs = key
    BY ONLY <2>4 DEF LikeIn
  <2>7. \A o \in Usable : \E g \in DOMAIN groups : groups[g].key = o.runs
    BY ONLY <2>3 DEF GroupsOf
  <2>8. UNION {Members(g) : g \in DOMAIN groups} = {o.name : o \in Usable}
    <3>1. ASSUME NEW g \in DOMAIN groups, NEW name \in Members(g)
          PROVE  name \in {o.name : o \in Usable}
      BY ONLY <2>5, <3>1 DEF LikeIn
    <3>2. ASSUME NEW o \in Usable PROVE \E g \in DOMAIN groups : o.name \in Members(g)
      BY ONLY <2>5, <2>6, <2>7, <3>2
    <3>3. QED
      BY ONLY <3>1, <3>2
  <2>9. ASSUME NEW o \in Usable, NEW p \in Usable, NEW g \in DOMAIN groups, o.name \in Members(g)
        PROVE  /\ p.name \in Members(g) <=> o.runs = p.runs
               /\ groups[g].totals = totalsOf(o.runs)
    <3>1. groups[g].key = o.runs
      BY ONLY <2>5, <2>6, <2>9
    <3>2. p.name \in Members(g) <=> p.runs = groups[g].key
      BY ONLY <2>5, <2>6, <2>9
    <3>3. QED
      BY ONLY <2>5, <3>1, <3>2, g \in DOMAIN groups
  <2>10. QED
    BY ONLY <2>8, <2>9
<1>2. QED
  BY <1>1, ReportsInvariant, PTL

=============================================================================
