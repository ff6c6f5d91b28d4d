---------------------------- MODULE RulesProofs ----------------------------
(***************************************************************************)
(* Facts about the rules of the catalogue, for every menu and basket: what *)
(* its sums and filters are, what a normal catalogue offers, and what a    *)
(* line picks and pays in the order of the menu.                           *)
(***************************************************************************)
EXTENDS CatalogRules, TLAPS, WellFoundedInduction

(***************************************************************************)
(* Sequences taken apart entry by entry.  A set of natural numbers that    *)
(* holds 0 and with each number the next is induction without a theorem    *)
(* that takes an operator.                                                 *)
(***************************************************************************)
\* What holds at 0 and from each number to the next up to n holds up to n.
LEMMA Induction ==
  ASSUME NEW n \in Nat, NEW S, 0 \in S, \A k \in 1 .. n : k - 1 \in S => k \in S
  PROVE  0 .. n \subseteq S
<1> SUFFICES ASSUME 0 .. n \ S # {} PROVE FALSE
  OBVIOUS
<1>1. PICK k \in 0 .. n \ S : \A j \in 0 .. n \ S : ~(j < k)
  <2>1. 0 .. n \ S \subseteq Nat
    OBVIOUS
  <2>2. IsWellFoundedOn(OpToRel(<, Nat), Nat)
    BY NatLessThanWellFounded
  <2>3. \E k \in 0 .. n \ S : \A j \in 0 .. n \ S : ~(<<j, k>> \in OpToRel(<, Nat))
    BY <2>1, <2>2, WFMin
  <2> QED
    BY <2>1, <2>3 DEF OpToRel
<1>2. k \in 1 .. n /\ k - 1 \in 0 .. n
  OBVIOUS
<1>3. k - 1 \in S
  BY <1>1, <1>2
<1> QED
  BY <1>2, <1>3

LEMMA LastOfInterval ==
  ASSUME NEW k \in Nat \ {0}
  PROVE  Max(1 .. k) = k /\ 1 .. k \ {k} = 1 .. (k - 1) /\ 1 .. k # {}
<1>1. \A x \in 1 .. k : (\A y \in 1 .. k : x >= y) => x = k
  OBVIOUS
<1>2. k \in 1 .. k /\ \A y \in 1 .. k : k >= y
  OBVIOUS
<1> QED
  BY <1>1, <1>2 DEF Max

\* SumOf's recursion over sets of positions has a solution.
LEMMA SumsExist ==
  ASSUME NEW n \in Nat, NEW s \in [1 .. n -> Nat]
  PROVE  \E f : f = [t \in SUBSET (1 .. n) |->
                      IF t = {} THEN 0 ELSE f[t \ {Max(t)}] + s[Max(t)]]
<1> DEFINE Solves(f, k) ==
             /\ f \in [SUBSET (1 .. k) -> Nat]
             /\ \A t \in SUBSET (1 .. k) : /\ t = {} => f[t] = 0
                                           /\ t # {} => f[t] = f[t \ {Max(t)}] + s[Max(t)]
           S == {k \in 0 .. n : \E f : Solves(f, k)}
<1>1. 0 \in S
  <2> DEFINE f == [t \in SUBSET (1 .. 0) |-> 0]
  <2>1. Solves(f, 0)
    <3>1. \A t \in SUBSET (1 .. 0) : t = {}
      OBVIOUS
    <3> QED
      BY <3>1
  <2> HIDE DEF f, Solves
  <2> QED
    BY <2>1
<1>2. ASSUME NEW k \in 1 .. n, k - 1 \in S PROVE k \in S
  <2>1. PICK f : Solves(f, k - 1)
    BY <1>2
  <2> DEFINE g == [t \in SUBSET (1 .. k) |-> IF k \in t THEN f[t \ {k}] + s[k] ELSE f[t]]
  <2>2. \A t \in SUBSET (1 .. k) : /\ t \ {k} \in SUBSET (1 .. (k - 1))
                                   /\ k \notin t => t \in SUBSET (1 .. (k - 1))
    OBVIOUS
  <2>3. g \in [SUBSET (1 .. k) -> Nat]
    <3>1. \A t \in SUBSET (1 .. (k - 1)) : f[t] \in Nat
      BY <2>1
    <3>2. s[k] \in Nat
      OBVIOUS
    <3> QED
      BY <2>2, <3>1, <3>2
  <2>4. ASSUME NEW t \in SUBSET (1 .. k)
        PROVE  /\ t = {} => g[t] = 0
               /\ t # {} => g[t] = g[t \ {Max(t)}] + s[Max(t)]
    <3>1. CASE k \in t
      <4>1. Max(t) = k
        <5>1. \A x \in t : (\A y \in t : x >= y) => x = k
          BY <3>1
        <5>2. k \in t /\ \A y \in t : k >= y
          BY <3>1
        <5> QED
          BY <5>1, <5>2 DEF Max
      <4>2. g[t \ {k}] = f[t \ {k}]
        BY <2>2
      <4> QED
        BY <3>1, <4>1, <4>2
    <3>2. CASE k \notin t
      <4>1. t \in SUBSET (1 .. (k - 1)) /\ g[t] = f[t]
        BY <2>2, <3>2
      <4>2. \A x : t \ {x} \in SUBSET (1 .. k) /\ k \notin t \ {x} /\ g[t \ {x}] = f[t \ {x}]
        BY <3>2
      <4> QED
        BY <2>1, <4>1, <4>2
    <3> QED
      BY <3>1, <3>2
  <2>5. Solves(g, k)
    BY <2>3, <2>4
  <2> HIDE DEF g, Solves
  <2> QED
    BY <2>5
<1>3. n \in S
  <2> HIDE DEF S
  <2>1. 0 .. n \subseteq S
    BY <1>1, <1>2, Induction
  <2> QED
    BY <2>1
<1>4. PICK f : Solves(f, n)
  BY <1>3
<1>5. f = [t \in SUBSET (1 .. n) |-> IF t = {} THEN 0 ELSE f[t \ {Max(t)}] + s[Max(t)]]
  BY <1>4
<1> QED
  BY <1>5

\* f[k] is what the first k of n amounts come to.
Totalled(f, s, n) ==
  /\ f \in [0 .. n -> Nat] /\ f[0] = 0
  /\ \A k \in 1 .. n : f[k] = f[k - 1] + s[k]

\* SumOf adds from left to right.
LEMMA SumUnfolds ==
  ASSUME NEW n \in Nat, NEW s \in [1 .. n -> Nat]
  PROVE  \E f : Totalled(f, s, n) /\ SumOf(s) = f[n]
<1> DEFINE Body(f) == [t \in SUBSET (1 .. n) |->
                        IF t = {} THEN 0 ELSE f[t \ {Max(t)}] + s[Max(t)]]
           iter == CHOOSE f : f = Body(f)
<1>1. SumOf(s) = iter[1 .. n]
  BY DEF SumOf, FoldLeft, MapThenFoldSet
<1>2. \E f : f = Body(f)
  BY SumsExist
<1>3. iter = Body(iter)
  BY <1>2
<1> HIDE DEF iter
<1> DEFINE f == [k \in 0 .. n |-> iter[1 .. k]]
           S == {k \in 0 .. n : iter[1 .. k] \in Nat}
<1>4. iter[1 .. 0] = 0
  <2>1. 1 .. 0 = {}
    OBVIOUS
  <2> QED
    BY <1>3, <2>1
<1>5. ASSUME NEW k \in 1 .. n
      PROVE  iter[1 .. k] = iter[1 .. (k - 1)] + s[k]
  <2>1. 1 .. k \in SUBSET (1 .. n)
    OBVIOUS
  <2>2. iter[1 .. k] = IF 1 .. k = {} THEN 0 ELSE iter[1 .. k \ {Max(1 .. k)}] + s[Max(1 .. k)]
    BY <1>3, <2>1
  <2>3. k \in Nat \ {0}
    OBVIOUS
  <2>4. Max(1 .. k) = k /\ 1 .. k \ {k} = 1 .. (k - 1) /\ 1 .. k # {}
    BY <2>3, LastOfInterval
  <2> QED
    BY <2>2, <2>4
<1>6. 0 .. n \subseteq S
  <2>1. 0 \in S
    BY <1>4
  <2>2. \A k \in 1 .. n : k - 1 \in S => k \in S
    BY <1>5
  <2> HIDE DEF S
  <2> QED
    BY <2>1, <2>2, Induction
<1>7. \A k \in 0 .. n : iter[1 .. k] \in Nat
  BY <1>6
<1>8. Totalled(f, s, n)
  BY <1>4, <1>5, <1>7 DEF Totalled
<1>9. SumOf(s) = f[n]
  BY <1>1
<1> QED
  BY <1>8, <1>9

LEMMA SumIsNat ==
  ASSUME NEW n \in Nat, NEW s \in [1 .. n -> Nat]
  PROVE  SumOf(s) \in Nat
<1>1. PICK f : Totalled(f, s, n) /\ SumOf(s) = f[n]
  BY SumUnfolds
<1> QED
  BY <1>1 DEF Totalled

LEMMA SumOfNothing ==
  ASSUME NEW n \in Nat, NEW s \in [1 .. n -> Nat], \A k \in 1 .. n : s[k] = 0
  PROVE  SumOf(s) = 0
<1>1. PICK f : Totalled(f, s, n) /\ SumOf(s) = f[n]
  BY SumUnfolds
<1> DEFINE S == {k \in 0 .. n : f[k] = 0}
<1>2. 0 \in S
  BY <1>1 DEF Totalled
<1>3. \A k \in 1 .. n : k - 1 \in S => k \in S
  BY <1>1 DEF Totalled
<1>4. 0 .. n \subseteq S
  <2> HIDE DEF S
  <2> QED
    BY <1>2, <1>3, Induction
<1> QED
  BY <1>1, <1>4

\* Where sequences differ in one amount, their sums differ by as much.
LEMMA SumsDifferAt ==
  ASSUME NEW n \in Nat, NEW r \in [1 .. n -> Nat], NEW s \in [1 .. n -> Nat],
         NEW i \in 1 .. n, r[i] = 0, \A k \in 1 .. n \ {i} : r[k] = s[k]
  PROVE  SumOf(s) = SumOf(r) + s[i]
<1>1. PICK f : Totalled(f, r, n) /\ SumOf(r) = f[n]
  BY SumUnfolds
<1>2. PICK g : Totalled(g, s, n) /\ SumOf(s) = g[n]
  BY SumUnfolds
<1> DEFINE S == {k \in 0 .. n : g[k] = IF k < i THEN f[k] ELSE f[k] + s[i]}
<1>3. 0 \in S
  BY <1>1, <1>2 DEF Totalled
<1>4. ASSUME NEW k \in 1 .. n, k - 1 \in S PROVE k \in S
  <2>1. /\ f[k] = f[k - 1] + r[k] /\ g[k] = g[k - 1] + s[k]
        /\ f[k - 1] \in Nat /\ g[k - 1] \in Nat
    BY <1>1, <1>2 DEF Totalled
  <2>2. CASE k < i
    BY <1>4, <2>1, <2>2
  <2>3. CASE k = i
    BY <1>4, <2>1, <2>3
  <2>4. CASE k > i
    BY <1>4, <2>1, <2>4
  <2> QED
    BY <2>2, <2>3, <2>4
<1>5. 0 .. n \subseteq S
  <2> HIDE DEF S
  <2> QED
    BY <1>3, <1>4, Induction
<1>6. g[n] = f[n] + s[i]
  BY <1>5
<1> QED
  BY <1>1, <1>2, <1>6

LEMMA ToSetOfMore ==
  ASSUME NEW E, NEW q \in Seq(E), NEW e \in E
  PROVE  ToSet(Append(q, e)) = ToSet(q) \union {e}
<1>1. DOMAIN Append(q, e) = DOMAIN q \union {Len(q) + 1}
  OBVIOUS
<1>2. \A i \in DOMAIN q : Append(q, e)[i] = q[i]
  OBVIOUS
<1>3. Append(q, e)[Len(q) + 1] = e
  OBVIOUS
<1> QED
  BY <1>1, <1>2, <1>3 DEF ToSet

(***************************************************************************)
(* Filters.                                                                *)
(***************************************************************************)
\* f[k] is what a filter keeps of the first k of n entries.
Filtered(f, s, n, S) ==
  /\ f[0] = <<>>
  /\ \A k \in 1 .. n : f[k] = IF s[k] \in S THEN Append(f[k - 1], s[k]) ELSE f[k - 1]

LEMMA FilterUnfolds ==
  ASSUME NEW E, NEW s \in Seq(E), NEW S
  PROVE  \E f \in [0 .. Len(s) -> Seq(E)] :
           Filtered(f, s, Len(s), S) /\ Filter(s, S) = f[Len(s)]
<1> DEFINE n == Len(s)
           Body(f) == [k \in 0 .. n |-> IF k = 0 THEN <<>>
                                        ELSE IF s[k] \in S THEN Append(f[k - 1], s[k])
                                                           ELSE f[k - 1]]
           kept == CHOOSE f : f = Body(f)
           Solves(f, k) == /\ f \in [0 .. k -> Seq(E)] /\ f[0] = <<>>
                           /\ \A j \in 1 .. k :
                                f[j] = IF s[j] \in S THEN Append(f[j - 1], s[j]) ELSE f[j - 1]
           T == {k \in 0 .. n : \E f : Solves(f, k)}
<1>1. Filter(s, S) = kept[n]
  BY DEF Filter
<1>2. n \in Nat
  OBVIOUS
<1>3. 0 \in T
  <2> DEFINE f == [k \in 0 .. 0 |-> <<>>]
  <2>1. Solves(f, 0)
    OBVIOUS
  <2> HIDE DEF f, Solves, n
  <2> QED
    BY <1>2, <2>1
<1>4. ASSUME NEW k \in 1 .. n, k - 1 \in T PROVE k \in T
  <2>1. PICK f : Solves(f, k - 1)
    BY <1>4
  <2> DEFINE g == [j \in 0 .. k |-> IF j < k THEN f[j]
                     ELSE IF s[k] \in S THEN Append(f[k - 1], s[k]) ELSE f[k - 1]]
  <2>2. g \in [0 .. k -> Seq(E)]
    <3>1. f[k - 1] \in Seq(E) /\ s[k] \in E
      BY <2>1
    <3>2. Append(f[k - 1], s[k]) \in Seq(E)
      BY <3>1
    <3> QED
      BY <2>1, <3>1, <3>2
  <2>3. \A j \in 1 .. k : g[j] = IF s[j] \in S THEN Append(g[j - 1], s[j]) ELSE g[j - 1]
    <3> SUFFICES ASSUME NEW j \in 1 .. k
                 PROVE  g[j] = IF s[j] \in S THEN Append(g[j - 1], s[j]) ELSE g[j - 1]
      OBVIOUS
    <3>1. g[j - 1] = f[j - 1] /\ j - 1 \in 0 .. k
      OBVIOUS
    <3>2. CASE j = k
      BY <3>1, <3>2
    <3>3. CASE j < k
      <4>1. j \in 1 .. k - 1 /\ g[j] = f[j]
        BY <3>3
      <4> HIDE DEF g
      <4> QED
        BY <2>1, <3>1, <4>1
    <3> QED
      BY <3>2, <3>3
  <2>4. Solves(g, k)
    <3>1. g[0] = <<>>
      BY <2>1
    <3> HIDE DEF g
    <3> QED
      BY <2>2, <2>3, <3>1
  <2> HIDE DEF g, Solves
  <2> QED
    BY <2>4
<1>5. PICK f : Solves(f, n)
  <2>1. 0 .. n \subseteq T
    <3> HIDE DEF T, n
    <3> QED
      BY <1>2, <1>3, <1>4, Induction
  <2>2. n \in T
    <3>1. n \in 0 .. n
      BY <1>2
    <3> HIDE DEF T, n
    <3> QED
      BY <2>1, <3>1
  <2> QED
    BY <2>2
<1>6. f = Body(f)
  <2>1. f = [k \in 0 .. n |-> f[k]]
    BY <1>5
  <2>2. \A k \in 0 .. n : k # 0 => k \in 1 .. n
    BY <1>2
  <2>3. \A k \in 0 .. n : f[k] = Body(f)[k]
    BY <1>5, <2>2
  <2> HIDE DEF n
  <2> QED
    BY <2>1, <2>3
<1>7. kept = Body(kept)
  <2> HIDE DEF Body
  <2> QED
    BY <1>6
<1>8. DOMAIN kept = 0 .. n /\ kept[0] = <<>> /\ \A k \in 1 .. n :
        kept[k] = IF s[k] \in S THEN Append(kept[k - 1], s[k]) ELSE kept[k - 1]
  <2> HIDE DEF kept, n
  <2>1. DOMAIN kept = 0 .. n
    BY <1>7
  <2>2. \A k \in 0 .. n :
          kept[k] = IF k = 0 THEN <<>>
                    ELSE IF s[k] \in S THEN Append(kept[k - 1], s[k]) ELSE kept[k - 1]
    BY <1>7
  <2>3. 0 \in 0 .. n /\ \A k \in 1 .. n : k \in 0 .. n /\ k # 0
    BY <1>2
  <2> QED
    BY <2>1, <2>2, <2>3
<1> HIDE DEF kept
<1> DEFINE A == {k \in 0 .. n : kept[k] \in Seq(E)}
<1>9. 0 .. n \subseteq A
  <2>1. 0 \in A
    <3>1. 0 \in 0 .. n /\ <<>> \in Seq(E)
      OBVIOUS
    <3> QED
      BY <1>8, <3>1
  <2>2. ASSUME NEW k \in 1 .. n, k - 1 \in A PROVE k \in A
    <3>1. kept[k - 1] \in Seq(E) /\ s[k] \in E /\ k \in 0 .. n
      BY <2>2
    <3>2. Append(kept[k - 1], s[k]) \in Seq(E)
      BY <3>1
    <3> QED
      BY <1>8, <3>1, <3>2
  <2> HIDE DEF A
  <2> QED
    BY <1>2, <2>1, <2>2, Induction
<1>10. kept \in [0 .. n -> Seq(E)]
  <2>1. kept = [k \in 0 .. n |-> kept[k]]
    BY <1>7
  <2> QED
    BY <1>9, <2>1
<1> QED
  BY <1>1, <1>8, <1>10 DEF Filtered

\* A filter keeps what is in the set.
LEMMA FilterKeeps ==
  ASSUME NEW E, NEW s \in Seq(E), NEW S
  PROVE  /\ Filter(s, S) \in Seq(E)
         /\ ToSet(Filter(s, S)) = ToSet(s) \cap S
<1>1. PICK f \in [0 .. Len(s) -> Seq(E)] :
        Filtered(f, s, Len(s), S) /\ Filter(s, S) = f[Len(s)]
  BY FilterUnfolds
<1> DEFINE n == Len(s)
           T == {k \in 0 .. n : ToSet(f[k]) = {s[i] : i \in 1 .. k} \cap S}
<1>2. n \in Nat /\ DOMAIN s = 1 .. n
  OBVIOUS
<1>3. 0 \in T
  <2>1. ToSet(<<>>) = {} /\ {s[i] : i \in 1 .. 0} = {}
    BY DEF ToSet
  <2> QED
    BY <1>1, <1>2, <2>1 DEF Filtered
<1>4. ASSUME NEW k \in 1 .. n, k - 1 \in T PROVE k \in T
  <2>1. f[k - 1] \in Seq(E) /\ s[k] \in E /\ k - 1 \in Nat
    BY <1>1
  <2>2. ToSet(Append(f[k - 1], s[k])) = ToSet(f[k - 1]) \union {s[k]}
    BY <2>1, ToSetOfMore
  <2>3. {s[i] : i \in 1 .. k} = {s[i] : i \in 1 .. (k - 1)} \union {s[k]}
    OBVIOUS
  <2>4. f[k] = IF s[k] \in S THEN Append(f[k - 1], s[k]) ELSE f[k - 1]
    BY <1>1 DEF Filtered
  <2> QED
    BY <1>4, <2>2, <2>3, <2>4
<1>5. n \in T
  <2>1. 0 .. n \subseteq T
    <3> HIDE DEF T, n
    <3> QED
      BY <1>2, <1>3, <1>4, Induction
  <2>2. n \in 0 .. n
    BY <1>2
  <2> HIDE DEF T, n
  <2> QED
    BY <2>1, <2>2
<1>6. ToSet(s) = {s[i] : i \in 1 .. n}
  BY <1>2 DEF ToSet
<1> QED
  BY <1>1, <1>2, <1>5, <1>6

LEMMA FilterAll ==
  ASSUME NEW E, NEW s \in Seq(E), NEW S, \A i \in DOMAIN s : s[i] \in S
  PROVE  Filter(s, S) = s
<1>1. PICK f \in [0 .. Len(s) -> Seq(E)] :
        Filtered(f, s, Len(s), S) /\ Filter(s, S) = f[Len(s)]
  BY FilterUnfolds
<1> DEFINE n == Len(s)
           T == {k \in 0 .. n : Len(f[k]) = k /\ \A i \in 1 .. k : f[k][i] = s[i]}
<1>2. n \in Nat /\ DOMAIN s = 1 .. n
  OBVIOUS
<1>3. 0 \in T
  BY <1>1, <1>2 DEF Filtered
<1>4. ASSUME NEW k \in 1 .. n, k - 1 \in T PROVE k \in T
  <2>1. f[k - 1] \in Seq(E) /\ s[k] \in E /\ s[k] \in S
    BY <1>1, <1>2
  <2>2. f[k] = Append(f[k - 1], s[k])
    BY <1>1, <2>1 DEF Filtered
  <2>3. Len(f[k - 1]) = k - 1 /\ \A i \in 1 .. (k - 1) : f[k - 1][i] = s[i]
    BY <1>4
  <2>4. Len(f[k]) = k /\ f[k][k] = s[k] /\ \A i \in 1 .. (k - 1) : f[k][i] = f[k - 1][i]
    BY <2>1, <2>2, <2>3
  <2>5. \A i \in 1 .. k : i = k \/ i \in 1 .. (k - 1)
    OBVIOUS
  <2> QED
    BY <2>3, <2>4, <2>5
<1>5. n \in T
  <2>1. 0 .. n \subseteq T
    <3> HIDE DEF T, n
    <3> QED
      BY <1>2, <1>3, <1>4, Induction
  <2>2. n \in 0 .. n
    BY <1>2
  <2> HIDE DEF T, n
  <2> QED
    BY <2>1, <2>2
<1>6. f[n] \in Seq(E) /\ Len(f[n]) = Len(s) /\ \A i \in 1 .. Len(s) : f[n][i] = s[i]
  BY <1>2, <1>5
<1> HIDE DEF n
<1>7. f[n] = s
  BY <1>6
<1> QED
  BY <1>1, <1>7 DEF n

(***************************************************************************)
(* Entries with an id of their own.                                        *)
(***************************************************************************)
LEMMA ByIdFinds ==
  ASSUME NEW E, NEW entries \in Seq(E), Distinct(entries), NEW i \in DOMAIN entries
  PROVE  ById(entries, entries[i].id) = entries[i]
<1>1. \A e \in ToSet(entries) : e.id = entries[i].id => e = entries[i]
  BY DEF ToSet, Distinct
<1>2. entries[i] \in ToSet(entries)
  BY DEF ToSet
<1> QED
  BY <1>1, <1>2 DEF ById

\* Amounts for named entries, in whatever order they are named, come to what the entries
\* have where they stand.
Named(a, names, b, entries) ==
  /\ Distinct(entries) /\ IsInjective(names)
  /\ \A j \in DOMAIN names : names[j] \in Ids(entries)
  /\ a = [j \in DOMAIN names |-> a[j]] /\ b \in [DOMAIN entries -> Nat]
  /\ \A j \in DOMAIN names, i \in DOMAIN entries : entries[i].id = names[j] => a[j] = b[i]
  /\ \A i \in DOMAIN entries : entries[i].id \notin ToSet(names) => b[i] = 0

LEMMA SumOfNamed ==
  ASSUME NEW E, NEW entries \in Seq(E), NEW N, NEW names \in Seq(N), NEW a, NEW b,
         Named(a, names, b, entries)
  PROVE  SumOf(a) = SumOf(b)
<1> DEFINE n == Len(names)
           m == Len(entries)
           First(k) == {names[j] : j \in 1 .. k}
           c(k) == [i \in DOMAIN entries |-> IF entries[i].id \in First(k) THEN b[i] ELSE 0]
<1>1. n \in Nat /\ DOMAIN names = 1 .. n /\ m \in Nat /\ DOMAIN entries = 1 .. m
  OBVIOUS
<1>2. ASSUME NEW j \in 1 .. n
      PROVE  \E i \in 1 .. m : entries[i].id = names[j] /\ a[j] = b[i]
  <2>1. names[j] \in Ids(entries)
    BY <1>1 DEF Named
  <2>2. PICK i \in 1 .. m : entries[i].id = names[j]
    BY <1>1, <2>1 DEF Ids, ToSet
  <2> QED
    BY <1>1, <2>2 DEF Named
<1>3. a \in [1 .. n -> Nat]
  <2>1. \A j \in 1 .. n : a[j] \in Nat
    BY <1>1, <1>2 DEF Named
  <2>2. a = [j \in 1 .. n |-> a[j]]
    BY <1>1 DEF Named
  <2> QED
    BY <2>1, <2>2
<1>4. \A k \in 0 .. n : c(k) \in [1 .. m -> Nat]
  BY <1>1 DEF Named
<1>5. PICK f : Totalled(f, a, n) /\ SumOf(a) = f[n]
  BY <1>1, <1>3, SumUnfolds
<1> DEFINE T == {k \in 0 .. n : SumOf(c(k)) = f[k]}
<1>6. 0 \in T
  <2>1. \A i \in 1 .. m : c(0)[i] = 0
    BY <1>1
  <2>2. c(0) \in [1 .. m -> Nat]
    BY <1>1, <1>4
  <2> HIDE DEF c
  <2>3. SumOf(c(0)) = 0
    BY <1>1, <2>1, <2>2, SumOfNothing
  <2> QED
    BY <1>1, <1>5, <2>3 DEF Totalled
<1>7. ASSUME NEW k \in 1 .. n, k - 1 \in T PROVE k \in T
  <2>1. PICK i \in 1 .. m : entries[i].id = names[k] /\ a[k] = b[i]
    BY <1>2
  <2>2. names[k] \notin First(k - 1)
    BY <1>1 DEF IsInjective, Named
  <2>3. First(k) = First(k - 1) \union {names[k]}
    OBVIOUS
  <2>4. \A j \in 1 .. m \ {i} : entries[j].id # names[k]
    BY <1>1, <2>1 DEF Distinct, Named
  <2> DEFINE r == c(k - 1)
             q == c(k)
  <2>5. r[i] = 0 /\ q[i] = a[k] /\ \A j \in 1 .. m \ {i} : r[j] = q[j]
    <3> HIDE DEF First
    <3> QED
      BY <1>1, <2>1, <2>2, <2>3, <2>4 DEF Named
  <2>6. r \in [1 .. m -> Nat] /\ q \in [1 .. m -> Nat]
    <3>1. k \in 0 .. n /\ k - 1 \in 0 .. n
      BY <1>1
    <3> HIDE DEF c
    <3> QED
      BY <1>4, <3>1
  <2>7. SumOf(r) = f[k - 1] /\ k \in 0 .. n
    BY <1>1, <1>7
  <2>8. f[k] = f[k - 1] + a[k]
    <3> HIDE DEF n
    <3> QED
      BY <1>5 DEF Totalled
  <2>9. SumOf(q) = f[k]
    <3>1. /\ r[i] = 0 /\ \A j \in 1 .. m \ {i} : r[j] = q[j]
          /\ r \in [1 .. m -> Nat] /\ q \in [1 .. m -> Nat] /\ m \in Nat
      BY <1>1, <2>5, <2>6
    <3> HIDE DEF r, q, n, m
    <3>2. SumOf(q) = SumOf(r) + q[i]
      BY <2>1, <3>1, SumsDifferAt
    <3> QED
      BY <2>5, <2>7, <2>8, <3>2
  <2> HIDE DEF c, n
  <2> QED
    BY <2>7, <2>9, Zenon
<1>8. n \in T
  <2>1. 0 .. n \subseteq T
    <3> HIDE DEF T, n
    <3> QED
      BY <1>1, <1>6, <1>7, Induction
  <2>2. n \in 0 .. n
    BY <1>1
  <2> HIDE DEF T, n
  <2> QED
    BY <2>1, <2>2
<1>9. c(n) = b
  <2>1. First(n) = ToSet(names)
    BY <1>1 DEF ToSet
  <2> HIDE DEF First
  <2> QED
    BY <2>1 DEF Named
<1> QED
  BY <1>5, <1>8, <1>9

\* Each entry that a filter keeps has a place of its own in the sequence.
Places(p, q, s, k) ==
  /\ p \in [DOMAIN q -> 1 .. k]
  /\ \A i, j \in DOMAIN q : p[i] = p[j] => i = j
  /\ \A i \in DOMAIN q : q[i] = s[p[i]]

LEMMA FilterPlaces ==
  ASSUME NEW E, NEW s \in Seq(E), NEW S
  PROVE  \E p : Places(p, Filter(s, S), s, Len(s))
<1>1. PICK f \in [0 .. Len(s) -> Seq(E)] :
        Filtered(f, s, Len(s), S) /\ Filter(s, S) = f[Len(s)]
  BY FilterUnfolds
<1> DEFINE n == Len(s)
           T == {k \in 0 .. n : \E p : Places(p, f[k], s, k)}
<1>2. n \in Nat /\ DOMAIN s = 1 .. n
  OBVIOUS
<1>3. 0 \in T
  <2>1. DOMAIN f[0] = {} /\ 0 \in 0 .. n
    BY <1>1, <1>2 DEF Filtered
  <2>2. Places([i \in {} |-> 0], f[0], s, 0)
    BY <2>1 DEF Places
  <2> QED
    BY <2>1, <2>2
<1>4. ASSUME NEW k \in 1 .. n, k - 1 \in T PROVE k \in T
  <2>1. f[k - 1] \in Seq(E) /\ s[k] \in E /\ k \in 0 .. n /\ k - 1 \in Nat
    BY <1>1, <1>2
  <2>2. f[k] = IF s[k] \in S THEN Append(f[k - 1], s[k]) ELSE f[k - 1]
    BY <1>1 DEF Filtered
  <2>3. PICK p : Places(p, f[k - 1], s, k - 1)
    BY <1>4
  <2>4. 1 .. (k - 1) \subseteq 1 .. k /\ k \in 1 .. k /\ k \notin 1 .. (k - 1)
    OBVIOUS
  <2>5. CASE s[k] \notin S
    <3>1. f[k] = f[k - 1] /\ Places(p, f[k - 1], s, k)
      BY <2>2, <2>3, <2>4, <2>5 DEF Places
    <3> QED
      BY <2>1, <3>1
  <2>6. CASE s[k] \in S
    <3> DEFINE q == f[k - 1]
               m == Len(q)
               r == [i \in 1 .. (m + 1) |-> IF i = m + 1 THEN k ELSE p[i]]
    <3>1. /\ m \in Nat /\ DOMAIN q = 1 .. m /\ DOMAIN f[k] = 1 .. (m + 1)
          /\ f[k][m + 1] = s[k] /\ \A i \in 1 .. m : f[k][i] = q[i]
      BY <2>1, <2>2, <2>6
    <3>2. /\ \A i \in 1 .. m : p[i] \in 1 .. (k - 1) /\ q[i] = s[p[i]]
          /\ \A i, j \in 1 .. m : p[i] = p[j] => i = j
      BY <2>3, <3>1 DEF Places
    <3> HIDE DEF q, m
    <3>3. \A i \in 1 .. (m + 1) : i = m + 1 \/ (i \in 1 .. m /\ i # m + 1)
      BY <3>1
    <3>4. r \in [1 .. (m + 1) -> 1 .. k]
      BY <2>4, <3>2, <3>3
    <3>5. ASSUME NEW i \in 1 .. (m + 1), NEW j \in 1 .. (m + 1), r[i] = r[j]
          PROVE  i = j
      BY <2>4, <3>2, <3>3, <3>5
    <3>6. \A i \in 1 .. (m + 1) : f[k][i] = s[r[i]]
      BY <3>1, <3>2, <3>3
    <3> HIDE DEF r
    <3>7. Places(r, f[k], s, k)
      BY <3>1, <3>4, <3>5, <3>6 DEF Places
    <3> QED
      BY <2>1, <3>7
  <2> QED
    BY <2>5, <2>6
<1>5. n \in T
  <2>1. 0 .. n \subseteq T
    <3> HIDE DEF T, n
    <3> QED
      BY <1>2, <1>3, <1>4, Induction
  <2>2. n \in 0 .. n
    BY <1>2
  <2> HIDE DEF T, n
  <2> QED
    BY <2>1, <2>2
<1> QED
  BY <1>1, <1>5

\* A filter keeps entries apart.
LEMMA FilterDistinct ==
  ASSUME NEW E, NEW s \in Seq(E), NEW S
  PROVE  /\ Distinct(s) => Distinct(Filter(s, S))
         /\ IsInjective(s) => IsInjective(Filter(s, S))
<1>1. PICK p : Places(p, Filter(s, S), s, Len(s))
  BY FilterPlaces
<1>2. DOMAIN s = 1 .. Len(s)
  OBVIOUS
<1> QED
  BY <1>1, <1>2 DEF Places, Distinct, IsInjective

\* Amounts for the entries that a filter keeps come to what the entries have where they stand.
Kept(a, b, s, S) ==
  /\ Distinct(s) /\ b \in [DOMAIN s -> Nat] /\ a = [k \in DOMAIN Filter(s, S) |-> a[k]]
  /\ \A k \in DOMAIN Filter(s, S), i \in DOMAIN s : Filter(s, S)[k] = s[i] => a[k] = b[i]
  /\ \A i \in DOMAIN s : s[i] \notin S => b[i] = 0

LEMMA SumOfKept ==
  ASSUME NEW E, NEW s \in Seq(E), NEW S, NEW a, NEW b, Kept(a, b, s, S)
  PROVE  SumOf(a) = SumOf(b)
<1> DEFINE kept == Filter(s, S)
           names == [k \in DOMAIN kept |-> kept[k].id]
           N == {e.id : e \in E}
<1>1. kept \in Seq(E) /\ ToSet(kept) = ToSet(s) \cap S /\ Distinct(kept)
  BY FilterKeeps, FilterDistinct DEF Kept
<1> HIDE DEF kept
<1>2. names \in Seq(N) /\ DOMAIN names = DOMAIN kept /\ IsInjective(names)
  BY <1>1 DEF Distinct, IsInjective
<1>3. \A k \in DOMAIN kept : \E i \in DOMAIN s : kept[k] = s[i]
  BY <1>1 DEF ToSet
<1>4. \A k \in DOMAIN kept : names[k] \in Ids(s)
  BY <1>3 DEF Ids, ToSet
<1>5. ASSUME NEW k \in DOMAIN kept, NEW i \in DOMAIN s, s[i].id = names[k]
      PROVE  a[k] = b[i]
  <2>1. kept[k] = s[i]
    BY <1>3, <1>5 DEF Kept, Distinct
  <2> QED
    BY <2>1 DEF Kept, kept
<1>6. ASSUME NEW i \in DOMAIN s, s[i].id \notin ToSet(names)
      PROVE  b[i] = 0
  <2>1. s[i] \notin ToSet(kept)
    BY <1>6 DEF ToSet
  <2>2. s[i] \notin S
    BY <1>1, <2>1 DEF ToSet
  <2> QED
    BY <2>2 DEF Kept
<1>7. Named(a, names, b, s)
  <2>1. a = [k \in DOMAIN kept |-> a[k]]
    BY DEF Kept, kept
  <2> HIDE DEF names
  <2> QED
    BY <1>2, <1>4, <1>5, <1>6, <2>1 DEF Named, Kept
<1> HIDE DEF names, N
<1> QED
  BY <1>2, <1>7, SumOfNamed

(***************************************************************************)
(* What a line picks, and what it costs.                                   *)
(***************************************************************************)
\* The modifier groups of a dish in a sound catalogue.
GroupsOK(groups) ==
  /\ groups \in Seq(Groups) /\ Distinct(groups)
  /\ \A g \in ToSet(groups) : Distinct(g.options)

\* The picks of a line are told apart by their groups.
PicksApart(line) ==
  /\ line.picks \in Seq(PickRecords)
  /\ \A i, j \in DOMAIN line.picks : line.picks[i].group = line.picks[j].group => i = j

LEMMA PickedThere ==
  ASSUME NEW line, PicksApart(line), NEW g, NEW k \in DOMAIN line.picks,
         line.picks[k].group = g.id
  PROVE  PickAt(line, g) = k /\ Picked(line, g) = line.picks[k].options
<1> DEFINE I == {i \in 1 .. Len(line.picks) : line.picks[i].group = g.id}
<1>1. DOMAIN line.picks = 1 .. Len(line.picks) /\ Len(line.picks) \in Nat
  BY DEF PicksApart
<1>2. I = {k}
  BY <1>1 DEF PicksApart
<1>3. Min({k}) = k
  <2>1. \A x \in {k} : x = k
    OBVIOUS
  <2>2. k =< k
    BY <1>1
  <2> QED
    BY <2>1, <2>2 DEF Min
<1>4. PickAt(line, g) = IF I # {} THEN Min(I) ELSE 0
  BY DEF PickAt, SelectInSeq
<1>5. PickAt(line, g) = k
  <2> HIDE DEF I
  <2> QED
    BY <1>2, <1>3, <1>4
<1> QED
  BY <1>1, <1>5 DEF Picked

LEMMA PickedNowhere ==
  ASSUME NEW line, PicksApart(line), NEW g,
         \A k \in DOMAIN line.picks : line.picks[k].group # g.id
  PROVE  PickAt(line, g) = 0 /\ Picked(line, g) = <<>>
<1> DEFINE I == {i \in 1 .. Len(line.picks) : line.picks[i].group = g.id}
<1>1. DOMAIN line.picks = 1 .. Len(line.picks)
  BY DEF PicksApart
<1>2. I = {}
  BY <1>1
<1>3. PickAt(line, g) = IF I # {} THEN Min(I) ELSE 0
  BY DEF PickAt, SelectInSeq
<1> QED
  BY <1>2, <1>3 DEF Picked

\* Either way the picked options are those of some pick or none.
LEMMA PickedIsSeq ==
  ASSUME NEW line, PicksApart(line), NEW g
  PROVE  Picked(line, g) \in Seq(STRING)
<1>1. CASE \E k \in DOMAIN line.picks : line.picks[k].group = g.id
  <2>1. PICK k \in DOMAIN line.picks : line.picks[k].group = g.id
    BY <1>1
  <2>2. line.picks[k].options \in Seq(STRING)
    <3>1. line.picks[k] \in PickRecords
      BY DEF PicksApart
    <3> QED
      BY <3>1 DEF PickRecords
  <2> QED
    BY <2>1, <2>2, PickedThere
<1>2. CASE \A k \in DOMAIN line.picks : line.picks[k].group # g.id
  <2>1. Picked(line, g) = <<>> /\ <<>> \in Seq(STRING)
    BY <1>2, PickedNowhere
  <2> QED
    BY <2>1
<1> QED
  BY <1>1, <1>2

\* What an allowed line picks in a group is on offer, each option once.
LEMMA PickedIsOffered ==
  ASSUME NEW groups, GroupsOK(groups), NEW line, PicksApart(line),
         PicksAllowed(groups, line), NEW g \in ToSet(groups)
  PROVE  /\ IsInjective(Picked(line, g))
         /\ \A o \in ToSet(Picked(line, g)) : Offers(g, o)
<1>1. CASE \E k \in DOMAIN line.picks : line.picks[k].group = g.id
  <2>1. PICK k \in DOMAIN line.picks : line.picks[k].group = g.id
    BY <1>1
  <2>2. line.picks[k] \in ToSet(line.picks)
    BY DEF ToSet
  <2>3. ById(groups, line.picks[k].group) = g
    <3>1. PICK i \in DOMAIN groups : groups[i] = g
      BY DEF ToSet
    <3> QED
      BY <2>1, <3>1, ByIdFinds DEF GroupsOK
  <2>4. Picked(line, g) = line.picks[k].options
    BY <2>1, PickedThere
  <2> QED
    BY <2>2, <2>3, <2>4 DEF PicksAllowed
<1>2. CASE \A k \in DOMAIN line.picks : line.picks[k].group # g.id
  <2>1. Picked(line, g) = <<>>
    BY <1>2, PickedNowhere
  <2>2. IsInjective(<<>>) /\ ToSet(<<>>) = {}
    BY DEF IsInjective, ToSet
  <2> QED
    BY <2>1, <2>2
<1> QED
  BY <1>1, <1>2

\* The sum of the prices of a group's options that are in a set.
PricesIn(g, S) ==
  SumOf([i \in DOMAIN g.options |-> IF g.options[i].id \in S THEN g.options[i].price ELSE 0])

LEMMA PickCentsAre ==
  ASSUME NEW g \in Groups, Distinct(g.options), NEW picked \in Seq(STRING), IsInjective(picked),
         \A o \in ToSet(picked) : Offers(g, o)
  PROVE  PickCents(g, picked) = PricesIn(g, ToSet(picked))
<1> DEFINE a == [j \in DOMAIN picked |-> ById(g.options, picked[j]).price]
           b == [i \in DOMAIN g.options |->
                  IF g.options[i].id \in ToSet(picked) THEN g.options[i].price ELSE 0]
<1>1. g.options \in Seq(Options)
  BY DEF Groups
<1>2. \A j \in DOMAIN picked : picked[j] \in Ids(g.options)
  BY DEF Ids, Offers, ToSet
<1>3. b \in [DOMAIN g.options -> Nat]
  <2>1. \A i \in DOMAIN g.options : g.options[i] \in Options
    BY <1>1
  <2> QED
    BY <2>1 DEF Options
<1>4. ASSUME NEW j \in DOMAIN picked, NEW i \in DOMAIN g.options, g.options[i].id = picked[j]
      PROVE  a[j] = b[i]
  <2>1. ById(g.options, picked[j]) = g.options[i]
    BY <1>1, <1>4, ByIdFinds
  <2>2. g.options[i].id \in ToSet(picked)
    BY <1>4 DEF ToSet
  <2> QED
    BY <2>1, <2>2
<1>5. /\ \A i \in DOMAIN g.options : g.options[i].id \notin ToSet(picked) => b[i] = 0
      /\ a = [j \in DOMAIN picked |-> a[j]]
  OBVIOUS
<1>6. PickCents(g, picked) = SumOf(a) /\ PricesIn(g, ToSet(picked)) = SumOf(b)
  BY DEF PickCents, PricesIn
<1> HIDE DEF a, b
<1>8. Named(a, picked, b, g.options)
  BY <1>2, <1>3, <1>4, <1>5 DEF Named
<1>7. SumOf(a) = SumOf(b)
  BY <1>1, <1>8, SumOfNamed
<1> QED
  BY <1>6, <1>7

\* A page or a receipt that lists a group's options and adds up those in a set comes to the same.
LEMMA PricesOfHits ==
  ASSUME NEW g \in Groups, Distinct(g.options), NEW S
  PROVE  LET hit == Filter(g.options, {o \in ToSet(g.options) : o.id \in S})
         IN SumOf([k \in DOMAIN hit |-> hit[k].price]) = PricesIn(g, S)
<1> DEFINE R == {o \in ToSet(g.options) : o.id \in S}
           r == Filter(g.options, R)
           p == [j \in DOMAIN r |-> r[j].price]
           q == [i \in DOMAIN g.options |->
                  IF g.options[i].id \in S THEN g.options[i].price ELSE 0]
<1>1. g.options \in Seq(Options)
  BY DEF Groups
<1>2. q \in [DOMAIN g.options -> Nat]
  <2>1. \A i \in DOMAIN g.options : g.options[i] \in Options
    BY <1>1
  <2> QED
    BY <2>1 DEF Options
<1>3. r \in Seq(Options) /\ ToSet(r) = ToSet(g.options) \cap R
  BY <1>1, FilterKeeps
<1>4. ASSUME NEW j \in DOMAIN r, NEW i \in DOMAIN g.options, r[j] = g.options[i]
      PROVE  p[j] = q[i]
  <2>1. r[j] \in R
    <3>1. r[j] \in ToSet(r)
      BY DEF ToSet
    <3> HIDE DEF R, r
    <3> QED
      BY <1>3, <3>1
  <2> HIDE DEF r
  <2> QED
    BY <1>4, <2>1
<1>5. \A i \in DOMAIN g.options : g.options[i] \notin R => q[i] = 0
  BY DEF ToSet
<1>6. Kept(p, q, g.options, R)
  <2>1. p = [j \in DOMAIN r |-> p[j]]
    OBVIOUS
  <2> HIDE DEF p, q, R
  <2> QED
    BY <1>2, <1>4, <1>5, <2>1 DEF Kept
<1>7. SumOf(p) = SumOf(q)
  <2> HIDE DEF p, q, R
  <2> QED
    BY <1>1, <1>6, SumOfKept
<1> QED
  BY <1>7 DEF PricesIn

LEMMA PricesInAreNat ==
  ASSUME NEW g \in Groups, NEW S
  PROVE  PricesIn(g, S) \in Nat /\ PricesIn(g, {}) = 0
<1>1. g.options \in Seq(Options)
  BY DEF Groups
<1>2. Len(g.options) \in Nat /\ DOMAIN g.options = 1 .. Len(g.options)
  BY <1>1
<1>3. \A i \in 1 .. Len(g.options) : g.options[i].price \in Nat
  <2>1. \A i \in 1 .. Len(g.options) : g.options[i] \in Options
    BY <1>1, <1>2
  <2> QED
    BY <2>1 DEF Options
<1>4. \A R : [i \in 1 .. Len(g.options) |-> IF g.options[i].id \in R THEN g.options[i].price ELSE 0]
              \in [1 .. Len(g.options) -> Nat]
  BY <1>3
<1>5. PricesIn(g, S) \in Nat
  BY <1>2, <1>4, SumIsNat DEF PricesIn
<1>6. PricesIn(g, {}) = 0
  <2> DEFINE z == [i \in 1 .. Len(g.options) |-> IF g.options[i].id \in {} THEN g.options[i].price ELSE 0]
  <2>1. z \in [1 .. Len(g.options) -> Nat] /\ \A i \in 1 .. Len(g.options) : z[i] = 0
    OBVIOUS
  <2>2. PricesIn(g, {}) = SumOf(z)
    BY <1>2 DEF PricesIn
  <2> HIDE DEF z
  <2> QED
    BY <1>2, <2>1, <2>2, SumOfNothing
<1> QED
  BY <1>5, <1>6

\* What a line's picks in each group of a dish cost, in the order of the menu.
InMenuOrder(groups, line) ==
  SumOf([i \in DOMAIN groups |-> PricesIn(groups[i], ToSet(Picked(line, groups[i])))])

\* The service prices the picks in the order in which they were made, which comes to the same.
LEMMA PicksCentsAre ==
  ASSUME NEW groups, GroupsOK(groups), NEW line, PicksApart(line), PicksAllowed(groups, line)
  PROVE  PicksCents(groups, line.picks) = InMenuOrder(groups, line)
<1> DEFINE names == [k \in DOMAIN line.picks |-> line.picks[k].group]
           a == [k \in DOMAIN line.picks |->
                  PickCents(ById(groups, line.picks[k].group), line.picks[k].options)]
           b == [i \in DOMAIN groups |-> PricesIn(groups[i], ToSet(Picked(line, groups[i])))]
<1>1. /\ line.picks \in Seq(PickRecords) /\ groups \in Seq(Groups)
      /\ DOMAIN line.picks = 1 .. Len(line.picks) /\ Len(line.picks) \in Nat
  BY DEF PicksApart, GroupsOK
<1>2. names \in Seq(STRING) /\ IsInjective(names) /\ DOMAIN names = DOMAIN line.picks
  <2>1. \A k \in 1 .. Len(line.picks) : line.picks[k] \in PickRecords
    BY <1>1
  <2>2. \A k \in 1 .. Len(line.picks) : line.picks[k].group \in STRING
    BY <2>1 DEF PickRecords
  <2>3. names \in Seq(STRING)
    BY <1>1, <2>2
  <2>4. IsInjective(names)
    BY <1>1 DEF PicksApart, IsInjective
  <2> QED
    BY <2>3, <2>4
<1>3. \A k \in DOMAIN names : names[k] \in Ids(groups)
  BY DEF PicksAllowed, ToSet
<1>4. b \in [DOMAIN groups -> Nat]
  <2>1. \A i \in DOMAIN groups : groups[i] \in Groups
    BY <1>1
  <2>2. \A i \in DOMAIN groups : PricesIn(groups[i], ToSet(Picked(line, groups[i]))) \in Nat
    BY <2>1, PricesInAreNat
  <2> QED
    BY <2>2
<1>5. ASSUME NEW k \in DOMAIN names, NEW i \in DOMAIN groups, groups[i].id = names[k]
      PROVE  a[k] = b[i]
  <2>1. ById(groups, names[k]) = groups[i] /\ groups[i] \in Groups /\ groups[i] \in ToSet(groups)
    BY <1>1, <1>5, ByIdFinds DEF GroupsOK, ToSet
  <2>2. Picked(line, groups[i]) = line.picks[k].options
    BY <1>5, PickedThere
  <2>3. /\ IsInjective(line.picks[k].options) /\ line.picks[k].options \in Seq(STRING)
        /\ \A o \in ToSet(line.picks[k].options) : Offers(groups[i], o)
    BY <2>1, <2>2, PickedIsOffered, PickedIsSeq
  <2>4. PickCents(groups[i], line.picks[k].options)
          = PricesIn(groups[i], ToSet(line.picks[k].options))
    BY <2>1, <2>3, PickCentsAre DEF GroupsOK
  <2> QED
    BY <2>1, <2>2, <2>4
<1>6. ASSUME NEW i \in DOMAIN groups, groups[i].id \notin ToSet(names)
      PROVE  b[i] = 0
  <2>1. \A k \in DOMAIN line.picks : line.picks[k].group # groups[i].id
    BY <1>6 DEF ToSet
  <2>2. ToSet(Picked(line, groups[i])) = {}
    BY <2>1, PickedNowhere DEF ToSet
  <2>3. groups[i] \in Groups
    BY <1>1
  <2> QED
    BY <2>2, <2>3, PricesInAreNat
<1>7. a = [k \in DOMAIN names |-> a[k]]
  OBVIOUS
<1>8. PicksCents(groups, line.picks) = SumOf(a) /\ InMenuOrder(groups, line) = SumOf(b)
  BY DEF PicksCents, InMenuOrder
<1> HIDE DEF a, b, names
<1>10. Named(a, names, b, groups)
  BY <1>2, <1>3, <1>4, <1>5, <1>6, <1>7 DEF Named, GroupsOK
<1>9. SumOf(a) = SumOf(b)
  BY <1>1, <1>2, <1>10, SumOfNamed
<1> QED
  BY <1>8, <1>9

\* The canonical form of an allowed line has the same picks in the order of the menu.
LEMMA CanonicalPicksAre ==
  ASSUME NEW groups, GroupsOK(groups), NEW line, PicksApart(line), PicksAllowed(groups, line)
  PROVE  LET chosen == Filter(groups, {g \in ToSet(groups) : PickAt(line, g) # 0}) IN
         CanonicalPicks(groups, line)
           = [k \in DOMAIN chosen |->
               [group |-> chosen[k].id, options |-> Picked(line, chosen[k])]]
<1> DEFINE chosen == Filter(groups, {g \in ToSet(groups) : PickAt(line, g) # 0})
           options(k) == LET picked == Picked(line, chosen[k]) IN
                         Filter(picked, {o \in ToSet(picked) : Offers(chosen[k], o)})
<1>1. CanonicalPicks(groups, line)
        = [k \in DOMAIN chosen |-> [group |-> chosen[k].id, options |-> options(k)]]
  BY DEF CanonicalPicks
<1>2. ASSUME NEW k \in DOMAIN chosen PROVE options(k) = Picked(line, chosen[k])
  <2>1. chosen[k] \in ToSet(groups)
    <3>1. ToSet(chosen) \subseteq ToSet(groups)
      BY FilterKeeps DEF GroupsOK
    <3>2. chosen[k] \in ToSet(chosen)
      BY DEF ToSet
    <3> QED
      BY <3>1, <3>2
  <2> DEFINE picked == Picked(line, chosen[k])
             S == {o \in ToSet(picked) : Offers(chosen[k], o)}
  <2>2. picked \in Seq(STRING)
    BY PickedIsSeq
  <2>3. \A o \in ToSet(picked) : Offers(chosen[k], o)
    BY <2>1, PickedIsOffered
  <2>4. \A i \in DOMAIN picked : picked[i] \in S
    BY <2>3 DEF ToSet
  <2>5. Filter(picked, S) = picked
    <3> HIDE DEF picked, S
    <3> QED
      BY <2>2, <2>4, FilterAll
  <2> QED
    BY <2>5
<1> HIDE DEF options, chosen
<1>3. CanonicalPicks(groups, line)
        = [k \in DOMAIN chosen |-> [group |-> chosen[k].id, options |-> Picked(line, chosen[k])]]
  BY <1>1, <1>2
<1> QED
  BY <1>3 DEF chosen

LEMMA CanonicalPicksSame ==
  ASSUME NEW groups, GroupsOK(groups), NEW line, PicksApart(line), PicksAllowed(groups, line),
         NEW stored, stored.picks = CanonicalPicks(groups, line)
  PROVE  /\ PicksApart(stored) /\ PicksAllowed(groups, stored)
         /\ \A g \in ToSet(groups) : /\ Picked(stored, g) = Picked(line, g)
                                     /\ PickAt(stored, g) # 0 <=> PickAt(line, g) # 0
<1> DEFINE S == {g \in ToSet(groups) : PickAt(line, g) # 0}
           chosen == Filter(groups, S)
<1>1. /\ chosen \in Seq(Groups) /\ ToSet(chosen) = ToSet(groups) \cap S /\ Distinct(chosen)
      /\ groups \in Seq(Groups)
  BY FilterKeeps, FilterDistinct DEF GroupsOK
<1>2. stored.picks = [k \in DOMAIN chosen |->
                       [group |-> chosen[k].id, options |-> Picked(line, chosen[k])]]
  BY CanonicalPicksAre
<1> HIDE DEF chosen
<1>3. \A k \in DOMAIN chosen : /\ chosen[k] \in Groups /\ chosen[k] \in ToSet(groups)
                               /\ PickAt(line, chosen[k]) # 0
  <2> SUFFICES ASSUME NEW k \in DOMAIN chosen PROVE chosen[k] \in Groups /\ chosen[k] \in S
    OBVIOUS
  <2>1. chosen[k] \in ToSet(chosen) /\ chosen[k] \in Groups
    BY <1>1 DEF ToSet
  <2> HIDE DEF S
  <2> QED
    BY <1>1, <2>1
<1>4. PicksApart(stored)
  <2>1. \A k \in DOMAIN chosen : chosen[k].id \in STRING /\ Picked(line, chosen[k]) \in Seq(STRING)
    BY <1>3, PickedIsSeq DEF Groups
  <2>2. \A k \in DOMAIN chosen :
          [group |-> chosen[k].id, options |-> Picked(line, chosen[k])] \in PickRecords
    BY <2>1 DEF PickRecords
  <2>3. stored.picks \in Seq(PickRecords)
    BY <1>1, <1>2, <2>2
  <2>4. \A i, j \in DOMAIN stored.picks : stored.picks[i].group = stored.picks[j].group => i = j
    BY <1>1, <1>2 DEF Distinct
  <2> QED
    BY <2>3, <2>4 DEF PicksApart
<1>5. \A g, h \in ToSet(groups) : g.id = h.id => g = h
  BY DEF GroupsOK, Distinct, ToSet
<1>6. ASSUME NEW g \in ToSet(groups)
      PROVE  /\ Picked(stored, g) = Picked(line, g)
             /\ PickAt(stored, g) # 0 <=> PickAt(line, g) # 0
  <2>1. CASE PickAt(line, g) # 0
    <3>1. PICK k \in DOMAIN chosen : chosen[k] = g
      BY <1>1, <2>1 DEF ToSet
    <3>2. k \in DOMAIN stored.picks /\ k # 0
      BY <1>1, <1>2
    <3>3. stored.picks[k].group = g.id /\ stored.picks[k].options = Picked(line, g)
      BY <1>2, <3>1
    <3> QED
      BY <1>4, <2>1, <3>2, <3>3, PickedThere
  <2>2. CASE PickAt(line, g) = 0
    <3>1. \A k \in DOMAIN stored.picks : stored.picks[k].group # g.id
      BY <1>2, <1>3, <1>5, <2>2
    <3>2. PickAt(stored, g) = 0 /\ Picked(stored, g) = <<>>
      BY <1>4, <3>1, PickedNowhere
    <3>3. Picked(line, g) = <<>>
      BY <2>2 DEF Picked
    <3> QED
      BY <2>2, <3>2, <3>3
  <2> QED
    BY <2>1, <2>2
<1>7. PicksAllowed(groups, stored)
  <2>1. ASSUME NEW p \in ToSet(stored.picks)
        PROVE  /\ p.group \in Ids(groups) /\ IsInjective(p.options)
               /\ \A o \in ToSet(p.options) : Offers(ById(groups, p.group), o)
    <3>1. PICK k \in DOMAIN chosen :
            p = [group |-> chosen[k].id, options |-> Picked(line, chosen[k])]
      BY <1>2 DEF ToSet
    <3>2. PICK i \in DOMAIN groups : groups[i] = chosen[k]
      BY <1>3 DEF ToSet
    <3>3. ById(groups, p.group) = chosen[k]
      BY <1>1, <3>1, <3>2, ByIdFinds DEF GroupsOK
    <3>4. p.group \in Ids(groups)
      BY <1>3, <3>1 DEF Ids
    <3> QED
      BY <1>3, <3>1, <3>3, <3>4, PickedIsOffered
  <2>2. \A g \in ToSet(groups) : Len(Picked(stored, g)) \in g.least .. g.most
    BY <1>6 DEF PicksAllowed
  <2> QED
    BY <1>4, <2>1, <2>2 DEF PicksAllowed, PicksApart
<1> QED
  BY <1>4, <1>6, <1>7

(***************************************************************************)
(* A sound catalogue, and the price of a line.                             *)
(***************************************************************************)
\* The bounds of a group once they are spelt out.
BoundsOK(g) == g.least \in Nat /\ g.most \in Nat /\ (g.required => g.least >= 1)

\* A dish of a catalogue that has been normalised.
DishOK(m) ==
  /\ m \in Dishes /\ GroupsOK(m.groups)
  /\ \A g \in ToSet(m.groups) : BoundsOK(g)

SnapshotOK(c) ==
  /\ \A r \in DOMAIN c.restaurants : c.restaurants[r].fee \in Nat
  /\ \A m \in DOMAIN c.menu :
       DishOK(c.menu[m]) /\ c.menu[m].restaurant \in DOMAIN c.restaurants

LEMMA NormalGroups ==
  ASSUME NEW g \in Groups, Satisfiable(g)
  PROVE  /\ NormalGroup(g) \in Groups /\ NormalGroup(g).id = g.id
         /\ NormalGroup(g).options = g.options
         /\ BoundsOK(NormalGroup(g))
<1>1. /\ g.options \in Seq(Options) /\ g.id \in STRING /\ g.name \in STRING
      /\ g.type \in {"single", "multiple"} /\ g.required \in BOOLEAN
      /\ g.least \in Nat \union {Unset} /\ g.most \in (Nat \ {0}) \union {Unset}
      /\ g.default \in STRING \union {Unset}
  BY DEF Groups
<1>2. Least(g) \in Nat /\ Most(g) \in Nat \ {0} /\ (g.required => Least(g) >= 1)
  <2>1. Len(g.options) \in Nat \ {0} /\ (g.required => Least(g) >= 1)
    BY <1>1 DEF Satisfiable
  <2>2. Least(g) \in Nat /\ Most(g) \in Nat \ {0}
    BY <1>1, <2>1 DEF Least, Most
  <2> QED
    BY <2>1, <2>2
<1>3. DefaultOption(g) \in STRING \union {Unset}
  <2>1. OnOffer(g) \in Seq(Options)
    BY <1>1, FilterKeeps DEF OnOffer
  <2>2. OnOffer(g) # <<>> => Head(OnOffer(g)) \in Options
    BY <2>1
  <2>3. OnOffer(g) # <<>> => Head(OnOffer(g)).id \in STRING
    BY <2>2 DEF Options
  <2> QED
    BY <1>1, <2>3 DEF DefaultOption
<1>4. ASSUME NEW l \in Nat, NEW u \in Nat \ {0}, NEW d \in STRING \union {Unset}
      PROVE  LET n == [g EXCEPT !.least = l, !.most = u, !.default = d]
             IN /\ n.id = g.id /\ n.options = g.options /\ n.least = l /\ n.most = u
                /\ n.required = g.required /\ n \in Groups
  <2> DEFINE n == [g EXCEPT !.least = l, !.most = u, !.default = d]
  <2>1. DOMAIN g = {"id", "name", "type", "required", "least", "most", "default", "options"}
    BY DEF Groups
  <2>2. /\ n.id = g.id /\ n.name = g.name /\ n.type = g.type /\ n.required = g.required
        /\ n.least = l /\ n.most = u /\ n.default = d /\ n.options = g.options
        /\ DOMAIN n = DOMAIN g
    BY <2>1
  <2>3. n = [x \in DOMAIN n |-> n[x]]
    OBVIOUS
  <2> HIDE DEF n
  <2>4. n \in Groups
    BY <1>1, <2>1, <2>2, <2>3 DEF Groups
  <2> QED
    BY <2>2, <2>4 DEF n
<1>5. LET n == [g EXCEPT !.least = Least(g), !.most = Most(g), !.default = DefaultOption(g)]
      IN /\ n.id = g.id /\ n.options = g.options /\ n.least = Least(g) /\ n.most = Most(g)
         /\ n.required = g.required /\ n \in Groups
  BY <1>2, <1>3, <1>4, Zenon
<1> DEFINE n == [g EXCEPT !.least = Least(g), !.most = Most(g), !.default = DefaultOption(g)]
<1>6. NormalGroup(g) = n
  BY DEF NormalGroup
<1> HIDE DEF n
<1> QED
  BY <1>2, <1>5, <1>6 DEF n, BoundsOK

LEMMA NormalIsOK ==
  ASSUME NEW c, IsCatalog(c), Sound(c)
  PROVE  /\ SnapshotOK(Normal(c)) /\ DOMAIN Normal(c).menu = DOMAIN c.menu
         /\ Normal(c).restaurants = c.restaurants
<1>1. /\ Normal(c).restaurants = c.restaurants
      /\ Normal(c).menu = [m \in DOMAIN c.menu |-> NormalMenuItem(c.menu[m])]
  BY DEF Normal, IsCatalog
<1>2. ASSUME NEW x \in DOMAIN c.menu
      PROVE  /\ DishOK(NormalMenuItem(c.menu[x]))
             /\ NormalMenuItem(c.menu[x]).restaurant = c.menu[x].restaurant
  <2> DEFINE m == c.menu[x]
             n == NormalMenuItem(m)
  <2>1. m \in Dishes /\ m.groups \in Seq(Groups)
    BY DEF IsCatalog, Dishes
  <2>2. Distinct(m.groups) /\ \A g \in ToSet(m.groups) : Satisfiable(g)
    BY DEF Sound
  <2> HIDE DEF m
  <2>3. n = [restaurant |-> m.restaurant, name |-> m.name, blurb |-> m.blurb, price |-> m.price,
             available |-> m.available,
             groups |-> [k \in DOMAIN m.groups |-> NormalGroup(m.groups[k])]]
    BY <2>1 DEF NormalMenuItem, Dishes
  <2>4. n.groups = [k \in DOMAIN m.groups |-> NormalGroup(m.groups[k])]
    BY <2>3
  <2>5. ASSUME NEW k \in DOMAIN m.groups
        PROVE  /\ NormalGroup(m.groups[k]) \in Groups
               /\ NormalGroup(m.groups[k]).id = m.groups[k].id
               /\ Distinct(NormalGroup(m.groups[k]).options)
               /\ BoundsOK(NormalGroup(m.groups[k]))
    <3>1. m.groups[k] \in Groups /\ Satisfiable(m.groups[k])
      BY <2>1, <2>2 DEF ToSet
    <3> QED
      BY <3>1, NormalGroups DEF Satisfiable
  <2>6. n.groups \in Seq(Groups)
    BY <2>1, <2>4, <2>5
  <2>7. Distinct(n.groups)
    <3> HIDE DEF n
    <3> QED
      BY <2>2, <2>4, <2>5 DEF Distinct
  <2>8. \A g \in ToSet(n.groups) : Distinct(g.options) /\ BoundsOK(g)
    <3> HIDE DEF n
    <3> QED
      BY <2>4, <2>5 DEF ToSet
  <2>9. n \in Dishes
    BY <2>1, <2>3, <2>4, <2>6 DEF Dishes
  <2>10. n.restaurant = m.restaurant
    BY <2>3
  <2> HIDE DEF n
  <2>11. DishOK(n)
    BY <2>6, <2>7, <2>8, <2>9 DEF DishOK, GroupsOK
  <2> QED
    BY <2>10, <2>11 DEF n, m
<1> QED
  BY <1>1, <1>2 DEF SnapshotOK, IsCatalog

LEMMA InMenuOrderIsNat ==
  ASSUME NEW groups, GroupsOK(groups), NEW line
  PROVE  InMenuOrder(groups, line) \in Nat
<1> DEFINE b == [i \in DOMAIN groups |-> PricesIn(groups[i], ToSet(Picked(line, groups[i])))]
<1>1. groups \in Seq(Groups) /\ Len(groups) \in Nat /\ DOMAIN groups = 1 .. Len(groups)
  BY DEF GroupsOK
<1>2. \A i \in 1 .. Len(groups) : groups[i] \in Groups
  BY <1>1
<1>3. b \in [1 .. Len(groups) -> Nat]
  BY <1>1, <1>2, PricesInAreNat
<1> HIDE DEF b
<1> QED
  BY <1>1, <1>3, SumIsNat DEF InMenuOrder, b

\* The lines of a basket, sent or stored, as far as rules and prices look at them.
LineOK(l) == l.picks \in Seq(PickRecords)

\* Ids as JSON carries them.
Spelt(l) == l.id \in STRING /\ l.restaurant \in STRING /\ l.item \in STRING

BasketOK(b) == b \in Seq(ToSet(b)) /\ \A i \in DOMAIN b : LineOK(b[i])

LEMMA InMenuOrderSame ==
  ASSUME NEW groups, NEW line, NEW other,
         \A g \in ToSet(groups) : Picked(line, g) = Picked(other, g)
  PROVE  InMenuOrder(groups, line) = InMenuOrder(groups, other)
<1>1. \A i \in DOMAIN groups : groups[i] \in ToSet(groups)
  BY DEF ToSet
<1>2. [i \in DOMAIN groups |-> PricesIn(groups[i], ToSet(Picked(line, groups[i])))]
        = [i \in DOMAIN groups |-> PricesIn(groups[i], ToSet(Picked(other, groups[i])))]
  BY <1>1
<1> QED
  BY <1>2 DEF InMenuOrder
=============================================================================
