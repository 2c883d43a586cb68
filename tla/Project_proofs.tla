--------------------------- MODULE Project_proofs ---------------------------
(***************************************************************************)
(* Proofs about the contents of a project (Project.tla), for any columns,  *)
(* settings, samples, digits of the text and bounds: tables stay           *)
(* rectangular and survive a save and a load, a zero stays that of its     *)
(* reference, and the two ways to average a measurement agree.             *)
(***************************************************************************)
EXTENDS Project, FunctionTheorems, FiniteSetTheorems, SequenceTheorems, WellFoundedInduction, TLAPS

-----------------------------------------------------------------------------
(* Arithmetic                                                              *)

\* A set of numbers with 0 and the successor of each of its members is Nat.
LEMMA Induction ==
    ASSUME NEW S \in SUBSET Nat, 0 \in S, \A n \in S : n + 1 \in S
    PROVE  S = Nat
<1> DEFINE R == {ss \in Nat \X Nat : ss[1] < ss[2]}
           T == Nat \ S
<1>1. IsWellFoundedOn(R, Nat)
  BY NatLessThanWellFounded, Zenon DEF OpToRel
<1>2. SUFFICES ASSUME T # {} PROVE FALSE
  OBVIOUS
<1>3. PICK n \in T : \A m \in T : ~(<<m, n>> \in R)
  <2>1. T \subseteq Nat
    OBVIOUS
  <2>2. QED
    BY <1>1, <1>2, <2>1, WFMin
<1>4. n \in Nat /\ n # 0 /\ n - 1 \in Nat
  OBVIOUS
<1>5. n - 1 \notin S
  BY <1>4
<1>6. <<n - 1, n>> \in R
  BY <1>4
<1>7. QED
  BY <1>3, <1>4, <1>5, <1>6

LEMMA Division ==
    ASSUME NEW x \in Int, NEW d \in Nat \ {0}
    PROVE  /\ x \div d \in Int
           /\ x % d \in 0 .. d - 1
           /\ x = d * (x \div d) + (x % d)
OBVIOUS

LEMMA Products ==
    ASSUME NEW d \in Nat, NEW x \in Int, NEW y \in Int, x <= y
    PROVE  d * x <= d * y
OBVIOUS

LEMMA OneMore ==
    ASSUME NEW k \in Nat, NEW x \in Int
    PROVE  (k + 1) * x = k * x + x /\ k * x \in Int
OBVIOUS

LEMMA Quotient ==
    ASSUME NEW d \in Nat \ {0}, NEW q \in Int, NEW r \in 0 .. d - 1
    PROVE  /\ (q * d + r) \div d = q
           /\ (q * d + r) % d = r
OBVIOUS

LEMMA Rounding ==
    ASSUME NEW d \in Nat \ {0}, NEW x \in Int
    PROVE  /\ Rounded(x, d) \in Int
           /\ x - Rounded(x, d) \in -d .. d
           /\ Rounded(x, d) - x \in -d .. d
           /\ Rounded(Rounded(x, d), d) = Rounded(x, d)
<1> DEFINE q == (2 * x + d) \div (2 * d)
           r == (2 * x + d) % (2 * d)
<1>1. q \in Int /\ r \in 0 .. 2 * d - 1 /\ 2 * x + d = (2 * d) * q + r
  <2>1. 2 * x + d \in Int /\ 2 * d \in Nat \ {0}
    OBVIOUS
  <2>2. \A y \in Int, e \in Nat \ {0} :
           y \div e \in Int /\ y % e \in 0 .. e - 1 /\ y = e * (y \div e) + (y % e)
    BY Division, Zenon
  <2>3. QED
    BY <2>1, <2>2, Zenon
<1>2. Rounded(x, d) = d * q /\ d * q \in Int /\ (2 * d) * q = 2 * (d * q)
  BY <1>1 DEF Rounded
<1>3. (2 * (d * q) + d) \div (2 * d) = q
  <2>1. 2 * (d * q) + d = q * (2 * d) + d
    BY <1>1
  <2>2. d \in 0 .. 2 * d - 1 /\ 2 * d \in Nat \ {0}
    OBVIOUS
  <2>3. QED
    BY <1>1, <2>1, <2>2, Quotient
<1>4. Rounded(d * q, d) = d * q
  BY <1>3 DEF Rounded
<1> HIDE DEF q, r
<1>5. QED
  BY <1>1, <1>2, <1>4

-----------------------------------------------------------------------------
(* The loops over a group                                                  *)

Sums == [sum : Int, min : Int, max : Int]

\* One turn of the three loops, and all of them
Turn(a, v) ==
    [sum |-> a.sum + v, min |-> IF v < a.min THEN v ELSE a.min,
     max |-> IF v > a.max THEN v ELSE a.max]
Turns(s, a) ==
    [i \in 0 .. Len(s) |->
        IF i = 0 THEN [sum |-> 0, min |-> s[1], max |-> s[1]] ELSE Turn(a[i - 1], s[i])]

(* The recursion is well defined: there is a function of all its turns.    *)
LEMMA TurnsExist ==
    ASSUME NEW s \in Seq(Int), Len(s) > 0
    PROVE  \E a \in [0 .. Len(s) -> Sums] : a = Turns(s, a)
<1> DEFINE n == Len(s)
           Start == [sum |-> 0, min |-> s[1], max |-> s[1]]
           Good(a, k) == /\ a \in [0 .. n -> Sums]
                         /\ a[0] = Start
                         /\ \A i \in 1 .. n : i <= k => a[i] = Turn(a[i - 1], s[i])
           S == {k \in Nat : \E a \in [0 .. n -> Sums] : Good(a, k)}
<1>1. n \in Nat /\ n > 0 /\ s \in [1 .. n -> Int]
  OBVIOUS
<1>2. Start \in Sums
  BY <1>1 DEF Sums
<1>3. \A b \in Sums, v \in Int : Turn(b, v) \in Sums
  BY DEF Sums, Turn
<1> HIDE DEF n, Start
<1>4. 0 \in S
  <2>1. [i \in 0 .. n |-> Start] \in [0 .. n -> Sums]
    BY <1>2
  <2>2. Good([i \in 0 .. n |-> Start], 0)
    BY <1>1, <1>2
  <2>3. QED
    BY <2>1, <2>2
<1>5. ASSUME NEW k \in S
      PROVE  k + 1 \in S
  <2>1. PICK a \in [0 .. n -> Sums] : Good(a, k)
    OBVIOUS
  <2>2. CASE k + 1 > n
    BY <1>1, <2>1, <2>2
  <2>3. CASE k + 1 <= n
    <3> DEFINE b == [a EXCEPT ![k + 1] = Turn(a[k], s[k + 1])]
    <3>1. k + 1 \in 1 .. n /\ k \in 0 .. n
      BY <1>1, <2>3
    <3>2. b \in [0 .. n -> Sums]
      BY <1>1, <1>3, <2>1, <3>1
    <3>3. b[0] = Start
      BY <2>1, <3>1
    <3>4. ASSUME NEW i \in 1 .. n, i <= k + 1
          PROVE  b[i] = Turn(b[i - 1], s[i])
      <4>1. CASE i = k + 1
        BY <1>1, <2>1, <3>1, <4>1
      <4>2. CASE i <= k
        <5>1. b[i] = a[i] /\ b[i - 1] = a[i - 1]
          BY <1>1, <2>1, <3>1, <4>2
        <5>2. QED
          BY <2>1, <4>2, <5>1
      <4>3. QED
        BY <3>4, <3>1, <4>1, <4>2
    <3>5. Good(b, k + 1)
      BY <3>2, <3>3, <3>4
    <3>6. k + 1 \in Nat
      OBVIOUS
    <3> HIDE DEF b, Good
    <3>7. QED
      BY <3>2, <3>5, <3>6
  <2>4. QED
    BY <1>1, <2>2, <2>3
<1>6. S = Nat
  <2>1. S \in SUBSET Nat
    OBVIOUS
  <2> HIDE DEF S
  <2>2. QED
    BY <1>4, <1>5, <2>1, Induction
<1>7. PICK a \in [0 .. n -> Sums] : Good(a, n)
  BY <1>1, <1>6
<1>8. a = Turns(s, a)
  <2>1. \A i \in 0 .. n : a[i] = Turns(s, a)[i]
    BY <1>1, <1>7 DEF Turns, n, Start
  <2>2. Turns(s, a) = [i \in 0 .. n |-> Turns(s, a)[i]] /\ a = [i \in 0 .. n |-> a[i]]
    BY <1>7 DEF Turns, n
  <2>3. QED
    BY <2>1, <2>2
<1>9. QED
  BY <1>7, <1>8 DEF n

(* What the loops compute is the last of their turns.                      *)
LEMMA LoopTurns ==
    ASSUME NEW s \in Seq(Int), Len(s) > 0
    PROVE  \E a \in [0 .. Len(s) -> Sums] :
              /\ Loop(s) = a[Len(s)]
              /\ a[0] = [sum |-> 0, min |-> s[1], max |-> s[1]]
              /\ \A i \in 1 .. Len(s) : a[i] = Turn(a[i - 1], s[i])
<1> DEFINE u == CHOOSE a : a = Turns(s, a)
<1>1. u = Turns(s, u)
  BY TurnsExist
<1>2. Loop(s) = u[Len(s)]
  BY DEF Loop, Turns, Turn
<1>3. Len(s) \in Nat /\ s \in [1 .. Len(s) -> Int]
  OBVIOUS
<1> HIDE DEF u
<1>4. /\ u = [i \in 0 .. Len(s) |-> u[i]]
      /\ u[0] = [sum |-> 0, min |-> s[1], max |-> s[1]]
      /\ \A i \in 1 .. Len(s) : u[i] = Turn(u[i - 1], s[i])
  BY <1>1, <1>3 DEF Turns
<1> DEFINE S == {k \in Nat : k <= Len(s) => u[k] \in Sums}
<1>5. 0 \in S
  BY <1>3, <1>4 DEF Sums
<1>6. ASSUME NEW k \in S
      PROVE  k + 1 \in S
  <2>1. \A b \in Sums, v \in Int : Turn(b, v) \in Sums
    BY DEF Sums, Turn
  <2>2. CASE k + 1 <= Len(s)
    <3>1. k + 1 \in 1 .. Len(s) /\ k \in Nat /\ u[k] \in Sums /\ s[k + 1] \in Int
      BY <1>3, <2>2
    <3>2. u[k + 1] = Turn(u[k], s[k + 1])
      <4>1. PICK i \in 1 .. Len(s) : i = k + 1 /\ i - 1 = k
        BY <3>1
      <4>2. QED
        BY <1>4, <4>1
    <3>3. QED
      BY <2>1, <3>1, <3>2
  <2>3. QED
    BY <1>3, <2>2
<1>7. S = Nat
  <2>1. S \in SUBSET Nat
    OBVIOUS
  <2> HIDE DEF S
  <2>2. QED
    BY <1>5, <1>6, <2>1, Induction
<1>8. u \in [0 .. Len(s) -> Sums]
  <2>1. \A i \in 0 .. Len(s) : u[i] \in Sums
    BY <1>3, <1>7
  <2>2. QED
    BY <1>4, <2>1
<1>9. QED
  BY <1>2, <1>4, <1>8

(* The average lies between the least and the greatest value.              *)
LEMMA Between ==
    ASSUME NEW s \in Seq(Int), Len(s) > 0
    PROVE  /\ Loop(s).sum \in Int /\ Loop(s).min \in Int /\ Loop(s).max \in Int
           /\ Average(s) \in Int
           /\ Average(s) \in Loop(s).min .. Loop(s).max
<1>1. PICK a \in [0 .. Len(s) -> Sums] :
              /\ Loop(s) = a[Len(s)]
              /\ a[0] = [sum |-> 0, min |-> s[1], max |-> s[1]]
              /\ \A i \in 1 .. Len(s) : a[i] = Turn(a[i - 1], s[i])
  BY LoopTurns
<1>2. Len(s) \in Nat \ {0} /\ s \in [1 .. Len(s) -> Int]
  OBVIOUS
<1> DEFINE Bounded(k) == k * a[k].min <= a[k].sum /\ a[k].sum <= k * a[k].max
           S == {k \in Nat : k <= Len(s) => Bounded(k)}
<1>3. 0 \in S
  BY <1>1, <1>2
<1>4. ASSUME NEW k \in S
      PROVE  k + 1 \in S
  <2>1. CASE k + 1 <= Len(s)
    <3>1. PICK i \in 1 .. Len(s), v \in Int : i = k + 1 /\ i - 1 = k /\ v = s[i]
      BY <1>2, <2>1
    <3>2. k \in Nat /\ a[k] \in Sums /\ Bounded(k)
      BY <1>1, <1>2, <3>1
    <3>3. a[i] = Turn(a[k], v)
      BY <1>1, <3>1
    <3>4. PICK m \in Int, n \in Int, t \in Int : m = a[k].min /\ n = a[k].max /\ t = a[k].sum
      BY <3>2 DEF Sums
    <3>5. /\ k * m <= t /\ t <= k * n
      BY <3>2, <3>4
    <3>6. PICK p \in Int, q \in Int :
             /\ p = a[i].min /\ q = a[i].max /\ a[i].sum = t + v
             /\ p <= m /\ p <= v /\ n <= q /\ v <= q
      <4>1. a[i].min = (IF v < m THEN v ELSE m) /\ a[i].max = (IF v > n THEN v ELSE n)
            /\ a[i].sum = t + v
        BY <3>3, <3>4 DEF Turn
      <4>2. a[i].min \in Int /\ a[i].max \in Int
        BY <4>1
      <4>3. QED
        BY <4>1, <4>2
    <3>7. k * p <= k * m /\ k * n <= k * q
      BY <3>2, <3>6, Products
    <3>8. (k + 1) * p = k * p + p /\ (k + 1) * q = k * q + q
      BY <3>2, <3>6, OneMore
    <3>9. PICK kp \in Int, kq \in Int, km \in Int, kn \in Int :
             kp = k * p /\ kq = k * q /\ km = k * m /\ kn = k * n
      <4>1. k * p \in Int /\ k * q \in Int /\ k * m \in Int /\ k * n \in Int
        BY <3>2, <3>4, <3>6, OneMore
      <4>2. QED
        BY <4>1, Zenon
    <3>10. kp + p <= t + v /\ t + v <= kq + q
      <4>1. km <= t /\ t <= kn /\ kp <= km /\ kn <= kq
        BY <3>5, <3>7, <3>9
      <4>2. QED
        BY <3>6, <4>1
    <3>11. (k + 1) * p <= t + v /\ t + v <= (k + 1) * q
      BY <3>8, <3>9, <3>10
    <3>12. Bounded(k + 1)
      BY <3>1, <3>6, <3>11
    <3>13. QED
      BY <3>2, <3>12
  <2>2. QED
    BY <2>1
<1>5. S = Nat
  <2>1. S \in SUBSET Nat
    OBVIOUS
  <2> HIDE DEF S
  <2>2. QED
    BY <1>3, <1>4, <2>1, Induction
<1>6. Bounded(Len(s)) /\ a[Len(s)] \in Sums
  BY <1>1, <1>2, <1>5
<1>7. PICK n \in Nat \ {0}, t \in Int, p \in Int, q \in Int :
         /\ n = Len(s) /\ t = Loop(s).sum /\ p = Loop(s).min /\ q = Loop(s).max
         /\ n * p <= t /\ t <= n * q
  BY <1>1, <1>2, <1>6 DEF Sums
<1>8. t \div n \in p .. q
  <2>1. /\ t \div n \in Int /\ t % n \in 0 .. n - 1
        /\ t = n * (t \div n) + (t % n)
    BY Division
  <2>2. PICK d \in Int, r \in Int : d = t \div n /\ r = t % n
    BY <2>1
  <2>3. r \in 0 .. n - 1 /\ t = n * d + r /\ n * d \in Int
    BY <2>1, <2>2
  <2>4. p <= d
    <3>1. SUFFICES ASSUME d + 1 <= p PROVE FALSE
      OBVIOUS
    <3>2. n * (d + 1) <= n * p /\ n * (d + 1) = n * d + n
      BY <3>1, Products
    <3>3. QED
      BY <1>7, <2>3, <3>2
  <2>5. d <= q
    <3>1. SUFFICES ASSUME q + 1 <= d PROVE FALSE
      OBVIOUS
    <3>2. n * (q + 1) <= n * d /\ n * (q + 1) = n * q + n
      BY <3>1, Products
    <3>3. QED
      BY <1>7, <2>3, <3>2
  <2>6. QED
    BY <2>2, <2>4, <2>5
<1>9. s # <<>>
  BY <1>2
<1>10. QED
  BY <1>7, <1>8, <1>9 DEF Average

-----------------------------------------------------------------------------
(* Groups of samples                                                       *)

(* Where the groups start: at the multiples of n, with n rows from each.   *)
LEMMA Groups ==
    ASSUME NEW rows \in Nat, NEW n \in Nat \ {0}
    PROVE  /\ rows \div n \in Nat
           /\ Cardinality(GroupStarts(rows, n)) = rows \div n
           /\ \A r \in GroupStarts(rows, n) : r \in Nat /\ r + n <= rows
<1>1. PICK k \in Int, t \in Int, w \in Int :
         /\ k = rows \div n /\ t = rows % n /\ w = n * k
         /\ t \in 0 .. n - 1 /\ rows = w + t
  <2>1. /\ rows \div n \in Int /\ rows % n \in 0 .. n - 1
        /\ rows = n * (rows \div n) + (rows % n)
    BY Division
  <2>2. n * (rows \div n) \in Int /\ rows % n \in Int
    BY <2>1
  <2>3. QED
    BY <2>1, <2>2
<1>2. k \in Nat
  <2>1. SUFFICES ASSUME k + 1 <= 0 PROVE FALSE
    BY <1>1
  <2>2. n * (k + 1) <= n * 0 /\ n * 0 = 0 /\ n * (k + 1) = n * k + n
    BY <2>1, Products
  <2>3. QED
    BY <1>1, <2>2
<1> DEFINE G == GroupStarts(rows, n)
<1>3. ASSUME NEW r \in G
      PROVE  \E j \in 0 .. k - 1 : r = n * j /\ r + n <= w
  <2>1. r \in Nat /\ r % n = 0 /\ r < w
    BY <1>1 DEF GroupStarts
  <2>2. PICK j \in Int : j = r \div n /\ r = n * j
    <3>1. r \div n \in Int /\ r = n * (r \div n) + (r % n)
      BY <2>1, Division
    <3>2. n * (r \div n) \in Int
      BY <3>1
    <3>3. QED
      BY <2>1, <3>1, <3>2
  <2>3. j + 1 <= k
    <3>1. SUFFICES ASSUME k <= j PROVE FALSE
      BY <2>2
    <3>2. n * k <= n * j
      BY <2>2, <3>1, Products
    <3>3. QED
      BY <1>1, <2>1, <2>2, <3>2
  <2>4. j >= 0
    <3>1. SUFFICES ASSUME j + 1 <= 0 PROVE FALSE
      BY <2>2
    <3>2. n * (j + 1) <= n * 0 /\ n * 0 = 0 /\ n * (j + 1) = n * j + n
      BY <2>2, <3>1, Products
    <3>3. QED
      BY <2>1, <2>2, <3>2
  <2>5. n * (j + 1) <= n * k /\ n * (j + 1) = n * j + n
    BY <2>2, <2>3, Products
  <2>6. r + n <= w
    BY <1>1, <2>1, <2>2, <2>5
  <2>7. j \in 0 .. k - 1
    BY <1>1, <2>2, <2>3, <2>4
  <2>8. QED
    BY <2>2, <2>6, <2>7, Zenon
<1>4. ASSUME NEW j \in 0 .. k - 1
      PROVE  n * j \in G
  <2>1. n * j \in Nat /\ (n * j) % n = 0
    <3>1. n * 0 <= n * j /\ n * 0 = 0 /\ n * j \in Int /\ n * j = j * n + 0
      BY Products
    <3>2. (j * n + 0) % n = 0
      BY Quotient
    <3>3. QED
      BY <3>1, <3>2
  <2>2. n * (j + 1) <= n * k /\ n * (j + 1) = n * j + n
    BY Products
  <2>3. n * j < w /\ n * j \in 0 .. rows - 1
    BY <1>1, <2>1, <2>2
  <2>4. QED
    BY <1>1, <2>1, <2>3 DEF GroupStarts
<1>5. ExistsBijection(1 .. k, G)
  <2> DEFINE f == [j \in 1 .. k |-> n * (j - 1)]
  <2>1. f \in [1 .. k -> G]
    <3>1. \A j \in 1 .. k : j - 1 \in 0 .. k - 1
      BY <1>2
    <3>2. \A j \in 1 .. k : n * (j - 1) \in G
      BY <1>4, <3>1, Zenon
    <3>3. QED
      BY <3>2, Zenon
  <2>2. \A i, j \in 1 .. k : i < j => f[i] # f[j]
    <3>1. SUFFICES ASSUME NEW i \in 1 .. k, NEW j \in 1 .. k, i < j
                   PROVE  n * (i - 1) # n * (j - 1)
      OBVIOUS
    <3>2. PICK x \in Nat, y \in Nat : x = i - 1 /\ y = j - 1 /\ x + 1 <= y
      BY <3>1
    <3>3. n * (x + 1) <= n * y /\ n * (x + 1) = n * x + n /\ n * x \in Int
      BY <3>2, Products
    <3>4. QED
      BY <3>2, <3>3
  <2>3. \A i, j \in 1 .. k : f[i] = f[j] => i = j
    BY <1>2, <2>2
  <2>4. \A r \in G : \E i \in 1 .. k : f[i] = r
    <3>1. SUFFICES ASSUME NEW r \in G PROVE \E i \in 1 .. k : f[i] = r
      OBVIOUS
    <3>2. PICK j \in 0 .. k - 1 : r = n * j
      BY <1>3
    <3>3. PICK i \in 1 .. k : i - 1 = j
      BY <1>2
    <3>4. QED
      BY <3>2, <3>3
  <2> HIDE DEF f, G
  <2>5. f \in Bijection(1 .. k, G)
    BY <2>1, <2>3, <2>4, Fun_IsBij
  <2>6. QED
    BY <2>5 DEF ExistsBijection
<1>6. Cardinality(G) = k
  BY <1>2, <1>5, FS_CountingElements
<1>7. QED
  BY <1>1, <1>2, <1>3, <1>6

-----------------------------------------------------------------------------
(* Types                                                                   *)

Names == {"name", NaN}
Zeros == [ZeroColumns -> Int \cup {NaN}]
Tables == {t \in [Columns -> Seq(Int)] : \A c \in Columns : Len(t[c]) = Len(t[First])}
Even(m) == Len(m.raw[First]) = Len(m.data[First])

References ==
    {m \in [name : Names, conf : ReferenceConfs, data : Tables, raw : Tables] : Even(m)}

\* A settling time may have been lost in a file.
Settings == {[c EXCEPT !.settling_time = t] : c \in Confs, t \in Int}
Measurements ==
    {m \in [name : Names, ref_name : Names, zero : Zeros, conf : Settings,
            data : Tables, raw : Tables] : Even(m)}

Takings == [name : Names, matrix : {c.matrix : c \in ReferenceConfs}, zero : Zeros]

LEMMA SequenceOf ==
    ASSUME NEW S, NEW n \in Nat, NEW f \in [1 .. n -> S]
    PROVE  f \in Seq(S) /\ Len(f) = n /\ DOMAIN f = 1 .. n
OBVIOUS

LEMMA SettingsForm ==
    ASSUME NEW d \in Settings
    PROVE  /\ d = Conf(d.matrix, d.measures_per_iteration, d.start, d.settling_time,
                       d.end, d.step, d.control, d.iterations)
           /\ d.settling_time \in Int
           /\ d.measures_per_iteration \in Nat \ {0}
           /\ \A t \in Int : [d EXCEPT !.settling_time = t] \in Settings
<1>1. PICK c \in Confs, s \in Int : d = [c EXCEPT !.settling_time = s]
  BY DEF Settings
<1>2. /\ c = Conf(c.matrix, c.measures_per_iteration, c.start, c.settling_time,
                  c.end, c.step, c.control, c.iterations)
      /\ c.measures_per_iteration \in Nat \ {0}
  BY ProjectAssumption
<1>3. d = Conf(c.matrix, c.measures_per_iteration, c.start, s,
               c.end, c.step, c.control, c.iterations)
  BY <1>1, <1>2 DEF Conf
<1>4. ASSUME NEW t \in Int
      PROVE  [d EXCEPT !.settling_time = t] \in Settings
  <2>1. [d EXCEPT !.settling_time = t] = [c EXCEPT !.settling_time = t]
    BY <1>2, <1>3 DEF Conf
  <2>2. QED
    BY <2>1 DEF Settings
<1>5. QED
  BY <1>2, <1>3, <1>4 DEF Conf

-----------------------------------------------------------------------------
(* Tables as text                                                          *)

\* A table read back from a file that has the columns of S, n rows of them
Text(table, S, n) ==
    [c \in Columns |-> [r \in 1 .. n |->
        IF c \in S THEN Number(table[c][r], Digit15) ELSE 0]]

LEMMA TextTable ==
    ASSUME NEW t \in Tables, NEW S \in SUBSET Columns, NEW n \in Nat, n = Len(t[First])
    PROVE  /\ Text(t, S, n) \in Tables
           /\ \A c \in Columns : Len(Text(t, S, n)[c]) = n
           /\ SameTable(Text(t, S, n), t, S)
<1>1. \A c \in Columns : t[c] \in Seq(Int) /\ Len(t[c]) = n
  BY DEF Tables
<1>2. \A c \in Columns, r \in 1 .. n : t[c][r] \in Int
  BY <1>1
<1>3. Digit15 \in Nat \ {0} /\ NaN \notin Int /\ First \in Columns
  BY ProjectAssumption
<1>4. ASSUME NEW x \in Int
      PROVE  Number(x, Digit15) \in Int /\ Close(Number(x, Digit15), x, Digit15)
  <2>1. Number(x, Digit15) = Rounded(x, Digit15)
    BY <1>3 DEF Number
  <2>2. Rounded(x, Digit15) \in Int /\ Rounded(x, Digit15) - x \in -Digit15 .. Digit15
    BY <1>3, Rounding
  <2>3. QED
    BY <1>3, <2>1, <2>2 DEF Close
<1>5. ASSUME NEW c \in Columns
      PROVE  /\ Text(t, S, n)[c] \in Seq(Int)
             /\ Len(Text(t, S, n)[c]) = n
             /\ DOMAIN Text(t, S, n)[c] = 1 .. n
  <2>1. Text(t, S, n)[c] \in [1 .. n -> Int]
    <3>1. Text(t, S, n)[c] =
             [r \in 1 .. n |-> IF c \in S THEN Number(t[c][r], Digit15) ELSE 0]
      BY DEF Text
    <3>2. \A r \in 1 .. n : t[c][r] \in Int /\ Number(t[c][r], Digit15) \in Int
      BY <1>2, <1>4, Zenon
    <3>3. QED
      BY <3>1, <3>2
  <2>2. QED
    BY <2>1, SequenceOf
<1>6. Text(t, S, n) \in Tables
  <2>1. Text(t, S, n) \in [Columns -> Seq(Int)]
    BY <1>5 DEF Text
  <2>2. QED
    BY <1>3, <1>5, <2>1 DEF Tables
<1>7. SameTable(Text(t, S, n), t, S)
  <2>1. ASSUME NEW c \in S, NEW r \in 1 .. n
        PROVE  Close(Text(t, S, n)[c][r], t[c][r], Digit15)
    BY <1>2, <1>4 DEF Text
  <2>2. QED
    BY <1>1, <1>5, <2>1 DEF SameTable
<1>8. QED
  BY <1>5, <1>6, <1>7

LEMMA TablesOfText ==
    ASSUME NEW m, "data" \in DOMAIN m, "raw" \in DOMAIN m,
           NEW x, Even(x), RowCount(x) \in Nat, NEW S \in SUBSET Columns,
           NEW e, e.data = Items(x, x.data, S), e.raw_data = Items(x, x.raw, S)
    PROVE  LoadTables(m, e) = [m EXCEPT !.data = Text(x.data, S, RowCount(x)),
                                        !.raw = Text(x.raw, S, RowCount(x))]
<1> DEFINE n == RowCount(x)
           m1 == InsertItems(m, e.data)
<1>1. First \in Columns
  BY ProjectAssumption
<1>2. /\ DOMAIN e.data = 1 .. n /\ DOMAIN e.raw_data = 1 .. n
      /\ \A r \in 1 .. n : /\ DOMAIN e.data[r] = S /\ DOMAIN e.raw_data[r] = S
                           /\ \A c \in S : /\ e.data[r][c] = Number(x.data[c][r], Digit15)
                                           /\ e.raw_data[r][c] = Number(x.raw[c][r], Digit15)
  BY DEF Items, RowIndices
<1>3. m1.data = Text(x.data, S, n)
  <2>1. m1.data = [c \in Columns |-> [r \in DOMAIN e.data |->
                          IF c \in DOMAIN e.data[r] THEN e.data[r][c] ELSE 0]]
    BY DEF InsertItems
  <2>2. QED
    BY <1>2, <2>1 DEF Text
<1>4. m1.raw = [c \in Columns |-> [r \in 1 .. n |-> 0]]
  BY <1>2 DEF InsertItems
<1>5. RowIndices(m1) = 1 .. n
  <2>1. m1.data[First] \in [1 .. n -> {m1.data[First][i] : i \in 1 .. n}]
    BY <1>1, <1>3 DEF Text
  <2>2. Len(m1.data[First]) = n
    BY <2>1, SequenceOf
  <2>3. QED
    BY <2>2 DEF RowIndices, RowCount
<1>6. [c \in Columns |-> [r \in RowIndices(m1) |->
         IF r \in DOMAIN e.raw_data /\ c \in DOMAIN e.raw_data[r] THEN e.raw_data[r][c]
         ELSE m1.raw[c][r]]] = Text(x.raw, S, n)
  BY <1>2, <1>4, <1>5 DEF Text
<1>7. LoadTables(m, e) = [m1 EXCEPT !.raw = Text(x.raw, S, n)]
  BY <1>6 DEF LoadTables, SetRawItems
<1>8. QED
  BY <1>3, <1>7 DEF InsertItems

-----------------------------------------------------------------------------
(* One model, saved and loaded                                             *)

LEMMA ReferenceKept ==
    ASSUME NEW x \in References
    PROVE  /\ LoadReference(SaveReference(x)) \in References
           /\ SameReference(LoadReference(SaveReference(x)), x)
<1> DEFINE n == RowCount(x)
           e == SaveReference(x)
           y == LoadReference(e)
<1>1. First \in Columns /\ ZeroColumns \in SUBSET Columns
  BY ProjectAssumption
<1>2. /\ x.name \in Names /\ x.conf \in ReferenceConfs
      /\ x.data \in Tables /\ x.raw \in Tables /\ Even(x)
  BY DEF References
<1>3. x.conf = ReferenceConf(x.conf.matrix, x.conf.measures_per_iteration, x.conf.start)
  BY <1>2, ProjectAssumption
<1>4. n \in Nat /\ n = Len(x.data[First]) /\ n = Len(x.raw[First])
  <2>1. x.data[First] \in Seq(Int)
    BY <1>1, <1>2 DEF Tables
  <2>2. n = Len(x.data[First]) /\ n = Len(x.raw[First])
    BY <1>2 DEF RowCount, Even
  <2>3. QED
    BY <2>1, <2>2
<1>5. y = [name |-> x.name, conf |-> x.conf,
           data |-> Text(x.data, ZeroColumns, n), raw |-> Text(x.raw, ZeroColumns, n)]
  <2> DEFINE m == [name |-> x.name, conf |-> x.conf, data |-> EmptyTable, raw |-> EmptyTable]
  <2>1. y = LoadTables(m, e)
    <3>1. m = [NewReferenceModel EXCEPT
                 !.name = e.name,
                 !.conf = ReferenceConf(e.options, e.measures_per_iteration,
                                        e.start_values)]
      <4>1. /\ e.name = x.name
            /\ ReferenceConf(e.options, e.measures_per_iteration, e.start_values) = x.conf
        BY <1>3 DEF SaveReference
      <4>2. [NewReferenceModel EXCEPT !.name = x.name, !.conf = x.conf]
               \in [name : {x.name}, conf : {x.conf}, data : {EmptyTable}, raw : {EmptyTable}]
        BY DEF NewReferenceModel
      <4>3. \A v \in [name : {x.name}, conf : {x.conf}, data : {EmptyTable},
                     raw : {EmptyTable}] : v = m
        OBVIOUS
      <4>4. m = [NewReferenceModel EXCEPT !.name = x.name, !.conf = x.conf]
        BY <4>2, <4>3, Zenon
      <4>5. QED
        BY <4>1, <4>4
    <3> HIDE DEF m, e
    <3>2. QED
      BY <3>1 DEF LoadReference
  <2>2. "data" \in DOMAIN m /\ "raw" \in DOMAIN m
    OBVIOUS
  <2>3. /\ e.data = Items(x, x.data, ZeroColumns)
        /\ e.raw_data = Items(x, x.raw, ZeroColumns)
    BY DEF SaveReference
  <2>4. LoadTables(m, e) = [m EXCEPT !.data = Text(x.data, ZeroColumns, n),
                                     !.raw = Text(x.raw, ZeroColumns, n)]
    <3> HIDE DEF m, e
    <3>1. QED
      BY <1>1, <1>2, <1>4, <2>2, <2>3, TablesOfText
  <2>5. QED
    BY <2>1, <2>4
<1>6. /\ Text(x.data, ZeroColumns, n) \in Tables /\ Text(x.raw, ZeroColumns, n) \in Tables
      /\ Len(Text(x.data, ZeroColumns, n)[First]) = n
      /\ Len(Text(x.raw, ZeroColumns, n)[First]) = n
      /\ SameTable(Text(x.data, ZeroColumns, n), x.data, ZeroColumns)
      /\ SameTable(Text(x.raw, ZeroColumns, n), x.raw, ZeroColumns)
  BY <1>1, <1>2, <1>4, TextTable
<1> HIDE DEF n, e, y
<1>7. y \in References
  BY <1>2, <1>5, <1>6 DEF References, Even
<1>8. SameReference(y, x)
  BY <1>5, <1>6 DEF SameReference
<1>9. QED
  BY <1>7, <1>8 DEF y, e

\* The zero of a measurement is taken as it is from its reference, or as its text
TakenFrom(m, t) ==
    /\ m.ref_name = t.name
    /\ MATRIX_ALLOW \/ m.conf.matrix = t.matrix
    /\ \A z \in ZeroColumns : m.zero[z] \in {t.zero[z], Number(t.zero[z], Digit10)}

LEMMA TextOfText ==
    ASSUME NEW x \in Int \cup {NaN}
    PROVE  /\ Number(x, Digit10) \in Int \cup {NaN}
           /\ Number(Number(x, Digit10), Digit10) = Number(x, Digit10)
           /\ Close(Number(x, Digit10), x, Digit10)
<1>1. Digit10 \in Nat \ {0} /\ NaN \notin Int
  BY ProjectAssumption
<1>2. CASE x = NaN
  BY <1>2 DEF Number, Close
<1>3. CASE x \in Int
  <2>1. /\ Rounded(x, Digit10) \in Int /\ Rounded(x, Digit10) - x \in -Digit10 .. Digit10
        /\ Rounded(Rounded(x, Digit10), Digit10) = Rounded(x, Digit10)
    BY <1>1, <1>3, Rounding
  <2>2. Number(x, Digit10) = Rounded(x, Digit10)
    BY <1>1, <1>3 DEF Number
  <2>3. Number(Number(x, Digit10), Digit10) = Rounded(Rounded(x, Digit10), Digit10)
    BY <1>1, <2>1, <2>2 DEF Number
  <2>4. QED
    BY <1>1, <1>3, <2>1, <2>2, <2>3 DEF Close
<1>4. QED
  BY <1>2, <1>3

LEMMA MeasurementKept ==
    ASSUME NEW x \in Measurements
    PROVE  /\ LoadMeasurement(SaveMeasurement(x)) \in Measurements
           /\ SameMeasurement(LoadMeasurement(SaveMeasurement(x)), x)
           /\ \A t \in Takings :
                 TakenFrom(x, t) => TakenFrom(LoadMeasurement(SaveMeasurement(x)), t)
<1> DEFINE n == RowCount(x)
           e == SaveMeasurement(x)
           y == LoadMeasurement(e)
<1>1. First \in Columns /\ Columns \in SUBSET Columns
  BY ProjectAssumption
<1>2. /\ x.name \in Names /\ x.ref_name \in Names /\ x.zero \in Zeros
      /\ x.conf \in Settings /\ x.data \in Tables /\ x.raw \in Tables /\ Even(x)
  BY DEF Measurements
<1>3. n \in Nat /\ n = Len(x.data[First]) /\ n = Len(x.raw[First])
  <2>1. x.data[First] \in Seq(Int)
    BY <1>1, <1>2 DEF Tables
  <2>2. n = Len(x.data[First]) /\ n = Len(x.raw[First])
    BY <1>2 DEF RowCount, Even
  <2>3. QED
    BY <2>1, <2>2
<1>4. PICK d \in Settings : d = [x.conf EXCEPT !.settling_time = toInt(@)]
  <2>1. toInt(x.conf.settling_time) \in Int
    BY <1>2, SettingsForm DEF toInt
  <2>2. QED
    BY <1>2, <2>1, SettingsForm
<1>5. y = [name |-> x.name, ref_name |-> x.ref_name, zero |-> ZeroText(x), conf |-> d,
           data |-> Text(x.data, Columns, n), raw |-> Text(x.raw, Columns, n)]
  <2> DEFINE m == [name |-> x.name, ref_name |-> x.ref_name, zero |-> ZeroText(x),
                   conf |-> d, data |-> EmptyTable, raw |-> EmptyTable]
  <2>1. d = Conf(x.conf.matrix, x.conf.measures_per_iteration, x.conf.start,
                 toInt(x.conf.settling_time), x.conf.end, x.conf.step,
                 x.conf.control, x.conf.iterations)
    BY <1>2, <1>4, SettingsForm DEF Conf
  <2>2. y = LoadTables(m, e)
    <3>1. m = [NewMeasurementModel EXCEPT
                 !.name = e.name,
                 !.ref_name = e.data_reference.reference_name,
                 !.zero = e.data_reference.item,
                 !.conf = Conf(e.options, e.measures_per_iteration, e.start_values,
                               toInt(e.settling_time), e.end, e.step,
                               e.control_type, e.iterations)]
      <4>1. /\ e.name = x.name
            /\ e.data_reference.reference_name = x.ref_name
            /\ e.data_reference.item = ZeroText(x)
            /\ Conf(e.options, e.measures_per_iteration, e.start_values,
                    toInt(e.settling_time), e.end, e.step,
                    e.control_type, e.iterations) = d
        BY <2>1 DEF SaveMeasurement
      <4>2. [NewMeasurementModel EXCEPT !.name = x.name, !.ref_name = x.ref_name,
                                        !.zero = ZeroText(x), !.conf = d]
               \in [name : {x.name}, ref_name : {x.ref_name}, zero : {ZeroText(x)},
                    conf : {d}, data : {EmptyTable}, raw : {EmptyTable}]
        BY DEF NewMeasurementModel
      <4>3. \A v \in [name : {x.name}, ref_name : {x.ref_name}, zero : {ZeroText(x)},
                     conf : {d}, data : {EmptyTable}, raw : {EmptyTable}] : v = m
        OBVIOUS
      <4>4. m = [NewMeasurementModel EXCEPT !.name = x.name, !.ref_name = x.ref_name,
                                            !.zero = ZeroText(x), !.conf = d]
        BY <4>2, <4>3, Zenon
      <4>5. QED
        BY <4>1, <4>4
    <3> HIDE DEF m, e
    <3>2. QED
      BY <3>1 DEF LoadMeasurement
  <2>3. "data" \in DOMAIN m /\ "raw" \in DOMAIN m
    OBVIOUS
  <2>4. e.data = Items(x, x.data, Columns) /\ e.raw_data = Items(x, x.raw, Columns)
    BY DEF SaveMeasurement
  <2>5. LoadTables(m, e) = [m EXCEPT !.data = Text(x.data, Columns, n),
                                     !.raw = Text(x.raw, Columns, n)]
    <3> HIDE DEF m, e
    <3>1. QED
      BY <1>1, <1>2, <1>3, <2>3, <2>4, TablesOfText
  <2>6. QED
    BY <2>2, <2>5
<1>6. /\ Text(x.data, Columns, n) \in Tables /\ Text(x.raw, Columns, n) \in Tables
      /\ Len(Text(x.data, Columns, n)[First]) = n
      /\ Len(Text(x.raw, Columns, n)[First]) = n
      /\ SameTable(Text(x.data, Columns, n), x.data, Columns)
      /\ SameTable(Text(x.raw, Columns, n), x.raw, Columns)
  BY <1>1, <1>2, <1>3, TextTable
<1>7. ASSUME NEW z \in ZeroColumns
      PROVE  /\ ZeroText(x)[z] = Number(x.zero[z], Digit10)
             /\ ZeroText(x)[z] \in Int \cup {NaN}
             /\ Close(ZeroText(x)[z], x.zero[z], Digit10)
  BY <1>2, TextOfText DEF ZeroText, Zeros
<1>8. ZeroText(x) \in Zeros
  BY <1>7 DEF ZeroText, Zeros
<1> HIDE DEF n, e, y
<1>9. y \in Measurements
  BY <1>2, <1>5, <1>6, <1>8 DEF Measurements, Even
<1>10. SameMeasurement(y, x)
  <2>1. [d EXCEPT !.settling_time = 0] = [x.conf EXCEPT !.settling_time = 0]
    BY <1>2, <1>4, SettingsForm DEF Conf
  <2>2. QED
    BY <1>5, <1>6, <1>7, <2>1 DEF SameMeasurement
<1>11. ASSUME NEW t \in Takings, TakenFrom(x, t)
       PROVE  TakenFrom(y, t)
  <2>1. d.matrix = x.conf.matrix
    BY <1>2, <1>4, SettingsForm DEF Conf
  <2>2. ASSUME NEW z \in ZeroColumns
        PROVE  y.zero[z] \in {t.zero[z], Number(t.zero[z], Digit10)}
    <3>1. t.zero[z] \in Int \cup {NaN}
      BY DEF Takings, Zeros
    <3>2. x.zero[z] \in {t.zero[z], Number(t.zero[z], Digit10)}
      BY <1>11 DEF TakenFrom
    <3>3. y.zero[z] = Number(x.zero[z], Digit10)
      BY <1>5, <1>7
    <3>4. QED
      BY <3>1, <3>2, <3>3, TextOfText
  <2>3. QED
    BY <1>5, <1>11, <2>1, <2>2 DEF TakenFrom
<1>12. QED
  BY <1>9, <1>10, <1>11 DEF y, e

-----------------------------------------------------------------------------
(* The inductive invariant                                                 *)

ProjectTypeOK ==
    /\ references \in Seq(References)
    /\ measurements \in Seq(Measurements)
    /\ taken \in Seq(Takings)
    /\ running \in {"nothing", "reference", "measurement"} \X Nat
    /\ saved \in [references : Seq(References), measurements : Seq(Measurements),
                  taken : Seq(Takings)]

\* The running model is in its list.
RunningInv ==
    /\ running[1] = "nothing" => running = Nothing
    /\ running[1] = "reference" => running[2] \in 1 .. Len(references)
    /\ running[1] = "measurement" => running[2] \in 1 .. Len(measurements)

\* Each measurement of a list has its zero from what was taken for it.
ZerosOf(measures, takings) ==
    /\ Len(takings) = Len(measures)
    /\ \A i \in 1 .. Len(measures) : TakenFrom(measures[i], takings[i])

ZerosInv ==
    ZerosOf(measurements, taken) /\ ZerosOf(saved.measurements, saved.taken)

\* The file is the text of what was saved.
FileInv == file = SaveLists(saved.references, saved.measurements)

ProjectInv == ProjectTypeOK /\ RunningInv /\ ZerosInv /\ FileInv

-----------------------------------------------------------------------------
(* The operations on models and lists                                      *)

LEMMA EmptyTables == EmptyTable \in Tables /\ Len(EmptyTable[First]) = 0
<1>1. First \in Columns
  BY ProjectAssumption
<1>2. EmptyTable \in [Columns -> Seq(Int)] /\ \A c \in Columns : EmptyTable[c] = <<>>
  BY DEF EmptyTable
<1>3. QED
  BY <1>1, <1>2 DEF Tables

LEMMA FreshReference ==
    ASSUME NEW c \in ReferenceConfs
    PROVE  [NewReferenceModel EXCEPT !.name = "name", !.conf = c] \in References
<1> DEFINE m == [NewReferenceModel EXCEPT !.name = "name", !.conf = c]
<1>1. m \in [name : {"name"}, conf : {c}, data : {EmptyTable}, raw : {EmptyTable}]
  BY DEF NewReferenceModel
<1> HIDE DEF m
<1>2. m \in [name : Names, conf : ReferenceConfs, data : Tables, raw : Tables]
      /\ m.data = EmptyTable /\ m.raw = EmptyTable
  BY <1>1, EmptyTables DEF Names
<1>3. m \in References
  BY <1>2 DEF References, Even
<1>4. QED
  BY <1>3 DEF m

LEMMA AverageType ==
    ASSUME NEW s \in Seq(Int)
    PROVE  Average(s) \in Int \cup {NaN}
<1>1. CASE s = <<>>
  BY <1>1 DEF Average
<1>2. CASE s # <<>>
  <2>1. Len(s) > 0
    BY <1>2, EmptySeq
  <2>2. QED
    BY <2>1, Between
<1>3. QED
  BY <1>1, <1>2

LEMMA FreshMeasurement ==
    ASSUME NEW c \in Confs, NEW ref \in References, NEW zero,
           zero = [z \in ZeroColumns |-> Average(ref.data[z])],
           NEW m, m = [NewMeasurementModel EXCEPT !.name = "name", !.ref_name = ref.name,
                                                  !.conf = c, !.zero = zero],
           NEW t, t = [name |-> ref.name, matrix |-> ref.conf.matrix, zero |-> zero],
           MatrixAccepted(c, ref)
    PROVE  m \in Measurements /\ t \in Takings /\ TakenFrom(m, t)
<1>1. ref.name \in Names /\ ref.conf \in ReferenceConfs /\ ref.data \in Tables
  BY DEF References
<1>2. zero \in Zeros
  <2>1. \A z \in ZeroColumns : ref.data[z] \in Seq(Int)
    BY <1>1, ProjectAssumption DEF Tables
  <2>2. \A z \in ZeroColumns : Average(ref.data[z]) \in Int \cup {NaN}
    BY <2>1, AverageType
  <2>3. QED
    BY <2>2 DEF Zeros
<1>3. m \in [name : {"name"}, ref_name : {ref.name}, zero : {zero}, conf : {c},
             data : {EmptyTable}, raw : {EmptyTable}]
  BY DEF NewMeasurementModel
<1>4. c \in Settings
  <2>1. /\ c = Conf(c.matrix, c.measures_per_iteration, c.start, c.settling_time,
                    c.end, c.step, c.control, c.iterations)
        /\ c.settling_time \in Int
    BY ProjectAssumption
  <2>2. [c EXCEPT !.settling_time = c.settling_time] = c
    BY <2>1 DEF Conf
  <2>3. QED
    BY <2>1, <2>2 DEF Settings
<1>5. m \in Measurements
  BY <1>1, <1>2, <1>3, <1>4, EmptyTables DEF Measurements, Names, Even
<1>6. t \in Takings
  BY <1>1, <1>2 DEF Takings
<1>7. TakenFrom(m, t)
  BY <1>3 DEF TakenFrom, MatrixAccepted
<1>8. QED
  BY <1>5, <1>6, <1>7

LEMMA RowAppended ==
    ASSUME NEW t \in Tables, NEW row, \A c \in Columns : row[c] \in Int
    PROVE  /\ AppendRow(t, row) \in Tables
           /\ Len(AppendRow(t, row)[First]) = Len(t[First]) + 1
<1>1. First \in Columns
  BY ProjectAssumption
<1>2. ASSUME NEW c \in Columns
      PROVE  /\ AppendRow(t, row)[c] \in Seq(Int)
             /\ Len(AppendRow(t, row)[c]) = Len(t[First]) + 1
  <2>1. t[c] \in Seq(Int) /\ Len(t[c]) = Len(t[First])
    BY DEF Tables
  <2>2. AppendRow(t, row)[c] = Append(t[c], row[c])
    BY DEF AppendRow
  <2>3. QED
    BY <2>1, <2>2
<1>3. AppendRow(t, row) \in [Columns -> Seq(Int)]
  BY <1>2 DEF AppendRow
<1>4. QED
  BY <1>1, <1>2, <1>3 DEF Tables

LEMMA SampleRow ==
    ASSUME NEW n \in 1 .. MaxRows, NEW s \in Samples(n), NEW x \in Tables, NEW y \in Tables,
           Len(y[First]) = Len(x[First])
    PROVE  LET raw == [c \in Columns |-> Raw(s[c])]
           IN  /\ AppendRow(x, s) \in Tables /\ AppendRow(y, raw) \in Tables
               /\ Len(AppendRow(y, raw)[First]) = Len(AppendRow(x, s)[First])
<1> DEFINE raw == [c \in Columns |-> Raw(s[c])]
<1>1. \A c \in Columns : s[c] \in Int /\ Raw(s[c]) \in Int
  BY ProjectAssumption
<1>2. \A c \in Columns : raw[c] \in Int
  BY <1>1
<1>3. \A c \in Columns : s[c] \in Int
  BY <1>1
<1> HIDE DEF raw
<1>4. /\ AppendRow(x, s) \in Tables /\ Len(AppendRow(x, s)[First]) = Len(x[First]) + 1
  BY <1>3, RowAppended
<1>5. /\ AppendRow(y, raw) \in Tables /\ Len(AppendRow(y, raw)[First]) = Len(y[First]) + 1
  BY <1>2, RowAppended
<1>6. QED
  BY <1>4, <1>5 DEF raw

LEMMA ReferenceMeasured ==
    ASSUME NEW m \in References, NEW n \in 1 .. MaxRows, NEW s \in Samples(n)
    PROVE  GetMeasure(m, s) \in References
<1> DEFINE g == GetMeasure(m, s)
           raw == [c \in Columns |-> Raw(s[c])]
<1>1. m.name \in Names /\ m.conf \in ReferenceConfs /\ m.data \in Tables /\ m.raw \in Tables
      /\ Len(m.raw[First]) = Len(m.data[First])
  BY DEF References, Even
<1>2. g \in [name : {m.name}, conf : {m.conf}, data : {AppendRow(m.data, s)},
             raw : {AppendRow(m.raw, raw)}]
  BY DEF References, GetMeasure
<1>3. /\ AppendRow(m.data, s) \in Tables /\ AppendRow(m.raw, raw) \in Tables
      /\ Len(AppendRow(m.raw, raw)[First]) = Len(AppendRow(m.data, s)[First])
  BY <1>1, SampleRow
<1> HIDE DEF g, raw
<1>4. g \in References
  BY <1>1, <1>2, <1>3 DEF References, Even
<1>5. QED
  BY <1>4 DEF g

LEMMA MeasurementMeasured ==
    ASSUME NEW m \in Measurements, NEW n \in 1 .. MaxRows, NEW s \in Samples(n)
    PROVE  /\ GetMeasure(m, s) \in Measurements
           /\ \A t : TakenFrom(m, t) => TakenFrom(GetMeasure(m, s), t)
<1> DEFINE g == GetMeasure(m, s)
           raw == [c \in Columns |-> Raw(s[c])]
<1>1. /\ m.name \in Names /\ m.ref_name \in Names /\ m.zero \in Zeros /\ m.conf \in Settings
      /\ m.data \in Tables /\ m.raw \in Tables /\ Len(m.raw[First]) = Len(m.data[First])
  BY DEF Measurements, Even
<1>2. g \in [name : {m.name}, ref_name : {m.ref_name}, zero : {m.zero}, conf : {m.conf},
             data : {AppendRow(m.data, s)}, raw : {AppendRow(m.raw, raw)}]
  BY DEF Measurements, GetMeasure
<1>3. /\ AppendRow(m.data, s) \in Tables /\ AppendRow(m.raw, raw) \in Tables
      /\ Len(AppendRow(m.raw, raw)[First]) = Len(AppendRow(m.data, s)[First])
  BY <1>1, SampleRow
<1> HIDE DEF g, raw
<1>4. g \in Measurements
  BY <1>1, <1>2, <1>3 DEF Measurements, Even
<1>5. \A t : TakenFrom(m, t) => TakenFrom(g, t)
  BY <1>2 DEF TakenFrom
<1>6. QED
  BY <1>4, <1>5 DEF g

LEMMA Removed ==
    ASSUME NEW S, NEW s \in Seq(S), NEW i \in 1 .. Len(s)
    PROVE  /\ RemoveAt(s, i) \in Seq(S)
           /\ Len(RemoveAt(s, i)) = Len(s) - 1
           /\ \A j \in 1 .. Len(s) - 1 :
                 RemoveAt(s, i)[j] = IF j < i THEN s[j] ELSE s[j + 1]
<1> DEFINE a == SubSeq(s, 1, i - 1)
           b == SubSeq(s, i + 1, Len(s))
<1>1. Len(s) \in Nat /\ \A j \in 1 .. Len(s) : s[j] \in S
  OBVIOUS
<1>2. a \in Seq(S) /\ Len(a) = i - 1 /\ \A j \in 1 .. i - 1 : a[j] = s[j]
  BY <1>1, SubSeqProperties
<1>3. /\ b \in Seq(S) /\ Len(b) = Len(s) - i
      /\ \A j \in 1 .. Len(s) - i : b[j] = s[i + j]
  BY <1>1, SubSeqProperties
<1> HIDE DEF a, b
<1>4. PICK n \in Nat, p \in Nat, q \in Nat :
         n = Len(s) /\ p = Len(a) /\ q = Len(b) /\ p = i - 1 /\ q = n - i
         /\ i \in 1 .. n
  BY <1>1, <1>2, <1>3
<1>5. /\ a \o b \in Seq(S) /\ Len(a \o b) = p + q
      /\ \A j \in 1 .. p + q : (a \o b)[j] = IF j <= p THEN a[j] ELSE b[j - p]
  <2>1. /\ a \o b \in Seq(S) /\ Len(a \o b) = Len(a) + Len(b)
        /\ \A j \in 1 .. Len(a) + Len(b) :
              (a \o b)[j] = IF j <= Len(a) THEN a[j] ELSE b[j - Len(a)]
    BY <1>2, <1>3, ConcatProperties
  <2>2. QED
    BY <1>4, <2>1
<1>6. RemoveAt(s, i) = a \o b
  BY DEF RemoveAt, a, b
<1>7. ASSUME NEW j \in 1 .. n - 1
      PROVE  (a \o b)[j] = IF j < i THEN s[j] ELSE s[j + 1]
  <2>1. CASE j < i
    <3>1. j \in 1 .. i - 1 /\ j <= p /\ j \in 1 .. p + q
      BY <1>4, <2>1
    <3>2. QED
      BY <1>2, <1>5, <2>1, <3>1
  <2>2. CASE j >= i
    <3>1. PICK h \in 1 .. n - i : h = j - p /\ i + h = j + 1
      BY <1>4, <2>2
    <3>2. ~(j <= p) /\ ~(j < i) /\ j \in 1 .. p + q
      BY <1>4, <2>2
    <3>3. b[h] = s[j + 1]
      BY <1>3, <1>4, <3>1
    <3>4. QED
      BY <1>5, <3>1, <3>2, <3>3
  <2>3. j < i \/ j >= i
    BY <1>4
  <2>4. QED
    BY <2>1, <2>2, <2>3, Zenon
<1>8. p + q = n - 1
  BY <1>4
<1>9. Len(RemoveAt(s, i)) = n - 1
  BY <1>5, <1>6, <1>8
<1>10. QED
  BY <1>4, <1>5, <1>6, <1>7, <1>9

-----------------------------------------------------------------------------
(* What is loaded                                                          *)

LEMMA Loaded ==
    ASSUME ProjectTypeOK, ZerosInv, FileInv
    PROVE  /\ LoadedReferences \in Seq(References)
           /\ LoadedMeasurements \in Seq(Measurements)
           /\ Pairwise(LoadedReferences, saved.references, SameReference)
           /\ Pairwise(LoadedMeasurements, saved.measurements, SameMeasurement)
           /\ ZerosOf(LoadedMeasurements, saved.taken)
<1>1. PICK rs \in Seq(References), ms \in Seq(Measurements), ts \in Seq(Takings) :
         rs = saved.references /\ ms = saved.measurements /\ ts = saved.taken
  BY DEF ProjectTypeOK
<1>2. PICK p \in Nat, q \in Nat :
         /\ p = Len(rs) /\ q = Len(ms)
         /\ rs \in [1 .. p -> References] /\ ms \in [1 .. q -> Measurements]
  BY LenProperties
<1>3. LoadedReferences = [i \in 1 .. p |-> LoadReference(SaveReference(rs[i]))]
  <2>1. file.reference = [i \in 1 .. p |-> SaveReference(rs[i])]
    BY <1>1, <1>2 DEF FileInv, SaveLists
  <2>2. QED
    BY <2>1 DEF LoadedReferences
<1>4. LoadedMeasurements = [i \in 1 .. q |-> LoadMeasurement(SaveMeasurement(ms[i]))]
  <2>1. file.measurement = [i \in 1 .. q |-> SaveMeasurement(ms[i])]
    BY <1>1, <1>2 DEF FileInv, SaveLists
  <2>2. QED
    BY <2>1 DEF LoadedMeasurements
<1>5. LoadedReferences \in [1 .. p -> References]
  BY <1>2, <1>3, ReferenceKept
<1>6. LoadedMeasurements \in [1 .. q -> Measurements]
  BY <1>2, <1>4, MeasurementKept
<1>7. /\ LoadedReferences \in Seq(References)
      /\ Len(LoadedReferences) = p /\ DOMAIN LoadedReferences = 1 .. p
  BY <1>2, <1>5, SequenceOf
<1>8. /\ LoadedMeasurements \in Seq(Measurements)
      /\ Len(LoadedMeasurements) = q /\ DOMAIN LoadedMeasurements = 1 .. q
  BY <1>2, <1>6, SequenceOf
<1>9. \A i \in 1 .. p : SameReference(LoadedReferences[i], rs[i])
  BY <1>2, <1>3, ReferenceKept
<1>10. \A i \in 1 .. q : SameMeasurement(LoadedMeasurements[i], ms[i])
  BY <1>2, <1>4, MeasurementKept
<1>11. ZerosOf(LoadedMeasurements, ts)
  <2>1. Len(ts) = q /\ \A i \in 1 .. q : TakenFrom(ms[i], ts[i])
    BY <1>1, <1>2 DEF ZerosInv, ZerosOf
  <2>2. \A i \in 1 .. q : ts[i] \in Takings
    BY <2>1, <1>2, ElementOfSeq
  <2>3. \A i \in 1 .. q : TakenFrom(LoadedMeasurements[i], ts[i])
    BY <1>2, <1>4, <2>1, <2>2, MeasurementKept
  <2>4. QED
    BY <1>8, <2>1, <2>3 DEF ZerosOf
<1>12. Pairwise(LoadedReferences, saved.references, SameReference)
  BY <1>1, <1>2, <1>7, <1>9 DEF Pairwise
<1>13. Pairwise(LoadedMeasurements, saved.measurements, SameMeasurement)
  BY <1>1, <1>2, <1>8, <1>10 DEF Pairwise
<1>14. QED
  BY <1>1, <1>7, <1>8, <1>11, <1>12, <1>13

-----------------------------------------------------------------------------
(* Every step keeps the invariant                                          *)

LEMMA ProjectStart == ProjectInit => ProjectInv
<1> SUFFICES ASSUME ProjectInit PROVE ProjectInv
  OBVIOUS
<1>1. /\ references = <<>> /\ measurements = <<>> /\ taken = <<>>
      /\ running = <<"nothing", 0>>
      /\ saved.references = <<>> /\ saved.measurements = <<>> /\ saved.taken = <<>>
      /\ file = SaveLists(<<>>, <<>>)
  BY DEF ProjectInit, Nothing
<1>2. ProjectTypeOK
  BY EmptySeq DEF ProjectTypeOK, ProjectInit, Nothing
<1>3. RunningInv
  BY <1>1 DEF RunningInv, Nothing
<1>4. ZerosInv
  BY <1>1 DEF ZerosInv, ZerosOf
<1>5. FileInv
  BY <1>1 DEF FileInv
<1>6. QED
  BY <1>2, <1>3, <1>4, <1>5 DEF ProjectInv

LEMMA NewReferenceKeeps ==
    ASSUME ProjectInv, NewReference
    PROVE  ProjectInv'
<1>1. PICK c \in ReferenceConfs :
         references' = Append(references,
                              [NewReferenceModel EXCEPT !.name = "name", !.conf = c])
  BY DEF NewReference
<1> DEFINE m == [NewReferenceModel EXCEPT !.name = "name", !.conf = c]
<1>2. m \in References
  BY FreshReference
<1> HIDE DEF m
<1>3. references \in Seq(References)
  BY DEF ProjectInv, ProjectTypeOK
<1>4. references' \in Seq(References) /\ Len(references') = Len(references) + 1
      /\ Len(references) \in Nat
  BY <1>1, <1>2, <1>3 DEF m
<1>5. running' = <<"reference", Len(references')>>
  BY DEF NewReference
<1>6. ProjectTypeOK'
  BY <1>4, <1>5 DEF ProjectInv, ProjectTypeOK, NewReference
<1>7. RunningInv'
  BY <1>4, <1>5 DEF RunningInv
<1>8. ZerosInv' /\ FileInv'
  BY DEF ProjectInv, ZerosInv, ZerosOf, FileInv, NewReference
<1>9. QED
  BY <1>6, <1>7, <1>8 DEF ProjectInv

LEMMA NewMeasurementKeeps ==
    ASSUME ProjectInv, NewMeasurement
    PROVE  ProjectInv'
<1>1. PICK i \in DOMAIN references, c \in Confs :
         /\ MatrixAccepted(c, references[i])
         /\ measurements' = Append(measurements,
               [NewMeasurementModel EXCEPT
                  !.name = "name", !.ref_name = references[i].name, !.conf = c,
                  !.zero = [z \in ZeroColumns |-> Average(references[i].data[z])]])
         /\ taken' = Append(taken,
               [name |-> references[i].name, matrix |-> references[i].conf.matrix,
                zero |-> [z \in ZeroColumns |-> Average(references[i].data[z])]])
  BY DEF NewMeasurement
<1> DEFINE zero == [z \in ZeroColumns |-> Average(references[i].data[z])]
           m == [NewMeasurementModel EXCEPT !.name = "name",
                   !.ref_name = references[i].name, !.conf = c, !.zero = zero]
           t == [name |-> references[i].name, matrix |-> references[i].conf.matrix,
                 zero |-> zero]
<1>2. /\ references \in Seq(References)
      /\ measurements \in Seq(Measurements) /\ taken \in Seq(Takings)
  BY DEF ProjectInv, ProjectTypeOK
<1>3. references[i] \in References
  BY <1>2
<1>4. m \in Measurements /\ t \in Takings /\ TakenFrom(m, t)
  BY <1>1, <1>3, FreshMeasurement
<1>5. measurements' = Append(measurements, m) /\ taken' = Append(taken, t)
  BY <1>1
<1> HIDE DEF zero, m, t
<1>6. /\ Len(measurements) \in Nat /\ Len(taken) = Len(measurements)
      /\ \A j \in 1 .. Len(measurements) : TakenFrom(measurements[j], taken[j])
  BY <1>2 DEF ProjectInv, ZerosInv, ZerosOf
<1>7. PICK n \in Nat : n = Len(measurements) /\ n = Len(taken)
  BY <1>6
<1>8. /\ measurements' \in Seq(Measurements) /\ Len(measurements') = n + 1
      /\ measurements'[n + 1] = m
      /\ \A j \in 1 .. n : measurements'[j] = measurements[j]
  <2>1. /\ Append(measurements, m) \in Seq(Measurements)
        /\ Len(Append(measurements, m)) = Len(measurements) + 1
        /\ Append(measurements, m)[Len(measurements) + 1] = m
        /\ \A j \in 1 .. Len(measurements) : Append(measurements, m)[j] = measurements[j]
    BY <1>2, <1>4, AppendProperties
  <2>2. QED
    BY <1>5, <1>7, <2>1
<1>9. /\ taken' \in Seq(Takings) /\ Len(taken') = n + 1
      /\ taken'[n + 1] = t
      /\ \A j \in 1 .. n : taken'[j] = taken[j]
  <2>1. /\ Append(taken, t) \in Seq(Takings)
        /\ Len(Append(taken, t)) = Len(taken) + 1
        /\ Append(taken, t)[Len(taken) + 1] = t
        /\ \A j \in 1 .. Len(taken) : Append(taken, t)[j] = taken[j]
    BY <1>2, <1>4, AppendProperties
  <2>2. QED
    BY <1>5, <1>7, <2>1
<1>10. UNCHANGED <<references, running, file, saved>>
  BY DEF NewMeasurement
<1>11. ProjectTypeOK'
  BY <1>8, <1>9, <1>10 DEF ProjectInv, ProjectTypeOK
<1>12. RunningInv'
  BY <1>7, <1>8, <1>10 DEF ProjectInv, RunningInv
<1>13. ZerosOf(measurements, taken)'
  <2>1. ASSUME NEW j \in 1 .. n + 1
        PROVE  TakenFrom(measurements'[j], taken'[j])
    <3>1. CASE j = n + 1
      BY <1>4, <1>8, <1>9, <3>1
    <3>2. CASE j \in 1 .. n
      BY <1>6, <1>7, <1>8, <1>9, <3>2
    <3>3. QED
      BY <3>1, <3>2
  <2>2. QED
    BY <1>8, <1>9, <2>1 DEF ZerosOf
<1>14. ZerosInv' /\ FileInv'
  BY <1>10, <1>13 DEF ProjectInv, ZerosInv, ZerosOf, FileInv
<1>15. QED
  BY <1>11, <1>12, <1>14 DEF ProjectInv

LEMMA RunsKeep ==
    ASSUME ProjectInv, StartMeasurement \/ EndRun
    PROVE  ProjectInv'
<1>1. UNCHANGED <<references, measurements, file, saved, taken>>
  BY DEF StartMeasurement, EndRun
<1>2. measurements \in Seq(Measurements)
  BY DEF ProjectInv, ProjectTypeOK
<1>3. \/ running' = <<"nothing", 0>>
      \/ \E i \in 1 .. Len(measurements) : running' = <<"measurement", i>>
  BY <1>2 DEF StartMeasurement, EndRun, Nothing
<1>4. ProjectTypeOK'
  BY <1>1, <1>2, <1>3 DEF ProjectInv, ProjectTypeOK
<1>5. RunningInv'
  BY <1>1, <1>3 DEF RunningInv, Nothing
<1>6. ZerosInv' /\ FileInv'
  BY <1>1 DEF ProjectInv, ZerosInv, ZerosOf, FileInv
<1>7. QED
  BY <1>4, <1>5, <1>6 DEF ProjectInv

LEMMA ReferenceSampleKeeps ==
    ASSUME ProjectInv, ReferenceSample
    PROVE  ProjectInv'
<1>1. PICK i \in 1 .. Len(references) : i = running[2]
  BY DEF ProjectInv, RunningInv, ReferenceSample
<1>2. references \in Seq(References)
  BY DEF ProjectInv, ProjectTypeOK
<1>3. references[i] \in References
  BY <1>2
<1>4. RowCount(references[i]) + 1 \in 1 .. MaxRows
  <2>1. RowCount(references[i]) \in Nat
    BY <1>3, ProjectAssumption DEF References, Tables, RowCount
  <2>2. RowCount(references[i]) < MaxReferenceRows
    BY <1>1 DEF ReferenceSample
  <2>3. QED
    BY <2>1, <2>2, ProjectAssumption
<1>5. PICK s \in Samples(RowCount(references[i]) + 1) :
         references' = [references EXCEPT ![i] = GetMeasure(references[i], s)]
  BY <1>1 DEF ReferenceSample
<1>6. GetMeasure(references[i], s) \in References
  BY <1>3, <1>4, ReferenceMeasured
<1>7. references' \in Seq(References) /\ Len(references') = Len(references)
  BY <1>2, <1>5, <1>6, ExceptSeq
<1>8. UNCHANGED <<measurements, running, file, saved, taken>>
  BY DEF ReferenceSample
<1>9. QED
  BY <1>7, <1>8 DEF ProjectInv, ProjectTypeOK, RunningInv, Nothing, ZerosInv, ZerosOf, FileInv

LEMMA MeasurementSampleKeeps ==
    ASSUME ProjectInv, MeasurementSample
    PROVE  ProjectInv'
<1>1. PICK i \in 1 .. Len(measurements) : i = running[2]
  BY DEF ProjectInv, RunningInv, MeasurementSample
<1>2. measurements \in Seq(Measurements)
  BY DEF ProjectInv, ProjectTypeOK
<1>3. measurements[i] \in Measurements
  BY <1>2
<1>4. RowCount(measurements[i]) + 1 \in 1 .. MaxRows
  <2>1. RowCount(measurements[i]) \in Nat
    BY <1>3, ProjectAssumption DEF Measurements, Tables, RowCount
  <2>2. RowCount(measurements[i]) < MaxRows
    BY <1>1 DEF MeasurementSample
  <2>3. QED
    BY <2>1, <2>2, ProjectAssumption
<1>5. PICK s \in Samples(RowCount(measurements[i]) + 1) :
         measurements' = [measurements EXCEPT ![i] = GetMeasure(measurements[i], s)]
  BY <1>1 DEF MeasurementSample
<1>6. /\ GetMeasure(measurements[i], s) \in Measurements
      /\ \A t : TakenFrom(measurements[i], t)
                   => TakenFrom(GetMeasure(measurements[i], s), t)
  BY <1>3, <1>4, MeasurementMeasured
<1>7. /\ measurements' \in Seq(Measurements) /\ Len(measurements') = Len(measurements)
      /\ \A j \in 1 .. Len(measurements) : measurements'[j] =
            IF j = i THEN GetMeasure(measurements[i], s) ELSE measurements[j]
  BY <1>2, <1>5, <1>6, ExceptSeq
<1>8. UNCHANGED <<references, running, file, saved, taken>>
  BY DEF MeasurementSample
<1>9. ZerosOf(measurements, taken)'
  <2>1. /\ Len(taken) = Len(measurements)
        /\ \A j \in 1 .. Len(measurements) : TakenFrom(measurements[j], taken[j])
    BY DEF ProjectInv, ZerosInv, ZerosOf
  <2>2. \A j \in 1 .. Len(measurements) : TakenFrom(measurements'[j], taken[j])
    BY <1>6, <1>7, <2>1
  <2>3. QED
    BY <1>7, <1>8, <2>1, <2>2 DEF ZerosOf
<1>10. ProjectTypeOK' /\ RunningInv'
  BY <1>7, <1>8 DEF ProjectInv, ProjectTypeOK, RunningInv, Nothing
<1>11. ZerosInv' /\ FileInv'
  BY <1>8, <1>9 DEF ProjectInv, ZerosInv, ZerosOf, FileInv
<1>12. QED
  BY <1>10, <1>11 DEF ProjectInv

\* The running model is still in its list, one place lower or not, when
\* another one of the list is gone.
LEMMA StillThere ==
    ASSUME NEW n \in Nat, NEW i \in 1 .. n, NEW kind \in {"reference", "measurement"},
           running \in {"nothing", "reference", "measurement"} \X Nat,
           running # <<kind, i>>, running[1] = kind => running[2] \in 1 .. n
    PROVE  /\ RunningAfter(kind, i) \in {"nothing", "reference", "measurement"} \X Nat
           /\ RunningAfter(kind, i)[1] = running[1]
           /\ running[1] = kind => RunningAfter(kind, i)[2] \in 1 .. n - 1
           /\ running[1] # kind => RunningAfter(kind, i) = running
<1>1. running = <<running[1], running[2]>> /\ running[2] \in Nat
      /\ running[1] \in {"nothing", "reference", "measurement"}
  OBVIOUS
<1>2. CASE running[1] = kind /\ running[2] > i
  <2>1. RunningAfter(kind, i) = <<kind, running[2] - 1>>
    BY <1>2 DEF RunningAfter
  <2>2. running[2] - 1 \in Nat /\ running[2] - 1 \in 1 .. n - 1
    BY <1>1, <1>2
  <2>3. QED
    BY <1>2, <2>1, <2>2
<1>3. CASE ~(running[1] = kind /\ running[2] > i)
  <2>1. RunningAfter(kind, i) = running
    BY <1>3 DEF RunningAfter
  <2>2. ASSUME running[1] = kind
        PROVE  running[2] \in 1 .. n - 1
    <3>1. running[2] # i
      BY <1>1, <2>2
    <3>2. QED
      BY <1>1, <1>3, <2>2, <3>1
  <2>3. QED
    BY <2>1, <2>2
<1>4. QED
  BY <1>2, <1>3

LEMMA DeleteReferenceKeeps ==
    ASSUME ProjectInv, DeleteReference
    PROVE  ProjectInv'
<1>1. references \in Seq(References)
  BY DEF ProjectInv, ProjectTypeOK
<1>2. PICK n \in Nat : n = Len(references) /\ DOMAIN references = 1 .. n
  BY <1>1, LenProperties
<1>3. PICK i \in 1 .. n :
         /\ running # <<"reference", i>>
         /\ references' = RemoveAt(references, i)
         /\ running' = RunningAfter("reference", i)
  BY <1>2 DEF DeleteReference
<1>4. references' \in Seq(References) /\ Len(references') = n - 1
  BY <1>1, <1>2, <1>3, Removed
<1>5. /\ running \in {"nothing", "reference", "measurement"} \X Nat
      /\ running[1] = "reference" => running[2] \in 1 .. n
      /\ running[1] = "measurement" => running[2] \in 1 .. Len(measurements)
      /\ running[1] = "nothing" => running = Nothing
  BY <1>2 DEF ProjectInv, ProjectTypeOK, RunningInv
<1>6. /\ running' \in {"nothing", "reference", "measurement"} \X Nat
      /\ running'[1] = running[1]
      /\ running[1] = "reference" => running'[2] \in 1 .. n - 1
      /\ running[1] # "reference" => running' = running
  BY <1>3, <1>5, StillThere
<1>7. UNCHANGED <<measurements, file, saved, taken>>
  BY DEF DeleteReference
<1>8. ProjectTypeOK'
  BY <1>4, <1>6, <1>7 DEF ProjectInv, ProjectTypeOK
<1>9. RunningInv'
  BY <1>4, <1>5, <1>6, <1>7 DEF RunningInv, Nothing
<1>10. ZerosInv' /\ FileInv'
  BY <1>7 DEF ProjectInv, ZerosInv, ZerosOf, FileInv
<1>11. QED
  BY <1>8, <1>9, <1>10 DEF ProjectInv

LEMMA DeleteMeasurementKeeps ==
    ASSUME ProjectInv, DeleteMeasurement
    PROVE  ProjectInv'
<1>1. measurements \in Seq(Measurements) /\ taken \in Seq(Takings)
  BY DEF ProjectInv, ProjectTypeOK
<1>2. PICK n \in Nat : n = Len(measurements) /\ DOMAIN measurements = 1 .. n
  BY <1>1, LenProperties
<1>3. PICK i \in 1 .. n :
         /\ running # <<"measurement", i>>
         /\ measurements' = RemoveAt(measurements, i)
         /\ taken' = RemoveAt(taken, i)
         /\ running' = RunningAfter("measurement", i)
  BY <1>2 DEF DeleteMeasurement
<1>4. Len(taken) = n /\ \A j \in 1 .. n : TakenFrom(measurements[j], taken[j])
  BY <1>2 DEF ProjectInv, ZerosInv, ZerosOf
<1>5. /\ measurements' \in Seq(Measurements) /\ Len(measurements') = n - 1
      /\ \A j \in 1 .. n - 1 :
            measurements'[j] = IF j < i THEN measurements[j] ELSE measurements[j + 1]
  BY <1>1, <1>2, <1>3, Removed
<1>6. /\ taken' \in Seq(Takings) /\ Len(taken') = n - 1
      /\ \A j \in 1 .. n - 1 : taken'[j] = IF j < i THEN taken[j] ELSE taken[j + 1]
  <2>1. i \in 1 .. Len(taken)
    BY <1>4
  <2>2. /\ RemoveAt(taken, i) \in Seq(Takings) /\ Len(RemoveAt(taken, i)) = Len(taken) - 1
        /\ \A j \in 1 .. Len(taken) - 1 :
              RemoveAt(taken, i)[j] = IF j < i THEN taken[j] ELSE taken[j + 1]
    BY <1>1, <2>1, Removed
  <2>3. QED
    BY <1>3, <1>4, <2>2
<1>7. ZerosOf(measurements, taken)'
  <2>1. ASSUME NEW j \in 1 .. n - 1
        PROVE  TakenFrom(measurements'[j], taken'[j])
    <3>1. j \in 1 .. n /\ j + 1 \in 1 .. n
      OBVIOUS
    <3>2. CASE j < i
      BY <1>4, <1>5, <1>6, <3>1, <3>2
    <3>3. CASE ~(j < i)
      BY <1>4, <1>5, <1>6, <3>1, <3>3
    <3>4. QED
      BY <3>2, <3>3
  <2>2. QED
    BY <1>5, <1>6, <2>1 DEF ZerosOf
<1>8. /\ running \in {"nothing", "reference", "measurement"} \X Nat
      /\ running[1] = "measurement" => running[2] \in 1 .. n
      /\ running[1] = "reference" => running[2] \in 1 .. Len(references)
      /\ running[1] = "nothing" => running = Nothing
  BY <1>2 DEF ProjectInv, ProjectTypeOK, RunningInv
<1>9. /\ running' \in {"nothing", "reference", "measurement"} \X Nat
      /\ running'[1] = running[1]
      /\ running[1] = "measurement" => running'[2] \in 1 .. n - 1
      /\ running[1] # "measurement" => running' = running
  BY <1>3, <1>8, StillThere
<1>10. UNCHANGED <<references, file, saved>>
  BY DEF DeleteMeasurement
<1>11. ProjectTypeOK'
  BY <1>5, <1>6, <1>9, <1>10 DEF ProjectInv, ProjectTypeOK
<1>12. RunningInv'
  BY <1>5, <1>8, <1>9, <1>10 DEF RunningInv, Nothing
<1>13. ZerosInv' /\ FileInv'
  BY <1>7, <1>10 DEF ProjectInv, ZerosInv, ZerosOf, FileInv
<1>14. QED
  BY <1>11, <1>12, <1>13 DEF ProjectInv

LEMMA SaveKeeps ==
    ASSUME ProjectInv, Save
    PROVE  ProjectInv'
<1>1. /\ saved' = [references |-> references, measurements |-> measurements,
                   taken |-> taken]
      /\ file' = SaveLists(references, measurements)
      /\ UNCHANGED <<references, measurements, running, taken>>
  BY DEF Save
<1>2. /\ saved'.references = references /\ saved'.measurements = measurements
      /\ saved'.taken = taken
  BY <1>1
<1>3. ProjectTypeOK' /\ RunningInv'
  BY <1>1 DEF ProjectInv, ProjectTypeOK, RunningInv, Nothing
<1>4. ZerosInv' /\ FileInv'
  BY <1>1, <1>2 DEF ProjectInv, ZerosInv, ZerosOf, FileInv
<1>5. QED
  BY <1>3, <1>4 DEF ProjectInv

LEMMA ClearKeeps ==
    ASSUME ProjectInv, Clear
    PROVE  ProjectInv'
<1>1. /\ references' = <<>> /\ measurements' = <<>> /\ taken' = <<>>
      /\ running' = <<"nothing", 0>>
      /\ UNCHANGED <<file, saved>>
  BY DEF Clear, Nothing
<1>2. ProjectTypeOK'
  BY <1>1, EmptySeq DEF ProjectInv, ProjectTypeOK
<1>3. RunningInv' /\ ZerosInv' /\ FileInv'
  BY <1>1 DEF ProjectInv, RunningInv, Nothing, ZerosInv, ZerosOf, FileInv
<1>4. QED
  BY <1>2, <1>3 DEF ProjectInv

LEMMA LoadKeeps ==
    ASSUME ProjectInv, Load
    PROVE  ProjectInv'
<1>1. /\ references' = LoadedReferences /\ measurements' = LoadedMeasurements
      /\ taken' = saved.taken /\ running' = <<"nothing", 0>>
      /\ UNCHANGED <<file, saved>>
  BY DEF Load, Nothing
<1>2. /\ LoadedReferences \in Seq(References)
      /\ LoadedMeasurements \in Seq(Measurements)
      /\ ZerosOf(LoadedMeasurements, saved.taken)
  BY Loaded DEF ProjectInv
<1>3. ProjectTypeOK'
  BY <1>1, <1>2 DEF ProjectInv, ProjectTypeOK
<1>4. RunningInv'
  BY <1>1 DEF RunningInv, Nothing
<1>5. ZerosInv' /\ FileInv'
  BY <1>1, <1>2 DEF ProjectInv, ZerosInv, ZerosOf, FileInv
<1>6. QED
  BY <1>3, <1>4, <1>5 DEF ProjectInv

(* The invariant holds in every project, whatever is run, deleted, saved   *)
(* and loaded.                                                             *)
THEOREM ProjectInvariant == ProjectSpec => []ProjectInv
<1>1. ASSUME ProjectInv, [ProjectNext]_projectVars
      PROVE  ProjectInv'
  <2>1. CASE NewReference
    BY <1>1, <2>1, NewReferenceKeeps
  <2>2. CASE NewMeasurement
    BY <1>1, <2>2, NewMeasurementKeeps
  <2>3. CASE StartMeasurement \/ EndRun
    BY <1>1, <2>3, RunsKeep
  <2>4. CASE ReferenceSample
    BY <1>1, <2>4, ReferenceSampleKeeps
  <2>5. CASE MeasurementSample
    BY <1>1, <2>5, MeasurementSampleKeeps
  <2>6. CASE DeleteReference
    BY <1>1, <2>6, DeleteReferenceKeeps
  <2>7. CASE DeleteMeasurement
    BY <1>1, <2>7, DeleteMeasurementKeeps
  <2>8. CASE Save
    BY <1>1, <2>8, SaveKeeps
  <2>9. CASE Clear
    BY <1>1, <2>9, ClearKeeps
  <2>10. CASE Load
    BY <1>1, <2>10, LoadKeeps
  <2>11. CASE UNCHANGED projectVars
    BY <1>1, <2>11 DEF ProjectInv, ProjectTypeOK, RunningInv, Nothing, ZerosInv, ZerosOf,
                       FileInv, projectVars
  <2>12. QED
    BY <1>1, <2>1, <2>2, <2>3, <2>4, <2>5, <2>6, <2>7, <2>8, <2>9, <2>10, <2>11
       DEF ProjectNext
<1>2. QED
  BY <1>1, ProjectStart, PTL DEF ProjectSpec

-----------------------------------------------------------------------------
(* The properties                                                          *)

(* Every column of a model has the same number of values and raw values,   *)
(* the running model is in its list, and a file gives back what was saved. *)
THEOREM TablesAreKept == ProjectSpec => []TablesKept
<1>1. ASSUME ProjectInv
      PROVE  TablesKept
  <2>1. /\ references \in Seq(References) /\ measurements \in Seq(Measurements)
        /\ running \in {"nothing", "reference", "measurement"} \X Nat
    BY <1>1 DEF ProjectInv, ProjectTypeOK
  <2>2. /\ DOMAIN references = 1 .. Len(references)
        /\ DOMAIN measurements = 1 .. Len(measurements)
    BY <2>1
  <2>3. ASSUME NEW m \in Models, NEW c \in Columns
        PROVE  Len(m.data[c]) = RowCount(m) /\ Len(m.raw[c]) = RowCount(m)
    <3>1. m \in References \/ m \in Measurements
      BY <2>1, <2>2 DEF Models, ToSet
    <3>2. m.data \in Tables /\ m.raw \in Tables /\ Even(m)
      BY <3>1 DEF References, Measurements
    <3>3. QED
      BY <3>2 DEF Tables, Even, RowCount
  <2>4. running # Nothing =>
           running[2] \in DOMAIN (IF running[1] = "reference" THEN references
                                                              ELSE measurements)
    BY <1>1, <2>1, <2>2 DEF ProjectInv, RunningInv
  <2>5. RoundTrip
    BY <1>1, Loaded DEF ProjectInv, RoundTrip
  <2>6. QED
    BY <2>3, <2>4, <2>5 DEF TablesKept, Rectangular
<1>2. QED
  BY <1>1, ProjectInvariant, PTL

(* The zero of a measurement stays the average of its reference.           *)
THEOREM ZeroIsOfReference == ProjectSpec => []ZeroOfReference
<1>1. ASSUME ProjectInv
      PROVE  ZeroOfReference
  <2>1. /\ measurements \in Seq(Measurements) /\ taken \in Seq(Takings)
        /\ Len(taken) = Len(measurements)
        /\ \A i \in 1 .. Len(measurements) : TakenFrom(measurements[i], taken[i])
    BY <1>1 DEF ProjectInv, ProjectTypeOK, ZerosInv, ZerosOf
  <2>2. DOMAIN measurements = 1 .. Len(measurements)
    BY <2>1
  <2>3. ASSUME NEW i \in 1 .. Len(measurements), NEW z \in ZeroColumns
        PROVE  Close(measurements[i].zero[z], taken[i].zero[z], Digit10)
    <3>1. taken[i] \in Takings
      BY <2>1, ElementOfSeq
    <3>2. PICK x \in Int \cup {NaN} : x = taken[i].zero[z]
      BY <3>1 DEF Takings, Zeros
    <3>3. measurements[i].zero[z] \in {x, Number(x, Digit10)}
      BY <2>1, <3>2 DEF TakenFrom
    <3>4. Close(x, x, Digit10)
      BY DEF Close
    <3>5. QED
      BY <3>2, <3>3, <3>4, TextOfText
  <2>4. QED
    BY <2>1, <2>2, <2>3 DEF ZeroOfReference, TakenFrom
<1>2. QED
  BY <1>1, ProjectInvariant, PTL

LEMMA GroupsAgree ==
    ASSUME NEW m \in Measurements, NEW c \in Columns
    PROVE  LET csv == save_avg_csv(m)
               cur == curve(m, c)
           IN  /\ DOMAIN csv = DOMAIN cur
               /\ Cardinality(DOMAIN csv) = RowCount(m) \div m.conf.measures_per_iteration
               /\ \A r \in DOMAIN csv : /\ csv[r][c] = cur[r].avg
                                        /\ cur[r].avg \in cur[r].min .. cur[r].max
<1> DEFINE N == m.conf.measures_per_iteration
           rows == RowCount(m)
           G == GroupStarts(rows, N)
           Group(r) == [i \in 1 .. N |-> m.data[c][r + i]]
<1>1. N \in Nat \ {0} /\ m.data \in Tables
  BY SettingsForm DEF Measurements
<1>2. m.data[c] \in Seq(Int) /\ Len(m.data[c]) = rows /\ rows \in Nat
  <2>1. /\ m.data[c] \in Seq(Int) /\ m.data[First] \in Seq(Int)
        /\ Len(m.data[c]) = Len(m.data[First])
    BY <1>1, ProjectAssumption DEF Tables
  <2>2. QED
    BY <2>1 DEF RowCount
<1>3. /\ DOMAIN save_avg_csv(m) = G /\ DOMAIN curve(m, c) = G
      /\ \A r \in G :
            /\ save_avg_csv(m)[r][c] = Average([i \in 1 .. N |-> Cell(m, c, r + i)])
            /\ curve(m, c)[r].avg = Average(Group(r))
            /\ curve(m, c)[r].min = Loop(Group(r)).min
            /\ curve(m, c)[r].max = Loop(Group(r)).max
  BY DEF save_avg_csv, curve
<1> HIDE DEF N, rows, G
<1>4. Cardinality(G) = rows \div N /\ \A r \in G : r \in Nat /\ r + N <= rows
  BY <1>1, <1>2, Groups DEF G
<1>5. ASSUME NEW r \in G
      PROVE  /\ [i \in 1 .. N |-> Cell(m, c, r + i)] = Group(r)
             /\ Average(Group(r)) \in Loop(Group(r)).min .. Loop(Group(r)).max
  <2>1. \A i \in 1 .. N : r + i \in 1 .. rows
    <3>1. N \in Nat /\ rows \in Nat /\ r \in Nat /\ r + N <= rows
      BY <1>1, <1>2, <1>4, Zenon
    <3>2. QED
      BY <3>1
  <2>2. \A i \in 1 .. N : Cell(m, c, r + i) = m.data[c][r + i]
    BY <2>1 DEF Cell, RowIndices, rows
  <2>3. \A j \in 1 .. rows : m.data[c][j] \in Int
    BY <1>2
  <2>4. Group(r) \in [1 .. N -> Int]
    BY <2>1, <2>3
  <2>5. Group(r) \in Seq(Int) /\ Len(Group(r)) > 0
    <3> HIDE DEF Group
    <3>1. QED
      BY <1>1, <2>4, SequenceOf
  <2>6. Average(Group(r)) \in Loop(Group(r)).min .. Loop(Group(r)).max
    <3> HIDE DEF Group
    <3>1. QED
      BY <2>5, Between
  <2>7. QED
    BY <2>2, <2>6
<1> HIDE DEF Group
<1>6. \A r \in G : /\ save_avg_csv(m)[r][c] = curve(m, c)[r].avg
                   /\ curve(m, c)[r].avg \in curve(m, c)[r].min .. curve(m, c)[r].max
  BY <1>3, <1>5
<1>7. QED
  BY <1>3, <1>4, <1>6 DEF N, rows

(* The CSV export and the curves average the same whole groups, and an     *)
(* average lies inside its interval.                                       *)
THEOREM AveragesDoAgree == ProjectSpec => []AveragesAgree
<1>1. ASSUME ProjectInv
      PROVE  AveragesAgree
  <2>1. \A m \in ToSet(measurements) : m \in Measurements
    BY <1>1 DEF ProjectInv, ProjectTypeOK, ToSet
  <2>2. QED
    BY <2>1, GroupsAgree DEF AveragesAgree
<1>2. QED
  BY <1>1, ProjectInvariant, PTL
=============================================================================
