--------------------------- MODULE TradeCaseProofs ---------------------------
(***************************************************************************)
(* For every account, portfolio, approval, market and impact curve: what a *)
(* trade of Stage 5 takes from the market stays within every limit it was  *)
(* sized and approved under, at the price it got; it takes the greatest    *)
(* lot that can be paid; a stopped account buys nothing; and an order that *)
(* could not be judged is not reported as expired.  For every journal of   *)
(* events and corrections: no fill is booked twice, and what was corrected *)
(* leaves no trace in balances and lots.                                   *)
(***************************************************************************)
EXTENDS TradeCase, JournalCorrections, FiniteSetTheorems, WellFoundedInduction, TLAPS

-----------------------------------------------------------------------------
(* The search for the greatest lot. *)

Less == {ss \in Nat \X Nat : ss[1] < ss[2]}

(* Every set of naturals that is not empty has a least element. *)
LEMMA LessWellFounded == IsWellFoundedOn(Less, Nat)
BY NatLessThanWellFounded DEF OpToRel, Less

LEMMA LeastExists ==
    ASSUME NEW S \in SUBSET Nat, S # {}
    PROVE  Min(S) \in S /\ \A y \in S : Min(S) <= y
<1>1. PICK x \in S : \A y \in S : ~(<<y, x>> \in Less)
  BY LessWellFounded, WFMin
<1>2. ASSUME NEW y \in S
      PROVE  x <= y
  <2>1. x \in Nat /\ y \in Nat
    OBVIOUS
  <2>2. <<y, x>> \in Less <=> y < x
    BY <2>1 DEF Less
  <2>. QED
    BY <1>1, <2>1, <2>2
<1>. QED
  BY <1>2 DEF Min

Reach(n) == (1..(n + 1)) \X (0..n) \X (0..n)
Probe(p, good, r) ==
    IF NoneLeft(r[1], r[2]) THEN r[3]
    ELSE LET middle == (r[1] + r[2]) \div 2 IN
         IF good[middle] THEN p[<<middle + 1, r[2], middle>>] ELSE p[<<r[1], middle - 1, r[3]>>]
IsProbe(p, good, n) == p = [r \in Reach(n) |-> Probe(p, good, r)]

(* The search of MarketRules as one step of it, a probe, repeated. *)
LEMMA SearchIs ==
    ASSUME NEW good, NEW n
    PROVE  Search(good, n) = (CHOOSE p : IsProbe(p, good, n))[<<1, n, 0>>]
BY DEF Search, IsProbe, Probe, Reach

Splits(n, good, r, middle, up, down) ==
    /\ middle \in r[1]..r[2] /\ middle \in 1..n /\ up \in Reach(n) /\ down \in Reach(n)
    /\ up[1] = middle + 1 /\ up[2] = r[2] /\ up[3] = middle
    /\ down[1] = r[1] /\ down[2] = middle - 1 /\ down[3] = r[3]
    /\ \A f : Probe(f, good, r) = IF good[middle] THEN f[up] ELSE f[down]

(* A probe leaves one of two shorter reaches. *)
LEMMA ProbeLeaves ==
    ASSUME NEW n \in Nat, NEW r \in Reach(n), ~NoneLeft(r[1], r[2]), NEW good
    PROVE  \E middle, up, down : Splits(n, good, r, middle, up, down)
<1>. DEFINE middle == (r[1] + r[2]) \div 2
            up == <<middle + 1, r[2], middle>>
            down == <<r[1], middle - 1, r[3]>>
<1>1. r[1] \in 1..(n + 1) /\ r[2] \in 0..n /\ r[3] \in 0..n /\ r[1] <= r[2]
  BY DEF NoneLeft, Reach
<1>2. ASSUME NEW low \in Int, NEW high \in Int, low <= high
      PROVE  (low + high) \div 2 \in low..high
  BY <1>2
<1>3. middle \in r[1]..r[2]
  BY <1>1, <1>2
<1>4. \A p : Probe(p, good, r) = IF good[middle] THEN p[up] ELSE p[down]
  BY DEF Probe
<1>. HIDE DEF middle
<1>5. middle \in 1..n /\ up \in Reach(n) /\ down \in Reach(n)
  BY <1>1, <1>3 DEF Reach
<1>6. /\ up[1] = middle + 1 /\ up[2] = r[2] /\ up[3] = middle
      /\ down[1] = r[1] /\ down[2] = middle - 1 /\ down[3] = r[3]
  OBVIOUS
<1>. HIDE DEF up, down
<1>. QED
  BY <1>3, <1>4, <1>5, <1>6 DEF Splits

LEMMA ReachIs ==
    ASSUME NEW n \in Nat, NEW r \in Reach(n)
    PROVE  r[1] \in 1..(n + 1) /\ r[2] \in 0..n /\ r[3] \in 0..n
BY DEF Reach

Near(n, k) == {r \in Reach(n) : r[2] - r[1] + 1 <= k}
Solves(p, good, n, k) == \A r \in Near(n, k) : p[r] = Probe(p, good, r)

(* The reaches of at most a given width. *)
LEMMA NearIs ==
    ASSUME NEW n \in Nat, NEW k \in Nat, NEW r \in Near(n, k)
    PROVE  /\ r \in Reach(n) /\ r[2] - r[1] + 1 <= k
           /\ r[1] \in 1..(n + 1) /\ r[2] \in 0..n /\ r[3] \in 0..n
<1>1. r \in Reach(n) /\ r[2] - r[1] + 1 <= k
  BY DEF Near
<1>. QED
  BY <1>1, ReachIs

(* What a probe gives rests on the shorter reaches only. *)
LEMMA ProbeRests ==
    ASSUME NEW n \in Nat, NEW r \in Reach(n), NEW p, NEW q, NEW good,
           \A s \in Reach(n) : s[2] - s[1] < r[2] - r[1] => p[s] = q[s]
    PROVE  Probe(p, good, r) = Probe(q, good, r)
<1>1. CASE NoneLeft(r[1], r[2])
  BY <1>1 DEF Probe
<1>2. CASE ~NoneLeft(r[1], r[2])
  <2>0. PICK middle, up, down : Splits(n, good, r, middle, up, down)
    BY <1>2, ProbeLeaves
  <2>1. /\ middle \in r[1]..r[2] /\ up \in Reach(n) /\ down \in Reach(n)
        /\ up[1] = middle + 1 /\ up[2] = r[2]
        /\ down[1] = r[1] /\ down[2] = middle - 1
        /\ \A f : Probe(f, good, r) = IF good[middle] THEN f[up] ELSE f[down]
    BY <2>0 DEF Splits
  <2>2. r[1] \in Int /\ r[2] \in Int
    BY ReachIs
  <2>3. middle \in Int /\ r[1] <= middle /\ middle <= r[2]
    BY <2>1, <2>2
  <2>4. up[2] - up[1] < r[2] - r[1] /\ down[2] - down[1] < r[2] - r[1]
    BY <2>1, <2>2, <2>3
  <2>5. p[up] = q[up] /\ p[down] = q[down]
    BY <2>1, <2>4
  <2>. QED
    BY <2>1, <2>5
<1>. QED
  BY <1>1, <1>2

(* Probes end: there is a function that every probe describes. *)
LEMMA ProbeExists ==
    ASSUME NEW good, NEW n \in Nat
    PROVE  \E p : IsProbe(p, good, n)
<1>. DEFINE bad == {k \in Nat : ~\E p : Solves(p, good, n, k)}
<1>1. bad = {}
  <2>. SUFFICES ASSUME bad # {} PROVE FALSE
    OBVIOUS
  <2>1. PICK k \in bad : \A y \in bad : k <= y
    <3>1. bad \in SUBSET Nat
      OBVIOUS
    <3>. HIDE DEF bad
    <3>. QED
      BY <3>1, LeastExists
  <2>2. k \in Nat /\ ~\E p : Solves(p, good, n, k)
    OBVIOUS
  <2>3. k # 0
    <3>. SUFFICES ASSUME k = 0 PROVE FALSE
      OBVIOUS
    <3>. DEFINE p == [r \in Reach(n) |-> r[3]]
    <3>1. ASSUME NEW r \in Near(n, 0)
          PROVE  p[r] = Probe(p, good, r)
      <4>1. r \in Reach(n) /\ r[2] - r[1] + 1 <= 0 /\ r[1] \in Int /\ r[2] \in Int
        BY NearIs
      <4>2. NoneLeft(r[1], r[2])
        BY <4>1 DEF NoneLeft
      <4>3. p[r] = r[3]
        BY <4>1
      <4>. HIDE DEF p
      <4>. QED
        BY <4>2, <4>3 DEF Probe
    <3>. HIDE DEF p
    <3>2. Solves(p, good, n, 0)
      BY <3>1 DEF Solves
    <3>. QED
      BY <2>2, <3>2
  <2>4. PICK p : Solves(p, good, n, k - 1)
    <3>1. k - 1 \in Nat /\ k - 1 \notin bad
      <4>. HIDE DEF bad
      <4>. QED
        BY <2>1, <2>2, <2>3
    <3>. QED
      BY <3>1
  <2>. DEFINE q == [r \in Reach(n) |-> IF r \in Near(n, k - 1) THEN p[r] ELSE Probe(p, good, r)]
  <2>5. k - 1 \in Nat
    BY <2>2, <2>3
  <2>6. ASSUME NEW r \in Near(n, k)
        PROVE  q[r] = Probe(q, good, r)
    <3>1. r \in Reach(n) /\ r[2] - r[1] + 1 <= k /\ r[1] \in Int /\ r[2] \in Int
      BY <2>2, NearIs
    <3>2. q[r] = Probe(p, good, r)
      BY <2>4, <3>1 DEF Solves
    <3>3. ASSUME NEW s \in Reach(n), s[2] - s[1] < r[2] - r[1]
          PROVE  p[s] = q[s]
      <4>1. s[1] \in Int /\ s[2] \in Int
        BY ReachIs
      <4>2. s[2] - s[1] + 1 <= k - 1
        BY <2>2, <3>1, <3>3, <4>1
      <4>3. s \in Near(n, k - 1)
        BY <4>2 DEF Near
      <4>. QED
        BY <4>3
    <3>. HIDE DEF q
    <3>. QED
      BY <3>1, <3>2, <3>3, ProbeRests
  <2>. HIDE DEF q
  <2>7. Solves(q, good, n, k)
    BY <2>6 DEF Solves
  <2>. QED
    BY <2>2, <2>7
<1>2. PICK p : Solves(p, good, n, n)
  BY <1>1
<1>. DEFINE q == [r \in Reach(n) |-> p[r]]
<1>3. ASSUME NEW r \in Reach(n)
      PROVE  q[r] = Probe(q, good, r)
  <2>1. r[1] \in 1..(n + 1) /\ r[2] \in 0..n
    BY ReachIs
  <2>2. r \in Near(n, n)
    BY <2>1 DEF Near
  <2>3. q[r] = Probe(p, good, r)
    BY <1>2, <2>2 DEF Solves
  <2>4. \A s \in Reach(n) : p[s] = q[s]
    OBVIOUS
  <2>. HIDE DEF q
  <2>. QED
    BY <2>3, <2>4, ProbeRests
<1>4. IsProbe(q, good, n)
  <2>1. q = [r \in Reach(n) |-> q[r]]
    OBVIOUS
  <2>. HIDE DEF q
  <2>. QED
    BY <1>3, <2>1 DEF IsProbe
<1>. QED
  BY <1>4

(* A reach that the search can be at: what it has found so far is good, and *)
(* every good number is below it or within it.                              *)
Falling(good, n) == \A i, j \in 1..n : i < j /\ good[j] => good[i]
Reachable(good, n, r) ==
    /\ r[1] <= r[2] + 1 /\ r[3] = r[1] - 1
    /\ r[3] # 0 => good[r[3]]
    /\ Falling(good, n) => \A i \in 1..n : good[i] => i <= r[2]
Found(good, n, it) ==
    /\ it \in 0..n
    /\ it # 0 => good[it]
    /\ Falling(good, n) => \A i \in 1..n : good[i] => i <= it

(* The search finds a number of lots that is good, or none; and if fewer   *)
(* lots are good whenever more are, it finds the greatest.                 *)
LEMMA SearchFinds ==
    ASSUME NEW n \in Nat, NEW good
    PROVE  Found(good, n, Search(good, n))
<1>. DEFINE p == CHOOSE f : IsProbe(f, good, n)
            bad == {k \in Nat : \E r \in Reach(n) :
                      r[2] - r[1] + 1 = k /\ Reachable(good, n, r) /\ ~Found(good, n, p[r])}
<1>1. \A r \in Reach(n) : p[r] = Probe(p, good, r)
  <2>1. IsProbe(p, good, n)
    BY ProbeExists
  <2>. HIDE DEF p
  <2>. QED
    BY <2>1 DEF IsProbe
<1>. HIDE DEF p
<1>2. bad = {}
  <2>. SUFFICES ASSUME bad # {} PROVE FALSE
    OBVIOUS
  <2>1. PICK k \in bad : \A y \in bad : k <= y
    <3>1. bad \in SUBSET Nat
      OBVIOUS
    <3>. HIDE DEF bad
    <3>. QED
      BY <3>1, LeastExists
  <2>2. PICK r \in Reach(n) : r[2] - r[1] + 1 = k /\ Reachable(good, n, r) /\ ~Found(good, n, p[r])
    OBVIOUS
  <2>3. r[1] \in 1..(n + 1) /\ r[2] \in 0..n /\ r[3] \in 0..n
    BY ReachIs
  <2>4. ~NoneLeft(r[1], r[2])
    <3>. SUFFICES ASSUME NoneLeft(r[1], r[2]) PROVE FALSE
      OBVIOUS
    <3>1. p[r] = r[3]
      BY <1>1 DEF Probe
    <3>2. r[3] = r[2]
      BY <2>2, <2>3 DEF NoneLeft, Reachable
    <3>. QED
      BY <2>2, <2>3, <3>1, <3>2 DEF Reachable, Found
  <2>0. PICK middle, up, down : Splits(n, good, r, middle, up, down)
    BY <2>4, ProbeLeaves
  <2>5. /\ middle \in r[1]..r[2] /\ middle \in 1..n /\ up \in Reach(n) /\ down \in Reach(n)
        /\ up[1] = middle + 1 /\ up[2] = r[2] /\ up[3] = middle
        /\ down[1] = r[1] /\ down[2] = middle - 1 /\ down[3] = r[3]
        /\ \A f : Probe(f, good, r) = IF good[middle] THEN f[up] ELSE f[down]
    BY <2>0 DEF Splits
  <2>6. middle \in Int /\ r[1] <= middle /\ middle <= r[2]
    BY <2>3, <2>5
  <2>7. p[r] = IF good[middle] THEN p[up] ELSE p[down]
    BY <1>1, <2>5
  <2>8. ASSUME NEW s \in Reach(n), s[2] - s[1] < r[2] - r[1], Reachable(good, n, s)
        PROVE  Found(good, n, p[s])
    <3>. SUFFICES ASSUME ~Found(good, n, p[s]) PROVE FALSE
      OBVIOUS
    <3>1. s[1] \in Int /\ s[2] \in Int /\ s[1] <= s[2] + 1
      BY <2>8, ReachIs DEF Reachable
    <3>2. s[2] - s[1] + 1 \in Nat /\ s[2] - s[1] + 1 < k
      BY <2>2, <2>3, <2>8, <3>1
    <3>3. s[2] - s[1] + 1 \in bad
      BY <2>8, <3>2
    <3>4. k \in Nat
      OBVIOUS
    <3>. HIDE DEF bad
    <3>. QED
      BY <2>1, <3>2, <3>3, <3>4
  <2>. HIDE DEF bad
  <2>9. CASE good[middle]
    <3>1. Reachable(good, n, up)
      BY <2>2, <2>3, <2>5, <2>6, <2>9 DEF Reachable
    <3>2. up[2] - up[1] < r[2] - r[1]
      BY <2>3, <2>5, <2>6
    <3>3. Found(good, n, p[up])
      BY <2>5, <2>8, <3>1, <3>2
    <3>. QED
      BY <2>2, <2>7, <2>9, <3>3
  <2>10. CASE ~good[middle]
    <3>1. ASSUME Falling(good, n), NEW i \in 1..n, good[i]
          PROVE  i <= middle - 1
      BY <2>5, <2>6, <2>10, <3>1 DEF Falling
    <3>2. Reachable(good, n, down)
      BY <2>2, <2>3, <2>5, <2>6, <3>1 DEF Reachable
    <3>3. down[2] - down[1] < r[2] - r[1]
      BY <2>3, <2>5, <2>6
    <3>4. Found(good, n, p[down])
      BY <2>5, <2>8, <3>2, <3>3
    <3>. QED
      BY <2>2, <2>7, <2>10, <3>4
  <2>. QED
    BY <2>9, <2>10
<1>. DEFINE r == <<1, n, 0>>
<1>3. r \in Reach(n) /\ r[1] = 1 /\ r[2] = n /\ r[3] = 0
  BY DEF Reach
<1>4. Search(good, n) = p[r]
  BY SearchIs DEF p
<1>. HIDE DEF r
<1>5. Reachable(good, n, r) /\ r[2] - r[1] + 1 \in Nat
  BY <1>3 DEF Reachable
<1>6. Found(good, n, p[r])
  BY <1>2, <1>3, <1>5
<1>. QED
  BY <1>4, <1>6

-----------------------------------------------------------------------------
(* Sums over finite sets. *)

Some(D) == CHOOSE x \in D : TRUE

IsSum(f, D, it) ==
    it = [s \in SUBSET D |-> IF s = {} THEN 0
                             ELSE f[CHOOSE x \in s : TRUE] + it[s \ {CHOOSE x \in s : TRUE}]]

LEMMA SumIs ==
    ASSUME NEW f, NEW D
    PROVE  SumFunctionOnSet(f, D) = (CHOOSE it : IsSum(f, D, it))[D]
BY DEF SumFunctionOnSet, FoldFunctionOnSet, MapThenFoldSet, IsSum

(* A set of finite sets that is not empty has a smallest member. *)
LEMMA SmallestExists ==
    ASSUME NEW D, IsFiniteSet(D), NEW bad \in SUBSET SUBSET D, bad # {}
    PROVE  \E s \in bad : \A t \in bad : ~(t \subseteq s /\ t # s)
<1>1. bad \subseteq FiniteSubsetsOf(D)
  BY FS_Subset DEF FiniteSubsetsOf
<1>2. PICK s \in bad : \A t \in bad : ~(<<t, s>> \in StrictSubsetOrdering(D))
  BY <1>1, FS_StrictSubsetOrderingWellFounded, WFMin
<1>3. \A t \in bad : t \subseteq s /\ t # s => <<t, s>> \in StrictSubsetOrdering(D)
  BY <1>1, <1>2 DEF StrictSubsetOrdering
<1>4. \A t \in bad : ~(t \subseteq s /\ t # s)
  BY <1>2, <1>3
<1>. QED
  BY <1>4

LEMMA SumsAgree ==
    ASSUME NEW f, NEW D, IsFiniteSet(D), NEW E \in SUBSET D,
           NEW a, IsSum(f, D, a), NEW b, IsSum(f, E, b)
    PROVE  \A s \in SUBSET E : a[s] = b[s]
<1>. DEFINE bad == {s \in SUBSET E : a[s] # b[s]}
<1>1. SUFFICES ASSUME bad # {} PROVE FALSE
  OBVIOUS
<1>2. PICK s \in bad : \A t \in bad : ~(t \subseteq s /\ t # s)
  <2>1. IsFiniteSet(E)
    BY FS_Subset
  <2>2. bad \in SUBSET SUBSET E
    OBVIOUS
  <2>. HIDE DEF bad
  <2>. QED
    BY <1>1, <2>1, <2>2, SmallestExists
<1>. DEFINE x == CHOOSE y \in s : TRUE
<1>3. s # {}
  BY <1>2 DEF IsSum
<1>4. x \in s /\ (s \ {x}) \in SUBSET E
  BY <1>2, <1>3
<1>5. a[s \ {x}] = b[s \ {x}]
  BY <1>2, <1>4
<1>6. a[s] = f[x] + a[s \ {x}] /\ b[s] = f[x] + b[s \ {x}]
  BY <1>2, <1>3 DEF IsSum
<1>. QED
  BY <1>2, <1>5, <1>6

LEMMA SumExists ==
    ASSUME NEW f, NEW D, IsFiniteSet(D)
    PROVE  \E it : IsSum(f, D, it)
<1>. DEFINE bad == {s \in SUBSET D : ~\E it : IsSum(f, s, it)}
<1>1. SUFFICES ASSUME bad # {} PROVE FALSE
  OBVIOUS
<1>2. PICK s \in bad : \A t \in bad : ~(t \subseteq s /\ t # s)
  <2>2. bad \in SUBSET SUBSET D
    OBVIOUS
  <2>. HIDE DEF bad
  <2>. QED
    BY <1>1, <2>2, SmallestExists
<1>. DEFINE sum(t) == CHOOSE it : IsSum(f, t, it)
            x(t) == CHOOSE y \in t : TRUE
            whole == IF s = {} THEN 0 ELSE f[x(s)] + sum(s \ {x(s)})[s \ {x(s)}]
            it == [t \in SUBSET s |-> IF t = s THEN whole ELSE sum(t)[t]]
<1>3. ASSUME NEW t \in SUBSET s, t # s
      PROVE  IsSum(f, t, sum(t))
  BY <1>2, <1>3
<1>4. ASSUME NEW t \in SUBSET s, t # {}
      PROVE  it[t] = f[x(t)] + it[t \ {x(t)}]
  <2>1. x(t) \in t /\ t \ {x(t)} \in SUBSET s /\ t \ {x(t)} # s
    BY <1>4
  <2>2. it[t \ {x(t)}] = sum(t \ {x(t)})[t \ {x(t)}]
    BY <2>1
  <2>3. CASE t = s
    BY <1>4, <2>2, <2>3
  <2>4. CASE t # s
    <3>1. IsSum(f, t, sum(t)) /\ IsSum(f, t \ {x(t)}, sum(t \ {x(t)}))
      BY <1>3, <2>1, <2>4
    <3>2. sum(t)[t \ {x(t)}] = sum(t \ {x(t)})[t \ {x(t)}]
      <4>1. IsFiniteSet(t)
        BY <1>2, FS_Subset
      <4>. HIDE DEF sum, x
      <4>. QED
        BY <3>1, <4>1, SumsAgree
    <3>3. sum(t)[t] = f[x(t)] + sum(t)[t \ {x(t)}]
      BY <1>4, <3>1 DEF IsSum
    <3>. QED
      BY <2>2, <2>4, <3>2, <3>3
  <2>. QED
    BY <2>3, <2>4
<1>5. it[{}] = 0
  <2>1. s # {} => IsSum(f, {}, sum({}))
    BY <1>3
  <2>. QED
    BY <2>1 DEF IsSum
<1>6. IsSum(f, s, it)
  <2>2. it = [t \in SUBSET s |-> it[t]]
    OBVIOUS
  <2>. HIDE DEF it
  <2>1. ASSUME NEW t \in SUBSET s
        PROVE  it[t] = IF t = {} THEN 0 ELSE f[CHOOSE y \in t : TRUE] + it[t \ {CHOOSE y \in t : TRUE}]
    BY <1>4, <1>5
  <2>. QED
    BY <2>1, <2>2 DEF IsSum
<1>. QED
  BY <1>2, <1>6

(* A sum is one of its members and the sum of the others, the same one for *)
(* every function.                                                         *)
LEMMA SumStep ==
    ASSUME NEW f, NEW D, IsFiniteSet(D)
    PROVE  /\ D = {} => SumFunctionOnSet(f, D) = 0
           /\ D # {} => Some(D) \in D /\ SumFunctionOnSet(f, D) = f[Some(D)] + SumFunctionOnSet(f, D \ {Some(D)})
<1>. DEFINE sum(t) == CHOOSE it : IsSum(f, t, it)
            x == CHOOSE y \in D : TRUE
<1>1. IsSum(f, D, sum(D)) /\ IsSum(f, D \ {x}, sum(D \ {x}))
  BY SumExists, FS_Subset
<1>2. sum(D)[D \ {x}] = sum(D \ {x})[D \ {x}]
  <2>1. D \ {x} \in SUBSET D /\ D \ {x} \in SUBSET (D \ {x})
    OBVIOUS
  <2>. HIDE DEF sum, x
  <2>. DEFINE a == sum(D)
              b == sum(D \ {x})
  <2>2. IsSum(f, D, a) /\ IsSum(f, D \ {x}, b)
    BY <1>1
  <2>. HIDE DEF a, b
  <2>3. \A s \in SUBSET (D \ {x}) : a[s] = b[s]
    BY <2>1, <2>2, SumsAgree
  <2>. QED
    BY <2>1, <2>3 DEF a, b
<1>3. D = {} => sum(D)[D] = 0
  BY <1>1 DEF IsSum
<1>4. D # {} => x \in D /\ sum(D)[D] = f[x] + sum(D)[D \ {x}]
  BY <1>1 DEF IsSum
<1>. QED
  BY <1>2, <1>3, <1>4, SumIs DEF Some

(* A sum of natural numbers is one, and grows with every term. *)
LEMMA SumGrows ==
    ASSUME NEW D, IsFiniteSet(D), NEW f, NEW g,
           \A x \in D : f[x] \in Nat /\ g[x] \in Nat /\ f[x] <= g[x]
    PROVE  /\ SumFunctionOnSet(f, D) \in Nat /\ SumFunctionOnSet(g, D) \in Nat
           /\ SumFunctionOnSet(f, D) <= SumFunctionOnSet(g, D)
<1>. DEFINE Fine(s) == /\ SumFunctionOnSet(f, s) \in Nat /\ SumFunctionOnSet(g, s) \in Nat
                       /\ SumFunctionOnSet(f, s) <= SumFunctionOnSet(g, s)
            bad == {s \in SUBSET D : ~Fine(s)}
<1>1. SUFFICES ASSUME bad # {} PROVE FALSE
  BY DEF bad
<1>2. PICK s \in bad : \A t \in bad : ~(t \subseteq s /\ t # s)
  <2>1. bad \in SUBSET SUBSET D
    OBVIOUS
  <2>. HIDE DEF bad
  <2>. QED
    BY <1>1, <2>1, SmallestExists
<1>. DEFINE x == Some(s)
            rest == s \ {x}
<1>3. s \in SUBSET D /\ ~Fine(s) /\ IsFiniteSet(s)
  BY FS_Subset
<1>4. s # {}
  <2>1. CASE s = {}
    <3>1. SumFunctionOnSet(f, s) = 0 /\ SumFunctionOnSet(g, s) = 0
      BY <1>3, <2>1, SumStep
    <3>. QED
      BY <1>3, <3>1
  <2>. QED
    BY <2>1
<1>5. /\ x \in s
      /\ SumFunctionOnSet(f, s) = f[x] + SumFunctionOnSet(f, rest)
      /\ SumFunctionOnSet(g, s) = g[x] + SumFunctionOnSet(g, rest)
  <2>. HIDE DEF bad, Fine
  <2>. QED
    BY <1>3, <1>4, SumStep
<1>6. rest \in SUBSET D /\ rest \subseteq s /\ rest # s
  BY <1>3, <1>5
<1>. HIDE DEF x, rest
<1>7. Fine(rest)
  BY <1>2, <1>6
<1>. QED
  BY <1>3, <1>5, <1>7

-----------------------------------------------------------------------------
(* Whole numbers. *)

LEMMA OnlyIs ==
    ASSUME NEW xs, OnlyOf(xs) # None
    PROVE  OnlyOf(xs) \in xs
<1>1. Cardinality(xs) = 1
  BY DEF OnlyOf
<1>2. xs # {}
  BY <1>1, FS_EmptySet
<1>. QED
  BY <1>1, <1>2 DEF OnlyOf

LEMMA DivIs ==
    ASSUME NEW a \in Int, NEW b \in Nat \ {0}
    PROVE  /\ a \div b \in Int /\ b * (a \div b) <= a /\ a < b * (a \div b) + b
           /\ a \in Nat => a \div b \in Nat
<1>1. a \div b \in Int /\ b * (a \div b) <= a
  OBVIOUS
<1>2. a < b * (a \div b) + b
  OBVIOUS
<1>3. a \in Nat => a \div b \in Nat
  OBVIOUS
<1>. QED
  BY <1>1, <1>2, <1>3

LEMMA TimesGrows ==
    ASSUME NEW a \in Nat, NEW b \in Int, NEW c \in Int, b <= c
    PROVE  a * b <= a * c
OBVIOUS

LEMMA TimesIs ==
    ASSUME NEW a \in Nat, NEW b \in Nat
    PROVE  a * b \in Nat /\ (a > 0 /\ b > 0 => a * b > 0)
OBVIOUS

LEMMA FloorIs ==
    ASSUME NEW quantity \in Nat, NEW lot \in Nat \ {0}
    PROVE  FloorTo(quantity, lot) \in Nat /\ FloorTo(quantity, lot) <= quantity
<1>. DEFINE n == quantity \div lot
<1>1. n \in Nat /\ lot * n <= quantity
  BY DivIs
<1>. HIDE DEF n
<1>2. n * lot = lot * n /\ n * lot \in Nat
  BY <1>1
<1>. QED
  BY <1>1, <1>2 DEF FloorTo, n

(* A quantity that a limit allows at a price costs no more than the limit. *)
LEMMA AllowedCosts ==
    ASSUME NEW num \in Nat, NEW den \in Nat \ {0}, NEW price \in Nat \ {0}, NEW quantity \in Nat,
           quantity <= num \div (den * price)
    PROVE  (price * quantity) * den <= num
<1>1. den * price \in Nat \ {0}
  BY TimesIs
<1>2. num \div (den * price) \in Nat /\ (den * price) * (num \div (den * price)) <= num
  BY <1>1, DivIs
<1>3. (den * price) * quantity <= (den * price) * (num \div (den * price))
  BY <1>1, <1>2, TimesGrows
<1>4. (den * price) * quantity = (price * quantity) * den
  OBVIOUS
<1>5. (den * price) * quantity \in Int /\ (den * price) * (num \div (den * price)) \in Int
  BY <1>1, <1>2
<1>. QED
  BY <1>2, <1>3, <1>4, <1>5

-----------------------------------------------------------------------------
(* Risk. *)

LEMMA ValueIs ==
    ASSUME NEW positions, IsFiniteSet(positions), \A p \in positions : p.value \in Nat
    PROVE  ValueOf(positions) \in Nat
<1>. DEFINE f == [p \in positions |-> p.value]
<1>1. \A p \in positions : f[p] \in Nat /\ f[p] <= f[p]
  OBVIOUS
<1>2. DOMAIN f = positions
  OBVIOUS
<1>. HIDE DEF f
<1>3. SumFunctionOnSet(f, positions) \in Nat
  BY <1>1, SumGrows
<1>. QED
  BY <1>2, <1>3 DEF ValueOf, SumFunction, f

LEMMA SellableIs ==
    ASSUME NEW a, IsAccount(a), NEW security
    PROVE  SellableIn(a, security) \in Nat
<1>. DEFINE p == PositionOf(a, security)
<1>1. CASE p = None
  BY <1>1 DEF SellableIn
<1>2. CASE p # None
  <2>1. p \in a.positions
    BY <1>2, OnlyIs DEF PositionOf
  <2>. HIDE DEF p
  <2>2. IsFiniteSet(p.lots) /\ \A l \in p.lots : l.sellable \in Nat
    BY <2>1 DEF IsAccount, IsPosition, IsLot
  <2>. DEFINE f == [l \in p.lots |-> l.sellable]
  <2>3. \A l \in p.lots : f[l] \in Nat /\ f[l] <= f[l]
    BY <2>2
  <2>4. DOMAIN f = p.lots
    OBVIOUS
  <2>. HIDE DEF f
  <2>5. SumFunctionOnSet(f, p.lots) \in Nat
    BY <2>2, <2>3, SumGrows
  <2>. QED
    BY <1>2, <2>4, <2>5 DEF SellableIn, SumFunction, f, p
<1>. QED
  BY <1>1, <1>2

LEMMA MoneyIs ==
    ASSUME NEW a, IsAccount(a)
    PROVE  /\ NetAssets(a) \in Nat \ {0} /\ a.highWater \in Nat /\ a.available \in Nat /\ a.openLoss \in Nat
           /\ \A p \in a.positions : p.value \in Nat
           /\ IsFiniteSet(a.positions)
<1>1. /\ a.available \in Nat /\ a.reserved \in Nat /\ a.receivable \in Nat
      /\ a.payable \in Nat /\ a.openLoss \in Nat /\ a.highWater \in Nat
      /\ NetAssets(a) > 0
      /\ IsFiniteSet(a.positions) /\ \A p \in a.positions : p.value \in Nat
  BY DEF IsAccount, IsPosition
<1>2. ValueOf(a.positions) \in Nat
  BY <1>1, ValueIs
<1>3. NetAssets(a) \in Int
  BY <1>1, <1>2 DEF NetAssets, Settled, PositionValue
<1>. QED
  BY <1>1, <1>3

LEMMA PositiveIs ==
    ASSUME NEW a \in Int
    PROVE  Positive(a) \in Nat /\ a <= Positive(a)
BY DEF Positive, GreaterOf

(* What may be lost at most, and when anything may. *)
LEMMA PlannedLossIs ==
    ASSUME NEW c, NEW d, IsAccount(d.account), d.regime \in {"NORMAL", "DEFENSIVE", "CRISIS"}
    PROVE  /\ PlannedLoss(c, d) \in Nat
           /\ PlannedLoss(c, d) # 0 =>
                /\ d.regime # "CRISIS" /\ ~DrawnTo(d.account, DeriskOnlyAt)
                /\ d.account.stopped => Recovered(d.account)
<1>. DEFINE byRegime == CASE d.regime = "NORMAL" -> NormalLoss
                          [] d.regime = "DEFENSIVE" -> DefensiveLoss
                          [] d.regime = "CRISIS" -> CrisisRisk
<1>1. byRegime \in Nat /\ (d.regime = "CRISIS" => byRegime = 0)
  BY DEF NormalLoss, DefensiveLoss, CrisisRisk
<1>2. DrawnTo(d.account, StoppedAt) => DrawnTo(d.account, DeriskOnlyAt)
  <2>1. NetAssets(d.account) \in Int /\ d.account.highWater \in Nat
    BY MoneyIs
  <2>. QED
    BY <2>1 DEF DrawnTo, StoppedAt, DeriskOnlyAt
<1>. HIDE DEF byRegime
<1>3. LesserOf(byRegime, DefensiveLoss) \in Nat /\ (byRegime = 0 => LesserOf(byRegime, DefensiveLoss) = 0)
  BY <1>1 DEF LesserOf, DefensiveLoss
<1>4. PlannedLoss(c, d) =
        IF DrawnTo(d.account, DeriskOnlyAt)
             \/ (d.account.stopped /\ ~DrawnTo(d.account, StoppedAt) /\ ~Recovered(d.account)) THEN 0
        ELSE IF DrawnTo(d.account, CautionAt)
        THEN IF c.action = "ADD" THEN 0 ELSE LesserOf(byRegime, DefensiveLoss)
        ELSE byRegime
  BY DEF PlannedLoss, byRegime
<1>. QED
  BY <1>1, <1>2, <1>3, <1>4

LEMMA StressIs ==
    ASSUME NEW d, d.stress \in Int
    PROVE  StressLoss(d) \in Nat \ {0}
BY PositiveIs DEF StressLoss, GreaterOf

Ratios == {l \in [num : Nat, den : Nat] : l.den > 0}

LEMMA RatioIs ==
    ASSUME NEW num \in Nat, NEW den \in Nat \ {0}
    PROVE  Ratio(num, den) \in Ratios
BY DEF Ratio, Ratios

LEMMA LossLeftIs ==
    ASSUME NEW nav \in Nat, NEW rate \in Nat, NEW lost \in Nat, NEW stress \in Nat \ {0}
    PROVE  LossLeft(nav, rate, lost, stress) \in Ratios
<1>1. nav * rate - 10000 * lost \in Int
  BY TimesIs
<1>2. Positive(nav * rate - 10000 * lost) \in Nat /\ 100 * stress \in Nat \ {0}
  BY <1>1, PositiveIs
<1>. QED
  BY <1>2, RatioIs DEF LossLeft

(* Every limit of a purchase is a fraction. *)
LEMMA LimitsAre ==
    ASSUME NEW c, NEW d, IsDesk(d), d.regime # None, d.stress # None,
           \A x \in d.clusters.assigned : Exposure(d.account, x) # None
    PROVE  /\ Limits(c, d) \subseteq Ratios
           /\ Ratio(NetAssets(d.account) * PlannedLoss(c, d), 100 * StressLoss(d)) \in Limits(c, d)
<1>. DEFINE a == d.account
            nav == NetAssets(a)
            stress == StressLoss(d)
            held == {p \in a.positions : p.company = d.clusters.company}
            company == ValueOf(held)
            first == {Ratio(nav * PlannedLoss(c, d), 100 * stress),
                      ShareOf(nav, InitialWeight),
                      Ratio(d.sizing.liquidity, 1),
                      Ratio(Positive(nav * CompanyWeight - 10000 * company), 10000),
                      LossLeft(nav, AggregateLoss, a.openLoss, stress),
                      Ratio(Positive(a.available - d.sizing.reserve), 1)}
            ofCluster(x) == {Ratio(Positive(nav * ClusterValue - 10000 * Exposure(a, x).value), 10000),
                             LossLeft(nav, ClusterLoss, Exposure(a, x).loss, stress)}
<1>1. IsAccount(a) /\ IsRegime(d.regime) /\ IsStress(d.stress) /\ IsSizing(d.sizing)
  BY DEF IsDesk
<1>2. nav \in Nat /\ a.available \in Nat /\ a.openLoss \in Nat
  BY <1>1, MoneyIs
<1>3. stress \in Nat \ {0}
  BY <1>1, StressIs DEF IsStress
<1>4. PlannedLoss(c, d) \in Nat
  BY <1>1, PlannedLossIs DEF IsRegime
<1>5. company \in Nat
  <2>1. IsFiniteSet(held) /\ \A p \in held : p.value \in Nat
    BY <1>1, MoneyIs, FS_Subset
  <2>. HIDE DEF held
  <2>. QED
    BY <2>1, ValueIs
<1>6. d.sizing.liquidity \in Nat /\ d.sizing.reserve \in Nat
  BY <1>1 DEF IsSizing
<1>7. ASSUME NEW x \in d.clusters.assigned
      PROVE  Exposure(a, x).value \in Nat /\ Exposure(a, x).loss \in Nat
  <2>1. Exposure(a, x) \in a.exposures
    BY OnlyIs DEF Exposure
  <2>. QED
    BY <1>1, <2>1 DEF IsAccount
<1>8. Limits(c, d) = first \cup UNION {ofCluster(x) : x \in d.clusters.assigned}
  BY DEF Limits
<1>. HIDE DEF a, nav, stress, held, company
<1>9. first \subseteq Ratios
  <2>1. nav * PlannedLoss(c, d) \in Nat /\ 100 * stress \in Nat \ {0}
    BY <1>2, <1>3, <1>4, TimesIs
  <2>2. nav * CompanyWeight - 10000 * company \in Int /\ nav * InitialWeight \in Nat
    BY <1>2, <1>5 DEF CompanyWeight, InitialWeight
  <2>3. Ratio(nav * PlannedLoss(c, d), 100 * stress) \in Ratios /\ ShareOf(nav, InitialWeight) \in Ratios
    BY <2>1, <2>2, RatioIs DEF ShareOf
  <2>4. Ratio(d.sizing.liquidity, 1) \in Ratios
    BY <1>6, RatioIs
  <2>5. Ratio(Positive(nav * CompanyWeight - 10000 * company), 10000) \in Ratios
    BY <2>2, PositiveIs, RatioIs
  <2>6. Ratio(Positive(a.available - d.sizing.reserve), 1) \in Ratios
    BY <1>2, <1>6, PositiveIs, RatioIs
  <2>7. LossLeft(nav, AggregateLoss, a.openLoss, stress) \in Ratios
    BY <1>2, <1>3, LossLeftIs DEF AggregateLoss
  <2>. QED
    BY <2>3, <2>4, <2>5, <2>6, <2>7
<1>10. ASSUME NEW x \in d.clusters.assigned
       PROVE  ofCluster(x) \subseteq Ratios
  <2>1. nav * ClusterValue - 10000 * Exposure(a, x).value \in Int
    BY <1>2, <1>7 DEF ClusterValue
  <2>2. Ratio(Positive(nav * ClusterValue - 10000 * Exposure(a, x).value), 10000) \in Ratios
    BY <2>1, PositiveIs, RatioIs
  <2>3. LossLeft(nav, ClusterLoss, Exposure(a, x).loss, stress) \in Ratios
    BY <1>2, <1>3, <1>7, LossLeftIs DEF ClusterLoss
  <2>. QED
    BY <2>2, <2>3
<1>11. Ratio(nav * PlannedLoss(c, d), 100 * stress) \in Limits(c, d)
  BY <1>8
<1>. HIDE DEF first, ofCluster
<1>12. Limits(c, d) \subseteq Ratios
  BY <1>8, <1>9, <1>10
<1>. QED
  BY <1>11, <1>12 DEF a, nav, stress

(* The quantity that every limit allows: it costs no more than any of them, *)
(* and none is left when one of them allows nothing.                        *)
LEMMA LegalIs ==
    ASSUME NEW limits, limits \subseteq Ratios, limits # {}, NEW price \in Nat \ {0}
    PROVE  /\ LegalQuantity(limits, price) \in Nat
           /\ \A q \in Nat, l \in limits : q <= LegalQuantity(limits, price) =>
                /\ (price * q) * l.den <= l.num
                /\ q > 0 => l.num # 0
<1>. DEFINE allowed(l) == l.num \div (l.den * price)
            all == {allowed(l) : l \in limits}
<1>1. ASSUME NEW l \in limits
      PROVE  l.num \in Nat /\ l.den \in Nat \ {0} /\ allowed(l) \in Nat
  <2>1. l.num \in Nat /\ l.den \in Nat \ {0}
    BY DEF Ratios
  <2>2. l.den * price \in Nat \ {0}
    BY <2>1, TimesIs
  <2>. QED
    BY <2>1, <2>2, DivIs
<1>. HIDE DEF allowed
<1>2. all \in SUBSET Nat /\ all # {}
  BY <1>1
<1>3. LegalQuantity(limits, price) = Min(all)
  BY DEF LegalQuantity, allowed
<1>4. Min(all) \in all /\ \A y \in all : Min(all) <= y
  <2>. HIDE DEF all
  <2>. QED
    BY <1>2, LeastExists
<1>5. ASSUME NEW q \in Nat, NEW l \in limits, q <= Min(all)
      PROVE  (price * q) * l.den <= l.num /\ (q > 0 => l.num # 0)
  <2>1. Min(all) <= allowed(l) /\ Min(all) \in Nat /\ allowed(l) \in Nat
    BY <1>1, <1>2, <1>4
  <2>2. q <= allowed(l)
    BY <1>5, <2>1
  <2>3. (price * q) * l.den <= l.num
    BY <1>1, <2>2, AllowedCosts DEF allowed
  <2>4. q > 0 => (price * q) * l.den > 0
    BY <1>1, TimesIs
  <2>. QED
    BY <1>1, <2>3, <2>4
<1>. QED
  BY <1>2, <1>3, <1>4, <1>5

(* What a purchase is sized at, and that nothing is when no loss may be planned. *)
LEMMA NewRiskIs ==
    ASSUME NEW c, NEW d, IsCase(c), IsDesk(d), NewRiskTarget(c, d).quantity # None
    PROVE  LET risk == NewRiskTarget(c, d)
           IN  /\ risk.quantity \in Nat /\ risk.stress \in Nat \ {0}
               /\ risk.value \in Nat
               /\ \A l \in Limits(c, d) : l \in Ratios /\ risk.value * l.den <= l.num
               /\ risk.quantity > 0 =>
                    /\ d.regime # "CRISIS" /\ ~DrawnTo(d.account, DeriskOnlyAt)
                    /\ d.account.stopped => Recovered(d.account)
               /\ RecoveryFits(c, d.account)
<1>. DEFINE price == c.proposal.price
            limits == Limits(c, d)
            lot == OnlyOf(RoundingRules(c)).buyLot
            legal == LegalQuantity(limits, price)
            quantity == FloorTo(legal, lot)
            loss == Ratio(NetAssets(d.account) * PlannedLoss(c, d), 100 * StressLoss(d))
<1>1. /\ RecoveryFits(c, d.account) /\ d.regime # None /\ d.stress # None
      /\ \A x \in d.clusters.assigned : Exposure(d.account, x) # None
      /\ Cardinality(RoundingRules(c)) = 1
  BY DEF NewRiskTarget, NoTarget, Target
<1>2. NewRiskTarget(c, d) = Sized(quantity, price, StressLoss(d))
  BY <1>1 DEF NewRiskTarget
<1>3. /\ NewRiskTarget(c, d).quantity = quantity
      /\ NewRiskTarget(c, d).value = price * quantity
      /\ NewRiskTarget(c, d).stress = StressLoss(d)
  BY <1>2 DEF Sized, Target
<1>4. price \in Nat \ {0} /\ lot \in Nat \ {0}
  <2>1. OnlyOf(RoundingRules(c)) \in RoundingRules(c)
    <3>1. RoundingRules(c) # {}
      BY <1>1, FS_EmptySet
    <3>. QED
      BY <1>1, <3>1 DEF OnlyOf
  <2>2. OnlyOf(RoundingRules(c)) \in c.rules
    BY <2>1 DEF RoundingRules
  <2>. QED
    BY <2>2 DEF IsCase, IsMarketRule
<1>5. StressLoss(d) \in Nat \ {0} /\ IsAccount(d.account) /\ d.regime \in {"NORMAL", "DEFENSIVE", "CRISIS"}
  BY <1>1, StressIs DEF IsDesk, IsStress, IsRegime
<1>6. limits \subseteq Ratios /\ loss \in limits
  BY <1>1, LimitsAre
<1>. HIDE DEF price, limits, lot, legal, quantity, loss
<1>7. /\ legal \in Nat
      /\ \A q \in Nat, l \in limits : q <= legal => (price * q) * l.den <= l.num /\ (q > 0 => l.num # 0)
  <2>1. limits # {}
    BY <1>6
  <2>. QED
    BY <1>4, <1>6, <2>1, LegalIs DEF legal
<1>8. quantity \in Nat /\ quantity <= legal
  BY <1>4, <1>7, FloorIs DEF quantity
<1>9. price * quantity \in Nat /\ \A l \in limits : (price * quantity) * l.den <= l.num
  BY <1>4, <1>7, <1>8, TimesIs
<1>10. quantity > 0 => PlannedLoss(c, d) # 0
  <2>. SUFFICES ASSUME quantity > 0, PlannedLoss(c, d) = 0 PROVE FALSE
    OBVIOUS
  <2>1. NetAssets(d.account) \in Nat
    BY <1>5, MoneyIs
  <2>2. loss.num = 0
    BY <2>1 DEF loss, Ratio
  <2>. QED
    BY <1>6, <1>7, <1>8, <2>2
<1>11. PlannedLoss(c, d) # 0 =>
         /\ d.regime # "CRISIS" /\ ~DrawnTo(d.account, DeriskOnlyAt)
         /\ d.account.stopped => Recovered(d.account)
  BY <1>5, PlannedLossIs
<1>. QED
  BY <1>1, <1>3, <1>5, <1>6, <1>8, <1>9, <1>10, <1>11 DEF limits

-----------------------------------------------------------------------------
(* The windows of a session are numbered. *)

LEMMA BeforeIs ==
    ASSUME NEW w, IsObservation(w), NEW x, IsObservation(x), NEW y, IsObservation(y)
    PROVE  /\ ~WindowBefore(w, w)
           /\ WindowBefore(w, x) /\ WindowBefore(x, y) => WindowBefore(w, y)
           /\ WindowBefore(w, x) \/ WindowBefore(x, w) \/ w.id = x.id
<1>1. {w.end, w.id, x.end, x.id, y.end, y.id} \subseteq Int
  BY DEF IsObservation
<1>. QED
  BY <1>1 DEF WindowBefore

LEMMA NthWindowIs ==
    ASSUME NEW c, IsCase(c), NEW i, NEW n \in 1..Cardinality(SessionWindows(c, i))
    PROVE  NthWindow(c, i, n) \in SessionWindows(c, i)
<1>. DEFINE S == SessionWindows(c, i)
            before(w) == {x \in S : WindowBefore(x, w)}
            last == Cardinality(S) - 1
            rank == [w \in S |-> Cardinality(before(w))]
<1>1. /\ S \subseteq c.windows /\ IsFiniteSet(S)
      /\ \A w \in S : IsObservation(w)
      /\ \A w, x \in S : w.id = x.id => w = x
  <2>1. S \subseteq c.windows
    BY DEF SessionWindows
  <2>2. /\ IsFiniteSet(c.windows) /\ \A w \in c.windows : IsObservation(w)
        /\ \A w, x \in c.windows : w.id = x.id => w = x
    BY DEF IsCase
  <2>. HIDE DEF S
  <2>. QED
    BY <2>1, <2>2, FS_Subset
<1>0. NthWindow(c, i, n) = CHOOSE w \in S : Cardinality(before(w)) = n - 1
  BY DEF NthWindow
<1>. HIDE DEF S
<1>2. ASSUME NEW w \in S
      PROVE  /\ before(w) \in SUBSET S /\ w \notin before(w) /\ IsFiniteSet(before(w))
             /\ Cardinality(before(w)) \in 0..last
  <2>1. before(w) \in SUBSET S /\ w \notin before(w)
    BY <1>1, BeforeIs
  <2>. HIDE DEF before
  <2>2. IsFiniteSet(before(w)) /\ Cardinality(before(w)) \in Nat /\ Cardinality(S) \in Nat
    BY <1>1, <2>1, FS_Subset, FS_CardinalityType
  <2>3. Cardinality(before(w)) <= Cardinality(S) /\ Cardinality(before(w)) # Cardinality(S)
    BY <1>1, <2>1, FS_Subset
  <2>. QED
    BY <2>1, <2>2, <2>3
<1>3. ASSUME NEW w \in S, NEW x \in S, WindowBefore(w, x)
      PROVE  Cardinality(before(w)) < Cardinality(before(x))
  <2>1. before(w) \cup {w} \in SUBSET before(x)
    BY <1>1, <1>3, BeforeIs
  <2>2. /\ IsFiniteSet(before(w)) /\ IsFiniteSet(before(x)) /\ w \notin before(w)
        /\ Cardinality(before(w)) \in Nat /\ Cardinality(before(x)) \in Nat
    BY <1>2, FS_CardinalityType
  <2>. HIDE DEF before
  <2>3. Cardinality(before(w) \cup {w}) = Cardinality(before(w)) + 1
    BY <2>2, FS_AddElement
  <2>4. Cardinality(before(w) \cup {w}) <= Cardinality(before(x))
    BY <2>1, <2>2, FS_Subset
  <2>. QED
    BY <2>2, <2>3, <2>4
<1>4. ASSUME NEW w \in S, NEW x \in S, Cardinality(before(w)) = Cardinality(before(x))
      PROVE  w = x
  <2>1. Cardinality(before(w)) \in Int
    BY <1>2
  <2>2. ~WindowBefore(w, x) /\ ~WindowBefore(x, w)
    <3>. HIDE DEF before
    <3>. QED
      BY <1>3, <1>4, <2>1
  <2>. QED
    BY <1>1, <2>2, BeforeIs
<1>. HIDE DEF before
<1>5. rank \in Injection(S, 0..last)
  BY <1>2, <1>4 DEF Injection, IsInjective
<1>6. IsFiniteSet(0..last) /\ Cardinality(0..last) = Cardinality(S)
  <2>1. Cardinality(S) \in Nat
    BY <1>1, FS_CardinalityType
  <2>2. 0 \in Int /\ last \in Int /\ last >= -1 /\ last + 1 = Cardinality(S)
    BY <2>1
  <2>. HIDE DEF last
  <2>3. IsFiniteSet(0..last)
    BY <2>2, FS_Interval
  <2>4. Cardinality(0..last) = IF 0 > last THEN 0 ELSE last - 0 + 1
    BY <2>2, FS_Interval, Zenon
  <2>. QED
    BY <2>2, <2>3, <2>4
<1>7. rank \in Surjection(S, 0..last)
  <2>. HIDE DEF rank, last
  <2>. QED
    BY <1>5, <1>6, FS_Injection
<1>8. n - 1 \in 0..last
  <2>1. Cardinality(S) \in Nat
    BY <1>1, FS_CardinalityType
  <2>. QED
    BY <2>1 DEF S
<1>9. \E w \in S : Cardinality(before(w)) = n - 1
  <2>. HIDE DEF last
  <2>. QED
    BY <1>7, <1>8 DEF Surjection
<1>. QED
  BY <1>0, <1>9 DEF S

-----------------------------------------------------------------------------
(* Charges: whole, and never less on a greater amount. *)

LEMMA DivGrows ==
    ASSUME NEW a \in Int, NEW b \in Int, a <= b, NEW k \in Nat \ {0}
    PROVE  a \div k <= b \div k
<1>. DEFINE q == a \div k
            r == b \div k
<1>1. q \in Int /\ r \in Int /\ k * q <= a /\ b < k * r + k
  BY DivIs
<1>. HIDE DEF q, r
<1>2. ASSUME r < q
      PROVE  FALSE
  <2>1. k * (r + 1) <= k * q
    BY <1>1, <1>2, TimesGrows
  <2>2. k * (r + 1) = k * r + k /\ k * r \in Int /\ k * q \in Int
    BY <1>1
  <2>. QED
    BY <1>1, <2>1, <2>2
<1>. QED
  BY <1>1, <1>2 DEF q, r

LEMMA CeilIs ==
    ASSUME NEW a \in Nat, NEW k \in Nat \ {0}
    PROVE  CeilDiv(a, k) \in Nat /\ a <= k * CeilDiv(a, k)
<1>. DEFINE q == (-a) \div k
<1>1. q \in Int /\ k * q <= -a
  BY DivIs
<1>. HIDE DEF q
<1>2. q <= 0
  BY <1>1
<1>3. k * (-q) = -(k * q)
  BY <1>1
<1>. QED
  BY <1>1, <1>2, <1>3 DEF CeilDiv, q

LEMMA CeilGrows ==
    ASSUME NEW a \in Nat, NEW b \in Nat, a <= b, NEW k \in Nat \ {0}
    PROVE  CeilDiv(a, k) <= CeilDiv(b, k)
<1>1. -a \in Int /\ -b \in Int /\ -b <= -a
  OBVIOUS
<1>2. (-b) \div k <= (-a) \div k /\ (-b) \div k \in Int /\ (-a) \div k \in Int
  BY <1>1, DivGrows, DivIs
<1>. QED
  BY <1>2 DEF CeilDiv

LEMMA RoundUpGrows ==
    ASSUME NEW a \in Nat, NEW b \in Nat, a <= b, NEW den \in Nat \ {0}, NEW unit \in Nat \ {0}
    PROVE  /\ RoundUp(a, den, unit) \in Nat /\ RoundUp(b, den, unit) \in Nat
           /\ RoundUp(a, den, unit) <= RoundUp(b, den, unit)
<1>1. den * unit \in Nat \ {0}
  BY TimesIs
<1>. DEFINE m == CeilDiv(a, den * unit)
            n == CeilDiv(b, den * unit)
<1>2. m \in Nat /\ n \in Nat /\ m <= n
  BY <1>1, CeilIs, CeilGrows
<1>. HIDE DEF m, n
<1>3. m * unit \in Nat /\ n * unit \in Nat /\ m * unit = unit * m /\ n * unit = unit * n /\ unit * m <= unit * n
  BY <1>2, TimesIs, TimesGrows
<1>. QED
  BY <1>3 DEF RoundUp, m, n

LEMMA LevyGrows ==
    ASSUME NEW gross \in Nat, NEW more \in Nat, gross <= more, NEW rate \in Nat,
           NEW cost, cost.unit \in Nat \ {0}
    PROVE  /\ Levy(gross, rate, cost) \in Nat /\ Levy(more, rate, cost) \in Nat
           /\ Levy(gross, rate, cost) <= Levy(more, rate, cost)
<1>1. gross * rate \in Nat /\ more * rate \in Nat /\ gross * rate <= more * rate
  <2>1. rate * gross <= rate * more
    BY TimesGrows
  <2>. QED
    BY <2>1
<1>. DEFINE a == gross * rate
            b == more * rate
            unit == cost.unit
<1>2. a \in Nat /\ b \in Nat /\ a <= b /\ unit \in Nat \ {0} /\ 100 \in Nat \ {0}
  BY <1>1
<1>. HIDE DEF a, b, unit
<1>3. /\ RoundUp(a, 100, unit) \in Nat /\ RoundUp(b, 100, unit) \in Nat
      /\ RoundUp(a, 100, unit) <= RoundUp(b, 100, unit)
  BY <1>2, RoundUpGrows
<1>. QED
  BY <1>3 DEF Levy, a, b, unit

LEMMA FeesGrow ==
    ASSUME NEW cost, IsCostSchedule(cost), NEW gross \in Nat, NEW more \in Nat, gross <= more
    PROVE  /\ Fees(gross, cost) \in Nat /\ Tax(gross, cost) \in Nat
           /\ Fees(gross, cost) <= Fees(more, cost) /\ Tax(gross, cost) <= Tax(more, cost)
<1>. DEFINE D == DOMAIN cost.levies
            f == [i \in D |-> Levy(gross, cost.levies[i], cost)]
            g == [i \in D |-> Levy(more, cost.levies[i], cost)]
            least(n) == GreaterOf(Levy(n, cost.commission, cost), cost.minimum)
<1>1. /\ IsFiniteSet(D) /\ \A i \in D : cost.levies[i] \in Nat
      /\ cost.tax \in Nat /\ cost.commission \in Nat /\ cost.minimum \in Nat /\ cost.unit \in Nat \ {0}
  BY DEF IsCostSchedule
<1>2. /\ \A i \in D : f[i] \in Nat /\ g[i] \in Nat /\ f[i] <= g[i]
      /\ DOMAIN f = D /\ DOMAIN g = D
  <2>1. ASSUME NEW i \in D
        PROVE  f[i] \in Nat /\ g[i] \in Nat /\ f[i] <= g[i]
    <3>1. cost.levies[i] \in Nat /\ cost.unit \in Nat \ {0}
      BY <1>1
    <3>. QED
      BY <3>1, LevyGrows
  <2>. QED
    BY <2>1
<1>3. Tax(gross, cost) \in Nat /\ Tax(gross, cost) <= Tax(more, cost)
  BY <1>1, LevyGrows DEF Tax
<1>4. least(gross) \in Nat /\ least(more) \in Nat /\ least(gross) <= least(more)
  <2>1. Levy(gross, cost.commission, cost) \in Nat /\ Levy(more, cost.commission, cost) \in Nat
        /\ Levy(gross, cost.commission, cost) <= Levy(more, cost.commission, cost)
    BY <1>1, LevyGrows
  <2>. QED
    BY <1>1, <2>1 DEF GreaterOf
<1>5. /\ Fees(gross, cost) = SumFunctionOnSet(f, D) + RoundUp(least(gross), 1, cost.unit)
      /\ Fees(more, cost) = SumFunctionOnSet(g, D) + RoundUp(least(more), 1, cost.unit)
  BY <1>2 DEF Fees, SumFunction
<1>. HIDE DEF D, f, g, least
<1>6. /\ SumFunctionOnSet(f, D) \in Nat /\ SumFunctionOnSet(g, D) \in Nat
      /\ SumFunctionOnSet(f, D) <= SumFunctionOnSet(g, D)
  BY <1>1, <1>2, SumGrows
<1>7. /\ RoundUp(least(gross), 1, cost.unit) \in Nat /\ RoundUp(least(more), 1, cost.unit) \in Nat
      /\ RoundUp(least(gross), 1, cost.unit) <= RoundUp(least(more), 1, cost.unit)
  BY <1>1, <1>4, RoundUpGrows
<1>. QED
  BY <1>3, <1>5, <1>6, <1>7

LEMMA CostIs ==
    ASSUME NEW c, IsCase(c), NEW at, CostAt(c, at) # None
    PROVE  IsCostSchedule(CostAt(c, at))
<1>1. CostAt(c, at) \in c.costs
  BY OnlyIs DEF CostAt
<1>. QED
  BY <1>1 DEF IsCase

LEMMA RuleIs ==
    ASSUME NEW c, IsCase(c), NEW at, RuleAt(c, at) # None
    PROVE  IsMarketRule(RuleAt(c, at))
<1>1. Cardinality(RulesAt(c, at)) = 1 /\ RuleAt(c, at) = CHOOSE r \in RulesAt(c, at) : TRUE
  BY DEF RuleAt
<1>2. RulesAt(c, at) # {}
  BY <1>1, FS_EmptySet
<1>3. RuleAt(c, at) \in c.rules
  BY <1>1, <1>2 DEF RulesAt
<1>. QED
  BY <1>3 DEF IsCase

LEMMA QuoteIs ==
    ASSUME NEW quantity \in Nat, NEW w, NEW rule, IsMarketRule(rule), NEW curve,
           NEW cost, IsCostSchedule(cost), NEW side,
           Quote(quantity, w, rule, curve, cost, side) # None
    PROVE  LET quote == Quote(quantity, w, rule, curve, cost, side)
           IN  /\ quote.quantity = quantity
               /\ quote.price \in Nat /\ quote.gross \in Nat /\ quote.fee \in Nat /\ quote.tax \in Nat
<1>. DEFINE price == FillPrice(w.benchmark, Slippage(curve, quantity, w.volume), rule.tick, side)
            quote == Quote(quantity, w, rule, curve, cost, side)
<1>1. price \in rule.lower..rule.upper
  BY DEF Quote
<1>2. quote = [quantity |-> quantity, price |-> price, gross |-> price * quantity,
               fee |-> Fees(price * quantity, cost), tax |-> Tax(price * quantity, cost)]
  BY DEF Quote
<1>3. rule.lower \in Nat /\ rule.upper \in Nat
  BY DEF IsMarketRule
<1>. HIDE DEF price, quote
<1>4. price \in Nat
  BY <1>1, <1>3
<1>5. price * quantity \in Nat
  BY <1>4, TimesIs
<1>6. Fees(price * quantity, cost) \in Nat /\ Tax(price * quantity, cost) \in Nat
  BY <1>5, FeesGrow
<1>. QED
  BY <1>2, <1>4, <1>5, <1>6 DEF quote

-----------------------------------------------------------------------------
(* The quote that is taken. *)

LEMMA CandidateIs ==
    ASSUME NEW c, IsCase(c), NEW con, con = None \/ IsConstraint(con, c.action),
           NEW w, IsObservation(w), NEW lot \in Nat \ {0}
    PROVE  /\ Candidate(c, con, w, lot) \in Nat
           /\ con # None => Candidate(c, con, w, lot) <= con.maximum
<1>1. c.approval.quantity \in Nat /\ w.volume \in Nat
  BY DEF IsCase, IsApproval, IsObservation
<1>2. (w.volume * Participation) \div 100 \in Nat
  BY <1>1, DivIs DEF Participation
<1>3. Capacity(w, lot) \in Nat /\ FloorTo(c.approval.quantity, lot) \in Nat
  BY <1>1, <1>2, FloorIs DEF Capacity
<1>4. con # None => con.maximum \in Nat
  BY DEF IsConstraint, Constraints
<1>. QED
  BY <1>3, <1>4 DEF Candidate, LesserOf

LEMMA LotIs ==
    ASSUME NEW rule, IsMarketRule(rule), NEW side
    PROVE  LotSize(rule, side) \in Nat \ {0}
BY DEF LotSize, IsMarketRule

QuoteOf(c, w, rule, n) ==
    Quote(n * LotSize(rule, Side(c.action)), w, rule,
          ImpactAt(c, w.quality, w.end), CostAt(c, w.end), Side(c.action))
LotsAt(c, con, w, rule) ==
    Candidate(c, con, w, LotSize(rule, Side(c.action))) \div LotSize(rule, Side(c.action))
PaysFor(c, con, w, rule, n) ==
    Affordable(QuoteOf(c, w, rule, n), NotionalCap(c, con), con, Side(c.action))

(* It is the quote of a number of lots that can be paid, and of the greatest *)
(* one if every smaller number can be paid too.                             *)
LEMMA BestIs ==
    ASSUME NEW c, IsCase(c), NEW con, con = None \/ IsConstraint(con, c.action),
           NEW w, IsObservation(w), NEW rule, IsMarketRule(rule),
           AffordableQuote(c, con, w, rule) # None
    PROVE  \E n \in 1..LotsAt(c, con, w, rule) :
             /\ AffordableQuote(c, con, w, rule) = QuoteOf(c, w, rule, n)
             /\ PaysFor(c, con, w, rule, n)
             /\ (\A i, j \in 1..LotsAt(c, con, w, rule) :
                    i < j /\ PaysFor(c, con, w, rule, j) => PaysFor(c, con, w, rule, i))
                  => \A m \in 1..LotsAt(c, con, w, rule) : PaysFor(c, con, w, rule, m) => m <= n
<1>. DEFINE lot == LotSize(rule, Side(c.action))
            most == LotsAt(c, con, w, rule)
            good == [n \in 1..most |-> PaysFor(c, con, w, rule, n)]
            n == Search(good, most)
<1>1. most \in Nat
  <2>1. lot \in Nat \ {0}
    BY LotIs
  <2>2. Candidate(c, con, w, lot) \in Nat
    BY <2>1, CandidateIs
  <2>. QED
    BY <2>1, <2>2, DivIs DEF LotsAt
<1>2. AffordableQuote(c, con, w, rule) = IF n = 0 THEN None ELSE QuoteOf(c, w, rule, n)
  BY DEF AffordableQuote, QuoteOf, LotsAt, PaysFor
<1>. HIDE DEF most, lot
<1>3. Found(good, most, n)
  BY <1>1, SearchFinds
<1>. HIDE DEF n
<1>4. \A m \in 1..most : good[m] <=> PaysFor(c, con, w, rule, m)
  OBVIOUS
<1>. HIDE DEF good
<1>5. n \in 1..most /\ good[n]
  BY <1>1, <1>2, <1>3 DEF Found
<1>6. PaysFor(c, con, w, rule, n)
  BY <1>4, <1>5
<1>7. ASSUME \A i, j \in 1..most : i < j /\ PaysFor(c, con, w, rule, j) => PaysFor(c, con, w, rule, i),
             NEW m \in 1..most, PaysFor(c, con, w, rule, m)
      PROVE  m <= n
  <2>1. Falling(good, most)
    BY <1>4, <1>7 DEF Falling
  <2>2. good[m]
    BY <1>4, <1>7
  <2>. QED
    BY <1>3, <2>1, <2>2 DEF Found
<1>. QED
  BY <1>2, <1>5, <1>6, <1>7 DEF most

(* What can be paid is within the caps. *)
LEMMA PaidIs ==
    ASSUME NEW c, IsCase(c), NEW con, con = None \/ IsConstraint(con, c.action),
           NEW w, IsObservation(w), NEW rule, IsMarketRule(rule), CostAt(c, w.end) # None,
           NEW n \in 1..LotsAt(c, con, w, rule), PaysFor(c, con, w, rule, n)
    PROVE  LET quote == QuoteOf(c, w, rule, n)
           IN  /\ quote.quantity = n * LotSize(rule, Side(c.action))
               /\ quote.quantity \in Nat /\ quote.price \in Nat /\ quote.gross \in Nat
               /\ quote.fee \in Nat /\ quote.tax \in Nat
               /\ quote.gross <= NotionalCap(c, con)
               /\ con # None =>
                    /\ quote.quantity <= con.maximum
                    /\ Side(c.action) = "BUY" => /\ quote.fee + quote.tax <= con.reserve
                                                 /\ quote.gross + con.reserve <= con.cash
<1>. DEFINE lot == LotSize(rule, Side(c.action))
            quote == QuoteOf(c, w, rule, n)
            most == LotsAt(c, con, w, rule)
            candidate == Candidate(c, con, w, lot)
<1>1. lot \in Nat \ {0}
  BY LotIs
<1>2. candidate \in Nat /\ (con # None => candidate <= con.maximum)
  BY <1>1, CandidateIs
<1>3. most = candidate \div lot
  BY DEF LotsAt
<1>4. Affordable(quote, NotionalCap(c, con), con, Side(c.action))
  BY DEF PaysFor
<1>5. quote # None
  BY <1>4 DEF Affordable
<1>6. IsCostSchedule(CostAt(c, w.end))
  BY CostIs
<1>. HIDE DEF lot, candidate, most
<1>7. most \in Nat /\ lot * most <= candidate
  BY <1>1, <1>2, <1>3, DivIs
<1>8. n \in Nat /\ n <= most
  BY <1>7 DEF most
<1>9. n * lot \in Nat /\ n * lot <= candidate
  <2>1. lot * n <= lot * most /\ lot * n = n * lot /\ lot * n \in Nat /\ lot * most \in Nat
    BY <1>1, <1>7, <1>8, TimesGrows
  <2>. QED
    BY <1>2, <1>7, <2>1
<1>10. /\ quote.quantity = n * lot
       /\ quote.price \in Nat /\ quote.gross \in Nat /\ quote.fee \in Nat /\ quote.tax \in Nat
  BY <1>5, <1>6, <1>9, QuoteIs DEF QuoteOf, lot
<1>. HIDE DEF quote
<1>11. con # None => quote.quantity <= con.maximum
  <2>1. con # None => con.maximum \in Nat
    BY DEF IsConstraint, Constraints
  <2>. QED
    BY <1>2, <1>9, <1>10, <2>1
<1>12. /\ quote.gross <= NotionalCap(c, con)
       /\ con # None /\ Side(c.action) = "BUY" => /\ quote.fee + quote.tax <= con.reserve
                                                  /\ quote.gross + con.reserve <= con.cash
  BY <1>4 DEF Affordable
<1>. QED
  BY <1>9, <1>10, <1>11, <1>12 DEF lot, quote

-----------------------------------------------------------------------------
(* A purchase of less costs no more: slippage, price, gross and charges.    *)

(* A whole number that is at least a fraction is at least its ceiling. *)
LEMMA CeilLeast ==
    ASSUME NEW a \in Nat, NEW k \in Nat \ {0}, NEW q \in Nat, a <= k * q
    PROVE  CeilDiv(a, k) <= q
<1>. DEFINE d == (-a) \div k
<1>1. d \in Int /\ -a < k * d + k
  BY DivIs
<1>. HIDE DEF d
<1>2. ASSUME d + q <= -1
      PROVE  FALSE
  <2>1. k * (d + q) <= k * (-1)
    BY <1>1, <1>2, TimesGrows
  <2>2. k * (d + q) = k * d + k * q /\ k * (-1) = -k /\ k * d \in Int /\ k * q \in Int
    BY <1>1
  <2>. QED
    BY <1>1, <2>1, <2>2
<1>. QED
  BY <1>1, <1>2 DEF CeilDiv, d

(* A common factor of an inequality. *)
LEMMA Cancel ==
    ASSUME NEW k \in Nat \ {0}, NEW a \in Int, NEW b \in Int, k * a <= k * b
    PROVE  a <= b
<1>. SUFFICES ASSUME b < a PROVE FALSE
  OBVIOUS
<1>1. k * (b + 1) <= k * a
  BY TimesGrows
<1>2. k * (b + 1) = k * b + k /\ k * b \in Int /\ k * a \in Int
  OBVIOUS
<1>. QED
  BY <1>1, <1>2

(* The ceiling of a smaller fraction is no greater. *)
LEMMA CeilOfLess ==
    ASSUME NEW a \in Nat, NEW j \in Nat \ {0}, NEW b \in Nat, NEW k \in Nat \ {0}, a * k <= b * j
    PROVE  CeilDiv(a, j) <= CeilDiv(b, k)
<1>. DEFINE q == CeilDiv(b, k)
<1>1. q \in Nat /\ b <= k * q
  BY CeilIs
<1>. HIDE DEF q
<1>2. j * b <= j * (k * q)
  BY <1>1, TimesGrows
<1>3. /\ j * (k * q) = k * (j * q) /\ j * b = b * j /\ a * k = k * a
      /\ j * q \in Nat /\ j * b \in Int /\ j * (k * q) \in Int /\ k * a \in Int
  BY <1>1
<1>4. k * a <= k * (j * q)
  BY <1>2, <1>3
<1>5. a <= j * q
  <2>. DEFINE r == j * q
  <2>1. r \in Int
    BY <1>3
  <2>. HIDE DEF r
  <2>2. k * a <= k * r
    BY <1>4 DEF r
  <2>3. a <= r
    BY <2>1, <2>2, Cancel
  <2>. QED
    BY <2>3 DEF r
<1>6. CeilDiv(a, j) <= q
  BY <1>1, <1>5, CeilLeast
<1>. QED
  BY <1>6 DEF q

(* The two sides of a price comparison over a common factor. *)
LEMMA Regroup ==
    ASSUME NEW b \in Int, NEW t \in Int, NEW sn \in Int, NEW sd \in Int, NEW d \in Int
    PROVE  (b * (100 * sd + sn)) * (100 * d * t) = (100 * (b * t)) * (100 * (sd * d) + sn * d)
<1>. DEFINE p == 100 * sd + sn
<1>1. p \in Int /\ p * d = 100 * (sd * d) + sn * d
  OBVIOUS
<1>. HIDE DEF p
<1>2. (b * p) * (100 * d * t) = (100 * (b * t)) * (p * d)
  BY <1>1
<1>. QED
  BY <1>1, <1>2 DEF p

(* The price of a purchase grows with its slippage and is at least the market's. *)
LEMMA PriceGrows ==
    ASSUME NEW benchmark \in Nat, NEW tick \in Nat \ {0}, NEW s \in Slips, NEW t \in Slips,
           s.num * t.den <= t.num * s.den
    PROVE  /\ FillPrice(benchmark, s, tick, "BUY") \in Nat
           /\ benchmark <= FillPrice(benchmark, s, tick, "BUY")
           /\ FillPrice(benchmark, s, tick, "BUY") <= FillPrice(benchmark, t, tick, "BUY")
<1>. DEFINE a == benchmark * (100 * s.den + s.num)
            j == 100 * s.den * tick
            b == benchmark * (100 * t.den + t.num)
            k == 100 * t.den * tick
<1>1. s.num \in Nat /\ s.den \in Nat \ {0} /\ t.num \in Nat /\ t.den \in Nat \ {0}
  BY DEF Slips
<1>2. a \in Nat /\ b \in Nat /\ j \in Nat \ {0} /\ k \in Nat \ {0}
  <2>1. 100 * s.den \in Nat \ {0} /\ 100 * t.den \in Nat \ {0}
    BY <1>1
  <2>2. 100 * s.den + s.num \in Nat /\ 100 * t.den + t.num \in Nat
    BY <1>1
  <2>. QED
    BY <2>1, <2>2, TimesIs
<1>3. a * k <= b * j
  <2>. DEFINE x == s.num * t.den
              y == t.num * s.den
              z == s.den * t.den
              u == 100 * (benchmark * tick)
  <2>1. x \in Nat /\ y \in Nat /\ z \in Nat /\ u \in Nat /\ x <= y
    BY <1>1, TimesIs
  <2>2. a * k = u * (100 * (s.den * t.den) + s.num * t.den)
    <3>. DEFINE sn == s.num
                sd == s.den
                d == t.den
    <3>1. sn \in Int /\ sd \in Int /\ d \in Int /\ benchmark \in Int /\ tick \in Int
      BY <1>1
    <3>. HIDE DEF sn, sd, d
    <3>2. (benchmark * (100 * sd + sn)) * (100 * d * tick) = (100 * (benchmark * tick)) * (100 * (sd * d) + sn * d)
      BY <3>1, Regroup
    <3>. QED
      BY <3>2 DEF sn, sd, d
  <2>3. b * j = u * (100 * (t.den * s.den) + t.num * s.den) /\ t.den * s.den = z
    BY <1>1, Regroup
  <2>4. u * (100 * z + x) <= u * (100 * z + y)
    BY <2>1, TimesGrows
  <2>. QED
    BY <2>2, <2>3, <2>4
<1>4. /\ FillPrice(benchmark, s, tick, "BUY") = tick * CeilDiv(a, j)
      /\ FillPrice(benchmark, t, tick, "BUY") = tick * CeilDiv(b, k)
  BY DEF FillPrice
<1>5. benchmark <= tick * CeilDiv(a, j)
  <2>. DEFINE q == CeilDiv(a, j)
              n == 100 * s.den
  <2>1. q \in Nat /\ a <= j * q
    <3>. HIDE DEF a, j
    <3>. QED
      BY <1>2, CeilIs
  <2>. HIDE DEF q
  <2>2. n \in Nat \ {0} /\ tick * q \in Nat
    BY <1>1, <2>1
  <2>3. n * benchmark <= a
    <3>1. benchmark * n <= benchmark * (n + s.num) /\ n + s.num \in Nat
      BY <1>1, <2>2, TimesGrows
    <3>. QED
      BY <1>1, <2>2, <3>1
  <2>4. j * q = n * (tick * q)
    BY <1>1, <2>1
  <2>. HIDE DEF a, j, n
  <2>5. n * benchmark <= n * (tick * q)
    BY <1>2, <2>1, <2>2, <2>3, <2>4
  <2>6. benchmark <= tick * q
    <3>. DEFINE r == tick * q
    <3>1. r \in Int
      BY <2>2
    <3>. HIDE DEF r
    <3>2. n * benchmark <= n * r
      BY <2>5 DEF r
    <3>3. benchmark <= r
      BY <2>2, <3>1, <3>2, Cancel
    <3>. QED
      BY <3>3 DEF r
  <2>. QED
    BY <2>6 DEF q
<1>. HIDE DEF a, b, j, k
<1>6. CeilDiv(a, j) \in Nat /\ CeilDiv(b, k) \in Nat /\ CeilDiv(a, j) <= CeilDiv(b, k)
  BY <1>2, <1>3, CeilIs, CeilOfLess
<1>7. tick * CeilDiv(a, j) <= tick * CeilDiv(b, k) /\ tick * CeilDiv(a, j) \in Nat
  BY <1>6, TimesGrows, TimesIs
<1>. QED
  BY <1>4, <1>5, <1>7

(* The nodes of an impact curve. *)
LEMMA NodesAre ==
    ASSUME NEW curve, IsImpactCurve(curve)
    PROVE  /\ Len(curve.nodes) \in Nat
           /\ \A a \in 1..Len(curve.nodes) : curve.nodes[a].rate \in Nat /\ curve.nodes[a].slip \in Nat
           /\ \A a \in 1..(Len(curve.nodes) - 1) :
                /\ curve.nodes[a].rate < curve.nodes[a + 1].rate
                /\ curve.nodes[a].slip <= curve.nodes[a + 1].slip
<1>1. /\ Len(curve.nodes) \in Nat /\ DOMAIN curve.nodes = 1..Len(curve.nodes)
      /\ \A a \in DOMAIN curve.nodes : IsNode(curve.nodes[a])
      /\ \A a \in 1..(Len(curve.nodes) - 1) :
           /\ curve.nodes[a].rate < curve.nodes[a + 1].rate
           /\ curve.nodes[a].slip <= curve.nodes[a + 1].slip
  BY DEF IsImpactCurve
<1>2. \A node : IsNode(node) => node.rate \in Nat /\ node.slip \in Nat
  BY DEF IsNode
<1>3. \A a \in 1..Len(curve.nodes) : IsNode(curve.nodes[a])
  BY <1>1
<1>. QED
  BY <1>1, <1>2, <1>3

Grown(node, a, b) == node[a].rate <= node[b].rate /\ node[a].slip <= node[b].slip

(* The nodes of an impact curve rise from one to any later one. *)
LEMMA NodesGrow ==
    ASSUME NEW curve, IsImpactCurve(curve), NEW i \in 1..Len(curve.nodes), NEW j \in 1..Len(curve.nodes), i <= j
    PROVE  curve.nodes[i].rate <= curve.nodes[j].rate /\ curve.nodes[i].slip <= curve.nodes[j].slip
<1>. DEFINE node == curve.nodes
            n == Len(node)
            bad == {d \in Nat : \E a \in 1..n : a + d \in 1..n /\ ~Grown(node, a, a + d)}
<1>1. /\ n \in Nat
      /\ \A a \in 1..n : node[a].rate \in Nat /\ node[a].slip \in Nat
      /\ \A a \in 1..(n - 1) : node[a].rate < node[a + 1].rate /\ node[a].slip <= node[a + 1].slip
  BY NodesAre
<1>. HIDE DEF n, node
<1>2. bad = {}
  <2>. SUFFICES ASSUME bad # {} PROVE FALSE
    OBVIOUS
  <2>1. PICK d \in bad : \A y \in bad : d <= y
    <3>1. bad \in SUBSET Nat
      OBVIOUS
    <3>. HIDE DEF bad
    <3>. QED
      BY <3>1, LeastExists
  <2>2. PICK a \in 1..n : a + d \in 1..n /\ ~Grown(node, a, a + d)
    OBVIOUS
  <2>3. d \in Nat /\ a \in Nat /\ d # 0
    <3>1. d \in Nat /\ a \in Nat
      BY <1>1
    <3>2. node[a].rate \in Int /\ node[a].slip \in Int
      BY <1>1
    <3>3. Grown(node, a, a)
      BY <3>2 DEF Grown
    <3>4. d = 0 => a + d = a
      BY <3>1
    <3>. QED
      BY <2>2, <3>1, <3>3, <3>4
  <2>. DEFINE m == a + (d - 1)
  <2>4. /\ d - 1 \in Nat /\ d - 1 < d
        /\ m \in 1..(n - 1) /\ m \in 1..n /\ m + 1 = a + d
    <3>. HIDE DEF bad
    <3>. QED
      BY <1>1, <2>2, <2>3
  <2>5. d - 1 \notin bad
    <3>. HIDE DEF bad, m
    <3>. QED
      BY <2>1, <2>3, <2>4
  <2>6. Grown(node, a, m)
    BY <2>4, <2>5
  <2>. HIDE DEF m, bad
  <2>7. /\ node[m].rate \in Int /\ node[m].slip \in Int /\ node[a].rate \in Int /\ node[a].slip \in Int
        /\ node[m + 1].rate \in Int /\ node[m + 1].slip \in Int
        /\ node[m].rate < node[m + 1].rate /\ node[m].slip <= node[m + 1].slip
    <3>1. m + 1 \in 1..n
      BY <2>2, <2>4
    <3>2. \A b \in 1..n : node[b].rate \in Int /\ node[b].slip \in Int
      BY <1>1
    <3>3. node[m].rate < node[m + 1].rate /\ node[m].slip <= node[m + 1].slip
      BY <1>1, <2>4
    <3>. QED
      BY <2>2, <2>4, <3>1, <3>2, <3>3
  <2>8. Grown(node, a, m + 1)
    BY <2>6, <2>7 DEF Grown
  <2>. QED
    BY <2>2, <2>4, <2>8
<1>3. j - i \in Nat /\ i + (j - i) = j /\ i \in 1..n /\ j \in 1..n
  BY <1>1 DEF n, node
<1>4. Grown(node, i, j)
  BY <1>2, <1>3
<1>. QED
  BY <1>4 DEF node, Grown

(* The segment of an impact curve a quantity lies on, and its line there. *)
On(curve, i, quantity, volume) ==
    /\ curve.nodes[i].rate * volume < 100 * quantity
    /\ 100 * quantity <= curve.nodes[i + 1].rate * volume
Line(curve, i, quantity, volume) ==
    LET l == curve.nodes[i]
        r == curve.nodes[i + 1]
        run == (r.rate - l.rate) * volume
    IN  [num |-> l.slip * run + (100 * quantity - l.rate * volume) * (r.slip - l.slip),
         den |-> run]

LEMMA SlippageIs ==
    ASSUME NEW curve, NEW quantity, NEW volume
    PROVE  /\ Slippage(curve, quantity, volume) # None =>
                \E i \in Segments(curve) :
                   On(curve, i, quantity, volume) /\ Slippage(curve, quantity, volume) = Line(curve, i, quantity, volume)
           /\ (\E i \in Segments(curve) : On(curve, i, quantity, volume)) =>
                \E i \in Segments(curve) :
                   On(curve, i, quantity, volume) /\ Slippage(curve, quantity, volume) = Line(curve, i, quantity, volume)
<1>. DEFINE at == {i \in Segments(curve) : On(curve, i, quantity, volume)}
<1>1. Slippage(curve, quantity, volume) =
        IF at = {} THEN None ELSE Line(curve, CHOOSE i \in at : TRUE, quantity, volume)
  BY DEF Slippage, On, Line
<1>2. at # {} => (CHOOSE i \in at : TRUE) \in at
  OBVIOUS
<1>. QED
  BY <1>1, <1>2

(* What a segment's ends and its line are. *)
LEMMA SegmentIs ==
    ASSUME NEW curve, IsImpactCurve(curve), NEW i \in Segments(curve),
           NEW quantity \in Nat \ {0}, NEW volume \in Nat \ {0}, On(curve, i, quantity, volume)
    PROVE  LET l == curve.nodes[i]
               r == curve.nodes[i + 1]
               line == Line(curve, i, quantity, volume)
           IN  /\ l.rate \in Nat /\ r.rate \in Nat /\ l.slip \in Nat /\ r.slip \in Nat /\ l.slip <= r.slip
               /\ line \in Slips /\ line.den = (r.rate - l.rate) * volume
               /\ line.num = l.slip * line.den + (100 * quantity - l.rate * volume) * (r.slip - l.slip)
               /\ 100 * quantity - l.rate * volume \in Nat
               /\ l.slip * line.den <= line.num /\ line.num <= r.slip * line.den
<1>. DEFINE l == curve.nodes[i]
            r == curve.nodes[i + 1]
            line == Line(curve, i, quantity, volume)
            run == (r.rate - l.rate) * volume
            past == 100 * quantity - l.rate * volume
            rise == r.slip - l.slip
<1>1. /\ l.rate \in Nat /\ r.rate \in Nat /\ l.slip \in Nat /\ r.slip \in Nat
      /\ l.rate < r.rate /\ l.slip <= r.slip
  <2>1. i \in 1..(Len(curve.nodes) - 1) /\ i \in 1..Len(curve.nodes) /\ i + 1 \in 1..Len(curve.nodes)
    BY NodesAre DEF Segments
  <2>. QED
    BY <2>1, NodesAre
<1>2. line = [num |-> l.slip * run + past * rise, den |-> run]
  BY DEF Line
<1>3. On(curve, i, quantity, volume) <=> l.rate * volume < 100 * quantity /\ 100 * quantity <= r.rate * volume
  BY DEF On
<1>. HIDE DEF l, r, line
<1>4. run \in Nat \ {0}
  <2>1. r.rate - l.rate \in Nat \ {0}
    BY <1>1
  <2>. QED
    BY <2>1, TimesIs
<1>5. past \in Nat /\ past <= run /\ rise \in Nat
  <2>1. l.rate * volume \in Nat /\ r.rate * volume \in Nat /\ run = r.rate * volume - l.rate * volume
    BY <1>1
  <2>. HIDE DEF run
  <2>. QED
    BY <1>1, <1>3, <2>1
<1>. HIDE DEF run, past, rise
<1>6. line.num = l.slip * run + past * rise /\ line.den = run
  BY <1>2
<1>7. past * rise \in Nat /\ past * rise <= rise * run /\ l.slip * run \in Nat /\ rise * run \in Nat
  <2>1. rise * past <= rise * run
    BY <1>4, <1>5, TimesGrows
  <2>. QED
    BY <1>1, <1>4, <1>5, <2>1, TimesIs
<1>8. l.slip * run + rise * run = r.slip * run
  BY <1>1, <1>4 DEF rise
<1>9. l.slip * run <= line.num /\ line.num <= r.slip * run /\ line.num \in Nat
  BY <1>6, <1>7, <1>8
<1>10. line \in Slips
  BY <1>2, <1>4, <1>6, <1>9 DEF Slips
<1>. QED
  BY <1>1, <1>5, <1>6, <1>9, <1>10 DEF l, r, line, run, past, rise

(* Two fractions with a bound between them. *)
LEMMA Cross ==
    ASSUME NEW a \in Nat, NEW b \in Nat, NEW j \in Nat \ {0}, NEW k \in Nat \ {0},
           NEW p \in Nat, NEW q \in Nat, p <= q, a <= p * j, q * k <= b
    PROVE  a * k <= b * j
<1>1. k * a <= k * (p * j) /\ (j * k) * p <= (j * k) * q /\ j * (q * k) <= j * b
  <2>1. j * k \in Nat /\ p * j \in Nat /\ q * k \in Nat
    BY TimesIs
  <2>2. k * a <= k * (p * j)
    BY <2>1, TimesGrows
  <2>3. (j * k) * p <= (j * k) * q
    BY <2>1, TimesGrows
  <2>4. j * (q * k) <= j * b
    BY <2>1, TimesGrows
  <2>. QED
    BY <2>2, <2>3, <2>4
<1>2. /\ k * (p * j) = (j * k) * p /\ j * (q * k) = (j * k) * q /\ k * a = a * k /\ j * b = b * j
      /\ k * a \in Int /\ k * (p * j) \in Int /\ (j * k) * q \in Int /\ j * b \in Int
  OBVIOUS
<1>. QED
  BY <1>1, <1>2

(* Where a quantity has slippage a smaller one has some too, and no more. *)
LEMMA SlippageGrows ==
    ASSUME NEW curve, IsImpactCurve(curve), NEW volume \in Nat \ {0},
           NEW n \in Nat \ {0}, NEW m \in Nat \ {0}, n <= m, Slippage(curve, m, volume) # None
    PROVE  /\ Slippage(curve, n, volume) \in Slips /\ Slippage(curve, m, volume) \in Slips
           /\ Slippage(curve, n, volume).num * Slippage(curve, m, volume).den
                <= Slippage(curve, m, volume).num * Slippage(curve, n, volume).den
<1>. DEFINE node == curve.nodes
            s == Slippage(curve, n, volume)
            t == Slippage(curve, m, volume)
<1>0. /\ Len(node) \in Nat /\ Segments(curve) = 1..(Len(node) - 1)
      /\ \A a \in 1..Len(node) : node[a].rate \in Nat /\ node[a].slip \in Nat
  BY NodesAre DEF Segments
<1>1. PICK j \in Segments(curve) : On(curve, j, m, volume) /\ t = Line(curve, j, m, volume)
  BY SlippageIs
<1>2. 100 * m <= node[j + 1].rate * volume /\ 100 * n <= 100 * m
  BY <1>1 DEF On
<1>3. PICK i \in Segments(curve) : On(curve, i, n, volume) /\ s = Line(curve, i, n, volume)
  <2>. DEFINE S == {a \in 1..(Len(node) - 1) : 100 * n <= node[a + 1].rate * volume}
  <2>1. j \in 1..(Len(node) - 1) /\ j + 1 \in 1..Len(node)
    BY <1>0
  <2>2. node[j + 1].rate * volume \in Nat
    BY <1>0, <2>1, TimesIs
  <2>3. j \in S
    BY <1>2, <2>1, <2>2
  <2>4. S \in SUBSET Nat
    BY <1>0
  <2>. DEFINE a == Min(S)
  <2>5. a \in S /\ \A y \in S : a <= y
    <3>. HIDE DEF S
    <3>. QED
      BY <2>3, <2>4, LeastExists
  <2>. HIDE DEF a
  <2>6. a \in 1..(Len(node) - 1) /\ 100 * n <= node[a + 1].rate * volume
    BY <2>5
  <2>7. node[a].rate * volume < 100 * n
    <3>1. CASE a = 1
      <4>1. node[a].rate = 0
        BY <3>1 DEF IsImpactCurve
      <4>2. node[a].rate * volume = 0
        BY <4>1
      <4>. QED
        BY <4>2
    <3>2. CASE a # 1
      <4>1. a - 1 \in 1..(Len(node) - 1) /\ a - 1 < a /\ (a - 1) + 1 = a /\ a \in 1..Len(node)
        BY <1>0, <2>6, <3>2
      <4>2. a - 1 \notin S
        <5>1. a \in Int /\ a - 1 \in Int
          BY <4>1
        <5>. HIDE DEF S
        <5>. QED
          BY <2>5, <4>1, <5>1
      <4>3. ~(100 * n <= node[(a - 1) + 1].rate * volume)
        BY <4>1, <4>2
      <4>4. node[a].rate * volume \in Nat
        BY <1>0, <4>1, TimesIs
      <4>. QED
        BY <4>1, <4>3, <4>4
    <3>. QED
      BY <3>1, <3>2
  <2>8. On(curve, a, n, volume)
    BY <2>6, <2>7 DEF On
  <2>9. a \in Segments(curve)
    BY <1>0, <2>6
  <2>. QED
    BY <2>8, <2>9, SlippageIs
<1>. HIDE DEF s, t
<1>4. /\ i \in 1..(Len(node) - 1) /\ i \in 1..Len(node) /\ i + 1 \in 1..Len(node)
      /\ j \in 1..(Len(node) - 1) /\ j \in 1..Len(node) /\ j + 1 \in 1..Len(node)
  BY <1>0
<1>5. /\ s \in Slips /\ s.den = (node[i + 1].rate - node[i].rate) * volume
      /\ s.num = node[i].slip * s.den + (100 * n - node[i].rate * volume) * (node[i + 1].slip - node[i].slip)
      /\ node[i].slip <= node[i + 1].slip /\ s.num <= node[i + 1].slip * s.den
  BY <1>3, SegmentIs
<1>6. /\ t \in Slips /\ t.den = (node[j + 1].rate - node[j].rate) * volume
      /\ t.num = node[j].slip * t.den + (100 * m - node[j].rate * volume) * (node[j + 1].slip - node[j].slip)
      /\ node[j].slip * t.den <= t.num
  BY <1>1, SegmentIs
<1>7. s.num \in Nat /\ s.den \in Nat \ {0} /\ t.num \in Nat /\ t.den \in Nat \ {0}
  BY <1>5, <1>6 DEF Slips
<1>8. i <= j
  <2>. SUFFICES ASSUME ~(i <= j) PROVE FALSE
    OBVIOUS
  <2>1. j + 1 <= i
    BY <1>4
  <2>2. node[j + 1].rate <= node[i].rate
    BY <1>4, <2>1, NodesGrow
  <2>. DEFINE low == node[j + 1].rate
              high == node[i].rate
  <2>3. low \in Nat /\ high \in Nat /\ low <= high
    BY <1>0, <1>4, <2>2
  <2>4. high * volume < 100 * n /\ 100 * m <= low * volume
    BY <1>2, <1>3 DEF On
  <2>. HIDE DEF low, high
  <2>5. volume * low <= volume * high /\ volume * low = low * volume /\ volume * high = high * volume
        /\ low * volume \in Int /\ high * volume \in Int
    BY <2>3, TimesGrows
  <2>. QED
    BY <1>2, <2>4, <2>5
<1>9. CASE i = j
  <2>. DEFINE rate == node[j].rate * volume
              rise == node[j + 1].slip - node[j].slip
              base == node[j].slip * t.den
  <2>1. s.den = t.den /\ s.num = base + (100 * n - rate) * rise /\ t.num = base + (100 * m - rate) * rise
    BY <1>5, <1>6, <1>9
  <2>2. rate \in Nat /\ rise \in Nat /\ base \in Nat
    <3>1. node[j].slip <= node[j + 1].slip
      BY <1>5, <1>9
    <3>2. node[j].rate \in Nat /\ node[j].slip \in Nat /\ node[j + 1].slip \in Nat
      BY <1>0, <1>4
    <3>3. rate \in Nat /\ base \in Nat
      BY <1>7, <3>2, TimesIs
    <3>4. rise \in Nat
      BY <3>1, <3>2
    <3>. QED
      BY <3>3, <3>4
  <2>. HIDE DEF rate, rise, base
  <2>3. rise * (100 * n - rate) <= rise * (100 * m - rate)
    BY <1>2, <2>2, TimesGrows
  <2>4. /\ (100 * n - rate) * rise = rise * (100 * n - rate) /\ rise * (100 * n - rate) \in Int
        /\ (100 * m - rate) * rise = rise * (100 * m - rate) /\ rise * (100 * m - rate) \in Int
    BY <2>2
  <2>5. s.num <= t.num
    BY <2>1, <2>2, <2>3, <2>4
  <2>6. t.den * s.num <= t.den * t.num
    BY <1>7, <2>5, TimesGrows
  <2>7. s.num * t.den = t.den * s.num /\ t.num * s.den = t.den * t.num
    BY <1>7, <2>1
  <2>. QED
    BY <1>5, <1>6, <2>6, <2>7 DEF s, t
<1>10. CASE i # j
  <2>1. i + 1 <= j
    BY <1>4, <1>8, <1>10
  <2>2. node[i + 1].slip <= node[j].slip
    BY <1>4, <2>1, NodesGrow
  <2>. DEFINE p == node[i + 1].slip
              q == node[j].slip
              a == s.num
              b == t.num
              d == s.den
              k == t.den
  <2>3. /\ p \in Nat /\ q \in Nat /\ p <= q
        /\ a \in Nat /\ b \in Nat /\ d \in Nat \ {0} /\ k \in Nat \ {0} /\ a <= p * d /\ q * k <= b
    BY <1>0, <1>4, <1>5, <1>6, <1>7, <2>2
  <2>. HIDE DEF p, q, a, b, d, k
  <2>4. a * k <= b * d
    BY <2>3, Cross
  <2>. QED
    BY <1>5, <1>6, <2>4 DEF a, b, d, k, s, t
<1>. QED
  BY <1>9, <1>10

(* Division with remainder. *)
LEMMA DivisionIs ==
    ASSUME NEW a \in Nat, NEW b \in Nat \ {0}
    PROVE  a = b * (a \div b) + (a % b)
BY Z3T(20)

(* What can be paid can be paid for less, at a price that is no higher. *)
LEMMA LessIsAffordable ==
    ASSUME NEW w, w.volume \in Nat \ {0}, w.benchmark \in Nat,
           NEW rule, IsMarketRule(rule), w.benchmark \in rule.lower..rule.upper,
           NEW curve, IsImpactCurve(curve), NEW cost, IsCostSchedule(cost),
           NEW cap \in Nat, NEW con, con = None \/ (con.reserve \in Nat /\ con.cash \in Nat),
           NEW n \in Nat \ {0}, NEW m \in Nat \ {0}, n <= m,
           Affordable(Quote(m, w, rule, curve, cost, "BUY"), cap, con, "BUY")
    PROVE  Affordable(Quote(n, w, rule, curve, cost, "BUY"), cap, con, "BUY")
<1>. DEFINE s == Slippage(curve, n, w.volume)
            t == Slippage(curve, m, w.volume)
            p == FillPrice(w.benchmark, s, rule.tick, "BUY")
            q == FillPrice(w.benchmark, t, rule.tick, "BUY")
            less == Quote(n, w, rule, curve, cost, "BUY")
            more == Quote(m, w, rule, curve, cost, "BUY")
<1>1. more # None /\ t # None /\ q \in rule.lower..rule.upper
  BY DEF Affordable, Quote
<1>2. /\ more = [quantity |-> m, price |-> q, gross |-> q * m, fee |-> Fees(q * m, cost), tax |-> Tax(q * m, cost)]
      /\ less = IF s = None \/ p \notin rule.lower..rule.upper \/ p < w.benchmark THEN None
                ELSE [quantity |-> n, price |-> p, gross |-> p * n, fee |-> Fees(p * n, cost), tax |-> Tax(p * n, cost)]
  BY <1>1 DEF Quote
<1>3. s \in Slips /\ t \in Slips /\ s.num * t.den <= t.num * s.den
  BY <1>1, SlippageGrows
<1>4. rule.tick \in Nat \ {0} /\ rule.lower \in Nat /\ rule.upper \in Nat
  BY DEF IsMarketRule
<1>. HIDE DEF s, t
<1>5. p \in Nat /\ w.benchmark <= p /\ p <= q
  BY <1>3, <1>4, PriceGrows
<1>. HIDE DEF p, q
<1>6. q \in Nat /\ p \in rule.lower..rule.upper /\ ~(p < w.benchmark)
  BY <1>1, <1>4, <1>5
<1>7. s # None
  BY <1>3, NoneAssumption
<1>8. less = [quantity |-> n, price |-> p, gross |-> p * n, fee |-> Fees(p * n, cost), tax |-> Tax(p * n, cost)]
  BY <1>2, <1>6, <1>7
<1>9. p * n \in Nat /\ q * m \in Nat /\ p * n <= q * m
  <2>1. p * n <= p * m
    BY <1>5, TimesGrows
  <2>2. m * p <= m * q
    BY <1>5, <1>6, TimesGrows
  <2>3. p * n \in Nat /\ q * m \in Nat /\ p * m = m * p /\ q * m = m * q /\ m * p \in Nat
    BY <1>5, <1>6
  <2>. QED
    BY <2>1, <2>2, <2>3
<1>. DEFINE g == p * n
            h == q * m
<1>10. g \in Nat /\ h \in Nat /\ g <= h
  BY <1>9
<1>11. /\ less.quantity = n /\ less.price = p /\ less.gross = g /\ less.fee = Fees(g, cost) /\ less.tax = Tax(g, cost)
       /\ more.gross = h /\ more.fee = Fees(h, cost) /\ more.tax = Tax(h, cost)
       /\ less = [quantity |-> n, price |-> p, gross |-> g, fee |-> Fees(g, cost), tax |-> Tax(g, cost)]
  BY <1>2, <1>8
<1>. HIDE DEF g, h, less, more
<1>12. /\ Fees(g, cost) \in Nat /\ Tax(g, cost) \in Nat /\ Fees(h, cost) \in Nat /\ Tax(h, cost) \in Nat
       /\ Fees(g, cost) <= Fees(h, cost) /\ Tax(g, cost) <= Tax(h, cost)
  <2>1. Fees(h, cost) \in Nat /\ Tax(h, cost) \in Nat
    BY <1>10, FeesGrow
  <2>. QED
    BY <1>10, <2>1, FeesGrow
<1>13. less # None
  <2>1. less \in Quotes
    BY <1>5, <1>10, <1>11, <1>12 DEF Quotes
  <2>. QED
    BY <2>1, NoneAssumption
<1>14. /\ more.gross <= cap
       /\ con # None => more.fee + more.tax <= con.reserve /\ more.gross + con.reserve <= con.cash
  BY DEF Affordable, more
<1>15. /\ less.gross <= cap
       /\ con # None => less.fee + less.tax <= con.reserve /\ less.gross + con.reserve <= con.cash
  BY <1>10, <1>11, <1>12, <1>14
<1>. QED
  BY <1>13, <1>15 DEF Affordable, less

(* No purchase of more lots than the one that is filled could be paid. *)
Greatest(c, con, f) ==
    LET rule == f.rule
        w == f.window
        quote(n) == Quote(n, w, rule, ImpactAt(c, w.quality, w.end), CostAt(c, w.end), "BUY")
    IN  \A n \in (f.quantity + 1)..Candidate(c, con, w, rule.buyLot) :
          n % rule.buyLot = 0 => ~Affordable(quote(n), NotionalCap(c, con), con, "BUY")

(* A purchase takes the greatest quantity that can be paid. *)
LEMMA BestIsGreatest ==
    ASSUME NEW c, IsCase(c), NEW con, con = None \/ IsConstraint(con, c.action), Side(c.action) = "BUY",
           NEW w, IsObservation(w), w.volume > 0,
           NEW rule, IsMarketRule(rule), w.benchmark \in rule.lower..rule.upper,
           CostAt(c, w.end) # None, ImpactAt(c, w.quality, w.end) # None,
           AffordableQuote(c, con, w, rule) # None,
           NEW f, f.rule = rule, f.window = w, f.quantity = AffordableQuote(c, con, w, rule).quantity
    PROVE  Greatest(c, con, f)
<1>. DEFINE lot == rule.buyLot
            most == LotsAt(c, con, w, rule)
            candidate == Candidate(c, con, w, lot)
            curve == ImpactAt(c, w.quality, w.end)
            cost == CostAt(c, w.end)
            cap == NotionalCap(c, con)
<1>1. /\ lot \in Nat \ {0} /\ LotSize(rule, Side(c.action)) = lot
      /\ w.volume \in Nat \ {0} /\ w.benchmark \in Nat
  BY DEF IsMarketRule, LotSize, IsObservation
<1>2. candidate \in Nat /\ most = candidate \div lot
  BY <1>1, CandidateIs DEF LotsAt
<1>3. IsCostSchedule(cost) /\ IsImpactCurve(curve)
  <2>1. curve \in c.impacts
    BY OnlyIs DEF ImpactAt
  <2>. QED
    BY <2>1, CostIs DEF IsCase
<1>4. cap \in Nat /\ (con = None \/ (con.reserve \in Nat /\ con.cash \in Nat))
  BY DEF NotionalCap, LesserOf, IsCase, IsApproval, IsConstraint, Constraints
<1>5. \A k : QuoteOf(c, w, rule, k) = Quote(k * lot, w, rule, curve, cost, "BUY")
  BY <1>1 DEF QuoteOf
<1>6. \A k : PaysFor(c, con, w, rule, k) <=> Affordable(Quote(k * lot, w, rule, curve, cost, "BUY"), cap, con, "BUY")
  BY <1>5 DEF PaysFor
<1>. HIDE DEF most, lot, candidate, curve, cost, cap
<1>7. most \in Nat
  BY <1>1, <1>2, DivIs
<1>8. ASSUME NEW i \in 1..most, NEW j \in 1..most, i < j, PaysFor(c, con, w, rule, j)
      PROVE  PaysFor(c, con, w, rule, i)
  <2>. DEFINE a == i * lot
              b == j * lot
  <2>1. a \in Nat \ {0} /\ b \in Nat \ {0} /\ a <= b
    <3>1. i \in Nat \ {0} /\ j \in Nat \ {0}
      BY <1>7
    <3>2. lot * i <= lot * j /\ lot * i = i * lot /\ lot * j = j * lot
      BY <1>1, <1>8, <3>1, TimesGrows
    <3>. QED
      BY <1>1, <3>1, <3>2, TimesIs
  <2>2. Affordable(Quote(b, w, rule, curve, cost, "BUY"), cap, con, "BUY")
    BY <1>6, <1>8
  <2>. HIDE DEF a, b
  <2>3. Affordable(Quote(a, w, rule, curve, cost, "BUY"), cap, con, "BUY")
    BY <1>1, <1>3, <1>4, <2>1, <2>2, LessIsAffordable
  <2>. QED
    BY <1>6, <2>3 DEF a
<1>9. PICK k \in 1..most :
        /\ AffordableQuote(c, con, w, rule) = QuoteOf(c, w, rule, k)
        /\ PaysFor(c, con, w, rule, k)
        /\ \A m \in 1..most : PaysFor(c, con, w, rule, m) => m <= k
  BY <1>8, BestIs DEF most
<1>10. f.quantity = k * lot /\ k \in Nat
  <2>1. Quote(k * lot, w, rule, curve, cost, "BUY") # None
    BY <1>6, <1>9 DEF Affordable
  <2>2. Quote(k * lot, w, rule, curve, cost, "BUY").quantity = k * lot
    BY <2>1 DEF Quote
  <2>. QED
    BY <1>5, <1>7, <1>9, <2>2
<1>11. ASSUME NEW n \in (f.quantity + 1)..candidate, n % lot = 0,
              Affordable(Quote(n, w, rule, curve, cost, "BUY"), cap, con, "BUY")
       PROVE  FALSE
  <2>0. k * lot \in Nat /\ n \in Nat /\ n > k * lot /\ n <= candidate
    BY <1>1, <1>2, <1>10, TimesIs
  <2>. DEFINE m == n \div lot
  <2>1. n = lot * m + (n % lot)
    BY <1>1, <2>0, DivisionIs
  <2>2. m \in Nat /\ m <= most
    BY <1>1, <1>2, <2>0, DivIs, DivGrows
  <2>. HIDE DEF m
  <2>3. n = m * lot
    BY <1>1, <1>11, <2>0, <2>1, <2>2
  <2>4. ~(m <= k)
    <3>. SUFFICES ASSUME m <= k PROVE FALSE
      OBVIOUS
    <3>1. lot * m <= lot * k
      BY <1>1, <1>10, <2>2, TimesGrows
    <3>2. lot * m = m * lot /\ lot * k = k * lot /\ m * lot \in Int
      BY <1>1, <1>10, <2>2
    <3>. QED
      BY <2>0, <2>3, <3>1, <3>2
  <2>5. m \in 1..most
    BY <1>7, <1>10, <2>2, <2>4
  <2>6. PaysFor(c, con, w, rule, m)
    BY <1>6, <1>11, <2>3
  <2>. QED
    BY <1>9, <2>4, <2>5, <2>6
<1>12. Candidate(c, con, f.window, f.rule.buyLot) = candidate
  BY DEF candidate, lot
<1>. QED
  BY <1>11, <1>12 DEF Greatest, lot, curve, cost, cap

-----------------------------------------------------------------------------
(* The scan. *)

Statuses == {"ABSTAIN", "PRECHECK_BLOCKED", "CANCELLED", "NON_EXECUTABLE",
             "GATE_REJECTED_AT_EXECUTABLE_PRICE", "FILLED", "PARTIALLY_FILLED"}
Places(c) == {p \in [session : Nat, window : Nat] : p.window \in 0..Cardinality(SessionWindows(c, p.session))}

ScanTypeOK ==
    /\ place \in Places(case)
    /\ attempts \in Seq([session : Nat, window : Nat, status : Statuses])
    /\ abstained \in BOOLEAN

(* What an abstention leaves behind, and that a scan ends with an attempt. *)
Unjudged == \E i \in DOMAIN attempts : attempts[i].status = "ABSTAIN"
AbstentionInv ==
    /\ market = "NEW" => attempts = <<>>
    /\ market = "SCANNING" /\ place = End => attempts # <<>>
    /\ Unjudged => abstained /\ market \in {"SCANNING", "ABSTAIN", "FILLED", "PARTIALLY_FILLED", "PRECHECK_BLOCKED"}
    /\ market = "ENTRY_EXPIRED" => ~abstained /\ case.action \in NewRisk /\ Cardinality(TradeDates(case)) = EntryDays

ScanInv == IsCase(case) /\ ScanTypeOK /\ AbstentionInv

(* A session has a finite number of windows. *)
LEMMA WindowsAre ==
    ASSUME NEW c, IsCase(c), NEW i
    PROVE  IsFiniteSet(SessionWindows(c, i)) /\ Cardinality(SessionWindows(c, i)) \in Nat
<1>1. IsFiniteSet(c.windows) /\ SessionWindows(c, i) \in SUBSET c.windows
  BY DEF IsCase, SessionWindows
<1>2. IsFiniteSet(SessionWindows(c, i))
  BY <1>1, FS_Subset
<1>. QED
  BY <1>2, FS_CardinalityType

(* The place a scan starts a day at. *)
LEMMA FirstOfIs ==
    ASSUME NEW c, IsCase(c), NEW S \in SUBSET Scanned(c)
    PROVE  FirstOf(S) \in Places(c) /\ FirstOf(S).window = 0 /\ (S # {} => FirstOf(S) # End)
<1>1. S \subseteq Nat \ {0}
  BY DEF Scanned, EligibleSessions, IsCase, IsCalendar
<1>2. ASSUME NEW i \in Nat
      PROVE  Place(i, 0) \in Places(c) /\ Place(i, 0).window = 0 /\ Place(i, 0).session = i
  <2>1. Cardinality(SessionWindows(c, i)) \in Nat
    BY WindowsAre
  <2>. QED
    BY <2>1 DEF Place, Places
<1>3. CASE S = {}
  BY <1>2, <1>3 DEF FirstOf, End
<1>4. CASE S # {}
  <2>1. S \in SUBSET Nat /\ Min(S) \in S
    BY <1>1, <1>4, LeastExists
  <2>2. Min(S) \in Nat \ {0} /\ FirstOf(S) = Place(Min(S), 0)
    BY <1>1, <1>4, <2>1 DEF FirstOf
  <2>3. End.session = 0
    BY DEF End, Place
  <2>. QED
    BY <1>2, <2>2, <2>3
<1>. QED
  BY <1>3, <1>4

(* Where a scan goes on is a place of the same order. *)
LEMMA PlacesFollow ==
    ASSUME NEW c, IsCase(c), NEW p \in Places(c)
    PROVE  /\ AfterSession(c, p) \in Places(c) /\ AfterDay(c, p) \in Places(c)
           /\ AfterWindow(c, p) \in Places(c)
<1>1. AfterSession(c, p) \in Places(c) /\ AfterDay(c, p) \in Places(c)
  BY FirstOfIs DEF AfterSession, AfterDay
<1>2. p.session \in Nat /\ p.window \in Nat /\ Cardinality(SessionWindows(c, p.session)) \in Nat
  BY WindowsAre DEF Places
<1>3. p.window < Cardinality(SessionWindows(c, p.session)) => Place(p.session, p.window + 1) \in Places(c)
  BY <1>2 DEF Place, Places
<1>. QED
  BY <1>1, <1>3 DEF AfterWindow

(* The window a scan stands on is one of the order. *)
LEMMA WindowIs ==
    ASSUME ScanInv, AtWindow
    PROVE  IsObservation(Window)
<1>1. IsCase(case) /\ place.window \in 1..Cardinality(SessionWindows(case, place.session))
  <2>1. IsCase(case) /\ place.window \in 0..Cardinality(SessionWindows(case, place.session)) /\ place.window > 0
    BY DEF ScanInv, ScanTypeOK, Places, AtWindow
  <2>2. Cardinality(SessionWindows(case, place.session)) \in Nat
    BY <2>1, WindowsAre
  <2>. QED
    BY <2>1, <2>2
<1>2. Window \in SessionWindows(case, place.session)
  BY <1>1, NthWindowIs DEF Window
<1>. QED
  BY <1>1, <1>2 DEF SessionWindows, IsCase

(* One attempt more. *)
LEMMA TriedIs ==
    ASSUME ScanInv, NEW outcome \in Statuses, Tried(outcome)
    PROVE  /\ attempts' \in Seq([session : Nat, window : Nat, status : Statuses])
           /\ attempts' # <<>>
           /\ Unjudged' => Unjudged \/ outcome = "ABSTAIN"
<1>. DEFINE new == [session |-> place.session, window |-> place.window, status |-> outcome]
            All == [session : Nat, window : Nat, status : Statuses]
<1>1. new \in All /\ attempts \in Seq(All)
  BY DEF ScanInv, ScanTypeOK, Places
<1>2. attempts' = Append(attempts, new) /\ new.status = outcome
  BY DEF Tried
<1>. HIDE DEF new, All
<1>3. /\ attempts' \in Seq(All) /\ Len(attempts) \in Nat
      /\ Len(attempts') = Len(attempts) + 1
      /\ \A i \in 1..Len(attempts) : attempts'[i] = attempts[i]
      /\ attempts'[Len(attempts) + 1] = new
  BY <1>1, <1>2
<1>4. DOMAIN attempts' = 1..(Len(attempts) + 1) /\ DOMAIN attempts = 1..Len(attempts)
  BY <1>1, <1>3
<1>5. attempts' # <<>>
  BY <1>3
<1>6. ASSUME NEW i \in DOMAIN attempts', attempts'[i].status = "ABSTAIN"
      PROVE  Unjudged \/ outcome = "ABSTAIN"
  <2>1. CASE i \in DOMAIN attempts
    BY <1>3, <1>4, <1>6, <2>1 DEF Unjudged
  <2>2. CASE i = Len(attempts) + 1
    BY <1>2, <1>3, <1>6, <2>2
  <2>. QED
    BY <1>3, <1>4, <2>1, <2>2
<1>. QED
  BY <1>3, <1>5, <1>6 DEF Unjudged, All

(* A scan that goes on keeps its invariant. *)
LEMMA GoOnKeeps ==
    ASSUME ScanInv, market = "SCANNING", NEW outcome \in Statuses, NEW to \in Places(case), GoOn(outcome, to),
           abstained' \in BOOLEAN, abstained => abstained', outcome = "ABSTAIN" => abstained'
    PROVE  ScanInv'
<1>1. Tried(outcome) /\ place' = to /\ UNCHANGED <<case, market>>
  BY DEF GoOn
<1>2. /\ attempts' \in Seq([session : Nat, window : Nat, status : Statuses])
      /\ attempts' # <<>>
      /\ Unjudged' => Unjudged \/ outcome = "ABSTAIN"
  BY <1>1, TriedIs
<1>3. IsCase(case)' /\ ScanTypeOK'
  BY <1>1, <1>2 DEF ScanInv, ScanTypeOK
<1>4. Unjudged' => abstained'
  BY <1>2 DEF ScanInv, AbstentionInv
<1>5. AbstentionInv'
  BY <1>1, <1>2, <1>4 DEF AbstentionInv
<1>. QED
  BY <1>3, <1>5 DEF ScanInv

LEMMA ScanInvKept ==
    ASSUME ScanInv, UNCHANGED <<case, place, attempts, abstained, market>>
    PROVE  ScanInv'
<1>1. ScanTypeOK'
  BY DEF ScanInv, ScanTypeOK
<1>2. Unjudged' = Unjudged
  BY DEF Unjudged
<1>3. AbstentionInv'
  BY <1>2 DEF ScanInv, AbstentionInv
<1>. QED
  BY <1>1, <1>3 DEF ScanInv

LEMMA ScanStep ==
    ASSUME ScanInv, ScanNext
    PROVE  ScanInv'
<1>0. /\ AfterSession(case, place) \in Places(case) /\ AfterDay(case, place) \in Places(case)
      /\ AfterWindow(case, place) \in Places(case) /\ abstained \in BOOLEAN
  BY PlacesFollow DEF ScanInv, ScanTypeOK
<1>1. CASE Begin
  <2>1. /\ market = "NEW" /\ market' \in {"PRECHECK_BLOCKED", "NON_EXECUTABLE", "SCANNING"}
        /\ market' = "SCANNING" => Scanned(case) # {}
        /\ place' = IF market' = "SCANNING" THEN FirstOf(Scanned(case)) ELSE End
        /\ UNCHANGED <<case, attempts, abstained>>
    BY <1>1 DEF Begin
  <2>2. place' \in Places(case) /\ (market' = "SCANNING" => place' # End)
    <3>1. FirstOf({}) \in Places(case) /\ FirstOf({}) = End
      BY FirstOfIs DEF ScanInv, FirstOf
    <3>2. FirstOf(Scanned(case)) \in Places(case) /\ (Scanned(case) # {} => FirstOf(Scanned(case)) # End)
      BY FirstOfIs DEF ScanInv
    <3>. QED
      BY <2>1, <3>1, <3>2
  <2>3. ScanTypeOK'
    BY <2>1, <2>2 DEF ScanInv, ScanTypeOK
  <2>4. ~Unjudged'
    BY <2>1 DEF ScanInv, AbstentionInv, Unjudged
  <2>5. AbstentionInv'
    BY <2>1, <2>2, <2>4 DEF AbstentionInv
  <2>. QED
    BY <2>1, <2>3, <2>5 DEF ScanInv
<1>2. CASE EnterSession
  <2>1. /\ market = "SCANNING" /\ place # End /\ SessionWindows(case, place.session) # {}
        /\ place' = Place(place.session, 1)
        /\ UNCHANGED <<case, attempts, abstained, market>>
    BY <1>2 DEF EnterSession, AtSession, Scanning
  <2>2. place' \in Places(case)
    <3>1. place.session \in Nat /\ IsCase(case)
      BY DEF ScanInv, ScanTypeOK, Places
    <3>2. Cardinality(SessionWindows(case, place.session)) \in Nat \ {0}
      BY <2>1, <3>1, WindowsAre, FS_EmptySet
    <3>. QED
      BY <2>1, <3>1, <3>2 DEF Place, Places
  <2>3. place' # End
    BY <2>1 DEF Place, End
  <2>4. ScanTypeOK'
    BY <2>1, <2>2 DEF ScanInv, ScanTypeOK
  <2>5. Unjudged' = Unjudged
    BY <2>1 DEF Unjudged
  <2>6. AbstentionInv'
    BY <2>1, <2>3, <2>5 DEF ScanInv, AbstentionInv
  <2>. QED
    BY <2>1, <2>4, <2>6 DEF ScanInv
<1>3. CASE SessionBlind
  <2>1. market = "SCANNING" /\ abstained' = TRUE /\ GoOn("ABSTAIN", AfterSession(case, place))
    BY <1>3 DEF SessionBlind, AtSession, Scanning
  <2>. QED
    BY <1>0, <2>1, GoOnKeeps DEF Statuses
<1>4. CASE Ruleless
  <2>1. /\ market = "SCANNING" /\ market' = "PRECHECK_BLOCKED" /\ place' = End
        /\ Tried("PRECHECK_BLOCKED") /\ UNCHANGED <<case, abstained>>
    BY <1>4 DEF Ruleless, AtSession, AtWindow, Scanning
  <2>2. /\ attempts' \in Seq([session : Nat, window : Nat, status : Statuses])
        /\ Unjudged' => Unjudged
    BY <2>1, TriedIs DEF Statuses
  <2>3. End \in Places(case)
    BY FirstOfIs DEF ScanInv, FirstOf
  <2>4. ScanTypeOK'
    BY <2>1, <2>2, <2>3 DEF ScanInv, ScanTypeOK
  <2>5. AbstentionInv'
    BY <2>1, <2>2 DEF ScanInv, AbstentionInv
  <2>. QED
    BY <2>1, <2>4, <2>5 DEF ScanInv
<1>5. CASE Expired
  <2>1. market = "SCANNING" /\ abstained' = abstained /\ GoOn("CANCELLED", AfterDay(case, place))
    BY <1>5 DEF Expired, AtWindow, Scanning
  <2>. QED
    BY <1>0, <2>1, GoOnKeeps DEF Statuses
<1>6. CASE Untradable
  <2>1. market = "SCANNING" /\ abstained' = abstained /\ GoOn("NON_EXECUTABLE", AfterWindow(case, place))
    BY <1>6 DEF Untradable, InForce, AtWindow, Scanning
  <2>. QED
    BY <1>0, <2>1, GoOnKeeps DEF Statuses
<1>7. CASE TooSmall
  <2>1. market = "SCANNING" /\ abstained' = abstained /\ GoOn("NON_EXECUTABLE", AfterWindow(case, place))
    BY <1>7 DEF TooSmall, InForce, AtWindow, Scanning
  <2>. QED
    BY <1>0, <2>1, GoOnKeeps DEF Statuses
<1>8. CASE Unpriced
  <2>1. market = "SCANNING" /\ abstained' = TRUE /\ GoOn("ABSTAIN", AfterDay(case, place))
    BY <1>8 DEF Unpriced, InForce, AtWindow, Scanning
  <2>. QED
    BY <1>0, <2>1, GoOnKeeps DEF Statuses
<1>9. CASE Unaffordable
  <2>1. market = "SCANNING" /\ abstained' = abstained /\ GoOn("NON_EXECUTABLE", AfterWindow(case, place))
    BY <1>9 DEF Unaffordable, Executable, InForce, AtWindow, Scanning
  <2>. QED
    BY <1>0, <2>1, GoOnKeeps DEF Statuses
<1>10. CASE GateRejected
  <2>1. /\ market = "SCANNING" /\ GoOn("GATE_REJECTED_AT_EXECUTABLE_PRICE", AfterDay(case, place))
        /\ \E verdicts : abstained' = (abstained \/ "ABSTAIN" \in verdicts)
    BY <1>10 DEF GateRejected, Executable, InForce, AtWindow, Scanning
  <2>2. abstained' \in BOOLEAN /\ (abstained => abstained')
    BY <1>0, <2>1
  <2>. QED
    BY <1>0, <2>1, <2>2, GoOnKeeps DEF Statuses
<1>11. CASE Fill
  <2>1. /\ market = "SCANNING" /\ market' \in {"PARTIALLY_FILLED", "FILLED"}
        /\ Tried(market') /\ place' = End /\ UNCHANGED <<case, abstained>>
    BY <1>11 DEF Fill, Executable, InForce, AtWindow, Scanning
  <2>2. PICK outcome \in {"PARTIALLY_FILLED", "FILLED"} : outcome = market' /\ Tried(outcome)
    BY <2>1
  <2>3. /\ attempts' \in Seq([session : Nat, window : Nat, status : Statuses])
        /\ Unjudged' => Unjudged
    <3>1. outcome \in Statuses /\ outcome # "ABSTAIN"
      BY DEF Statuses
    <3>. QED
      BY <2>2, <3>1, TriedIs
  <2>4. End \in Places(case)
    BY FirstOfIs DEF ScanInv, FirstOf
  <2>5. ScanTypeOK'
    BY <2>1, <2>3, <2>4 DEF ScanInv, ScanTypeOK
  <2>6. AbstentionInv'
    BY <2>1, <2>3 DEF ScanInv, AbstentionInv
  <2>. QED
    BY <2>1, <2>5, <2>6 DEF ScanInv
<1>12. CASE Finish
  <2>1. /\ market = "SCANNING" /\ place = End /\ market' = Final
        /\ UNCHANGED <<case, place, attempts, abstained>>
    BY <1>12 DEF Finish
  <2>2. attempts # <<>> /\ Len(attempts) \in DOMAIN attempts /\ LastStatus \in Statuses
    <3>1. attempts \in Seq([session : Nat, window : Nat, status : Statuses]) /\ attempts # <<>>
      BY <2>1 DEF ScanInv, ScanTypeOK, AbstentionInv
    <3>. DEFINE All == [session : Nat, window : Nat, status : Statuses]
    <3>2. \A x \in All : x.status \in Statuses
      OBVIOUS
    <3>. HIDE DEF All
    <3>3. Len(attempts) \in DOMAIN attempts /\ attempts[Len(attempts)] \in All
      <4>1. attempts \in Seq(All)
        BY <3>1 DEF All
      <4>. QED
        BY <3>1, <4>1
    <3>. QED
      BY <3>1, <3>2, <3>3 DEF LastStatus
  <2>3. Unjudged' = Unjudged /\ ScanTypeOK'
    BY <2>1 DEF Unjudged, ScanInv, ScanTypeOK
  <2>4. /\ market' \notin {"NEW", "SCANNING"}
        /\ market' = "ENTRY_EXPIRED" => ~abstained /\ case.action \in NewRisk /\ Cardinality(TradeDates(case)) = EntryDays
        /\ abstained => market' = "ABSTAIN"
    BY <2>1, <2>2 DEF Final, Statuses
  <2>5. AbstentionInv'
    BY <2>1, <2>3, <2>4 DEF ScanInv, AbstentionInv
  <2>. QED
    BY <2>1, <2>3, <2>5 DEF ScanInv
<1>. QED
  BY <1>1, <1>2, <1>3, <1>4, <1>5, <1>6, <1>7, <1>8, <1>9, <1>10, <1>11, <1>12 DEF ScanNext

LEMMA InitScanInv == Trades => ScanInv
<1>. SUFFICES ASSUME Trades PROVE ScanInv
  OBVIOUS
<1>1. IsCase(case) /\ place = End /\ attempts = <<>> /\ abstained = FALSE /\ market = "NEW"
  BY DEF Trades, TradeInit, ScanInit
<1>2. End \in Places(case)
  BY <1>1, FirstOfIs DEF FirstOf
<1>3. ScanTypeOK
  <2>1. \A All : <<>> \in Seq(All)
    OBVIOUS
  <2>. QED
    BY <1>1, <1>2, <2>1 DEF ScanTypeOK
<1>. QED
  BY <1>1, <1>3 DEF ScanInv, AbstentionInv, Unjudged

(* An order that could not be judged on some day is never closed as an     *)
(* entry that expired: expiry is reported only when every day of the order *)
(* was seen and judged, whatever windows, rules and states the days hold   *)
(* (the daily and window scan of stage5_execution.py).                     *)
THEOREM AbstentionIsKept == TradeSpec => []AbstentionSurvives
<1>2. ScanInv /\ [TradeNext]_vars => ScanInv'
  <2>. SUFFICES ASSUME ScanInv, [TradeNext]_vars PROVE ScanInv'
    OBVIOUS
  <2>1. CASE Submit
    BY <2>1, ScanStep DEF Submit
  <2>2. CASE ~Submit
    <3>1. UNCHANGED <<case, place, attempts, abstained, market>>
      BY <2>2 DEF TradeNext, vars, scanVars, Unsized, Size, Return, Refuse, Abstain, Unprojectable, Book, Raise, Write5D
    <3>. QED
      BY <3>1, ScanInvKept
  <2>. QED
    BY <2>1, <2>2
<1>3. ScanInv => AbstentionSurvives
  BY DEF ScanInv, AbstentionInv, AbstentionSurvives, Unjudged
<1>. QED
  BY InitScanInv, <1>2, <1>3, PTL DEF TradeSpec

-----------------------------------------------------------------------------
(* The trade. *)

(* What an order is submitted under. *)
Submitted5C(c, d, risk, con) ==
    /\ risk = PortfolioTargetOf(c, d) /\ risk.quantity # None
    /\ Reduces(d.folio, c, risk) /\ d.folio.approved
    /\ con = Ceilings(c, d, risk)

FillWithin(c, con, f) ==
    /\ f.side = Side(c.action)
    /\ f.quantity \in Nat /\ f.gross \in Nat /\ f.fee \in Nat /\ f.tax \in Nat
    /\ f.gross <= NotionalCap(c, con)
    /\ con # None =>
         /\ f.quantity <= con.maximum
         /\ f.side = "BUY" => f.fee + f.tax <= con.reserve /\ f.gross + con.reserve <= con.cash

(* What is said of a fill as soon as there is one. *)
FillInv(c, con, f) == FillWithin(c, con, f) /\ (f.side = "BUY" => Greatest(c, con, f))

Sent == step = "SUBMITTED" \/ Traded

StepInv ==
    /\ step \in {"ALONE", "NEW", "SUBMITTED", "DECIDED", "WRITTEN"}
    /\ step # "ALONE" => desk # None /\ IsDesk(desk)
    /\ step = "ALONE" => ceilings = None
    /\ step = "NEW" => market = "NEW" /\ fill = None
    /\ step \in {"ALONE", "NEW", "SUBMITTED"} => journal = {} /\ layers = None

TradeInv ==
    /\ ScanInv /\ StepInv
    /\ Sent => Submitted5C(case, desk, target, ceilings)
    /\ fill # None => FillInv(case, ceilings, fill)
    /\ Traded => fill # None
    /\ Traded /\ layers # None =>
         /\ layers.target = target.quantity /\ layers.approved = desk.folio.quantity
         /\ layers.submitted = fill.quantity /\ layers.filled = fill.quantity

(* What an account holds of a security is a whole number. *)
LEMMA HeldIs ==
    ASSUME NEW a, IsAccount(a), NEW security
    PROVE  HeldIn(a, security) \in Nat
<1>. DEFINE p == PositionOf(a, security)
<1>1. CASE p = None
  BY <1>1 DEF HeldIn
<1>2. CASE p # None
  <2>1. p \in a.positions
    BY <1>2, OnlyIs DEF PositionOf
  <2>. HIDE DEF p
  <2>2. IsFiniteSet(p.lots) /\ \A l \in p.lots : l.quantity \in Nat
    BY <2>1 DEF IsAccount, IsPosition, IsLot
  <2>. DEFINE f == [l \in p.lots |-> l.quantity]
  <2>3. \A l \in p.lots : f[l] \in Nat /\ f[l] <= f[l]
    BY <2>2
  <2>4. DOMAIN f = p.lots
    OBVIOUS
  <2>. HIDE DEF f
  <2>5. SumFunctionOnSet(f, p.lots) \in Nat
    BY <2>2, <2>3, SumGrows
  <2>. QED
    BY <1>2, <2>4, <2>5 DEF HeldIn, SumFunction, f, p
<1>. QED
  BY <1>1, <1>2

(* A target that allows a quantity has a whole one, at its value. *)
LEMMA TargetIs ==
    ASSUME NEW c, IsCase(c), NEW d, IsDesk(d), PortfolioTargetOf(c, d).quantity # None
    PROVE  LET risk == PortfolioTargetOf(c, d)
           IN  /\ risk.quantity \in Nat /\ risk.value \in Nat /\ risk.stress \in Nat \ {0}
               /\ c.action \in NewRisk => risk = NewRiskTarget(c, d)
<1>1. CASE c.action \in NewRisk
  <2>1. PortfolioTargetOf(c, d) = NewRiskTarget(c, d)
    BY <1>1 DEF PortfolioTargetOf, NoTarget, Target
  <2>. QED
    BY <1>1, <2>1, NewRiskIs
<1>2. CASE c.action \notin NewRisk
  <2>1. PortfolioTargetOf(c, d) = DeriskTarget(c, d)
    BY <1>2 DEF PortfolioTargetOf, NoTarget, Target
  <2>. DEFINE q == LesserOf(c.proposed, HeldIn(d.account, d.security))
              price == c.proposal.price
  <2>2. q \in Nat /\ price \in Nat
    <3>1. HeldIn(d.account, d.security) \in Nat
      BY HeldIs DEF IsDesk
    <3>. QED
      BY <3>1 DEF IsCase, LesserOf
  <2>3. DeriskTarget(c, d) = Sized(q, price, 10)
    BY DEF DeriskTarget
  <2>. HIDE DEF q, price
  <2>. QED
    BY <1>2, <2>1, <2>2, <2>3, TimesIs DEF Sized, Target
<1>. QED
  BY <1>1, <1>2

(* The ceilings of an order are what Stage 5B accepts, and within all that  *)
(* was approved.                                                            *)
LEMMA CeilingsAre ==
    ASSUME NEW c, IsCase(c), NEW d, IsDesk(d), NEW risk, NEW con, Submitted5C(c, d, risk, con)
    PROVE  /\ IsConstraint(con, c.action) /\ con # None
           /\ con.maximum <= d.folio.quantity /\ d.folio.quantity \in Nat \ {0}
           /\ d.folio.quantity <= risk.quantity /\ risk.quantity \in Nat
           /\ con.gross <= risk.value /\ con.gross <= d.folio.cap /\ con.gross <= c.approval.cap
           /\ con.gross \in Nat /\ risk.value \in Nat /\ d.folio.cap \in Nat /\ c.approval.cap \in Nat
           /\ c.action \in NewRisk =>
                /\ con.cash = d.account.available /\ con.reserve = d.sizing.reserve
                /\ con.gross * risk.stress <= 100 * d.folio.loss /\ risk.stress \in Nat \ {0}
<1>. DEFINE buy == c.action \in NewRisk
            sellable == SellableIn(d.account, d.security)
            amounts == {risk.quantity, d.folio.quantity} \cup (IF buy THEN {} ELSE {sellable})
            allowed == (100 * d.folio.loss) \div risk.stress
            caps == {risk.value, d.folio.cap, c.approval.cap} \cup (IF buy THEN {allowed} ELSE {})
<1>1. /\ risk.quantity \in Nat /\ risk.value \in Nat /\ risk.stress \in Nat \ {0}
  BY TargetIs DEF Submitted5C
<1>2. /\ d.folio.quantity \in Nat \ {0} /\ d.folio.cap \in Nat /\ d.folio.loss \in Nat
      /\ d.folio.quantity <= risk.quantity
  <2>1. IsPortfolioApproval(d.folio) /\ d.folio.approved /\ d.folio.quantity <= risk.quantity
    BY DEF IsDesk, Submitted5C, Reduces
  <2>. QED
    BY <2>1 DEF IsPortfolioApproval
<1>3. c.approval.cap \in Nat /\ d.account.available \in Nat /\ d.sizing.reserve \in Nat /\ sellable \in Nat
  BY MoneyIs, SellableIs DEF IsDesk, IsCase, IsApproval, IsSizing
<1>4. allowed \in Nat /\ risk.stress * allowed <= 100 * d.folio.loss
  <2>. DEFINE most == 100 * d.folio.loss
              stress == risk.stress
  <2>1. most \in Nat /\ most \in Int /\ stress \in Nat \ {0}
    BY <1>1, <1>2
  <2>. HIDE DEF most, stress
  <2>2. most \div stress \in Nat /\ stress * (most \div stress) <= most
    BY <2>1, DivIs
  <2>. QED
    BY <2>2 DEF most, stress
<1>5. con = [approved |-> d.folio.quantity, maximum |-> Min(amounts), gross |-> Min(caps),
             cash |-> IF buy THEN d.account.available ELSE None,
             reserve |-> IF buy THEN d.sizing.reserve ELSE None,
             sellable |-> IF buy THEN None ELSE sellable]
  BY DEF Submitted5C, Ceilings, LeastIn
<1>. HIDE DEF sellable, allowed
<1>6. amounts \in SUBSET Nat /\ amounts # {} /\ d.folio.quantity \in amounts
  BY <1>1, <1>2, <1>3
<1>7. /\ caps \in SUBSET Nat /\ caps # {}
      /\ risk.value \in caps /\ d.folio.cap \in caps /\ c.approval.cap \in caps /\ (buy => allowed \in caps)
  BY <1>1, <1>2, <1>3, <1>4
<1>. HIDE DEF amounts, caps
<1>8. /\ Min(amounts) \in Nat /\ Min(amounts) <= d.folio.quantity
  BY <1>6, LeastExists
<1>9. /\ Min(caps) \in Nat /\ Min(caps) <= risk.value /\ Min(caps) <= d.folio.cap /\ Min(caps) <= c.approval.cap
      /\ buy => Min(caps) <= allowed
  <2>1. Min(caps) \in caps /\ \A y \in caps : Min(caps) <= y
    BY <1>7, LeastExists
  <2>. QED
    BY <1>7, <2>1
<1>10. /\ con.approved = d.folio.quantity /\ con.maximum = Min(amounts) /\ con.gross = Min(caps)
       /\ con.cash = (IF buy THEN d.account.available ELSE None)
       /\ con.reserve = (IF buy THEN d.sizing.reserve ELSE None)
       /\ con.sellable = (IF buy THEN None ELSE sellable)
  BY <1>5
<1>11. con \in Constraints
  BY <1>2, <1>3, <1>5, <1>8, <1>9 DEF Constraints
<1>12. con # None
  BY <1>11, NoneAssumption
<1>13. Side(c.action) = "BUY" <=> buy
  BY DEF Side
<1>14. IsConstraint(con, c.action)
  BY <1>3, <1>8, <1>10, <1>11, <1>13 DEF IsConstraint
<1>15. buy => con.gross * risk.stress <= 100 * d.folio.loss
  <2>. SUFFICES ASSUME buy PROVE con.gross * risk.stress <= 100 * d.folio.loss
    OBVIOUS
  <2>. DEFINE g == Min(caps)
  <2>1. risk.stress * g <= risk.stress * allowed
    <3>1. g \in Nat /\ g <= allowed
      BY <1>9
    <3>. HIDE DEF g
    <3>. QED
      BY <1>1, <1>4, <3>1, TimesGrows
  <2>2. g \in Nat /\ risk.stress * g \in Nat /\ risk.stress * allowed \in Nat /\ 100 * d.folio.loss \in Nat
    BY <1>1, <1>2, <1>4, <1>9, TimesIs
  <2>3. g * risk.stress = risk.stress * g
    BY <1>1, <2>2
  <2>. HIDE DEF g
  <2>4. con.gross = g
    BY <1>10 DEF g
  <2>. QED
    BY <1>4, <2>1, <2>2, <2>3, <2>4
<1>. QED
  BY <1>1, <1>2, <1>3, <1>8, <1>9, <1>10, <1>12, <1>14, <1>15

(* A fill is within the caps of its order and takes the greatest lot. *)
LEMMA FillIs ==
    ASSUME ScanInv, ceilings = None \/ IsConstraint(ceilings, case.action), Fill
    PROVE  FillInv(case, ceilings, fill')
<1>. DEFINE w == Window
            rule == Rule
            best == AffordableQuote(case, ceilings, w, rule)
<1>1. /\ AtWindow /\ rule # None /\ CostAt(case, w.end) # None
      /\ best # None /\ fill' = FillOf(best, rule)
  BY DEF Fill, Executable, InForce, Priced, Best
<1>2. IsCase(case) /\ IsObservation(w)
  BY <1>1, WindowIs DEF ScanInv
<1>3. IsMarketRule(rule)
  BY <1>1, <1>2, RuleIs DEF Rule
<1>4. /\ fill'.quantity = best.quantity /\ fill'.gross = best.gross /\ fill'.fee = best.fee
      /\ fill'.tax = best.tax /\ fill'.side = Side(case.action)
      /\ fill'.rule = rule /\ fill'.window = w
  BY <1>1 DEF FillOf, TradeSide
<1>0. w.volume > 0 /\ w.benchmark \in rule.lower..rule.upper /\ ImpactAt(case, w.quality, w.end) # None
  BY DEF Fill, Executable, InForce, Priced, WindowTradable, Tradable
<1>. HIDE DEF w, rule
<1>5. PICK n \in 1..LotsAt(case, ceilings, w, rule) :
        best = QuoteOf(case, w, rule, n) /\ PaysFor(case, ceilings, w, rule, n)
  BY <1>1, <1>2, <1>3, BestIs
<1>. HIDE DEF best
<1>6. /\ best.quantity \in Nat /\ best.gross \in Nat /\ best.fee \in Nat /\ best.tax \in Nat
      /\ best.gross <= NotionalCap(case, ceilings)
      /\ ceilings # None =>
           /\ best.quantity <= ceilings.maximum
           /\ Side(case.action) = "BUY" => /\ best.fee + best.tax <= ceilings.reserve
                                           /\ best.gross + ceilings.reserve <= ceilings.cash
  BY <1>1, <1>2, <1>3, <1>5, PaidIs
<1>7. FillWithin(case, ceilings, fill')
  BY <1>4, <1>6 DEF FillWithin
<1>8. Side(case.action) = "BUY" => Greatest(case, ceilings, fill')
  BY <1>0, <1>1, <1>2, <1>3, <1>4, BestIsGreatest DEF best
<1>. QED
  BY <1>4, <1>7, <1>8 DEF FillInv

(* Before it is decided, a trade has booked nothing. *)
LEMMA ScanKeepsTrade ==
    ASSUME TradeInv, Submit
    PROVE  TradeInv'
<1>1. /\ step \in {"ALONE", "SUBMITTED"} /\ ScanNext
      /\ UNCHANGED <<desk, step, status, target, journal, books, layers, slice>>
  BY DEF Submit, tradeVars
<1>2. UNCHANGED <<case, ceilings>> /\ (Fill \/ fill' = fill)
  BY <1>1 DEF ScanNext, Begin, EnterSession, SessionBlind, Ruleless, Expired, Untradable, TooSmall,
              Unpriced, Unaffordable, GateRejected, Fill, Finish, GoOn
<1>3. ScanInv' /\ journal = {} /\ layers = None
  BY <1>1, ScanStep DEF TradeInv, StepInv
<1>4. ceilings = None \/ IsConstraint(ceilings, case.action)
  <2>1. CASE step = "ALONE"
    BY <2>1 DEF TradeInv, StepInv
  <2>2. CASE step = "SUBMITTED"
    <3>1. IsCase(case) /\ IsDesk(desk) /\ Submitted5C(case, desk, target, ceilings)
      BY <2>2 DEF TradeInv, ScanInv, StepInv, Sent
    <3>. QED
      BY <3>1, CeilingsAre
  <2>. QED
    BY <1>1, <2>1, <2>2
<1>5. fill' # None => FillInv(case, ceilings, fill')
  <2>1. CASE Fill
    BY <1>4, <2>1, FillIs DEF TradeInv
  <2>2. CASE fill' = fill
    BY <2>2 DEF TradeInv
  <2>. QED
    BY <1>2, <2>1, <2>2
<1>6. StepInv'
  BY <1>1, <1>2 DEF TradeInv, StepInv
<1>7. ~Traded' /\ (Sent' => Sent)
  BY <1>1, <1>3 DEF Traded, Sent
<1>8. Submitted5C(case, desk, target, ceilings)' = Submitted5C(case, desk, target, ceilings)
  BY <1>1, <1>2 DEF Submitted5C
<1>9. FillInv(case, ceilings, fill)' = FillInv(case, ceilings, fill')
  BY <1>2 DEF FillInv, FillWithin, Greatest
<1>. QED
  BY <1>3, <1>5, <1>6, <1>7, <1>8, <1>9 DEF TradeInv

(* A step that ends the trade without a fill in the books. *)
LEMMA EndKeepsTrade ==
    ASSUME TradeInv, step \in {"NEW", "SUBMITTED", "DECIDED"}, step' \in {"DECIDED", "WRITTEN"},
           UNCHANGED <<scanVars, desk, journal>>,
           Traded => UNCHANGED <<target, layers>>
    PROVE  TradeInv'
<1>1. UNCHANGED <<case, ceilings, place, attempts, abstained, market, fill>>
  BY DEF scanVars
<1>2. ScanInv'
  BY <1>1, ScanInvKept DEF TradeInv
<1>3. StepInv'
  BY <1>1 DEF TradeInv, StepInv
<1>4. Traded' = Traded /\ (Sent' <=> Traded)
  BY DEF Traded, Sent
<1>5. Traded => Submitted5C(case, desk, target, ceilings)' = Submitted5C(case, desk, target, ceilings)
  BY <1>1 DEF Submitted5C
<1>6. Sent' => Submitted5C(case, desk, target, ceilings)'
  BY <1>4, <1>5 DEF TradeInv, Sent
<1>7. fill' # None => FillInv(case, ceilings, fill)'
  BY <1>1 DEF TradeInv, FillInv, FillWithin, Greatest
<1>8. /\ Traded' => fill' # None
      /\ Traded' /\ layers' # None =>
           /\ layers'.target = target'.quantity /\ layers'.approved = desk'.folio.quantity
           /\ layers'.submitted = fill'.quantity /\ layers'.filled = fill'.quantity
  BY <1>1, <1>4 DEF TradeInv
<1>. QED
  BY <1>2, <1>3, <1>6, <1>7, <1>8 DEF TradeInv

(* One step of a trade. *)
LEMMA TradeStep ==
    ASSUME TradeInv, [TradeNext]_vars
    PROVE  TradeInv'
<1>1. CASE Unsized
  <2>1. /\ step = "NEW" /\ step' = "DECIDED" /\ UNCHANGED <<scanVars, desk, journal, layers>>
    BY <1>1 DEF Unsized, Ends
  <2>2. ~Traded
    BY <2>1 DEF TradeInv, StepInv, Traded
  <2>. QED
    BY <2>1, <2>2, EndKeepsTrade
<1>2. CASE Size
  <2>1. /\ step = "NEW" /\ target' = PortfolioTargetOf(case, desk)
        /\ target'.quantity # None /\ Reduces(desk.folio, case, target')
        /\ UNCHANGED <<case, place, attempts, abstained, market, fill, desk, journal>>
    BY <1>2 DEF Size
  <2>2. journal = {} /\ layers = None /\ fill = None
    BY <2>1 DEF TradeInv, StepInv
  <2>3. ScanInv'
    BY <2>1, ScanInvKept DEF TradeInv
  <2>4. ~Traded'
    BY <2>1, <2>2 DEF Traded
  <2>5. CASE step' = "DECIDED"
    <3>1. StepInv'
      BY <2>1, <2>5 DEF TradeInv, StepInv
    <3>2. ~Sent'
      BY <2>4, <2>5 DEF Sent
    <3>. QED
      BY <2>1, <2>2, <2>3, <2>4, <2>5, <3>1, <3>2 DEF TradeInv
  <2>6. CASE step' = "SUBMITTED"
    <3>1. /\ desk.folio.approved /\ ceilings' = Ceilings(case, desk, target')
          /\ UNCHANGED layers
      BY <1>2, <2>6 DEF Size, Ends
    <3>2. StepInv'
      BY <2>1, <2>2, <2>6, <3>1 DEF TradeInv, StepInv
    <3>3. Submitted5C(case, desk, target, ceilings)'
      BY <2>1, <3>1 DEF Submitted5C
    <3>. QED
      BY <2>1, <2>2, <2>3, <2>4, <3>2, <3>3 DEF TradeInv
  <2>7. step' \in {"DECIDED", "SUBMITTED"}
    BY <1>2 DEF Size, Ends
  <2>. QED
    BY <2>5, <2>6, <2>7
<1>3. CASE Submit
  BY <1>3, ScanKeepsTrade
<1>4. CASE Return
  <2>1. /\ step = "SUBMITTED" /\ step' = "DECIDED" /\ UNCHANGED <<scanVars, desk, journal>>
    BY <1>4 DEF Return, Scanned5B, Ends
  <2>2. ~Traded
    BY <2>1 DEF TradeInv, StepInv, Traded
  <2>. QED
    BY <2>1, <2>2, EndKeepsTrade
<1>5. CASE Refuse \/ Abstain \/ Unprojectable \/ Raise
  <2>1. /\ step = "SUBMITTED" /\ step' = "DECIDED" /\ UNCHANGED <<scanVars, desk, target, journal, layers>>
    BY <1>5 DEF Refuse, Abstain, Unprojectable, Raise, Admitted, Scanned5B, Ends
  <2>. QED
    BY <2>1, EndKeepsTrade
<1>6. CASE Book
  <2>1. /\ step = "SUBMITTED" /\ step' = "DECIDED" /\ fill # None
        /\ UNCHANGED <<case, ceilings, place, attempts, abstained, market, fill, desk, target>>
        /\ layers' = layers \/ layers' = Layers(books', desk.folio.quantity, fill.quantity, fill.quantity)
    BY <1>6 DEF Book, Admitted, Scanned5B, Ends, scanVars
  <2>2. ScanInv'
    BY <2>1, ScanInvKept DEF TradeInv
  <2>3. StepInv'
    BY <2>1 DEF TradeInv, StepInv
  <2>4. Submitted5C(case, desk, target, ceilings)'
    <3>1. Submitted5C(case, desk, target, ceilings)
      BY <2>1 DEF TradeInv, Sent
    <3>. QED
      BY <2>1, <3>1 DEF Submitted5C
  <2>5. FillInv(case, ceilings, fill)'
    <3>1. FillInv(case, ceilings, fill)
      BY <2>1 DEF TradeInv
    <3>. QED
      BY <2>1, <3>1 DEF FillInv, FillWithin, Greatest
  <2>6. layers' # None =>
           /\ layers'.target = target'.quantity /\ layers'.approved = desk'.folio.quantity
           /\ layers'.submitted = fill'.quantity /\ layers'.filled = fill'.quantity
    <3>1. layers = None
      BY <2>1 DEF TradeInv, StepInv
    <3>. QED
      BY <2>1, <3>1 DEF Layers
  <2>. QED
    BY <2>1, <2>2, <2>3, <2>4, <2>5, <2>6 DEF TradeInv
<1>7. CASE Write5D
  <2>1. /\ step = "DECIDED" /\ step' = "WRITTEN" /\ UNCHANGED <<scanVars, desk, target, journal, layers>>
    BY <1>7 DEF Write5D
  <2>. QED
    BY <2>1, EndKeepsTrade
<1>8. CASE UNCHANGED vars
  <2>1. UNCHANGED <<case, ceilings, place, attempts, abstained, market, fill>>
        /\ UNCHANGED <<desk, step, target, journal, layers>>
    BY <1>8 DEF vars, scanVars, tradeVars
  <2>2. ScanInv'
    BY <2>1, ScanInvKept DEF TradeInv
  <2>3. /\ Submitted5C(case, desk, target, ceilings)' = Submitted5C(case, desk, target, ceilings)
        /\ FillInv(case, ceilings, fill)' = FillInv(case, ceilings, fill)
        /\ Traded' = Traded /\ Sent' = Sent
    BY <2>1 DEF Submitted5C, FillInv, FillWithin, Greatest, Traded, Sent
  <2>4. StepInv'
    BY <2>1 DEF TradeInv, StepInv
  <2>. QED
    BY <2>1, <2>2, <2>3, <2>4 DEF TradeInv
<1>. QED
  BY <1>1, <1>2, <1>3, <1>4, <1>5, <1>6, <1>7, <1>8 DEF TradeNext

(* The inductive invariant holds of every trade. *)
LEMMA TradeInvHolds == TradeSpec => []TradeInv
<1>1. Trades => TradeInv
  <2>. SUFFICES ASSUME Trades PROVE TradeInv
    OBVIOUS
  <2>1. /\ IsCase(case) /\ place = End /\ attempts = <<>> /\ abstained = FALSE /\ market = "NEW" /\ fill = None
        /\ (desk # None => IsDesk(desk)) /\ step = (IF desk = None THEN "ALONE" ELSE "NEW")
        /\ ceilings = None /\ journal = {} /\ layers = None
    BY DEF Trades, TradeInit, ScanInit
  <2>2. ScanInv
    BY InitScanInv
  <2>3. StepInv
    BY <2>1 DEF StepInv
  <2>. QED
    BY <2>1, <2>2, <2>3 DEF TradeInv, Sent, Traded
<1>2. TradeInv /\ [TradeNext]_vars => TradeInv'
  BY TradeStep
<1>. QED
  BY <1>1, <1>2, PTL DEF TradeSpec

(* Whatever is submitted, nothing is bought in a crisis, in a deep drawdown *)
(* or for a stopped account whose recovery the owner did not agree to       *)
(* (stage5_portfolio_risk.py, through Stage 5C to the books).               *)
THEOREM StoppedAccountsBuyNothing == TradeSpec => []NoNewRiskWhenStopped
<1>1. TradeInv => NoNewRiskWhenStopped
  <2>. SUFFICES ASSUME TradeInv, Traded, fill.side = "BUY"
                PROVE  /\ desk.regime # "CRISIS" /\ ~DrawnTo(desk.account, DeriskOnlyAt)
                       /\ desk.account.stopped => /\ desk.account.recovery # None /\ desk.account.recovery.agreed
                                                  /\ desk.account.recovery.effective <= case.approval.at
                                                  /\ desk.account.recovery.ofHead
    BY DEF NoNewRiskWhenStopped
  <2>1. /\ IsCase(case) /\ IsDesk(desk) /\ Submitted5C(case, desk, target, ceilings)
        /\ FillWithin(case, ceilings, fill)
    BY DEF TradeInv, ScanInv, StepInv, Sent, Traded, FillInv
  <2>2. case.action \in NewRisk
    BY <2>1 DEF FillWithin, Side
  <2>3. target = NewRiskTarget(case, desk) /\ target.quantity # None
    BY <2>1, <2>2, TargetIs DEF Submitted5C
  <2>4. target.quantity \in Nat /\ target.quantity > 0
    BY <2>1, CeilingsAre
  <2>5. /\ desk.regime # "CRISIS" /\ ~DrawnTo(desk.account, DeriskOnlyAt)
        /\ desk.account.stopped => Recovered(desk.account)
        /\ RecoveryFits(case, desk.account)
    BY <2>1, <2>3, <2>4, NewRiskIs
  <2>. QED
    BY <2>5 DEF Recovered, RecoveryFits
<1>. QED
  BY <1>1, TradeInvHolds, PTL

(* What a purchase took at the price it got is within every limit of the *)
(* portfolio, both approvals and the cash that was there, for every      *)
(* portfolio, price, lot, charge and impact curve (the sizing of         *)
(* stage5_portfolio_risk.py against the fill of stage5_execution.py).    *)
THEOREM LimitsHold == TradeSpec => []LimitsHoldAfterFill
<1>1. TradeInv => LimitsHoldAfterFill
  <2>. SUFFICES ASSUME TradeInv, Traded, fill.side = "BUY"
                PROVE  /\ \A l \in Limits(case, desk) : fill.gross * l.den <= l.num
                       /\ fill.gross <= LesserOf(desk.folio.cap, case.approval.cap)
                       /\ fill.gross * target.stress <= 100 * desk.folio.loss
                       /\ fill.gross + fill.fee + fill.tax <= desk.account.available
                       /\ layers # None => /\ layers.target >= layers.approved /\ layers.approved >= layers.submitted
                                           /\ layers.submitted >= layers.filled
    BY DEF LimitsHoldAfterFill
  <2>1. /\ IsCase(case) /\ IsDesk(desk) /\ Submitted5C(case, desk, target, ceilings)
        /\ FillWithin(case, ceilings, fill)
    BY DEF TradeInv, ScanInv, StepInv, Sent, Traded, FillInv
  <2>2. case.action \in NewRisk
    BY <2>1 DEF FillWithin, Side
  <2>3. target = NewRiskTarget(case, desk) /\ target.quantity # None
    BY <2>1, <2>2, TargetIs DEF Submitted5C
  <2>4. /\ ceilings # None /\ ceilings.maximum <= desk.folio.quantity /\ desk.folio.quantity \in Nat
        /\ IsConstraint(ceilings, case.action)
        /\ desk.folio.quantity <= target.quantity /\ target.quantity \in Nat
        /\ ceilings.gross <= target.value /\ ceilings.gross <= desk.folio.cap /\ ceilings.gross <= case.approval.cap
        /\ ceilings.gross \in Nat /\ target.value \in Nat /\ desk.folio.cap \in Nat /\ case.approval.cap \in Nat
        /\ ceilings.cash = desk.account.available /\ ceilings.reserve = desk.sizing.reserve
        /\ ceilings.gross * target.stress <= 100 * desk.folio.loss /\ target.stress \in Nat \ {0}
    BY <2>1, <2>2, CeilingsAre
  <2>5. /\ fill.quantity \in Nat /\ fill.gross \in Nat /\ fill.fee \in Nat /\ fill.tax \in Nat
        /\ fill.quantity <= ceilings.maximum /\ fill.fee + fill.tax <= ceilings.reserve
        /\ fill.gross + ceilings.reserve <= ceilings.cash
        /\ fill.gross <= ceilings.gross
    <3>1. NotionalCap(case, ceilings) <= ceilings.gross /\ NotionalCap(case, ceilings) \in Nat
      BY <2>4 DEF NotionalCap, LesserOf
    <3>. QED
      BY <2>1, <2>4, <3>1 DEF FillWithin
  <2>6. /\ desk.sizing.reserve \in Nat /\ desk.account.available \in Nat /\ desk.folio.loss \in Nat
        /\ ceilings.maximum \in Nat
    BY <2>1, <2>4, MoneyIs DEF IsDesk, IsSizing, IsPortfolioApproval, IsConstraint, Constraints
  <2>7. ASSUME NEW l \in Limits(case, desk)
        PROVE  fill.gross * l.den <= l.num
    <3>1. l.num \in Nat /\ l.den \in Nat /\ target.value * l.den <= l.num
      BY <2>1, <2>3, NewRiskIs DEF Ratios
    <3>2. fill.gross <= target.value
      BY <2>4, <2>5
    <3>3. l.den * fill.gross <= l.den * target.value
      BY <2>4, <2>5, <3>1, <3>2, TimesGrows
    <3>4. /\ l.den * fill.gross = fill.gross * l.den /\ l.den * target.value = target.value * l.den
          /\ l.den * fill.gross \in Nat /\ l.den * target.value \in Nat
      BY <2>4, <2>5, <3>1
    <3>. QED
      BY <3>1, <3>3, <3>4
  <2>8. fill.gross <= LesserOf(desk.folio.cap, case.approval.cap)
    BY <2>4, <2>5 DEF LesserOf
  <2>9. fill.gross * target.stress <= 100 * desk.folio.loss
    <3>1. target.stress * fill.gross <= target.stress * ceilings.gross
      BY <2>4, <2>5, TimesGrows
    <3>2. /\ target.stress * fill.gross = fill.gross * target.stress /\ fill.gross * target.stress \in Nat
          /\ target.stress * ceilings.gross = ceilings.gross * target.stress /\ ceilings.gross * target.stress \in Nat
      BY <2>4, <2>5
    <3>. QED
      BY <2>4, <2>6, <3>1, <3>2
  <2>10. fill.gross + fill.fee + fill.tax <= desk.account.available
    BY <2>4, <2>5, <2>6
  <2>11. layers # None => /\ layers.target >= layers.approved /\ layers.approved >= layers.submitted
                          /\ layers.submitted >= layers.filled
    <3>. SUFFICES ASSUME layers # None
                  PROVE  /\ layers.target >= layers.approved /\ layers.approved >= layers.submitted
                         /\ layers.submitted >= layers.filled
      OBVIOUS
    <3>1. /\ layers.target = target.quantity /\ layers.approved = desk.folio.quantity
          /\ layers.submitted = fill.quantity /\ layers.filled = fill.quantity
      BY DEF TradeInv
    <3>. QED
      BY <2>4, <2>5, <2>6, <3>1
  <2>. QED
    BY <2>7, <2>8, <2>9, <2>10, <2>11
<1>. QED
  BY <1>1, TradeInvHolds, PTL

(* The binary search of stage5_execution.py leaves out no lot that could be *)
(* paid: since slippage, price, gross amount and charges never fall on a    *)
(* greater quantity, every lot below one that can be paid can be paid too.  *)
THEOREM GreatestLot == TradeSpec => []GreatestLotBought
<1>1. TradeInv => GreatestLotBought
  BY DEF TradeInv, FillInv, Greatest, GreatestLotBought
<1>. QED
  BY <1>1, TradeInvHolds, PTL

-----------------------------------------------------------------------------
(* A journal and its corrections. *)

Undoes(r, o) == r.type = "REVERSAL" /\ r.of = o.id
Replaces(book, n, o) ==
    n.type = "REPLACEMENT" /\ \E r \in book : Undoes(r, o) /\ n.of = r.id

(* A fill of the market, or what stands for one that was reversed.         *)
IsFillOf(book, e) ==
    \/ e.type = "TRADE_FILL"
    \/ \E o \in book : o.type = "TRADE_FILL" /\ Replaces(book, e, o)

(* Ids name one event each; an event is reversed once, and only if it is   *)
(* no correction; a reversal is replaced once.                             *)
CorrectionsLinked(book) ==
    /\ \A e, f \in book : e.id = f.id => e = f
    /\ \A r \in book : r.type = "REVERSAL" =>
          \E o \in book : Undoes(r, o) /\ o.type \notin {"REVERSAL", "REPLACEMENT"}
    /\ \A r, s \in book : r.type = "REVERSAL" /\ s.type = "REVERSAL" /\ r.of = s.of => r = s
    /\ \A n \in book : n.type = "REPLACEMENT" => \E o \in book : Replaces(book, n, o)
    /\ \A n, m \in book : n.type = "REPLACEMENT" /\ m.type = "REPLACEMENT" /\ n.of = m.of => n = m

BooksShares(e) == FillSource(e) # None /\ Signed(e, "SECURITY_CONTROL", e.security) # 0

(* What books shares is a fill; its source is on record; and of two fills  *)
(* with one source one stands for the other.                               *)
FillsLinked(book, fills) ==
    /\ \A e \in book : e.type # "REVERSAL" /\ BooksShares(e) => IsFillOf(book, e)
    /\ \A e \in book : IsFillOf(book, e) => FillSource(e) # None /\ FillSource(e) \in fills
    /\ \A e, f \in book : IsFillOf(book, e) /\ IsFillOf(book, f) /\ FillSource(e) = FillSource(f) =>
          e = f \/ Replaces(book, e, f) \/ Replaces(book, f, e)

JournalInvariant ==
    /\ ledger.accepted \in Seq(Pool)
    /\ CorrectionsLinked(Journal)
    /\ FillsLinked(Journal, ledger.fills)

LEMMA NoAmounts == Amounts({}) = 0
<1>. DEFINE it(D) == CHOOSE f : f = [s \in SUBSET D |->
                         IF s = {} THEN 0
                         ELSE (CHOOSE x \in s : TRUE).amount + f[s \ {CHOOSE x \in s : TRUE}]]
            none == [s \in SUBSET {} |-> 0]
<1>1. Amounts({}) = it({})[{}]
  BY DEF Amounts, MapThenSumSet, MapThenFoldSet
<1>2. none = [s \in SUBSET {} |-> IF s = {} THEN 0
                 ELSE (CHOOSE x \in s : TRUE).amount + none[s \ {CHOOSE x \in s : TRUE}]]
  OBVIOUS
<1>3. it({}) = [s \in SUBSET {} |-> IF s = {} THEN 0
                 ELSE (CHOOSE x \in s : TRUE).amount + it({})[s \ {CHOOSE x \in s : TRUE}]]
  BY <1>2
<1>. QED
  BY <1>1, <1>3

LEMMA RangeAppend ==
    ASSUME NEW T, NEW s \in Seq(T), NEW e \in T
    PROVE  /\ Append(s, e) \in Seq(T)
           /\ Range(Append(s, e)) = Range(s) \cup {e}
           /\ Range(s) \subseteq T
<1>. DEFINE t == Append(s, e)
<1>1. /\ t \in Seq(T) /\ Len(s) \in Nat /\ DOMAIN s = 1..Len(s) /\ DOMAIN t = 1..(Len(s) + 1)
      /\ \A i \in 1..Len(s) : t[i] = s[i] /\ s[i] \in T
      /\ t[Len(s) + 1] = e
  OBVIOUS
<1>. HIDE DEF t
<1>2. ASSUME NEW x \in Range(t)
      PROVE  x \in Range(s) \cup {e}
  <2>1. PICK i \in DOMAIN t : x = t[i]
    BY <1>2 DEF Range
  <2>2. i \in 1..Len(s) \/ i = Len(s) + 1
    BY <1>1, <2>1
  <2>. QED
    BY <1>1, <2>1, <2>2 DEF Range
<1>3. ASSUME NEW x \in Range(s) \cup {e}
      PROVE  x \in Range(t)
  <2>1. CASE x = e
    <3>1. Len(s) + 1 \in DOMAIN t
      BY <1>1
    <3>. QED
      BY <1>1, <2>1, <3>1 DEF Range
  <2>2. CASE x \in Range(s)
    <3>1. PICK i \in DOMAIN s : x = s[i]
      BY <2>2 DEF Range
    <3>2. i \in DOMAIN t /\ t[i] = s[i]
      BY <1>1, <3>1
    <3>. QED
      BY <3>1, <3>2 DEF Range
  <2>. QED
    BY <1>3, <2>1, <2>2
<1>4. Range(s) \subseteq T
  BY <1>1 DEF Range
<1>. QED
  BY <1>1, <1>2, <1>3, <1>4 DEF t

(* Only the rules of a fill let shares be booked with a source.            *)
LEMMA FillsOnlyByTheirRules ==
    ASSUME NEW b, NEW e, NEW type, NEW replaced, Fits(b, e, type, replaced), BooksShares(e)
    PROVE  type = "TRADE_FILL" /\ FillFits(b, e, replaced)
<1>1. ASSUME "SECURITY_CONTROL" \notin PostingAccounts(e)
      PROVE  FALSE
  <2>1. {p \in e.postings : p.account = "SECURITY_CONTROL" /\ p.unit = e.security} = {}
    BY <1>1 DEF PostingAccounts
  <2>. QED
    BY <2>1, NoAmounts DEF Signed, BooksShares
<1>2. ASSUME \A x \in e.effects : x.fill = None
      PROVE  FALSE
  <2>1. FillSources(e) = {}
    BY <1>2 DEF FillSources
  <2>2. Cardinality(FillSources(e)) = 0
    BY <2>1, FS_EmptySet
  <2>. QED
    BY <2>2 DEF FillSource, BooksShares
<1>3. /\ ~(type = "OPENING_BALANCE" /\ OpeningFits(e))
      /\ ~(type \in {"SYNTHETIC_ORDER_ACCEPTED", "SYNTHETIC_ORDER_CANCELLED"} /\ e.postings = {} /\ e.effects = {})
      /\ ~(type = "CASH_RESERVATION" /\ e.effects = {})
      /\ ~(type = "CASH_RELEASE" /\ e.effects = {})
      /\ ~(type = "TRADE_SETTLEMENT" /\ e.effects = {})
  BY <1>2 DEF OpeningFits
<1>4. /\ ~ChargeFits(b, e, "FEE_EXPENSE") /\ ~ChargeFits(b, e, "TAX_EXPENSE")
      /\ ~AvailabilityFits(b, e)
  BY <1>1 DEF ChargeFits, AvailabilityFits, IsPositiveTransfer
<1>. QED
  BY <1>3, <1>4 DEF Fits

(* What is posted joins the journal, and the fills on record stay there.   *)
LEMMA PostedBooks ==
    ASSUME ledger.accepted \in Seq(Pool), NEW n \in Pool, Post(n)
    PROVE  /\ ledger'.accepted \in Seq(Pool)
           /\ Journal' = Journal \cup {n}
           /\ n \notin Journal
           /\ \A e, f \in Journal \cup {n} : e.id = f.id => e = f
           /\ ledger.fills \subseteq ledger'.fills
           /\ ledger'.fills = FillsAfter(ledger, n, (CHOOSE x \in Meanings(ledger, n) : TRUE).type)
<1>1. ledger' = BooksAfter(ledger, n)
  BY DEF Post
<1>. DEFINE posted == Posted(ledger, n)
            type == (CHOOSE x \in Meanings(ledger, n) : TRUE).type
<1>2. /\ posted.accepted = Append(ledger.accepted, n) /\ posted.fills = ledger.fills
      /\ DOMAIN posted = {"balance", "lots", "accepted", "fills"}
  BY DEF Posted
<1>. HIDE DEF posted
<1>3. ledger' = [posted EXCEPT !.fills = FillsAfter(ledger, n, type)]
  BY <1>1 DEF BooksAfter, posted
<1>7. ledger'.accepted = Append(ledger.accepted, n) /\ ledger'.fills = FillsAfter(ledger, n, type)
  BY <1>2, <1>3
<1>4. ledger.fills \subseteq ledger'.fills
  BY <1>7 DEF FillsAfter
<1>5. Journal' = Journal \cup {n} /\ ledger'.accepted \in Seq(Pool)
  BY <1>7, RangeAppend DEF Journal, AcceptedEvents
<1>6. n \notin Journal /\ \A e, f \in Journal \cup {n} : e.id = f.id => e = f
  BY DEF Post, Extends, Prechecked
<1>. QED
  BY <1>4, <1>5, <1>6, <1>7

(* A correction of the journal: what it undoes, or what it stands for.     *)
LEMMA ReversalOf ==
    ASSUME NEW n, n.type = "REVERSAL", Postable(ledger, n)
    PROVE  \E o \in Journal : /\ Undoes(n, o) /\ o.type \notin {"REVERSAL", "REPLACEMENT"}
                              /\ \A r \in Journal : ~Undoes(r, o)
<1>1. PICK o : o \in Reversible(ledger, n)
  BY DEF Postable, Meanings
<1>. QED
  BY <1>1 DEF Reversible, EventNamed, ReversalsOf, Undoes, Journal

LEMMA ReplacementOf ==
    ASSUME NEW n, n.type = "REPLACEMENT", NEW o \in Meanings(ledger, n)
    PROVE  /\ o \in Journal
           /\ \E r \in Journal : /\ Undoes(r, o) /\ n.of = r.id
                                 /\ \A m \in Journal : m.type = "REPLACEMENT" => m.of # r.id
<1>1. o \in Replaceable(ledger, n)
  BY DEF Meanings
<1>. QED
  BY <1>1 DEF Replaceable, EventNamed, ReversalsOf, ReplacementsOf, Undoes, Journal

LEMMA CorrectionsStayLinked ==
    ASSUME JournalInvariant, NEW n \in Pool, Post(n)
    PROVE  CorrectionsLinked(Journal')
<1>1. Journal' = Journal \cup {n} /\ n \notin Journal /\ \A e, f \in Journal' : e.id = f.id => e = f
  BY PostedBooks DEF JournalInvariant
<1>2. CorrectionsLinked(Journal) /\ Postable(ledger, n)
  BY DEF JournalInvariant, Post
<1>3. \A r \in Journal' : r.type = "REVERSAL" =>
          \E o \in Journal' : Undoes(r, o) /\ o.type \notin {"REVERSAL", "REPLACEMENT"}
  BY <1>1, <1>2, ReversalOf DEF CorrectionsLinked
<1>4. \A r, s \in Journal' : r.type = "REVERSAL" /\ s.type = "REVERSAL" /\ r.of = s.of => r = s
  BY <1>1, <1>2, ReversalOf DEF CorrectionsLinked, Undoes
<1>5. ASSUME n.type = "REPLACEMENT"
      PROVE  \E o \in Journal : Replaces(Journal, n, o) /\ \A m \in Journal : m.type = "REPLACEMENT" => m.of # n.of
  <2>1. PICK o : o \in Meanings(ledger, n)
    BY <1>2 DEF Postable
  <2>. QED
    BY <1>5, <2>1, ReplacementOf DEF Replaces
<1>6. \A m \in Journal' : m.type = "REPLACEMENT" => \E o \in Journal' : Replaces(Journal', m, o)
  BY <1>1, <1>2, <1>5 DEF CorrectionsLinked, Replaces
<1>7. \A m, k \in Journal' : m.type = "REPLACEMENT" /\ k.type = "REPLACEMENT" /\ m.of = k.of => m = k
  BY <1>1, <1>2, <1>5 DEF CorrectionsLinked
<1>. QED
  BY <1>1, <1>3, <1>4, <1>6, <1>7 DEF CorrectionsLinked

(* What stood for what in the journal does so in the longer one.           *)
LEMMA LinksStay ==
    ASSUME JournalInvariant, NEW n \in Pool, Post(n), NEW e \in Journal
    PROVE  /\ \A o \in Journal' : Replaces(Journal', e, o) <=> o \in Journal /\ Replaces(Journal, e, o)
           /\ IsFillOf(Journal', e) <=> IsFillOf(Journal, e)
<1>1. Journal' = Journal \cup {n} /\ n \notin Journal /\ \A x, f \in Journal' : x.id = f.id => x = f
  BY PostedBooks DEF JournalInvariant
<1>2. CorrectionsLinked(Journal)
  BY DEF JournalInvariant
<1>3. \A o \in Journal' : Replaces(Journal', e, o) <=> o \in Journal /\ Replaces(Journal, e, o)
  <2>1. SUFFICES ASSUME NEW o \in Journal', Replaces(Journal', e, o)
                 PROVE  o \in Journal /\ Replaces(Journal, e, o)
    BY <1>1 DEF Replaces
  <2>2. PICK r \in Journal' : Undoes(r, o) /\ e.of = r.id
    BY <2>1 DEF Replaces
  <2>3. PICK s \in Journal : e.of = s.id /\ s.type = "REVERSAL"
    BY <1>2, <2>1 DEF CorrectionsLinked, Replaces, Undoes
  <2>4. r = s
    BY <1>1, <2>2, <2>3
  <2>5. PICK p \in Journal : Undoes(s, p)
    BY <1>2, <2>3 DEF CorrectionsLinked
  <2>6. o = p
    BY <1>1, <2>2, <2>4, <2>5 DEF Undoes
  <2>. QED
    BY <2>1, <2>2, <2>4, <2>5, <2>6 DEF Replaces
<1>. QED
  BY <1>1, <1>3 DEF IsFillOf

(* A fill that is posted follows the rules of a fill.                      *)
LEMMA PostedFill ==
    ASSUME JournalInvariant, NEW n \in Pool, Post(n), n.type # "REVERSAL",
           IsFillOf(Journal', n) \/ BooksShares(n)
    PROVE  \E o \in Meanings(ledger, n) :
              /\ o.type = "TRADE_FILL" /\ \A p \in Meanings(ledger, n) : p = o
              /\ FillFits(ledger, n, IF n.type = "REPLACEMENT" THEN o ELSE None)
<1>1. /\ Journal' = Journal \cup {n} /\ n \notin Journal /\ \A e, f \in Journal' : e.id = f.id => e = f
      /\ CorrectionsLinked(Journal) /\ Postable(ledger, n) /\ CorrectionsLinked(Journal')
  BY PostedBooks, CorrectionsStayLinked DEF JournalInvariant, Post
<1>2. PICK o \in Meanings(ledger, n) : Fits(ledger, n, o.type, IF n.type = "REPLACEMENT" THEN o ELSE None)
  BY <1>1 DEF Postable
<1>3. ASSUME NEW p \in Meanings(ledger, n)
      PROVE  p = o
  <2>1. CASE n.type = "REPLACEMENT"
    <3>1. PICK r \in Journal : Undoes(r, o) /\ n.of = r.id
      BY <1>2, <2>1, ReplacementOf
    <3>2. PICK s \in Journal : Undoes(s, p) /\ n.of = s.id
      BY <1>3, <2>1, ReplacementOf
    <3>3. o \in Journal /\ p \in Journal
      BY <1>2, <1>3, <2>1, ReplacementOf
    <3>. QED
      BY <1>1, <3>1, <3>2, <3>3 DEF Undoes
  <2>2. CASE n.type # "REPLACEMENT"
    BY <1>2, <1>3, <2>2 DEF Meanings
  <2>. QED
    BY <2>1, <2>2
<1>4. CASE BooksShares(n)
  BY <1>2, <1>3, <1>4, FillsOnlyByTheirRules
<1>5. CASE IsFillOf(Journal', n)
  <2>1. o.type = "TRADE_FILL"
    <3>1. CASE n.type = "REPLACEMENT"
      <4>1. PICK r \in Journal : Undoes(r, o) /\ n.of = r.id
        BY <1>2, <3>1, ReplacementOf
      <4>2. PICK p \in Journal', s \in Journal' : p.type = "TRADE_FILL" /\ Undoes(s, p) /\ n.of = s.id
        BY <1>5, <3>1 DEF IsFillOf, Replaces
      <4>3. o \in Journal
        BY <1>2, <3>1, ReplacementOf
      <4>. QED
        BY <1>1, <4>1, <4>2, <4>3 DEF Undoes
    <3>2. CASE n.type # "REPLACEMENT"
      BY <1>2, <1>5, <3>2 DEF IsFillOf, Replaces, Meanings
    <3>. QED
      BY <3>1, <3>2
  <2>2. FillFits(ledger, n, IF n.type = "REPLACEMENT" THEN o ELSE None)
    BY <1>2, <2>1 DEF Fits
  <2>. QED
    BY <1>2, <1>3, <2>1, <2>2
<1>. QED
  BY <1>4, <1>5

LEMMA FillsStayLinked ==
    ASSUME JournalInvariant, NEW n \in Pool, Post(n)
    PROVE  FillsLinked(Journal', ledger'.fills)
<1>1. /\ Journal' = Journal \cup {n} /\ n \notin Journal /\ ledger.fills \subseteq ledger'.fills
      /\ ledger'.fills = FillsAfter(ledger, n, (CHOOSE x \in Meanings(ledger, n) : TRUE).type)
      /\ CorrectionsLinked(Journal) /\ FillsLinked(Journal, ledger.fills) /\ CorrectionsLinked(Journal')
  BY PostedBooks, CorrectionsStayLinked DEF JournalInvariant
<1>2. ASSUME n.type # "REVERSAL", IsFillOf(Journal', n) \/ BooksShares(n)
      PROVE  /\ IsFillOf(Journal', n) /\ FillSource(n) # None /\ FillSource(n) \in ledger'.fills
             /\ FillSource(n) \in ledger.fills =>
                   \E o \in Journal : /\ o.type = "TRADE_FILL" /\ FillSource(n) = FillSource(o)
                                      /\ n.type = "REPLACEMENT" /\ o \in Meanings(ledger, n)
  <2>1. PICK o \in Meanings(ledger, n) :
              /\ o.type = "TRADE_FILL" /\ \A p \in Meanings(ledger, n) : p = o
              /\ FillFits(ledger, n, IF n.type = "REPLACEMENT" THEN o ELSE None)
    BY <1>2, PostedFill
  <2>2. ledger'.fills = ledger.fills \cup {FillSource(n)}
    BY <1>1, <1>2, <2>1 DEF FillsAfter
  <2>3. FillSource(n) # None
    BY <2>1 DEF FillFits
  <2>4. CASE n.type = "REPLACEMENT"
    <3>1. o \in Journal /\ Replaces(Journal, n, o)
      BY <2>1, <2>4, ReplacementOf DEF Replaces
    <3>2. IsFillOf(Journal', n)
      BY <1>1, <2>1, <3>1 DEF IsFillOf, Replaces
    <3>3. FillSource(n) \in ledger.fills => FillSource(n) = FillSource(o)
      BY <2>1, <2>4 DEF FillFits, FillIsNew
    <3>. QED
      BY <2>1, <2>2, <2>3, <2>4, <3>1, <3>2, <3>3
  <2>5. CASE n.type # "REPLACEMENT"
    <3>1. n.type = "TRADE_FILL"
      BY <1>2, <2>1, <2>5 DEF Meanings
    <3>2. FillSource(n) \notin ledger.fills
      BY <2>1, <2>5 DEF FillFits, FillIsNew
    <3>. QED
      BY <2>2, <2>3, <3>1, <3>2 DEF IsFillOf
  <2>. QED
    BY <2>4, <2>5
<1>3. \A e \in Journal' : IsFillOf(Journal', e) => e.type # "REVERSAL"
  BY DEF IsFillOf, Replaces
<1>4. \A e \in Journal' : e.type # "REVERSAL" /\ BooksShares(e) => IsFillOf(Journal', e)
  BY <1>1, <1>2, LinksStay DEF FillsLinked
<1>5. \A e \in Journal' : IsFillOf(Journal', e) => FillSource(e) # None /\ FillSource(e) \in ledger'.fills
  BY <1>1, <1>2, <1>3, LinksStay DEF FillsLinked
<1>6. ASSUME NEW e \in Journal, IsFillOf(Journal, e), IsFillOf(Journal', n), FillSource(e) = FillSource(n)
      PROVE  Replaces(Journal', n, e)
  <2>1. PICK o \in Journal : /\ o.type = "TRADE_FILL" /\ FillSource(n) = FillSource(o)
                             /\ n.type = "REPLACEMENT" /\ o \in Meanings(ledger, n)
    BY <1>1, <1>2, <1>3, <1>6 DEF FillsLinked
  <2>2. PICK r \in Journal : /\ Undoes(r, o) /\ n.of = r.id
                             /\ \A m \in Journal : m.type = "REPLACEMENT" => m.of # r.id
    BY <2>1, ReplacementOf
  <2>3. e = o \/ Replaces(Journal, e, o) \/ Replaces(Journal, o, e)
    BY <1>1, <1>6, <2>1 DEF FillsLinked, IsFillOf
  <2>4. ~Replaces(Journal, o, e)
    BY <2>1 DEF Replaces
  <2>5. ~Replaces(Journal, e, o)
    BY <1>1, <2>2 DEF Replaces, Undoes, CorrectionsLinked
  <2>. QED
    BY <1>1, <2>1, <2>2, <2>3, <2>4, <2>5 DEF Replaces
<1>7. ASSUME NEW e \in Journal', NEW f \in Journal', IsFillOf(Journal', e), IsFillOf(Journal', f),
             FillSource(e) = FillSource(f)
      PROVE  e = f \/ Replaces(Journal', e, f) \/ Replaces(Journal', f, e)
  <2>1. CASE e \in Journal /\ f \in Journal
    <3>1. IsFillOf(Journal, e) /\ IsFillOf(Journal, f)
      BY <1>7, <2>1, LinksStay
    <3>2. e = f \/ Replaces(Journal, e, f) \/ Replaces(Journal, f, e)
      BY <1>1, <1>7, <2>1, <3>1 DEF FillsLinked
    <3>. QED
      BY <1>1, <3>2 DEF Replaces
  <2>2. CASE e = n /\ f \in Journal
    BY <1>6, <1>7, <2>2, LinksStay
  <2>3. CASE f = n /\ e \in Journal
    BY <1>6, <1>7, <2>3, LinksStay
  <2>. QED
    BY <1>1, <1>7, <2>1, <2>2, <2>3
<1>. QED
  BY <1>4, <1>5, <1>7 DEF FillsLinked

LEMMA JournalStays == LedgerSpec => []JournalInvariant
<1>1. LedgerInit => JournalInvariant
  <2>1. SUFFICES ASSUME LedgerInit PROVE JournalInvariant
    OBVIOUS
  <2>2. ledger.accepted = <<>>
    BY <2>1 DEF LedgerInit, EmptyBooks
  <2>3. Journal = {} /\ ledger.accepted \in Seq(Pool)
    BY <2>2 DEF Journal, AcceptedEvents, Range
  <2>. QED
    BY <2>3 DEF JournalInvariant, CorrectionsLinked, FillsLinked
<1>2. JournalInvariant /\ [LedgerNext]_ledgerVars => JournalInvariant'
  <2>1. ASSUME JournalInvariant, UNCHANGED ledger
        PROVE  JournalInvariant'
    BY <2>1 DEF JournalInvariant, Journal, CorrectionsLinked, FillsLinked, AcceptedEvents
  <2>2. ASSUME JournalInvariant, NEW n \in Pool, Post(n)
        PROVE  JournalInvariant'
    <3>1. ledger'.accepted \in Seq(Pool)
      BY <2>2, PostedBooks DEF JournalInvariant
    <3>2. CorrectionsLinked(Journal') /\ FillsLinked(Journal', ledger'.fills)
      BY <2>2, CorrectionsStayLinked, FillsStayLinked
    <3>. QED
      BY <3>1, <3>2 DEF JournalInvariant
  <2>3. ASSUME NEW n \in Pool, Reject(n)
        PROVE  UNCHANGED ledger
    BY <2>3 DEF Reject
  <2>. QED
    BY <2>1, <2>2, <2>3 DEF LedgerNext, ledgerVars
<1>. QED
  BY <1>1, <1>2, PTL DEF LedgerSpec

(* No fill of the market is booked twice by what stands of a journal,      *)
(* however often and in whatever order it was reversed and replaced: the   *)
(* fills on record (_fill_source_failure) only admit a source again for    *)
(* the replacement of the fill that had it, and a reversal is replaced     *)
(* once (_replacement_failure).                                            *)
THEOREM JournalFillsBookedOnce == LedgerSpec => []FillsBookedOnce
<1>1. JournalInvariant => FillsBookedOnce
  <2>1. SUFFICES ASSUME JournalInvariant, NEW e \in Standing, NEW f \in Standing,
                        BooksShares(e), BooksShares(f), FillSource(e) = FillSource(f)
                 PROVE  e = f
    BY DEF FillsBookedOnce, BooksShares
  <2>2. /\ e \in Journal /\ e.type # "REVERSAL" /\ \A r \in Journal : ~Undoes(r, e)
        /\ f \in Journal /\ f.type # "REVERSAL" /\ \A r \in Journal : ~Undoes(r, f)
    BY DEF Standing, ReversalsOf, Undoes, Journal
  <2>3. e = f \/ Replaces(Journal, e, f) \/ Replaces(Journal, f, e)
    BY <2>1, <2>2 DEF JournalInvariant, FillsLinked
  <2>. QED
    BY <2>2, <2>3 DEF Replaces
<1>. QED
  BY <1>1, JournalStays, PTL

-----------------------------------------------------------------------------
(* Sums of whole numbers. *)

Whole(f, D) == \A x \in D : f[x] \in Int

LEMMA SumIsInt ==
    ASSUME NEW D, IsFiniteSet(D), NEW f, Whole(f, D)
    PROVE  SumFunctionOnSet(f, D) \in Int
<1>. DEFINE bad == {s \in SUBSET D : SumFunctionOnSet(f, s) \notin Int}
<1>1. SUFFICES ASSUME bad # {} PROVE FALSE
  OBVIOUS
<1>2. PICK s \in bad : \A t \in bad : ~(t \subseteq s /\ t # s)
  <2>1. bad \in SUBSET SUBSET D
    OBVIOUS
  <2>. HIDE DEF bad
  <2>. QED
    BY <1>1, <2>1, SmallestExists
<1>3. s \in SUBSET D /\ SumFunctionOnSet(f, s) \notin Int /\ IsFiniteSet(s)
  BY FS_Subset
<1>4. s # {} /\ Some(s) \in s /\ SumFunctionOnSet(f, s) = f[Some(s)] + SumFunctionOnSet(f, s \ {Some(s)})
  <2>. HIDE DEF bad
  <2>1. s = {} => SumFunctionOnSet(f, s) = 0
    BY <1>3, SumStep
  <2>2. s # {}
    BY <1>3, <2>1
  <2>. QED
    BY <1>3, <2>2, SumStep
<1>5. SumFunctionOnSet(f, s \ {Some(s)}) \in Int
  <2>1. s \ {Some(s)} \in SUBSET D /\ s \ {Some(s)} \subseteq s /\ s \ {Some(s)} # s
    BY <1>3, <1>4
  <2>. QED
    BY <1>2, <2>1
<1>. QED
  BY <1>3, <1>4, <1>5 DEF Whole

(* Any member may be taken out first. *)
TakesOut(f, s) ==
    \A y \in s : SumFunctionOnSet(f, s) = f[y] + SumFunctionOnSet(f, s \ {y})

LEMMA SumTakesOut ==
    ASSUME NEW D, IsFiniteSet(D), NEW f, Whole(f, D)
    PROVE  TakesOut(f, D)
<1>. DEFINE bad == {s \in SUBSET D : ~TakesOut(f, s)}
<1>1. SUFFICES ASSUME bad # {} PROVE FALSE
  OBVIOUS
<1>2. PICK s \in bad : \A t \in bad : ~(t \subseteq s /\ t # s)
  <2>1. bad \in SUBSET SUBSET D
    OBVIOUS
  <2>. HIDE DEF bad
  <2>. QED
    BY <1>1, <2>1, SmallestExists
<1>3. s \in SUBSET D /\ ~TakesOut(f, s)
  OBVIOUS
<1>4. ASSUME NEW t \in SUBSET s, t # s
      PROVE  TakesOut(f, t)
  BY <1>2, <1>3, <1>4
<1>. HIDE DEF bad
<1>5. ASSUME NEW t \in SUBSET D
      PROVE  IsFiniteSet(t) /\ SumFunctionOnSet(f, t) \in Int /\ Whole(f, t)
  <2>1. IsFiniteSet(t) /\ Whole(f, t)
    BY FS_Subset DEF Whole
  <2>. QED
    BY <2>1, SumIsInt
<1>6. ASSUME NEW y \in s
      PROVE  SumFunctionOnSet(f, s) = f[y] + SumFunctionOnSet(f, s \ {y})
  <2>. DEFINE x == Some(s)
  <2>1. x \in s /\ SumFunctionOnSet(f, s) = f[x] + SumFunctionOnSet(f, s \ {x})
    BY <1>3, <1>5, <1>6, SumStep
  <2>. HIDE DEF x
  <2>2. CASE y = x
    BY <2>1, <2>2
  <2>3. CASE y # x
    <3>1. SumFunctionOnSet(f, s \ {x}) = f[y] + SumFunctionOnSet(f, (s \ {x}) \ {y})
      <4>1. s \ {x} \in SUBSET s /\ s \ {x} # s /\ y \in s \ {x}
        BY <1>6, <2>1, <2>3
      <4>. QED
        BY <1>4, <4>1 DEF TakesOut
    <3>2. SumFunctionOnSet(f, s \ {y}) = f[x] + SumFunctionOnSet(f, (s \ {y}) \ {x})
      <4>1. s \ {y} \in SUBSET s /\ s \ {y} # s /\ x \in s \ {y}
        BY <1>6, <2>1, <2>3
      <4>. QED
        BY <1>4, <4>1 DEF TakesOut
    <3>3. (s \ {x}) \ {y} = (s \ {y}) \ {x}
      OBVIOUS
    <3>4. SumFunctionOnSet(f, (s \ {y}) \ {x}) \in Int /\ f[x] \in Int /\ f[y] \in Int
      <4>1. (s \ {y}) \ {x} \in SUBSET D /\ x \in D /\ y \in D
        BY <1>3, <1>6, <2>1
      <4>. QED
        BY <1>5, <4>1 DEF Whole
    <3>. DEFINE rest == SumFunctionOnSet(f, (s \ {y}) \ {x})
    <3>5. SumFunctionOnSet(f, s \ {x}) = f[y] + rest /\ SumFunctionOnSet(f, s \ {y}) = f[x] + rest
      BY <3>1, <3>2, <3>3
    <3>6. rest \in Int /\ f[x] \in Int /\ f[y] \in Int
      BY <3>4
    <3>. HIDE DEF rest
    <3>. QED
      BY <2>1, <3>5, <3>6
  <2>. QED
    BY <2>2, <2>3
<1>. QED
  BY <1>3, <1>6 DEF TakesOut

LEMMA SumOfZeros ==
    ASSUME NEW D, IsFiniteSet(D), NEW f, \A x \in D : f[x] = 0
    PROVE  SumFunctionOnSet(f, D) = 0
<1>. DEFINE bad == {s \in SUBSET D : SumFunctionOnSet(f, s) # 0}
<1>1. SUFFICES ASSUME bad # {} PROVE FALSE
  OBVIOUS
<1>2. PICK s \in bad : \A t \in bad : ~(t \subseteq s /\ t # s)
  <2>1. bad \in SUBSET SUBSET D
    OBVIOUS
  <2>. HIDE DEF bad
  <2>. QED
    BY <1>1, <2>1, SmallestExists
<1>3. s \in SUBSET D /\ SumFunctionOnSet(f, s) # 0 /\ IsFiniteSet(s)
  BY FS_Subset
<1>4. s # {} /\ Some(s) \in s /\ SumFunctionOnSet(f, s) = f[Some(s)] + SumFunctionOnSet(f, s \ {Some(s)})
  <2>. HIDE DEF bad
  <2>. QED
    BY <1>3, SumStep
<1>5. SumFunctionOnSet(f, s \ {Some(s)}) = 0
  <2>1. s \ {Some(s)} \in SUBSET D /\ s \ {Some(s)} \subseteq s /\ s \ {Some(s)} # s
    BY <1>3, <1>4
  <2>. QED
    BY <1>2, <2>1
<1>. QED
  BY <1>3, <1>4, <1>5

(* Row for row the opposite, the sum is the opposite.                      *)
Image(b, s) == {b[x] : x \in s}
Opposed(f, g, b, s) == SumFunctionOnSet(g, Image(b, s)) = -SumFunctionOnSet(f, s)

LEMMA SumOpposed ==
    ASSUME NEW D, IsFiniteSet(D), NEW f, Whole(f, D), NEW b, NEW g,
           \A x, y \in D : b[x] = b[y] => x = y,
           \A x \in D : g[b[x]] = -f[x]
    PROVE  Opposed(f, g, b, D)
<1>. DEFINE bad == {s \in SUBSET D : ~Opposed(f, g, b, s)}
<1>1. SUFFICES ASSUME bad # {} PROVE FALSE
  OBVIOUS
<1>2. PICK s \in bad : \A t \in bad : ~(t \subseteq s /\ t # s)
  <2>1. bad \in SUBSET SUBSET D
    OBVIOUS
  <2>. HIDE DEF bad
  <2>. QED
    BY <1>1, <2>1, SmallestExists
<1>3. s \in SUBSET D /\ ~Opposed(f, g, b, s)
  OBVIOUS
<1>4. ASSUME NEW t \in SUBSET s, t # s
      PROVE  Opposed(f, g, b, t)
  BY <1>2, <1>3, <1>4
<1>. HIDE DEF bad
<1>5. ASSUME NEW t \in SUBSET D
      PROVE  /\ IsFiniteSet(t) /\ Whole(f, t) /\ SumFunctionOnSet(f, t) \in Int
             /\ IsFiniteSet(Image(b, t)) /\ Whole(g, Image(b, t))
  <2>1. IsFiniteSet(t) /\ Whole(f, t)
    BY FS_Subset DEF Whole
  <2>2. IsFiniteSet(Image(b, t))
    <3>. DEFINE onto == [x \in t |-> b[x]]
    <3>1. onto \in Surjection(t, Image(b, t))
      BY DEF Surjection, Image
    <3>. HIDE DEF onto
    <3>. QED
      BY <2>1, <3>1, FS_Surjection
  <2>3. Whole(g, Image(b, t))
    BY DEF Whole, Image
  <2>. QED
    BY <2>1, <2>2, <2>3, SumIsInt
<1>6. s # {}
  <2>1. CASE s = {}
    <3>1. SumFunctionOnSet(f, s) = 0 /\ Image(b, s) = {} /\ SumFunctionOnSet(g, {}) = 0
      BY <1>3, <1>5, <2>1, SumStep, FS_EmptySet DEF Image
    <3>. QED
      BY <1>3, <3>1 DEF Opposed
  <2>. QED
    BY <2>1
<1>7. PICK x : x \in s
  BY <1>6
<1>. DEFINE rest == s \ {x}
<1>8. SumFunctionOnSet(f, s) = f[x] + SumFunctionOnSet(f, rest)
  BY <1>3, <1>5, <1>7, SumTakesOut DEF TakesOut
<1>9. SumFunctionOnSet(g, Image(b, s)) = g[b[x]] + SumFunctionOnSet(g, Image(b, rest))
  <2>1. b[x] \in Image(b, s) /\ Image(b, s) \ {b[x]} = Image(b, rest)
    BY <1>3, <1>7 DEF Image
  <2>2. TakesOut(g, Image(b, s))
    BY <1>3, <1>5, SumTakesOut
  <2>. QED
    BY <2>1, <2>2 DEF TakesOut
<1>10. rest \in SUBSET s /\ rest # s /\ rest \in SUBSET D
  BY <1>3, <1>7
<1>. HIDE DEF rest
<1>11. Opposed(f, g, b, rest) /\ SumFunctionOnSet(f, rest) \in Int
  BY <1>4, <1>5, <1>10
<1>12. f[x] \in Int /\ g[b[x]] = -f[x]
  BY <1>3, <1>7 DEF Whole
<1>. QED
  BY <1>3, <1>8, <1>9, <1>11, <1>12 DEF Opposed

LEMMA SumIsAny ==
    ASSUME NEW D, IsFiniteSet(D), NEW f, NEW it, IsSum(f, D, it)
    PROVE  SumFunctionOnSet(f, D) = it[D]
<1>. DEFINE sum == CHOOSE a : IsSum(f, D, a)
<1>1. IsSum(f, D, sum)
  BY SumExists
<1>2. SumFunctionOnSet(f, D) = sum[D]
  BY SumIs
<1>. HIDE DEF sum
<1>3. \A s \in SUBSET D : sum[s] = it[s]
  BY <1>1, SumsAgree
<1>. QED
  BY <1>2, <1>3

-----------------------------------------------------------------------------
(* What events add up to. *)

AmountSum(D, it) ==
    it = [s \in SUBSET D |-> IF s = {} THEN 0
                             ELSE (CHOOSE x \in s : TRUE).amount + it[s \ {CHOOSE x \in s : TRUE}]]
QuantitySum(D, it) ==
    it = [s \in SUBSET D |-> IF s = {} THEN 0
                             ELSE (CHOOSE x \in s : TRUE).quantity + it[s \ {CHOOSE x \in s : TRUE}]]
SellableSum(D, it) ==
    it = [s \in SUBSET D |-> IF s = {} THEN 0
                             ELSE (CHOOSE x \in s : TRUE).sellable + it[s \ {CHOOSE x \in s : TRUE}]]
CostSum(D, it) ==
    it = [s \in SUBSET D |-> IF s = {} THEN 0
                             ELSE (CHOOSE x \in s : TRUE).cost + it[s \ {CHOOSE x \in s : TRUE}]]

Quantities(rows) == MapThenSumSet(LAMBDA x : x.quantity, rows)
Sellables(rows) == MapThenSumSet(LAMBDA x : x.sellable, rows)
CostsOf(rows) == MapThenSumSet(LAMBDA x : x.cost, rows)

LEMMA AmountsAre ==
    ASSUME NEW D, IsFiniteSet(D), NEW f, \A x \in D : f[x] = x.amount
    PROVE  Amounts(D) = SumFunctionOnSet(f, D)
<1>. DEFINE sum == CHOOSE it : AmountSum(D, it)
<1>1. Amounts(D) = sum[D]
  BY DEF Amounts, MapThenSumSet, MapThenFoldSet, AmountSum
<1>2. \A it : IsSum(f, D, it) <=> AmountSum(D, it)
  BY DEF IsSum, AmountSum
<1>3. IsSum(f, D, sum)
  BY <1>2, SumExists
<1>. HIDE DEF sum
<1>. QED
  BY <1>1, <1>3, SumIsAny

LEMMA QuantitiesAre ==
    ASSUME NEW D, IsFiniteSet(D), NEW f, \A x \in D : f[x] = x.quantity
    PROVE  Quantities(D) = SumFunctionOnSet(f, D)
<1>. DEFINE sum == CHOOSE it : QuantitySum(D, it)
<1>1. Quantities(D) = sum[D]
  BY DEF Quantities, MapThenSumSet, MapThenFoldSet, QuantitySum
<1>2. \A it : IsSum(f, D, it) <=> QuantitySum(D, it)
  BY DEF IsSum, QuantitySum
<1>3. IsSum(f, D, sum)
  BY <1>2, SumExists
<1>. HIDE DEF sum
<1>. QED
  BY <1>1, <1>3, SumIsAny

LEMMA SellablesAre ==
    ASSUME NEW D, IsFiniteSet(D), NEW f, \A x \in D : f[x] = x.sellable
    PROVE  Sellables(D) = SumFunctionOnSet(f, D)
<1>. DEFINE sum == CHOOSE it : SellableSum(D, it)
<1>1. Sellables(D) = sum[D]
  BY DEF Sellables, MapThenSumSet, MapThenFoldSet, SellableSum
<1>2. \A it : IsSum(f, D, it) <=> SellableSum(D, it)
  BY DEF IsSum, SellableSum
<1>3. IsSum(f, D, sum)
  BY <1>2, SumExists
<1>. HIDE DEF sum
<1>. QED
  BY <1>1, <1>3, SumIsAny

LEMMA CostsAre ==
    ASSUME NEW D, IsFiniteSet(D), NEW f, \A x \in D : f[x] = x.cost
    PROVE  CostsOf(D) = SumFunctionOnSet(f, D)
<1>. DEFINE sum == CHOOSE it : CostSum(D, it)
<1>1. CostsOf(D) = sum[D]
  BY DEF CostsOf, MapThenSumSet, MapThenFoldSet, CostSum
<1>2. \A it : IsSum(f, D, it) <=> CostSum(D, it)
  BY DEF IsSum, CostSum
<1>3. IsSum(f, D, sum)
  BY <1>2, SumExists
<1>. HIDE DEF sum
<1>. QED
  BY <1>1, <1>3, SumIsAny

AmountOn(e, k) == Signed(e, k[1], k[2])
RowsOn(e, l) == {x \in e.effects : x.lot = l}
QuantityOn(e, l) == Quantities(RowsOn(e, l))
SellableOn(e, l) == Sellables(RowsOn(e, l))
CostOn(e, l) == CostsOf(RowsOn(e, l))

LEMMA EventRows ==
    ASSUME NEW e \in Pool
    PROVE  /\ IsFiniteSet(e.postings) /\ IsFiniteSet(e.effects)
           /\ \A p \in e.postings : p = Posting(p.account, p.unit, p.amount) /\ p.amount \in Int
           /\ \A x \in e.effects : x.quantity \in Int /\ x.sellable \in Int /\ x.cost \in Int
BY PoolAssumption DEF HasRows

LEMMA EventSumsAreInts ==
    ASSUME NEW e \in Pool
    PROVE  /\ \A k : AmountOn(e, k) \in Int
           /\ \A l : QuantityOn(e, l) \in Int /\ SellableOn(e, l) \in Int /\ CostOn(e, l) \in Int
<1>1. ASSUME NEW k
      PROVE  AmountOn(e, k) \in Int
  <2>. DEFINE D == {p \in e.postings : p.account = k[1] /\ p.unit = k[2]}
              f == [p \in D |-> p.amount]
  <2>1. IsFiniteSet(D) /\ \A p \in D : f[p] = p.amount /\ f[p] \in Int
    BY EventRows, FS_Subset
  <2>2. AmountOn(e, k) = Amounts(D)
    BY DEF AmountOn, Signed
  <2>. HIDE DEF D, f
  <2>3. Amounts(D) = SumFunctionOnSet(f, D) /\ SumFunctionOnSet(f, D) \in Int
    BY <2>1, AmountsAre, SumIsInt DEF Whole
  <2>. QED
    BY <2>2, <2>3
<1>2. ASSUME NEW l
      PROVE  QuantityOn(e, l) \in Int /\ SellableOn(e, l) \in Int /\ CostOn(e, l) \in Int
  <2>. DEFINE D == RowsOn(e, l)
              f == [x \in D |-> x.quantity]
              g == [x \in D |-> x.sellable]
              h == [x \in D |-> x.cost]
  <2>1. IsFiniteSet(D) /\ \A x \in D : x \in e.effects
    BY EventRows, FS_Subset DEF RowsOn
  <2>2. /\ \A x \in D : f[x] = x.quantity /\ g[x] = x.sellable /\ h[x] = x.cost
        /\ \A x \in D : f[x] \in Int /\ g[x] \in Int /\ h[x] \in Int
    BY <2>1, EventRows
  <2>. HIDE DEF D, f, g, h
  <2>3. Quantities(D) = SumFunctionOnSet(f, D) /\ SumFunctionOnSet(f, D) \in Int
    BY <2>1, <2>2, QuantitiesAre, SumIsInt DEF Whole
  <2>4. Sellables(D) = SumFunctionOnSet(g, D) /\ SumFunctionOnSet(g, D) \in Int
    BY <2>1, <2>2, SellablesAre, SumIsInt DEF Whole
  <2>5. CostsOf(D) = SumFunctionOnSet(h, D) /\ SumFunctionOnSet(h, D) \in Int
    BY <2>1, <2>2, CostsAre, SumIsInt DEF Whole
  <2>. QED
    BY <2>3, <2>4, <2>5 DEF QuantityOn, SellableOn, CostOn, D
<1>. QED
  BY <1>1, <1>2

(* A reversal takes back what its event gave, account by account ...       *)
LEMMA ReversedAmounts ==
    ASSUME NEW o \in Pool, NEW n \in Pool, Inverts(o, n), NEW k
    PROVE  AmountOn(n, k) = -AmountOn(o, k)
<1>. DEFINE D == {p \in o.postings : p.account = k[1] /\ p.unit = k[2]}
            E == {p \in n.postings : p.account = k[1] /\ p.unit = k[2]}
            b == [p \in D |-> [p EXCEPT !.amount = -@]]
            f == [p \in D |-> p.amount]
            g == [p \in E |-> p.amount]
<1>1. ASSUME NEW p \in o.postings
      PROVE  /\ p = Posting(p.account, p.unit, p.amount) /\ p.amount \in Int
             /\ [p EXCEPT !.amount = -@] = Posting(p.account, p.unit, -p.amount)
  BY EventRows DEF Posting
<1>2. IsFiniteSet(D) /\ IsFiniteSet(E)
  BY EventRows, FS_Subset
<1>3. n.postings = {[p EXCEPT !.amount = -@] : p \in o.postings}
  BY DEF Inverts
<1>4. ASSUME NEW p \in D
      PROVE  b[p] = Posting(p.account, p.unit, -p.amount)
  <2>1. p \in o.postings /\ b[p] = [p EXCEPT !.amount = -@]
    BY <1>4
  <2>. HIDE DEF b, D
  <2>. QED
    BY <1>1, <2>1
<1>5. Image(b, D) = E
  <2>1. ASSUME NEW q \in E
        PROVE  q \in Image(b, D)
    <3>1. PICK p \in o.postings : q = [p EXCEPT !.amount = -@]
      BY <1>3, <2>1
    <3>2. q.account = p.account /\ q.unit = p.unit
      BY <1>1, <3>1 DEF Posting
    <3>. QED
      BY <2>1, <3>1, <3>2 DEF Image
  <2>2. ASSUME NEW p \in D
        PROVE  b[p] \in E
    <3>1. b[p] \in n.postings
      BY <1>3, <2>2
    <3>. QED
      BY <1>4, <2>2, <3>1 DEF Posting
  <2>. HIDE DEF D, E, b
  <2>. QED
    BY <2>1, <2>2 DEF Image
<1>6. ASSUME NEW p \in D
      PROVE  f[p] = p.amount /\ f[p] \in Int /\ g[b[p]] = -f[p]
  <2>1. b[p] \in E
    BY <1>5, <1>6 DEF Image
  <2>2. g[b[p]] = b[p].amount
    BY <2>1
  <2>. QED
    BY <1>1, <1>4, <1>6, <2>2 DEF Posting
<1>7. \A p, q \in D : b[p] = b[q] => p = q
  <2>1. SUFFICES ASSUME NEW p \in D, NEW q \in D, b[p] = b[q]
                 PROVE  p = q
    OBVIOUS
  <2>2. p.account = q.account /\ p.unit = q.unit /\ -p.amount = -q.amount
    BY <1>4, <2>1 DEF Posting
  <2>3. p.amount = q.amount
    BY <1>1, <2>1, <2>2
  <2>. QED
    BY <1>1, <2>1, <2>2, <2>3
<1>8. \A p \in E : g[p] = p.amount
  OBVIOUS
<1>9. AmountOn(n, k) = Amounts(E) /\ AmountOn(o, k) = Amounts(D)
  BY DEF AmountOn, Signed
<1>. HIDE DEF D, E, b, f, g
<1>10. Opposed(f, g, b, D)
  BY <1>2, <1>6, <1>7, SumOpposed DEF Whole
<1>11. Amounts(D) = SumFunctionOnSet(f, D) /\ Amounts(E) = SumFunctionOnSet(g, E)
  BY <1>2, <1>6, <1>8, AmountsAre
<1>. QED
  BY <1>5, <1>9, <1>10, <1>11 DEF Opposed

(* ... and lot by lot.                                                     *)
LEMMA ReversedRows ==
    ASSUME NEW o \in Pool, NEW n \in Pool, Inverts(o, n), NEW l
    PROVE  /\ QuantityOn(n, l) = -QuantityOn(o, l)
           /\ SellableOn(n, l) = -SellableOn(o, l)
           /\ CostOn(n, l) = -CostOn(o, l)
<1>1. PICK b \in Bijection(o.effects, n.effects) :
          \A x \in o.effects : Undone(x) = <<b[x].lot, b[x].quantity, b[x].sellable, b[x].cost>>
  BY DEF Inverts
<1>2. /\ \A x \in o.effects : b[x] \in n.effects
      /\ \A x, y \in o.effects : b[x] = b[y] => x = y
      /\ \A y \in n.effects : \E x \in o.effects : b[x] = y
  BY DEF Bijection, Injection, Surjection, IsInjective
<1>3. \A x \in o.effects : /\ b[x].lot = x.lot /\ b[x].quantity = -x.quantity
                           /\ b[x].sellable = -x.sellable /\ b[x].cost = -x.cost
  BY <1>1 DEF Undone
<1>. DEFINE D == RowsOn(o, l)
            E == RowsOn(n, l)
<1>4. /\ IsFiniteSet(D) /\ IsFiniteSet(E)
      /\ \A x \in D : x \in o.effects /\ x.quantity \in Int /\ x.sellable \in Int /\ x.cost \in Int
  BY EventRows, FS_Subset DEF RowsOn
<1>5. Image(b, D) = E
  <2>1. ASSUME NEW y \in E
        PROVE  y \in Image(b, D)
    <3>1. y \in n.effects /\ y.lot = l
      BY DEF RowsOn
    <3>2. PICK x \in o.effects : b[x] = y
      BY <1>2, <3>1
    <3>3. x \in D
      BY <1>3, <3>1, <3>2 DEF RowsOn
    <3>. QED
      BY <3>2, <3>3 DEF Image
  <2>2. ASSUME NEW x \in D
        PROVE  b[x] \in E
    BY <1>2, <1>3, <2>2 DEF RowsOn
  <2>. QED
    BY <2>1, <2>2 DEF Image
<1>6. \A x \in D : b[x] \in E
  BY <1>5 DEF Image
<1>7. \A x, y \in D : b[x] = b[y] => x = y
  BY <1>2, <1>4
<1>8. QuantityOn(n, l) = -QuantityOn(o, l)
  <2>. DEFINE f == [x \in D |-> x.quantity]
              g == [x \in E |-> x.quantity]
  <2>1. \A x \in D : f[x] = x.quantity /\ f[x] \in Int /\ g[b[x]] = -f[x]
    BY <1>3, <1>4, <1>6
  <2>2. \A x \in E : g[x] = x.quantity
    OBVIOUS
  <2>3. QuantityOn(n, l) = Quantities(E) /\ QuantityOn(o, l) = Quantities(D)
    BY DEF QuantityOn
  <2>. HIDE DEF D, E, f, g
  <2>4. Opposed(f, g, b, D)
    BY <1>4, <1>7, <2>1, SumOpposed DEF Whole
  <2>5. Quantities(D) = SumFunctionOnSet(f, D) /\ Quantities(E) = SumFunctionOnSet(g, E)
    BY <1>4, <2>1, <2>2, QuantitiesAre
  <2>. QED
    BY <1>5, <2>3, <2>4, <2>5 DEF Opposed
<1>9. SellableOn(n, l) = -SellableOn(o, l)
  <2>. DEFINE f == [x \in D |-> x.sellable]
              g == [x \in E |-> x.sellable]
  <2>1. \A x \in D : f[x] = x.sellable /\ f[x] \in Int /\ g[b[x]] = -f[x]
    BY <1>3, <1>4, <1>6
  <2>2. \A x \in E : g[x] = x.sellable
    OBVIOUS
  <2>3. SellableOn(n, l) = Sellables(E) /\ SellableOn(o, l) = Sellables(D)
    BY DEF SellableOn
  <2>. HIDE DEF D, E, f, g
  <2>4. Opposed(f, g, b, D)
    BY <1>4, <1>7, <2>1, SumOpposed DEF Whole
  <2>5. Sellables(D) = SumFunctionOnSet(f, D) /\ Sellables(E) = SumFunctionOnSet(g, E)
    BY <1>4, <2>1, <2>2, SellablesAre
  <2>. QED
    BY <1>5, <2>3, <2>4, <2>5 DEF Opposed
<1>10. CostOn(n, l) = -CostOn(o, l)
  <2>. DEFINE f == [x \in D |-> x.cost]
              g == [x \in E |-> x.cost]
  <2>1. \A x \in D : f[x] = x.cost /\ f[x] \in Int /\ g[b[x]] = -f[x]
    BY <1>3, <1>4, <1>6
  <2>2. \A x \in E : g[x] = x.cost
    OBVIOUS
  <2>3. CostOn(n, l) = CostsOf(E) /\ CostOn(o, l) = CostsOf(D)
    BY DEF CostOn
  <2>. HIDE DEF D, E, f, g
  <2>4. Opposed(f, g, b, D)
    BY <1>4, <1>7, <2>1, SumOpposed DEF Whole
  <2>5. CostsOf(D) = SumFunctionOnSet(f, D) /\ CostsOf(E) = SumFunctionOnSet(g, E)
    BY <1>4, <2>1, <2>2, CostsAre
  <2>. QED
    BY <1>5, <2>3, <2>4, <2>5 DEF Opposed
<1>. QED
  BY <1>8, <1>9, <1>10

-----------------------------------------------------------------------------
(* What stands of a journal. *)

StandsIn(book) == {e \in book : e.type # "REVERSAL" /\ \A r \in book : ~Undoes(r, e)}

LEMMA StandingIs == Standing = StandsIn(Journal) /\ Standing' = StandsIn(Journal')
BY DEF Standing, StandsIn, ReversalsOf, Undoes, Journal

(* An event stands from its posting to its reversal.                       *)
LEMMA StandingMoves ==
    ASSUME JournalInvariant, NEW n \in Pool, Post(n)
    PROVE  \/ n \notin Standing /\ Standing' = Standing \cup {n}
           \/ \E o \in Standing : Inverts(o, n) /\ Standing' = Standing \ {o}
<1>1. /\ Journal' = Journal \cup {n} /\ n \notin Journal /\ \A e, f \in Journal' : e.id = f.id => e = f
      /\ CorrectionsLinked(Journal) /\ Postable(ledger, n)
  BY PostedBooks DEF JournalInvariant, Post
<1>2. CASE n.type # "REVERSAL"
  <2>1. \A r \in Journal' : ~Undoes(r, n)
    <3>1. SUFFICES ASSUME NEW r \in Journal', Undoes(r, n)
                   PROVE  FALSE
      OBVIOUS
    <3>2. r \in Journal
      BY <1>1, <1>2, <3>1 DEF Undoes
    <3>3. PICK o \in Journal : Undoes(r, o)
      BY <1>1, <3>1, <3>2 DEF CorrectionsLinked, Undoes
    <3>. QED
      BY <1>1, <3>1, <3>3 DEF Undoes
  <2>2. \A e \in Journal : ~Undoes(n, e)
    BY <1>2 DEF Undoes
  <2>3. StandsIn(Journal') = StandsIn(Journal) \cup {n}
    BY <1>1, <1>2, <2>1, <2>2 DEF StandsIn
  <2>. QED
    BY <1>1, <2>3, StandingIs DEF StandsIn
<1>3. CASE n.type = "REVERSAL"
  <2>1. PICK o \in Reversible(ledger, n) : TRUE
    BY <1>1, <1>3 DEF Postable, Meanings
  <2>2. /\ o \in Journal /\ Undoes(n, o) /\ o.type # "REVERSAL" /\ Inverts(o, n)
        /\ \A r \in Journal : ~Undoes(r, o)
    BY <1>3, <2>1 DEF Reversible, EventNamed, ReversalsOf, Undoes, Journal
  <2>3. \A e \in Journal : Undoes(n, e) <=> e = o
    BY <1>1, <2>2 DEF Undoes
  <2>4. StandsIn(Journal') = StandsIn(Journal) \ {o} /\ o \in StandsIn(Journal)
    BY <1>1, <1>3, <2>2, <2>3 DEF StandsIn
  <2>. QED
    BY <2>2, <2>4, StandingIs
<1>. QED
  BY <1>2, <1>3

LEMMA StandingIsFinite ==
    ASSUME ledger.accepted \in Seq(Pool)
    PROVE  IsFiniteSet(Standing) /\ Standing \subseteq Journal /\ Journal \subseteq Pool
<1>. DEFINE s == ledger.accepted
<1>1. /\ Len(s) \in Nat /\ DOMAIN s = 1..Len(s) /\ s = [i \in 1..Len(s) |-> s[i]]
      /\ \A i \in 1..Len(s) : s[i] \in Pool
  OBVIOUS
<1>. HIDE DEF s
<1>2. Journal = Range(s)
  BY DEF Journal, AcceptedEvents, s
<1>3. s \in Surjection(1..Len(s), Range(s))
  BY <1>1 DEF Surjection, Range
<1>4. IsFiniteSet(1..Len(s))
  <2>1. Len(s) \in Int
    BY <1>1
  <2>. QED
    BY <2>1, FS_Interval
<1>5. IsFiniteSet(Journal)
  BY <1>2, <1>3, <1>4, FS_Surjection
<1>6. Journal \subseteq Pool
  BY <1>1, <1>2 DEF Range
<1>7. Standing \subseteq Journal
  BY DEF Standing
<1>. QED
  BY <1>5, <1>6, <1>7, FS_Subset

LEMMA StandingStaysFinite ==
    ASSUME JournalInvariant, NEW n \in Pool, Post(n)
    PROVE  /\ IsFiniteSet(Standing) /\ Standing \subseteq Pool
           /\ IsFiniteSet(Standing') /\ Standing' \subseteq Pool
<1>1. IsFiniteSet(Standing) /\ Standing \subseteq Pool
  BY StandingIsFinite DEF JournalInvariant
<1>2. IsFiniteSet(Standing \cup {n}) /\ \A o \in Standing : IsFiniteSet(Standing \ {o})
  BY <1>1, FS_AddElement, FS_Subset
<1>. QED
  BY <1>1, <1>2, StandingMoves

(* What the standing events add up to changes by what is posted.           *)
LEMMA SumPosted ==
    ASSUME JournalInvariant, NEW n \in Pool, Post(n), NEW w, Whole(w, Pool),
           \A o \in Pool : Inverts(o, n) => w[n] = -w[o]
    PROVE  /\ SumFunctionOnSet(w, Standing') = SumFunctionOnSet(w, Standing) + w[n]
           /\ SumFunctionOnSet(w, Standing) \in Int
<1>1. IsFiniteSet(Standing) /\ Standing \subseteq Pool
  BY StandingIsFinite DEF JournalInvariant
<1>2. Whole(w, Standing) /\ SumFunctionOnSet(w, Standing) \in Int /\ w[n] \in Int
  BY <1>1, SumIsInt DEF Whole
<1>3. CASE n \notin Standing /\ Standing' = Standing \cup {n}
  <2>1. IsFiniteSet(Standing') /\ Whole(w, Standing') /\ n \in Standing' /\ Standing' \ {n} = Standing
    BY <1>1, <1>3, FS_AddElement DEF Whole
  <2>2. SumFunctionOnSet(w, Standing') = w[n] + SumFunctionOnSet(w, Standing)
    BY <2>1, SumTakesOut DEF TakesOut
  <2>. QED
    BY <1>2, <2>2
<1>4. CASE \E o \in Standing : Inverts(o, n) /\ Standing' = Standing \ {o}
  <2>1. PICK o \in Standing : Inverts(o, n) /\ Standing' = Standing \ {o}
    BY <1>4
  <2>2. w[n] = -w[o] /\ w[o] \in Int
    BY <1>1, <2>1 DEF Whole
  <2>3. SumFunctionOnSet(w, Standing) = w[o] + SumFunctionOnSet(w, Standing')
    BY <1>1, <1>2, <2>1, SumTakesOut DEF TakesOut
  <2>4. SumFunctionOnSet(w, Standing') \in Int
    <3>1. IsFiniteSet(Standing') /\ Whole(w, Standing')
      BY <1>1, <1>2, <2>1, FS_Subset DEF Whole
    <3>. QED
      BY <3>1, SumIsInt
  <2>. QED
    BY <1>2, <2>2, <2>3, <2>4
<1>. QED
  BY <1>3, <1>4, StandingMoves

BalanceOf(E, k) == MapThenSumSet(LAMBDA e : Signed(e, k[1], k[2]), E)
QuantityOf(E, l) == MapThenSumSet(LAMBDA e : MapThenSumSet(LAMBDA x : x.quantity, {x \in e.effects : x.lot = l}), E)
SellablePart(E, l) == MapThenSumSet(LAMBDA e : MapThenSumSet(LAMBDA x : x.sellable, {x \in e.effects : x.lot = l}), E)
CostOf(E, l) == MapThenSumSet(LAMBDA e : MapThenSumSet(LAMBDA x : x.cost, {x \in e.effects : x.lot = l}), E)

BalanceSum(E, it, k) ==
    it = [s \in SUBSET E |-> IF s = {} THEN 0
                             ELSE Signed(CHOOSE x \in s : TRUE, k[1], k[2]) + it[s \ {CHOOSE x \in s : TRUE}]]
QuantityOfSum(E, it, l) ==
    it = [s \in SUBSET E |-> IF s = {} THEN 0
             ELSE MapThenSumSet(LAMBDA x : x.quantity, {x \in (CHOOSE y \in s : TRUE).effects : x.lot = l})
                    + it[s \ {CHOOSE x \in s : TRUE}]]

SellablePartSum(E, it, l) ==
    it = [s \in SUBSET E |-> IF s = {} THEN 0
             ELSE MapThenSumSet(LAMBDA x : x.sellable, {x \in (CHOOSE y \in s : TRUE).effects : x.lot = l})
                    + it[s \ {CHOOSE x \in s : TRUE}]]

CostOfSum(E, it, l) ==
    it = [s \in SUBSET E |-> IF s = {} THEN 0
             ELSE MapThenSumSet(LAMBDA x : x.cost, {x \in (CHOOSE y \in s : TRUE).effects : x.lot = l})
                    + it[s \ {CHOOSE x \in s : TRUE}]]

LEMMA BalanceIs ==
    ASSUME NEW E, IsFiniteSet(E), NEW k, NEW w, \A e \in E : w[e] = AmountOn(e, k)
    PROVE  BalanceOf(E, k) = SumFunctionOnSet(w, E)
<1>. DEFINE sum == CHOOSE it : BalanceSum(E, it, k)
<1>1. BalanceOf(E, k) = sum[E]
  BY DEF BalanceOf, MapThenSumSet, MapThenFoldSet, BalanceSum
<1>2. \A it : IsSum(w, E, it) <=> BalanceSum(E, it, k)
  BY DEF IsSum, BalanceSum, AmountOn
<1>3. IsSum(w, E, sum)
  BY <1>2, SumExists
<1>. HIDE DEF sum
<1>. QED
  BY <1>1, <1>3, SumIsAny

LEMMA QuantityIs ==
    ASSUME NEW E, IsFiniteSet(E), NEW l, NEW w, \A e \in E : w[e] = QuantityOn(e, l)
    PROVE  QuantityOf(E, l) = SumFunctionOnSet(w, E)
<1>. DEFINE sum == CHOOSE it : QuantityOfSum(E, it, l)
<1>1. QuantityOf(E, l) = sum[E]
  BY DEF QuantityOf, MapThenSumSet, MapThenFoldSet, QuantityOfSum
<1>2. \A it : IsSum(w, E, it) <=> QuantityOfSum(E, it, l)
  BY DEF IsSum, QuantityOfSum, QuantityOn, Quantities, RowsOn
<1>3. IsSum(w, E, sum)
  BY <1>2, SumExists
<1>. HIDE DEF sum
<1>. QED
  BY <1>1, <1>3, SumIsAny

LEMMA SellablePartIs ==
    ASSUME NEW E, IsFiniteSet(E), NEW l, NEW w, \A e \in E : w[e] = SellableOn(e, l)
    PROVE  SellablePart(E, l) = SumFunctionOnSet(w, E)
<1>. DEFINE sum == CHOOSE it : SellablePartSum(E, it, l)
<1>1. SellablePart(E, l) = sum[E]
  BY DEF SellablePart, MapThenSumSet, MapThenFoldSet, SellablePartSum
<1>2. \A it : IsSum(w, E, it) <=> SellablePartSum(E, it, l)
  BY DEF IsSum, SellablePartSum, SellableOn, Sellables, RowsOn
<1>3. IsSum(w, E, sum)
  BY <1>2, SumExists
<1>. HIDE DEF sum
<1>. QED
  BY <1>1, <1>3, SumIsAny

LEMMA LotCostIs ==
    ASSUME NEW E, IsFiniteSet(E), NEW l, NEW w, \A e \in E : w[e] = CostOn(e, l)
    PROVE  CostOf(E, l) = SumFunctionOnSet(w, E)
<1>. DEFINE sum == CHOOSE it : CostOfSum(E, it, l)
<1>1. CostOf(E, l) = sum[E]
  BY DEF CostOf, MapThenSumSet, MapThenFoldSet, CostOfSum
<1>2. \A it : IsSum(w, E, it) <=> CostOfSum(E, it, l)
  BY DEF IsSum, CostOfSum, CostOn, CostsOf, RowsOn
<1>3. IsSum(w, E, sum)
  BY <1>2, SumExists
<1>. HIDE DEF sum
<1>. QED
  BY <1>1, <1>3, SumIsAny

LotFields == {"remaining", "sellable", "cost"}

(* Every lot that an event of the journal names is in the books.           *)
LotsKnown ==
    /\ \A e \in Journal : \A x \in e.effects : x.lot \in LotIds(ledger)
    /\ \A l \in LotIds(ledger) : LotFields \subseteq DOMAIN ledger.lots[l]

LEMMA LotsPosted ==
    ASSUME LotsKnown, NEW n, Post(n)
    PROVE  /\ LotIds(ledger') = LotIds(ledger) \cup {x.lot : x \in n.effects}
           /\ \A l \in LotIds(ledger') :
                /\ LotFields \subseteq DOMAIN ledger'.lots[l]
                /\ l \in LotIds(ledger) =>
                     /\ ledger'.lots[l].remaining = ledger.lots[l].remaining + QuantityOn(n, l)
                     /\ ledger'.lots[l].sellable = ledger.lots[l].sellable + SellableOn(n, l)
                     /\ ledger'.lots[l].cost = ledger.lots[l].cost + CostOn(n, l)
                /\ l \notin LotIds(ledger) =>
                     /\ ledger'.lots[l].remaining = 0 + QuantityOn(n, l)
                     /\ ledger'.lots[l].sellable = 0 + SellableOn(n, l)
                     /\ ledger'.lots[l].cost = 0 + CostOn(n, l)
<1>. DEFINE lots == LotsWith(ledger, n)
            grown == [l \in DOMAIN lots |->
                        [lots[l] EXCEPT !.remaining = @ + QuantityOn(n, l), !.sellable = @ + SellableOn(n, l),
                                        !.cost = @ + CostOn(n, l)]]
            posted == Posted(ledger, n)
<1>1. posted.lots = grown /\ DOMAIN posted = {"balance", "lots", "accepted", "fills"}
  BY DEF Posted, QuantityOn, SellableOn, CostOn, Quantities, Sellables, CostsOf, RowsOn
<1>2. ledger'.lots = grown
  <2>1. ledger' = [posted EXCEPT !.fills = FillsAfter(ledger, n, (CHOOSE x \in Meanings(ledger, n) : TRUE).type)]
    BY DEF Post, BooksAfter
  <2>. HIDE DEF posted, grown
  <2>. QED
    BY <1>1, <2>1
<1>3. DOMAIN lots = LotIds(ledger) \cup {x.lot : x \in n.effects}
  BY DEF LotsWith
<1>4. ASSUME NEW l \in DOMAIN lots
      PROVE  /\ LotFields \subseteq DOMAIN lots[l]
             /\ l \in LotIds(ledger) => lots[l] = ledger.lots[l]
             /\ l \notin LotIds(ledger) =>
                  lots[l].remaining = 0 /\ lots[l].sellable = 0 /\ lots[l].cost = 0
  BY <1>3, <1>4 DEF LotsWith, NewLot, LotsKnown, LotFields
<1>. HIDE DEF lots
<1>5. DOMAIN grown = DOMAIN lots
  OBVIOUS
<1>6. ASSUME NEW l \in DOMAIN lots
      PROVE  /\ LotFields \subseteq DOMAIN grown[l]
             /\ grown[l].remaining = lots[l].remaining + QuantityOn(n, l)
             /\ grown[l].sellable = lots[l].sellable + SellableOn(n, l)
             /\ grown[l].cost = lots[l].cost + CostOn(n, l)
  BY <1>4, <1>6 DEF LotFields
<1>. HIDE DEF grown
<1>. QED
  BY <1>2, <1>3, <1>4, <1>5, <1>6 DEF LotIds

Traces ==
    /\ \A k \in Keys : ledger.balance[k] = BalanceOf(Standing, k)
    /\ \A l \in LotIds(ledger) :
         /\ ledger.lots[l].remaining = QuantityOf(Standing, l)
         /\ ledger.lots[l].sellable = SellablePart(Standing, l)
         /\ ledger.lots[l].cost = CostOf(Standing, l)

LEMMA TracesAre == Traces => CorrectionsLeaveNoTrace
BY DEF Traces, CorrectionsLeaveNoTrace, StandingSum, BalanceOf, QuantityOf, SellablePart, CostOf

(* No event that stands knows a lot that is not in the books.              *)
LEMMA UnknownLotIsEmpty ==
    ASSUME JournalInvariant, LotsKnown, NEW l, l \notin LotIds(ledger), NEW e \in Standing
    PROVE  QuantityOn(e, l) = 0 /\ SellableOn(e, l) = 0 /\ CostOn(e, l) = 0
<1>1. RowsOn(e, l) = {}
  BY StandingIsFinite DEF LotsKnown, RowsOn, JournalInvariant
<1>2. IsFiniteSet({})
  BY FS_EmptySet
<1>. DEFINE f == [x \in {} |-> 0]
<1>3. SumFunctionOnSet(f, {}) = 0
  BY <1>2, SumOfZeros
<1>4. \A x \in {} : f[x] = x.quantity /\ f[x] = x.sellable /\ f[x] = x.cost
  OBVIOUS
<1>. HIDE DEF f
<1>5. Quantities({}) = 0 /\ Sellables({}) = 0 /\ CostsOf({}) = 0
  BY <1>2, <1>3, <1>4, QuantitiesAre, SellablesAre, CostsAre
<1>. QED
  BY <1>1, <1>5 DEF QuantityOn, SellableOn, CostOn

LEMMA BalancesTrace ==
    ASSUME JournalInvariant, Traces, NEW n \in Pool, Post(n), NEW k \in Keys
    PROVE  ledger'.balance[k] = BalanceOf(Standing', k)
<1>. DEFINE w == [e \in Pool |-> AmountOn(e, k)]
            posted == Posted(ledger, n)
<1>1. /\ IsFiniteSet(Standing) /\ Standing \subseteq Pool
      /\ IsFiniteSet(Standing') /\ Standing' \subseteq Pool
  BY StandingStaysFinite
<1>2. /\ Whole(w, Pool) /\ \A e \in Pool : w[e] = AmountOn(e, k)
      /\ \A o \in Pool : Inverts(o, n) => w[n] = -w[o]
  BY EventSumsAreInts, ReversedAmounts DEF Whole
<1>3. ledger'.balance[k] = ledger.balance[k] + AmountOn(n, k)
  <2>1. posted.balance[k] = ledger.balance[k] + AmountOn(n, k) /\ DOMAIN posted = {"balance", "lots", "accepted", "fills"}
    BY DEF Posted, AmountOn
  <2>2. ledger' = [posted EXCEPT !.fills = FillsAfter(ledger, n, (CHOOSE x \in Meanings(ledger, n) : TRUE).type)]
    BY DEF Post, BooksAfter
  <2>. HIDE DEF posted
  <2>. QED
    BY <2>1, <2>2
<1>. HIDE DEF w, posted
<1>4. SumFunctionOnSet(w, Standing') = SumFunctionOnSet(w, Standing) + w[n]
  BY <1>2, SumPosted
<1>5. BalanceOf(Standing, k) = SumFunctionOnSet(w, Standing) /\ BalanceOf(Standing', k) = SumFunctionOnSet(w, Standing')
  BY <1>1, <1>2, BalanceIs
<1>. QED
  BY <1>2, <1>3, <1>4, <1>5 DEF Traces

LEMMA LotsTrace ==
    ASSUME JournalInvariant, LotsKnown, Traces, NEW n \in Pool, Post(n), NEW l \in LotIds(ledger')
    PROVE  /\ ledger'.lots[l].remaining = QuantityOf(Standing', l)
           /\ ledger'.lots[l].sellable = SellablePart(Standing', l)
           /\ ledger'.lots[l].cost = CostOf(Standing', l)
<1>1. /\ IsFiniteSet(Standing) /\ Standing \subseteq Pool
      /\ IsFiniteSet(Standing') /\ Standing' \subseteq Pool
  BY StandingStaysFinite
<1>2. ledger'.lots[l].remaining = QuantityOf(Standing', l)
  <2>. DEFINE w == [e \in Pool |-> QuantityOn(e, l)]
  <2>1. /\ Whole(w, Pool) /\ \A e \in Pool : w[e] = QuantityOn(e, l)
        /\ \A o \in Pool : Inverts(o, n) => w[n] = -w[o]
    BY EventSumsAreInts, ReversedRows DEF Whole
  <2>. HIDE DEF w
  <2>2. SumFunctionOnSet(w, Standing') = SumFunctionOnSet(w, Standing) + w[n]
    BY <2>1, SumPosted
  <2>3. /\ QuantityOf(Standing, l) = SumFunctionOnSet(w, Standing)
        /\ QuantityOf(Standing', l) = SumFunctionOnSet(w, Standing')
    BY <1>1, <2>1, QuantityIs
  <2>4. CASE l \in LotIds(ledger)
    BY <2>1, <2>2, <2>3, <2>4, LotsPosted DEF Traces
  <2>5. CASE l \notin LotIds(ledger)
    <3>1. \A e \in Standing : w[e] = 0
      BY <1>1, <2>1, <2>5, UnknownLotIsEmpty
    <3>2. SumFunctionOnSet(w, Standing) = 0
      BY <1>1, <3>1, SumOfZeros
    <3>. QED
      BY <2>1, <2>2, <2>3, <2>5, <3>2, LotsPosted
  <2>. QED
    BY <2>4, <2>5
<1>3. ledger'.lots[l].sellable = SellablePart(Standing', l)
  <2>. DEFINE w == [e \in Pool |-> SellableOn(e, l)]
  <2>1. /\ Whole(w, Pool) /\ \A e \in Pool : w[e] = SellableOn(e, l)
        /\ \A o \in Pool : Inverts(o, n) => w[n] = -w[o]
    BY EventSumsAreInts, ReversedRows DEF Whole
  <2>. HIDE DEF w
  <2>2. SumFunctionOnSet(w, Standing') = SumFunctionOnSet(w, Standing) + w[n]
    BY <2>1, SumPosted
  <2>3. /\ SellablePart(Standing, l) = SumFunctionOnSet(w, Standing)
        /\ SellablePart(Standing', l) = SumFunctionOnSet(w, Standing')
    BY <1>1, <2>1, SellablePartIs
  <2>4. CASE l \in LotIds(ledger)
    BY <2>1, <2>2, <2>3, <2>4, LotsPosted DEF Traces
  <2>5. CASE l \notin LotIds(ledger)
    <3>1. \A e \in Standing : w[e] = 0
      BY <1>1, <2>1, <2>5, UnknownLotIsEmpty
    <3>2. SumFunctionOnSet(w, Standing) = 0
      BY <1>1, <3>1, SumOfZeros
    <3>. QED
      BY <2>1, <2>2, <2>3, <2>5, <3>2, LotsPosted
  <2>. QED
    BY <2>4, <2>5
<1>4. ledger'.lots[l].cost = CostOf(Standing', l)
  <2>. DEFINE w == [e \in Pool |-> CostOn(e, l)]
  <2>1. /\ Whole(w, Pool) /\ \A e \in Pool : w[e] = CostOn(e, l)
        /\ \A o \in Pool : Inverts(o, n) => w[n] = -w[o]
    BY EventSumsAreInts, ReversedRows DEF Whole
  <2>. HIDE DEF w
  <2>2. SumFunctionOnSet(w, Standing') = SumFunctionOnSet(w, Standing) + w[n]
    BY <2>1, SumPosted
  <2>3. /\ CostOf(Standing, l) = SumFunctionOnSet(w, Standing)
        /\ CostOf(Standing', l) = SumFunctionOnSet(w, Standing')
    BY <1>1, <2>1, LotCostIs
  <2>4. CASE l \in LotIds(ledger)
    BY <2>1, <2>2, <2>3, <2>4, LotsPosted DEF Traces
  <2>5. CASE l \notin LotIds(ledger)
    <3>1. \A e \in Standing : w[e] = 0
      BY <1>1, <2>1, <2>5, UnknownLotIsEmpty
    <3>2. SumFunctionOnSet(w, Standing) = 0
      BY <1>1, <3>1, SumOfZeros
    <3>. QED
      BY <2>1, <2>2, <2>3, <2>5, <3>2, LotsPosted
  <2>. QED
    BY <2>4, <2>5
<1>. QED
  BY <1>2, <1>3, <1>4

(* A reversal and a replacement leave the books as if the replacement had  *)
(* been posted in the first place: whatever was corrected in whatever      *)
(* order, every balance and every lot of the replay is the sum of what its *)
(* standing events post, since _inverse_matches lets a reversal through    *)
(* only if it takes back its event row for row.                            *)
THEOREM JournalCorrectionsLeaveNoTrace == LedgerSpec => []CorrectionsLeaveNoTrace
<1>. DEFINE Inv == LotsKnown /\ Traces
<1>1. LedgerInit => Inv
  <2>1. SUFFICES ASSUME LedgerInit PROVE Inv
    OBVIOUS
  <2>2. /\ ledger.accepted = <<>> /\ \A k \in Keys : ledger.balance[k] = 0
        /\ LotIds(ledger) = {}
    BY <2>1 DEF LedgerInit, EmptyBooks, NoLots, LotIds
  <2>3. Journal = {} /\ Standing = {}
    BY <2>2 DEF Journal, AcceptedEvents, Range, Standing
  <2>4. ASSUME NEW k \in Keys
        PROVE  BalanceOf({}, k) = 0
    <3>. DEFINE w == [e \in {} |-> 0]
    <3>1. SumFunctionOnSet(w, {}) = 0 /\ IsFiniteSet({})
      BY FS_EmptySet, SumOfZeros
    <3>. QED
      BY <3>1, BalanceIs
  <2>. QED
    BY <2>2, <2>3, <2>4 DEF LotsKnown, Traces
<1>2. JournalInvariant /\ Inv /\ [LedgerNext]_ledgerVars => Inv'
  <2>1. ASSUME JournalInvariant, Inv, UNCHANGED ledger
        PROVE  Inv'
    <3>1. Journal' = Journal /\ Standing' = Standing
      BY <2>1 DEF Journal, AcceptedEvents, Standing, ReversalsOf
    <3>. QED
      BY <2>1, <3>1 DEF LotsKnown, Traces, LotIds
  <2>2. ASSUME JournalInvariant, Inv, NEW n \in Pool, Post(n)
        PROVE  Inv'
    <3>1. Journal' = Journal \cup {n}
      BY <2>2, PostedBooks DEF JournalInvariant
    <3>2. LotsKnown'
      BY <2>2, <3>1, LotsPosted DEF LotsKnown
    <3>3. Traces'
      BY <2>2, BalancesTrace, LotsTrace DEF Traces
    <3>. QED
      BY <3>2, <3>3
  <2>3. ASSUME NEW n \in Pool, Reject(n)
        PROVE  UNCHANGED ledger
    BY <2>3 DEF Reject
  <2>. QED
    BY <2>1, <2>2, <2>3 DEF LedgerNext, ledgerVars
<1>. QED
  BY <1>1, <1>2, JournalStays, TracesAre, PTL DEF LedgerSpec
==============================================================================
