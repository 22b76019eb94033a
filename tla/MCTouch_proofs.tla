---------------------------- MODULE MCTouch_proofs ----------------------------
(***************************************************************************)
(* Proofs about the touch daemon, for every number of slots, every width,  *)
(* every TRACK_MAX_DIST, all thresholds and every stream of records.       *)
(* First the tracker by itself: readers, tracker and fingers agree after   *)
(* every frame, what readers see refines MtProtocol, and contacts are      *)
(* steady.  Then the daemon as a whole: the steps of a part leave the      *)
(* others alone, so that what is shown of the tracker holds here too; and  *)
(* the reference and the stream.                                           *)
(***************************************************************************)
EXTENDS MCTouch, FiniteSetTheorems, FunctionTheorems, SequenceTheorems, TLAPS

-----------------------------------------------------------------------------
(* Numbers.                                                                *)

\* The induction of this module: a set of naturals has a least element.
LEMMA Least ==
    ASSUME NEW T \in SUBSET Nat, T # {}
    PROVE  \E n \in T : \A k \in T : n <= k
<1>1. PICK n \in T : \A k \in T : <<k, n>> \notin OpToRel(<, Nat)
    BY WFMin, NatLessThanWellFounded, Zenon
<1>2. \A k \in T : ~ (k < n)
    BY <1>1, Zenon DEF OpToRel
<1>3. QED
    BY <1>2

\* Numbers less than IdMod apart are different tracking IDs.
LEMMA ModApart ==
    ASSUME NEW M \in Nat \ {0}, NEW a \in Nat, NEW b \in Nat, a < b, b - a < M
    PROVE  a % M # b % M
<1>1. a = M * (a \div M) + (a % M) /\ b = M * (b \div M) + (b % M)
    OBVIOUS
<1>2. a \div M \in Nat /\ b \div M \in Nat
    OBVIOUS
<1>3. SUFFICES ASSUME a % M = b % M PROVE FALSE
    OBVIOUS
<1>4. b - a = M * (b \div M - a \div M)
    BY <1>1, <1>2, <1>3
<1>5. b \div M - a \div M >= 1
    BY <1>2, <1>4
<1>6. QED
    BY <1>2, <1>4, <1>5

-----------------------------------------------------------------------------
(* Ranks in finite sets of numbers.                                        *)

\* A larger element has a larger rank, and every rank is below the size.
LEMMA RankOrder ==
    ASSUME NEW S \in SUBSET Nat, IsFiniteSet(S), NEW x \in S
    PROVE  /\ Rank(x, S) \in 0 .. (Cardinality(S) - 1)
           /\ \A y \in S : x < y => Rank(x, S) < Rank(y, S)
<1> DEFINE below(z) == {w \in S : w < z}
<1>1. \A z \in S : IsFiniteSet(below(z)) /\ Rank(z, S) \in Nat
    BY FS_Subset, FS_CardinalityType DEF Rank
<1>2. Rank(x, S) < Cardinality(S)
    <2>1. below(x) \in SUBSET S /\ below(x) # S
        OBVIOUS
    <2>2. QED
        BY <2>1, FS_Subset, FS_CardinalityType DEF Rank
<1>3. ASSUME NEW y \in S, x < y
      PROVE  Rank(x, S) < Rank(y, S)
    <2>1. \A w \in S : w < x => w < y
        BY <1>3
    <2>2. x \in below(y) /\ x \notin below(x)
        BY <1>3
    <2>3. below(x) \in SUBSET below(y) /\ below(x) # below(y)
        BY <2>1, <2>2
    <2>4. QED
        BY <1>1, <2>3, FS_Subset, FS_CardinalityType DEF Rank
<1>4. Cardinality(S) \in Nat /\ Rank(x, S) \in Nat
    BY <1>1, FS_CardinalityType
<1>5. Rank(x, S) \in 0 .. (Cardinality(S) - 1)
    BY <1>2, <1>4
<1>6. QED
    BY <1>3, <1>5

\* Ranks are a bijection between a set and the numbers below its size.
LEMMA RankBijection ==
    ASSUME NEW S \in SUBSET Nat, IsFiniteSet(S)
    PROVE  [x \in S |-> Rank(x, S)] \in Bijection(S, 0 .. (Cardinality(S) - 1))
<1> DEFINE n == Cardinality(S)
           f == [x \in S |-> Rank(x, S)]
<1>1. n \in Nat
    BY FS_CardinalityType
<1>2. f \in [S -> 0 .. (n - 1)]
    BY RankOrder
<1>3. \A x, y \in S : f[x] = f[y] => x = y
    <2>1. SUFFICES ASSUME NEW x \in S, NEW y \in S, x < y PROVE f[x] # f[y]
        OBVIOUS
    <2>2. Rank(x, S) < Rank(y, S) /\ Rank(x, S) \in Nat /\ Rank(y, S) \in Nat
        BY <2>1, RankOrder
    <2>3. QED
        BY <2>2
<1>4. f \in Injection(S, 0 .. (n - 1))
    BY <1>2, <1>3, Fun_IsInj
<1>5. IsFiniteSet(0 .. (n - 1)) /\ Cardinality(0 .. (n - 1)) = n
    <2> HIDE DEF n
    <2>1. n - 1 \in Int /\ (0 > n - 1 => n = 0)
        BY <1>1
    <2>2. QED
        BY <1>1, <2>1, FS_Interval
<1>6. f \in Surjection(S, 0 .. (n - 1))
    BY <1>4, <1>5, FS_Injection
<1>7. QED
    BY <1>4, <1>6, Fun_IsBij

\* So every number below the size is the rank of exactly one element.
LEMMA RankUnique ==
    ASSUME NEW S \in SUBSET Nat, IsFiniteSet(S), NEW k \in 0 .. (Cardinality(S) - 1)
    PROVE  \E x \in S : Rank(x, S) = k
<1> DEFINE f == [x \in S |-> Rank(x, S)]
<1>1. f \in Surjection(S, 0 .. (Cardinality(S) - 1))
    BY RankBijection, Fun_BijectionProperties
<1>2. \E x \in S : f[x] = k
    BY <1>1 DEF Surjection
<1>3. QED
    BY <1>2

LEMMA RankInjective ==
    ASSUME NEW S \in SUBSET Nat, IsFiniteSet(S), NEW x \in S, NEW y \in S,
           Rank(x, S) = Rank(y, S)
    PROVE  x = y
<1> DEFINE f == [z \in S |-> Rank(z, S)]
<1>1. \A a, b \in S : f[a] = f[b] => a = b
    <2>1. f \in Bijection(S, 0 .. (Cardinality(S) - 1))
        BY RankBijection
    <2> HIDE DEF f
    <2>2. QED
        BY <2>1, Fun_BijectionProperties
<1>2. f[x] = f[y]
    OBVIOUS
<1>3. QED
    BY <1>1, <1>2
\* The k elements of the lowest ranks are k, when there are as many.
LEMMA RankBelow ==
    ASSUME NEW S \in SUBSET Nat, IsFiniteSet(S), NEW k \in Nat, k <= Cardinality(S)
    PROVE  /\ IsFiniteSet({x \in S : Rank(x, S) < k})
           /\ Cardinality({x \in S : Rank(x, S) < k}) = k
<1> DEFINE L == {x \in S : Rank(x, S) < k}
           g == [x \in L |-> Rank(x, S)]
<1>1. IsFiniteSet(L)
    BY FS_Subset
<1>2. \A x \in S : Rank(x, S) \in Nat
    BY RankOrder
<1>3. g \in [L -> 0 .. (k - 1)]
    <2>1. \A x \in L : Rank(x, S) \in 0 .. (k - 1)
        BY <1>2
    <2>2. QED
        BY <2>1
<1>4. \A x, y \in L : g[x] = g[y] => x = y
    BY RankInjective
<1>5. \A j \in 0 .. (k - 1) : \E x \in L : g[x] = j
    <2>1. SUFFICES ASSUME NEW j \in 0 .. (k - 1) PROVE \E x \in L : g[x] = j
        OBVIOUS
    <2>2. Cardinality(S) \in Nat
        BY FS_CardinalityType
    <2>3. PICK x \in S : Rank(x, S) = j
        BY <2>2, RankUnique
    <2>4. QED
        BY <2>3
<1>6. g \in Bijection(L, 0 .. (k - 1))
    BY <1>3, <1>4, <1>5, Fun_IsBij
<1>7. Cardinality(0 .. (k - 1)) = k /\ IsFiniteSet(0 .. (k - 1))
    BY FS_Interval
<1>8. QED
    BY <1>1, <1>6, <1>7, FS_Bijection, Fun_ExistsBij

-----------------------------------------------------------------------------
(* The contacts of a frame and the slots that take them.                   *)

LEMMA FrameFacts ==
    ASSUME NEW pts \in Frames
    PROVE  /\ Len(pts) \in 0 .. MaxPoints /\ DOMAIN pts = 1 .. Len(pts)
           /\ IsFiniteSet(DOMAIN pts) /\ Cardinality(DOMAIN pts) = Len(pts)
           /\ \A i \in DOMAIN pts : pts[i] \in Pos
           /\ \A i, j \in DOMAIN pts : pts[i] = pts[j] => i = j
<1>1. PICK n \in 0 .. MaxPoints : pts \in [1 .. n -> Pos]
    BY DEF Frames
<1>2. pts \in Seq(Pos) /\ n \in Nat
    BY <1>1, TrackerAssumption
<1>3. Len(pts) = n
    BY <1>1, <1>2
<1>4. IsFiniteSet(1 .. n) /\ Cardinality(1 .. n) = n
    BY <1>2, FS_Interval
<1>5. QED
    BY <1>1, <1>3, <1>4 DEF Frames

\* Best takes a contact that is left and near, no farther than any other, and
\* leaves none behind that is near.
LEMMA BestChoice ==
    ASSUME pos \in [Slots -> Pos], NEW s \in Slots, NEW pts \in Frames,
           NEW left \in SUBSET DOMAIN pts
    PROVE  LET b == Best(s, pts, left)
           IN  /\ b \in left \cup {0}
               /\ b \in left => /\ Dist(pts[b], pos[s]) < MaxDist
                                /\ \A j \in left : Dist(pts[b], pos[s]) <= Dist(pts[j], pos[s])
               /\ b = 0 => \A i \in left : ~ (Dist(pts[i], pos[s]) < MaxDist)
<1> DEFINE near    == {i \in left : Dist(pts[i], pos[s]) < MaxDist}
           nearest == {i \in near : \A j \in near : Dist(pts[i], pos[s]) <= Dist(pts[j], pos[s])}
           b       == Best(s, pts, left)
<1>1. \A i \in left : i \in Nat \ {0} /\ Dist(pts[i], pos[s]) \in Nat
    BY FrameFacts DEF Pos, Dist
<1>2. CASE near = {}
    <2>1. b = 0
        BY <1>2 DEF Best
    <2>2. QED
        BY <1>1, <1>2, <2>1
<1>3. CASE near # {}
    <2>1. nearest # {}
        <3> DEFINE D == {Dist(pts[i], pos[s]) : i \in near}
        <3>1. D \in SUBSET Nat /\ D # {}
            BY <1>1, <1>3
        <3>2. PICK d \in D : \A e \in D : d <= e
            BY <3>1, Least
        <3>3. PICK i \in near : d = Dist(pts[i], pos[s])
            BY <3>2
        <3>4. \A j \in near : Dist(pts[i], pos[s]) <= Dist(pts[j], pos[s])
            BY <3>2, <3>3
        <3>5. QED
            BY <3>3, <3>4
    <2>2. nearest \in SUBSET Nat
        BY <1>1
    <2>3. \E i \in nearest : \A j \in nearest : i <= j
        BY <2>1, <2>2, Least
    <2>4. b = CHOOSE i \in nearest : \A j \in nearest : i <= j
        BY <1>3 DEF Best
    <2>5. b \in nearest
        BY <2>3, <2>4
    <2>6. b \in near /\ \A j \in near : Dist(pts[b], pos[s]) <= Dist(pts[j], pos[s])
        BY <2>5
    <2>7. \A j \in left : j \notin near => Dist(pts[b], pos[s]) <= Dist(pts[j], pos[s])
        BY <1>1, <2>6, TrackerAssumption
    <2>8. QED
        BY <1>1, <2>6, <2>7
<1>4. QED
    BY <1>2, <1>3

\* What slot s takes when the slots before it have taken m.
TakenBy(pts, m, s) ==
    IF s \notin active THEN 0 ELSE Best(s, pts, DOMAIN pts \ {m[t] : t \in 0 .. (s - 1)})

\* The recursion of Match is over the slots in their order, so that it has a
\* solution.
LEMMA MatchExists ==
    ASSUME NEW pts, NEW k \in Nat
    PROVE  \E m : m = [s \in 0 .. (k - 1) |-> TakenBy(pts, m, s)]
<1> DEFINE P(n) == \E m : m = [s \in 0 .. (n - 1) |-> TakenBy(pts, m, s)]
           T == {n \in Nat : ~ P(n)}
<1>1. SUFFICES ASSUME T # {} PROVE FALSE
    OBVIOUS
<1>2. PICK n \in T : \A j \in T : n <= j
    BY <1>1, Least
<1>3. n # 0
    <2>1. P(0)
        <3> DEFINE m == [s \in {} |-> 0]
        <3>1. m = [s \in 0 .. (0 - 1) |-> TakenBy(pts, m, s)]
            OBVIOUS
        <3>2. QED
            BY <3>1
    <2>2. QED
        BY <2>1
<1>4. P(n - 1)
    <2>1. n - 1 \in Nat /\ ~ (n <= n - 1)
        BY <1>3
    <2>2. n - 1 \notin T
        BY <1>2, <2>1
    <2>3. QED
        BY <2>1, <2>2
<1>5. PICK m : m = [s \in 0 .. ((n - 1) - 1) |-> TakenBy(pts, m, s)]
    BY <1>4
<1> DEFINE e == [s \in 0 .. (n - 1) |-> TakenBy(pts, m, s)]
<1>6. \A s \in 0 .. (n - 1) : {e[t] : t \in 0 .. (s - 1)} = {m[t] : t \in 0 .. (s - 1)}
    <2>1. SUFFICES ASSUME NEW s \in 0 .. (n - 1), NEW t \in 0 .. (s - 1)
                   PROVE  e[t] = m[t]
        OBVIOUS
    <2>2. t \in 0 .. (n - 1) /\ t \in 0 .. ((n - 1) - 1)
        OBVIOUS
    <2>3. e[t] = TakenBy(pts, m, t)
        BY <2>2
    <2>4. m[t] = TakenBy(pts, m, t)
        BY <1>5, <2>2
    <2>5. QED
        BY <2>3, <2>4
<1>7. \A s \in 0 .. (n - 1) : TakenBy(pts, e, s) = TakenBy(pts, m, s)
    BY <1>6 DEF TakenBy
<1>8. e = [s \in 0 .. (n - 1) |-> TakenBy(pts, e, s)]
    BY <1>7
<1>9. QED
    BY <1>8

\* Match satisfies its recursion.
LEMMA MatchUnfold ==
    ASSUME NEW pts
    PROVE  Match(pts) = [s \in Slots |-> TakenBy(pts, Match(pts), s)]
<1> DEFINE m == CHOOSE m : m = [s \in Slots |-> TakenBy(pts, m, s)]
<1>1. \E g : g = [s \in Slots |-> TakenBy(pts, g, s)]
    BY TrackerAssumption, MatchExists DEF Slots
<1>2. m = [s \in Slots |-> TakenBy(pts, m, s)]
    BY <1>1
<1>3. Match(pts) = [s \in Slots |-> m[s]]
    BY DEF Match, TakenBy
<1>4. Match(pts) = m
    BY <1>2, <1>3
<1>5. QED
    BY <1>2, <1>4

\* The match is one-to-one, of active slots to contacts that are near.
LEMMA MatchFacts ==
    ASSUME TypeOK, NEW pts \in Frames, NEW m, m = Match(pts)
    PROVE  /\ \A s \in Slots : m[s] \in DOMAIN pts \cup {0}
           /\ \A s \in Slots : m[s] # 0 => s \in active /\ Dist(pts[m[s]], pos[s]) < MaxDist
           /\ \A s, t \in Slots : m[s] # 0 /\ m[s] = m[t] => s = t
<1> DEFINE left(s) == DOMAIN pts \ {m[t] : t \in 0 .. (s - 1)}
<1>1. \A s \in Slots : m[s] = IF s \notin active THEN 0 ELSE Best(s, pts, left(s))
    <2>1. m = [s \in Slots |-> TakenBy(pts, m, s)]
        BY MatchUnfold
    <2>2. \A s \in Slots : m[s] = TakenBy(pts, m, s)
        BY <2>1
    <2>3. QED
        BY <2>2 DEF TakenBy
<1>2. \A s \in Slots : Best(s, pts, left(s)) \in left(s) \cup {0}
    BY BestChoice DEF TypeOK
<1>3. \A s \in Slots : Best(s, pts, left(s)) \in left(s) =>
                         Dist(pts[Best(s, pts, left(s))], pos[s]) < MaxDist
    <2>1. SUFFICES ASSUME NEW s \in Slots, Best(s, pts, left(s)) \in left(s)
                   PROVE  Dist(pts[Best(s, pts, left(s))], pos[s]) < MaxDist
        OBVIOUS
    <2>2. left(s) \in SUBSET DOMAIN pts /\ pos \in [Slots -> Pos]
        BY DEF TypeOK
    <2> HIDE DEF left
    <2>3. QED
        BY <2>1, <2>2, BestChoice
<1>4. \A s \in Slots : m[s] # 0 => s \in active /\ m[s] \in left(s)
    BY <1>1, <1>2
<1>5. ASSUME NEW s \in Slots, NEW t \in Slots, m[s] # 0, m[s] = m[t], t < s
      PROVE  FALSE
    <2>1. t \in 0 .. (s - 1)
        BY <1>5, TrackerAssumption DEF Slots
    <2>2. m[t] \notin left(s)
        BY <2>1
    <2>3. QED
        BY <1>4, <1>5, <2>2
<1>6. \A s, t \in Slots : m[s] # 0 /\ m[s] = m[t] => s = t
    <2>1. SUFFICES ASSUME NEW s \in Slots, NEW t \in Slots, m[s] # 0, m[s] = m[t], s # t
                   PROVE  FALSE
        OBVIOUS
    <2>2. s < t \/ t < s
        BY <2>1, TrackerAssumption DEF Slots
    <2>3. m[t] # 0 /\ m[t] = m[s]
        BY <2>1
    <2>4. QED
        BY <1>5, <2>1, <2>2, <2>3
<1>7. QED
    BY <1>1, <1>2, <1>3, <1>4, <1>6

-----------------------------------------------------------------------------
(* track(): what becomes of the slots.                                     *)

Kept(m)       == {s \in active : m[s] # 0}
New(pts, m)   == DOMAIN pts \ {m[s] : s \in Kept(m)}
Free(m)       == Idle(Kept(m), active \ Kept(m))
Down(pts, m)  == {s \in Free(m) : Rank(s, Free(m)) < Cardinality(New(pts, m))}
Point(pts, m, s) ==
    IF s \in Down(pts, m)
    THEN CHOOSE i \in New(pts, m) : Rank(i, New(pts, m)) = Rank(s, Free(m))
    ELSE m[s]

LEMMA TrackSets ==
    ASSUME TypeOK, NEW pts \in Frames, NEW m
    PROVE  /\ Free(m) = Slots \ active /\ Down(pts, m) \subseteq Slots \ active
           /\ Free(m) \in SUBSET Nat /\ IsFiniteSet(Free(m))
           /\ New(pts, m) \in SUBSET Nat /\ New(pts, m) \subseteq DOMAIN pts
           /\ IsFiniteSet(New(pts, m))
           /\ IsFiniteSet(Down(pts, m)) /\ Cardinality(Down(pts, m)) \in Nat
<1>1. IsFiniteSet(Slots) /\ Slots \in SUBSET Nat
    BY TrackerAssumption, FS_Interval DEF Slots
<1>2. Free(m) = Slots \ active
    BY DEF Free, Idle, Kept
<1>3. New(pts, m) \in SUBSET DOMAIN pts /\ DOMAIN pts \in SUBSET Nat
    BY FrameFacts DEF New
<1>4. IsFiniteSet(Free(m)) /\ IsFiniteSet(New(pts, m))
    BY <1>1, <1>2, <1>3, FrameFacts, FS_Subset
<1>5. Down(pts, m) \in SUBSET Free(m)
    BY DEF Down
<1>6. IsFiniteSet(Down(pts, m)) /\ Cardinality(Down(pts, m)) \in Nat
    BY <1>4, <1>5, FS_Subset, FS_CardinalityType
<1>7. QED
    BY <1>1, <1>2, <1>3, <1>4, <1>5, <1>6

\* A slot that goes down gets a contact nobody else has.
LEMMA DownPoint ==
    ASSUME TypeOK, NEW pts \in Frames, NEW m, NEW s \in Down(pts, m)
    PROVE  /\ Point(pts, m, s) \in New(pts, m)
           /\ Rank(Point(pts, m, s), New(pts, m)) = Rank(s, Free(m))
<1>1. s \in Free(m) /\ Rank(s, Free(m)) < Cardinality(New(pts, m))
    BY DEF Down
<1>2. Rank(s, Free(m)) \in Nat /\ Cardinality(New(pts, m)) \in Nat
    BY <1>1, TrackSets, RankOrder, FS_CardinalityType
<1>3. \E i \in New(pts, m) : Rank(i, New(pts, m)) = Rank(s, Free(m))
    BY <1>1, <1>2, TrackSets, RankUnique
<1>4. QED
    BY <1>3 DEF Point

\* Every slot that is active after a frame has a contact of its own.
LEMMA PointInjective ==
    ASSUME TypeOK, NEW pts \in Frames, NEW m, m = Match(pts)
    PROVE  /\ \A s \in Kept(m) \cup Down(pts, m) : Point(pts, m, s) \in DOMAIN pts
           /\ \A s, t \in Kept(m) \cup Down(pts, m) :
                Point(pts, m, s) = Point(pts, m, t) => s = t
<1> DEFINE p(s) == Point(pts, m, s)
<1>1. \A s \in Kept(m) : s \in Slots /\ s \notin Down(pts, m) /\ p(s) = m[s]
    BY TrackSets DEF Kept, TypeOK, Point
<1>2. \A s \in Kept(m) : p(s) \in DOMAIN pts \ New(pts, m)
    BY <1>1, MatchFacts DEF Kept, New
<1>3. \A s \in Down(pts, m) : p(s) \in New(pts, m)
    BY DownPoint
<1>4. \A s, t \in Kept(m) : p(s) = p(t) => s = t
    BY <1>1, MatchFacts DEF Kept
<1>5. \A s, t \in Down(pts, m) : p(s) = p(t) => s = t
    <2>1. SUFFICES ASSUME NEW s \in Down(pts, m), NEW t \in Down(pts, m), p(s) = p(t)
                   PROVE  s = t
        OBVIOUS
    <2>2. Rank(s, Free(m)) = Rank(t, Free(m))
        BY <2>1, DownPoint
    <2>3. s \in Free(m) /\ t \in Free(m)
        BY DEF Down
    <2>4. QED
        BY <2>2, <2>3, TrackSets, RankInjective
<1>6. New(pts, m) \subseteq DOMAIN pts
    BY DEF New
<1>7. QED
    BY <1>2, <1>3, <1>4, <1>5, <1>6

\* Either every contact of the frame is in a slot or no slot is left.
LEMMA PointsCovered ==
    ASSUME TypeOK, NEW pts \in Frames, NEW m, m = Match(pts)
    PROVE  \/ Down(pts, m) = Free(m)
           \/ Cardinality(Kept(m) \cup Down(pts, m)) = Len(pts)
<1> DEFINE act == Kept(m) \cup Down(pts, m)
           new == New(pts, m)
<1>a. Cardinality(new) \in Nat /\ Cardinality(Free(m)) \in Nat
    BY TrackSets, FS_CardinalityType
<1>1. CASE Cardinality(Free(m)) <= Cardinality(new)
    <2>1. ASSUME NEW s \in Free(m) PROVE Rank(s, Free(m)) < Cardinality(new)
        BY <1>a, <1>1, TrackSets, RankOrder
    <2>2. QED
        BY <2>1 DEF Down
<1>2. CASE Cardinality(new) <= Cardinality(Free(m))
    <2> DEFINE f == [s \in act |-> Point(pts, m, s)]
    <2>1. ASSUME NEW i \in DOMAIN pts PROVE \E s \in act : Point(pts, m, s) = i
        <3>1. CASE i \in new
            <4>1. Rank(i, new) \in 0 .. (Cardinality(new) - 1)
                BY <3>1, TrackSets, RankOrder
            <4>2. Rank(i, new) \in 0 .. (Cardinality(Free(m)) - 1)
                BY <1>2, <1>a, <4>1
            <4>3. PICK s \in Free(m) : Rank(s, Free(m)) = Rank(i, new)
                BY <4>2, TrackSets, RankUnique
            <4>4. s \in Down(pts, m)
                BY <1>a, <4>1, <4>3 DEF Down
            <4>5. Point(pts, m, s) \in new /\ Rank(Point(pts, m, s), new) = Rank(i, new)
                BY <4>3, <4>4, DownPoint
            <4>6. Point(pts, m, s) = i
                BY <3>1, <4>5, TrackSets, RankInjective
            <4>7. QED
                BY <4>4, <4>6
        <3>2. CASE i \notin new
            <4>1. PICK s \in Kept(m) : m[s] = i
                BY <3>2 DEF New
            <4>2. s \notin Down(pts, m)
                BY TrackSets DEF Kept
            <4>3. QED
                BY <4>1, <4>2 DEF Point
        <3>3. QED
            BY <3>1, <3>2
    <2>2. f \in [act -> DOMAIN pts]
        BY PointInjective
    <2>3. \A s, t \in act : f[s] = f[t] => s = t
        BY PointInjective
    <2>4. \A i \in DOMAIN pts : \E s \in act : f[s] = i
        BY <2>1
    <2>5. f \in Bijection(act, DOMAIN pts)
        BY <2>2, <2>3, <2>4, Fun_IsBij
    <2>6. ExistsBijection(DOMAIN pts, act)
        BY <2>5, Fun_ExistsBij, Fun_ExistsBijSymmetric
    <2>7. QED
        BY <2>6, FrameFacts, FS_Bijection
<1>3. QED
    BY <1>1, <1>2, <1>a

-----------------------------------------------------------------------------
(* The invariant.                                                          *)

\* reported_touch is what the input core was told.
TouchReported == reported = btnTouch

\* The contacts of a frame are at different positions.
ContactsApart == \A s, t \in active : pos[s] = pos[t] => s = t

\* The IDs in use are among the last `downs` that were given out, which are all
\* different (MaxDowns < IdMod).
IdsKnown ==
    /\ downs <= nextId
    /\ \A s \in active : \E n \in (nextId - downs) .. (nextId - 1) : id[s] = n % IdMod
    /\ \A s, t \in active : id[s] = id[t] => s = t

IInv == TypeOK /\ FramesAgree /\ TouchReported /\ ContactsApart /\ IdsKnown

\* A process that has just started.
Started ==
    /\ active = {} /\ fresh = {} /\ ended = {}
    /\ id = Zero /\ pos = Zero /\ nextId \in Nat
    /\ reported = FALSE
    /\ mt = Empty /\ mtPos = Zero /\ btnTouch = FALSE /\ absXY = 0
    /\ frame = << >> /\ downs = 0

LEMMA StartedIInv == Started => IInv
<1> SUFFICES ASSUME Started PROVE IInv
    OBVIOUS
<1> USE DEF Started
<1>a. 0 \in Pos /\ 0 \in Ids /\ 0 \in 0 .. MaxDowns /\ 0 \in 0 .. MaxPoints
    BY TrackerAssumption DEF Pos, Ids
<1>b. << >> \in Frames
    <2>1. << >> \in [1 .. 0 -> Pos]
        OBVIOUS
    <2>2. QED
        BY <1>a, <2>1 DEF Frames
<1>1. TypeOK
    BY <1>a, <1>b DEF TypeOK, Zero, Empty
<1>2. ReadersAgree
    BY DEF ReadersAgree, Empty
<1>3. EveryContactTracked
    BY FS_EmptySet DEF EveryContactTracked
<1>4. TouchReported
    BY DEF TouchReported
<1>5. ContactsApart /\ IdsKnown
    BY DEF ContactsApart, IdsKnown
<1>6. QED
    BY <1>1, <1>2, <1>3, <1>4, <1>5 DEF IInv, FramesAgree

LEMMA InitStarted == Init => Started
BY TrackerAssumption DEF Init, Started

LEMMA ExitStarted == Exit => Started'
BY DEF Exit, Started, Zero, Empty

-----------------------------------------------------------------------------
(* One frame: handle_frame().                                              *)

\* What track() leaves in the variables.
LEMMA TrackStep ==
    ASSUME NEW pts, NEW m, Track(pts, m)
    PROVE  /\ active' = Kept(m) \cup Down(pts, m)
           /\ fresh' = Down(pts, m) /\ ended' = active \ Kept(m)
           /\ pos' = [s \in Slots |-> IF s \in active' THEN pts[Point(pts, m, s)] ELSE pos[s]]
           /\ id' = [s \in Slots |-> IF s \in Down(pts, m) THEN NewId(Rank(s, Free(m))) ELSE id[s]]
           /\ nextId' = nextId + Cardinality(Down(pts, m))
           /\ downs' = downs + Cardinality(Down(pts, m))
           /\ downs + Cardinality(Down(pts, m)) <= MaxDowns
           /\ frame' = pts
BY DEF Track, Kept, New, Free, Down, Point

\* The ranks of the slots that go down are the numbers below their count.
LEMMA DownRanks ==
    ASSUME TypeOK, NEW pts \in Frames, NEW m, NEW s \in Down(pts, m)
    PROVE  Rank(s, Free(m)) \in 0 .. (Cardinality(Down(pts, m)) - 1)
<1>1. s \in Free(m) /\ Rank(s, Free(m)) < Cardinality(New(pts, m))
    BY DEF Down
<1>2. /\ Cardinality(New(pts, m)) \in Nat /\ Cardinality(Free(m)) \in Nat
      /\ Rank(s, Free(m)) \in 0 .. (Cardinality(Free(m)) - 1)
    BY <1>1, TrackSets, RankOrder, FS_CardinalityType
<1>3. CASE Cardinality(New(pts, m)) <= Cardinality(Free(m))
    <2>1. Cardinality(Down(pts, m)) = Cardinality(New(pts, m))
        BY <1>2, <1>3, TrackSets, RankBelow DEF Down
    <2>2. QED
        BY <1>1, <1>2, <2>1
<1>4. CASE Cardinality(Free(m)) <= Cardinality(New(pts, m))
    <2>1. ASSUME NEW t \in Free(m) PROVE Rank(t, Free(m)) < Cardinality(New(pts, m))
        BY <1>2, <1>4, TrackSets, RankOrder
    <2>2. Down(pts, m) = Free(m)
        BY <2>1 DEF Down
    <2>3. QED
        BY <1>2, <2>2
<1>5. QED
    BY <1>2, <1>3, <1>4

\* Contacts that begin get different IDs.
LEMMA NewIds ==
    ASSUME IInv, NEW pts \in Frames, NEW m, Track(pts, m)
    PROVE  /\ \A s \in Down(pts, m) :
                /\ id'[s] \in Ids
                /\ \E n \in nextId .. (nextId' - 1) : id'[s] = n % IdMod
           /\ \A s, t \in Down(pts, m) : id'[s] = id'[t] => s = t
           /\ downs' <= nextId' /\ nextId' \in Nat /\ downs' \in 0 .. MaxDowns
           /\ nextId' - downs' = nextId - downs /\ nextId <= nextId'
<1> DEFINE r(s) == Rank(s, Free(m))
           n == Cardinality(Down(pts, m))
<1>1. TypeOK /\ downs <= nextId
    BY DEF IInv, IdsKnown
<1>2. nextId \in Nat /\ downs \in Nat /\ n \in Nat
    BY <1>1, TrackSets DEF TypeOK
<1>3. nextId' = nextId + n /\ downs' = downs + n /\ downs + n <= MaxDowns
    BY TrackStep
<1>4. ASSUME NEW s \in Down(pts, m)
      PROVE  s \in Slots /\ r(s) \in 0 .. (n - 1) /\ id'[s] = (nextId + r(s)) % IdMod
    <2>1. s \in Slots
        BY <1>1, TrackSets
    <2>2. QED
        BY <1>1, <2>1, DownRanks, TrackStep DEF NewId
<1> HIDE DEF n
<1>5. ASSUME NEW s \in Down(pts, m)
      PROVE  id'[s] \in Ids /\ \E k \in nextId .. (nextId' - 1) : id'[s] = k % IdMod
    <2> DEFINE k == nextId + r(s)
    <2>1. k \in nextId .. (nextId' - 1) /\ k \in Nat /\ id'[s] = k % IdMod
        BY <1>2, <1>3, <1>4
    <2> HIDE DEF k
    <2>2. k % IdMod \in Ids
        BY <2>1, TrackerAssumption DEF Ids
    <2>3. QED
        BY <2>1, <2>2
<1>6. ASSUME NEW s \in Down(pts, m), NEW t \in Down(pts, m), id'[s] = id'[t]
      PROVE  s = t
    <2> DEFINE a == nextId + r(s)
               b == nextId + r(t)
    <2>1. a \in Nat /\ b \in Nat /\ a % IdMod = b % IdMod /\ a - b < IdMod /\ b - a < IdMod
        BY <1>2, <1>3, <1>4, <1>6, TrackerAssumption
    <2>2. r(s) \in Nat /\ r(t) \in Nat
        BY <1>4
    <2>3. a = b => r(s) = r(t)
        BY <1>2, <2>2
    <2> HIDE DEF a, b, r
    <2>4. a = b
        <3>1. IdMod \in Nat \ {0}
            BY TrackerAssumption
        <3>2. ~ (a < b)
            BY <2>1, <3>1, ModApart
        <3>3. ~ (b < a)
            BY <2>1, <3>1, ModApart
        <3>4. QED
            BY <2>1, <3>2, <3>3
    <2>5. Rank(s, Free(m)) = Rank(t, Free(m))
        BY <2>3, <2>4 DEF r
    <2>6. s \in Free(m) /\ t \in Free(m)
        BY DEF Down
    <2>7. QED
        BY <1>1, <2>5, <2>6, TrackSets, RankInjective
<1>7. downs' <= nextId' /\ nextId' \in Nat /\ downs' \in 0 .. MaxDowns
      /\ nextId' - downs' = nextId - downs /\ nextId <= nextId'
    BY <1>1, <1>2, <1>3, TrackerAssumption
<1>8. QED
    BY <1>5, <1>6, <1>7

LEMMA TrackType ==
    ASSUME IInv, NEW pts \in Frames, NEW m, m = Match(pts), Track(pts, m), Report
    PROVE  TypeOK'
<1> USE DEF TypeOK
<1>1. TypeOK
    BY DEF IInv
<1>2. active' \subseteq Slots /\ fresh' \subseteq active' /\ ended' \subseteq Slots \ active'
    BY <1>1, TrackStep, TrackSets DEF Kept
<1>3. id' \in [Slots -> Ids]
    BY <1>1, TrackStep, NewIds
<1>4. \A s \in active' : pts[Point(pts, m, s)] \in Pos
    BY <1>1, TrackStep, PointInjective, FrameFacts
<1>5. pos' \in [Slots -> Pos]
    BY <1>1, <1>4, TrackStep
<1>6. nextId' \in Nat /\ downs' \in 0 .. MaxDowns
    BY NewIds
<1>7. reported' \in BOOLEAN /\ btnTouch' \in BOOLEAN
    BY <1>1 DEF Report, TouchKey
<1>8. mt' \in [Slots -> Ids \cup {NoContact}]
    BY <1>1, <1>3 DEF Report, SlotEvents
<1>9. mtPos' \in [Slots -> Pos]
    BY <1>1, <1>5 DEF Report
<1>10. absXY' \in Pos
    <2>1. CASE active' \ ended' = {}
        BY <1>1, <2>1 DEF Report
    <2>2. CASE active' \ ended' # {}
        <3>1. active' \ ended' = active'
            BY <1>2
        <3>2. \E s \in active' : FirstActive(s)
            BY <1>2, <2>2, <3>1, Least, TrackSets, TrackerAssumption DEF FirstActive, Slots
        <3>3. (CHOOSE s \in active' : FirstActive(s)) \in Slots
            BY <1>2, <3>2
        <3>4. QED
            BY <1>5, <2>2, <3>3 DEF Report
    <2>3. QED
        BY <2>1, <2>2
<1>11. frame' \in Frames
    BY TrackStep
<1>12. QED
    BY <1>2, <1>3, <1>5, <1>6, <1>7, <1>8, <1>9, <1>10, <1>11

LEMMA TrackReaders ==
    ASSUME IInv, NEW pts \in Frames, NEW m, m = Match(pts), Track(pts, m), Report
    PROVE  ReadersAgree' /\ TouchReported'
<1>1. /\ TypeOK /\ mt = [s \in Slots |-> IF s \in active THEN id[s] ELSE NoContact]
      /\ btnTouch = (active # {}) /\ reported = btnTouch
    BY DEF IInv, FramesAgree, ReadersAgree, TouchReported
<1>2. TypeOK'
    BY TrackType
<1>3. active' \subseteq Slots /\ active' \ ended' = active' /\ active' \cap ended' = {}
    BY <1>2 DEF TypeOK
<1>4. mt' = [s \in Slots |-> IF s \in active' THEN id'[s] ELSE NoContact]
    <2>1. ASSUME NEW s \in Slots
          PROVE  mt'[s] = IF s \in active' THEN id'[s] ELSE NoContact
        <3>1. CASE s \in ended'
            BY <1>3, <3>1 DEF Report, SlotEvents
        <3>2. CASE s \in fresh'
            BY <1>2, <1>3, <3>2 DEF Report, SlotEvents, TypeOK
        <3>3. CASE s \notin ended' /\ s \notin fresh'
            <4>1. mt'[s] = mt[s]
                BY <3>3 DEF Report, SlotEvents
            <4>2. s \in active <=> s \in active'
                BY <3>3, TrackStep DEF Kept
            <4>3. id'[s] = id[s]
                BY <3>3, TrackStep
            <4>4. QED
                BY <1>1, <4>1, <4>2, <4>3
        <3>4. QED
            BY <3>1, <3>2, <3>3
    <2>2. mt' \in [Slots -> Ids \cup {NoContact}]
        BY <1>2 DEF TypeOK
    <2>3. QED
        BY <2>1, <2>2
<1>5. \A s \in active' : mtPos'[s] = pos'[s]
    BY <1>3 DEF Report
<1>6. btnTouch' = (active' # {}) /\ reported' = btnTouch'
    BY <1>1 DEF Report, TouchKey, TypeOK
<1>7. ASSUME active' # {} PROVE \E s \in active' : absXY' = pos'[s]
    <2>1. active' \in SUBSET Nat
        BY <1>3, TrackerAssumption DEF Slots
    <2>2. \E s \in active' : FirstActive(s)
        BY <1>3, <1>7, <2>1, Least DEF FirstActive
    <2>3. (CHOOSE s \in active' : FirstActive(s)) \in active'
        BY <2>2
    <2>4. QED
        BY <1>3, <1>7, <2>3 DEF Report
<1>8. QED
    BY <1>4, <1>5, <1>6, <1>7 DEF ReadersAgree, TouchReported

LEMMA TrackCovers ==
    ASSUME IInv, NEW pts \in Frames, NEW m, m = Match(pts), Track(pts, m)
    PROVE  EveryContactTracked' /\ ContactsApart'
<1>1. TypeOK
    BY DEF IInv
<1>2. /\ active' = Kept(m) \cup Down(pts, m) /\ ended' = active \ Kept(m)
      /\ frame' = pts
      /\ pos' = [s \in Slots |-> IF s \in active' THEN pts[Point(pts, m, s)] ELSE pos[s]]
    BY TrackStep
<1>3. active' \subseteq Slots
    BY <1>1, <1>2, TrackSets DEF Kept, TypeOK
<1>4. \A s \in active' : Point(pts, m, s) \in DOMAIN pts /\ pos'[s] = pts[Point(pts, m, s)]
    BY <1>1, <1>2, <1>3, PointInjective
<1>5. ContactsApart'
    <2>1. SUFFICES ASSUME NEW s \in active', NEW t \in active', pos'[s] = pos'[t]
                   PROVE  s = t
        BY DEF ContactsApart
    <2>2. Point(pts, m, s) = Point(pts, m, t)
        BY <1>4, <2>1, FrameFacts
    <2>3. QED
        BY <1>1, <1>2, <2>2, PointInjective
<1>6. active' \cup ended' = Slots \/ Cardinality(active') = Len(frame')
    <2>1. CASE Down(pts, m) = Free(m)
        BY <1>1, <1>2, <2>1, TrackSets DEF Kept, TypeOK
    <2>2. CASE Down(pts, m) # Free(m)
        BY <1>1, <1>2, <2>2, PointsCovered
    <2>3. QED
        BY <2>1, <2>2
<1>7. QED
    BY <1>2, <1>4, <1>5, <1>6 DEF EveryContactTracked

\* The last d of n numbers and those from n on are among the last d1 of n1.
LEMMA LastNumbers ==
    ASSUME NEW d \in Nat, NEW n \in Nat, NEW d1 \in Nat, NEW n1 \in Nat, NEW M \in Nat,
           d <= n, n <= n1, d1 <= n1, n1 - d1 = n - d, d1 < M
    PROVE  /\ \A k \in (n - d) .. (n - 1) : k \in (n1 - d1) .. (n1 - 1)
           /\ \A k \in n .. (n1 - 1) : k \in (n1 - d1) .. (n1 - 1)
           /\ \A a \in (n - d) .. (n - 1), b \in n .. (n1 - 1) :
                a \in Nat /\ b \in Nat /\ a < b /\ b - a < M
OBVIOUS

LEMMA TrackIds ==
    ASSUME IInv, NEW pts \in Frames, NEW m, Track(pts, m)
    PROVE  IdsKnown'
<1>1. TypeOK /\ IdsKnown
    BY DEF IInv
<1>2. /\ active' = Kept(m) \cup Down(pts, m) /\ Kept(m) \subseteq active
      /\ active \subseteq Slots /\ Down(pts, m) \subseteq Slots \ active
    BY <1>1, TrackStep, TrackSets DEF Kept, TypeOK
<1>3. \A s \in Kept(m) : id'[s] = id[s]
    BY <1>2, TrackStep
<1>4. /\ IdMod \in Nat \ {0} /\ nextId \in Nat /\ downs \in Nat /\ downs <= nextId
      /\ nextId' \in Nat /\ downs' \in Nat /\ downs' < IdMod /\ downs' <= nextId'
      /\ nextId' - downs' = nextId - downs /\ nextId <= nextId'
    BY <1>1, NewIds, TrackerAssumption DEF TypeOK, IdsKnown
<1>5. ASSUME NEW s \in Kept(m)
      PROVE  \E n \in (nextId - downs) .. (nextId - 1) : id'[s] = n % IdMod
    BY <1>1, <1>2, <1>3 DEF IdsKnown
<1>6. ASSUME NEW s \in Down(pts, m)
      PROVE  \E n \in nextId .. (nextId' - 1) : id'[s] = n % IdMod
    BY NewIds
<1>7. ASSUME NEW s \in active'
      PROVE  \E n \in (nextId' - downs') .. (nextId' - 1) : id'[s] = n % IdMod
    <2>1. CASE s \in Kept(m)
        <3>1. PICK n \in (nextId - downs) .. (nextId - 1) : id'[s] = n % IdMod
            BY <1>5, <2>1
        <3>2. n \in (nextId' - downs') .. (nextId' - 1)
            BY <1>4, <3>1, LastNumbers
        <3>3. QED
            BY <3>1, <3>2
    <2>2. CASE s \in Down(pts, m)
        <3>1. PICK n \in nextId .. (nextId' - 1) : id'[s] = n % IdMod
            BY <1>6, <2>2
        <3>2. n \in (nextId' - downs') .. (nextId' - 1)
            BY <1>4, <3>1, LastNumbers
        <3>3. QED
            BY <3>1, <3>2
    <2>3. QED
        BY <1>2, <2>1, <2>2
<1>8. ASSUME NEW s \in Kept(m), NEW t \in Down(pts, m), id'[s] = id'[t]
      PROVE  FALSE
    <2>1. PICK a \in (nextId - downs) .. (nextId - 1) : id'[s] = a % IdMod
        BY <1>5
    <2>2. PICK b \in nextId .. (nextId' - 1) : id'[t] = b % IdMod
        BY <1>6
    <2>3. a \in Nat /\ b \in Nat /\ a < b /\ b - a < IdMod
        BY <1>4, <2>1, <2>2, LastNumbers, ZenonT(30)
    <2>4. a % IdMod # b % IdMod
        BY <1>4, <2>3, ModApart
    <2>5. QED
        BY <1>8, <2>1, <2>2, <2>4
<1>9. \A s, t \in Kept(m) : id'[s] = id'[t] => s = t
    BY <1>1, <1>2, <1>3 DEF IdsKnown
<1>10. \A s, t \in Down(pts, m) : id'[s] = id'[t] => s = t
    BY NewIds
<1>11. \A s, t \in active' : id'[s] = id'[t] => s = t
    BY <1>2, <1>8, <1>9, <1>10
<1>12. QED
    BY <1>4, <1>7, <1>11 DEF IdsKnown

LEMMA HandleFrameIInv == IInv /\ HandleFrame => IInv'
<1>1. SUFFICES ASSUME IInv, NEW pts \in Frames, NEW m, m = Match(pts), Track(pts, m), Report
               PROVE  IInv'
    BY DEF HandleFrame
<1>2. QED
    BY <1>1, TrackType, TrackReaders, TrackCovers, TrackIds DEF IInv, FramesAgree

LEMMA NextIInv == IInv /\ [Next]_vars => IInv'
<1> SUFFICES ASSUME IInv, [Next]_vars PROVE IInv'
    OBVIOUS
<1>1. CASE HandleFrame
    BY <1>1, HandleFrameIInv
<1>2. CASE Exit
    <2>1. Started'
        BY <1>2, ExitStarted
    <2>2. QED
        BY <2>1, StartedIInv, PTL
<1>3. CASE UNCHANGED vars
    BY <1>3 DEF vars, trk, device, IInv, TypeOK, FramesAgree, ReadersAgree,
       EveryContactTracked, TouchReported, ContactsApart, IdsKnown
<1>4. QED
    BY <1>1, <1>2, <1>3 DEF Next

\* The invariant of every behaviour of the tracker.
THEOREM Invariance == Spec => []IInv
<1>1. Init => IInv
    BY InitStarted, StartedIInv
<1>2. QED
    BY <1>1, NextIInv, PTL DEF Spec

\* Types: slots in range, no slot both active and ended, IDs masked.
THEOREM TypeCorrect == Spec => []TypeOK
<1>1. IInv => TypeOK
    BY DEF IInv
<1>2. QED
    BY <1>1, Invariance, PTL

\* After every frame fingers, slots and readers agree, whatever the frames,
\* however the slots overflow, across restarts and ID wrap-around.
THEOREM FramesSafe == Spec => []FramesAgree
<1>1. IInv => FramesAgree
    BY DEF IInv
<1>2. QED
    BY <1>1, Invariance, PTL

-----------------------------------------------------------------------------
(* What readers see refines the multi-touch protocol.                      *)

LEMMA HeldIsActive == IInv => Protocol!Held(mt) = active
<1> SUFFICES ASSUME IInv PROVE Protocol!Held(mt) = active
    OBVIOUS
<1>1. /\ active \subseteq Slots /\ id \in [Slots -> Ids]
      /\ mt = [s \in Slots |-> IF s \in active THEN id[s] ELSE NoContact]
    BY DEF IInv, TypeOK, FramesAgree, ReadersAgree
<1>2. NoContact \notin Ids
    BY TrackerAssumption DEF Ids
<1>3. QED
    BY <1>1, <1>2 DEF Protocol!Held

LEMMA FrameIsSync == IInv /\ IInv' /\ HandleFrame => Protocol!Sync
<1>1. SUFFICES ASSUME IInv, IInv', NEW pts \in Frames, NEW m, m = Match(pts),
                      Track(pts, m), Report
               PROVE  Protocol!Sync
    BY DEF HandleFrame
<1>2. Protocol!Held(mt) = active
    BY <1>1, HeldIsActive
<1>3. Protocol!Held(mt') = active'
    <2>1. (Protocol!Held(mt) = active)'
        BY <1>1, HeldIsActive, PTL
    <2>2. QED
        BY <2>1 DEF Protocol!Held
<1>4. /\ active \subseteq Slots /\ active' \subseteq Slots
      /\ mt = [s \in Slots |-> IF s \in active THEN id[s] ELSE NoContact]
      /\ mt' = [s \in Slots |-> IF s \in active' THEN id'[s] ELSE NoContact]
      /\ mt' \in [Slots -> Ids \cup {NoContact}]
      /\ btnTouch' = (active' # {})
    BY <1>1 DEF IInv, TypeOK, FramesAgree, ReadersAgree
<1>5. ASSUME NEW s \in active, s \in active' PROVE id'[s] = id[s]
    <2>1. s \notin Down(pts, m)
        BY <1>1, TrackSets, <1>5 DEF IInv
    <2>2. QED
        BY <1>1, <1>4, <2>1, TrackStep
<1>6. \A s, t \in active' : id'[s] = id'[t] => s = t
    BY <1>1 DEF IInv, IdsKnown
<1>7. QED
    BY <1>2, <1>3, <1>4, <1>5, <1>6 DEF Protocol!Sync

LEMMA ExitIsReplug == Exit => Protocol!Replug
BY DEF Exit, Empty, Protocol!Replug

LEMMA InitRefines == Init => Protocol!Init
BY DEF Init, Empty, Protocol!Init

\* Readers see the kernel's multi-touch protocol: contacts end before their
\* slot is used again, no two contacts share an ID, BTN_TOUCH follows.
THEOREM Refinement == Spec => FollowsProtocol
<1>1. IInv /\ IInv' /\ [Next]_vars => [Protocol!Next]_<<mt, btnTouch>>
    <2> SUFFICES ASSUME IInv, IInv', [Next]_vars
                 PROVE  [Protocol!Next]_<<mt, btnTouch>>
        OBVIOUS
    <2>1. CASE HandleFrame
        BY <2>1, FrameIsSync DEF Protocol!Next
    <2>2. CASE Exit
        BY <2>2, ExitIsReplug DEF Protocol!Next
    <2>3. CASE UNCHANGED vars
        BY <2>3 DEF vars, device
    <2>4. QED
        BY <2>1, <2>2, <2>3 DEF Next
<1>2. QED
    BY <1>1, InitRefines, Invariance, PTL DEF Spec, FollowsProtocol, Protocol!Spec

-----------------------------------------------------------------------------
(* Contacts are steady.                                                    *)

\* When a frame is repeated every slot takes its own contact again: by the time
\* it chooses, the slots before it have taken theirs.
LEMMA RepeatedFrame ==
    ASSUME IInv, NEW m, m = Match(frame)
    PROVE  \A s \in active : m[s] # 0 /\ frame[m[s]] = pos[s]
<1>1. /\ TypeOK /\ active \subseteq Slots /\ frame \in Frames /\ pos \in [Slots -> Pos]
      /\ \A s \in active : \E i \in DOMAIN frame : frame[i] = pos[s]
      /\ \A s, t \in active : pos[s] = pos[t] => s = t
    BY DEF IInv, TypeOK, FramesAgree, EveryContactTracked, ContactsApart
<1> DEFINE left(s) == DOMAIN frame \ {m[t] : t \in 0 .. (s - 1)}
           T == {s \in active : ~ (m[s] # 0 /\ frame[m[s]] = pos[s])}
<1>2. \A s \in Slots : m[s] = IF s \notin active THEN 0 ELSE Best(s, frame, left(s))
    <2>1. m = [s \in Slots |-> TakenBy(frame, m, s)]
        BY MatchUnfold
    <2>2. \A s \in Slots : m[s] = TakenBy(frame, m, s)
        BY <2>1
    <2>3. QED
        BY <2>2 DEF TakenBy
<1>3. SUFFICES ASSUME T # {} PROVE FALSE
    OBVIOUS
<1>4. T \in SUBSET Nat
    <2>1. Slots \in SUBSET Nat
        BY TrackerAssumption DEF Slots
    <2>2. T \in SUBSET active
        OBVIOUS
    <2>3. QED
        BY <1>1, <2>1, <2>2
<1>5. PICK s \in T : \A k \in T : s <= k
    BY <1>3, <1>4, Least
<1>6. s \in active /\ s \in Slots
    BY <1>1, <1>5
<1>7. PICK i \in DOMAIN frame : frame[i] = pos[s]
    BY <1>1, <1>6
<1>a. i # 0
    BY <1>1, <1>7, FrameFacts
<1>8. ASSUME NEW t \in 0 .. (s - 1) PROVE m[t] # i
    <2>1. t \in Slots /\ t # s /\ ~ (s <= t)
        BY <1>6, TrackerAssumption DEF Slots
    <2>2. t \notin T
        BY <1>5, <2>1
    <2>3. CASE t \in active
        BY <1>1, <1>6, <1>7, <2>1, <2>2, <2>3
    <2>4. CASE t \notin active
        BY <1>2, <1>a, <2>1, <2>4
    <2>5. QED
        BY <2>3, <2>4
<1>9. i \in left(s) /\ left(s) \in SUBSET DOMAIN frame
    BY <1>7, <1>8
<1>10. m[s] = Best(s, frame, left(s))
    BY <1>2, <1>6
<1> HIDE DEF left
<1>11. /\ m[s] \in left(s) \cup {0}
       /\ m[s] \in left(s) => Dist(frame[m[s]], pos[s]) <= Dist(frame[i], pos[s])
       /\ m[s] = 0 => ~ (Dist(frame[i], pos[s]) < MaxDist)
    BY <1>1, <1>6, <1>9, <1>10, BestChoice
<1>12. pos[s] \in Int /\ Dist(frame[i], pos[s]) = 0
    BY <1>1, <1>6, <1>7 DEF Pos, Dist
<1>13. m[s] \in left(s) /\ m[s] # 0
    BY <1>1, <1>9, <1>11, <1>12, FrameFacts, TrackerAssumption
<1>14. frame[m[s]] = pos[s]
    <2>1. frame[m[s]] \in Int
        BY <1>1, <1>9, <1>13, FrameFacts DEF Pos
    <2>2. Dist(frame[m[s]], pos[s]) <= 0
        BY <1>11, <1>12, <1>13
    <2>3. QED
        BY <1>12, <2>1, <2>2 DEF Dist
<1>15. QED
    BY <1>5, <1>13, <1>14

\* A slot that stays active with its ID keeps its contact.
LEMMA StepSteady ==
    ASSUME IInv, NEW pts \in Frames, NEW m, m = Match(pts), Track(pts, m)
    PROVE  /\ \A s \in active \cap active' : Dist(pos[s], pos'[s]) < MaxDist
           /\ frame' = frame => \A s \in active : s \in active' \ fresh' /\ id'[s] = id[s]
                                                  /\ pos'[s] = pos[s]
<1>1. TypeOK /\ active \subseteq Slots /\ pos \in [Slots -> Pos]
    BY DEF IInv, TypeOK
<1>2. ASSUME NEW s \in Kept(m)
      PROVE  /\ s \in active' \ fresh' /\ id'[s] = id[s] /\ pos'[s] = pts[m[s]]
             /\ m[s] \in DOMAIN pts /\ Dist(pts[m[s]], pos[s]) < MaxDist
    <2>1. s \in active /\ s \in Slots /\ m[s] # 0 /\ s \notin Down(pts, m)
        BY <1>1, TrackSets DEF Kept
    <2>2. Point(pts, m, s) = m[s]
        BY <2>1 DEF Point
    <2>3. m[s] \in DOMAIN pts /\ Dist(pts[m[s]], pos[s]) < MaxDist
        BY <1>1, <2>1, MatchFacts
    <2>4. QED
        BY <2>1, <2>2, <2>3, TrackStep
<1>3. ASSUME NEW s \in active \cap active' PROVE Dist(pos[s], pos'[s]) < MaxDist
    <2>1. s \in Kept(m)
        BY <1>1, TrackStep, TrackSets
    <2>2. pos'[s] \in Int /\ pos[s] \in Int
        BY <1>1, <1>2, <2>1, FrameFacts DEF Pos
    <2>3. Dist(pos'[s], pos[s]) < MaxDist
        BY <1>2, <2>1
    <2>4. QED
        BY <2>2, <2>3 DEF Dist
<1>4. ASSUME frame' = frame, NEW s \in active
      PROVE  s \in active' \ fresh' /\ id'[s] = id[s] /\ pos'[s] = pos[s]
    <2>1. pts = frame
        BY <1>4, TrackStep
    <2>2. m[s] # 0 /\ pts[m[s]] = pos[s]
        BY <2>1, RepeatedFrame
    <2>3. QED
        BY <1>2, <2>2 DEF Kept
<1>5. QED
    BY <1>3, <1>4

\* A contact stays with its finger: it moves less than TRACK_MAX_DIST from frame
\* to frame, and a hand that does not move keeps all of its contacts.
THEOREM Steady == Spec => ContactsSteady
<1> DEFINE near  == \A s \in active \cap active' :
                      id'[s] = id[s] /\ downs' >= downs => Dist(pos[s], pos'[s]) < MaxDist
           still == frame' = frame /\ nextId' >= nextId =>
                      \A s \in active : s \in active' \ fresh' /\ id'[s] = id[s]
                                        /\ pos'[s] = pos[s]
<1>1. IInv /\ [Next]_vars => [near]_vars /\ [still]_vars
    <2> SUFFICES ASSUME IInv, Next
                 PROVE  near /\ still
        OBVIOUS
    <2>1. CASE HandleFrame
        <3>1. PICK pts \in Frames : Track(pts, Match(pts))
            BY <2>1 DEF HandleFrame
        <3>2. QED
            BY <3>1, StepSteady
    <2>2. CASE Exit
        <3>1. active' = {} /\ frame' = << >>
            BY <2>2 DEF Exit
        <3>2. frame = << >> => active = {}
            BY DEF IInv, FramesAgree, EveryContactTracked
        <3>3. QED
            BY <3>1, <3>2
    <2>3. QED
        BY <2>1, <2>2 DEF Next
<1>2. QED
    BY <1>1, Invariance, PTL DEF Spec, ContactsSteady, NoJump, StillHand
-----------------------------------------------------------------------------
(* The composed daemon.                                                    *)

\* probe_count is what the counters of the types add up to at least.
ProbesKnown ==
    /\ \A t \in Types : probe[t] <= probeCount
    /\ \A t \in Pens : probe[t] = 0
    /\ refType = None => probeCount < ProbeFrames

\* The baseline under a sample.
BaseOf(x) == x.value - (IF x.finger THEN Signal ELSE 0)

\* a and b are at most d apart.
Near(a, b, d) == a - b <= d /\ b - a <= d

\* Since a sample the baseline has moved by at most one per sample.
Close(c, b) ==
    \A i \in DOMAIN c : BaseOf(c[i]) \in 0 .. MaxBase /\ Near(BaseOf(c[i]), b, Len(c) + 1 - i)

SamplesClose ==
    /\ reference # None => samples = Matrix!NoSamples
    /\ reference = None =>
          /\ refCount < RefFrames /\ held = 0
          /\ \A m \in Nodes : Len(samples[m]) = refCount /\ Close(samples[m], base[m])

\* Until patience is over no reference is farther behind its baseline than the
\* frames in which it was not followed let it be.
ReferenceNear ==
    reference # None /\ held < Matrix!Patience =>
        \A m \in Nodes : Near(base[m], reference[m], Matrix!Lag + held)

MatrixInv == /\ Matrix!TypeOK /\ Matrix!LocksOntoMatrix /\ ProbesKnown
             /\ SamplesClose /\ ReferenceNear
-----------------------------------------------------------------------------
(* The operators of the reference.                                         *)

\* FiniteSets, as the instance of ThpReference has it.
LEMMA SameCardinality == \A S : Matrix!Cardinality(S) = Cardinality(S)
BY DEF Matrix!Cardinality, Matrix!IsFiniteSet, Cardinality, IsFiniteSet

\* A set of naturals that has a bound has a greatest element.
LEMMA Greatest ==
    ASSUME NEW K \in Nat, NEW T \in SUBSET (0 .. K), T # {}
    PROVE  \E m \in T : \A k \in T : k <= m
<1> DEFINE R == {K - k : k \in T}
<1>1. R \in SUBSET Nat /\ R # {}
    <2>1. \A k \in T : K - k \in Nat
        OBVIOUS
    <2> QED BY <2>1
<1>2. PICK n \in R : \A k \in R : n <= k
    <2> HIDE DEF R
    <2> QED BY <1>1, Least
<1>3. PICK m \in T : n = K - m
    BY <1>2
<1>4. \A k \in T : k <= m
    <2> TAKE k \in T
    <2>1. K - k \in R
        OBVIOUS
    <2>2. K - m <= K - k
        BY <1>2, <1>3, <2>1
    <2> QED BY <2>2
<1> QED BY <1>4

\* The type that is locked onto is one that came most often.
LEMMA DominantOf ==
    ASSUME TouchAssumption, NEW p \in [Types -> 0 .. ProbeFrames]
    PROVE  /\ Matrix!Dominant(p) \in Types
           /\ \A u \in Types : p[u] <= p[Matrix!Dominant(p)]
<1>1. Types \in SUBSET Nat /\ Types # {} /\ ProbeFrames \in Nat
    BY DEF TouchAssumption, Matrix!ThpReferenceAssumption
<1> DEFINE Often == {p[t] : t \in Types}
<1>2. PICK m \in Often : \A k \in Often : k <= m
    <2>1. Often \in SUBSET (0 .. ProbeFrames) /\ Often # {}
        BY <1>1
    <2> HIDE DEF Often
    <2> QED BY <1>1, <2>1, Greatest
<1> DEFINE Most == {t \in Types : p[t] = m}
<1>3. PICK t \in Most : \A u \in Most : t <= u
    <2>1. Most \in SUBSET Nat /\ Most # {}
        BY <1>1, <1>2
    <2> HIDE DEF Most
    <2> QED BY <2>1, Least
<1>4. \A u \in Types : p[u] < p[t] \/ (p[u] = p[t] /\ t <= u)
    <2> TAKE u \in Types
    <2>1. p[u] \in Often /\ p[u] <= m /\ p[t] = m
        BY <1>2, <1>3
    <2>2. p[u] \in Nat /\ p[t] \in Nat
        BY <1>1, <1>3
    <2>3. CASE p[u] = m
        BY <1>3, <2>1, <2>3
    <2>4. CASE p[u] # m
        BY <2>1, <2>2, <2>4
    <2> QED BY <2>3, <2>4
<1> DEFINE d == Matrix!Dominant(p)
<1>5. d \in Types /\ \A u \in Types : p[u] < p[d] \/ (p[u] = p[d] /\ d <= u)
    BY <1>3, <1>4 DEF Matrix!Dominant
<1> HIDE DEF d
<1>6. \A u \in Types : p[u] \in Nat
    BY <1>1
<1>7. \A u \in Types : p[u] <= p[d]
    BY <1>5, <1>6
<1> QED BY <1>5, <1>7 DEF d

Column(K) == Seq([value : 0 .. K, finger : BOOLEAN])

LEMMA Counted ==
    ASSUME NEW K, NEW s \in Column(K), NEW F \in SUBSET DOMAIN s
    PROVE  /\ IsFiniteSet(F) /\ Cardinality(F) \in Nat /\ Cardinality(F) <= Len(s)
           /\ IsFiniteSet(DOMAIN s) /\ Cardinality(DOMAIN s) = Len(s)
<1>1. DOMAIN s = 1 .. Len(s) /\ Len(s) \in Nat
    BY DEF Column
<1>2. IsFiniteSet(1 .. Len(s)) /\ Cardinality(1 .. Len(s)) = Len(s)
    BY <1>1, FS_Interval
<1>3. IsFiniteSet(F) /\ Cardinality(F) <= Len(s)
    BY <1>1, <1>2, FS_Subset
<1> QED BY <1>1, <1>2, <1>3, FS_CardinalityType

\* The median is the value of a sample, with at most half of the samples below
\* it and more than half up to it.
LEMMA MedianOf ==
    ASSUME NEW K \in Nat, NEW s \in Column(K), s # << >>
    PROVE  /\ \E i \in DOMAIN s : s[i].value = Matrix!Median(s)
           /\ Cardinality(Matrix!Below(s, Matrix!Median(s))) <= Len(s) \div 2
           /\ Len(s) \div 2 < Cardinality(Matrix!UpTo(s, Matrix!Median(s)))
<1> DEFINE V == {s[i].value : i \in DOMAIN s}
           mid == Len(s) \div 2
<1>1. /\ DOMAIN s = 1 .. Len(s) /\ Len(s) \in Nat \ {0} /\ mid \in Nat /\ mid < Len(s)
      /\ \A i \in DOMAIN s : s[i].value \in 0 .. K
    <2>1. DOMAIN s = 1 .. Len(s) /\ Len(s) \in Nat \ {0}
        BY DEF Column
    <2>2. \A i \in 1 .. Len(s) : s[i] \in [value : 0 .. K, finger : BOOLEAN]
        <3> DEFINE Sample == [value : 0 .. K, finger : BOOLEAN]
        <3>1. s \in Seq(Sample)
            BY DEF Column
        <3> HIDE DEF Sample
        <3>2. \A i \in 1 .. Len(s) : s[i] \in Sample
            BY <3>1
        <3> QED BY <3>2 DEF Sample
    <2>3. \A i \in DOMAIN s : s[i].value \in 0 .. K
        BY <2>1, <2>2
    <2> QED BY <2>1, <2>3
<1>2. V \in SUBSET (0 .. K) /\ V # {}
    BY <1>1
<1>3. PICK m \in V : \A v \in V : v <= m
    <2> HIDE DEF V
    <2> QED BY <1>2, Greatest
<1> DEFINE T == {v \in V : mid < Cardinality(Matrix!UpTo(s, v))}
<1>4. m \in T
    <2>1. Matrix!UpTo(s, m) = DOMAIN s
        BY <1>3 DEF Matrix!UpTo
    <2>2. Cardinality(Matrix!UpTo(s, m)) = Len(s)
        BY <2>1, Counted
    <2> QED BY <1>1, <1>3, <2>2
<1>5. PICK v \in T : \A w \in T : v <= w
    <2>1. T \in SUBSET Nat /\ T # {}
        BY <1>2, <1>4
    <2> HIDE DEF T
    <2> QED BY <2>1, Least
<1>6. v \in V /\ mid < Cardinality(Matrix!UpTo(s, v)) /\ v \in 0 .. K
    BY <1>2, <1>5
<1>7. Cardinality(Matrix!Below(s, v)) <= mid
    <2>1. SUFFICES ASSUME ~ (Cardinality(Matrix!Below(s, v)) <= mid) PROVE FALSE
        OBVIOUS
    <2>2. Matrix!Below(s, v) \in SUBSET DOMAIN s
        BY DEF Matrix!Below
    <2>3. Cardinality(Matrix!Below(s, v)) \in Nat /\ IsFiniteSet(Matrix!Below(s, v))
        BY <2>2, Counted
    <2>4. mid < Cardinality(Matrix!Below(s, v))
        BY <1>1, <2>1, <2>3
    <2>5. Matrix!Below(s, v) # {}
        BY <1>1, <2>3, <2>4, FS_EmptySet
    <2> DEFINE W == {w \in V : w < v}
    <2>6. W \in SUBSET (0 .. K) /\ W # {}
        BY <1>2, <2>5 DEF Matrix!Below
    <2>7. PICK w \in W : \A u \in W : u <= w
        <3> HIDE DEF W
        <3> QED BY <2>6, Greatest
    <2>8. w \in V /\ w < v /\ w \in 0 .. K
        BY <1>2, <2>7
    <2>9. Matrix!Below(s, v) = Matrix!UpTo(s, w)
        <3>1. ASSUME NEW i \in DOMAIN s, s[i].value < v PROVE s[i].value <= w
            BY <2>7, <3>1
        <3>2. ASSUME NEW i \in DOMAIN s, s[i].value <= w PROVE s[i].value < v
            BY <1>1, <1>6, <2>8, <3>2
        <3> QED BY <3>1, <3>2 DEF Matrix!Below, Matrix!UpTo
    <2>10. w \in T
        BY <2>4, <2>8, <2>9
    <2>11. v <= w
        BY <1>5, <2>10
    <2> QED BY <1>6, <2>8, <2>11
<1> DEFINE c == Matrix!Median(s)
<1>8. c \in V /\ Cardinality(Matrix!Below(s, c)) <= mid /\ mid < Cardinality(Matrix!UpTo(s, c))
    <2>1. v \in V /\ Matrix!InTheMiddle(s, v)
        BY <1>6, <1>7, SameCardinality DEF Matrix!InTheMiddle
    <2>2. c \in V /\ Matrix!InTheMiddle(s, c)
        BY <2>1 DEF Matrix!Median
    <2> QED BY <2>2, SameCardinality DEF Matrix!InTheMiddle
<1>9. PICK i \in DOMAIN s : s[i].value = c
    BY <1>8
<1> HIDE DEF c
<1> QED BY <1>8, <1>9 DEF c

\* When fewer than half of the samples have a finger on them, and a finger adds
\* more than the baseline moves, the median is of a sample without one.
LEMMA MedianOfBare ==
    ASSUME NEW K \in Nat, NEW s \in Column(K), s # << >>,
           NEW F \in SUBSET DOMAIN s, 2 * Cardinality(F) < Len(s),
           \A i \in DOMAIN s \ F, j \in F : s[i].value < s[j].value
    PROVE  \E i \in DOMAIN s \ F : s[i].value = Matrix!Median(s)
<1> DEFINE v == Matrix!Median(s)
<1>1. PICK j \in DOMAIN s : s[j].value = v
    BY MedianOf
<1>2. Cardinality(Matrix!Below(s, v)) <= Len(s) \div 2
    BY MedianOf
<1> HIDE DEF v
<1>3. ASSUME j \in F PROVE FALSE
    <2>1. DOMAIN s \ F \in SUBSET Matrix!Below(s, v)
        BY <1>1, <1>3 DEF Matrix!Below
    <2>2. Matrix!Below(s, v) \in SUBSET DOMAIN s
        BY DEF Matrix!Below
    <2>3. /\ IsFiniteSet(Matrix!Below(s, v)) /\ Cardinality(Matrix!Below(s, v)) \in Nat
          /\ IsFiniteSet(F) /\ Cardinality(F) \in Nat
          /\ IsFiniteSet(DOMAIN s) /\ Cardinality(DOMAIN s) = Len(s)
        BY <2>2, Counted
    <2>4. Cardinality(DOMAIN s \ F) <= Cardinality(Matrix!Below(s, v))
        BY <2>1, <2>3, FS_Subset
    <2>5. Cardinality(DOMAIN s \ F) = Len(s) - Cardinality(F)
        <3>1. Cardinality(DOMAIN s \ F) = Cardinality(DOMAIN s) - Cardinality(DOMAIN s \cap F)
            BY <2>3, FS_Difference
        <3>2. DOMAIN s \cap F = F
            OBVIOUS
        <3> QED BY <2>3, <3>1, <3>2
    <2>6. Len(s) \in Nat
        BY DEF Column
    <2>7. Len(s) \div 2 <= Len(s) - Cardinality(F) - 1
        BY <2>3, <2>6
    <2>8. Cardinality(DOMAIN s \ F) \in Nat
        BY <2>3, <2>5, <2>6, FS_Subset, FS_CardinalityType
    <2> QED BY <1>2, <2>3, <2>4, <2>5, <2>6, <2>7
<1> QED BY <1>1, <1>3 DEF v

\* An eighth has the sign of what it is of, is never more than it, and is at
\* least one from eight on.
LEMMA EighthOf ==
    ASSUME NEW d \in Int
    PROVE  LET e == Matrix!Eighth(d)
           IN  /\ e \in Int
               /\ d >= 0 => 0 <= e /\ e <= d
               /\ d <= 0 => d <= e /\ e <= 0
               /\ d >= 8 => e >= 1
               /\ d <= -8 => e <= -1
BY DEF Matrix!Eighth
-----------------------------------------------------------------------------
(* The invariant of the reference.                                         *)

\* The last sample is of the frame that is being handled.
LEMMA SampledOf ==
    ASSUME TouchAssumption, Matrix!TypeOK, NEW m \in Nodes, Close(samples[m], base[m])
    PROVE  LET s == Matrix!Sampled(m)
               n == Len(samples[m]) + 1
           IN  /\ s \in Column(MaxBase + Signal) /\ Len(s) = n /\ s # << >>
               /\ DOMAIN s = 1 .. n /\ n \in Nat
               /\ \A i \in 1 .. n : /\ s[i].value \in Nat /\ s[i].finger \in BOOLEAN
                                    /\ BaseOf(s[i]) \in 0 .. MaxBase
                                    /\ Near(BaseOf(s[i]), base[m], n - i)
<1> DEFINE Rec == [value : 0 .. (MaxBase + Signal), finger : BOOLEAN]
           c == samples[m]
           b == base[m]
           s == Matrix!Sampled(m)
           n == Len(c) + 1
           last == [value |-> Matrix!Value(m), finger |-> finger[m]]
<1>1. /\ c \in Seq(Rec) /\ b \in 0 .. MaxBase /\ finger[m] \in BOOLEAN
      /\ MaxBase \in Nat /\ Signal \in Nat
    BY DEF Matrix!TypeOK, TouchAssumption, Matrix!ThpReferenceAssumption
<1>2. /\ Matrix!Value(m) \in 0 .. (MaxBase + Signal)
      /\ Matrix!Value(m) = b + (IF finger[m] THEN Signal ELSE 0)
    BY <1>1 DEF Matrix!Value
<1>3. last \in Rec /\ BaseOf(last) = b
    BY <1>1, <1>2 DEF BaseOf
<1>4. s = Append(c, last)
    BY DEF Matrix!Sampled
<1>5. /\ s \in Seq(Rec) /\ Len(s) = n /\ n \in Nat \ {0} /\ DOMAIN s = 1 .. n
      /\ s[n] = last /\ \A i \in 1 .. Len(c) : s[i] = c[i]
      /\ \A i \in 1 .. n : s[i] \in Rec
      /\ DOMAIN c = 1 .. Len(c) /\ Len(c) \in Nat
    <2> HIDE DEF Rec, last, s, c
    <2> QED BY <1>1, <1>3, <1>4
<1>6. \A i \in 1 .. n : s[i].value \in Nat /\ s[i].finger \in BOOLEAN
    <2> HIDE DEF s, c
    <2> QED BY <1>1, <1>5
<1>c. Close(c, b)
    OBVIOUS
<1>7. \A i \in 1 .. n : BaseOf(s[i]) \in 0 .. MaxBase /\ Near(BaseOf(s[i]), b, n - i)
    <2> TAKE i \in 1 .. n
    <2> HIDE DEF s, last, c, b
    <2>1. CASE i = n
        BY <1>1, <1>3, <1>5, <2>1 DEF Near
    <2>2. CASE i # n
        <3>1. i \in 1 .. Len(c)
            BY <1>5, <2>2
        <3>2. BaseOf(c[i]) \in 0 .. MaxBase /\ Near(BaseOf(c[i]), b, Len(c) + 1 - i)
            BY <1>5, <1>c, <3>1 DEF Close
        <3>3. s[i] = c[i] /\ n - i = Len(c) + 1 - i
            BY <1>5, <3>1
        <3> HIDE DEF n
        <3> QED BY <3>2, <3>3
    <2> QED BY <2>1, <2>2
<1>8. s # << >>
    <2> HIDE DEF s, c
    <2> QED BY <1>5
<1> HIDE DEF s
<1> QED BY <1>5, <1>6, <1>7, <1>8 DEF Column, s

\* With fingers on fewer than half of the samples the reference is the baseline
\* under one of them.
LEMMA BareReference ==
    ASSUME TouchAssumption, Matrix!TypeOK, NEW m \in Nodes, Close(samples[m], base[m]),
           Len(Matrix!Sampled(m)) <= RefFrames,
           2 * Cardinality(Matrix!Fingers(m)) < Len(Matrix!Sampled(m))
    PROVE  \E i \in DOMAIN Matrix!Sampled(m) \ Matrix!Fingers(m) :
              Matrix!Sampled(m)[i].value = Matrix!Median(Matrix!Sampled(m))
<1> DEFINE s == Matrix!Sampled(m)
           F == Matrix!Fingers(m)
           n == Len(samples[m]) + 1
           b == base[m]
<1>1. /\ s \in Column(MaxBase + Signal) /\ Len(s) = n /\ s # << >>
      /\ DOMAIN s = 1 .. n /\ n \in Nat
      /\ \A i \in 1 .. n : /\ s[i].value \in Nat /\ s[i].finger \in BOOLEAN
                           /\ BaseOf(s[i]) \in 0 .. MaxBase
                           /\ Near(BaseOf(s[i]), b, n - i)
    BY SampledOf
<1>2. F = {i \in DOMAIN s : s[i].finger}
    BY DEF Matrix!Fingers
<1>3. /\ MaxBase \in Nat /\ Signal \in Nat /\ RefFrames \in Nat /\ 2 * RefFrames < Signal
      /\ b \in 0 .. MaxBase
    BY DEF Matrix!TypeOK, TouchAssumption, Matrix!ThpReferenceAssumption
<1>4. n <= RefFrames /\ 2 * Cardinality(F) < Len(s)
    BY <1>1
<1> HIDE DEF s, F, n, b
<1>5. \A i \in DOMAIN s \ F, j \in F : s[i].value < s[j].value
    <2> TAKE i \in DOMAIN s \ F, j \in F
    <2>1. i \in 1 .. n /\ j \in 1 .. n /\ ~ s[i].finger /\ s[j].finger
        BY <1>1, <1>2
    <2>2. BaseOf(s[i]) = s[i].value /\ BaseOf(s[j]) = s[j].value - Signal
        BY <1>1, <2>1, <1>3 DEF BaseOf
    <2>3. s[i].value - b <= n - i /\ b - (s[j].value - Signal) <= n - j
        BY <1>1, <2>1, <2>2 DEF Near
    <2>4. s[i].value \in Nat /\ s[j].value \in Nat
        BY <1>1, <2>1
    <2> QED BY <1>1, <1>3, <1>4, <2>1, <2>3, <2>4, SMTT(30)
<1>6. F \in SUBSET DOMAIN s /\ MaxBase + Signal \in Nat
    BY <1>2, <1>3
<1>7. \E i \in DOMAIN s \ F : s[i].value = Matrix!Median(s)
    BY <1>1, <1>4, <1>5, <1>6, MedianOfBare
<1> QED BY <1>7 DEF s, F

LEMMA Constants ==
    ASSUME TouchAssumption
    PROVE  /\ Types \subseteq Nat /\ Pens \subseteq Types
           /\ None \notin Types /\ None \notin Shapes /\ None \notin Nat
           /\ ProbeFrames \in Nat \ {0} /\ RefFrames \in Nat \ {0}
           /\ Threshold \in Nat /\ Signal \in Nat /\ MaxBase \in Nat
           /\ Starts \subseteq 0 .. MaxBase
           /\ MaxBase + Signal \in Nat
           /\ Matrix!Lag \in Nat /\ Matrix!Lag >= 8 /\ Matrix!Lag >= RefFrames
           /\ Matrix!Patience \in Nat \ {0} /\ Threshold \div 2 \in Nat
           /\ Matrix!Lag + Matrix!Patience = Threshold \div 2
           /\ 2 * (Threshold \div 2) <= Threshold /\ Threshold <= Signal
BY DEF TouchAssumption, Matrix!ThpReferenceAssumption, Matrix!Lag, Matrix!Patience

\* A reference is a function, and None is not one.
LEMMA ReferenceIs ==
    ASSUME TouchAssumption, NEW f \in [Nodes -> Nat]
    PROVE  f # None
BY DEF TouchAssumption, Matrix!ThpReferenceAssumption

LEMMA InitMatrix == TouchAssumption /\ Matrix!Init => MatrixInv
<1> SUFFICES ASSUME TouchAssumption, Matrix!Init PROVE MatrixInv
    OBVIOUS
<1> USE Constants DEF Matrix!Init
<1>2. /\ samples = Matrix!NoSamples /\ refCount = 0 /\ held = 0 /\ reference = None
      /\ \A m \in Nodes : samples[m] = << >> /\ Len(samples[m]) = 0 /\ DOMAIN samples[m] = {}
    BY DEF Matrix!NoSamples
<1>3. Matrix!TypeOK
    <2>1. samples \in [Nodes -> Seq([value : 0 .. (MaxBase + Signal), finger : BOOLEAN])]
        BY <1>2 DEF Matrix!NoSamples
    <2>2. probe \in [Types -> 0 .. ProbeFrames]
        OBVIOUS
    <2>3. base \in [Nodes -> 0 .. MaxBase] /\ finger \in [Nodes -> BOOLEAN]
        OBVIOUS
    <2>4. probeCount \in 0 .. ProbeFrames /\ refCount \in 0 .. RefFrames
          /\ held \in 0 .. Matrix!Patience
        BY <1>2
    <2>5. /\ refType \in Types \cup {None} /\ shape \in Shapes \cup {None}
          /\ reference \in [Nodes -> 0 .. (MaxBase + Signal)] \cup {None}
        OBVIOUS
    <2> QED BY <2>1, <2>2, <2>3, <2>4, <2>5 DEF Matrix!TypeOK
<1>4. Matrix!LocksOntoMatrix /\ ProbesKnown
    BY DEF Matrix!LocksOntoMatrix, ProbesKnown
<1>5. SamplesClose /\ ReferenceNear
    BY <1>2 DEF SamplesClose, ReferenceNear, Close
<1> QED BY <1>3, <1>4, <1>5 DEF MatrixInv

\* The counters of a type that is not known yet.
LEMMA ProbeTypeStep ==
    ASSUME TouchAssumption, MatrixInv, NEW t \in Types, Matrix!ProbeType(t), UNCHANGED finger
    PROVE  MatrixInv'
<1>1. /\ refType = None
      /\ UNCHANGED <<shape, refCount, samples, reference, base, held, finger>>
    BY DEF Matrix!ProbeType
<1>2. /\ probe \in [Types -> 0 .. ProbeFrames] /\ probeCount \in 0 .. ProbeFrames
      /\ probeCount < ProbeFrames /\ \A u \in Types : probe[u] <= probeCount
      /\ \A u \in Pens : probe[u] = 0
    BY <1>1 DEF MatrixInv, Matrix!TypeOK, ProbesKnown
<1>3. SamplesClose' /\ ReferenceNear'
    BY <1>1 DEF MatrixInv, SamplesClose, ReferenceNear
<1>4. /\ probe' \in [Types -> 0 .. ProbeFrames] /\ probeCount' \in 0 .. ProbeFrames
      /\ refType' \in Types \cup {None} /\ ProbesKnown' /\ Matrix!LocksOntoMatrix'
    <2>1. CASE t \in Pens
        BY <1>1, <1>2, <2>1
           DEF Matrix!ProbeType, Matrix!Counts, ProbesKnown, Matrix!LocksOntoMatrix
    <2>2. CASE t \notin Pens
        <3>1. /\ probe' = [probe EXCEPT ![t] = @ + 1] /\ probeCount' = probeCount + 1
              /\ refType' = IF probeCount' < ProbeFrames THEN None ELSE Matrix!Dominant(probe')
            BY <2>2 DEF Matrix!ProbeType, Matrix!Counts
        <3>2. /\ probe'[t] = probe[t] + 1 /\ \A u \in Types \ {t} : probe'[u] = probe[u]
              /\ probeCount' \in 0 .. ProbeFrames /\ ProbeFrames \in Nat
              /\ \A u \in Types : probe[u] \in Nat
            BY <1>2, <3>1, Constants
        <3>3. \A u \in Types : probe'[u] \in 0 .. ProbeFrames /\ probe'[u] <= probeCount'
            <4> TAKE u \in Types
            <4>1. CASE u = t
                BY <1>2, <3>1, <3>2, <4>1
            <4>2. CASE u # t
                BY <1>2, <3>1, <3>2, <4>2
            <4> QED BY <4>1, <4>2
        <3>4. probe' \in [Types -> 0 .. ProbeFrames]
            BY <1>2, <3>1, <3>3
        <3>5. \A u \in Pens : probe'[u] = 0
            BY <1>2, <2>2, <3>2, Constants
        <3>6. CASE probeCount' < ProbeFrames
            <4>1. refType' = None
                BY <3>1, <3>6
            <4> QED BY <3>2, <3>3, <3>4, <3>5, <3>6, <4>1 DEF ProbesKnown, Matrix!LocksOntoMatrix
        <3>7. CASE ~ (probeCount' < ProbeFrames)
            <4> DEFINE p == probe'
            <4>1. p \in [Types -> 0 .. ProbeFrames]
                BY <3>4
            <4>2. refType' = Matrix!Dominant(p)
                BY <3>1, <3>7
            <4> HIDE DEF p
            <4>3. /\ Matrix!Dominant(p) \in Types
                  /\ \A u \in Types : p[u] <= p[Matrix!Dominant(p)]
                BY <4>1, DominantOf
            <4>4. refType' \in Types /\ \A u \in Types : p[u] <= p[refType']
                BY <4>2, <4>3
            <4>5. refType' \notin Pens
                <5>1. p[t] >= 1 /\ p[t] \in Nat
                    BY <3>2 DEF p
                <5>2. \A u \in Pens : p[u] = 0
                    BY <3>5 DEF p
                <5> QED BY <4>4, <5>1, <5>2
            <4>6. refType' # None
                BY <4>4, Constants
            <4> QED BY <3>2, <3>3, <3>4, <3>5, <4>4, <4>5, <4>6
                    DEF ProbesKnown, Matrix!LocksOntoMatrix, p
        <3> QED BY <3>6, <3>7
    <2> QED BY <2>1, <2>2
<1>5. Matrix!TypeOK'
    BY <1>1, <1>4 DEF MatrixInv, Matrix!TypeOK
<1> QED BY <1>3, <1>4, <1>5 DEF MatrixInv

\* A value that moves by one stays near another.
LEMMA NearMoves ==
    ASSUME NEW a \in Int, NEW b \in Int, NEW c \in Int, NEW k \in Int,
           a - b <= k, b - a <= k, c - b <= 1, b - c <= 1
    PROVE  a - c <= k + 1 /\ c - a <= k + 1
OBVIOUS

LEMMA ByOne ==
    ASSUME NEW a \in Int, NEW b \in Int, a - b \in -1 .. 1
    PROVE  a - b <= 1 /\ b - a <= 1
OBVIOUS

\* What a frame that counts does to a baseline.
LEMMA Drifts ==
    ASSUME TouchAssumption, Matrix!TypeOK, Matrix!Drift, NEW m \in Nodes
    PROVE  /\ base[m] \in 0 .. MaxBase /\ base'[m] \in 0 .. MaxBase
           /\ base'[m] - base[m] <= 1 /\ base[m] - base'[m] <= 1
<1>1. base[m] \in 0 .. MaxBase /\ base'[m] \in 0 .. MaxBase /\ base'[m] - base[m] \in -1 .. 1
    BY DEF Matrix!Drift, Matrix!TypeOK
<1>2. base[m] \in Int /\ base'[m] \in Int
    BY <1>1, Constants
<1> QED BY <1>1, <1>2, ByOne

\* The new sample is as close to the baseline as the others.
LEMMA SampledClose ==
    ASSUME TouchAssumption, Matrix!TypeOK, NEW m \in Nodes, Close(samples[m], base[m]),
           NEW b \in 0 .. MaxBase, b - base[m] <= 1, base[m] - b <= 1
    PROVE  Close(Matrix!Sampled(m), b)
<1> DEFINE s == Matrix!Sampled(m)
           n == Len(samples[m]) + 1
           o == base[m]
<1>1. /\ Len(s) = n /\ DOMAIN s = 1 .. n /\ n \in Nat
      /\ \A i \in 1 .. n : BaseOf(s[i]) \in 0 .. MaxBase /\ Near(BaseOf(s[i]), o, n - i)
    BY SampledOf
<1>2. o \in 0 .. MaxBase /\ MaxBase \in Nat /\ b - o <= 1 /\ o - b <= 1
    BY Constants DEF Matrix!TypeOK
<1> HIDE DEF s, n, o
<1>3. ASSUME NEW i \in 1 .. n PROVE Near(BaseOf(s[i]), b, Len(s) + 1 - i)
    <2> DEFINE a == BaseOf(s[i])
    <2>1. a \in 0 .. MaxBase /\ Near(a, o, n - i)
        BY <1>1
    <2> HIDE DEF a
    <2>2. a \in Int /\ o \in Int /\ b \in Int /\ n - i \in Int
        BY <1>1, <1>2, <2>1
    <2>3. a - o <= n - i /\ o - a <= n - i
        BY <2>1 DEF Near
    <2>4. a - b <= (n - i) + 1 /\ b - a <= (n - i) + 1
        BY <1>2, <2>2, <2>3, NearMoves
    <2>5. (n - i) + 1 = Len(s) + 1 - i
        BY <1>1
    <2>6. Near(a, b, Len(s) + 1 - i)
        BY <2>4, <2>5 DEF Near
    <2> QED BY <2>6 DEF a
<1>4. Close(s, b)
    BY <1>1, <1>3 DEF Close
<1> QED BY <1>4 DEF s

\* The reference a column gives.
LEMMA MedianType ==
    ASSUME TouchAssumption, Matrix!TypeOK, NEW m \in Nodes, Close(samples[m], base[m])
    PROVE  Matrix!Median(Matrix!Sampled(m)) \in 0 .. (MaxBase + Signal)
<1> DEFINE Rec == [value : 0 .. (MaxBase + Signal), finger : BOOLEAN]
           s == Matrix!Sampled(m)
           n == Len(samples[m]) + 1
<1>1. /\ s \in Column(MaxBase + Signal) /\ s # << >> /\ Len(s) = n /\ DOMAIN s = 1 .. n
      /\ s \in Seq(Rec)
    BY SampledOf DEF Column
<1>2. MaxBase + Signal \in Nat
    BY Constants
<1> HIDE DEF s, n
<1>3. PICK i \in DOMAIN s : s[i].value = Matrix!Median(s)
    BY <1>1, <1>2, MedianOf
<1>4. s[i] \in Rec
    <2> HIDE DEF Rec
    <2> QED BY <1>1
<1> QED BY <1>3, <1>4 DEF s

\* The reference a column without a finger in half of it gives.
LEMMA MedianNear ==
    ASSUME TouchAssumption, Matrix!TypeOK, NEW m \in Nodes, Close(samples[m], base[m]),
           Len(samples[m]) + 1 = RefFrames, ~ Matrix!Covered(m),
           NEW b \in 0 .. MaxBase, b - base[m] <= 1, base[m] - b <= 1
    PROVE  Near(b, Matrix!Median(Matrix!Sampled(m)), Matrix!Lag)
<1> DEFINE s == Matrix!Sampled(m)
           F == Matrix!Fingers(m)
           n == Len(samples[m]) + 1
           o == base[m]
           v == Matrix!Median(s)
<1>1. /\ s \in Column(MaxBase + Signal) /\ Len(s) = n /\ DOMAIN s = 1 .. n /\ n \in Nat
      /\ \A i \in 1 .. n : BaseOf(s[i]) \in 0 .. MaxBase /\ Near(BaseOf(s[i]), o, n - i)
    BY SampledOf
<1>2. 2 * Cardinality(F) < Len(s)
    <2>1. F \in SUBSET DOMAIN s
        BY DEF Matrix!Fingers
    <2>2. ~ (2 * Cardinality(F) >= RefFrames)
        BY SameCardinality DEF Matrix!Covered
    <2>3. Len(s) = RefFrames /\ RefFrames \in Nat
        BY <1>1, Constants
    <2> HIDE DEF s, F
    <2>4. Cardinality(F) \in Nat
        BY <1>1, <2>1, Counted
    <2> QED BY <2>2, <2>3, <2>4
<1>3. Len(s) <= RefFrames
    BY <1>1, Constants
<1>4. PICK i \in DOMAIN s \ F : s[i].value = v
    BY <1>2, <1>3, BareReference
<1>5. i \in 1 .. n /\ ~ s[i].finger
    BY <1>1, <1>4 DEF Matrix!Fingers
<1>6. v \in Nat
    BY MedianType, Constants
<1>7. o \in Nat /\ MaxBase \in Nat /\ b \in Nat /\ b - o <= 1 /\ o - b <= 1
      /\ n <= Matrix!Lag /\ Matrix!Lag \in Nat
    BY Constants DEF Matrix!TypeOK
<1> HIDE DEF s, n, o, v
<1>8. BaseOf(s[i]) = v
    BY <1>4, <1>5, <1>6 DEF BaseOf
<1>9. v - o <= n - i /\ o - v <= n - i
    BY <1>1, <1>5, <1>8 DEF Near
<1>10. v \in Int /\ o \in Int /\ b \in Int /\ n - i \in Int
    BY <1>1, <1>5, <1>6, <1>7
<1>11. v - b <= (n - i) + 1 /\ b - v <= (n - i) + 1
    BY <1>7, <1>9, <1>10, NearMoves
<1>12. (n - i) + 1 <= Matrix!Lag
    BY <1>1, <1>5, <1>7
<1>13. v - b <= Matrix!Lag /\ b - v <= Matrix!Lag
    BY <1>7, <1>10, <1>11, <1>12
<1> QED BY <1>13 DEF Near, v, s

LEMMA SampleStep ==
    ASSUME TouchAssumption, MatrixInv, NEW t \in Types, NEW g \in Shapes,
           Matrix!Sample(t, g), UNCHANGED finger
    PROVE  MatrixInv'
<1>1. /\ Matrix!TypeOK /\ reference = None /\ Matrix!Drift
      /\ refCount' = refCount + 1
      /\ UNCHANGED <<probe, probeCount, refType, finger>>
      /\ shape' \in Shapes \cup {None}
    BY DEF Matrix!Sample, MatrixInv, Matrix!TypeOK
<1>2. /\ refCount \in 0 .. RefFrames /\ refCount < RefFrames /\ RefFrames \in Nat /\ held = 0
      /\ \A m \in Nodes : Len(samples[m]) = refCount /\ Close(samples[m], base[m])
    BY <1>1, Constants DEF MatrixInv, SamplesClose, Matrix!TypeOK
<1>3. \A m \in Nodes : /\ base'[m] \in 0 .. MaxBase
                       /\ base'[m] - base[m] <= 1 /\ base[m] - base'[m] <= 1
    BY <1>1, Drifts
<1>4. Matrix!LocksOntoMatrix' /\ ProbesKnown'
    BY <1>1 DEF MatrixInv, Matrix!LocksOntoMatrix, ProbesKnown
<1>5. refCount' \in 0 .. RefFrames /\ base' \in [Nodes -> 0 .. MaxBase]
    BY <1>1, <1>2 DEF Matrix!Drift
<1>6. CASE refCount' < RefFrames
    <2>1. /\ samples' = [m \in Nodes |-> Matrix!Sampled(m)]
          /\ reference' = None /\ held' = 0
        BY <1>1, <1>2, <1>6 DEF Matrix!Sample
    <2>2. ASSUME NEW m \in Nodes
          PROVE  /\ samples'[m] \in Seq([value : 0 .. (MaxBase + Signal), finger : BOOLEAN])
                 /\ Len(samples'[m]) = refCount' /\ Close(samples'[m], base'[m])
        <3>1. samples'[m] = Matrix!Sampled(m)
            BY <2>1
        <3>2. /\ Matrix!Sampled(m) \in Column(MaxBase + Signal)
              /\ Len(Matrix!Sampled(m)) = Len(samples[m]) + 1
            BY <1>1, <1>2, SampledOf
        <3> DEFINE b == base'[m]
        <3>3. b \in 0 .. MaxBase /\ b - base[m] <= 1 /\ base[m] - b <= 1
            BY <1>3
        <3> HIDE DEF b
        <3>4. Close(Matrix!Sampled(m), b)
            BY <1>1, <1>2, <3>3, SampledClose
        <3> QED BY <1>1, <1>2, <3>1, <3>2, <3>4 DEF Column, b
    <2>3. SamplesClose'
        BY <1>6, <2>1, <2>2 DEF SamplesClose, Close, BaseOf
    <2>4. ReferenceNear'
        BY <2>1 DEF ReferenceNear
    <2>5. Matrix!TypeOK'
        <3>1. samples' \in [Nodes -> Seq([value : 0 .. (MaxBase + Signal), finger : BOOLEAN])]
            BY <2>1, <2>2
        <3>2. held' \in 0 .. Matrix!Patience
            BY <2>1, Constants
        <3> QED BY <1>1, <1>5, <2>1, <3>1, <3>2 DEF Matrix!TypeOK, Matrix!Patience, Matrix!Lag
    <2> QED BY <1>4, <2>3, <2>4, <2>5 DEF MatrixInv
<1>7. CASE ~ (refCount' < RefFrames)
    <2>1. /\ samples' = Matrix!NoSamples
          /\ reference' = [m \in Nodes |-> Matrix!Median(Matrix!Sampled(m))]
          /\ held' = IF \E m \in Nodes : Matrix!Covered(m) THEN Matrix!Patience ELSE 0
        BY <1>7 DEF Matrix!Sample, Matrix!BuildReference
    <2>2. refCount + 1 = RefFrames
        BY <1>1, <1>2, <1>7
    <2>3. reference' \in [Nodes -> 0 .. (MaxBase + Signal)]
        BY <1>1, <1>2, <2>1, MedianType
    <2>4. reference' # None
        <3>1. reference' \in [Nodes -> Nat]
            BY <2>3, Constants
        <3> QED BY <3>1, ReferenceIs
    <2>5. SamplesClose'
        BY <2>1, <2>4 DEF SamplesClose, Matrix!NoSamples
    <2>6. ReferenceNear'
        <3> SUFFICES ASSUME held' < Matrix!Patience, NEW m \in Nodes
                     PROVE  Near(base'[m], reference'[m], Matrix!Lag + held')
            BY DEF ReferenceNear, Matrix!Patience, Matrix!Lag, Near
        <3>1. held' = 0 /\ ~ Matrix!Covered(m)
            BY <2>1, Constants
        <3> DEFINE b == base'[m]
        <3>2. b \in 0 .. MaxBase /\ b - base[m] <= 1 /\ base[m] - b <= 1
            BY <1>3
        <3>3. Close(samples[m], base[m]) /\ Len(samples[m]) + 1 = RefFrames
            BY <1>2, <2>2
        <3> HIDE DEF b
        <3>4. Near(b, Matrix!Median(Matrix!Sampled(m)), Matrix!Lag)
            BY <1>1, <3>1, <3>2, <3>3, MedianNear
        <3>5. reference'[m] = Matrix!Median(Matrix!Sampled(m))
            BY <2>1
        <3>6. Matrix!Lag + held' = Matrix!Lag
            BY <3>1, Constants
        <3> QED BY <3>4, <3>5, <3>6 DEF b
    <2>7. Matrix!TypeOK'
        <3>1. samples' \in [Nodes -> Seq([value : 0 .. (MaxBase + Signal), finger : BOOLEAN])]
            BY <2>1 DEF Matrix!NoSamples
        <3>2. held' \in 0 .. Matrix!Patience
            BY <2>1, Constants
        <3> QED BY <1>1, <1>5, <2>3, <3>1, <3>2 DEF Matrix!TypeOK, Matrix!Patience, Matrix!Lag
    <2> QED BY <1>4, <2>5, <2>6, <2>7 DEF MatrixInv
<1> QED BY <1>6, <1>7

\* A reference that follows stays as near as it was, one that does not falls behind
\* by one.
LEMMA Followed ==
    ASSUME NEW b \in Int, NEW c \in Int, NEW q \in Int, NEW k \in Int, k >= 8,
           Near(b, q, k), c - b <= 1, b - c <= 1
    PROVE  /\ Near(c, q, k + 1)
           /\ Near(c, q + Matrix!Eighth(b - q), k)
<1> DEFINE d == b - q
           e == Matrix!Eighth(d)
<1>1. d <= k /\ - d <= k /\ d \in Int
    BY DEF Near
<1>2. /\ e \in Int
      /\ d >= 0 => 0 <= e /\ e <= d
      /\ d <= 0 => d <= e /\ e <= 0
      /\ d >= 8 => e >= 1
      /\ d <= -8 => e <= -1
    BY <1>1, EighthOf
<1>3. d = b - q
    OBVIOUS
<1> HIDE DEF d, e
<1>4. d - e <= k - 1 /\ e - d <= k - 1
    BY <1>1, <1>2
<1>5. c - (q + e) <= k /\ (q + e) - c <= k
    BY <1>2, <1>3, <1>4
<1>6. c - q <= k + 1 /\ q - c <= k + 1
    BY <1>1, <1>3
<1> QED BY <1>5, <1>6 DEF Near, e, d

\* What the deltas are while patience lasts.
LEMMA DeltaOf ==
    ASSUME TouchAssumption, Matrix!TypeOK, ReferenceNear, reference # None,
           held < Matrix!Patience, NEW m \in Nodes
    PROVE  /\ ~ finger[m] => /\ Matrix!Delta(m) = base[m] - reference[m]
                             /\ - (Threshold \div 2) < Matrix!Delta(m)
                             /\ Matrix!Delta(m) < Threshold \div 2
           /\ finger[m] => Matrix!Delta(m) >= Threshold \div 2
<1> DEFINE b == base[m]
           q == reference[m]
           h == Threshold \div 2
           k == Matrix!Lag + held
<1>1. b \in Nat /\ q \in Nat /\ finger[m] \in BOOLEAN /\ held \in Nat
    BY Constants DEF Matrix!TypeOK
<1>2. /\ h \in Nat /\ k \in Nat /\ k < h /\ 2 * h <= Threshold /\ Threshold <= Signal
      /\ Threshold \in Nat /\ Signal \in Nat
    BY <1>1, Constants
<1>3. b - q <= k /\ q - b <= k
    BY DEF ReferenceNear, Near
<1>4. /\ Matrix!Delta(m) = Matrix!Value(m) - q
      /\ Matrix!Value(m) = IF finger[m] THEN b + Signal ELSE b
    BY <1>1, <1>2 DEF Matrix!Delta, Matrix!Value
<1> HIDE DEF b, q, h, k
<1>5. ~ finger[m] => Matrix!Delta(m) = b - q /\ - h < b - q /\ b - q < h
    BY <1>1, <1>2, <1>3, <1>4
<1>6. finger[m] => Matrix!Delta(m) >= h
    BY <1>1, <1>2, <1>3, <1>4
<1> QED BY <1>5, <1>6 DEF b, q, h

\* A followed reference stays between what it was and what the node shows.
LEMMA EighthType ==
    ASSUME NEW K \in Nat, NEW q \in 0 .. K, NEW v \in 0 .. K
    PROVE  q + Matrix!Eighth(v - q) \in 0 .. K
<1> DEFINE d == v - q
           e == Matrix!Eighth(d)
<1>1. d \in Int
    OBVIOUS
<1>2. /\ e \in Int
      /\ d >= 0 => 0 <= e /\ e <= d
      /\ d <= 0 => d <= e /\ e <= 0
    BY <1>1, EighthOf
<1>3. d = v - q
    OBVIOUS
<1> HIDE DEF d, e
<1>4. q + e \in 0 .. K
    BY <1>1, <1>2, <1>3
<1> QED BY <1>4 DEF d, e

LEMMA MeasureStep ==
    ASSUME TouchAssumption, MatrixInv, NEW t \in Types, NEW g \in Shapes,
           Matrix!Measure(t, g), UNCHANGED finger
    PROVE  MatrixInv'
<1> DEFINE Following == [m \in Nodes |-> reference[m] + Matrix!Eighth(Matrix!Delta(m))]
<1>1. /\ reference # None /\ Matrix!Drift
      /\ reference' = IF Matrix!Quiet THEN Following ELSE reference
      /\ held' = IF Matrix!Touched /\ held < Matrix!Patience THEN held + 1 ELSE held
      /\ UNCHANGED <<probe, probeCount, refType, shape, refCount, samples, finger>>
    BY DEF Matrix!Measure, Matrix!filter
<1>2. \A m \in Nodes : /\ base[m] \in 0 .. MaxBase /\ base'[m] \in 0 .. MaxBase
                       /\ base'[m] - base[m] <= 1 /\ base[m] - base'[m] <= 1
    BY <1>1, Drifts DEF MatrixInv
<1>3. /\ reference \in [Nodes -> 0 .. (MaxBase + Signal)] /\ finger \in [Nodes -> BOOLEAN]
      /\ held \in 0 .. Matrix!Patience /\ Matrix!TypeOK /\ ReferenceNear
    BY <1>1 DEF MatrixInv, Matrix!TypeOK
<1>4. \A m \in Nodes : Matrix!Value(m) \in 0 .. (MaxBase + Signal)
    BY <1>2, <1>3, Constants DEF Matrix!Value
<1>5. Following \in [Nodes -> 0 .. (MaxBase + Signal)]
    <2> SUFFICES ASSUME NEW m \in Nodes
                 PROVE  reference[m] + Matrix!Eighth(Matrix!Delta(m)) \in 0 .. (MaxBase + Signal)
        OBVIOUS
    <2>1. MaxBase + Signal \in Nat /\ reference[m] \in 0 .. (MaxBase + Signal)
          /\ Matrix!Value(m) \in 0 .. (MaxBase + Signal)
        BY <1>3, <1>4, Constants
    <2> QED BY <2>1, EighthType DEF Matrix!Delta
<1>6. reference' \in [Nodes -> 0 .. (MaxBase + Signal)]
    BY <1>1, <1>3, <1>5
<1>7. held' \in 0 .. Matrix!Patience /\ base' \in [Nodes -> 0 .. MaxBase]
    BY <1>1, <1>3, Constants DEF Matrix!Drift
<1>8. Matrix!LocksOntoMatrix' /\ ProbesKnown'
    BY <1>1 DEF MatrixInv, Matrix!LocksOntoMatrix, ProbesKnown
<1>9. SamplesClose'
    <2>1. reference' # None
        <3>1. reference' \in [Nodes -> Nat]
            BY <1>6, Constants
        <3> QED BY <3>1, ReferenceIs
    <2> QED BY <1>1, <2>1 DEF MatrixInv, SamplesClose, Matrix!NoSamples
<1>10. ReferenceNear'
    <2> SUFFICES ASSUME held' < Matrix!Patience, NEW m \in Nodes
                 PROVE  Near(base'[m], reference'[m], Matrix!Lag + held')
        BY DEF ReferenceNear, Matrix!Patience, Matrix!Lag, Near
    <2>1. held < Matrix!Patience /\ held \in Nat
        BY <1>1, <1>3, Constants
    <2> DEFINE b == base[m]
               c == base'[m]
               q == reference[m]
               k == Matrix!Lag + held
    <2>2. /\ b \in Int /\ c \in Int /\ q \in Int /\ k \in Int /\ k >= 8
          /\ Near(b, q, k) /\ c - b <= 1 /\ b - c <= 1
        BY <1>1, <1>2, <1>3, <2>1, Constants DEF ReferenceNear
    <2>3. CASE Matrix!Touched
        <3>1. PICK x \in Nodes : finger[x]
            BY <2>3 DEF Matrix!Touched
        <3>2. Matrix!Delta(x) >= Threshold \div 2
            BY <1>1, <1>3, <2>1, <3>1, DeltaOf
        <3>3. Matrix!Delta(x) \in Int /\ Threshold \div 2 \in Int
            BY <1>3, <1>4, Constants DEF Matrix!Delta
        <3>4. ~ Matrix!Quiet
            BY <3>2, <3>3 DEF Matrix!Quiet
        <3>5. reference'[m] = q /\ Matrix!Lag + held' = k + 1
            BY <1>1, <2>1, <2>3, <3>4, Constants
        <3> HIDE DEF b, c, q, k
        <3>6. Near(c, q, k + 1)
            BY <2>2, Followed
        <3> QED BY <3>5, <3>6 DEF c
    <2>4. CASE ~ Matrix!Touched
        <3>1. \A x \in Nodes : ~ finger[x]
            BY <2>4 DEF Matrix!Touched
        <3>2. Matrix!Quiet /\ Matrix!Delta(m) = b - q
            BY <1>1, <1>3, <2>1, <3>1, DeltaOf DEF Matrix!Quiet
        <3>3. reference'[m] = q + Matrix!Eighth(b - q) /\ Matrix!Lag + held' = k
            BY <1>1, <2>4, <3>2
        <3> HIDE DEF b, c, q, k
        <3>4. Near(c, q + Matrix!Eighth(b - q), k)
            BY <2>2, Followed
        <3> QED BY <3>3, <3>4 DEF c
    <2> QED BY <2>3, <2>4
<1>11. Matrix!TypeOK'
    <2> HIDE DEF Following
    <2> QED BY <1>1, <1>3, <1>6, <1>7 DEF Matrix!TypeOK, Matrix!Patience, Matrix!Lag
<1> QED BY <1>8, <1>9, <1>10, <1>11 DEF MatrixInv

LEMMA NextMatrix == TouchAssumption /\ MatrixInv /\ [Matrix!Next]_matrix => MatrixInv'
<1> SUFFICES ASSUME TouchAssumption, MatrixInv, [Matrix!Next]_matrix PROVE MatrixInv'
    OBVIOUS
<1>1. CASE Matrix!Frame
    BY <1>1, ProbeTypeStep, SampleStep, MeasureStep DEF Matrix!Frame
<1>2. CASE Matrix!Finger
    <2>1. /\ UNCHANGED <<probe, probeCount, refType, shape, refCount, samples, reference,
                          base, held>>
          /\ finger' \in [Nodes -> BOOLEAN]
        BY <1>2 DEF Matrix!Finger, Matrix!filter, MatrixInv, Matrix!TypeOK
    <2> QED BY <2>1 DEF MatrixInv, Matrix!TypeOK, Matrix!LocksOntoMatrix, ProbesKnown,
                    SamplesClose, ReferenceNear, Matrix!NoSamples, Matrix!Patience, Matrix!Lag
<1>3. CASE UNCHANGED matrix
    BY <1>3 DEF matrix, MatrixInv, Matrix!TypeOK, Matrix!LocksOntoMatrix, ProbesKnown,
       SamplesClose, ReferenceNear, Matrix!NoSamples, Matrix!Patience, Matrix!Lag
<1> QED BY <1>1, <1>2, <1>3 DEF Matrix!Next
-----------------------------------------------------------------------------
(* The daemon.                                                             *)

\* Every step of the daemon is one of the tracker and one of the reference.
LEMMA StepsOfParts == [MCNext]_allVars => [Next]_vars /\ [Matrix!Next]_matrix
BY DEF MCNext, allVars

\* The daemon's tracker is TouchTracker.
LEMMA TrackerRuns == MCSpec => Spec
<1>1. MCInit => Init
    BY DEF MCInit
<1> QED BY <1>1, StepsOfParts, PTL DEF MCSpec, Spec

LEMMA MatrixInvariance == MCSpec => []MatrixInv
<1>1. MCInit => MatrixInv
    BY TouchAssumption, InitMatrix DEF MCInit
<1>2. MatrixInv /\ [MCNext]_allVars => MatrixInv'
    BY TouchAssumption, StepsOfParts, NextMatrix
<1> QED BY <1>1, <1>2, PTL DEF MCSpec

\* In the daemon too, fingers, slots and readers agree after every frame, and
\* readers see the multi-touch protocol.
THEOREM DaemonTracks == MCSpec => []FramesAgree /\ FollowsProtocol
BY TrackerRuns, FramesSafe, Refinement, PTL

\* The reference is taken of the matrix type that came most often.  A finger
\* anywhere keeps all nodes from being followed; as long as that has been so for
\* fewer frames than Threshold \div 2 - Lag, no bare node comes near a touch, however
\* its baseline drifts, and no finger is taken for the baseline.
THEOREM ReferenceSafe == MCSpec => []ReferenceSound
<1>1. MatrixInv => ReferenceSound
    BY TouchAssumption, DeltaOf
       DEF MatrixInv, ReferenceSound, Matrix!ReferenceSound, Matrix!FollowsSlowDrift
<1> QED BY <1>1, MatrixInvariance, PTL

\* The step that makes the reference takes for every node that was not covered the
\* value of a sample without a finger.
LEMMA StartForgives ==
    ASSUME MatrixInv, [Matrix!Next]_matrix, reference = None, reference' # None,
           NEW m \in Nodes, ~ Matrix!Covered(m)
    PROVE  \E i \in DOMAIN Matrix!Sampled(m) \ Matrix!Fingers(m) :
              Matrix!Sampled(m)[i].value = reference'[m]
<1>1. PICK t \in Types, g \in Shapes : Matrix!Sample(t, g)
    BY DEF Matrix!Next, Matrix!Frame, Matrix!ProbeType, Matrix!Measure, Matrix!Finger, matrix
<1>2. /\ reference'[m] = Matrix!Median(Matrix!Sampled(m))
      /\ refCount' = refCount + 1 /\ ~ (refCount' < RefFrames)
    BY <1>1 DEF Matrix!Sample, Matrix!BuildReference
<1>3. /\ Matrix!TypeOK /\ Close(samples[m], base[m]) /\ Len(samples[m]) = refCount
      /\ refCount < RefFrames /\ refCount \in Nat /\ RefFrames \in Nat
    <2>1. Matrix!TypeOK /\ SamplesClose
        BY DEF MatrixInv
    <2>2. Close(samples[m], base[m]) /\ Len(samples[m]) = refCount /\ refCount < RefFrames
        BY <2>1 DEF SamplesClose
    <2>3. refCount \in 0 .. RefFrames /\ RefFrames \in Nat
        BY <2>1, TouchAssumption, Constants DEF Matrix!TypeOK
    <2> QED BY <2>1, <2>2, <2>3
<1>4. /\ Len(Matrix!Sampled(m)) = Len(samples[m]) + 1
      /\ Matrix!Sampled(m) \in Column(MaxBase + Signal)
    BY <1>3, TouchAssumption, SampledOf
<1>5. Len(Matrix!Sampled(m)) = RefFrames /\ Len(Matrix!Sampled(m)) <= RefFrames
    BY <1>2, <1>3, <1>4
<1>6. 2 * Cardinality(Matrix!Fingers(m)) < Len(Matrix!Sampled(m))
    <2>1. ~ (2 * Cardinality(Matrix!Fingers(m)) >= RefFrames)
        BY SameCardinality DEF Matrix!Covered
    <2>2. Matrix!Fingers(m) \in SUBSET DOMAIN Matrix!Sampled(m)
        BY DEF Matrix!Fingers
    <2>3. Cardinality(Matrix!Fingers(m)) \in Nat
        BY <1>4, <2>2, Counted
    <2> QED BY <1>3, <1>5, <2>1, <2>3
<1> QED BY <1>2, <1>3, <1>5, <1>6, TouchAssumption, BareReference

\* Fingers that are on fewer than half of the first frames leave no trace in the
\* reference, and contacts of later frames keep their slots and their IDs.
THEOREM FingersSafe == MCSpec => FingersForgiven
<1>1. MatrixInv /\ [MCNext]_allVars => Matrix!ForgivesTouch
    BY StepsOfParts, StartForgives DEF Matrix!ForgivesTouch
<1>2. Matrix!StartForgivesTouch <=> [][Matrix!ForgivesTouch]_(Matrix!vars)
    BY DEF Matrix!StartForgivesTouch
<1>3. MCSpec => [][Matrix!ForgivesTouch]_(Matrix!vars)
    BY <1>1, MatrixInvariance, PTL DEF MCSpec
<1> QED BY <1>2, <1>3, TrackerRuns, Steady, PTL DEF FingersForgiven
-----------------------------------------------------------------------------
(* Sequences of sequences.                                                 *)

\* f is what the recursion of FlattenSeq computes.
Flattens(w, f) == f = [i \in 1 .. Len(w) |-> IF i = 1 THEN w[i] ELSE f[i-1] \o w[i]]

\* The recursion is over the elements in their order, so that it has a solution.
LEMMA FlattensExists ==
    ASSUME NEW w, NEW k \in Nat
    PROVE  \E f : f = [i \in 1 .. k |-> IF i = 1 THEN w[i] ELSE f[i-1] \o w[i]]
<1> DEFINE P(n) == \E f : f = [i \in 1 .. n |-> IF i = 1 THEN w[i] ELSE f[i-1] \o w[i]]
           T == {n \in Nat : ~ P(n)}
<1>1. SUFFICES ASSUME T # {} PROVE FALSE
    OBVIOUS
<1>2. PICK n \in T : \A j \in T : n <= j
    BY <1>1, Least
<1>3. n # 0
    <2>1. P(0)
        <3> DEFINE f == [i \in {} |-> << >>]
        <3>1. f = [i \in 1 .. 0 |-> IF i = 1 THEN w[i] ELSE f[i-1] \o w[i]]
            OBVIOUS
        <3> QED BY <3>1
    <2> QED BY <2>1
<1>4. P(n - 1)
    <2>1. n - 1 \in Nat /\ ~ (n <= n - 1)
        BY <1>3
    <2>2. n - 1 \notin T
        BY <1>2, <2>1
    <2> QED BY <2>1, <2>2
<1>5. PICK g : g = [i \in 1 .. (n - 1) |-> IF i = 1 THEN w[i] ELSE g[i-1] \o w[i]]
    BY <1>4
<1> DEFINE f == [i \in 1 .. n |-> IF i = 1 THEN w[i] ELSE g[i-1] \o w[i]]
<1>6. \A i \in 1 .. n : i # 1 => f[i-1] = g[i-1]
    <2> TAKE i \in 1 .. n
    <2> HAVE i # 1
    <2>1. i - 1 \in 1 .. n /\ i - 1 \in 1 .. (n - 1)
        OBVIOUS
    <2>2. f[i-1] = IF i - 1 = 1 THEN w[i-1] ELSE g[(i-1)-1] \o w[i-1]
        BY <2>1
    <2>3. g[i-1] = IF i - 1 = 1 THEN w[i-1] ELSE g[(i-1)-1] \o w[i-1]
        BY <1>5, <2>1
    <2> QED BY <2>2, <2>3
<1>7. f = [i \in 1 .. n |-> IF i = 1 THEN w[i] ELSE f[i-1] \o w[i]]
    BY <1>6
<1> QED BY <1>7

LEMMA FlattenUnfold ==
    ASSUME NEW w, Len(w) \in Nat, Len(w) # 0
    PROVE  \E f : Flattens(w, f) /\ Stream!FlattenSeq(w) = f[Len(w)]
<1> DEFINE f == CHOOSE f : f = [i \in 1 .. Len(w) |-> IF i = 1 THEN w[i] ELSE f[i-1] \o w[i]]
<1>1. \E g : g = [i \in 1 .. Len(w) |-> IF i = 1 THEN w[i] ELSE g[i-1] \o w[i]]
    BY FlattensExists
<1>2. Flattens(w, f)
    BY <1>1 DEF Flattens
<1>3. Stream!FlattenSeq(w) = f[Len(w)]
    BY Zenon DEF Stream!FlattenSeq
<1> QED BY <1>2, <1>3

\* The first n elements of w, flattened.
Upto(w, n) == Stream!FlattenSeq(SubSeq(w, 1, n))

LEMMA UptoNone ==
    ASSUME NEW w PROVE Upto(w, 0) = << >>
<1>1. SubSeq(w, 1, 0) = << >>
    BY SubSeqEmpty
<1>2. Len(<< >>) = 0
    OBVIOUS
<1> QED BY <1>1, <1>2 DEF Upto, Stream!FlattenSeq

LEMMA UptoAll ==
    ASSUME NEW S, NEW w \in Seq(S) PROVE Upto(w, Len(w)) = Stream!FlattenSeq(w)
BY SubSeqFull DEF Upto

\* The recursion over w also flattens its prefixes.
LEMMA FlattenPrefix ==
    ASSUME NEW S, NEW w \in Seq(S), NEW n \in 1 .. Len(w), NEW f, Flattens(w, f)
    PROVE  Upto(w, n) = f[n]
<1> DEFINE v == SubSeq(w, 1, n)
<1>1. v \in Seq(S) /\ Len(v) = n /\ \A i \in 1 .. n : v[i] = w[i]
    OBVIOUS
<1> HIDE DEF v
<1>2. PICK g : Flattens(v, g) /\ Stream!FlattenSeq(v) = g[n]
    BY <1>1, FlattenUnfold
<1> DEFINE T == {i \in 1 .. n : g[i] # f[i]}
<1>3. ASSUME T # {} PROVE FALSE
    <2>1. PICK i \in T : \A j \in T : i <= j
        <3>1. T \in SUBSET Nat
            OBVIOUS
        <3> HIDE DEF T
        <3> QED BY <1>3, <3>1, Least
    <2>2. i \in 1 .. n /\ i \in 1 .. Len(v) /\ i \in 1 .. Len(w)
        BY <1>1
    <2>3. g[i] = IF i = 1 THEN v[i] ELSE g[i-1] \o v[i]
        BY <1>2, <2>2 DEF Flattens
    <2>4. f[i] = IF i = 1 THEN w[i] ELSE f[i-1] \o w[i]
        BY <2>2 DEF Flattens
    <2>5. i # 1 => g[i-1] = f[i-1]
        <3>1. i # 1 => i - 1 \in 1 .. n /\ ~ (i <= i - 1)
            BY <2>2
        <3> QED BY <2>1, <3>1
    <2> QED BY <1>1, <2>2, <2>3, <2>4, <2>5
<1> QED BY <1>2, <1>3 DEF Upto, v

LEMMA UptoStep ==
    ASSUME NEW S, NEW w \in Seq(Seq(S)), NEW n \in 0 .. (Len(w) - 1)
    PROVE  /\ n + 1 \in 1 .. Len(w) /\ w[n + 1] \in Seq(S)
           /\ Upto(w, n) \in Seq(S) => Upto(w, n + 1) = Upto(w, n) \o w[n + 1]
<1> DEFINE Elem == Seq(S)
<1>1. w \in Seq(Elem) /\ Len(w) \in Nat /\ Len(w) # 0 /\ n + 1 \in 1 .. Len(w)
    OBVIOUS
<1>2. w[n + 1] \in Elem
    <2> HIDE DEF Elem
    <2> QED BY <1>1
<1>3. PICK f : Flattens(w, f)
    BY <1>1, FlattenUnfold
<1>4. Upto(w, n + 1) = f[n + 1]
    BY <1>1, <1>3, FlattenPrefix
<1>5. f[n + 1] = IF n + 1 = 1 THEN w[n + 1] ELSE f[(n + 1) - 1] \o w[n + 1]
    BY <1>1, <1>3 DEF Flattens
<1>6. CASE n = 0
    <2>1. Upto(w, n) = << >>
        BY <1>6, UptoNone
    <2>2. << >> \o w[n + 1] = w[n + 1]
        BY <1>2, ConcatEmptySeq
    <2> QED BY <1>1, <1>2, <1>4, <1>5, <1>6, <2>1, <2>2
<1>7. CASE n # 0
    <2>1. n \in 1 .. Len(w)
        BY <1>7
    <2>2. Upto(w, n) = f[n]
        BY <1>1, <1>3, <2>1, FlattenPrefix
    <2>3. (n + 1) - 1 = n /\ n + 1 # 1
        BY <1>7
    <2> QED BY <1>1, <1>2, <1>4, <1>5, <2>2, <2>3
<1> QED BY <1>6, <1>7

LEMMA UptoType ==
    ASSUME NEW S, NEW w \in Seq(Seq(S)), NEW k \in 0 .. Len(w)
    PROVE  Upto(w, k) \in Seq(S)
<1> DEFINE T == {n \in 0 .. Len(w) : Upto(w, n) \notin Seq(S)}
<1>1. SUFFICES ASSUME T # {} PROVE FALSE
    OBVIOUS
<1>2. PICK n \in T : \A j \in T : n <= j
    <2>1. T \in SUBSET Nat
        OBVIOUS
    <2> HIDE DEF T
    <2> QED BY <1>1, <2>1, Least
<1>3. n # 0
    <2>1. Upto(w, 0) \in Seq(S)
        <3>1. Upto(w, 0) = << >> /\ << >> \in Seq(S)
            BY UptoNone
        <3> QED BY <3>1
    <2> QED BY <1>2, <2>1
<1>4. n - 1 \in 0 .. (Len(w) - 1) /\ ~ (n <= n - 1) /\ n - 1 \in 0 .. Len(w)
    BY <1>3
<1>5. Upto(w, n - 1) \in Seq(S)
    BY <1>2, <1>4
<1>6. (n - 1) + 1 = n
    BY <1>4
<1>7. Upto(w, n) = Upto(w, n - 1) \o w[n] /\ w[n] \in Seq(S)
    BY <1>4, <1>5, <1>6, UptoStep
<1>8. Upto(w, n) \in Seq(S)
    BY <1>5, <1>7, ConcatProperties
<1> QED BY <1>8

\* What more elements add comes behind.
LEMMA UptoPrefix ==
    ASSUME NEW S, NEW w \in Seq(Seq(S)), NEW i \in 0 .. Len(w), NEW j \in 0 .. Len(w), i <= j
    PROVE  \E t \in Seq(S) : Upto(w, j) = Upto(w, i) \o t
<1> DEFINE P(n) == \E t \in Seq(S) : Upto(w, n) = Upto(w, i) \o t
           T == {n \in i .. Len(w) : ~ P(n)}
<1>1. SUFFICES ASSUME T # {} PROVE FALSE
    <2>1. j \in i .. Len(w)
        OBVIOUS
    <2>2. P(j)
        <3> HIDE DEF P
        <3> QED BY <1>1, <2>1
    <2> QED BY <2>2
<1>2. PICK n \in T : \A m \in T : n <= m
    <2>1. T \in SUBSET Nat
        OBVIOUS
    <2> HIDE DEF T
    <2> QED BY <1>1, <2>1, Least
<1>3. n # i
    <2>1. Upto(w, i) \in Seq(S)
        BY UptoType
    <2>2. << >> \in Seq(S) /\ Upto(w, i) = Upto(w, i) \o << >>
        BY <2>1, ConcatEmptySeq
    <2> QED BY <2>2
<1>4. n - 1 \in 0 .. (Len(w) - 1) /\ n - 1 \in i .. Len(w) /\ ~ (n <= n - 1) /\ (n - 1) + 1 = n
    BY <1>3
<1>5. PICK t \in Seq(S) : Upto(w, n - 1) = Upto(w, i) \o t
    BY <1>2, <1>4
<1>6. Upto(w, n - 1) \in Seq(S) /\ Upto(w, i) \in Seq(S)
    BY <1>4, UptoType
<1>7. Upto(w, n) = Upto(w, n - 1) \o w[n] /\ w[n] \in Seq(S)
    BY <1>4, <1>6, UptoStep
<1>8. Upto(w, n) = Upto(w, i) \o (t \o w[n])
    <2> DEFINE a == Upto(w, i)
               b == w[n]
    <2>1. a \in Seq(S) /\ b \in Seq(S) /\ t \in Seq(S)
        BY <1>5, <1>6, <1>7
    <2>2. Upto(w, n) = (a \o t) \o b
        BY <1>5, <1>7
    <2> HIDE DEF a, b
    <2>3. (a \o t) \o b = a \o (t \o b)
        BY <2>1, ConcatAssociative, SMTT(30)
    <2> QED BY <2>2, <2>3 DEF a, b
<1>9. t \o w[n] \in Seq(S)
    BY <1>7, ConcatProperties
<1> QED BY <1>8, <1>9
\* What a stretch of s consists of.
LEMMA Stretch ==
    ASSUME NEW S, NEW s \in Seq(S), NEW a \in Nat, NEW d \in Nat, a <= d, d <= Len(s)
    PROVE  /\ SubSeq(s, a + 1, d) \in Seq(S) /\ Len(SubSeq(s, a + 1, d)) = d - a
           /\ \A k \in 1 .. d - a : SubSeq(s, a + 1, d)[k] = s[a + k]
<1> DEFINE m == a + 1
           v == SubSeq(s, m, d)
<1>1. m \in Int /\ d \in Int /\ \A k \in m .. d : k \in 1 .. Len(s)
    OBVIOUS
<1>2. \A k \in m .. d : s[k] \in S
    BY <1>1
<1> HIDE DEF m
<1>3. /\ v \in Seq(S) /\ Len(v) = IF m <= d THEN d - m + 1 ELSE 0
      /\ \A k \in 1 .. d - m + 1 : v[k] = s[m + k - 1]
    BY <1>1, <1>2, SubSeqProperties
<1>4. /\ d - m + 1 = d - a /\ \A k \in Int : m + k - 1 = a + k
      /\ m <= d \/ d - a = 0
    BY DEF m
<1> HIDE DEF v
<1>5. Len(v) = d - a
    BY <1>3, <1>4
<1> QED BY <1>3, <1>4, <1>5 DEF v, m

-----------------------------------------------------------------------------
(* The wire.                                                               *)

WireOK == wire \in Seq(Stream!Records \cup Stream!Others)

LEMMA StreamConstants ==
    ASSUME TouchAssumption
    PROVE  /\ MaxLen \in Nat /\ BufSize \in Nat /\ MaxLen + 2 < BufSize
           /\ Magic # NoLength /\ Magic \notin Nat /\ NoLength \notin Nat
BY DEF TouchAssumption, Stream!ThpStreamAssumption

LEMMA RecordShape ==
    ASSUME TouchAssumption, NEW r \in Stream!Records
    PROVE  /\ r \in Seq(Stream!Bytes) /\ r[1] = Magic /\ r[2] \in 0 .. MaxLen
           /\ Len(r) = 2 + r[2] /\ r \notin Stream!Others
<1>1. PICK n \in 0 .. MaxLen : \E body \in [1 .. n -> Stream!Bytes] : r = <<Magic, n>> \o body
    BY Zenon DEF Stream!Records
<1>8. PICK body \in [1 .. n -> Stream!Bytes] : r = <<Magic, n>> \o body
    BY <1>1
<1>2. body \in Seq(Stream!Bytes) /\ Len(body) = n /\ n \in Nat
    BY StreamConstants
<1>3. <<Magic, n>> \in Seq(Stream!Bytes) /\ Len(<<Magic, n>>) = 2
      /\ <<Magic, n>>[1] = Magic /\ <<Magic, n>>[2] = n
    BY DEF Stream!Bytes
<1> DEFINE head == <<Magic, n>>
<1>4. /\ head \in Seq(Stream!Bytes) /\ Len(head) = 2 /\ head[1] = Magic /\ head[2] = n
      /\ r = head \o body
    BY <1>8, <1>3
<1> HIDE DEF head
<1>5. /\ r \in Seq(Stream!Bytes) /\ Len(r) = 2 + n
      /\ \A k \in 1 .. 2 + n : r[k] = IF k <= 2 THEN head[k] ELSE body[k - 2]
    <2>1. /\ head \o body \in Seq(Stream!Bytes)
          /\ Len(head \o body) = Len(head) + Len(body)
          /\ \A k \in 1 .. Len(head) + Len(body) :
                (head \o body)[k] = IF k <= Len(head) THEN head[k] ELSE body[k - Len(head)]
        BY <1>2, <1>4, ConcatProperties
    <2>2. Len(head) + Len(body) = 2 + n
        BY <1>2, <1>4
    <2> QED BY <1>4, <2>1, <2>2
<1>6. r[1] = Magic /\ r[2] = n
    BY <1>2, <1>4, <1>5
<1>7. r \notin Stream!Others
    BY <1>2, <1>5, <1>6, StreamConstants DEF Stream!Others
<1> QED BY <1>5, <1>6, <1>7

LEMMA OtherShape ==
    ASSUME TouchAssumption, NEW r \in Stream!Others
    PROVE  /\ r \in Seq(Stream!Bytes)
           /\ \/ Len(r) = 1 /\ r[1] = NoLength
              \/ Len(r) = 2 /\ r[2] = NoLength
           /\ r \notin Stream!Records
<1>1. r \in Seq(Stream!Bytes)
    <2> DEFINE B == Stream!Bytes
    <2>1. 0 \in B /\ Magic \in B /\ NoLength \in B
        BY StreamConstants DEF Stream!Bytes
    <2> HIDE DEF B
    <2>2. r = <<NoLength>> \/ r = <<0, NoLength>> \/ r = <<Magic, NoLength>>
        BY DEF Stream!Others
    <2>3. <<NoLength>> \in Seq(B) /\ <<0, NoLength>> \in Seq(B) /\ <<Magic, NoLength>> \in Seq(B)
        BY <2>1
    <2>4. r \in Seq(B)
        BY <2>2, <2>3
    <2> QED BY <2>4 DEF B
<1>2. \/ Len(r) = 1 /\ r[1] = NoLength
      \/ Len(r) = 2 /\ r[2] = NoLength
    BY DEF Stream!Others
<1>3. r \notin Stream!Records
    BY RecordShape
<1> QED BY <1>1, <1>2, <1>3

\* All the bytes, and how many the first i pieces have.
Bytestream == Stream!FlattenSeq(wire)

LEMMA WireFacts ==
    ASSUME TouchAssumption, WireOK
    PROVE  /\ wire \in Seq(Seq(Stream!Bytes)) /\ Len(wire) \in Nat
           /\ DOMAIN wire = 1 .. Len(wire)
           /\ \A i \in 1 .. Len(wire) : wire[i] \in Stream!Records \cup Stream!Others
           /\ Bytestream \in Seq(Stream!Bytes)
           /\ Stream!End(0) = 0 /\ Stream!End(Len(wire)) = Len(Bytestream)
<1> DEFINE P == Stream!Records \cup Stream!Others
<1>1. P \subseteq Seq(Stream!Bytes)
    BY RecordShape, OtherShape
<1>2. wire \in Seq(P)
    BY DEF WireOK
<1> HIDE DEF P
<1>3. Len(wire) \in Nat /\ DOMAIN wire = 1 .. Len(wire) /\ \A i \in 1 .. Len(wire) : wire[i] \in P
    BY <1>2
<1>4. wire \in Seq(Seq(Stream!Bytes))
    BY <1>1, <1>2, SeqMonotonic
<1>5. Bytestream = Upto(wire, Len(wire))
    BY <1>2, UptoAll DEF Bytestream
<1>6. Bytestream \in Seq(Stream!Bytes)
    BY <1>3, <1>4, <1>5, UptoType
<1>7. \A i : Stream!End(i) = Len(Upto(wire, i))
    BY DEF Stream!End, Upto
<1>8. Upto(wire, 0) = << >>
    BY UptoNone
<1> QED BY <1>3, <1>4, <1>5, <1>6, <1>7, <1>8 DEF P

\* Where the next piece is in the stream.
LEMMA PieceBytes ==
    ASSUME TouchAssumption, WireOK, NEW i \in 0 .. (Len(wire) - 1)
    PROVE  /\ i + 1 \in 1 .. Len(wire)
           /\ wire[i + 1] \in Seq(Stream!Bytes) /\ Len(wire[i + 1]) \in Nat
           /\ Stream!End(i) \in Nat
           /\ Stream!End(i + 1) = Stream!End(i) + Len(wire[i + 1])
           /\ Stream!End(i + 1) <= Len(Bytestream)
           /\ \A k \in 1 .. Len(wire[i + 1]) : Bytestream[Stream!End(i) + k] = wire[i + 1][k]
<1> DEFINE w == wire
           n == Len(wire)
           r == wire[i + 1]
           a == Upto(wire, i)
           b == Upto(wire, i + 1)
           e == Stream!End(i)
<1>1. w \in Seq(Seq(Stream!Bytes)) /\ n \in Nat /\ Bytestream = Upto(w, n)
    BY WireFacts, UptoAll DEF Bytestream
<1>2. i \in 0 .. n /\ i + 1 \in 0 .. n /\ n \in 0 .. n /\ i + 1 <= n /\ i + 1 \in 1 .. n
    BY <1>1
<1>3. a \in Seq(Stream!Bytes) /\ b \in Seq(Stream!Bytes)
    BY <1>1, <1>2, UptoType
<1>4. b = a \o r /\ r \in Seq(Stream!Bytes)
    BY <1>1, <1>3, UptoStep
<1>5. PICK t \in Seq(Stream!Bytes) : Bytestream = b \o t
    BY <1>1, <1>2, UptoPrefix, ZenonT(30)
<1>6. e = Len(a) /\ Stream!End(i + 1) = Len(b)
    BY DEF Stream!End, Upto
<1> HIDE DEF w, n, r, a, b, e
<1>7. /\ e \in Nat /\ Len(r) \in Nat /\ Len(b) = e + Len(r) /\ Len(t) \in Nat
      /\ \A k \in 1 .. e + Len(r) : b[k] = IF k <= e THEN a[k] ELSE r[k - e]
    BY <1>3, <1>4, <1>6, ConcatProperties
<1>8. /\ Len(Bytestream) = Len(b) + Len(t)
      /\ \A k \in 1 .. Len(b) + Len(t) : Bytestream[k] = IF k <= Len(b) THEN b[k] ELSE t[k - Len(b)]
    BY <1>3, <1>5, ConcatProperties
<1>9. ASSUME NEW k \in 1 .. Len(r) PROVE Bytestream[e + k] = r[k]
    <2>1. /\ e + k \in 1 .. e + Len(r) /\ e + k \in 1 .. Len(b) + Len(t) /\ e + k <= Len(b)
          /\ ~ (e + k <= e) /\ (e + k) - e = k
        BY <1>7
    <2> QED BY <1>7, <1>8, <2>1
<1>10. Stream!End(i + 1) <= Len(Bytestream)
    BY <1>6, <1>7, <1>8
<1> QED BY <1>2, <1>4, <1>6, <1>7, <1>9, <1>10 DEF r, e, n

LEMMA EndsOrder ==
    ASSUME TouchAssumption, WireOK, NEW i \in 0 .. Len(wire), NEW j \in 0 .. Len(wire), i <= j
    PROVE  Stream!End(i) \in Nat /\ Stream!End(j) \in Nat /\ Stream!End(i) <= Stream!End(j)
<1> DEFINE a == Upto(wire, i)
           b == Upto(wire, j)
<1>1. wire \in Seq(Seq(Stream!Bytes))
    BY WireFacts
<1>2. a \in Seq(Stream!Bytes) /\ b \in Seq(Stream!Bytes)
    BY <1>1, UptoType
<1>3. PICK t \in Seq(Stream!Bytes) : b = a \o t
    BY <1>1, UptoPrefix
<1>4. Stream!End(i) = Len(a) /\ Stream!End(j) = Len(b)
    BY DEF Stream!End, Upto
<1> HIDE DEF a, b
<1>5. Len(b) = Len(a) + Len(t) /\ Len(a) \in Nat /\ Len(t) \in Nat
    BY <1>2, <1>3, ConcatProperties
<1> QED BY <1>4, <1>5

\* The records among the first i pieces.
Wanted == [k \in DOMAIN wire |-> IF wire[k] \in Stream!Records THEN <<wire[k]>> ELSE << >>]
Found(i) == Upto(Wanted, i)

LEMMA FoundNone == Found(0) = << >>
BY UptoNone DEF Found

LEMMA FoundStep ==
    ASSUME TouchAssumption, WireOK, NEW i \in 0 .. (Len(wire) - 1)
    PROVE  /\ Found(i) \in Seq(Stream!Records) /\ Found(i + 1) \in Seq(Stream!Records)
           /\ wire[i + 1] \in Stream!Records => Found(i + 1) = Found(i) \o <<wire[i + 1]>>
           /\ wire[i + 1] \notin Stream!Records => Found(i + 1) = Found(i)
<1> DEFINE R == Stream!Records
<1>1. Len(wire) \in Nat /\ DOMAIN wire = 1 .. Len(wire)
    BY WireFacts
<1>2. \A k \in 1 .. Len(wire) : Wanted[k] \in Seq(R)
    <2> TAKE k \in 1 .. Len(wire)
    <2>1. Wanted[k] = IF wire[k] \in R THEN <<wire[k]>> ELSE << >>
        BY <1>1 DEF Wanted
    <2> HIDE DEF R
    <2>2. << >> \in Seq(R) /\ (wire[k] \in R => <<wire[k]>> \in Seq(R))
        OBVIOUS
    <2> QED BY <2>1, <2>2
<1>3. DOMAIN Wanted = 1 .. Len(wire) /\ Wanted = [k \in 1 .. Len(wire) |-> Wanted[k]]
    BY <1>1 DEF Wanted
<1> HIDE DEF R
<1>4. Wanted \in Seq(Seq(R)) /\ Len(Wanted) = Len(wire)
    BY <1>1, <1>2, <1>3
<1>5. /\ i \in 0 .. (Len(Wanted) - 1) /\ i \in 0 .. Len(Wanted) /\ i + 1 \in 0 .. Len(Wanted)
      /\ i + 1 \in 1 .. Len(wire)
    BY <1>1, <1>4
<1>6. Found(i) \in Seq(R) /\ Found(i + 1) \in Seq(R)
    BY <1>4, <1>5, UptoType DEF Found
<1>7. Found(i + 1) = Found(i) \o Wanted[i + 1]
    BY <1>4, <1>5, <1>6, UptoStep DEF Found
<1>8. Wanted[i + 1] = IF wire[i + 1] \in R THEN <<wire[i + 1]>> ELSE << >>
    BY <1>1, <1>5 DEF Wanted, R
<1>9. Found(i) \o << >> = Found(i)
    BY <1>6, ConcatEmptySeq
<1> QED BY <1>6, <1>7, <1>8, <1>9 DEF R
-----------------------------------------------------------------------------
(* The scan of the buffer.                                                 *)

\* A scan that has done with i pieces is at p: behind them, or inside the next
\* one if that is no record.
Reached(i, p) ==
    /\ i \in 0 .. Len(wire) /\ p \in Nat
    /\ \/ p = Stream!End(i)
       \/ /\ i < Len(wire) /\ wire[i + 1] \in Stream!Others
          /\ Stream!End(i) < p /\ p < Stream!End(i + 1)

\* What a scan finds where it has got to: the header of the next record, or a byte
\* that it steps over.
LEMMA AtHeader ==
    ASSUME TouchAssumption, WireOK, NEW i, NEW p, Reached(i, p), p + 2 <= Len(Bytestream)
    PROVE  /\ i \in 0 .. (Len(wire) - 1)
           /\ \/ /\ wire[i + 1] \in Stream!Records /\ p = Stream!End(i)
                 /\ Bytestream[p + 1] = Magic /\ Bytestream[p + 2] \in 0 .. MaxLen
                 /\ Stream!End(i + 1) = p + 2 + Bytestream[p + 2]
              \/ /\ wire[i + 1] \in Stream!Others
                 /\ ~ (Bytestream[p + 1] = Magic /\ Bytestream[p + 2] \in Nat)
                 /\ \E k : Reached(k, p + 1) /\ Found(k) = Found(i)
<1>1. /\ Len(wire) \in Nat /\ Stream!End(Len(wire)) = Len(Bytestream) /\ Len(Bytestream) \in Nat
      /\ i \in 0 .. Len(wire) /\ p \in Nat
    BY WireFacts DEF Reached
<1>2. i # Len(wire)
    BY <1>1 DEF Reached
<1>3. i \in 0 .. (Len(wire) - 1) /\ i < Len(wire) /\ i + 1 \in 1 .. Len(wire)
    BY <1>1, <1>2
<1> DEFINE r == wire[i + 1]
           e == Stream!End(i)
           B == Bytestream
<1>4. /\ Len(r) \in Nat /\ e \in Nat /\ Stream!End(i + 1) = e + Len(r)
      /\ \A k \in 1 .. Len(r) : B[e + k] = r[k]
    BY <1>3, PieceBytes
<1>5. r \in Stream!Records \cup Stream!Others
    BY <1>3, WireFacts
<1>6. p = e \/ (r \in Stream!Others /\ e < p /\ p < e + Len(r))
    BY <1>4 DEF Reached
<1>7. CASE r \in Stream!Records
    <2>1. /\ r[1] = Magic /\ r[2] \in 0 .. MaxLen /\ Len(r) = 2 + r[2] /\ r \notin Stream!Others
        BY <1>7, RecordShape
    <2>2. p = e
        BY <1>6, <2>1
    <2> HIDE DEF r, e, B
    <2>3. 1 \in 1 .. Len(r) /\ 2 \in 1 .. Len(r) /\ MaxLen \in Nat
        BY <2>1, StreamConstants
    <2>4. B[e + 1] = Magic /\ B[e + 2] = r[2]
        BY <1>4, <2>1, <2>3
    <2>5. Stream!End(i + 1) = p + 2 + B[p + 2]
        <3>1. B[p + 2] = r[2] /\ r[2] \in Nat
            BY <2>1, <2>2, <2>3, <2>4
        <3>2. Stream!End(i + 1) = p + (2 + r[2])
            BY <1>4, <2>1, <2>2
        <3> QED BY <1>1, <3>1, <3>2
    <2> QED BY <1>3, <1>7, <2>1, <2>2, <2>4, <2>5 DEF r, e, B
<1>8. CASE r \in Stream!Others
    <2>1. \/ Len(r) = 1 /\ r[1] = NoLength
          \/ Len(r) = 2 /\ r[2] = NoLength
        BY <1>8, OtherShape
    <2>2. r \notin Stream!Records
        BY <1>8, OtherShape
    <2>3. Found(i + 1) = Found(i)
        BY <1>3, <2>2, FoundStep
    <2>4. i + 1 \in 0 .. Len(wire) /\ p + 1 \in Nat
        BY <1>1, <1>3
    <2>5. p + 1 = Stream!End(i + 1) => Reached(i + 1, p + 1)
        BY <2>4 DEF Reached
    <2>6. e < p + 1 /\ p + 1 < Stream!End(i + 1) => Reached(i, p + 1)
        BY <1>1, <1>3, <1>8, <2>4 DEF Reached
    <2> HIDE DEF r, e, B
    <2>7. Magic # NoLength /\ NoLength \notin Nat
        BY StreamConstants
    <2>8. CASE Len(r) = 1 /\ r[1] = NoLength
        <3>1. p = e /\ B[p + 1] = NoLength /\ p + 1 = Stream!End(i + 1)
            BY <1>1, <1>4, <1>6, <2>8
        <3> QED BY <1>3, <1>8, <2>3, <2>5, <2>7, <3>1 DEF r, B
    <2>9. CASE Len(r) = 2 /\ r[2] = NoLength
        <3>1. B[e + 2] = NoLength
            BY <1>4, <2>9
        <3>2. CASE p = e
            <4>1. e < p + 1 /\ p + 1 < Stream!End(i + 1)
                BY <1>4, <2>9, <3>2
            <4> QED BY <1>3, <1>8, <2>6, <2>7, <3>1, <3>2, <4>1 DEF r, B
        <3>3. CASE p # e
            <4>1. p = e + 1 /\ p + 1 = e + 2 /\ p + 1 = Stream!End(i + 1)
                BY <1>1, <1>4, <1>6, <2>9, <3>3
            <4> QED BY <1>3, <1>8, <2>3, <2>5, <2>7, <3>1, <4>1 DEF r, B
        <3> QED BY <3>2, <3>3
    <2> QED BY <2>1, <2>8, <2>9
<1> QED BY <1>5, <1>7, <1>8

\* A scan goes on from off as f says.
ScanStep(b, off, f) ==
    IF Len(b) - off < 2 THEN [off |-> off, found |-> << >>]
    ELSE IF ~ Stream!IsHeader(b, off) THEN f[Stream!AfterBad(off)]
    ELSE IF ~ Stream!Complete(b, off) THEN [off |-> off, found |-> << >>]
    ELSE LET end  == off + 2 + b[off + 2]
             rest == f[end]
         IN  [rest EXCEPT !.found = <<SubSeq(b, off + 1, end)>> \o @]

\* It uses f behind off only.
LEMMA ScanStepAhead ==
    ASSUME NEW b, Len(b) \in Nat, NEW off \in 0 .. Len(b), NEW f, NEW g,
           \A x \in (off + 1) .. Len(b) : f[x] = g[x]
    PROVE  ScanStep(b, off, f) = ScanStep(b, off, g)
<1>1. CASE Len(b) - off < 2
    BY <1>1 DEF ScanStep
<1>2. CASE ~ (Len(b) - off < 2) /\ ~ Stream!IsHeader(b, off)
    <2>1. Stream!AfterBad(off) \in (off + 1) .. Len(b)
        BY <1>2 DEF Stream!AfterBad
    <2> QED BY <1>2, <2>1 DEF ScanStep
<1>3. CASE ~ (Len(b) - off < 2) /\ Stream!IsHeader(b, off) /\ ~ Stream!Complete(b, off)
    BY <1>3 DEF ScanStep
<1>4. CASE ~ (Len(b) - off < 2) /\ Stream!IsHeader(b, off) /\ Stream!Complete(b, off)
    <2>1. off + 2 + b[off + 2] \in (off + 1) .. Len(b)
        BY <1>4 DEF Stream!IsHeader, Stream!Complete
    <2>2. f[off + 2 + b[off + 2]] = g[off + 2 + b[off + 2]]
        BY <2>1
    <2> QED BY <1>4, <2>2 DEF ScanStep
<1> QED BY <1>1, <1>2, <1>3, <1>4

\* The recursion is over the offsets from the end, so that it has a solution.
LEMMA ScanExists ==
    ASSUME NEW b, Len(b) \in Nat
    PROVE  \E f : f = [off \in 0 .. Len(b) |-> ScanStep(b, off, f)]
<1> DEFINE L == Len(b)
           P(n) == \E f : f = [off \in (L - n) .. L |-> ScanStep(b, off, f)]
           T == {n \in 0 .. L : ~ P(n)}
<1>1. SUFFICES ASSUME T # {} PROVE FALSE
    <2>1. P(L)
        <3> HIDE DEF P
        <3> QED BY <1>1
    <2>2. L - L = 0
        OBVIOUS
    <2> QED BY <2>1, <2>2
<1>2. PICK n \in T : \A j \in T : n <= j
    <2>1. T \in SUBSET Nat
        OBVIOUS
    <2> HIDE DEF T
    <2> QED BY <1>1, <2>1, Least
<1>3. \E g : \A off \in (L - n + 1) .. L : g[off] = ScanStep(b, off, g)
    <2>1. CASE n = 0
        <3>1. (L - n + 1) .. L = {}
            BY <2>1
        <3> QED BY <3>1
    <2>2. CASE n # 0
        <3>1. n - 1 \in 0 .. L /\ ~ (n <= n - 1) /\ L - (n - 1) = L - n + 1
            BY <2>2
        <3>2. P(n - 1)
            BY <1>2, <3>1
        <3>3. PICK g : g = [off \in (L - (n - 1)) .. L |-> ScanStep(b, off, g)]
            BY <3>2
        <3> QED BY <3>1, <3>3
    <2> QED BY <2>1, <2>2
<1>4. PICK g : \A off \in (L - n + 1) .. L : g[off] = ScanStep(b, off, g)
    BY <1>3
<1> DEFINE f == [off \in (L - n) .. L |-> ScanStep(b, off, g)]
<1>5. \A off \in (L - n) .. L : ScanStep(b, off, f) = ScanStep(b, off, g)
    <2> TAKE off \in (L - n) .. L
    <2>1. off \in 0 .. Len(b)
        BY <1>2
    <2>2. \A x \in (off + 1) .. Len(b) : x \in (L - n) .. L /\ x \in (L - n + 1) .. L
        BY <1>2
    <2>3. \A x \in (off + 1) .. Len(b) : f[x] = ScanStep(b, x, g) /\ g[x] = ScanStep(b, x, g)
        BY <1>4, <2>2
    <2>4. \A x \in (off + 1) .. Len(b) : f[x] = g[x]
        BY <2>3
    <2> HIDE DEF f
    <2> QED BY <2>1, <2>4, ScanStepAhead
<1>6. f = [off \in (L - n) .. L |-> ScanStep(b, off, f)]
    BY <1>5
<1>7. P(n)
    BY <1>6
<1> QED BY <1>2, <1>7

LEMMA ScanUnfold ==
    ASSUME NEW b, Len(b) \in Nat
    PROVE  \E f : /\ \A off \in 0 .. Len(b) : f[off] = ScanStep(b, off, f)
                  /\ Stream!Scan(b) = f[0]
<1> DEFINE f == CHOOSE f : f = [off \in 0 .. Len(b) |-> ScanStep(b, off, f)]
<1>1. \E g : g = [off \in 0 .. Len(b) |-> ScanStep(b, off, g)]
    BY ScanExists
<1>2. f = [off \in 0 .. Len(b) |-> ScanStep(b, off, f)]
    BY <1>1
<1>3. Stream!Scan(b) = f[0]
    BY Zenon DEF Stream!Scan, ScanStep
<1> HIDE DEF f
<1>4. \A off \in 0 .. Len(b) : f[off] = ScanStep(b, off, f)
    BY <1>2
<1> QED BY <1>3, <1>4
LEMMA FoundType ==
    ASSUME TouchAssumption, WireOK, NEW i \in 0 .. Len(wire)
    PROVE  Found(i) \in Seq(Stream!Records)
<1>1. CASE i = 0
    <2>1. << >> \in Seq(Stream!Records)
        OBVIOUS
    <2> QED BY <1>1, <2>1, FoundNone
<1>2. CASE i # 0
    <2>1. Len(wire) \in Nat
        BY WireFacts
    <2>2. i - 1 \in 0 .. (Len(wire) - 1) /\ (i - 1) + 1 = i
        BY <1>2, <2>1
    <2>3. Found((i - 1) + 1) \in Seq(Stream!Records)
        BY <2>2, FoundStep
    <2> QED BY <2>2, <2>3
<1> QED BY <1>1, <1>2

\* A scan of b that is over: what is left is no record.
Over(b, off) == \/ Len(b) - off < 2
                \/ Stream!IsHeader(b, off) /\ ~ Stream!Complete(b, off)

\* r is what a scan of b, the stream from c on, should make of b behind off, with
\* i pieces done before.
Scanned(b, c, i, off, r) ==
    /\ r \in [off : Nat, found : Seq(Stream!Records)]
    /\ off <= r.off /\ r.off <= Len(b) /\ Over(b, r.off)
    /\ \E k : Reached(k, c + r.off) /\ Found(i) \o r.found = Found(k)

\* The scan ends: nothing more is found.
LEMMA ScanEnds ==
    ASSUME TouchAssumption, WireOK, NEW b, Len(b) \in Nat, NEW c, NEW off \in 0 .. Len(b), NEW i,
           Reached(i, c + off), Over(b, off)
    PROVE  Scanned(b, c, i, off, [off |-> off, found |-> << >>])
<1>1. Found(i) \in Seq(Stream!Records)
    BY FoundType DEF Reached
<1>2. Found(i) \o << >> = Found(i)
    BY <1>1, ConcatEmptySeq
<1> DEFINE r == [off |-> off, found |-> << >>]
<1>3. r \in [off : Nat, found : Seq(Stream!Records)] /\ r.off = off /\ r.found = << >>
    OBVIOUS
<1> HIDE DEF r
<1>4. Scanned(b, c, i, off, r)
    BY <1>2, <1>3 DEF Scanned
<1> QED BY <1>4 DEF r

\* One record more in front is one more found.
LEMMA FoundThen ==
    ASSUME NEW x \in Seq(Stream!Records), NEW w \in Stream!Records,
           NEW z \in Seq(Stream!Records)
    PROVE  x \o (<<w>> \o z) = (x \o <<w>>) \o z
<1>1. <<w>> \in Seq(Stream!Records)
    OBVIOUS
<1> QED BY <1>1, ConcatAssociative

\* A record is found.
LEMMA ScanTakes ==
    ASSUME TouchAssumption, WireOK, NEW b \in Seq(Stream!Bytes), NEW c \in Nat,
           c + Len(b) <= Len(Bytestream), \A k \in 1 .. Len(b) : b[k] = Bytestream[c + k],
           NEW off \in 0 .. Len(b), NEW i \in 0 .. (Len(wire) - 1),
           wire[i + 1] \in Stream!Records, c + off = Stream!End(i),
           NEW end \in Nat, off + 2 <= end, end <= Len(b),
           Stream!End(i + 1) = c + end, NEW rest, Scanned(b, c, i + 1, end, rest)
    PROVE  Scanned(b, c, i, off, [rest EXCEPT !.found = <<SubSeq(b, off + 1, end)>> \o @])
<1> DEFINE w == wire[i + 1]
           v == SubSeq(b, off + 1, end)
           R == Stream!Records
           r == [rest EXCEPT !.found = <<v>> \o @]
<1>1. v = w
    <2>1. off \in Nat /\ Len(b) \in Nat /\ off <= end
        OBVIOUS
    <2>2. /\ v \in Seq(Stream!Bytes) /\ Len(v) = end - off
          /\ \A k \in 1 .. end - off : v[k] = b[off + k]
        BY <2>1, Stretch
    <2>3. /\ w \in Seq(Stream!Bytes) /\ Len(w) \in Nat /\ Stream!End(i) \in Nat
          /\ Stream!End(i + 1) = Stream!End(i) + Len(w)
          /\ \A k \in 1 .. Len(w) : Bytestream[Stream!End(i) + k] = w[k]
        BY PieceBytes
    <2> HIDE DEF v, w
    <2>4. Len(w) = end - off
        <3> DEFINE e == Stream!End(i)
                   l == Len(w)
        <3>1. e \in Nat /\ l \in Nat /\ e + l = c + end /\ e = c + off
            BY <2>3
        <3> HIDE DEF e, l
        <3>2. l = end - off
            BY <2>1, <3>1
        <3> QED BY <3>2 DEF l
    <2>5. Len(v) = Len(w)
        BY <2>2, <2>4
    <2>6. ASSUME NEW k \in 1 .. Len(v) PROVE v[k] = w[k]
        <3>1. k \in 1 .. end - off /\ k \in 1 .. Len(w)
            BY <2>2, <2>5
        <3>4. off + k \in 1 .. Len(b) /\ c + (off + k) = (c + off) + k
            BY <2>1, <3>1, SMTT(30)
        <3>2. v[k] = b[off + k]
            BY <2>2, <3>1
        <3>3. b[off + k] = Bytestream[c + (off + k)]
            BY <3>4
        <3> QED BY <2>3, <3>1, <3>4, <3>2, <3>3
    <2> QED BY <2>2, <2>3, <2>5, <2>6, SeqEqual
<1>2. PICK k : Reached(k, c + rest.off) /\ Found(i + 1) \o rest.found = Found(k)
    BY DEF Scanned
<1>3. Found(i) \in Seq(R) /\ Found(i + 1) = Found(i) \o <<w>>
    BY FoundStep
<1>4. rest \in [off : Nat, found : Seq(R)]
    BY DEF Scanned
<1> HIDE DEF v, R
<1>5. w \in R
    BY DEF R
<1> HIDE DEF w
<1>6. <<w>> \in Seq(R) /\ rest.found \in Seq(R)
    BY <1>4, <1>5
<1>7. <<w>> \o rest.found \in Seq(R)
    BY <1>6, ConcatProperties
<1>8. Found(i) \o (<<w>> \o rest.found) = (Found(i) \o <<w>>) \o rest.found
    <2> DEFINE x == Found(i)
               z == rest.found
    <2>1. x \in Seq(Stream!Records) /\ w \in Stream!Records /\ z \in Seq(Stream!Records)
        BY <1>3, <1>5, <1>6 DEF R
    <2> HIDE DEF x, z
    <2>2. x \o (<<w>> \o z) = (x \o <<w>>) \o z
        BY <2>1, FoundThen
    <2> QED BY <2>2 DEF x, z
<1>9. Found(i) \o (<<w>> \o rest.found) = Found(k)
    BY <1>2, <1>3, <1>8
<1>10. r.off = rest.off /\ r.found = <<w>> \o rest.found /\ r \in [off : Nat, found : Seq(R)]
    BY <1>1, <1>4, <1>7
<1>11. /\ end <= rest.off /\ rest.off <= Len(b) /\ Over(b, rest.off) /\ rest.off \in Nat
    BY DEF Scanned
<1>12. off <= rest.off
    <2>1. off \in Nat
        OBVIOUS
    <2> QED BY <1>11, <2>1
<1> HIDE DEF r
<1>13. Scanned(b, c, i, off, r)
    BY <1>2, <1>9, <1>10, <1>11, <1>12 DEF Scanned, R
<1> QED BY <1>13 DEF r, v

LEMMA ScanFinds ==
    ASSUME TouchAssumption, WireOK, NEW b \in Seq(Stream!Bytes), NEW c \in Nat,
           c + Len(b) <= Len(Bytestream), \A k \in 1 .. Len(b) : b[k] = Bytestream[c + k],
           NEW f, \A off \in 0 .. Len(b) : f[off] = ScanStep(b, off, f),
           NEW first \in 0 .. Len(b), NEW done, Reached(done, c + first)
    PROVE  Scanned(b, c, done, first, f[first])
<1> DEFINE L == Len(b)
           P(off) == \A i : Reached(i, c + off) => Scanned(b, c, i, off, f[off])
           T == {n \in 0 .. L : ~ P(L - n)}
<1>1. L \in Nat
    OBVIOUS
<1>2. SUFFICES ASSUME T # {} PROVE FALSE
    <2>1. L - first \in 0 .. L /\ L - (L - first) = first
        BY <1>1
    <2>2. P(first)
        <3> HIDE DEF P
        <3> QED BY <1>2, <2>1
    <2> QED BY <2>2
<1>3. PICK n \in T : \A j \in T : n <= j
    <2>1. T \in SUBSET Nat
        OBVIOUS
    <2> HIDE DEF T
    <2> QED BY <1>2, <2>1, Least
<1> DEFINE off == L - n
<1>4. off \in 0 .. L /\ ~ P(off)
    BY <1>1, <1>3
<1>5. ASSUME NEW x \in (off + 1) .. L PROVE P(x)
    <2>1. L - x \in 0 .. L /\ ~ (n <= L - x) /\ L - (L - x) = x
        BY <1>1, <1>3
    <2> HIDE DEF P
    <2> QED BY <1>3, <2>1
<1>6. PICK i : Reached(i, c + off) /\ ~ Scanned(b, c, i, off, f[off])
    BY <1>4
<1>7. f[off] = ScanStep(b, off, f)
    BY <1>4
<1> HIDE DEF off, P
<1>8. CASE Over(b, off)
    <2>1. f[off] = [off |-> off, found |-> << >>]
        BY <1>7, <1>8 DEF ScanStep, Over
    <2> QED BY <1>1, <1>4, <1>6, <1>8, <2>1, ScanEnds
<1>9. CASE ~ Over(b, off)
    <2> DEFINE p == c + off
    <2>1. ~ (L - off < 2) /\ off + 1 \in 1 .. L /\ off + 2 \in 1 .. L
        BY <1>1, <1>4, <1>9 DEF Over
    <2>2. b[off + 1] = Bytestream[p + 1] /\ b[off + 2] = Bytestream[p + 2]
        <3>1. c + (off + 1) = p + 1 /\ c + (off + 2) = p + 2
            BY <1>4
        <3> QED BY <2>1, <3>1, SMTT(30)
    <2>3. p + 2 <= Len(Bytestream)
        <3>1. Len(Bytestream) \in Nat
            BY WireFacts
        <3> QED BY <1>1, <1>4, <2>1, <3>1
    <2>4. /\ i \in 0 .. (Len(wire) - 1)
          /\ \/ /\ wire[i + 1] \in Stream!Records /\ p = Stream!End(i)
                /\ Bytestream[p + 1] = Magic /\ Bytestream[p + 2] \in 0 .. MaxLen
                /\ Stream!End(i + 1) = p + 2 + Bytestream[p + 2]
             \/ /\ wire[i + 1] \in Stream!Others
                /\ ~ (Bytestream[p + 1] = Magic /\ Bytestream[p + 2] \in Nat)
                /\ \E k : Reached(k, p + 1) /\ Found(k) = Found(i)
        BY <1>6, <2>3, AtHeader
    <2>5. CASE ~ Stream!IsHeader(b, off)
        <3>1. ~ (b[off + 1] = Magic /\ b[off + 2] \in Nat)
            BY <2>5 DEF Stream!IsHeader
        <3>2. PICK k : Reached(k, p + 1) /\ Found(k) = Found(i)
            BY <2>2, <2>4, <3>1, StreamConstants
        <3>3. f[off] = f[off + 1]
            BY <1>7, <2>1, <2>5 DEF ScanStep, Stream!AfterBad
        <3>4. off + 1 \in (off + 1) .. L /\ p + 1 = c + (off + 1)
            BY <1>1, <1>4, <2>1, SMTT(30)
        <3>5. Scanned(b, c, k, off + 1, f[off])
            BY <1>5, <3>2, <3>3, <3>4 DEF P
        <3>6. off + 1 <= f[off].off => off <= f[off].off
            <4>1. f[off].off \in Nat
                BY <3>5 DEF Scanned
            <4> QED BY <1>4, <4>1
        <3>7. Scanned(b, c, i, off, f[off])
            BY <3>2, <3>5, <3>6 DEF Scanned
        <3> QED BY <1>6, <3>7
    <2>6. CASE Stream!IsHeader(b, off)
        <3>1. Stream!Complete(b, off)
            BY <1>9, <2>6 DEF Over
        <3> DEFINE end == off + 2 + b[off + 2]
        <3>2. b[off + 1] = Magic /\ b[off + 2] \in Nat
            BY <2>6 DEF Stream!IsHeader
        <3>3. end \in (off + 1) .. L /\ end \in Nat /\ end <= Len(b)
            BY <1>1, <1>4, <3>1, <3>2, SMTT(30) DEF Stream!Complete
        <3>4. /\ wire[i + 1] \in Stream!Records /\ p = Stream!End(i)
              /\ Stream!End(i + 1) = p + 2 + b[off + 2]
            BY <2>2, <2>4, <3>2
        <3>5. Stream!End(i + 1) = c + end
            <4> DEFINE k == b[off + 2]
            <4>1. k \in Nat /\ Stream!End(i + 1) = (c + off) + 2 + k
                BY <3>2, <3>4
            <4> HIDE DEF k
            <4>2. (c + off) + 2 + k = c + (off + 2 + k)
                BY <1>4, <4>1
            <4> QED BY <4>1, <4>2 DEF k
        <3>6. i + 1 \in 0 .. Len(wire) /\ c + end \in Nat
            <4>1. Len(wire) \in Nat
                BY WireFacts
            <4> QED BY <2>4, <3>3, <4>1, SMTT(30)
        <3>7. Reached(i + 1, c + end)
            BY <3>5, <3>6 DEF Reached
        <3>8. Scanned(b, c, i + 1, end, f[end])
            BY <1>5, <3>3, <3>7 DEF P
        <3>9. f[off] = [f[end] EXCEPT !.found = <<SubSeq(b, off + 1, end)>> \o @]
            BY <1>7, <2>1, <2>6, <3>1 DEF ScanStep
        <3>11. off + 2 <= end
            <4> DEFINE k == b[off + 2]
            <4>1. k \in Nat
                BY <3>2
            <4> HIDE DEF k
            <4>2. off + 2 <= off + 2 + k
                BY <1>4, <4>1
            <4> QED BY <4>2 DEF k
        <3> HIDE DEF end
        <3>10. Scanned(b, c, i, off, [f[end] EXCEPT !.found = <<SubSeq(b, off + 1, end)>> \o @])
            BY <1>4, <2>4, <3>3, <3>4, <3>5, <3>8, <3>11, ScanTakes
        <3> QED BY <1>6, <3>9, <3>10
    <2> QED BY <2>5, <2>6
<1> QED BY <1>8, <1>9
-----------------------------------------------------------------------------
(* The invariant of the stream.                                            *)

\* The pieces that are done with have been handled, and what is in the buffer is
\* the bytes from there on, with no record at their beginning.
StreamInv ==
    /\ WireOK /\ at \in 0 .. Len(Bytestream)
    /\ buf \in Seq(Stream!Bytes) /\ Len(buf) <= at
    /\ \A k \in 1 .. Len(buf) : buf[k] = Bytestream[(at - Len(buf)) + k]
    /\ Over(buf, 0)
    /\ \E i : Reached(i, at - Len(buf)) /\ handled = Found(i)

LEMMA EmptyStream ==
    ASSUME TouchAssumption, WireOK, at = 0, buf = << >>, handled = << >> PROVE StreamInv
<1>1. /\ buf \in Seq(Stream!Bytes) /\ Len(buf) = 0
    OBVIOUS
<1>2. Len(Bytestream) \in Nat /\ Stream!End(0) = 0 /\ Len(wire) \in Nat
    BY WireFacts
<1>3. Over(buf, 0)
    BY <1>1 DEF Over
<1>4. Reached(0, at - Len(buf)) /\ handled = Found(0)
    BY <1>1, <1>2, FoundNone DEF Reached
<1>5. \A k \in 1 .. Len(buf) : buf[k] = Bytestream[(at - Len(buf)) + k]
    BY <1>1
<1> QED BY <1>1, <1>2, <1>3, <1>4, <1>5 DEF StreamInv

LEMMA InitStream == TouchAssumption /\ MCInit => StreamInv
<1> SUFFICES ASSUME TouchAssumption, MCInit PROVE StreamInv
    OBVIOUS
<1> DEFINE S == Stream!Records \cup Stream!Others
<1>1. at = 0 /\ buf = << >> /\ handled = << >>
    BY DEF MCInit, NoStream, Stream!Init
<1>2. wire \in UNION {[1 .. n -> S] : n \in 1 .. Pieces} \/ wire = << >>
    BY DEF MCInit, NoStream, Stream!Init
<1> HIDE DEF S
<1>3. wire \in Seq(S)
    <2>1. ASSUME NEW n \in 1 .. Pieces, wire \in [1 .. n -> S] PROVE wire \in Seq(S)
        BY <2>1 DEF TouchAssumption, Stream!ThpStreamAssumption
    <2>2. << >> \in Seq(S)
        OBVIOUS
    <2> QED BY <1>2, <2>1, <2>2
<1> QED BY <1>1, <1>3, EmptyStream DEF WireOK, S

\* One read, and the scan behind it.
LEMMA IterateStep ==
    ASSUME TouchAssumption, StreamInv, NEW n \in 1 .. BufSize, Stream!Iterate(n)
    PROVE  StreamInv'
<1> DEFINE new == SubSeq(Bytestream, at + 1, at + n)
           b == buf \o new
           c == at - Len(buf)
           r == Stream!Scan(b)
           S == Stream!Bytes
<1>1. /\ WireOK /\ Bytestream \in Seq(S) /\ Len(Bytestream) \in Nat /\ Len(buf) \in Nat
      /\ at \in Nat /\ n \in Nat /\ c \in Nat /\ buf \in Seq(S) /\ Len(buf) <= at
    BY WireFacts, StreamConstants DEF StreamInv
<1>2. /\ at + n <= Len(Bytestream) /\ at' = at + n /\ wire' = wire
      /\ handled' = handled \o r.found /\ buf' = SubSeq(b, r.off + 1, Len(b))
    BY DEF Stream!Iterate, Stream!Keep, Bytestream
<1>3. PICK i : Reached(i, c) /\ handled = Found(i)
    BY DEF StreamInv
<1>4. /\ new \in Seq(S) /\ Len(new) = n /\ \A k \in 1 .. n : new[k] = Bytestream[at + k]
    <2>1. at + n \in Nat /\ at <= at + n /\ (at + n) - at = n
        BY <1>1
    <2> HIDE DEF S
    <2>2. /\ new \in Seq(S) /\ Len(new) = (at + n) - at
          /\ \A k \in 1 .. (at + n) - at : new[k] = Bytestream[at + k]
        BY <1>1, <1>2, <2>1, Stretch
    <2> QED BY <2>1, <2>2
<1> HIDE DEF new, S
<1>5. /\ b \in Seq(S) /\ Len(b) = Len(buf) + n
      /\ \A k \in 1 .. Len(buf) + n : b[k] = IF k <= Len(buf) THEN buf[k] ELSE new[k - Len(buf)]
    BY <1>1, <1>4, ConcatProperties
<1>6. ASSUME NEW k \in 1 .. Len(buf) + n PROVE b[k] = Bytestream[c + k]
    <2>1. CASE k <= Len(buf)
        <3>1. k \in 1 .. Len(buf)
            BY <1>1, <2>1
        <3> QED BY <1>5, <2>1, <3>1 DEF StreamInv
    <2>2. CASE ~ (k <= Len(buf))
        <3>1. k - Len(buf) \in 1 .. n /\ at + (k - Len(buf)) = c + k
            BY <1>1, <2>2
        <3> QED BY <1>4, <1>5, <2>2, <3>1
    <2> QED BY <2>1, <2>2
<1> HIDE DEF b
<1>7. Len(b) \in Nat /\ c + Len(b) = at + n /\ 0 \in 0 .. Len(b) /\ c + 0 = c
    BY <1>1, <1>5
<1> HIDE DEF c
<1>8. PICK f : (\A off \in 0 .. Len(b) : f[off] = ScanStep(b, off, f)) /\ r = f[0]
    BY <1>7, ScanUnfold
<1>9. Scanned(b, c, i, 0, r)
    <2>1. /\ b \in Seq(Stream!Bytes) /\ c + Len(b) <= Len(Bytestream) /\ c \in Nat
          /\ Reached(i, c + 0) /\ \A k \in 1 .. Len(b) : b[k] = Bytestream[c + k]
        BY <1>1, <1>2, <1>3, <1>5, <1>6, <1>7 DEF S
    <2> HIDE DEF r
    <2>2. Scanned(b, c, i, 0, f[0])
        BY <1>1, <1>7, <1>8, <2>1, ScanFinds
    <2> QED BY <1>8, <2>2
<1> HIDE DEF r
<1>10. /\ r.off \in Nat /\ r.off <= Len(b) /\ Over(b, r.off)
       /\ \E k : Reached(k, c + r.off) /\ Found(i) \o r.found = Found(k)
    BY <1>9 DEF Scanned
<1>11. PICK k : Reached(k, c + r.off) /\ Found(i) \o r.found = Found(k)
    BY <1>10
<1> DEFINE new2 == buf'
           o == r.off
<1>12. /\ new2 \in Seq(S) /\ Len(new2) = Len(b) - o
       /\ \A x \in 1 .. Len(b) - o : new2[x] = b[o + x]
    <2>1. new2 = SubSeq(b, o + 1, Len(b))
        BY <1>2
    <2> HIDE DEF new2, o
    <2>2. o \in Nat /\ o <= Len(b)
        BY <1>10 DEF o
    <2> QED BY <1>5, <1>7, <2>1, <2>2, Stretch, SMTT(30)
<1>13. /\ Len(new2) \in Nat /\ at' - Len(new2) = c + o /\ Len(new2) <= at'
       /\ at' \in 0 .. Len(Bytestream)
    <2>1. c \in Nat
        BY <1>1 DEF c
    <2> HIDE DEF new2, o
    <2> DEFINE a == at'
    <2>2. a = c + Len(b) /\ a = at + n
        BY <1>2, <1>7
    <2> HIDE DEF a
    <2>3. o \in Nat /\ o <= Len(b)
        BY <1>10 DEF o
    <2>4. Len(new2) = Len(b) - o
        BY <1>12
    <2>5. a \in 0 .. Len(Bytestream)
        <3>1. a \in Nat /\ a <= Len(Bytestream)
            BY <1>1, <1>2, <2>2
        <3> QED BY <1>1, <3>1
    <2>6. Len(b) \in Nat
        BY <1>7
    <2> DEFINE m == Len(b)
               h == Len(new2)
    <2>7. m \in Nat /\ o <= m /\ h = m - o /\ a = c + m
        BY <2>2, <2>3, <2>4, <2>6
    <2> HIDE DEF m, h
    <2>8. h \in Nat /\ a - h = c + o /\ h <= a
        BY <2>1, <2>3, <2>7
    <2> QED BY <2>5, <2>8 DEF a, h
<1>14. \A x \in 1 .. Len(new2) : new2[x] = Bytestream[(c + o) + x]
    <2> TAKE x \in 1 .. Len(new2)
    <2> HIDE DEF new2, o
    <2>1. c \in Nat /\ o \in Nat
        BY <1>1, <1>10 DEF c, o
    <2>2. o + x \in 1 .. Len(buf) + n /\ (c + o) + x = c + (o + x) /\ x \in 1 .. Len(b) - o
        BY <1>5, <1>7, <1>12, <1>13, <2>1
    <2> QED BY <1>6, <1>12, <2>2
<1>15. Over(new2, 0)
    <2> HIDE DEF new2, o
    <2>1. o \in Nat /\ Over(b, o)
        BY <1>10 DEF o
    <2>2. CASE Len(b) - o < 2
        BY <1>7, <1>12, <2>1, <2>2 DEF Over
    <2>3. CASE ~ (Len(b) - o < 2)
        <3>1. Stream!IsHeader(b, o) /\ ~ Stream!Complete(b, o)
            BY <2>1, <2>3 DEF Over
        <3>2. 1 \in 1 .. Len(b) - o /\ 2 \in 1 .. Len(b) - o
            BY <1>7, <2>1, <2>3
        <3>3. new2[1] = b[o + 1] /\ new2[2] = b[o + 2]
            BY <1>12, <3>2
        <3>4. 0 + 1 = 1 /\ 0 + 2 = 2 /\ Len(new2) - 0 = Len(b) - o
            BY <1>7, <1>12, <2>1
        <3> QED BY <3>1, <3>3, <3>4 DEF Over, Stream!IsHeader, Stream!Complete
    <2> QED BY <2>2, <2>3
<1>16. handled' = Found(k)
    BY <1>2, <1>3, <1>11
<1>17. Bytestream' = Bytestream /\ WireOK'
    BY <1>1, <1>2 DEF Bytestream, WireOK
<1>18. Reached(k, at - Len(buf))' /\ handled' = Found(k)'
    BY <1>2, <1>11, <1>13, <1>16 DEF Reached, Stream!End, Found, Upto, Wanted
<1> QED BY <1>12, <1>13, <1>14, <1>15, <1>17, <1>18 DEF StreamInv, S
LEMMA StreamInvariance == MCSpec => []StreamInv
<1>1. MCInit => StreamInv
    BY TouchAssumption, InitStream
<1>2. StreamInv /\ [MCNext]_allVars => StreamInv'
    <2> SUFFICES ASSUME StreamInv, [MCNext]_allVars PROVE StreamInv'
        OBVIOUS
    <2>1. CASE Stream!Next
        BY <2>1, TouchAssumption, IterateStep DEF Stream!Next
    <2>2. CASE UNCHANGED stream
        BY <2>2 DEF stream, StreamInv, WireOK, Bytestream, Over, Stream!IsHeader,
           Stream!Complete, Reached, Stream!End, Found, Upto, Wanted
    <2> QED BY <2>1, <2>2 DEF MCNext, allVars
<1> QED BY <1>1, <1>2, PTL DEF MCSpec

\* Elements that are empty add nothing.
LEMMA UptoSame ==
    ASSUME NEW S, NEW w \in Seq(Seq(S)), NEW v \in Seq(Seq(S)), Len(v) = Len(w),
           NEW i \in 0 .. Len(w), \A k \in 1 .. i : v[k] = w[k],
           \A k \in (i + 1) .. Len(w) : v[k] = << >>
    PROVE  Stream!FlattenSeq(v) = Upto(w, i)
<1> DEFINE P(n) == Upto(v, n) = IF n <= i THEN Upto(w, n) ELSE Upto(w, i)
           T == {n \in 0 .. Len(w) : ~ P(n)}
<1>1. SUFFICES ASSUME T # {} PROVE FALSE
    <2>1. Len(w) \in Nat /\ Len(w) \in 0 .. Len(w)
        OBVIOUS
    <2>2. P(Len(w))
        <3> HIDE DEF P
        <3> QED BY <1>1, <2>1
    <2>3. Upto(v, Len(w)) = Upto(w, i)
        BY <2>1, <2>2
    <2>4. Upto(v, Len(v)) = Stream!FlattenSeq(v)
        BY UptoAll
    <2> QED BY <2>3, <2>4
<1>2. PICK n \in T : \A j \in T : n <= j
    <2>1. T \in SUBSET Nat
        OBVIOUS
    <2> HIDE DEF T
    <2> QED BY <1>1, <2>1, Least
<1>3. n \in 0 .. Len(w) /\ ~ P(n)
    BY <1>2
<1>4. n # 0
    <2>1. P(0)
        BY UptoNone
    <2> HIDE DEF P
    <2> QED BY <1>3, <2>1
<1> DEFINE m == n - 1
<1>5. /\ m \in 0 .. (Len(w) - 1) /\ m \in 0 .. (Len(v) - 1) /\ ~ (n <= m) /\ m \in 0 .. Len(w)
      /\ m \in 0 .. Len(v) /\ m + 1 = n
    BY <1>3, <1>4
<1>6. P(m)
    <2> HIDE DEF P, m
    <2> QED BY <1>2, <1>5
<1>7. Upto(v, m) \in Seq(S) /\ Upto(w, m) \in Seq(S) /\ Upto(w, i) \in Seq(S)
    BY <1>5, UptoType
<1> HIDE DEF m
<1>8. /\ Upto(v, n) = Upto(v, m) \o v[n] /\ Upto(w, n) = Upto(w, m) \o w[n]
    BY <1>5, <1>7, UptoStep
<1>9. CASE n <= i
    <2>1. m <= i /\ v[n] = w[n]
        BY <1>3, <1>4, <1>5, <1>9
    <2> QED BY <1>3, <1>6, <1>8, <1>9, <2>1
<1>10. CASE ~ (n <= i)
    <2>1. v[n] = << >> /\ (m <= i => m = i)
        BY <1>3, <1>5, <1>10
    <2>2. Upto(v, m) = Upto(w, i)
        BY <1>6, <2>1
    <2>3. Upto(w, i) \o << >> = Upto(w, i)
        BY <1>7, ConcatEmptySeq
    <2> QED BY <1>3, <1>8, <1>10, <2>1, <2>2, <2>3
<1> QED BY <1>9, <1>10

\* A record that has arrived completely is not left in the buffer.
LEMMA ArrivedIsDone ==
    ASSUME TouchAssumption, StreamInv, NEW i, Reached(i, at - Len(buf)),
           NEW j \in 1 .. Len(wire), wire[j] \in Stream!Records
    PROVE  Stream!End(j) <= at <=> j <= i
<1> DEFINE c == at - Len(buf)
<1>1. /\ WireOK /\ at \in Nat /\ Len(buf) \in Nat /\ c \in Nat /\ c + Len(buf) = at
      /\ Len(wire) \in Nat /\ i \in 0 .. Len(wire) /\ Stream!End(i) <= c
      /\ j \in 0 .. Len(wire)
    <2>1. WireOK /\ at \in 0 .. Len(Bytestream) /\ Len(buf) <= at /\ Len(buf) \in Nat
        BY DEF StreamInv
    <2>2. Len(wire) \in Nat /\ Len(Bytestream) \in Nat
        BY <2>1, WireFacts
    <2>3. i \in 0 .. Len(wire) /\ j \in 0 .. Len(wire)
        BY <2>2 DEF Reached
    <2>4. Stream!End(i) \in Nat
        BY <2>1, <2>3, EndsOrder
    <2>5. Stream!End(i) <= c
        BY <2>1, <2>2, <2>4 DEF Reached
    <2> QED BY <2>1, <2>2, <2>3, <2>5
<1>2. ASSUME j <= i PROVE Stream!End(j) <= at
    <2>1. Stream!End(j) <= Stream!End(i) /\ Stream!End(j) \in Nat /\ Stream!End(i) \in Nat
        BY <1>1, <1>2, EndsOrder
    <2> HIDE DEF c
    <2> QED BY <1>1, <2>1
<1>3. ASSUME ~ (j <= i), Stream!End(j) <= at PROVE FALSE
    <2> DEFINE m == j - 1
    <2>1. i \in 0 .. (Len(wire) - 1) /\ i < Len(wire) /\ m \in 0 .. (Len(wire) - 1) /\ m + 1 = j
          /\ m \in 0 .. Len(wire) /\ i <= m
        BY <1>1, <1>3
    <2> HIDE DEF c, m
    <2>2. /\ wire[j][2] \in 0 .. MaxLen /\ Len(wire[j]) = 2 + wire[j][2]
        BY RecordShape
    <2>3. wire[j][2] \in Nat
        BY <2>2, StreamConstants
    <2>4. Stream!End(j) = Stream!End(m) + Len(wire[j]) /\ Stream!End(m) \in Nat
        BY <1>1, <2>1, PieceBytes
    <2>5. Stream!End(i) <= Stream!End(m) /\ Stream!End(i) \in Nat
        BY <1>1, <2>1, EndsOrder
    <2>6. c = Stream!End(i) \/ (wire[i + 1] \in Stream!Others /\ c < Stream!End(i + 1))
        BY DEF Reached, c
    <2>7. c <= Stream!End(m)
        <3>1. CASE c = Stream!End(i)
            BY <2>5, <3>1
        <3>2. CASE wire[i + 1] \in Stream!Others /\ c < Stream!End(i + 1)
            <4>1. i + 1 # j
                BY <3>2, OtherShape
            <4>2. i + 1 <= m /\ i + 1 \in 0 .. Len(wire)
                BY <2>1, <4>1
            <4>3. Stream!End(i + 1) <= Stream!End(m) /\ Stream!End(i + 1) \in Nat
                BY <1>1, <2>1, <4>2, EndsOrder
            <4> QED BY <1>1, <2>4, <3>2, <4>3
        <3> QED BY <2>6, <3>1, <3>2
    <2>8. c + 2 + wire[j][2] <= at
        BY <1>1, <1>3, <2>2, <2>3, <2>4, <2>7, SMTT(30)
    <2>9. /\ ~ (Len(buf) - 0 < 2) /\ 1 \in 1 .. Len(buf) /\ 2 \in 1 .. Len(buf)
          /\ c + 2 <= at
        <3> DEFINE n == wire[j][2]
                   l == Len(buf)
        <3>1. n \in Nat /\ c + 2 + n <= at /\ l \in Nat /\ c + l = at /\ at \in Nat
            BY <1>1, <2>3, <2>8
        <3>2. c \in Nat
            BY <1>1
        <3> HIDE DEF n, l
        <3>3. c + 2 <= at
            BY <3>1, <3>2
        <3>4. l >= 2
            BY <3>1, <3>2, <3>3
        <3>5. ~ (l - 0 < 2) /\ 1 \in 1 .. l /\ 2 \in 1 .. l
            BY <3>1, <3>4
        <3> QED BY <3>3, <3>5 DEF l
    <2>10. Stream!IsHeader(buf, 0) /\ ~ Stream!Complete(buf, 0)
        BY <2>9 DEF StreamInv, Over
    <2>11. buf[1] = Bytestream[c + 1] /\ buf[2] = Bytestream[c + 2]
        BY <2>9 DEF StreamInv, c
    <2>12. buf[1] = Magic /\ buf[2] \in Nat /\ ~ (Len(buf) >= 2 + buf[2])
        <3>1. 0 + 1 = 1 /\ 0 + 2 = 2 /\ Len(buf) - 0 = Len(buf)
            BY <1>1
        <3> QED BY <2>10, <3>1 DEF Stream!IsHeader, Stream!Complete
    <2>13. c + 2 <= Len(Bytestream)
        <3>1. at <= Len(Bytestream) /\ Len(Bytestream) \in Nat
            BY <1>1, WireFacts DEF StreamInv
        <3> QED BY <1>1, <2>9, <3>1
    <2>14. Reached(i, c)
        BY DEF c
    <2>15. wire[i + 1] \in Stream!Records /\ Stream!End(i + 1) = c + 2 + buf[2]
        BY <1>1, <2>11, <2>12, <2>13, <2>14, AtHeader
    <2>16. Stream!End(i + 1) <= Stream!End(j)
        <3>1. i + 1 \in 0 .. Len(wire) /\ i + 1 <= j
            BY <2>1
        <3> QED BY <1>1, <3>1, EndsOrder
    <2>17. Stream!End(j) \in Nat
        BY <2>2, <2>3, <2>4
    <2> QED BY <1>1, <1>3, <2>12, <2>15, <2>16, <2>17
<1> QED BY <1>2, <1>3

\* Every record that has arrived completely has been handled, once and in order,
\* and nothing else, however the reads cut the stream and whatever is between them.
THEOREM RecordsSafe == MCSpec => []RecordsInOrder
<1>1. StreamInv => Stream!RecordsInOrder
    <2> SUFFICES ASSUME StreamInv PROVE Stream!RecordsInOrder
        OBVIOUS
    <2> USE TouchAssumption
    <2> DEFINE arrived == [j \in DOMAIN wire |->
                    IF wire[j] \in Stream!Records /\ Stream!End(j) <= at THEN <<wire[j]>> ELSE << >>]
               R == Stream!Records
    <2>1. PICK i : Reached(i, at - Len(buf)) /\ handled = Found(i)
        BY DEF StreamInv
    <2>2. WireOK /\ i \in 0 .. Len(wire) /\ Len(wire) \in Nat /\ DOMAIN wire = 1 .. Len(wire)
        BY <2>1, WireFacts DEF StreamInv, Reached
    <2>3. \A j \in 1 .. Len(wire) : wire[j] \in R => (Stream!End(j) <= at <=> j <= i)
        BY <2>1, ArrivedIsDone
    <2>4. \A j \in 1 .. Len(wire) :
             /\ Wanted[j] = IF wire[j] \in R THEN <<wire[j]>> ELSE << >>
             /\ arrived[j] = IF wire[j] \in R /\ Stream!End(j) <= at THEN <<wire[j]>> ELSE << >>
        BY <2>2 DEF Wanted
    <2>5. /\ Wanted = [j \in 1 .. Len(wire) |-> Wanted[j]]
          /\ arrived = [j \in 1 .. Len(wire) |-> arrived[j]]
        BY <2>2 DEF Wanted
    <2> HIDE DEF arrived, R
    <2>6. \A x \in R : <<x>> \in Seq(R)
        OBVIOUS
    <2>7. << >> \in Seq(R)
        OBVIOUS
    <2>8. \A j \in 1 .. Len(wire) : Wanted[j] \in Seq(R) /\ arrived[j] \in Seq(R)
        BY <2>4, <2>6, <2>7
    <2>9. /\ Wanted \in Seq(Seq(R)) /\ arrived \in Seq(Seq(R))
          /\ Len(Wanted) = Len(wire) /\ Len(arrived) = Len(wire)
        BY <2>2, <2>5, <2>8
    <2>10. \A j \in 1 .. i : j \in 1 .. Len(wire) /\ j <= i
        BY <2>2
    <2>11. \A j \in (i + 1) .. Len(wire) : j \in 1 .. Len(wire) /\ ~ (j <= i)
        BY <2>2
    <2>12. \A j \in 1 .. i : arrived[j] = Wanted[j]
        BY <2>3, <2>4, <2>10
    <2>13. \A j \in (i + 1) .. Len(wire) : arrived[j] = << >>
        BY <2>3, <2>4, <2>11
    <2>14. Stream!FlattenSeq(arrived) = Upto(Wanted, i)
        BY <2>2, <2>9, <2>12, <2>13, UptoSame, SMTT(30)
    <2> QED BY <2>1, <2>14 DEF Stream!RecordsInOrder, Found, arrived, R
<1>2. StreamInv => RecordsInOrder
    BY <1>1 DEF RecordsInOrder
<1> QED BY <1>2, StreamInvariance, PTL

LEMMA StreamTypes == TouchAssumption /\ StreamInv => Stream!TypeOK
<1> SUFFICES ASSUME TouchAssumption, StreamInv PROVE Stream!TypeOK
    OBVIOUS
<1>1. /\ wire \in Seq(Stream!Records \cup Stream!Others) /\ at \in 0 .. Len(Stream!FlattenSeq(wire))
      /\ buf \in Seq(Stream!Bytes)
    BY DEF StreamInv, WireOK, Bytestream
<1>2. handled \in Seq(Stream!Records)
    <2>1. PICK i : Reached(i, at - Len(buf)) /\ handled = Found(i)
        BY DEF StreamInv
    <2> QED BY <2>1, FoundType DEF Reached, StreamInv
<1>3. Len(buf) < BufSize
    <2>1. Len(buf) \in Nat /\ MaxLen \in Nat /\ BufSize \in Nat /\ MaxLen + 2 < BufSize
        BY <1>1, StreamConstants
    <2>2. CASE Len(buf) - 0 < 2
        BY <2>1, <2>2
    <2>3. CASE ~ (Len(buf) - 0 < 2)
        <3>1. Stream!IsHeader(buf, 0) /\ ~ Stream!Complete(buf, 0)
            BY <2>3 DEF StreamInv, Over
        <3>2. buf[2] \in Nat /\ ~ (Len(buf) >= 2 + buf[2])
            <4>1. 0 + 2 = 2 /\ Len(buf) - 0 = Len(buf)
                BY <2>1
            <4> QED BY <3>1, <4>1 DEF Stream!IsHeader, Stream!Complete
        <3>3. buf[2] \in Stream!Bytes
            <4> DEFINE S == Stream!Bytes
            <4>1. buf \in Seq(S) /\ 2 \in 1 .. Len(buf)
                BY <1>1, <2>1, <2>3
            <4> HIDE DEF S
            <4>2. buf[2] \in S
                BY <4>1
            <4> QED BY <4>2 DEF S
        <3>4. buf[2] \in 0 .. MaxLen
            BY <3>2, <3>3, StreamConstants DEF Stream!Bytes
        <3> QED BY <2>1, <3>2, <3>4
    <2> QED BY <2>2, <2>3
<1> QED BY <1>1, <1>2, <1>3 DEF Stream!TypeOK

\* The types of all parts; the buffer of the stream always has room for a read.
THEOREM TypesCorrect == MCSpec => []TypesOK
<1>1. StreamInv => Stream!TypeOK
    BY TouchAssumption, StreamTypes
<1>2. MatrixInv => Matrix!TypeOK
    BY DEF MatrixInv
<1>3. StreamInv /\ MatrixInv /\ TypeOK => TypesOK
    BY <1>1, <1>2 DEF TypesOK
<1>4. Spec => []TypeOK
    BY TypeCorrect
<1> QED BY <1>3, <1>4, TrackerRuns, StreamInvariance, MatrixInvariance, PTL
=============================================================================
