---------------------------- MODULE AvbImages_proofs ----------------------------
(***************************************************************************)
(* Proofs about AvbImages, for all names, sizes, keys, command lines, block *)
(* sizes and any number of commands and faults.  What a command has left   *)
(* (Left) is known up to the damage a copy may have taken since (Damaged):  *)
(* a struct whose descriptors say what they cover (Sound, Knows), in its    *)
(* place, and in an image with a footer the data and the tree that its own  *)
(* descriptor was made of (HoldsCovers).  A struct that verifies is one of  *)
(* these, for a signature pins it; a digest pins the data, and a root       *)
(* digest the data level by level.  verify_image has checked whatever is no *)
(* longer on its list (JobKnown), and while nothing has changed its list    *)
(* holds nothing but what was put into the images it looks at (JobMeant).   *)
(*                                                                         *)
(* Least is the induction of this module; it is applied to the loops and    *)
(* recursive functions of the model one by one.                             *)
(***************************************************************************)
EXTENDS AvbImages_invariants, TLAPS, NaturalsInduction, WellFoundedInduction, FiniteSetTheorems, SequenceTheorems

\* A set of naturals has a least element.
LEMMA Least ==
    ASSUME NEW T \in SUBSET Nat, T # {}
    PROVE  \E n \in T : \A k \in T : n <= k
<1>1. PICK n \in T : \A k \in T : <<k, n>> \notin OpToRel(<, Nat)
    BY WFMin, NatLessThanWellFounded, Zenon
<1>2. \A k \in T : ~ (k < n) BY <1>1, Zenon DEF OpToRel
<1>3. QED BY <1>2
--------------------------------------------------
(* The writer. *)

\* A number that a block divides is a number of blocks.
LEMMA Quotient ==
    ASSUME NEW b \in Nat \ {0}, NEW n \in Nat, n % b = 0
    PROVE  \E q \in Nat : n = q * b
<1>1. n = (n \div b) * b BY SMT
<1>2. n \div b \in Nat BY SMT
<1> QED BY <1>1, <1>2

\* A number of blocks is divided by a block.
LEMMA Multiple ==
    ASSUME NEW b \in Nat \ {0}, NEW q \in Nat
    PROVE  (q * b) % b = 0
BY SMT

\* So are the sum of two such numbers ...
LEMMA SumAligned ==
    ASSUME NEW b \in Nat \ {0}, NEW m \in Nat, NEW n \in Nat, m % b = 0, n % b = 0
    PROVE  (m + n) % b = 0
<1>1. PICK q \in Nat : m = q * b BY Quotient
<1>2. PICK r \in Nat : n = r * b BY Quotient
<1>3. (q * b) + (r * b) = (q + r) * b BY SMT
<1>4. m + n = (q + r) * b /\ q + r \in Nat
    BY <1>1, <1>2, <1>3
<1> QED BY <1>4, Multiple

\* What round_to_multiple returns.
LEMMA RoundUp ==
    ASSUME NEW b \in Nat \ {0}, NEW n \in Nat, NEW r, r = ((n + b - 1) \div b) * b
    PROVE  r \in Nat /\ n <= r /\ r < n + b /\ r % b = 0
BY SMT

\* What a concatenation is, cell by cell; and parts of it.
LEMMA CatSeq ==
    ASSUME NEW s, NEW t, IsSeq(s), IsSeq(t)
    PROVE  /\ IsSeq(s \o t) /\ Len(s) \in Nat /\ Len(t) \in Nat /\ Len(s \o t) = Len(s) + Len(t)
           /\ \A k \in 1 .. Len(s) : (s \o t)[k] = s[k]
           /\ \A k \in 1 .. Len(t) : (s \o t)[Len(s) + k] = t[k]
<1>1. PICK S : s \in Seq(S) BY DEF IsSeq
<1>2. PICK T : t \in Seq(T) BY DEF IsSeq
<1> DEFINE U == S \cup T
<1>3. s \in Seq(U) /\ t \in Seq(U) BY <1>1, <1>2
<1> HIDE DEF U
<1>4. s \o t \in Seq(U) /\ Len(s \o t) = Len(s) + Len(t)
    BY <1>3
<1>5. \A k \in 1 .. Len(s) : (s \o t)[k] = s[k] BY <1>3
<1>6. \A k \in 1 .. Len(t) : (s \o t)[Len(s) + k] = t[k]
    BY <1>3
<1> QED BY <1>3, <1>4, <1>5, <1>6 DEF IsSeq

\* A part of a sequence, cell by cell.
LEMMA MidSeq ==
    ASSUME NEW s, IsSeq(s), NEW m \in Nat, NEW n \in Nat, m <= n, n <= Len(s)
    PROVE  /\ IsSeq(SubSeq(s, m + 1, n)) /\ Len(SubSeq(s, m + 1, n)) = n - m
           /\ \A k \in 1 .. n - m : SubSeq(s, m + 1, n)[k] = s[m + k]
<1>1. PICK S : s \in Seq(S) BY DEF IsSeq
<1>2. \A k \in m + 1 .. n : s[k] \in S BY <1>1
<1>3. SubSeq(s, m + 1, n) \in Seq(S) BY <1>1, <1>2
<1>4. Len(SubSeq(s, m + 1, n)) = n - m BY <1>1
<1>5. \A k \in 1 .. n - m : SubSeq(s, m + 1, n)[k] = s[m + k]
    BY <1>1
<1> QED BY <1>3, <1>4, <1>5 DEF IsSeq

\* The beginning of a sequence, cell by cell.
LEMMA PreSeq ==
    ASSUME NEW s, IsSeq(s), NEW n \in Nat, n <= Len(s)
    PROVE  /\ IsSeq(SubSeq(s, 1, n)) /\ Len(SubSeq(s, 1, n)) = n
           /\ \A k \in 1 .. n : SubSeq(s, 1, n)[k] = s[k]
<1>1. PICK S : s \in Seq(S) BY DEF IsSeq
<1>2. SubSeq(s, 1, n) \in Seq(S) BY <1>1
<1>3. Len(SubSeq(s, 1, n)) = n BY <1>1
<1>4. \A k \in 1 .. n : SubSeq(s, 1, n)[k] = s[k]
    BY <1>1
<1> QED BY <1>2, <1>3, <1>4 DEF IsSeq

\* Sequences are equal when their cells are.
LEMMA SameSeq ==
    ASSUME NEW s, NEW t, IsSeq(s), IsSeq(t), Len(s) = Len(t), \A k \in 1 .. Len(s) : s[k] = t[k]
    PROVE  s = t
<1>1. PICK S : s \in Seq(S) BY DEF IsSeq
<1>2. PICK T : t \in Seq(T) BY DEF IsSeq
<1> QED BY <1>1, <1>2

\* A function on 1 .. n is a sequence of length n.
LEMMA MapSeq ==
    ASSUME NEW n \in Nat, NEW s, s = [k \in 1 .. n |-> s[k]]
    PROVE  IsSeq(s) /\ Len(s) = n
<1> DEFINE S == {s[k] : k \in 1 .. n}
<1>1. \A k \in 1 .. n : s[k] \in S OBVIOUS
<1> HIDE DEF S
<1>2. s \in [1 .. n -> S] BY <1>1
<1>3. s \in Seq(S) /\ Len(s) = n BY <1>2
<1> QED BY <1>3 DEF IsSeq

\* A sequence without length is the empty one.
LEMMA LenNat == \A s : IsSeq(s) => Len(s) \in Nat /\ (s = << >> <=> Len(s) = 0)
BY DEF IsSeq

\* What Append returns, cell by cell.
LEMMA AppendSeq ==
    ASSUME NEW s, IsSeq(s), NEW x
    PROVE  /\ IsSeq(Append(s, x)) /\ Len(Append(s, x)) = Len(s) + 1
           /\ \A k \in 1 .. Len(s) : Append(s, x)[k] = s[k]
           /\ Append(s, x)[Len(s) + 1] = x
<1>1. PICK S : s \in Seq(S) BY DEF IsSeq
<1> DEFINE U == S \cup {x}
<1>2. s \in Seq(U) /\ x \in U BY <1>1
<1> HIDE DEF U
<1>3. Append(s, x) \in Seq(U) /\ Len(Append(s, x)) = Len(s) + 1
    BY <1>2
<1>4. \A k \in 1 .. Len(s) : Append(s, x)[k] = s[k]
    BY <1>2
<1>5. Append(s, x)[Len(s) + 1] = x BY <1>2
<1> QED BY <1>3, <1>4, <1>5 DEF IsSeq

Flattens(w, n, f) == f = [q \in 1 .. n |-> IF q = 1 THEN w[q] ELSE f[q-1] \o w[q]]

\* The function that FlattenSeq chooses exists.
LEMMA FlattensExists ==
    ASSUME NEW w, NEW n \in Nat
    PROVE  \E f : Flattens(w, n, f)
<1> DEFINE P(m) == \E f : f = [q \in 1 .. m |-> IF q = 1 THEN w[q] ELSE f[q-1] \o w[q]]
           T == {m \in Nat : ~ P(m)}
<1>1. SUFFICES ASSUME T # {} PROVE FALSE BY DEF Flattens
<1>2. PICK m \in T : \A j \in T : m <= j BY <1>1, Least
<1>3. m # 0
    <2>1. P(0)
        <3> DEFINE f == [q \in {} |-> << >>]
        <3>1. f = [q \in 1 .. 0 |-> IF q = 1 THEN w[q] ELSE f[q-1] \o w[q]] OBVIOUS
        <3> QED BY <3>1
    <2> QED BY <2>1
<1>4. P(m - 1)
    <2>1. m - 1 \in Nat /\ ~ (m <= m - 1) BY <1>3
    <2>2. m - 1 \notin T BY <1>2, <2>1
    <2> QED BY <2>1, <2>2
<1>5. PICK g : g = [q \in 1 .. (m - 1) |-> IF q = 1 THEN w[q] ELSE g[q-1] \o w[q]]
    BY <1>4
<1> DEFINE f == [q \in 1 .. m |-> IF q = 1 THEN w[q] ELSE g[q-1] \o w[q]]
<1>6. \A q \in 1 .. m : q # 1 => f[q-1] = g[q-1]
    <2> TAKE q \in 1 .. m
    <2> HAVE q # 1
    <2>1. q - 1 \in 1 .. m /\ q - 1 \in 1 .. (m - 1) OBVIOUS
    <2>2. f[q-1] = IF q - 1 = 1 THEN w[q-1] ELSE g[(q-1)-1] \o w[q-1]
        BY <2>1
    <2>3. g[q-1] = IF q - 1 = 1 THEN w[q-1] ELSE g[(q-1)-1] \o w[q-1]
        BY <1>5, <2>1
    <2> QED BY <2>2, <2>3
<1>7. f = [q \in 1 .. m |-> IF q = 1 THEN w[q] ELSE f[q-1] \o w[q]]
    BY <1>6
<1> QED BY <1>7

\* FlattenSeq is its recursion, run to the end.
LEMMA FlattenIs ==
    ASSUME NEW w, Len(w) \in Nat, Len(w) # 0
    PROVE  \E f : Flattens(w, Len(w), f) /\ FlattenSeq(w) = f[Len(w)]
<1> DEFINE f == CHOOSE f : f = [q \in 1 .. Len(w) |-> IF q = 1 THEN w[q] ELSE f[q-1] \o w[q]]
<1>1. \E g : g = [q \in 1 .. Len(w) |-> IF q = 1 THEN w[q] ELSE g[q-1] \o w[q]]
    BY FlattensExists, Zenon DEF Flattens
<1>2. Flattens(w, Len(w), f) BY <1>1, Zenon DEF Flattens
<1>3. FlattenSeq(w) = f[Len(w)] BY Zenon DEF FlattenSeq
<1> QED BY <1>2, <1>3

\* The recursion over a longer sequence agrees with the one over a shorter.
LEMMA FlattenAgrees ==
    ASSUME NEW s, NEW t, NEW n \in Nat, NEW m \in Nat, NEW f, NEW g, n <= m, n # 0,
           \A k \in 1 .. n : s[k] = t[k], Flattens(s, n, f), Flattens(t, m, g)
    PROVE  f[n] = g[n]
<1> DEFINE T == {k \in 1 .. n : f[k] # g[k]}
<1>1. SUFFICES ASSUME T # {} PROVE FALSE OBVIOUS
<1>2. PICK k \in T : \A j \in T : k <= j
    <2>1. T \in SUBSET Nat OBVIOUS
    <2> HIDE DEF T
    <2> QED BY <1>1, <2>1, Least
<1>3. k \in 1 .. n /\ k \in 1 .. m OBVIOUS
<1>4. f[k] = (IF k = 1 THEN s[k] ELSE f[k - 1] \o s[k])
    BY <1>3 DEF Flattens
<1>5. g[k] = (IF k = 1 THEN t[k] ELSE g[k - 1] \o t[k])
    BY <1>3 DEF Flattens
<1>6. s[k] = t[k] BY <1>3
<1>7. k # 1 => f[k - 1] = g[k - 1]
    <2>1. k # 1 => k - 1 \in 1 .. n /\ ~ (k <= k - 1)
        BY <1>3
    <2> QED BY <1>2, <2>1
<1> QED BY <1>4, <1>5, <1>6, <1>7

\* A position in the concatenation belongs to one of the two.
LEMMA CatHas ==
    ASSUME NEW s, NEW t, IsSeq(s), IsSeq(t)
    PROVE  \A x : Has(s \o t, x) <=> Has(s, x) \/ Has(t, x)
<1>1. /\ IsSeq(s \o t) /\ Len(s) \in Nat /\ Len(t) \in Nat /\ Len(s \o t) = Len(s) + Len(t)
      /\ \A k \in 1 .. Len(s) : (s \o t)[k] = s[k]
      /\ \A k \in 1 .. Len(t) : (s \o t)[Len(s) + k] = t[k]
    BY CatSeq
<1> DEFINE u == s \o t
<1> HIDE DEF u
<1> TAKE x
<1>2. ASSUME Has(s, x) PROVE Has(u, x)
    <2>1. PICK k \in 1 .. Len(s) : s[k] = x
        BY <1>2 DEF Has
    <2> QED BY <1>1, <2>1 DEF Has, u
<1>3. ASSUME Has(t, x) PROVE Has(u, x)
    <2>1. PICK k \in 1 .. Len(t) : t[k] = x
        BY <1>3 DEF Has
    <2>2. Len(s) + k \in 1 .. Len(u) BY <1>1 DEF u
    <2> QED BY <1>1, <2>1, <2>2 DEF Has, u
<1>4. ASSUME Has(u, x) PROVE Has(s, x) \/ Has(t, x)
    <2>1. PICK k \in 1 .. Len(u) : u[k] = x
        BY <1>4 DEF Has
    <2>2. CASE k <= Len(s)
        BY <1>1, <2>1, <2>2 DEF Has, u
    <2>3. CASE k > Len(s)
        <3>1. k - Len(s) \in 1 .. Len(t) /\ Len(s) + (k - Len(s)) = k
            BY <1>1, <2>1, <2>3 DEF u
        <3> QED BY <1>1, <2>1, <3>1 DEF Has, u
    <2> QED BY <1>1, <2>1, <2>2, <2>3
<1> QED BY <1>2, <1>3, <1>4 DEF u

\* The first k of a sequence of sequences, one behind the other.
Flat(w, k) == FlattenSeq([q \in 1 .. k |-> w[q]])

\* Of no sequences nothing.
LEMMA FlatNone == \A w : Flat(w, 0) = << >>
<1> TAKE w
<1>1. PICK v : v = [q \in 1 .. 0 |-> w[q]] OBVIOUS
<1>2. Len(v) = 0 /\ v = << >> BY <1>1
<1>3. FlattenSeq(<< >>) = << >> BY Zenon DEF FlattenSeq
<1> QED BY <1>1, <1>2, <1>3 DEF Flat

\* One sequence more.
LEMMA FlatStep ==
    ASSUME NEW w, NEW k \in Nat, k # 0
    PROVE  Flat(w, k) = IF k = 1 THEN w[k] ELSE Flat(w, k - 1) \o w[k]
<1>1. PICK t : t = [q \in 1 .. k |-> w[q]] OBVIOUS
<1>2. Len(t) = k /\ t[k] = w[k] BY <1>1
<1>3. PICK g : Flattens(t, k, g) /\ FlattenSeq(t) = g[k]
    BY <1>2, FlattenIs
<1>4. g[k] = IF k = 1 THEN t[k] ELSE g[k - 1] \o t[k]
    <2>1. k \in 1 .. k OBVIOUS
    <2> QED BY <1>3, <2>1 DEF Flattens
<1>5. CASE k = 1
    BY <1>1, <1>2, <1>3, <1>4, <1>5 DEF Flat
<1>6. CASE k # 1
    <2>1. PICK n \in Nat \ {0} : n = k - 1 BY <1>6
    <2>2. PICK s : s = [q \in 1 .. n |-> w[q]] OBVIOUS
    <2>3. Len(s) = n /\ n <= k /\ \A q \in 1 .. n : s[q] = t[q]
        BY <1>1, <2>1, <2>2
    <2>4. PICK f : Flattens(s, n, f) /\ FlattenSeq(s) = f[n]
        BY <2>1, <2>3, FlattenIs
    <2>5. (\A q \in 1 .. n : s[q] = t[q]) /\ n <= k /\ Flattens(s, n, f) /\ Flattens(t, k, g)
            => f[n] = g[n]
        BY FlattenAgrees, SMT
    <2>6. f[n] = g[n] BY <1>3, <2>3, <2>4, <2>5
    <2>7. Flat(w, n) = f[n] /\ Flat(w, k) = g[k]
        BY <1>1, <1>3, <2>2, <2>4 DEF Flat
    <2> QED BY <1>2, <1>4, <1>6, <2>1, <2>6, <2>7
<1> QED BY <1>5, <1>6

\* All of them are what FlattenSeq flattens.
LEMMA FlatAll ==
    ASSUME NEW w, IsSeq(w)
    PROVE  Len(w) \in Nat /\ FlattenSeq(w) = Flat(w, Len(w))
<1>1. PICK S : w \in Seq(S) BY DEF IsSeq
<1>2. w = [q \in 1 .. Len(w) |-> w[q]] /\ Len(w) \in Nat
    BY <1>1
<1> QED BY <1>2 DEF Flat

\* A sequence of sequences.
IsSeqs(w) == IsSeq(w) /\ \A k \in 1 .. Len(w) : IsSeq(w[k])

NilSeq == IsSeq(<< >>) /\ Len(<< >>) = 0

\* The empty sequence holds nothing.
LEMMA NilIs == NilSeq /\ (\A x : ~ Has(<< >>, x))
<1>1. << >> \in Seq({}) /\ Len(<< >>) = 0 OBVIOUS
<1> QED BY <1>1 DEF IsSeq, Has, NilSeq

\* One sequence more is put behind the others.
LEMMA FlatGrows ==
    ASSUME NEW w, IsSeqs(w), NEW k \in 1 .. Len(w), IsSeq(Flat(w, k - 1))
    PROVE  /\ IsSeq(Flat(w, k))
           /\ Flat(w, k) = Flat(w, k - 1) \o w[k]
<1>0. Len(w) \in Nat /\ k \in Nat /\ k # 0 /\ IsSeq(w[k])
    BY LenNat DEF IsSeqs
<1>1. CASE k = 1
    <2>0. Flat(w, k) = IF k = 1 THEN w[k] ELSE Flat(w, k - 1) \o w[k]
        BY <1>0, FlatStep
    <2>1. Flat(w, k) = w[k] /\ Flat(w, k - 1) = << >>
        <3>1. k - 1 = 0 BY <1>1
        <3> QED BY <1>1, <2>0, <3>1, FlatNone
    <2>2. PICK S : w[k] \in Seq(S) BY <1>0 DEF IsSeq
    <2>3. << >> \o w[k] = w[k] BY <2>2
    <2> QED BY <1>0, <2>1, <2>3
<1>2. CASE k # 1
    <2>1. Flat(w, k) = Flat(w, k - 1) \o w[k]
        BY <1>0, <1>2, FlatStep
    <2> QED BY <1>0, <2>1, CatSeq
<1> QED BY <1>1, <1>2

\* Flattened sequences are a sequence.
LEMMA FlatSeq ==
    ASSUME NEW w, IsSeqs(w)
    PROVE  \A k \in 0 .. Len(w) : IsSeq(Flat(w, k))
<1> DEFINE T == {k \in 0 .. Len(w) : ~ IsSeq(Flat(w, k))}
<1>0. Len(w) \in Nat BY LenNat DEF IsSeqs
<1>1. SUFFICES ASSUME T # {} PROVE FALSE OBVIOUS
<1>2. PICK k \in T : \A j \in T : k <= j
    <2>1. T \in SUBSET Nat OBVIOUS
    <2> HIDE DEF T
    <2> QED BY <1>1, <2>1, Least
<1>3. k # 0 BY FlatNone, NilIs DEF NilSeq
<1>4. k \in 1 .. Len(w) /\ k - 1 \in 0 .. Len(w) /\ ~ (k <= k - 1)
    BY <1>0, <1>2, <1>3
<1>5. IsSeq(Flat(w, k - 1)) BY <1>2, <1>4
<1> QED BY <1>2, <1>4, <1>5, FlatGrows

\* What has been put into some part, and nothing else, is in the whole.
LEMMA FlatHas ==
    ASSUME NEW w, IsSeqs(w)
    PROVE  \A k \in 0 .. Len(w) : \A x : Has(Flat(w, k), x) <=> \E j \in 1 .. k : Has(w[j], x)
<1> DEFINE Q(k) == \A x : Has(Flat(w, k), x) <=> \E j \in 1 .. k : Has(w[j], x)
           T == {k \in 0 .. Len(w) : ~ Q(k)}
<1>0. Len(w) \in Nat BY LenNat DEF IsSeqs
<1>1. SUFFICES ASSUME T # {} PROVE FALSE OBVIOUS
<1>2. PICK k \in T : \A j \in T : k <= j
    <2>1. T \in SUBSET Nat OBVIOUS
    <2> HIDE DEF T
    <2> QED BY <1>1, <2>1, Least
<1>3. k # 0
    <2>1. Q(0) BY FlatNone, NilIs
    <2> QED BY <1>2, <2>1
<1>4. k \in 1 .. Len(w) /\ k - 1 \in 0 .. Len(w) /\ ~ (k <= k - 1)
    BY <1>0, <1>2, <1>3
<1>5. Q(k - 1) BY <1>2, <1>4
<1>6. Flat(w, k) = Flat(w, k - 1) \o w[k] /\ IsSeq(Flat(w, k - 1)) /\ IsSeq(w[k])
    BY <1>4, FlatGrows, FlatSeq DEF IsSeqs
<1>7. \A x : Has(Flat(w, k), x) <=> Has(Flat(w, k - 1), x) \/ Has(w[k], x)
    BY <1>6, CatHas
<1>8. Q(k)
    <2> SUFFICES ASSUME NEW x PROVE Has(Flat(w, k), x) <=> \E j \in 1 .. k : Has(w[j], x) OBVIOUS
    <2>1. Has(Flat(w, k - 1), x) <=> \E j \in 1 .. k - 1 : Has(w[j], x)
        BY <1>5
    <2>2. \A j \in 1 .. k : j \in 1 .. k - 1 \/ j = k
        BY <1>4
    <2>3. \A j \in 1 .. k - 1 : j \in 1 .. k BY <1>4
    <2>4. k \in 1 .. k BY <1>4
    <2> QED BY <1>7, <2>1, <2>2, <2>3, <2>4
<1> QED BY <1>2, <1>8

\* What a sequence of sequences holds, one behind the other.
LEMMA FlattenHas ==
    ASSUME NEW w, IsSeqs(w)
    PROVE  /\ IsSeq(FlattenSeq(w))
           /\ \A x : Has(FlattenSeq(w), x) <=> \E j \in 1 .. Len(w) : Has(w[j], x)
<1>1. Len(w) \in Nat /\ FlattenSeq(w) = Flat(w, Len(w)) /\ Len(w) \in 0 .. Len(w)
    BY FlatAll DEF IsSeqs
<1> QED BY <1>1, FlatSeq, FlatHas

\* The last that it holds.
LEMMA FlattenLast ==
    ASSUME NEW w, IsSeqs(w), NEW k \in 1 .. Len(w), w[k] # << >>,
           \A j \in k + 1 .. Len(w) : w[j] = << >>
    PROVE  FlattenSeq(w) # << >> /\ Last(FlattenSeq(w)) = Last(w[k])
<1> DEFINE Q(n) == Flat(w, n) # << >> /\ Last(Flat(w, n)) = Last(w[k])
           T == {n \in k .. Len(w) : ~ Q(n)}
<1>0. Len(w) \in Nat BY LenNat DEF IsSeqs
<1>1. T = {}
  <2>1. SUFFICES ASSUME T # {} PROVE FALSE OBVIOUS
  <2>2. PICK n \in T : \A j \in T : n <= j
    <3>1. T \in SUBSET Nat OBVIOUS
    <3> HIDE DEF T
    <3> QED BY <2>1, <3>1, Least
  <2>3. n \in 1 .. Len(w) /\ n - 1 \in 0 .. Len(w)
    BY <1>0
  <2>4. /\ Flat(w, n) = Flat(w, n - 1) \o w[n] /\ IsSeq(Flat(w, n - 1)) /\ IsSeq(w[n])
    BY <2>3, FlatGrows, FlatSeq DEF IsSeqs
  <2>5. CASE n = k
    <3>1. Len(w[k]) \in Nat /\ Len(w[k]) # 0 /\ Len(w[k]) \in 1 .. Len(w[k])
        BY <2>4, <2>5, LenNat
    <3>2. PICK s : s = Flat(w, n - 1) OBVIOUS
    <3>3. PICK t : t = w[k] OBVIOUS
    <3>4. IsSeq(s) /\ IsSeq(t) /\ Flat(w, n) = s \o t /\ Len(t) \in 1 .. Len(t)
        BY <2>4, <2>5, <3>1, <3>2, <3>3
    <3>5. /\ IsSeq(s \o t) /\ Len(s) \in Nat /\ Len(t) \in Nat /\ Len(s \o t) = Len(s) + Len(t)
          /\ \A j \in 1 .. Len(t) : (s \o t)[Len(s) + j] = t[j]
        BY <3>4, CatSeq
    <3>6. Len(s \o t) # 0 /\ s \o t # << >> /\ (s \o t)[Len(s \o t)] = t[Len(t)]
        BY <3>4, <3>5, LenNat
    <3>7. Q(n) BY <3>3, <3>4, <3>6 DEF Last
    <3> QED BY <3>7
  <2>6. CASE n # k
    <3>1. n \in k + 1 .. Len(w) /\ n - 1 \in k .. Len(w) /\ ~ (n <= n - 1)
        BY <1>0, <2>2, <2>6
    <3>2. Q(n - 1) BY <2>2, <3>1
    <3>3. w[n] = << >> BY <3>1
    <3>4. PICK S : Flat(w, n - 1) \in Seq(S)
        BY <2>4 DEF IsSeq
    <3>5. Flat(w, n - 1) \o << >> = Flat(w, n - 1)
        BY <3>4
    <3>6. Q(n) BY <2>4, <3>2, <3>3, <3>5
    <3> QED BY <3>6
  <2> QED BY <2>5, <2>6
<1>2. Q(Len(w))
    <2>1. Len(w) \in k .. Len(w) BY <1>0
    <2> QED BY <1>1, <2>1
<1>3. FlattenSeq(w) = Flat(w, Len(w))
    BY FlatAll DEF IsSeqs
<1> QED BY <1>2, <1>3

--------------------------------------------------
(* Rounding, padding and slices. *)

\* What the assumptions say of the sizes.
LEMMA SizesOK == PerBlock \in Nat /\ PerBlock > 1 /\ Unit \in Nat /\ Unit > 0
BY AvbImagesAssumption DEF VbmetaAssumption, HashTreeAssumption, Unit

\* What round_to_multiple returns, for the sizes of the model.
LEMMA RoundTo ==
    ASSUME NEW n \in Nat, NEW b \in Nat \ {0}
    PROVE  /\ round_to_multiple(n, b) \in Nat /\ n <= round_to_multiple(n, b)
           /\ round_to_multiple(n, b) < n + b /\ round_to_multiple(n, b) % b = 0
           /\ n % b = 0 => round_to_multiple(n, b) = n
<1>1. CASE n % b = 0 BY <1>1 DEF round_to_multiple
<1>2. CASE n % b # 0
    <2>1. PICK q \in Nat : q = n \div b
        <3>1. n \div b \in Nat BY SMT
        <3> QED BY <3>1
    <2>2. PICK r \in Nat : r = n % b BY SMT
    <2>3. r > 0 /\ r < b BY <1>2, <2>2, SMT
    <2>4. n = (q * b) + r BY <2>1, <2>2, SMT
    <2>5. (q + 1) * b = (q * b) + b BY SMT
    <2>6. PICK z \in Nat : z = q * b
        <3>1. q * b \in Nat BY SMT
        <3> QED BY <3>1
    <2>7. (n + b) - r = (q + 1) * b BY <2>4, <2>5, <2>6
    <2>8. round_to_multiple(n, b) = (n + b) - r
        BY <1>2, <2>2 DEF round_to_multiple
    <2>9. (n + b) - r \in Nat /\ n <= (n + b) - r /\ (n + b) - r < n + b
        BY <2>3
    <2>10. ((q + 1) * b) % b = 0 BY Multiple
    <2> QED BY <1>2, <2>7, <2>8, <2>9, <2>10
<1> QED BY <1>1, <1>2

\* What Nuls returns.
LEMMA NulsSeq ==
    ASSUME NEW n \in Nat
    PROVE  IsSeq(Nuls(n)) /\ Len(Nuls(n)) = n /\ \A k \in 1 .. n : Nuls(n)[k] = Nul
<1>1. PICK s : s = Nuls(n) OBVIOUS
<1>2. s = [i \in 1 .. n |-> Nul] BY <1>1 DEF Nuls
<1>3. s = [i \in 1 .. n |-> s[i]] /\ \A k \in 1 .. n : s[k] = Nul
    BY <1>2
<1>4. IsSeq(s) /\ Len(s) = n BY <1>3, MapSeq
<1> QED BY <1>1, <1>3, <1>4

\* s with n cells behind it that hold nothing.
LEMMA NulsBehind ==
    ASSUME NEW s, IsSeq(s), NEW n \in Nat
    PROVE  /\ IsSeq(s \o Nuls(n)) /\ Len(s) \in Nat /\ Len(s \o Nuls(n)) = Len(s) + n
           /\ \A k \in 1 .. Len(s) : (s \o Nuls(n))[k] = s[k]
           /\ \A k \in 1 .. Len(s) + n : k > Len(s) => (s \o Nuls(n))[k] = Nul
<1>1. PICK t : t = Nuls(n) OBVIOUS
<1>2. IsSeq(t) /\ Len(t) = n /\ \A k \in 1 .. n : t[k] = Nul
    BY <1>1, NulsSeq
<1>3. /\ IsSeq(s \o t) /\ Len(s) \in Nat /\ Len(s \o t) = Len(s) + Len(t)
      /\ \A k \in 1 .. Len(s) : (s \o t)[k] = s[k]
      /\ \A k \in 1 .. Len(t) : (s \o t)[Len(s) + k] = t[k]
    BY <1>2, CatSeq
<1>4. ASSUME NEW k \in 1 .. Len(s) + n, k > Len(s) PROVE (s \o t)[k] = Nul
    <2>1. k - Len(s) \in 1 .. Len(t) /\ Len(s) + (k - Len(s)) = k
        BY <1>2, <1>3, <1>4
    <2> QED BY <1>2, <1>3, <2>1
<1> QED BY <1>1, <1>2, <1>3, <1>4

\* What padding does.
LEMMA PadSeq ==
    ASSUME NEW s, IsSeq(s), NEW b \in Nat \ {0}
    PROVE  /\ IsSeq(PadTo(s, b)) /\ Len(s) \in Nat /\ Len(PadTo(s, b)) = round_to_multiple(Len(s), b)
           /\ Len(PadTo(s, b)) \in Nat /\ Len(s) <= Len(PadTo(s, b)) /\ Len(PadTo(s, b)) % b = 0
           /\ \A k \in 1 .. Len(s) : PadTo(s, b)[k] = s[k]
           /\ \A k \in 1 .. Len(PadTo(s, b)) : k > Len(s) => PadTo(s, b)[k] = Nul
<1>1. Len(s) \in Nat BY LenNat
<1>2. PICK r \in Nat : r = round_to_multiple(Len(s), b) /\ Len(s) <= r /\ r % b = 0
    BY <1>1, RoundTo
<1>3. PICK n \in Nat : n = r - Len(s) /\ Len(s) + n = r
    BY <1>1, <1>2
<1>4. /\ IsSeq(s \o Nuls(n)) /\ Len(s \o Nuls(n)) = r
      /\ \A k \in 1 .. Len(s) : (s \o Nuls(n))[k] = s[k]
      /\ \A k \in 1 .. r : k > Len(s) => (s \o Nuls(n))[k] = Nul
    <2>1. /\ IsSeq(s \o Nuls(n)) /\ Len(s \o Nuls(n)) = Len(s) + n
          /\ \A k \in 1 .. Len(s) : (s \o Nuls(n))[k] = s[k]
          /\ \A k \in 1 .. Len(s) + n : k > Len(s) => (s \o Nuls(n))[k] = Nul
        BY NulsBehind
    <2> QED BY <1>3, <2>1
<1>5. PadTo(s, b) = s \o Nuls(n) BY <1>2, <1>3 DEF PadTo
<1> QED BY <1>1, <1>2, <1>4, <1>5

SliceLen(s, at, n) == IF Len(s) <= at THEN 0 ELSE IF at + n < Len(s) THEN n ELSE Len(s) - at

\* What reading a slice gives, also behind the end of the file.
LEMMA SliceSeq ==
    ASSUME NEW s, IsSeq(s), NEW at \in Nat, NEW n \in Nat
    PROVE  /\ IsSeq(Slice(s, at, n)) /\ Len(Slice(s, at, n)) = SliceLen(s, at, n)
           /\ Len(s) \in Nat /\ SliceLen(s, at, n) \in Nat /\ SliceLen(s, at, n) <= n
           /\ \A k \in 1 .. SliceLen(s, at, n) : at + k <= Len(s) /\ Slice(s, at, n)[k] = s[at + k]
<1>1. Len(s) \in Nat BY LenNat
<1>2. CASE Len(s) <= at
    <2>1. PICK m \in Nat : m = Len(s) /\ ~ (at + n < m) /\ m < at + 1
        BY <1>1, <1>2
    <2>2. SubSeq(s, at + 1, m) = << >>
        <3>1. PICK S : s \in Seq(S) BY DEF IsSeq
        <3> QED BY <2>1, <3>1
    <2>3. Slice(s, at, n) = << >> /\ SliceLen(s, at, n) = 0
        BY <1>2, <2>1, <2>2 DEF Slice, SliceLen
    <2> QED BY <1>1, <2>3, NilIs DEF NilSeq
<1>3. CASE Len(s) > at
    <2>1. PICK m \in Nat : m = IF at + n < Len(s) THEN at + n ELSE Len(s)
        BY <1>1
    <2>2. at <= m /\ m <= Len(s) /\ SliceLen(s, at, n) = m - at /\ m - at \in Nat /\ m - at <= n
        BY <1>1, <1>3, <2>1 DEF SliceLen
    <2>3. Slice(s, at, n) = SubSeq(s, at + 1, m)
        BY <2>1 DEF Slice
    <2>4. /\ IsSeq(SubSeq(s, at + 1, m)) /\ Len(SubSeq(s, at + 1, m)) = m - at
          /\ \A k \in 1 .. m - at : SubSeq(s, at + 1, m)[k] = s[at + k]
        BY <2>2, MidSeq
    <2>5. \A k \in 1 .. m - at : at + k <= Len(s)
        BY <1>1, <2>2
    <2> QED BY <1>1, <2>2, <2>3, <2>4, <2>5
<1> QED BY <1>1, <1>2, <1>3

\* A slice that is not cut short.
LEMMA SliceFull ==
    ASSUME NEW s, IsSeq(s), NEW at \in Nat, NEW n \in Nat, at + n <= Len(s)
    PROVE  /\ IsSeq(Slice(s, at, n)) /\ Len(Slice(s, at, n)) = n
           /\ \A k \in 1 .. n : Slice(s, at, n)[k] = s[at + k]
<1>1. /\ IsSeq(Slice(s, at, n)) /\ Len(Slice(s, at, n)) = SliceLen(s, at, n) /\ Len(s) \in Nat
      /\ \A k \in 1 .. SliceLen(s, at, n) : Slice(s, at, n)[k] = s[at + k]
    BY SliceSeq
<1>2. SliceLen(s, at, n) = n BY <1>1 DEF SliceLen
<1> QED BY <1>1, <1>2

\* A part that is in its place is what is read there.
LEMMA SlicePlaced ==
    ASSUME NEW g, NEW t, IsSeq(g), IsSeq(t), NEW at \in Nat, Placed(g, at, t)
    PROVE  Slice(g, at, Len(t)) = t
<1>1. Len(t) \in Nat /\ at + Len(t) <= Len(g)
    BY LenNat DEF Placed
<1>2. /\ IsSeq(Slice(g, at, Len(t))) /\ Len(Slice(g, at, Len(t))) = Len(t)
      /\ \A k \in 1 .. Len(t) : Slice(g, at, Len(t))[k] = g[at + k]
    BY <1>1, SliceFull
<1>3. \A k \in 1 .. Len(t) : Slice(g, at, Len(t))[k] = t[k]
    BY <1>2 DEF Placed
<1> HIDE DEF Placed
<1> QED BY <1>2, <1>3, SameSeq

\* A copy that has not gone wrong is the file.
LEMMA DamagedSelf == ASSUME NEW f, IsSeq(f) PROVE Damaged(f, f)
BY LenNat DEF Damaged

\* What is at a place of a part is at a place of the whole.
LEMMA PlacedIn ==
    ASSUME NEW g, NEW s, NEW t, IsSeq(g), IsSeq(s), IsSeq(t), NEW at \in Nat, NEW i \in Nat,
           Placed(g, at, s), Placed(s, i, t)
    PROVE  Placed(g, at + i, t)
<1>1. Len(g) \in Nat /\ Len(s) \in Nat /\ Len(t) \in Nat
    BY LenNat
<1>2. (at + i) + Len(t) <= Len(g) BY <1>1 DEF Placed
<1>3. ASSUME NEW k \in 1 .. Len(t) PROVE g[(at + i) + k] = t[k]
    <2>1. i + k \in 1 .. Len(s) /\ at + (i + k) = (at + i) + k
        BY <1>1 DEF Placed
    <2>2. g[at + (i + k)] = s[i + k] /\ s[i + k] = t[k]
        BY <2>1 DEF Placed
    <2> QED BY <2>1, <2>2
<1> QED BY <1>2, <1>3 DEF Placed

\* Both parts of a concatenation are in it.
LEMMA PlacedCat ==
    ASSUME NEW s, NEW t, IsSeq(s), IsSeq(t)
    PROVE  Placed(s \o t, 0, s) /\ Placed(s \o t, Len(s), t) /\ Len(s) \in Nat /\ IsSeq(s \o t)
BY CatSeq, LenNat DEF Placed

\* What is padded begins what comes of it.
LEMMA PlacedPad ==
    ASSUME NEW s, IsSeq(s), NEW b \in Nat \ {0}
    PROVE  Placed(PadTo(s, b), 0, s) /\ IsSeq(PadTo(s, b))
BY PadSeq DEF Placed

--------------------------------------------------
(* Descriptors. *)

DescCell(d) == [kind |-> "desc", d |-> d, nbf |-> Following(d)]
MoreCell(d) == [kind |-> "more", d |-> d]

\* A descriptor is one cell, and a second one when its name or digest needs it.
LEMMA EncodeIs ==
    ASSUME NEW d
    PROVE  /\ IsSeq(Encode(d)) /\ Following(d) \in 0 .. 1 /\ Len(Encode(d)) = 1 + Following(d)
           /\ Encode(d)[1] = DescCell(d)
           /\ Following(d) = 1 => Encode(d)[2] = MoreCell(d)
<1>1. Following(d) \in 0 .. 1 BY DEF Following
<1>2. PICK n \in 0 .. 1 : n = Following(d) BY <1>1
<1>3. PICK s : s = [i \in 1 .. n |-> MoreCell(d)] OBVIOUS
<1>4. s = [i \in 1 .. n |-> s[i]] /\ \A i \in 1 .. n : s[i] = MoreCell(d)
    BY <1>3
<1>5. IsSeq(s) /\ Len(s) = n BY <1>2, <1>4, MapSeq
<1>6. PICK c : c = <<DescCell(d)>> OBVIOUS
<1>7. IsSeq(c) /\ Len(c) = 1 /\ c[1] = DescCell(d)
    <2>1. c \in Seq({DescCell(d)}) /\ Len(c) = 1 /\ c[1] = DescCell(d)
        BY <1>6
    <2> QED BY <2>1 DEF IsSeq
<1>8. Encode(d) = c \o s
    BY <1>2, <1>3, <1>6 DEF Encode, DescCell, MoreCell
<1>9. /\ IsSeq(c \o s) /\ Len(c \o s) = 1 + n
      /\ \A k \in 1 .. 1 : (c \o s)[k] = c[k]
      /\ \A k \in 1 .. n : (c \o s)[1 + k] = s[k]
    <2>1. /\ IsSeq(c \o s) /\ Len(c \o s) = Len(c) + Len(s)
          /\ \A k \in 1 .. Len(c) : (c \o s)[k] = c[k]
          /\ \A k \in 1 .. Len(s) : (c \o s)[Len(c) + k] = s[k]
        <3>1. IsSeq(c) /\ IsSeq(s) BY <1>5, <1>7
        <3> QED BY <3>1, CatSeq
    <2> QED BY <1>5, <1>7, <2>1
<1>10. (c \o s)[1] = DescCell(d) /\ (n = 1 => (c \o s)[2] = MoreCell(d))
    <2>1. 1 \in 1 .. 1 /\ (n = 1 => 1 \in 1 .. n /\ 1 + 1 = 2) OBVIOUS
    <2> QED BY <1>4, <1>7, <1>9, <2>1
<1> QED BY <1>1, <1>2, <1>8, <1>9, <1>10

\* The first k of a sequence of sequences are at the beginning of more of them.
LEMMA FlatPlaced ==
    ASSUME NEW w, IsSeqs(w)
    PROVE  \A k \in 1 .. Len(w) : Placed(FlattenSeq(w), Len(Flat(w, k - 1)), w[k])
                                  /\ Len(Flat(w, k - 1)) \in Nat
<1>0. Len(w) \in Nat /\ FlattenSeq(w) = Flat(w, Len(w))
    BY FlatAll DEF IsSeqs
<1>1. SUFFICES ASSUME NEW k \in 1 .. Len(w) PROVE Placed(Flat(w, Len(w)), Len(Flat(w, k - 1)), w[k])
                                                   /\ Len(Flat(w, k - 1)) \in Nat
    BY <1>0
<1>2. k - 1 \in 0 .. Len(w) /\ IsSeq(Flat(w, k - 1)) /\ IsSeq(w[k])
    <2>1. k - 1 \in 0 .. Len(w) BY <1>0
    <2> QED BY <2>1, FlatSeq DEF IsSeqs
<1>3. PICK at \in Nat : at = Len(Flat(w, k - 1))
    BY <1>2, LenNat
<1> DEFINE T == {n \in k .. Len(w) : ~ Placed(Flat(w, n), at, w[k])}
<1>4. SUFFICES T = {}
    <2>1. Len(w) \in k .. Len(w) BY <1>0
    <2> QED BY <1>3, <2>1
<1>5. SUFFICES ASSUME T # {} PROVE FALSE OBVIOUS
<1>6. PICK n \in T : \A j \in T : n <= j
    <2>1. T \in SUBSET Nat OBVIOUS
    <2> HIDE DEF T
    <2> QED BY <1>5, <2>1, Least
<1>7. n \in 1 .. Len(w) /\ n - 1 \in 0 .. Len(w) BY <1>0
<1>8. /\ Flat(w, n) = Flat(w, n - 1) \o w[n] /\ IsSeq(Flat(w, n - 1)) /\ IsSeq(w[n])
    BY <1>7, FlatGrows, FlatSeq DEF IsSeqs
<1>9. CASE n = k
    <2>1. Placed(Flat(w, n), at, w[k])
        BY <1>3, <1>8, <1>9, PlacedCat
    <2> QED BY <2>1
<1>10. CASE n # k
    <2>1. n - 1 \in k .. Len(w) /\ ~ (n <= n - 1)
        BY <1>0, <1>6, <1>10
    <2>2. Placed(Flat(w, n - 1), at, w[k]) BY <1>6, <2>1
    <2>3. Placed(Flat(w, n), 0, Flat(w, n - 1)) /\ IsSeq(Flat(w, n))
        BY <1>8, PlacedCat
    <2>4. Placed(Flat(w, n), 0 + at, w[k])
        BY <1>2, <1>8, <2>2, <2>3, PlacedIn
    <2>5. 0 + at = at OBVIOUS
    <2> QED BY <2>4, <2>5
<1> QED BY <1>9, <1>10

Codes(ds) == [i \in 1 .. Len(ds) |-> Encode(ds[i])]

\* The encodings of descriptors, one for each.
LEMMA CodesIs ==
    ASSUME NEW ds, IsSeq(ds)
    PROVE  /\ IsSeqs(Codes(ds)) /\ Len(Codes(ds)) = Len(ds) /\ Len(ds) \in Nat
           /\ \A k \in 1 .. Len(ds) : Codes(ds)[k] = Encode(ds[k])
           /\ EncodeAll(ds) = FlattenSeq(Codes(ds)) /\ IsSeq(EncodeAll(ds))
<1>1. Len(ds) \in Nat BY LenNat
<1>2. PICK w : w = Codes(ds) OBVIOUS
<1>3. w = [i \in 1 .. Len(ds) |-> w[i]] /\ \A k \in 1 .. Len(ds) : w[k] = Encode(ds[k])
    BY <1>2 DEF Codes
<1>4. IsSeq(w) /\ Len(w) = Len(ds) BY <1>1, <1>3, MapSeq
<1>5. IsSeqs(w) BY <1>3, <1>4, EncodeIs DEF IsSeqs
<1>6. EncodeAll(ds) = FlattenSeq(w)
    BY <1>2 DEF EncodeAll, Codes
<1> QED BY <1>1, <1>2, <1>3, <1>4, <1>5, <1>6, FlattenHas

\* Where the k-th descriptor begins.
At(ds, k) == Len(Flat(Codes(ds), k - 1))

\* Where the descriptors of an encoding begin.
LEMMA AtIs ==
    ASSUME NEW ds, IsSeq(ds)
    PROVE  /\ At(ds, 1) = 0 /\ At(ds, Len(ds) + 1) = Len(EncodeAll(ds))
           /\ \A k \in 1 .. Len(ds) :
                /\ At(ds, k) \in Nat /\ At(ds, k + 1) = At(ds, k) + 1 + Following(ds[k])
                /\ At(ds, k + 1) <= Len(EncodeAll(ds))
                /\ EncodeAll(ds)[At(ds, k) + 1] = DescCell(ds[k])
                /\ Following(ds[k]) = 1 => EncodeAll(ds)[At(ds, k) + 2] = MoreCell(ds[k])
<1> DEFINE w == Codes(ds)
<1>1. /\ IsSeqs(w) /\ Len(w) = Len(ds) /\ Len(ds) \in Nat /\ EncodeAll(ds) = FlattenSeq(w)
      /\ \A k \in 1 .. Len(ds) : w[k] = Encode(ds[k])
    BY CodesIs
<1>2. FlattenSeq(w) = Flat(w, Len(w))
    BY <1>1, FlatAll DEF IsSeqs
<1>3. \A k \in 1 .. Len(w) : Placed(FlattenSeq(w), Len(Flat(w, k - 1)), w[k]) /\ Len(Flat(w, k - 1)) \in Nat
    BY <1>1, FlatPlaced
<1> HIDE DEF w
<1>4. At(ds, 1) = 0
    <2>1. 1 - 1 = 0 /\ Len(<< >>) = 0 OBVIOUS
    <2> QED BY <2>1, FlatNone DEF At
<1>5. At(ds, Len(ds) + 1) = Len(EncodeAll(ds))
    <2>1. (Len(ds) + 1) - 1 = Len(ds) BY <1>1
    <2> QED BY <1>1, <1>2, <2>1 DEF At, w
<1>6. ASSUME NEW k \in 1 .. Len(ds)
      PROVE  /\ At(ds, k) \in Nat /\ At(ds, k + 1) = At(ds, k) + 1 + Following(ds[k])
             /\ At(ds, k + 1) <= Len(EncodeAll(ds))
             /\ EncodeAll(ds)[At(ds, k) + 1] = DescCell(ds[k])
             /\ Following(ds[k]) = 1 => EncodeAll(ds)[At(ds, k) + 2] = MoreCell(ds[k])
    <2>1. /\ IsSeq(w[k]) /\ Following(ds[k]) \in 0 .. 1 /\ Len(w[k]) = 1 + Following(ds[k])
          /\ w[k][1] = DescCell(ds[k])
          /\ Following(ds[k]) = 1 => w[k][2] = MoreCell(ds[k])
        BY <1>1, EncodeIs
    <2>2. Placed(EncodeAll(ds), At(ds, k), w[k]) /\ At(ds, k) \in Nat
        BY <1>1, <1>3 DEF At, w
    <2>3. At(ds, k + 1) = At(ds, k) + Len(w[k])
        <3>1. (k + 1) - 1 = k /\ k - 1 \in 0 .. Len(w)
            BY <1>1
        <3>2. Flat(w, k) = Flat(w, k - 1) \o w[k] /\ IsSeq(Flat(w, k - 1)) /\ IsSeq(w[k])
            BY <1>1, <3>1, FlatGrows, FlatSeq DEF IsSeqs
        <3>3. Len(Flat(w, k)) = Len(Flat(w, k - 1)) + Len(w[k])
            BY <3>2, CatSeq
        <3> QED BY <3>1, <3>3 DEF At, w
    <2>4. PICK n \in 0 .. 1 : n = Following(ds[k]) /\ Len(w[k]) = 1 + n
        BY <2>1
    <2>5. PICK x \in Nat : x = At(ds, k) BY <2>2
    <2>6. At(ds, k + 1) = x + 1 + n /\ x + Len(w[k]) <= Len(EncodeAll(ds))
        BY <2>2, <2>3, <2>4, <2>5 DEF Placed
    <2>7. EncodeAll(ds)[x + 1] = w[k][1] /\ (n = 1 => EncodeAll(ds)[x + 2] = w[k][2])
        BY <2>2, <2>4, <2>5 DEF Placed
    <2> QED BY <2>1, <2>2, <2>4, <2>5, <2>6, <2>7
<1> QED BY <1>4, <1>5, <1>6

\* What the cells of descriptors are.
LEMMA EncodeCells ==
    ASSUME NEW ds, IsSeq(ds), NEW i \in 1 .. Len(EncodeAll(ds))
    PROVE  \E k \in 1 .. Len(ds) : EncodeAll(ds)[i] = DescCell(ds[k]) \/ EncodeAll(ds)[i] = MoreCell(ds[k])
<1>1. /\ IsSeqs(Codes(ds)) /\ Len(Codes(ds)) = Len(ds) /\ EncodeAll(ds) = FlattenSeq(Codes(ds))
      /\ \A k \in 1 .. Len(ds) : Codes(ds)[k] = Encode(ds[k])
    BY CodesIs
<1>2. Has(EncodeAll(ds), EncodeAll(ds)[i]) BY DEF Has
<1>3. PICK k \in 1 .. Len(ds) : Has(Encode(ds[k]), EncodeAll(ds)[i])
    BY <1>1, <1>2, FlattenHas
<1>4. PICK j \in 1 .. Len(Encode(ds[k])) : Encode(ds[k])[j] = EncodeAll(ds)[i]
    BY <1>3 DEF Has
<1>5. j = 1 \/ (j = 2 /\ Following(ds[k]) = 1)
    BY <1>4, EncodeIs
<1> QED BY <1>4, <1>5, EncodeIs

--------------------------------------------------
(* parse_descriptors. *)

ParseStart == [o |-> 1, ret |-> << >>, ok |-> TRUE]
ParseStep(data, r) ==
    IF r.o > Len(data) THEN r
    ELSE IF data[r.o].kind # "desc" THEN [r EXCEPT !.ok = FALSE, !.o = Len(data) + 1]
    ELSE [r EXCEPT !.o = @ + 1 + data[@].nbf, !.ret = Append(@, Decode(data, r.o))]

\* f is what the recursion of ParseLoop computes.
ParseRuns(data, n, f) ==
    f = [k \in 0 .. n |-> IF k = 0 THEN ParseStart ELSE ParseStep(data, f[k - 1])]

\* The loop of parse_descriptors runs.
LEMMA ParseExists ==
    ASSUME NEW data, NEW n \in Nat
    PROVE  \E f : ParseRuns(data, n, f)
<1> DEFINE R(m, r) == r = [k \in 0 .. m |-> IF k = 0 THEN ParseStart ELSE ParseStep(data, r[k - 1])]
           P(m) == \E r : R(m, r)
           T == {m \in Nat : ~ P(m)}
<1>1. SUFFICES ASSUME T # {} PROVE FALSE
    BY DEF ParseRuns
<1>2. PICK m \in T : \A j \in T : m <= j BY <1>1, Least
<1>3. m # 0
    <2>1. P(0)
        <3> DEFINE f == [k \in {0} |-> ParseStart]
        <3>1. R(0, f) OBVIOUS
        <3> QED BY <3>1
    <2> QED BY <2>1
<1>4. P(m - 1)
    <2>1. m - 1 \in Nat /\ ~ (m <= m - 1) BY <1>3
    <2>2. m - 1 \notin T BY <1>2, <2>1
    <2> QED BY <2>1, <2>2
<1>5. PICK g : R(m - 1, g) BY <1>4
<1> DEFINE f == [k \in 0 .. m |-> IF k = 0 THEN ParseStart ELSE ParseStep(data, g[k - 1])]
<1>6. \A k \in 0 .. m : k # 0 => f[k - 1] = g[k - 1]
    <2> TAKE k \in 0 .. m
    <2> HAVE k # 0
    <2>1. k - 1 \in 0 .. m /\ k - 1 \in 0 .. (m - 1) OBVIOUS
    <2>2. f[k - 1] = IF k - 1 = 0 THEN ParseStart ELSE ParseStep(data, g[(k - 1) - 1])
        BY <2>1
    <2>3. g[k - 1] = IF k - 1 = 0 THEN ParseStart ELSE ParseStep(data, g[(k - 1) - 1])
        BY <1>5, <2>1
    <2> QED BY <2>2, <2>3
<1>7. R(m, f) BY <1>6
<1> QED BY <1>7

\* parse_descriptors is that loop.
LEMMA ParseIs ==
    ASSUME NEW data, Len(data) \in Nat
    PROVE  \E f : ParseRuns(data, Len(data), f) /\ parse_descriptors(data) = f[Len(data)]
<1> DEFINE F(r) == r = [k \in 0 .. Len(data) |->
                          IF k = 0 THEN [o |-> 1, ret |-> << >>, ok |-> TRUE]
                          ELSE LET x == r[k - 1]
                               IN  IF x.o > Len(data) THEN x
                                   ELSE IF data[x.o].kind # "desc" THEN [x EXCEPT !.ok = FALSE, !.o = Len(data) + 1]
                                   ELSE [x EXCEPT !.o = @ + 1 + data[@].nbf, !.ret = Append(@, Decode(data, x.o))]]
           f == CHOOSE r : F(r)
<1>1. \A r : F(r) <=> ParseRuns(data, Len(data), r)
    BY Zenon DEF ParseRuns, ParseStart, ParseStep
<1>2. \E r : F(r) BY <1>1, ParseExists, Zenon
<1>3. F(f) BY <1>2, Zenon
<1>4. ParseLoop(data) = f BY Zenon DEF ParseLoop
<1>5. ParseRuns(data, Len(data), f) BY <1>1, <1>3, Zenon
<1> HIDE DEF f
<1> QED BY <1>4, <1>5 DEF parse_descriptors

\* The beginning of ds.
Pre(ds, k) == [i \in 1 .. k |-> ds[i]]

\* One descriptor more.
LEMMA PreStep ==
    ASSUME NEW ds, NEW k \in Nat, k # 0
    PROVE  Append(Pre(ds, k - 1), ds[k]) = Pre(ds, k)
<1>1. PICK s : s = Pre(ds, k - 1) OBVIOUS
<1>2. PICK t : t = Pre(ds, k) OBVIOUS
<1>3. PICK n \in Nat : n = k - 1 /\ n + 1 = k OBVIOUS
<1>4. s = [i \in 1 .. n |-> s[i]] /\ t = [i \in 1 .. k |-> t[i]]
    BY <1>1, <1>2, <1>3 DEF Pre
<1>5. IsSeq(s) /\ Len(s) = n /\ IsSeq(t) /\ Len(t) = k
    BY <1>3, <1>4, MapSeq
<1>6. \A i \in 1 .. n : s[i] = ds[i]
    BY <1>1, <1>3 DEF Pre
<1>7. \A i \in 1 .. k : t[i] = ds[i] BY <1>2 DEF Pre
<1>8. /\ IsSeq(Append(s, ds[k])) /\ Len(Append(s, ds[k])) = Len(s) + 1
      /\ \A i \in 1 .. Len(s) : Append(s, ds[k])[i] = s[i]
      /\ Append(s, ds[k])[Len(s) + 1] = ds[k]
    BY <1>5, AppendSeq
<1>9. \A i \in 1 .. k : Append(s, ds[k])[i] = t[i]
    BY <1>3, <1>5, <1>6, <1>7, <1>8
<1>10. Append(s, ds[k]) = t
    BY <1>3, <1>5, <1>8, <1>9, SameSeq
<1> QED BY <1>1, <1>2, <1>10

\* What has been encoded is what is found.
LEMMA ParseAgain ==
    ASSUME NEW ds, IsSeq(ds)
    PROVE  parse_descriptors(EncodeAll(ds)).ok = TRUE /\ parse_descriptors(EncodeAll(ds)).ret = ds
<1> DEFINE data == EncodeAll(ds)
<1>1. Len(ds) \in Nat /\ IsSeq(data) /\ Len(data) \in Nat
    BY CodesIs, LenNat
<1>2. PICK f : ParseRuns(data, Len(data), f) /\ parse_descriptors(data) = f[Len(data)]
    BY <1>1, ParseIs
<1>3. At(ds, 1) = 0 /\ At(ds, Len(ds) + 1) = Len(data)
    BY AtIs
<1>4. \A k \in 1 .. Len(ds) :
        /\ At(ds, k) \in Nat /\ At(ds, k + 1) = At(ds, k) + 1 + Following(ds[k])
        /\ At(ds, k + 1) <= Len(data)
        /\ data[At(ds, k) + 1] = DescCell(ds[k])
        /\ Following(ds[k]) = 1 => data[At(ds, k) + 2] = MoreCell(ds[k])
    BY AtIs
<1> HIDE DEF data
<1>5. f[0] = ParseStart /\ \A k \in 1 .. Len(data) : f[k] = ParseStep(data, f[k - 1])
    BY <1>1, <1>2 DEF ParseRuns
<1>6. \A k \in 1 .. Len(ds) : Following(ds[k]) \in 0 .. 1
    BY DEF Following
<1>7. \A k \in 0 .. Len(ds) : k <= At(ds, k + 1)
    <2> DEFINE T == {k \in 0 .. Len(ds) : ~ (k <= At(ds, k + 1))}
    <2>1. SUFFICES ASSUME T # {} PROVE FALSE OBVIOUS
    <2>2. PICK k \in T : \A j \in T : k <= j
        <3>1. T \in SUBSET Nat OBVIOUS
        <3> HIDE DEF T
        <3> QED BY <2>1, <3>1, Least
    <2>3. k # 0 BY <1>3
    <2>4. k \in 1 .. Len(ds) /\ k - 1 \in 0 .. Len(ds) /\ ~ (k <= k - 1) /\ (k - 1) + 1 = k
        BY <1>1, <2>3
    <2>5. k - 1 <= At(ds, k)
        <3>1. k - 1 \notin T BY <2>2, <2>4
        <3> QED BY <2>4, <3>1
    <2>6. At(ds, k) \in Nat /\ At(ds, k + 1) = At(ds, k) + 1 + Following(ds[k]) /\ Following(ds[k]) \in 0 .. 1
        BY <1>4, <1>6, <2>4
    <2> QED BY <2>2, <2>4, <2>5, <2>6
<1> DEFINE Found(k) == f[k] = [o |-> At(ds, k + 1) + 1, ret |-> Pre(ds, k), ok |-> TRUE]
<1>8. Len(ds) <= Len(data)
    <2>1. Len(ds) \in 0 .. Len(ds) BY <1>1
    <2> QED BY <1>3, <1>7, <2>1
<1>9. \A k \in 0 .. Len(ds) : Found(k)
    <2> DEFINE T == {k \in 0 .. Len(ds) : ~ Found(k)}
    <2>1. SUFFICES ASSUME T # {} PROVE FALSE OBVIOUS
    <2>2. PICK k \in T : \A j \in T : k <= j
        <3>1. T \in SUBSET Nat OBVIOUS
        <3> HIDE DEF T
        <3> QED BY <2>1, <3>1, Least
    <2>3. k # 0
        <3>1. Pre(ds, 0) = << >> BY DEF Pre
        <3>2. 0 + 1 = 1 OBVIOUS
        <3> QED BY <1>3, <1>5, <3>1, <3>2 DEF ParseStart
    <2>4. k \in 1 .. Len(ds) /\ k - 1 \in 0 .. Len(ds) /\ ~ (k <= k - 1) /\ k \in 1 .. Len(data) /\ (k - 1) + 1 = k
        BY <1>1, <1>8, <2>3
    <2>5. Found(k - 1) BY <2>2, <2>4
    <2>6. PICK x \in Nat : x = At(ds, k) BY <1>4, <2>4
    <2>7. PICK m \in 0 .. 1 : m = Following(ds[k])
        BY <1>6, <2>4
    <2>8. /\ At(ds, k + 1) = x + 1 + m /\ x + 1 + m <= Len(data)
          /\ data[x + 1] = DescCell(ds[k])
          /\ m = 1 => data[x + 2] = MoreCell(ds[k])
        BY <1>4, <2>4, <2>6, <2>7
    <2>9. f[k - 1] = [o |-> x + 1, ret |-> Pre(ds, k - 1), ok |-> TRUE]
        BY <2>4, <2>5, <2>6
    <2>10. data[x + 1].kind = "desc" /\ data[x + 1].d = ds[k] /\ data[x + 1].nbf = m
        BY <2>7, <2>8 DEF DescCell
    <2>11. Decode(data, x + 1) = ds[k]
        <3>1. m = 0 \/ (x + 1 < Len(data) /\ data[(x + 1) + 1] = [kind |-> "more", d |-> ds[k]])
            <4>1. CASE m = 0 BY <4>1
            <4>2. CASE m = 1
                <5>1. (x + 1) + 1 = x + 2 /\ x + 1 < Len(data)
                    BY <1>1, <2>8, <4>2
                <5> QED BY <2>8, <4>2, <5>1 DEF MoreCell
            <4> QED BY <4>1, <4>2
        <3> QED BY <2>10, <3>1 DEF Decode
    <2>12. ~ (x + 1 > Len(data)) BY <1>1, <2>8
    <2>13. f[k] = ParseStep(data, [o |-> x + 1, ret |-> Pre(ds, k - 1), ok |-> TRUE])
        BY <1>5, <2>4, <2>9
    <2>14. Append(Pre(ds, k - 1), ds[k]) = Pre(ds, k)
        <3>1. k \in Nat /\ k # 0 BY <2>4
        <3> QED BY <3>1, PreStep, Zenon
    <2>15. f[k] = [o |-> (x + 1) + 1 + m, ret |-> Pre(ds, k), ok |-> TRUE]
        BY <2>10, <2>11, <2>12, <2>13, <2>14 DEF ParseStep
    <2>16. (x + 1) + 1 + m = At(ds, k + 1) + 1 BY <2>8
    <2> QED BY <2>2, <2>15, <2>16
<1>10. \A k \in Len(ds) .. Len(data) : f[k] = [o |-> Len(data) + 1, ret |-> ds, ok |-> TRUE]
    <2> DEFINE Z == [o |-> Len(data) + 1, ret |-> ds, ok |-> TRUE]
               T == {k \in Len(ds) .. Len(data) : f[k] # Z}
    <2>1. SUFFICES ASSUME T # {} PROVE FALSE OBVIOUS
    <2>2. PICK k \in T : \A j \in T : k <= j
        <3>1. T \in SUBSET Nat BY <1>1
        <3> HIDE DEF T
        <3> QED BY <2>1, <3>1, Least
    <2>3. CASE k = Len(ds)
        <3>1. Found(Len(ds)) BY <1>1, <1>9
        <3>2. Pre(ds, Len(ds)) = ds
            <4>1. PICK S : ds \in Seq(S) BY DEF IsSeq
            <4> QED BY <4>1 DEF Pre
        <3> QED BY <1>3, <2>2, <2>3, <3>1, <3>2
    <2>4. CASE k # Len(ds)
        <3>1. k - 1 \in Len(ds) .. Len(data) /\ ~ (k <= k - 1) /\ k \in 1 .. Len(data)
            BY <1>1, <2>2, <2>4
        <3>2. f[k - 1] = Z BY <2>2, <3>1
        <3>3. Z.o > Len(data) BY <1>1
        <3>4. f[k] = Z
            BY <1>5, <3>1, <3>2, <3>3 DEF ParseStep
        <3> QED BY <2>2, <3>4
    <2> QED BY <2>3, <2>4
<1>11. f[Len(data)] = [o |-> Len(data) + 1, ret |-> ds, ok |-> TRUE]
    <2>1. Len(data) \in Len(ds) .. Len(data)
        BY <1>1, <1>8
    <2> QED BY <1>10, <2>1
<1> QED BY <1>2, <1>11 DEF data

\* Whatever is found, a cell of the data says it.
Says(data, d) == \E o \in 1 .. Len(data) : data[o].kind = "desc" /\ d = Decode(data, o)

\* All that parse_descriptors finds has a cell that says so.
LEMMA ParseFinds ==
    ASSUME NEW data, IsSeq(data), \A i \in 1 .. Len(data) : data[i].kind = "desc" => data[i].nbf \in Nat
    PROVE  /\ IsSeq(parse_descriptors(data).ret)
           /\ \A d : Has(parse_descriptors(data).ret, d) => Says(data, d)
<1>1. Len(data) \in Nat BY LenNat
<1>2. PICK f : ParseRuns(data, Len(data), f) /\ parse_descriptors(data) = f[Len(data)]
    BY <1>1, ParseIs
<1>5. f[0] = ParseStart /\ \A k \in 1 .. Len(data) : f[k] = ParseStep(data, f[k - 1])
    BY <1>1, <1>2 DEF ParseRuns
<1> DEFINE Good(r) == \E x \in Nat \ {0} : \E s : \E b :
                        /\ r = [o |-> x, ret |-> s, ok |-> b]
                        /\ IsSeq(s) /\ \A d : Has(s, d) => Says(data, d)
           T == {k \in 0 .. Len(data) : ~ Good(f[k])}
<1>6. T = {}
    <2>1. SUFFICES ASSUME T # {} PROVE FALSE OBVIOUS
    <2>2. PICK k \in T : \A j \in T : k <= j
        <3>1. T \in SUBSET Nat OBVIOUS
        <3> HIDE DEF T
        <3> QED BY <2>1, <3>1, Least
    <2>3. k # 0
        <3>1. Good(ParseStart)
            <4>1. 1 \in Nat \ {0} /\ IsSeq(<< >>) /\ \A d : Has(<< >>, d) => Says(data, d)
                BY NilIs DEF NilSeq
            <4>2. \E s : \E b : /\ ParseStart = [o |-> 1, ret |-> s, ok |-> b]
                                /\ IsSeq(s) /\ \A d : Has(s, d) => Says(data, d)
                BY <4>1 DEF ParseStart
            <4> QED BY <4>1, <4>2
        <3> QED BY <1>5, <2>2, <3>1
    <2>4. k - 1 \in 0 .. Len(data) /\ ~ (k <= k - 1) /\ k \in 1 .. Len(data)
        BY <1>1, <2>3
    <2>5. Good(f[k - 1]) BY <2>2, <2>4
    <2> HIDE DEF T
    <2>6a. PICK x \in Nat \ {0} : \E s : \E b :
              /\ f[k - 1] = [o |-> x, ret |-> s, ok |-> b]
              /\ IsSeq(s) /\ \A d : Has(s, d) => Says(data, d)
        BY <2>5
    <2>6b. PICK s : \E b :
              /\ f[k - 1] = [o |-> x, ret |-> s, ok |-> b]
              /\ IsSeq(s) /\ \A d : Has(s, d) => Says(data, d)
        BY <2>6a
    <2>6. PICK b :
              /\ f[k - 1] = [o |-> x, ret |-> s, ok |-> b]
              /\ IsSeq(s) /\ \A d : Has(s, d) => Says(data, d)
        BY <2>6b
    <2> USE DEF T
    <2>7. f[k] = ParseStep(data, [o |-> x, ret |-> s, ok |-> b])
        BY <1>5, <2>4, <2>6
    <2>8. CASE x > Len(data)
        <3>1. f[k] = [o |-> x, ret |-> s, ok |-> b]
            BY <2>7, <2>8 DEF ParseStep
        <3>2. Good(f[k]) BY <2>6, <3>1
        <3> QED BY <2>2, <3>2
    <2>9. CASE ~ (x > Len(data)) /\ data[x].kind # "desc"
        <3>1. f[k] = [o |-> Len(data) + 1, ret |-> s, ok |-> FALSE]
            BY <2>7, <2>9 DEF ParseStep
        <3>2. Len(data) + 1 \in Nat \ {0} BY <1>1
        <3>3. Good(f[k]) BY <2>6, <3>1, <3>2
        <3> QED BY <2>2, <3>3
    <2>10. CASE ~ (x > Len(data)) /\ data[x].kind = "desc"
        <3>1. f[k] = [o |-> x + 1 + data[x].nbf, ret |-> Append(s, Decode(data, x)), ok |-> b]
            BY <2>7, <2>10 DEF ParseStep
        <3>2. x \in 1 .. Len(data) /\ data[x].nbf \in Nat
            BY <1>1, <2>10
        <3>3. x + 1 + data[x].nbf \in Nat \ {0} BY <3>2
        <3>4. PICK e : e = Decode(data, x) OBVIOUS
        <3>5. Says(data, e)
            BY <2>10, <3>2, <3>4 DEF Says
        <3>6. /\ IsSeq(Append(s, e)) /\ Len(Append(s, e)) = Len(s) + 1
              /\ \A i \in 1 .. Len(s) : Append(s, e)[i] = s[i]
              /\ Append(s, e)[Len(s) + 1] = e
            BY <2>6, AppendSeq
        <3>7. \A d : Has(Append(s, e), d) => Has(s, d) \/ d = e
            <4>1. Len(s) \in Nat BY <2>6, LenNat
            <4>2. \A i \in 1 .. Len(s) + 1 : i \in 1 .. Len(s) \/ i = Len(s) + 1
                BY <4>1
            <4> QED BY <3>6, <4>2 DEF Has
        <3>8. Good(f[k])
            BY <2>6, <3>1, <3>3, <3>4, <3>5, <3>6, <3>7
        <3> QED BY <2>2, <3>8
    <2> QED BY <2>8, <2>9, <2>10
<1>7. Good(f[Len(data)])
    <2>1. Len(data) \in 0 .. Len(data) BY <1>1
    <2>2. Len(data) \notin T BY <1>6
    <2> HIDE DEF Good
    <2> QED BY <2>1, <2>2
<1> QED BY <1>2, <1>7

--------------------------------------------------
(* The struct. *)

Alg(a) == ALGORITHMS[a.alg]

\* What ALGORITHMS holds, and that a key fits its algorithm.
LEMMA AlgIs ==
    ASSUME NEW a, Args(a)
    PROVE  /\ Alg(a).hash \in Nat /\ Alg(a).sig \in Nat /\ Alg(a).key \in Nat
           /\ a.alg = "NONE" => Alg(a).hash = 0 /\ Alg(a).sig = 0 /\ Alg(a).key = 0
           /\ a.alg # "NONE" => Alg(a).hash = 1 /\ Alg(a).sig > 0 /\ Alg(a).key > 0
                                /\ a.key \in DOMAIN KeySize /\ KeySize[a.key] = Alg(a).key
<1>1. a.alg \in {"NONE", "SHA256_RSA2048", "SHA256_RSA4096"}
    BY DEF Args, ArgumentsOK, ALGORITHMS
<1>2. a.key \in DOMAIN KeySize \cup {None}
    BY DEF Args, ArgumentsOK
<1>3. Alg(a).key > 0 => a.key # None /\ KeySize[a.key] = Alg(a).key
    BY DEF Args, KeyRefused, Alg
<1>4. CASE a.alg = "NONE" BY <1>4 DEF Alg, ALGORITHMS
<1>5. CASE a.alg = "SHA256_RSA2048"
    <2>1. Alg(a).hash = 1 /\ Alg(a).sig = 2 /\ Alg(a).key = 2
        BY <1>5 DEF Alg, ALGORITHMS
    <2> QED BY <1>2, <1>3, <1>5, <2>1
<1>6. CASE a.alg = "SHA256_RSA4096"
    <2>1. Alg(a).hash = 1 /\ Alg(a).sig = 3 /\ Alg(a).key = 3
        BY <1>6 DEF Alg, ALGORITHMS
    <2> QED BY <1>2, <1>3, <1>6, <2>1
<1> QED BY <1>1, <1>4, <1>5, <1>6

KeyCell(k, i)    == [kind |-> "key", key |-> k, i |-> i]
SigCell(k, s, i) == [kind |-> "sig", key |-> k, of |-> s, i |-> i]

\* A cell of a key or of a signature says so.
LEMMA CellKinds == \A k, s, i : KeyCell(k, i).kind = "key" /\ SigCell(k, s, i).kind = "sig"
BY DEF KeyCell, SigCell

\* A public key, cell by cell.
LEMMA KeyCellsIs ==
    ASSUME NEW k \in DOMAIN KeySize
    PROVE  /\ IsSeq(KeyCells(k)) /\ KeySize[k] \in Nat \ {0} /\ Len(KeyCells(k)) = KeySize[k]
           /\ \A i \in 1 .. KeySize[k] : KeyCells(k)[i] = KeyCell(k, i)
<1>1. KeySize[k] \in Nat \ {0}
    BY AvbImagesAssumption DEF VbmetaAssumption
<1>2. PICK s : s = KeyCells(k) OBVIOUS
<1>3. s = [i \in 1 .. KeySize[k] |-> s[i]] /\ \A i \in 1 .. KeySize[k] : s[i] = KeyCell(k, i)
    BY <1>2 DEF KeyCells, KeyCell
<1>4. IsSeq(s) /\ Len(s) = KeySize[k]
    BY <1>1, <1>3, MapSeq
<1> QED BY <1>1, <1>2, <1>3, <1>4

\* A signature, cell by cell.
LEMMA SigCellsIs ==
    ASSUME NEW k, NEW t, NEW n \in Nat
    PROVE  /\ IsSeq(SigCells(k, t, n)) /\ Len(SigCells(k, t, n)) = n
           /\ \A i \in 1 .. n : SigCells(k, t, n)[i] = SigCell(k, t, i)
<1>2. PICK s : s = SigCells(k, t, n) OBVIOUS
<1>3. s = [i \in 1 .. n |-> s[i]] /\ \A i \in 1 .. n : s[i] = SigCell(k, t, i)
    BY <1>2 DEF SigCells, SigCell
<1>4. IsSeq(s) /\ Len(s) = n BY <1>3, MapSeq
<1> QED BY <1>2, <1>3, <1>4

KeyPart(a) == IF Alg(a).key = 0 THEN << >> ELSE KeyCells(a.key)
PkmdPart(a) == [i \in 1 .. a.pkmd |-> [kind |-> "pkmd"]]
HashPart(a, signed) == IF Alg(a).hash = 0 THEN << >>
                       ELSE <<Digest(signed)>> \o SigCells(a.key, Digest(signed), Alg(a).sig)

\* The auxiliary block: as long as its header says, with the descriptors at its beginning and the key behind them.
LEMMA AuxIs ==
    ASSUME NEW a, Args(a), NEW ds, IsSeq(ds)
    PROVE  /\ IsSeq(AuxBlock(a, ds)) /\ Len(EncodeAll(ds)) \in Nat /\ a.pkmd \in Nat
           /\ Len(AuxBlock(a, ds)) = round_to_multiple(Len(EncodeAll(ds)) + Alg(a).key + a.pkmd, Unit)
           /\ Placed(AuxBlock(a, ds), 0, EncodeAll(ds))
           /\ Placed(AuxBlock(a, ds), Len(EncodeAll(ds)), KeyPart(a))
           /\ IsSeq(KeyPart(a)) /\ Len(KeyPart(a)) = Alg(a).key
           /\ \A i \in 1 .. Len(AuxBlock(a, ds)) :
                \/ \E k \in 1 .. Len(ds) : AuxBlock(a, ds)[i] = DescCell(ds[k]) \/ AuxBlock(a, ds)[i] = MoreCell(ds[k])
                \/ AuxBlock(a, ds)[i].kind \in {"key", "pkmd", "nul"}
<1>1. PICK e : e = EncodeAll(ds) OBVIOUS
<1>2. IsSeq(e) /\ Len(e) \in Nat
    BY <1>1, CodesIs, LenNat
<1>3. PICK k : k = KeyPart(a) OBVIOUS
<1>4. IsSeq(k) /\ Len(k) = Alg(a).key /\ (\A i \in 1 .. Len(k) : k[i].kind = "key") /\ Alg(a).key \in Nat
    <2>1. CASE Alg(a).key = 0
        BY <1>3, <2>1, NilIs DEF KeyPart, NilSeq
    <2>2. CASE Alg(a).key # 0
        <3>1. a.key \in DOMAIN KeySize /\ KeySize[a.key] = Alg(a).key
            BY <2>2, AlgIs
        <3>2. k = KeyCells(a.key)
            BY <1>3, <2>2 DEF KeyPart
        <3>3. IsSeq(k) /\ Len(k) = Alg(a).key /\ \A i \in 1 .. Len(k) : k[i] = KeyCell(a.key, i)
            BY <3>1, <3>2, KeyCellsIs
        <3> QED BY <3>3, CellKinds, AlgIs
    <2> QED BY <2>1, <2>2
<1>5. a.pkmd \in Nat BY DEF Args, ArgumentsOK
<1>6. PICK p : p = PkmdPart(a) OBVIOUS
<1>7. IsSeq(p) /\ Len(p) = a.pkmd /\ \A i \in 1 .. Len(p) : p[i].kind = "pkmd"
    <2>1. p = [i \in 1 .. a.pkmd |-> p[i]] /\ \A i \in 1 .. a.pkmd : p[i].kind = "pkmd"
        BY <1>6 DEF PkmdPart
    <2> QED BY <1>5, <2>1, MapSeq
<1>8. PICK ek : ek = e \o k OBVIOUS
<1>9. /\ IsSeq(ek) /\ Len(ek) = Len(e) + Len(k)
      /\ Placed(ek, 0, e) /\ Placed(ek, Len(e), k)
      /\ \A x : Has(ek, x) => Has(e, x) \/ Has(k, x)
    BY <1>2, <1>4, <1>8, CatSeq, PlacedCat, CatHas
<1>10. PICK s : s = ek \o p OBVIOUS
<1>11. /\ IsSeq(s) /\ Len(s) = Len(ek) + Len(p) /\ Placed(s, 0, ek)
       /\ \A x : Has(s, x) => Has(ek, x) \/ Has(p, x)
    BY <1>7, <1>9, <1>10, CatSeq, PlacedCat, CatHas
<1>12. PICK aux : aux = PadTo(s, Unit) OBVIOUS
<1>13. /\ IsSeq(aux) /\ Len(aux) = round_to_multiple(Len(s), Unit) /\ Placed(aux, 0, s)
       /\ \A i \in 1 .. Len(s) : aux[i] = s[i]
       /\ \A i \in 1 .. Len(aux) : i > Len(s) => aux[i] = Nul
       /\ Len(aux) \in Nat /\ Len(s) \in Nat
    <2>1. Unit \in Nat \ {0} BY SizesOK
    <2> QED BY <1>11, <1>12, <2>1, PadSeq, PlacedPad
<1>14. aux = AuxBlock(a, ds)
    BY <1>1, <1>3, <1>6, <1>8, <1>10, <1>12 DEF AuxBlock, KeyPart, PkmdPart, Alg
<1>15. Placed(aux, 0, e) /\ Placed(aux, Len(e), k)
    <2>1. Placed(aux, 0, ek)
        <3>1. Placed(aux, 0 + 0, ek)
            BY <1>9, <1>11, <1>13, PlacedIn
        <3>2. 0 + 0 = 0 OBVIOUS
        <3> QED BY <3>1, <3>2
    <2>2. Placed(aux, 0 + 0, e) /\ Placed(aux, 0 + Len(e), k)
        BY <1>2, <1>4, <1>9, <1>13, <2>1, PlacedIn
    <2>3. 0 + 0 = 0 /\ 0 + Len(e) = Len(e) BY <1>2
    <2> QED BY <2>2, <2>3
<1>16. Len(s) = Len(e) + Alg(a).key + a.pkmd
    BY <1>2, <1>4, <1>5, <1>7, <1>9, <1>11
<1>17. ASSUME NEW i \in 1 .. Len(aux)
       PROVE  \/ \E j \in 1 .. Len(ds) : aux[i] = DescCell(ds[j]) \/ aux[i] = MoreCell(ds[j])
              \/ aux[i].kind \in {"key", "pkmd", "nul"}
    <2>1. CASE i > Len(s) BY <1>13, <2>1 DEF Nul
    <2>2. CASE ~ (i > Len(s))
        <3>1. i \in 1 .. Len(s) /\ aux[i] = s[i]
            BY <1>13, <2>2
        <3>2. Has(s, aux[i]) BY <3>1 DEF Has
        <3>3. Has(e, aux[i]) \/ Has(k, aux[i]) \/ Has(p, aux[i])
            BY <1>9, <1>11, <3>2
        <3>4. CASE Has(e, aux[i])
            <4>1. PICK j \in 1 .. Len(EncodeAll(ds)) : EncodeAll(ds)[j] = aux[i]
                BY <1>1, <3>4 DEF Has
            <4> QED BY <4>1, EncodeCells
        <3>5. CASE Has(k, aux[i]) BY <1>4, <3>5 DEF Has
        <3>6. CASE Has(p, aux[i]) BY <1>7, <3>6 DEF Has
        <3> QED BY <3>3, <3>4, <3>5, <3>6
    <2> QED BY <2>1, <2>2
<1> QED BY <1>1, <1>2, <1>3, <1>4, <1>5, <1>13, <1>14, <1>15, <1>16, <1>17

\* The authentication block: digest and signature.
LEMMA AuthIs ==
    ASSUME NEW a, Args(a), NEW signed
    PROVE  /\ IsSeq(AuthBlock(a, signed))
           /\ Len(AuthBlock(a, signed)) = round_to_multiple(Alg(a).hash + Alg(a).sig, Unit)
           /\ \A i \in 1 .. Len(AuthBlock(a, signed)) : AuthBlock(a, signed)[i].kind \in {"digest", "sig", "nul"}
           /\ a.alg # "NONE" =>
                /\ 1 + Alg(a).sig <= Len(AuthBlock(a, signed))
                /\ AuthBlock(a, signed)[1] = Digest(signed)
                /\ \A i \in 1 .. Alg(a).sig : AuthBlock(a, signed)[1 + i] = SigCell(a.key, Digest(signed), i)
                /\ \A i \in 1 .. Len(AuthBlock(a, signed)) : i > 1 + Alg(a).sig => AuthBlock(a, signed)[i] = Nul
<1>1. PICK t : t = Digest(signed) OBVIOUS
<1>2. PICK s : s = HashPart(a, signed) OBVIOUS
<1>3. t.kind = "digest" BY <1>1 DEF Digest
<1>4. /\ IsSeq(s) /\ Len(s) = Alg(a).hash + Alg(a).sig
      /\ \A i \in 1 .. Len(s) : s[i].kind \in {"digest", "sig"}
      /\ a.alg # "NONE" => Len(s) = 1 + Alg(a).sig /\ s[1] = t
                           /\ \A i \in 1 .. Alg(a).sig : s[1 + i] = SigCell(a.key, t, i)
    <2>1. CASE a.alg = "NONE"
        <3>1. Alg(a).hash = 0 /\ Alg(a).sig = 0
            BY <2>1, AlgIs
        <3>2. s = << >> BY <1>2, <3>1 DEF HashPart
        <3> QED BY <2>1, <3>1, <3>2, NilIs DEF NilSeq
    <2>2. CASE a.alg # "NONE"
        <3>1. Alg(a).hash = 1 /\ Alg(a).sig \in Nat
            BY <2>2, AlgIs
        <3>2. PICK c : c = <<t>> OBVIOUS
        <3>3. IsSeq(c) /\ Len(c) = 1 /\ c[1] = t
            <4>1. c \in Seq({t}) /\ Len(c) = 1 /\ c[1] = t
                BY <3>2
            <4> QED BY <4>1 DEF IsSeq
        <3>4. PICK g : g = SigCells(a.key, t, Alg(a).sig) OBVIOUS
        <3>5. IsSeq(g) /\ Len(g) = Alg(a).sig /\ \A i \in 1 .. Alg(a).sig : g[i] = SigCell(a.key, t, i)
            BY <3>1, <3>4, SigCellsIs
        <3>6. s = c \o g
            BY <1>1, <1>2, <3>1, <3>2, <3>4 DEF HashPart
        <3>7. IsSeq(c) /\ IsSeq(g) BY <3>3, <3>5
        <3>8. /\ IsSeq(c \o g) /\ Len(c \o g) = Len(c) + Len(g)
              /\ \A k \in 1 .. Len(c) : (c \o g)[k] = c[k]
              /\ \A k \in 1 .. Len(g) : (c \o g)[Len(c) + k] = g[k]
            BY <3>7, CatSeq
        <3>9. /\ IsSeq(s) /\ Len(s) = 1 + Alg(a).sig /\ s[1] = t
              /\ \A i \in 1 .. Alg(a).sig : s[1 + i] = SigCell(a.key, t, i)
            BY <3>3, <3>5, <3>6, <3>8
        <3>10. \A i \in 1 .. Alg(a).sig : s[1 + i].kind = "sig"
            BY <3>9, CellKinds
        <3>11. ASSUME NEW i \in 1 .. Len(s) PROVE s[i].kind \in {"digest", "sig"}
            <4>1. CASE i = 1 BY <1>3, <3>9, <4>1
            <4>2. CASE i # 1
                <5>1. i - 1 \in 1 .. Alg(a).sig /\ 1 + (i - 1) = i
                    BY <3>1, <3>9, <4>2
                <5> QED BY <3>10, <5>1
            <4> QED BY <4>1, <4>2
        <3> QED BY <3>1, <3>9, <3>11
    <2> QED BY <2>1, <2>2
<1>5. PICK auth : auth = PadTo(s, Unit) OBVIOUS
<1>6. /\ IsSeq(auth) /\ Len(auth) = round_to_multiple(Len(s), Unit)
      /\ \A i \in 1 .. Len(s) : auth[i] = s[i]
      /\ \A i \in 1 .. Len(auth) : i > Len(s) => auth[i] = Nul
      /\ Len(auth) \in Nat /\ Len(s) \in Nat /\ Len(s) <= Len(auth)
    <2>1. Unit \in Nat \ {0} BY SizesOK
    <2> QED BY <1>4, <1>5, <2>1, PadSeq
<1>7. auth = AuthBlock(a, signed)
    BY <1>2, <1>5 DEF AuthBlock, HashPart, Alg
<1>8. ASSUME NEW i \in 1 .. Len(auth) PROVE auth[i].kind \in {"digest", "sig", "nul"}
    <2>1. CASE i > Len(s) BY <1>6, <2>1 DEF Nul
    <2>2. CASE ~ (i > Len(s)) BY <1>4, <1>6, <2>2
    <2> QED BY <2>1, <2>2
<1>9. ASSUME a.alg # "NONE"
      PROVE  /\ 1 + Alg(a).sig <= Len(auth) /\ auth[1] = t
             /\ \A i \in 1 .. Alg(a).sig : auth[1 + i] = SigCell(a.key, t, i)
             /\ \A i \in 1 .. Len(auth) : i > 1 + Alg(a).sig => auth[i] = Nul
    <2>1. Len(s) = 1 + Alg(a).sig /\ s[1] = t /\ \A i \in 1 .. Alg(a).sig : s[1 + i] = SigCell(a.key, t, i)
        BY <1>4, <1>9
    <2>2. Alg(a).sig \in Nat BY AlgIs
    <2>3. 1 \in 1 .. Len(s) /\ \A i \in 1 .. Alg(a).sig : 1 + i \in 1 .. Len(s)
        BY <2>1, <2>2
    <2> QED BY <1>6, <2>1, <2>3
<1> QED BY <1>1, <1>4, <1>6, <1>7, <1>8, <1>9

HeadOf(a, ds, minor)   == Header(a, Len(EncodeAll(ds)), minor)
HeadCell(a, ds, minor) == [kind |-> "header", h |-> HeadOf(a, ds, minor)]
SignedOf(a, ds, minor) == <<HeadCell(a, ds, minor)>> \o AuxBlock(a, ds)

\* The header says where everything is.
LEMMA HeadIs ==
    ASSUME NEW a, Args(a), NEW ds, IsSeq(ds), NEW minor, NEW h, h = HeadOf(a, ds, minor)
    PROVE  /\ h.auth = round_to_multiple(Alg(a).hash + Alg(a).sig, Unit)
           /\ h.aux = round_to_multiple(Len(EncodeAll(ds)) + Alg(a).key + a.pkmd, Unit)
           /\ h.alg = a.alg /\ h.minor = minor /\ h.location = a.location
           /\ h.hash_offset = 0 /\ h.hash_size = Alg(a).hash
           /\ h.sig_offset = Alg(a).hash /\ h.sig_size = Alg(a).sig
           /\ h.desc_offset = 0 /\ h.desc_size = Len(EncodeAll(ds))
           /\ h.key_offset = Len(EncodeAll(ds)) /\ h.key_size = Alg(a).key
           /\ h.auth \in Nat /\ h.aux \in Nat /\ h.desc_size \in Nat
           /\ Len(EncodeAll(ds)) + Alg(a).key <= h.aux
<1>1. Len(EncodeAll(ds)) \in Nat /\ a.pkmd \in Nat
    BY AuxIs
<1>2. Alg(a).hash \in Nat /\ Alg(a).sig \in Nat /\ Alg(a).key \in Nat
    BY AlgIs
<1>3. Unit \in Nat \ {0} BY SizesOK
<1>4. PICK m \in Nat : m = Alg(a).hash + Alg(a).sig
    BY <1>2
<1>5. PICK n \in Nat : n = Len(EncodeAll(ds)) + Alg(a).key + a.pkmd /\ Len(EncodeAll(ds)) + Alg(a).key <= n
    BY <1>1, <1>2
<1>6. round_to_multiple(m, Unit) \in Nat /\ round_to_multiple(n, Unit) \in Nat
      /\ n <= round_to_multiple(n, Unit)
    BY <1>3, RoundTo
<1>7. /\ h.auth = round_to_multiple(Alg(a).hash + Alg(a).sig, Unit)
      /\ h.aux = round_to_multiple(Len(EncodeAll(ds)) + Alg(a).key + a.pkmd, Unit)
      /\ h.alg = a.alg /\ h.minor = minor /\ h.location = a.location
      /\ h.hash_offset = 0 /\ h.hash_size = Alg(a).hash
      /\ h.sig_offset = Alg(a).hash /\ h.sig_size = Alg(a).sig
      /\ h.desc_offset = 0 /\ h.desc_size = Len(EncodeAll(ds))
      /\ h.key_offset = Len(EncodeAll(ds)) /\ h.key_size = Alg(a).key
    BY DEF HeadOf, Header, Alg
<1> QED BY <1>1, <1>2, <1>4, <1>5, <1>6, <1>7

\* Where the parts of a struct are.
LEMMA StructIs ==
    ASSUME NEW a, Args(a), NEW ds, IsSeq(ds), NEW minor,
           NEW h, h = HeadOf(a, ds, minor), NEW b, b = Struct(a, ds, minor)
    PROVE  /\ IsSeq(b) /\ Len(b) = 1 + h.auth + h.aux /\ b # << >> /\ Len(b) \in Nat
           /\ b[1] = HeadCell(a, ds, minor)
           /\ Placed(b, 1, AuthBlock(a, SignedOf(a, ds, minor)))
           /\ Len(AuthBlock(a, SignedOf(a, ds, minor))) = h.auth
           /\ Placed(b, 1 + h.auth, AuxBlock(a, ds)) /\ Len(AuxBlock(a, ds)) = h.aux
<1>1. PICK c : c = <<HeadCell(a, ds, minor)>> OBVIOUS
<1>2. IsSeq(c) /\ Len(c) = 1 /\ c[1] = HeadCell(a, ds, minor)
    <2>1. c \in Seq({HeadCell(a, ds, minor)}) /\ Len(c) = 1 /\ c[1] = HeadCell(a, ds, minor)
        BY <1>1
    <2> QED BY <2>1 DEF IsSeq
<1>3. PICK x : x = AuxBlock(a, ds) OBVIOUS
<1>4. PICK y : y = AuthBlock(a, SignedOf(a, ds, minor)) OBVIOUS
<1>5. h.auth \in Nat /\ h.aux \in Nat /\ IsSeq(x) /\ Len(x) = h.aux /\ IsSeq(y) /\ Len(y) = h.auth
    <2>1. IsSeq(x) /\ Len(x) = h.aux /\ h.auth \in Nat /\ h.aux \in Nat
        BY <1>3, AuxIs, HeadIs
    <2>2. IsSeq(y) /\ Len(y) = h.auth
        BY <1>4, AuthIs, HeadIs
    <2> QED BY <2>1, <2>2
<1>6. b = (c \o y) \o x
    BY <1>1, <1>3, <1>4 DEF Struct, HeadCell, HeadOf, SignedOf
<1>7. PICK cy : cy = c \o y OBVIOUS
<1>8. IsSeq(cy) /\ Len(cy) = 1 + h.auth /\ cy[1] = c[1] /\ Placed(cy, 1, y)
    <2>1. /\ IsSeq(cy) /\ Len(cy) = Len(c) + Len(y)
          /\ \A k \in 1 .. Len(c) : cy[k] = c[k]
          /\ Placed(cy, Len(c), y)
        <3>1. IsSeq(c) /\ IsSeq(y) BY <1>2, <1>5
        <3> QED BY <1>7, <3>1, CatSeq, PlacedCat
    <2> QED BY <1>2, <1>5, <2>1
<1>9. /\ IsSeq(b) /\ Len(b) = Len(cy) + Len(x) /\ (\A k \in 1 .. Len(cy) : b[k] = cy[k])
      /\ Placed(b, 0, cy) /\ Placed(b, Len(cy), x)
    <2>1. IsSeq(cy) /\ IsSeq(x) /\ b = cy \o x
        BY <1>5, <1>6, <1>7, <1>8
    <2>2. /\ IsSeq(cy \o x) /\ Len(cy \o x) = Len(cy) + Len(x)
          /\ \A k \in 1 .. Len(cy) : (cy \o x)[k] = cy[k]
        BY <2>1, CatSeq
    <2>3. Placed(cy \o x, 0, cy) /\ Placed(cy \o x, Len(cy), x)
        BY <2>1, PlacedCat
    <2> QED BY <2>1, <2>2, <2>3
<1>10. Placed(b, 0 + 1, y) BY <1>5, <1>8, <1>9, PlacedIn
<1>11. 0 + 1 = 1 OBVIOUS
<1>12. Len(b) = 1 + h.auth + h.aux /\ b[1] = c[1] /\ Len(b) # 0 /\ Len(b) \in Nat
    BY <1>5, <1>8, <1>9
<1> QED BY <1>2, <1>3, <1>4, <1>5, <1>8, <1>9, <1>10, <1>11, <1>12, LenNat

\* What the cells of a struct are.
LEMMA StructCells ==
    ASSUME NEW a, Args(a), NEW ds, IsSeq(ds), NEW minor,
           NEW b, b = Struct(a, ds, minor), NEW i \in 1 .. Len(b), i # 1
    PROVE  \/ \E k \in 1 .. Len(ds) : b[i] = DescCell(ds[k]) \/ b[i] = MoreCell(ds[k])
           \/ b[i].kind \in {"digest", "sig", "key", "pkmd", "nul"}
<1>1. PICK h : h = HeadOf(a, ds, minor) OBVIOUS
<1>2. PICK x : x = AuxBlock(a, ds) OBVIOUS
<1>3. PICK y : y = AuthBlock(a, SignedOf(a, ds, minor)) OBVIOUS
<1>4. /\ IsSeq(b) /\ Len(b) = 1 + h.auth + h.aux /\ Placed(b, 1, y) /\ Len(y) = h.auth
      /\ Placed(b, 1 + h.auth, x) /\ Len(x) = h.aux
    BY <1>1, <1>2, <1>3, StructIs
<1>5. h.auth \in Nat /\ h.aux \in Nat BY <1>1, HeadIs
<1>6. CASE i <= 1 + h.auth
    <2>1. i - 1 \in 1 .. Len(y) /\ 1 + (i - 1) = i
        BY <1>4, <1>5, <1>6
    <2>2. b[i] = y[i - 1] BY <1>4, <2>1 DEF Placed
    <2>3. y[i - 1].kind \in {"digest", "sig", "nul"}
        BY <1>3, <2>1, AuthIs
    <2> QED BY <2>2, <2>3
<1>7. CASE i > 1 + h.auth
    <2>0. PICK u \in Nat : u = 1 + h.auth BY <1>5
    <2>1. PICK j \in Int : j = i - u OBVIOUS
    <2>2. j \in 1 .. Len(x) /\ u + j = i
        BY <1>4, <1>5, <1>7, <2>0, <2>1
    <2>3. b[i] = x[j] BY <1>4, <2>0, <2>2 DEF Placed
    <2>4. \/ \E k \in 1 .. Len(ds) : x[j] = DescCell(ds[k]) \/ x[j] = MoreCell(ds[k])
          \/ x[j].kind \in {"key", "pkmd", "nul"}
        BY <1>2, <2>2, AuxIs
    <2> QED BY <2>3, <2>4
<1> QED BY <1>4, <1>5, <1>6, <1>7

\* A struct that is found whole in an image.
LEMMA StructFound ==
    ASSUME NEW a, Args(a), NEW ds, IsSeq(ds), NEW minor, NEW g, IsSeq(g), NEW at \in Nat,
           VbmetaOffset(g) = at, Placed(g, at, Struct(a, ds, minor))
    PROVE  /\ IsHeader(g) /\ HeaderOf(g) = HeadOf(a, ds, minor)
           /\ VbmetaBlob(g) = Struct(a, ds, minor)
           /\ Parses(g) /\ ParseImage(g) = ds
<1>1. PICK h : h = HeadOf(a, ds, minor) OBVIOUS
<1>2. PICK b : b = Struct(a, ds, minor) OBVIOUS
<1>3. /\ IsSeq(b) /\ Len(b) = 1 + h.auth + h.aux /\ Len(b) \in Nat /\ Len(b) # 0
      /\ b[1] = HeadCell(a, ds, minor)
      /\ Placed(b, 1 + h.auth, AuxBlock(a, ds)) /\ Len(AuxBlock(a, ds)) = h.aux
    BY <1>1, <1>2, StructIs, LenNat
<1>4. h.auth \in Nat /\ h.aux \in Nat /\ h.desc_offset = 0 /\ h.desc_size = Len(EncodeAll(ds))
    BY <1>1, HeadIs
<1>5. Placed(g, at, b) BY <1>2
<1>6. at < Len(g) /\ g[at + 1] = HeadCell(a, ds, minor)
    <2>1. Len(g) \in Nat /\ 1 \in 1 .. Len(b) /\ at + Len(b) <= Len(g)
        BY <1>3, <1>5, LenNat DEF Placed
    <2>2. g[at + 1] = b[1] BY <1>5, <2>1 DEF Placed
    <2> QED BY <1>3, <2>1, <2>2
<1>7. IsHeader(g) /\ HeaderOf(g) = h
    BY <1>1, <1>6 DEF IsHeader, HeaderOf, HeadCell
<1>8. VbmetaBlob(g) = b
    <2>1. Slice(g, at, Len(b)) = b
        BY <1>3, <1>5, SlicePlaced
    <2> QED BY <1>3, <1>7, <2>1 DEF VbmetaBlob
<1>9. /\ IsSeq(AuxBlock(a, ds)) /\ Placed(AuxBlock(a, ds), 0, EncodeAll(ds)) /\ IsSeq(EncodeAll(ds))
    BY AuxIs, CodesIs
<1>10. PICK x \in Nat : x = at + 1 + h.auth + h.desc_offset /\ x = (at + (1 + h.auth)) + 0
    BY <1>4
<1>11. Placed(g, x, EncodeAll(ds))
    <2>1. 1 + h.auth \in Nat /\ at + (1 + h.auth) \in Nat
        BY <1>4
    <2>2. Placed(g, at + (1 + h.auth), AuxBlock(a, ds))
        BY <1>3, <1>5, <1>9, <2>1, PlacedIn
    <2>3. Placed(g, (at + (1 + h.auth)) + 0, EncodeAll(ds))
        BY <1>9, <2>1, <2>2, PlacedIn
    <2> QED BY <1>10, <2>3
<1>12. Slice(g, x, Len(EncodeAll(ds))) = EncodeAll(ds)
    BY <1>9, <1>11, SlicePlaced
<1>13. DescriptorsOf(g) = parse_descriptors(EncodeAll(ds))
    BY <1>4, <1>7, <1>10, <1>12 DEF DescriptorsOf
<1>14. DescriptorsOf(g).ok = TRUE /\ DescriptorsOf(g).ret = ds
    BY <1>13, ParseAgain
<1> QED BY <1>1, <1>2, <1>7, <1>8, <1>14 DEF Parses, ParseImage

\* Digests of different cells differ.
LEMMA DigestOf == \A x, y : Digest(x) = Digest(y) => x = y
<1> TAKE x, y
<1>1. Digest(x).of = x /\ Digest(y).of = y BY DEF Digest
<1> QED BY <1>1, Zenon

\* A zeroed cell is no digest and no part of a signature.
LEMMA NulDiffers == /\ Nul.kind = "nul" /\ \A x : Digest(x).kind = "digest" /\ Digest(x) # Nul
                    /\ \A k, s, i : SigCell(k, s, i) # Nul
BY CellKinds DEF Nul, Digest

\* A copy of a signed struct that passes the check of the signature is the struct.
LEMMA SignatureHolds ==
    ASSUME NEW a, Args(a), a.alg # "NONE", NEW ds, IsSeq(ds), NEW minor,
           NEW h, h = HeadOf(a, ds, minor), NEW b, b = Struct(a, ds, minor),
           NEW v, Damaged(v, b), verify_vbmeta_signature(h, v), v # << >>, v[1] = b[1]
    PROVE  v = b
<1>1. PICK x : x = AuxBlock(a, ds) OBVIOUS
<1>2. PICK t : t = SignedOf(a, ds, minor) OBVIOUS
<1>3. PICK y : y = AuthBlock(a, t) OBVIOUS
<1>4. /\ IsSeq(b) /\ Len(b) = 1 + h.auth + h.aux /\ Placed(b, 1, y) /\ Len(y) = h.auth
      /\ Placed(b, 1 + h.auth, x) /\ Len(x) = h.aux /\ Len(b) \in Nat
    BY <1>1, <1>2, <1>3, StructIs
<1>5. /\ h.auth \in Nat /\ h.aux \in Nat /\ h.alg = a.alg /\ h.hash_offset = 0 /\ h.hash_size = Alg(a).hash
      /\ h.sig_offset = Alg(a).hash /\ h.sig_size = Alg(a).sig
      /\ Len(EncodeAll(ds)) + Alg(a).key <= h.aux
    BY HeadIs
<1>6. Alg(a).hash = 1 /\ Alg(a).sig \in Nat /\ Alg(a).sig > 0 /\ Alg(a).key \in Nat /\ Alg(a).key > 0
    BY AlgIs
<1>7. h.aux > 0
    <2>1. Len(EncodeAll(ds)) \in Nat BY AuxIs
    <2> QED BY <1>5, <1>6, <2>1
<1>8. IsSeq(v) /\ Len(v) \in Nat /\ Len(v) # 0 /\ Len(v) <= Len(b) /\ \A k \in 1 .. Len(v) : v[k] = b[k] \/ v[k] = Nul
    BY LenNat DEF Damaged
<1>9. PICK p : p = SignedPart(h, v) OBVIOUS
<1>10. /\ Slice(v, 1, 1) = <<Digest(p)>>
       /\ \E k \in DOMAIN KeySize : Slice(v, 2, Alg(a).sig) = SigCells(k, Digest(p), Alg(a).sig)
    <2>1. ALGORITHMS[h.alg].hash # 0
        BY <1>5, <1>6 DEF Alg
    <2>2. 1 + h.hash_offset = 1 /\ h.hash_size = 1 /\ 1 + h.sig_offset = 2
        BY <1>5, <1>6
    <2> QED BY <1>5, <1>9, <2>1, <2>2 DEF verify_vbmeta_signature
<1>11. Len(v) >= 2 /\ v[2] = Digest(p)
    <2>1. /\ Len(Slice(v, 1, 1)) = SliceLen(v, 1, 1)
          /\ \A k \in 1 .. SliceLen(v, 1, 1) : 1 + k <= Len(v) /\ Slice(v, 1, 1)[k] = v[1 + k]
        BY <1>8, SliceSeq
    <2>2. Len(Slice(v, 1, 1)) = 1 /\ Slice(v, 1, 1)[1] = Digest(p)
        BY <1>10
    <2> QED BY <2>1, <2>2
<1>12. y[1] = Digest(t) /\ 1 + Alg(a).sig <= Len(y)
       /\ (\A i \in 1 .. Len(y) : i > 1 + Alg(a).sig => y[i] = Nul)
    BY <1>3, AuthIs
<1>13. \A i \in 1 .. Len(y) : b[1 + i] = y[i]
    BY <1>4 DEF Placed
<1>14. p = t
    <2>1. b[2] = y[1]
        <3>1. 1 \in 1 .. Len(y) /\ 1 + 1 = 2
            BY <1>4, <1>5, <1>6, <1>12
        <3> QED BY <1>13, <3>1
    <2>2. v[2] = b[2] BY <1>8, <1>11, NulDiffers
    <2> QED BY <1>11, <1>12, <2>1, <2>2, DigestOf
<1>15. PICK s0 : s0 = Slice(v, 0, 1) OBVIOUS
<1>16. PICK s1 : s1 = Slice(v, 1 + h.auth, h.aux) OBVIOUS
<1>17. IsSeq(s0) /\ Len(s0) = 1
    <2>1. IsSeq(Slice(v, 0, 1)) /\ Len(Slice(v, 0, 1)) = SliceLen(v, 0, 1)
        BY <1>8, SliceSeq
    <2>2. SliceLen(v, 0, 1) = 1 BY <1>8 DEF SliceLen
    <2> QED BY <1>15, <2>1, <2>2
<1>18. 1 + h.auth \in Nat BY <1>5
<1>19. /\ IsSeq(s1) /\ Len(s1) = SliceLen(v, 1 + h.auth, h.aux)
       /\ \A k \in 1 .. Len(s1) : (1 + h.auth) + k <= Len(v) /\ s1[k] = v[(1 + h.auth) + k]
    <2>1. PICK u \in Nat : u = 1 + h.auth BY <1>18
    <2>2. PICK n \in Nat : n = h.aux BY <1>5
    <2>3. /\ IsSeq(Slice(v, u, n)) /\ Len(Slice(v, u, n)) = SliceLen(v, u, n)
          /\ \A k \in 1 .. SliceLen(v, u, n) : u + k <= Len(v) /\ Slice(v, u, n)[k] = v[u + k]
        BY <1>8, SliceSeq
    <2> QED BY <1>16, <2>1, <2>2, <2>3
<1>20. p = s0 \o s1 BY <1>9, <1>15, <1>16 DEF SignedPart
<1>21. PICK c : c = <<HeadCell(a, ds, minor)>> OBVIOUS
<1>22. IsSeq(c) /\ Len(c) = 1
    <2>1. c \in Seq({HeadCell(a, ds, minor)}) /\ Len(c) = 1
        BY <1>21
    <2> QED BY <2>1 DEF IsSeq
<1>23. t = c \o x /\ IsSeq(x)
    BY <1>1, <1>2, <1>21, AuxIs DEF SignedOf
<1>24. Len(s1) = Len(x) /\ \A k \in 1 .. Len(x) : s1[k] = x[k]
    <2>1. /\ Len(s0 \o s1) = Len(s0) + Len(s1) /\ Len(s1) \in Nat
          /\ \A k \in 1 .. Len(s1) : (s0 \o s1)[Len(s0) + k] = s1[k]
        <3>1. IsSeq(s0) /\ IsSeq(s1) BY <1>17, <1>19
        <3> QED BY <3>1, CatSeq
    <2>2. /\ Len(c \o x) = Len(c) + Len(x) /\ Len(x) \in Nat
          /\ \A k \in 1 .. Len(x) : (c \o x)[Len(c) + k] = x[k]
        <3>1. IsSeq(c) /\ IsSeq(x) BY <1>22, <1>23
        <3> QED BY <3>1, CatSeq
    <2>3. s0 \o s1 = c \o x BY <1>14, <1>20, <1>23
    <2>4. PICK z : z = s0 \o s1 OBVIOUS
    <2>7. Len(s0) = 1 /\ Len(c) = 1 BY <1>17, <1>22
    <2>5. Len(z) = 1 + Len(s1) /\ \A k \in 1 .. Len(s1) : z[1 + k] = s1[k]
        BY <2>1, <2>4, <2>7
    <2>6. Len(z) = 1 + Len(x) /\ \A k \in 1 .. Len(x) : z[1 + k] = x[k]
        BY <2>2, <2>3, <2>4, <2>7
    <2>8. Len(s1) = Len(x) BY <2>1, <2>2, <2>5, <2>6
    <2>9. ASSUME NEW k \in 1 .. Len(x) PROVE s1[k] = x[k]
        <3>1. z[1 + k] = s1[k] BY <2>5, <2>8
        <3>2. z[1 + k] = x[k] BY <2>6
        <3> QED BY <3>1, <3>2
    <2> QED BY <2>8, <2>9
<1>25. Len(v) = Len(b)
    <2>1. Len(s1) \in 1 .. Len(s1) /\ Len(s1) = h.aux
        BY <1>4, <1>5, <1>7, <1>24
    <2>2. (1 + h.auth) + h.aux <= Len(v) BY <1>19, <2>1
    <2> QED BY <1>4, <1>5, <1>8, <2>2
<1>26. PICK kk \in DOMAIN KeySize : Slice(v, 2, Alg(a).sig) = SigCells(kk, Digest(p), Alg(a).sig)
    BY <1>10
<1>27. \A i \in 1 .. Alg(a).sig : v[2 + i] # Nul
    <2>1. 2 + Alg(a).sig <= Len(v)
        BY <1>4, <1>5, <1>6, <1>12, <1>25
    <2>2. \A i \in 1 .. Alg(a).sig : Slice(v, 2, Alg(a).sig)[i] = v[2 + i]
        BY <1>6, <1>8, <2>1, SliceFull
    <2>3. \A i \in 1 .. Alg(a).sig : SigCells(kk, Digest(p), Alg(a).sig)[i] = SigCell(kk, Digest(p), i)
        BY <1>6, SigCellsIs
    <2> QED BY <1>26, <2>2, <2>3, NulDiffers
<1>28. ASSUME NEW i \in 1 .. Len(b) PROVE v[i] = b[i]
    <2>0. i \in 1 .. Len(v) BY <1>25
    <2>1. CASE i = 1 BY <2>1
    <2>2. CASE i = 2
        BY <1>8, <1>11, <2>0, <2>2, NulDiffers
    <2>3. CASE i > 2 /\ i <= 2 + Alg(a).sig
        <3>1. i - 2 \in 1 .. Alg(a).sig /\ 2 + (i - 2) = i
            BY <1>6, <2>3
        <3>2. v[i] # Nul BY <1>27, <3>1
        <3> QED BY <1>8, <2>0, <3>2
    <2>4. CASE i > 2 + Alg(a).sig /\ i <= 1 + h.auth
        <3>1. i - 1 \in 1 .. Len(y) /\ 1 + (i - 1) = i /\ i - 1 > 1 + Alg(a).sig
            BY <1>4, <1>5, <1>6, <2>4
        <3>2. b[i] = Nul BY <1>12, <1>13, <3>1
        <3> QED BY <1>8, <2>0, <3>2
    <2>5. CASE i > 1 + h.auth
        <3>0. PICK u \in Nat : u = 1 + h.auth BY <1>18
        <3>1. PICK j \in Int : j = i - u OBVIOUS
        <3>6. Len(b) = u + Len(x) /\ Len(x) \in Nat
            BY <1>4, <1>5, <3>0
        <3>2. j \in 1 .. Len(x) /\ u + j = i
            BY <2>5, <3>0, <3>1, <3>6
        <3>3. b[i] = x[j] BY <1>4, <3>0, <3>2 DEF Placed
        <3>4. s1[j] = x[j] /\ s1[j] = v[i]
            BY <1>19, <1>24, <3>0, <3>2
        <3> QED BY <3>3, <3>4
    <2> QED BY <1>4, <1>5, <1>6, <2>1, <2>2, <2>3, <2>4, <2>5
<1>29. \A k \in 1 .. Len(v) : v[k] = b[k]
    BY <1>25, <1>28
<1> QED BY <1>4, <1>8, <1>25, <1>29, SameSeq

--------------------------------------------------
(* What an image takes from others. *)

\* A sequence of one.
LEMMA OneSeq == ASSUME NEW u PROVE IsSeq(<<u>>) /\ Len(<<u>>) = 1 /\ <<u>>[1] = u /\ \A x : Has(<<u>>, x) <=> x = u
<1>1. PICK v : v = <<u>> OBVIOUS
<1>2. v \in Seq({u}) /\ Len(v) = 1 /\ v[1] = u BY <1>1
<1>3. \A k \in 1 .. Len(v) : k = 1 BY <1>2
<1>4. 1 \in 1 .. Len(v) BY <1>2
<1>5. \A x : Has(v, x) <=> x = u
    BY <1>2, <1>3, <1>4, Zenon DEF Has
<1> QED BY <1>1, <1>2, <1>5 DEF IsSeq

\* The domain of a sequence.
LEMMA SeqDomain == \A s : IsSeq(s) => DOMAIN s = 1 .. Len(s)
BY DEF IsSeq

\* A map over 1 .. n of sequences.
LEMMA MapSeqs ==
    ASSUME NEW n \in Nat, NEW w, w = [k \in 1 .. n |-> w[k]], \A k \in 1 .. n : IsSeq(w[k])
    PROVE  IsSeqs(w) /\ Len(w) = n
<1>1. IsSeq(w) /\ Len(w) = n BY MapSeq
<1> QED BY <1>1 DEF IsSeqs

\* Those of a sequence whose place is in K.
Picked(s, K) == [k \in 1 .. Len(s) |-> IF k \in K THEN <<s[k]>> ELSE << >>]

LEMMA Chosen ==
    ASSUME NEW s, IsSeq(s), NEW K
    PROVE  /\ IsSeq(FlattenSeq(Picked(s, K)))
           /\ \A x : Has(FlattenSeq(Picked(s, K)), x) <=> \E k \in 1 .. Len(s) : k \in K /\ s[k] = x
<1>0. PICK w : w = Picked(s, K) OBVIOUS
<1>1. Len(s) \in Nat BY LenNat
<1>2. w = [k \in 1 .. Len(s) |-> w[k]] /\ \A k \in 1 .. Len(s) : w[k] = IF k \in K THEN <<s[k]>> ELSE << >>
    BY <1>0 DEF Picked
<1>3. \A k \in 1 .. Len(s) : IsSeq(w[k]) /\ \A x : Has(w[k], x) <=> k \in K /\ s[k] = x
    <2> TAKE k \in 1 .. Len(s)
    <2>1. CASE k \in K
        <3>1. w[k] = <<s[k]>> BY <1>2, <2>1
        <3> QED BY <2>1, <3>1, OneSeq
    <2>2. CASE k \notin K
        <3>1. w[k] = << >> BY <1>2, <2>2
        <3> QED BY <2>2, <3>1, NilIs DEF NilSeq
    <2> QED BY <2>1, <2>2
<1>4. IsSeqs(w) /\ Len(w) = Len(s)
    <2>1. PICK n \in Nat : n = Len(s) BY <1>1
    <2>2. w = [k \in 1 .. n |-> w[k]] /\ \A k \in 1 .. n : IsSeq(w[k])
        BY <1>2, <1>3, <2>1
    <2> QED BY <2>1, <2>2, MapSeqs
<1>5. IsSeq(FlattenSeq(w)) /\ \A x : Has(FlattenSeq(w), x) <=> \E j \in 1 .. Len(s) : Has(w[j], x)
    BY <1>4, FlattenHas
<1>6. \A x : Has(FlattenSeq(w), x) <=> \E j \in 1 .. Len(s) : j \in K /\ s[j] = x
    BY <1>3, <1>5, Zenon
<1> QED BY <1>0, <1>5, <1>6, Zenon

\* OfTypes selects.
LEMMA OfTypesIs ==
    ASSUME NEW ds, IsSeq(ds), NEW types
    PROVE  /\ IsSeq(OfTypes(ds, types))
           /\ \A d : Has(OfTypes(ds, types), d) <=> Has(ds, d) /\ d.type \in types
<1> DEFINE K == {k \in 1 .. Len(ds) : ds[k].type \in types}
<1>2. [k \in DOMAIN ds |-> IF ds[k].type \in types THEN <<ds[k]>> ELSE << >>] = Picked(ds, K)
    BY SeqDomain DEF Picked
<1>3. OfTypes(ds, types) = FlattenSeq(Picked(ds, K))
    BY <1>2 DEF OfTypes
<1>4. \A k \in 1 .. Len(ds) : k \in K <=> ds[k].type \in types OBVIOUS
<1> HIDE DEF K
<1>5. /\ IsSeq(FlattenSeq(Picked(ds, K)))
      /\ \A x : Has(FlattenSeq(Picked(ds, K)), x) <=> \E k \in 1 .. Len(ds) : k \in K /\ ds[k] = x
    BY Chosen
<1>6. ASSUME NEW d
      PROVE  (\E k \in 1 .. Len(ds) : k \in K /\ ds[k] = d) <=> Has(ds, d) /\ d.type \in types
    BY <1>4 DEF Has
<1> QED BY <1>3, <1>5, <1>6, Zenon

Sel(s, t, n) == FlattenSeq([k \in DOMAIN s |-> IF s[k].type = t /\ s[k].name = n THEN <<s[k]>> ELSE << >>])

\* Sel selects.
LEMMA SelIs ==
    ASSUME NEW s, IsSeq(s), NEW t, NEW n
    PROVE  /\ IsSeq(Sel(s, t, n))
           /\ \A d : Has(Sel(s, t, n), d) <=> Has(s, d) /\ d.type = t /\ d.name = n
<1> DEFINE K == {k \in 1 .. Len(s) : s[k].type = t /\ s[k].name = n}
<1>2. [k \in DOMAIN s |-> IF s[k].type = t /\ s[k].name = n THEN <<s[k]>> ELSE << >>] = Picked(s, K)
    BY SeqDomain DEF Picked
<1>3. Sel(s, t, n) = FlattenSeq(Picked(s, K))
    BY <1>2 DEF Sel
<1>4. \A k \in 1 .. Len(s) : k \in K <=> s[k].type = t /\ s[k].name = n OBVIOUS
<1> HIDE DEF K
<1>5. /\ IsSeq(FlattenSeq(Picked(s, K)))
      /\ \A x : Has(FlattenSeq(Picked(s, K)), x) <=> \E k \in 1 .. Len(s) : k \in K /\ s[k] = x
    BY Chosen
<1>6. ASSUME NEW d
      PROVE  (\E k \in 1 .. Len(s) : k \in K /\ s[k] = d) <=> Has(s, d) /\ d.type = t /\ d.name = n
    BY <1>4 DEF Has
<1> QED BY <1>3, <1>5, <1>6, Zenon

\* The descriptors of the images, and those of a type that name a partition.
Parsed(fs, images)  == [i \in DOMAIN images |-> ParseImage(fs[images[i]])]
OfName(P, m, n, t)  == FlattenSeq([i \in 1 .. m |-> Sel(P[i], t, n)])
NamedOf(P, m, t)    == FlattenSeq([n \in DOMAIN Names |->
                           IF OfName(P, m, Names[n], t) = << >> THEN << >> ELSE <<Kept(OfName(P, m, Names[n], t))>>])
LooseOf(P, m)       == FlattenSeq([i \in 1 .. m |-> OfTypes(P[i], {"property", "cmdline"})])

\* The four parts of what an image takes from others.
LEMMA IncludedParts ==
    ASSUME NEW fs, NEW images, IsSeq(images), NEW P, P = Parsed(fs, images), NEW m, m = Len(images)
    PROVE  Included(fs, images) = ((LooseOf(P, m) \o NamedOf(P, m, "chain")) \o NamedOf(P, m, "hash"))
                                      \o NamedOf(P, m, "hashtree")
<1>1. DOMAIN images = 1 .. m BY SeqDomain
<1> QED BY <1>1, ZenonT(40) DEF Included, LooseOf, NamedOf, OfName, Sel, Parsed

\* Those of a type and a name, of all images.
LEMMA OfNameIs ==
    ASSUME NEW m \in Nat, NEW P, \A i \in 1 .. m : IsSeq(P[i]), NEW n, NEW t
    PROVE  /\ IsSeq(OfName(P, m, n, t))
           /\ \A d : Has(OfName(P, m, n, t), d) <=> d.type = t /\ d.name = n /\ \E i \in 1 .. m : Has(P[i], d)
<1>1. PICK w : w = [i \in 1 .. m |-> Sel(P[i], t, n)] OBVIOUS
<1>2. w = [i \in 1 .. m |-> w[i]] /\ \A i \in 1 .. m : w[i] = Sel(P[i], t, n)
    BY <1>1
<1>3. \A i \in 1 .. m : IsSeq(w[i]) /\ \A d : Has(w[i], d) <=> Has(P[i], d) /\ d.type = t /\ d.name = n
    BY <1>2, SelIs
<1>4. IsSeqs(w) /\ Len(w) = m BY <1>2, <1>3, MapSeqs
<1>5. IsSeq(FlattenSeq(w)) /\ \A x : Has(FlattenSeq(w), x) <=> \E j \in 1 .. Len(w) : Has(w[j], x)
    BY <1>4, FlattenHas
<1> QED BY <1>1, <1>3, <1>4, <1>5 DEF OfName

\* The last one is of the last image that has one.
LEMMA OfNameLast ==
    ASSUME NEW m \in Nat, NEW P, \A i \in 1 .. m : IsSeq(P[i]), NEW n, NEW t, NEW i \in 1 .. m,
           \E d : Has(P[i], d) /\ d.type = t /\ d.name = n,
           \A j \in i + 1 .. m : \A d : ~ (Has(P[j], d) /\ d.type = t /\ d.name = n)
    PROVE  /\ OfName(P, m, n, t) # << >>
           /\ Has(P[i], Kept(OfName(P, m, n, t)))
           /\ Kept(OfName(P, m, n, t)).type = t /\ Kept(OfName(P, m, n, t)).name = n
<1>1. PICK w : w = [q \in 1 .. m |-> Sel(P[q], t, n)] OBVIOUS
<1>2. w = [q \in 1 .. m |-> w[q]] /\ \A q \in 1 .. m : w[q] = Sel(P[q], t, n)
    BY <1>1
<1>3. \A q \in 1 .. m : IsSeq(w[q]) /\ \A d : Has(w[q], d) <=> Has(P[q], d) /\ d.type = t /\ d.name = n
    BY <1>2, SelIs
<1>4. IsSeqs(w) /\ Len(w) = m BY <1>2, <1>3, MapSeqs
<1>5. w[i] # << >> BY <1>3, NilIs
<1>6. \A q \in i + 1 .. m : w[q] = << >>
    <2> TAKE q \in i + 1 .. m
    <2>1. q \in 1 .. m OBVIOUS
    <2>2. \A x : ~ Has(w[q], x) BY <1>3, <2>1
    <2>3. Len(w[q]) \in Nat BY <1>3, <2>1, LenNat
    <2>4. Len(w[q]) = 0
        <3> SUFFICES ASSUME Len(w[q]) # 0 PROVE FALSE OBVIOUS
        <3>1. 1 \in 1 .. Len(w[q]) BY <2>3
        <3> QED BY <2>2, <3>1 DEF Has
    <2> QED BY <1>3, <2>1, <2>4, LenNat
<1>7. FlattenSeq(w) # << >> /\ Last(FlattenSeq(w)) = Last(w[i])
    <2>1. i \in 1 .. Len(w) /\ \A q \in i + 1 .. Len(w) : w[q] = << >>
        BY <1>4, <1>6
    <2> QED BY <1>4, <1>5, <2>1, FlattenLast
<1>8. Has(w[i], Last(w[i]))
    <2>1. Len(w[i]) \in 1 .. Len(w[i])
        BY <1>3, <1>5, LenNat
    <2> QED BY <2>1 DEF Has, Last
<1>9. OfName(P, m, n, t) = FlattenSeq(w)
    BY <1>1 DEF OfName
<1> QED BY <1>3, <1>7, <1>8, <1>9 DEF Kept

\* The names are a sequence of partitions.
LEMMA NamesSeq == IsSeq(Names) /\ \A n : n \in ToSet(Names) <=> \E k \in 1 .. Len(Names) : Names[k] = n
<1>1. IsSeq(Names)
    BY AvbImagesAssumption DEF VbmetaAssumption, IsSeq
<1> QED BY <1>1, SeqDomain DEF ToSet

\* Of each name that one has, the last.
LEMMA NamedIs ==
    ASSUME NEW m \in Nat, NEW P, NEW t
    PROVE  /\ IsSeq(NamedOf(P, m, t))
           /\ \A d : Has(NamedOf(P, m, t), d) <=>
                \E n \in ToSet(Names) : OfName(P, m, n, t) # << >> /\ d = Kept(OfName(P, m, n, t))
<1>0. Len(Names) \in Nat /\ DOMAIN Names = 1 .. Len(Names)
    BY NamesSeq, LenNat, SeqDomain
<1>1. PICK w : w = [n \in 1 .. Len(Names) |->
                IF OfName(P, m, Names[n], t) = << >> THEN << >> ELSE <<Kept(OfName(P, m, Names[n], t))>>]
    OBVIOUS
<1>2. /\ w = [n \in 1 .. Len(Names) |-> w[n]]
      /\ \A n \in 1 .. Len(Names) : w[n] = IF OfName(P, m, Names[n], t) = << >> THEN << >>
                                           ELSE <<Kept(OfName(P, m, Names[n], t))>>
    BY <1>1
<1>3. ASSUME NEW n \in 1 .. Len(Names)
      PROVE  IsSeq(w[n]) /\ \A d : Has(w[n], d) <=> OfName(P, m, Names[n], t) # << >>
                                                     /\ d = Kept(OfName(P, m, Names[n], t))
    <2>1. CASE OfName(P, m, Names[n], t) = << >>
        BY <1>2, <2>1, NilIs DEF NilSeq
    <2>2. CASE OfName(P, m, Names[n], t) # << >>
        <3>1. w[n] = <<Kept(OfName(P, m, Names[n], t))>>
            BY <1>2, <2>2
        <3> QED BY <2>2, <3>1, OneSeq
    <2> QED BY <2>1, <2>2
<1>4. IsSeqs(w) /\ Len(w) = Len(Names)
    BY <1>0, <1>2, <1>3, MapSeqs
<1>5. IsSeq(FlattenSeq(w)) /\ \A x : Has(FlattenSeq(w), x) <=> \E j \in 1 .. Len(w) : Has(w[j], x)
    BY <1>4, FlattenHas
<1>6. NamedOf(P, m, t) = FlattenSeq(w)
    BY <1>0, <1>1 DEF NamedOf
<1> DEFINE R(n, d) == OfName(P, m, n, t) # << >> /\ d = Kept(OfName(P, m, n, t))
<1>7. \A d : (\E j \in 1 .. Len(Names) : R(Names[j], d)) <=> \E n \in ToSet(Names) : R(n, d)
    <2> HIDE DEF R
    <2> QED BY NamesSeq, Zenon
<1>8. \A d : Has(FlattenSeq(w), d) <=> \E j \in 1 .. Len(Names) : R(Names[j], d)
    <2> SUFFICES ASSUME NEW d PROVE Has(FlattenSeq(w), d) <=> \E j \in 1 .. Len(Names) : R(Names[j], d)
        OBVIOUS
    <2>1. Has(FlattenSeq(w), d) <=> \E j \in 1 .. Len(Names) : Has(w[j], d)
        BY <1>4, <1>5
    <2>2. \A j \in 1 .. Len(Names) : Has(w[j], d) <=> R(Names[j], d)
        BY <1>3
    <2> HIDE DEF R
    <2> QED BY <2>1, <2>2, Zenon
<1>9. \A d : Has(FlattenSeq(w), d) <=> \E n \in ToSet(Names) : R(n, d)
    BY <1>7, <1>8, Zenon
<1> QED BY <1>5, <1>6, <1>9, Zenon

\* Properties and command lines are taken as they are.
LEMMA LooseIs ==
    ASSUME NEW m \in Nat, NEW P, \A i \in 1 .. m : IsSeq(P[i])
    PROVE  /\ IsSeq(LooseOf(P, m))
           /\ \A d : Has(LooseOf(P, m), d) <=> d.type \in {"property", "cmdline"} /\ \E i \in 1 .. m : Has(P[i], d)
<1>1. PICK w : w = [i \in 1 .. m |-> OfTypes(P[i], {"property", "cmdline"})] OBVIOUS
<1>2. w = [i \in 1 .. m |-> w[i]] /\ \A i \in 1 .. m : w[i] = OfTypes(P[i], {"property", "cmdline"})
    BY <1>1
<1>3. \A i \in 1 .. m : IsSeq(w[i]) /\ \A d : Has(w[i], d) <=> Has(P[i], d) /\ d.type \in {"property", "cmdline"}
    BY <1>2, OfTypesIs
<1>4. IsSeqs(w) /\ Len(w) = m BY <1>2, <1>3, MapSeqs
<1>5. IsSeq(FlattenSeq(w)) /\ \A x : Has(FlattenSeq(w), x) <=> \E j \in 1 .. Len(w) : Has(w[j], x)
    BY <1>4, FlattenHas
<1> QED BY <1>1, <1>3, <1>4, <1>5 DEF LooseOf

\* Included: what it holds.
LEMMA IncludedHas ==
    ASSUME NEW fs, NEW images, IsSeq(images), NEW m, m = Len(images), NEW P, P = Parsed(fs, images),
           \A i \in 1 .. m : IsSeq(P[i])
    PROVE  /\ IsSeq(Included(fs, images)) /\ m \in Nat
           /\ \A d : Has(Included(fs, images), d) <=>
                \/ d.type \in {"property", "cmdline"} /\ \E i \in 1 .. m : Has(P[i], d)
                \/ \E t \in NamedTypes : \E n \in ToSet(Names) :
                     OfName(P, m, n, t) # << >> /\ d = Kept(OfName(P, m, n, t))
<1>1. m \in Nat BY LenNat
<1>2. PICK x : x = LooseOf(P, m) OBVIOUS
<1>3. PICK y : y = NamedOf(P, m, "chain") OBVIOUS
<1>4. PICK z : z = NamedOf(P, m, "hash") OBVIOUS
<1>5. PICK u : u = NamedOf(P, m, "hashtree") OBVIOUS
<1>6. IsSeq(x) /\ IsSeq(y) /\ IsSeq(z) /\ IsSeq(u)
    BY <1>1, <1>2, <1>3, <1>4, <1>5, LooseIs, NamedIs
<1>7. IsSeq(x \o y) /\ \A d : Has(x \o y, d) <=> Has(x, d) \/ Has(y, d)
    BY <1>6, CatSeq, CatHas
<1>8. IsSeq((x \o y) \o z) /\ \A d : Has((x \o y) \o z, d) <=> Has(x \o y, d) \/ Has(z, d)
    BY <1>6, <1>7, CatSeq, CatHas
<1>9. IsSeq(((x \o y) \o z) \o u) /\ \A d : Has(((x \o y) \o z) \o u, d) <=> Has((x \o y) \o z, d) \/ Has(u, d)
    BY <1>6, <1>8, CatSeq, CatHas
<1>10. Included(fs, images) = ((x \o y) \o z) \o u
    BY <1>2, <1>3, <1>4, <1>5, IncludedParts
<1>11. \A d : Has(x, d) <=> d.type \in {"property", "cmdline"} /\ \E i \in 1 .. m : Has(P[i], d)
    BY <1>1, <1>2, LooseIs
<1> DEFINE N(d, t) == \E n \in ToSet(Names) : OfName(P, m, n, t) # << >> /\ d = Kept(OfName(P, m, n, t))
<1>12. \A d : Has(y, d) <=> N(d, "chain")
    BY <1>1, <1>3, NamedIs
<1>13. \A d : Has(z, d) <=> N(d, "hash")
    BY <1>1, <1>4, NamedIs
<1>14. \A d : Has(u, d) <=> N(d, "hashtree")
    BY <1>1, <1>5, NamedIs
<1>15. \A d : (\E t \in NamedTypes : N(d, t)) <=> N(d, "chain") \/ N(d, "hash") \/ N(d, "hashtree")
    BY Zenon DEF NamedTypes
<1> HIDE DEF N
<1>16. \A d : Has(Included(fs, images), d) <=>
                \/ d.type \in {"property", "cmdline"} /\ \E i \in 1 .. m : Has(P[i], d)
                \/ \E t \in NamedTypes : N(d, t)
    BY <1>7, <1>8, <1>9, <1>10, <1>11, <1>12, <1>13, <1>14, <1>15
<1> QED BY <1>1, <1>9, <1>10, <1>16 DEF N

\* Of each type and name that one of the images has, the last is there, and no other.
LEMMA IncludedLast ==
    ASSUME NEW fs, NEW images, IsSeq(images), NEW m, m = Len(images), NEW P, P = Parsed(fs, images),
           \A i \in 1 .. m : IsSeq(P[i]), NEW t \in NamedTypes, NEW n \in ToSet(Names), NEW i \in 1 .. m,
           \E d : Has(P[i], d) /\ d.type = t /\ d.name = n,
           \A j \in i + 1 .. m : \A d : ~ (Has(P[j], d) /\ d.type = t /\ d.name = n)
    PROVE  \E d : Has(P[i], d) /\ d.type = t /\ d.name = n /\ Has(Included(fs, images), d)
<1>1. m \in Nat BY LenNat
<1>2. PICK d : d = Kept(OfName(P, m, n, t)) OBVIOUS
<1>3. OfName(P, m, n, t) # << >> /\ Has(P[i], d) /\ d.type = t /\ d.name = n
    BY <1>1, <1>2, OfNameLast
<1>4. Has(Included(fs, images), d)
    BY <1>2, <1>3, IncludedHas
<1> QED BY <1>3, <1>4

\* What is there comes from one of them.
LEMMA IncludedFrom ==
    ASSUME NEW fs, NEW images, IsSeq(images), NEW m, m = Len(images), NEW P, P = Parsed(fs, images),
           \A i \in 1 .. m : IsSeq(P[i]), NEW d, Has(Included(fs, images), d)
    PROVE  /\ \E i \in 1 .. m : Has(P[i], d)
           /\ d.type \in NamedTypes => d.name \in ToSet(Names) /\ d = Kept(OfName(P, m, d.name, d.type))
<1>1. m \in Nat BY LenNat
<1>2. CASE d.type \in {"property", "cmdline"} /\ \E i \in 1 .. m : Has(P[i], d)
    BY <1>2 DEF NamedTypes
<1>3. ASSUME NEW t \in NamedTypes, NEW n \in ToSet(Names),
             OfName(P, m, n, t) # << >>, d = Kept(OfName(P, m, n, t))
      PROVE  /\ \E i \in 1 .. m : Has(P[i], d)
             /\ d.name \in ToSet(Names) /\ d = Kept(OfName(P, m, d.name, d.type))
    <2>0. IsSeq(OfName(P, m, n, t)) BY <1>1, OfNameIs
    <2>1. IsSeq(OfName(P, m, n, t)) /\ Len(OfName(P, m, n, t)) \in 1 .. Len(OfName(P, m, n, t))
        BY <1>3, <2>0, LenNat
    <2>2. Has(OfName(P, m, n, t), d)
        BY <1>3, <2>1 DEF Has, Kept, Last
    <2>3. d.type = t /\ d.name = n /\ \E i \in 1 .. m : Has(P[i], d)
        BY <1>1, <2>2, OfNameIs
    <2> QED BY <1>3, <2>3
<1>4. \/ d.type \in {"property", "cmdline"} /\ \E i \in 1 .. m : Has(P[i], d)
      \/ \E t \in NamedTypes : \E n \in ToSet(Names) : OfName(P, m, n, t) # << >> /\ d = Kept(OfName(P, m, n, t))
    BY IncludedHas
<1> QED BY <1>2, <1>3, <1>4

--------------------------------------------------
(* What is known of the images. *)

\* No cell of a struct is a footer.
LEMMA NoFooterIn ==
    ASSUME NEW m, m.blob # << >>, Sound(m)
    PROVE  /\ IsSeq(m.blob) /\ Len(m.blob) \in Nat \ {0}
           /\ \A i \in 1 .. Len(m.blob) : m.blob[i].kind # "footer"
           /\ \A i \in 1 .. Len(m.blob) : m.blob[i].kind = "header" => i = 1
           /\ \A i \in 1 .. Len(m.blob) : m.blob[i].kind = "desc" => \E d : Has(Ds(m), d) /\ m.blob[i] = DescCell(d)
           /\ \A i \in 1 .. Len(m.blob) : m.blob[i].kind \in
                {"nul", "digest", "header", "desc", "more", "key", "pkmd", "sig"}
<1>1. PICK a, minor : Args(a) /\ m.blob = Struct(a, Ds(m), minor)
    BY DEF Sound
<1>2. IsSeq(Ds(m)) BY DEF Sound, Knows
<1>3. PICK b : b = m.blob OBVIOUS
<1>4. b = Struct(a, Ds(m), minor) BY <1>1, <1>3
<1>5. PICK h : h = HeadOf(a, Ds(m), minor) OBVIOUS
<1>6. IsSeq(b) /\ Len(b) \in Nat /\ b[1] = HeadCell(a, Ds(m), minor) /\ b # << >>
    BY <1>1, <1>2, <1>4, <1>5, StructIs
<1>7. ASSUME NEW i \in 1 .. Len(b)
      PROVE  /\ b[i].kind \in {"nul", "digest", "header", "desc", "more", "key", "pkmd", "sig"}
             /\ b[i].kind = "header" => i = 1
             /\ b[i].kind = "desc" => \E d : Has(Ds(m), d) /\ b[i] = DescCell(d)
    <2>1. CASE i = 1 BY <1>6, <2>1 DEF HeadCell
    <2>2. CASE i # 1
        <3>1. \/ \E k \in 1 .. Len(Ds(m)) : b[i] = DescCell(Ds(m)[k]) \/ b[i] = MoreCell(Ds(m)[k])
              \/ b[i].kind \in {"digest", "sig", "key", "pkmd", "nul"}
            BY <1>1, <1>2, <1>4, <2>2, StructCells
        <3>2. \A d : DescCell(d).kind = "desc" /\ MoreCell(d).kind = "more"
            BY DEF DescCell, MoreCell
        <3>3. CASE b[i].kind \in {"digest", "sig", "key", "pkmd", "nul"}
            BY <2>2, <3>3
        <3>4. ASSUME NEW k \in 1 .. Len(Ds(m)), b[i] = DescCell(Ds(m)[k]) \/ b[i] = MoreCell(Ds(m)[k])
              PROVE  b[i].kind \in {"desc", "more"} /\ (b[i].kind = "desc" => Has(Ds(m), Ds(m)[k]) /\ b[i] = DescCell(Ds(m)[k]))
            BY <3>2, <3>4 DEF Has
        <3>5. CASE \E k \in 1 .. Len(Ds(m)) : b[i] = DescCell(Ds(m)[k]) \/ b[i] = MoreCell(Ds(m)[k])
            BY <3>4, <3>5
        <3> QED BY <3>1, <3>3, <3>5
    <2> QED BY <2>1, <2>2
<1>8. Len(b) \in Nat \ {0} BY <1>6, LenNat
<1> HIDE DEF Sound
<1> QED BY <1>3, <1>6, <1>7, <1>8

\* Where the struct of an image is, and that no cell is a footer but the last of some.
Spot(g, m, at) ==
    /\ at \in Nat /\ VbmetaOffset(g) = at /\ Placed(g, at, m.blob)
    /\ \A i \in 1 .. Len(g) : g[i].kind = "header" => i = at + 1
    /\ \A i \in 1 .. Len(g) : g[i].kind = "footer" => i = Len(g)
    /\ HasFooter(g) \/ (at = 0 /\ \A i \in 1 .. Len(g) : g[i].kind # "footer")
    /\ HasFooter(g) => at # 0

\* In an image that a command has written the struct is where _parse_image looks for it.
LEMMA SpotIs ==
    ASSUME NEW p, NEW g, NEW m, Left(p, g, m), m.blob # << >>
    PROVE  \E at : Spot(g, m, at)
<1>1. IsSeq(g) /\ Sound(m) /\ Len(g) \in Nat
    BY LenNat DEF Left
<1>2. PICK b : b = m.blob OBVIOUS
<1>3. /\ IsSeq(b) /\ Len(b) \in Nat /\ Len(b) # 0
      /\ \A i \in 1 .. Len(b) : b[i].kind # "footer"
      /\ \A i \in 1 .. Len(b) : b[i].kind = "header" => i = 1
    BY <1>1, <1>2, NoFooterIn
<1>4. CASE p \in DOMAIN Sizes
    <2>0. PICK at \in Nat : \E orig \in 1 .. at :
             /\ g # << >> /\ g[Len(g)] = Footer(orig, at, Len(b))
             /\ Placed(g, at, b) /\ at + Len(b) < Len(g)
             /\ \A i \in 1 .. Len(g) - 1 : i <= at \/ at + Len(b) < i => Idle(g[i])
        BY <1>2, <1>4 DEF Left, Footed
    <2>1. PICK orig \in 1 .. at :
             /\ g # << >> /\ g[Len(g)] = Footer(orig, at, Len(b))
             /\ Placed(g, at, b) /\ at + Len(b) < Len(g)
             /\ \A i \in 1 .. Len(g) - 1 : i <= at \/ at + Len(b) < i => Idle(g[i])
        BY <2>0
    <2>2. g[Len(g)].kind = "footer" /\ g[Len(g)].at = at /\ g[Len(g)].kind # "header"
        BY <2>1 DEF Footer
    <2>3. HasFooter(g) /\ VbmetaOffset(g) = at /\ at # 0
        BY <2>1, <2>2 DEF HasFooter, VbmetaOffset, Last
    <2>4. ASSUME NEW i \in 1 .. Len(g), i # Len(g)
          PROVE  g[i].kind # "footer" /\ (g[i].kind = "header" => i = at + 1)
        <3>1. CASE i <= at \/ at + Len(b) < i
            BY <1>1, <2>1, <2>4, <3>1 DEF Idle
        <3>2. CASE ~ (i <= at \/ at + Len(b) < i)
            <4>1. i - at \in 1 .. Len(b) /\ at + (i - at) = i
                BY <1>3, <3>2
            <4>2. g[i] = b[i - at]
                BY <2>1, <4>1 DEF Placed
            <4> QED BY <1>3, <4>1, <4>2
        <3> QED BY <3>1, <3>2
    <2>5. Spot(g, m, at)
        BY <1>2, <2>1, <2>2, <2>3, <2>4 DEF Spot
    <2> QED BY <2>5
<1>5. CASE p \notin DOMAIN Sizes
    <2>1. Placed(g, 0, b) /\ \A i \in 1 .. Len(g) : i > Len(b) => g[i] = Nul
        BY <1>2, <1>5 DEF Left, Unfooted
    <2>2. ASSUME NEW i \in 1 .. Len(g)
          PROVE  g[i].kind # "footer" /\ (g[i].kind = "header" => i = 0 + 1)
        <3>1. CASE i > Len(b) BY <2>1, <3>1 DEF Nul
        <3>2. CASE ~ (i > Len(b))
            <4>1. i \in 1 .. Len(b) /\ 0 + i = i
                BY <1>3, <3>2
            <4>2. g[i] = b[i] BY <2>1, <4>1 DEF Placed
            <4> QED BY <1>3, <4>1, <4>2
        <3> QED BY <3>1, <3>2
    <2>3. ~ HasFooter(g)
        <3> SUFFICES ASSUME g # << >> PROVE g[Len(g)].kind # "footer"
            BY DEF HasFooter, Last
        <3>1. Len(g) \in 1 .. Len(g) BY <1>1, LenNat
        <3> QED BY <2>2, <3>1
    <2>4. VbmetaOffset(g) = 0 BY <2>3 DEF VbmetaOffset
    <2>5. Spot(g, m, 0)
        BY <1>2, <2>1, <2>2, <2>3, <2>4 DEF Spot
    <2> QED BY <2>5
<1> QED BY <1>4, <1>5

\* An image that no copy error has met is what its command has made of it.
LEMMA LeftFound ==
    ASSUME NEW p, NEW g, NEW m, Left(p, g, m), m.blob # << >>
    PROVE  /\ IsHeader(g) /\ Parses(g) /\ ParseImage(g) = Ds(m) /\ VbmetaBlob(g) = m.blob
           /\ Enough(Ds(m), HeaderOf(g).minor)
<1>1. IsSeq(g) /\ Sound(m) BY DEF Left
<1>2. PICK at : Spot(g, m, at) BY SpotIs
<1>3. PICK a, minor : Args(a) /\ m.blob = Struct(a, Ds(m), minor) /\ Enough(Ds(m), minor)
    BY <1>1 DEF Sound
<1>4. IsSeq(Ds(m)) BY <1>1 DEF Sound, Knows
<1>5. at \in Nat /\ VbmetaOffset(g) = at /\ Placed(g, at, Struct(a, Ds(m), minor))
    BY <1>2, <1>3 DEF Spot
<1>6. /\ IsHeader(g) /\ HeaderOf(g) = HeadOf(a, Ds(m), minor)
      /\ VbmetaBlob(g) = Struct(a, Ds(m), minor)
      /\ Parses(g) /\ ParseImage(g) = Ds(m)
    BY <1>1, <1>3, <1>4, <1>5, StructFound
<1>7. HeaderOf(g).minor = minor
    BY <1>3, <1>4, <1>6, HeadIs
<1> QED BY <1>3, <1>6, <1>7

\* Without a struct nothing is found.
LEMMA BareRefused ==
    ASSUME NEW p, NEW g, NEW m, Left(p, g, m), m.blob = << >>, NEW f, Damaged(f, g)
    PROVE  ~ IsHeader(f) /\ ~ Parses(f) /\ ~ HasFooter(f)
<1>1. IsSeq(f) /\ Len(f) \in Nat /\ \A i \in 1 .. Len(f) : f[i].kind \in {"data", "nul"}
    <2>1. IsSeq(f) /\ Len(f) \in Nat /\ Len(g) \in Nat /\ Len(f) <= Len(g)
        BY LenNat DEF Damaged
    <2>2. \A i \in 1 .. Len(f) : f[i] = g[i] \/ f[i] = Nul
        BY DEF Damaged
    <2>3. \A i \in 1 .. Len(g) : g[i].kind = "data"
        BY DEF Left
    <2>4. Nul.kind = "nul" BY DEF Nul
    <2>5. \A i \in 1 .. Len(f) : i \in 1 .. Len(g)
        BY <2>1
    <2> QED BY <2>1, <2>2, <2>3, <2>4, <2>5
<1>2. ~ HasFooter(f)
    <2> SUFFICES ASSUME f # << >> PROVE f[Len(f)].kind # "footer"
        BY DEF HasFooter, Last
    <2>1. Len(f) \in 1 .. Len(f) BY <1>1, LenNat
    <2> QED BY <1>1, <2>1
<1>3. ~ IsHeader(f)
    <2>1. VbmetaOffset(f) = 0 BY <1>2 DEF VbmetaOffset
    <2>2. IsHeader(f) => 1 \in 1 .. Len(f) /\ f[1].kind = "header"
        BY <1>1, <2>1 DEF IsHeader
    <2> QED BY <1>1, <2>2
<1> QED BY <1>2, <1>3 DEF Parses

--------------------------------------------------
(* Copies that have gone wrong. *)

\* A header that is found in a copy is the one of the image, at its place.
LEMMA CopyHeader ==
    ASSUME NEW g, NEW m, NEW at, Spot(g, m, at), NEW f, Damaged(f, g), IsHeader(f)
    PROVE  VbmetaOffset(f) = at /\ at + 1 \in 1 .. Len(f) /\ f[at + 1] = g[at + 1]
<1>1. IsSeq(f) /\ Len(f) \in Nat /\ IsSeq(g) /\ Len(g) \in Nat /\ Len(f) <= Len(g)
    BY LenNat DEF Damaged
<1>2. \A i \in 1 .. Len(f) : (f[i] = g[i] \/ f[i].kind = "nul") /\ i \in 1 .. Len(g)
    BY <1>1 DEF Damaged, Nul
<1>3. at \in Nat /\ \A i \in 1 .. Len(g) : (g[i].kind = "header" => i = at + 1) /\ (g[i].kind = "footer" => i = Len(g))
    BY DEF Spot
<1>4. CASE HasFooter(f)
    <2>1. Len(f) \in 1 .. Len(f) /\ f[Len(f)].kind = "footer"
        BY <1>1, <1>4, LenNat DEF HasFooter, Last
    <2>2. f[Len(f)] = g[Len(f)] /\ Len(f) \in 1 .. Len(g)
        BY <1>2, <2>1
    <2>3. Len(f) = Len(g) BY <1>3, <2>1, <2>2
    <2>4. Last(f) = Last(g) /\ g # << >>
        BY <1>1, <2>1, <2>2, <2>3, LenNat DEF Last
    <2>5. HasFooter(g) /\ VbmetaOffset(g) = VbmetaOffset(f)
        BY <1>4, <2>1, <2>2, <2>3, <2>4 DEF HasFooter, VbmetaOffset, Last
    <2>6. VbmetaOffset(f) = at BY <2>5 DEF Spot
    <2>7. at < Len(f) /\ f[at + 1].kind = "header"
        BY <2>6 DEF IsHeader
    <2> QED BY <1>1, <1>2, <1>3, <2>6, <2>7
<1>5. CASE ~ HasFooter(f)
    <2>1. VbmetaOffset(f) = 0 BY <1>5 DEF VbmetaOffset
    <2>2. 1 \in 1 .. Len(f) /\ f[1].kind = "header"
        BY <1>1, <2>1 DEF IsHeader
    <2>3. g[1].kind = "header" /\ 1 \in 1 .. Len(g) /\ f[1] = g[1]
        BY <1>2, <2>2
    <2>4. at = 0 BY <1>3, <2>3
    <2> QED BY <2>1, <2>2, <2>3, <2>4
<1> QED BY <1>4, <1>5

\* The struct in a copy is a copy of the struct.
LEMMA CopyStruct ==
    ASSUME NEW g, NEW m, Sound(m), m.blob # << >>, NEW at, Spot(g, m, at), NEW f, Damaged(f, g), IsHeader(f),
           NEW a, Args(a), NEW minor, m.blob = Struct(a, Ds(m), minor), NEW h, h = HeadOf(a, Ds(m), minor)
    PROVE  /\ HeaderOf(f) = h
           /\ Damaged(VbmetaBlob(f), m.blob) /\ VbmetaBlob(f) # << >> /\ VbmetaBlob(f)[1] = m.blob[1]
<1>1. IsSeq(f) /\ Len(f) \in Nat /\ IsSeq(g) /\ Len(g) \in Nat /\ Len(f) <= Len(g)
    BY LenNat DEF Damaged
<1>2. VbmetaOffset(f) = at /\ at + 1 \in 1 .. Len(f) /\ f[at + 1] = g[at + 1]
    BY CopyHeader
<1>3. IsSeq(Ds(m)) BY DEF Sound, Knows
<1>4. PICK b : b = m.blob OBVIOUS
<1>5. /\ IsSeq(b) /\ Len(b) = 1 + h.auth + h.aux /\ Len(b) \in Nat /\ Len(b) # 0
      /\ b[1] = HeadCell(a, Ds(m), minor)
    <2>1. b = Struct(a, Ds(m), minor) BY <1>4
    <2> QED BY <1>3, <2>1, StructIs, LenNat
<1>6. at \in Nat /\ at + Len(b) <= Len(g) /\ \A k \in 1 .. Len(b) : g[at + k] = b[k]
    BY <1>4 DEF Spot, Placed
<1>7. f[at + 1] = b[1] BY <1>2, <1>5, <1>6
<1>8. HeaderOf(f) = h
    BY <1>2, <1>5, <1>7 DEF HeaderOf, HeadCell
<1>9. PICK v : v = VbmetaBlob(f) OBVIOUS
<1>10. v = Slice(f, at, Len(b))
    BY <1>2, <1>5, <1>8, <1>9 DEF VbmetaBlob
<1>11. /\ IsSeq(v) /\ Len(v) = SliceLen(f, at, Len(b)) /\ Len(v) \in Nat /\ Len(v) <= Len(b)
       /\ \A k \in 1 .. Len(v) : at + k <= Len(f) /\ v[k] = f[at + k]
    <2>1. PICK n \in Nat : n = Len(b) BY <1>5
    <2>2. /\ IsSeq(Slice(f, at, n)) /\ Len(Slice(f, at, n)) = SliceLen(f, at, n) /\ SliceLen(f, at, n) \in Nat
          /\ SliceLen(f, at, n) <= n
          /\ \A k \in 1 .. SliceLen(f, at, n) : at + k <= Len(f) /\ Slice(f, at, n)[k] = f[at + k]
        <3>1. IsSeq(f) /\ at \in Nat /\ n \in Nat
            BY <1>1, <1>6
        <3> HIDE DEF Damaged
        <3> QED BY <3>1, SliceSeq
    <2> QED BY <1>10, <2>1, <2>2
<1>12. \A k \in 1 .. Len(v) : v[k] = b[k] \/ v[k] = Nul
    <2> TAKE k \in 1 .. Len(v)
    <2>1. at + k \in 1 .. Len(f) /\ k \in 1 .. Len(b)
        BY <1>5, <1>6, <1>11
    <2>2. f[at + k] = g[at + k] \/ f[at + k] = Nul
        BY <2>1 DEF Damaged
    <2> QED BY <1>6, <1>11, <2>1, <2>2
<1>13. Len(v) # 0
    <2>1. ~ (Len(f) <= at) /\ Len(b) > 0
        BY <1>1, <1>2, <1>5, <1>6
    <2> QED BY <1>1, <1>6, <1>11, <2>1 DEF SliceLen
<1>14. v[1] = b[1] /\ v # << >>
    <2>1. 1 \in 1 .. Len(v) BY <1>11, <1>13
    <2> QED BY <1>7, <1>11, <1>13, <2>1, LenNat
<1>15. Damaged(v, b) BY <1>5, <1>11, <1>12 DEF Damaged
<1> QED BY <1>4, <1>8, <1>9, <1>14, <1>15

\* The key in a struct is the one that is asked for.
LEMMA KeyHolds ==
    ASSUME NEW a, Args(a), NEW ds, IsSeq(ds), NEW minor,
           NEW h, h = HeadOf(a, ds, minor), NEW b, b = Struct(a, ds, minor),
           NEW v, IsSeq(v), a.alg # "NONE" => v = b,
           NEW key \in DOMAIN KeySize, PublicKey(h, v) = KeyCells(key)
    PROVE  a.alg # "NONE" /\ a.key = key
<1>1. /\ h.auth \in Nat /\ h.key_offset = Len(EncodeAll(ds)) /\ h.key_size = Alg(a).key
      /\ Len(EncodeAll(ds)) \in Nat
    BY HeadIs, AuxIs
<1>2. PICK at \in Nat : at = 1 + h.auth + h.key_offset /\ at = (1 + h.auth) + Len(EncodeAll(ds))
    BY <1>1
<1>3. Slice(v, at, Alg(a).key) = KeyCells(key)
    BY <1>1, <1>2 DEF PublicKey
<1>4. /\ IsSeq(KeyCells(key)) /\ KeySize[key] \in Nat \ {0} /\ Len(KeyCells(key)) = KeySize[key]
      /\ \A i \in 1 .. KeySize[key] : KeyCells(key)[i] = KeyCell(key, i)
    BY KeyCellsIs
<1>5. Alg(a).key \in Nat BY AlgIs
<1>6. a.alg # "NONE"
    <2> SUFFICES ASSUME a.alg = "NONE" PROVE FALSE OBVIOUS
    <2>1. Alg(a).key = 0 BY AlgIs
    <2>2. Len(Slice(v, at, 0)) = SliceLen(v, at, 0) /\ SliceLen(v, at, 0) \in Nat /\ SliceLen(v, at, 0) <= 0
        BY SliceSeq
    <2> QED BY <1>3, <1>4, <2>1, <2>2
<1>7. a.key \in DOMAIN KeySize /\ KeySize[a.key] = Alg(a).key /\ Alg(a).key > 0
    BY <1>6, AlgIs
<1>8. PICK x : x = AuxBlock(a, ds) OBVIOUS
<1>9. IsSeq(x) /\ Placed(x, Len(EncodeAll(ds)), KeyPart(a)) /\ IsSeq(KeyPart(a)) /\ Len(KeyPart(a)) = Alg(a).key
    BY <1>8, AuxIs
<1>10. IsSeq(b) /\ Placed(b, 1 + h.auth, x)
    BY <1>8, StructIs
<1>11. Placed(b, at, KeyPart(a))
    <2>1. 1 + h.auth \in Nat BY <1>1
    <2>2. Placed(b, (1 + h.auth) + Len(EncodeAll(ds)), KeyPart(a))
        BY <1>1, <1>9, <1>10, <2>1, PlacedIn
    <2> QED BY <1>2, <2>2
<1>12. KeyPart(a) = KeyCells(a.key) BY <1>7 DEF KeyPart
<1>13. Slice(b, at, Alg(a).key) = KeyCells(a.key)
    <2>1. Slice(b, at, Len(KeyPart(a))) = KeyPart(a)
        BY <1>9, <1>10, <1>11, SlicePlaced
    <2> QED BY <1>9, <1>12, <2>1
<1>14. KeyCells(a.key) = KeyCells(key)
    BY <1>3, <1>6, <1>13
<1>15. KeyCells(a.key)[1] = KeyCell(a.key, 1) /\ KeyCells(key)[1] = KeyCell(key, 1)
    <2>1. \A i \in 1 .. KeySize[a.key] : KeyCells(a.key)[i] = KeyCell(a.key, i)
        BY <1>7, KeyCellsIs
    <2> QED BY <1>4, <1>5, <1>7, <2>1
<1>16. KeyCell(a.key, 1).key = a.key /\ KeyCell(key, 1).key = key
    BY DEF KeyCell
<1> QED BY <1>6, <1>14, <1>15, <1>16, Zenon

\* What a copy that passes the checks shows of the image it is a copy of.
LEMMA CheckedSound ==
    ASSUME NEW p, NEW g, NEW m, Left(p, g, m), NEW f, Damaged(f, g),
           NEW key \in DOMAIN KeySize \cup {None}, Checked(f, key)
    PROVE  /\ m.blob # << >>
           /\ key # None => m.alg # "NONE" /\ m.key = key
           /\ m.alg # "NONE" => VbmetaBlob(f) = m.blob /\ ParseImage(f) = Ds(m)
<1>1. IsHeader(f) /\ verify_vbmeta_signature(HeaderOf(f), VbmetaBlob(f)) /\ KeyAgrees(f, key)
    BY DEF Checked, Parses
<1>2. m.blob # << >> BY <1>1, BareRefused
<1>3. Sound(m) /\ IsSeq(g) BY <1>2 DEF Left
<1>4. PICK at : Spot(g, m, at) BY <1>2, SpotIs
<1>5. PICK a, minor : Args(a) /\ m.blob = Struct(a, Ds(m), minor)
                      /\ m.alg = a.alg /\ m.key = IF a.alg = "NONE" THEN None ELSE a.key
    BY <1>3 DEF Sound
<1>6. IsSeq(Ds(m)) BY <1>3 DEF Sound, Knows
<1>7. PICK h : h = HeadOf(a, Ds(m), minor) OBVIOUS
<1>8. PICK v : v = VbmetaBlob(f) OBVIOUS
<1>9. HeaderOf(f) = h /\ Damaged(v, m.blob) /\ v # << >> /\ v[1] = m.blob[1]
    BY <1>1, <1>2, <1>3, <1>4, <1>5, <1>7, <1>8, CopyStruct
<1>10. verify_vbmeta_signature(h, v) BY <1>1, <1>8, <1>9
<1>11. a.alg # "NONE" => v = m.blob
    <2> SUFFICES ASSUME a.alg # "NONE" PROVE v = m.blob OBVIOUS
    <2>1. PICK b : b = Struct(a, Ds(m), minor) OBVIOUS
    <2>2. Damaged(v, b) /\ v[1] = b[1] /\ v # << >>
        BY <1>5, <1>9, <2>1
    <2>3. v = b
        BY <1>5, <1>6, <1>7, <1>10, <2>1, <2>2, SignatureHolds
    <2> QED BY <1>5, <2>1, <2>3
<1>12. key # None => a.alg # "NONE" /\ a.key = key
    <2> SUFFICES ASSUME key # None PROVE a.alg # "NONE" /\ a.key = key OBVIOUS
    <2>1. PublicKey(h, v) = KeyCells(key) /\ key \in DOMAIN KeySize
        BY <1>1, <1>8, <1>9 DEF KeyAgrees
    <2>2. PICK b : b = Struct(a, Ds(m), minor) OBVIOUS
    <2>3. IsSeq(v) /\ (a.alg # "NONE" => v = b)
        BY <1>5, <1>9, <1>11, <2>2 DEF Damaged
    <2> QED BY <1>5, <1>6, <1>7, <2>1, <2>2, <2>3, KeyHolds
<1>13. a.alg # "NONE" => ParseImage(f) = Ds(m)
    <2> SUFFICES ASSUME a.alg # "NONE" PROVE ParseImage(f) = Ds(m) OBVIOUS
    <2>1. IsSeq(f) /\ VbmetaOffset(f) = at /\ at \in Nat
        BY <1>1, <1>4, CopyHeader DEF Damaged, Spot
    <2>2. VbmetaBlob(f) = m.blob BY <1>8, <1>11
    <2>3. Placed(f, at, m.blob)
        <3>1. PICK b : b = m.blob OBVIOUS
        <3>2. IsSeq(b) /\ Len(b) \in Nat /\ Len(b) = 1 + h.auth + h.aux
            <4>1. b = Struct(a, Ds(m), minor)
                BY <1>5, <3>1
            <4> QED BY <1>5, <1>6, <1>7, <4>1, StructIs
        <3>3. b = Slice(f, at, Len(b))
            BY <1>9, <2>1, <2>2, <3>1, <3>2 DEF VbmetaBlob
        <3>4. /\ Len(Slice(f, at, Len(b))) = SliceLen(f, at, Len(b)) /\ Len(f) \in Nat
              /\ \A k \in 1 .. SliceLen(f, at, Len(b)) : at + k <= Len(f) /\ Slice(f, at, Len(b))[k] = f[at + k]
            BY <2>1, <3>2, SliceSeq
        <3>5. SliceLen(f, at, Len(b)) = Len(b)
            BY <3>3, <3>4
        <3>6. Len(b) # 0 BY <1>2, <3>1, <3>2, LenNat
        <3>7. at + Len(b) <= Len(f)
            <4>1. Len(b) \in 1 .. Len(b) BY <3>2, <3>6
            <4> QED BY <3>4, <3>5, <4>1
        <3>8. \A k \in 1 .. Len(b) : f[at + k] = b[k]
            BY <3>3, <3>4, <3>5
        <3> QED BY <3>1, <3>7, <3>8 DEF Placed
    <2>4. Placed(f, at, Struct(a, Ds(m), minor))
        BY <1>5, <2>3
    <2> QED BY <1>5, <1>6, <2>1, <2>4, StructFound
<1> QED BY <1>2, <1>5, <1>8, <1>11, <1>12, <1>13

--------------------------------------------------
(* What a command makes. *)

\* The largest of some numbers.
LEMMA Greatest ==
    ASSUME NEW n \in Nat, NEW T \in SUBSET (1 .. n), T # {}
    PROVE  \E k \in T : \A j \in T : j <= k
<1>1. PICK U : U = {i \in Nat : n - i \in T} OBVIOUS
<1>2. U # {} /\ U \in SUBSET Nat
    <2>1. PICK k \in T : TRUE OBVIOUS
    <2>2. k \in 1 .. n /\ n - k \in Nat /\ n - (n - k) = k
        BY <2>1
    <2> QED BY <1>1, <2>1, <2>2
<1>3. PICK i \in U : \A j \in U : i <= j BY <1>2, Least
<1>4. i \in Nat /\ n - i \in T BY <1>1, <1>3
<1>5. \A j \in T : j <= n - i
    <2> TAKE j \in T
    <2>1. j \in 1 .. n /\ n - j \in Nat /\ n - (n - j) = j OBVIOUS
    <2>2. n - j \in U BY <1>1, <2>1
    <2>3. i <= n - j BY <1>3, <2>2
    <2> QED BY <1>4, <2>1, <2>3
<1> QED BY <1>4, <1>5

\* A struct is found at the start of itself.
LEMMA StructParses ==
    ASSUME NEW a, Args(a), NEW ds, IsSeq(ds), NEW minor
    PROVE  ParseImage(Struct(a, ds, minor)) = ds /\ Struct(a, ds, minor) # << >>
<1>1. PICK b : b = Struct(a, ds, minor) OBVIOUS
<1>2. PICK h : h = HeadOf(a, ds, minor) OBVIOUS
<1>3. IsSeq(b) /\ b # << >> /\ Len(b) \in Nat /\ Len(b) \in 1 .. Len(b) /\ b[1] = HeadCell(a, ds, minor)
    BY <1>1, <1>2, StructIs, LenNat
<1>4. b[Len(b)].kind # "footer"
    <2>1. CASE Len(b) = 1 BY <1>3, <2>1 DEF HeadCell
    <2>2. CASE Len(b) # 1
        <3>1. \A d : DescCell(d).kind = "desc" /\ MoreCell(d).kind = "more"
            BY DEF DescCell, MoreCell
        <3>2. \/ \E k \in 1 .. Len(ds) : b[Len(b)] = DescCell(ds[k]) \/ b[Len(b)] = MoreCell(ds[k])
              \/ b[Len(b)].kind \in {"digest", "sig", "key", "pkmd", "nul"}
            BY <1>1, <1>3, <2>2, StructCells
        <3> QED BY <3>1, <3>2
    <2> QED BY <2>1, <2>2
<1>5. VbmetaOffset(b) = 0
    BY <1>4 DEF VbmetaOffset, HasFooter, Last
<1>6. Placed(b, 0, b) BY <1>3 DEF Placed
<1>7. Placed(b, 0, Struct(a, ds, minor)) BY <1>1, <1>6
<1>8. ParseImage(b) = ds
    BY <1>3, <1>5, <1>7, StructFound
<1> QED BY <1>1, <1>3, <1>8

\* An image that no copy error has met: its struct, if it has one.
LEMMA IntactIs ==
    ASSUME FilesKnown, NEW q \in ToSet(Names), q \notin hurt, Parses(files[q])
    PROVE  /\ made[q].blob # << >> /\ Sound(made[q]) /\ ParseImage(files[q]) = Ds(made[q])
           /\ Enough(Ds(made[q]), HeaderOf(files[q]).minor)
<1>1. PICK g : Left(q, g, made[q]) /\ Damaged(files[q], g) /\ files[q] = g
    BY DEF FilesKnown
<1>2. made[q].blob # << >> BY <1>1, BareRefused
<1> QED BY <1>1, <1>2, LeftFound DEF Left

\* bump_required_libavb_version_minor
LEMMA MinorIs ==
    ASSUME FilesKnown, hurt = {}, NEW a, ArgumentsOK(a), NEW minor \in 0 .. 3,
           \A k \in DOMAIN a.include : Parses(files[a.include[k]]),
           NEW r, r = Minor(a, minor, files)
    PROVE  /\ r \in 0 .. 3 /\ minor <= r
           /\ \A k \in DOMAIN a.include : HeaderOf(files[a.include[k]]).minor <= r
<1>1. PICK S : S = {minor} \cup { HeaderOf(files[a.include[k]]).minor : k \in DOMAIN a.include }
    OBVIOUS
<1>2. \A k \in DOMAIN a.include : HeaderOf(files[a.include[k]]).minor \in 0 .. 3
    <2> TAKE k \in DOMAIN a.include
    <2>1. a.include[k] \in ToSet(Names)
        BY DEF ArgumentsOK
    <2> QED BY <2>1, IntactIs DEF Enough
<1>3. S \subseteq 0 .. 3 /\ minor \in S BY <1>1, <1>2
<1>4. \E x \in S : \A y \in S : x >= y
    <2>1. CASE 3 \in S BY <1>3, <2>1
    <2>2. CASE 3 \notin S /\ 2 \in S BY <1>3, <2>2
    <2>3. CASE 3 \notin S /\ 2 \notin S /\ 1 \in S
        BY <1>3, <2>3
    <2>4. CASE 3 \notin S /\ 2 \notin S /\ 1 \notin S
        BY <1>3, <2>4
    <2> QED BY <2>1, <2>2, <2>3, <2>4
<1>5. r = Max(S) BY <1>1 DEF Minor
<1>6. r \in S /\ \A y \in S : r >= y
    BY <1>4, <1>5 DEF Max
<1> QED BY <1>1, <1>3, <1>6

\* A sequence of two.
LEMMA TwoSeq == ASSUME NEW u, NEW v PROVE IsSeq(<<u, v>>) /\ \A x : Has(<<u, v>>, x) => x = u \/ x = v
<1>1. PICK w : w = <<u, v>> OBVIOUS
<1>2. w \in Seq({u, v}) /\ Len(w) = 2 /\ w[1] = u /\ w[2] = v
    BY <1>1
<1>3. \A k \in 1 .. Len(w) : k = 1 \/ k = 2 BY <1>2
<1>4. \A x : Has(w, x) => x = u \/ x = v
    BY <1>2, <1>3, Zenon DEF Has
<1> QED BY <1>1, <1>2, <1>4 DEF IsSeq

Loose(s) == IsSeq(s) /\ \A d : Has(s, d) => d.type \in {"property", "cmdline"}

\* The kernel command lines for dm-verity name no partition.
LEMMA CmdlinesLoose == \A ht : Loose(DmVerityCmdlines(ht))
<1> TAKE ht
<1>1. PICK u : u = Cmdline("hashtree", [root |-> ht.root_digest, blocks |-> ht.image_size \div PerBlock,
                            once |-> "once" \in ht.flags])
    OBVIOUS
<1>2. PICK v : v = Cmdline("no hashtree", [root |-> "partition"]) OBVIOUS
<1>3. DmVerityCmdlines(ht) = <<u, v>>
    BY <1>1, <1>2 DEF DmVerityCmdlines
<1>4. u.type = "cmdline" /\ v.type = "cmdline"
    BY <1>1, <1>2 DEF Cmdline
<1> QED BY <1>3, <1>4, TwoSeq DEF Loose

\* Properties and kernel command lines of a command name no partition.
LEMMA LooseParts ==
    ASSUME NEW a, ArgumentsOK(a), NEW hts, IsSeq(hts), NEW fs
    PROVE  /\ Loose([k \in DOMAIN a.props |-> Property(a.props[k])])
           /\ Loose(IF a.rootfs = None THEN << >> ELSE RootfsCmdlines(fs[a.rootfs]))
           /\ Loose(FlattenSeq([k \in DOMAIN hts |-> DmVerityCmdlines(hts[k])]))
           /\ Loose([k \in DOMAIN a.cmdlines |-> Cmdline("always", a.cmdlines[k])])
<1>1. IsSeq(a.props) /\ IsSeq(a.cmdlines)
    BY DEF ArgumentsOK, IsSeq
<1>2. Loose([k \in DOMAIN a.props |-> Property(a.props[k])])
    <2>1. PICK n \in Nat : n = Len(a.props) /\ DOMAIN a.props = 1 .. n
        BY <1>1, LenNat, SeqDomain
    <2>2. PICK w : w = [k \in 1 .. n |-> Property(a.props[k])] OBVIOUS
    <2>3. IsSeq(w) /\ Len(w) = n
        <3>1. w = [k \in 1 .. n |-> w[k]] BY <2>2
        <3> QED BY <3>1, MapSeq
    <2>4. \A k \in 1 .. Len(w) : w[k].type = "property"
        BY <2>2, <2>3 DEF Property
    <2> QED BY <2>1, <2>2, <2>3, <2>4 DEF Loose, Has
<1>3. Loose([k \in DOMAIN a.cmdlines |-> Cmdline("always", a.cmdlines[k])])
    <2>1. PICK n \in Nat : n = Len(a.cmdlines) /\ DOMAIN a.cmdlines = 1 .. n
        BY <1>1, LenNat, SeqDomain
    <2>2. PICK w : w = [k \in 1 .. n |-> Cmdline("always", a.cmdlines[k])] OBVIOUS
    <2>3. IsSeq(w) /\ Len(w) = n
        <3>1. w = [k \in 1 .. n |-> w[k]] BY <2>2
        <3> QED BY <3>1, MapSeq
    <2>4. \A k \in 1 .. Len(w) : w[k].type = "cmdline"
        BY <2>2, <2>3 DEF Cmdline
    <2> QED BY <2>1, <2>2, <2>3, <2>4 DEF Loose, Has
<1>4. Loose(FlattenSeq([k \in DOMAIN hts |-> DmVerityCmdlines(hts[k])]))
    <2>1. PICK n \in Nat : n = Len(hts) /\ DOMAIN hts = 1 .. n
        BY LenNat, SeqDomain
    <2>2. PICK w : w = [k \in 1 .. n |-> DmVerityCmdlines(hts[k])] OBVIOUS
    <2>3. w = [k \in 1 .. n |-> w[k]] /\ \A k \in 1 .. n : w[k] = DmVerityCmdlines(hts[k])
        BY <2>2
    <2>4. \A k \in 1 .. n : IsSeq(w[k]) /\ \A d : Has(w[k], d) => d.type \in {"property", "cmdline"}
        BY <2>3, CmdlinesLoose DEF Loose
    <2>5. IsSeqs(w) /\ Len(w) = n BY <2>3, <2>4, MapSeqs
    <2>6. Loose(FlattenSeq(w))
        BY <2>4, <2>5, FlattenHas DEF Loose
    <2> QED BY <2>1, <2>2, <2>6
<1>5. Loose(IF a.rootfs = None THEN << >> ELSE RootfsCmdlines(fs[a.rootfs]))
    <2>1. Loose(<< >>) BY NilIs DEF Loose, NilSeq
    <2>2. Loose(RootfsCmdlines(fs[a.rootfs]))
        BY CmdlinesLoose DEF RootfsCmdlines
    <2> QED BY <2>1, <2>2
<1> QED BY <1>2, <1>3, <1>4, <1>5

NoAb(c) == IF c.ab THEN {} ELSE {"no ab"}

\* A chain with A/B has no flag.
LEMMA NoAbIs == \A c : c.ab = TRUE => NoAb(c) = {}
BY Zenon DEF NoAb

\* What the constructor of a chain descriptor keeps.
LEMMA ChainOf == \A n, l, k, f : /\ Chain(n, l, k, f).type = "chain" /\ Chain(n, l, k, f).name = n
                                 /\ Chain(n, l, k, f).flags = f /\ Chain(n, l, k, f).location = l
                                 /\ Chain(n, l, k, f).public_key = KeyCells(k)
BY DEF Chain

\* The chain descriptors of a command line, one for each chain.
LEMMA ChainsIs ==
    ASSUME NEW a, ArgumentsOK(a)
    PROVE  /\ IsSeq(Chains(a)) /\ Len(a.chains) \in Nat
           /\ \A d : Has(Chains(a), d) <=> \E k \in 1 .. Len(a.chains) : d = Chains(a)[k]
           /\ \A k \in 1 .. Len(a.chains) :
                /\ Chains(a)[k].type = "chain" /\ Chains(a)[k].name = a.chains[k].name
                /\ a.chains[k] \in ToSet(a.chains)
                /\ Chains(a)[k].flags = NoAb(a.chains[k]) /\ Links(Chains(a)[k], a.chains[k])
           /\ \A c \in ToSet(a.chains) : \E k \in 1 .. Len(a.chains) : c = a.chains[k]
<1>1. IsSeq(a.chains) BY DEF ArgumentsOK, IsSeq
<1>2. PICK n \in Nat : n = Len(a.chains) /\ DOMAIN a.chains = 1 .. n
    BY <1>1, LenNat, SeqDomain
<1>3. Chains(a) = [k \in 1 .. n |-> Chain(a.chains[k].name, a.chains[k].location, a.chains[k].key, NoAb(a.chains[k]))]
    <2>1. DOMAIN a.chains = 1 .. n BY <1>2
    <2> QED BY <2>1, Zenon DEF Chains, NoAb
<1>4. PICK w : w = Chains(a) OBVIOUS
<1>5. w = [k \in 1 .. n |-> w[k]] BY <1>3, <1>4
<1>6. IsSeq(w) /\ Len(w) = n BY <1>5, MapSeq
<1>7. \A k \in 1 .. n : w[k].type = "chain" /\ w[k].name = a.chains[k].name /\ w[k].flags = NoAb(a.chains[k])
    <2>1. \A k \in 1 .. n : w[k] = Chain(a.chains[k].name, a.chains[k].location, a.chains[k].key, NoAb(a.chains[k]))
        BY <1>3, <1>4
    <2> QED BY <2>1, ChainOf
<1>8. /\ \A k \in 1 .. n : a.chains[k] \in ToSet(a.chains)
      /\ \A c \in ToSet(a.chains) : \E k \in 1 .. n : c = a.chains[k]
    BY <1>2 DEF ToSet
<1>9. \A d : Has(w, d) <=> \E k \in 1 .. n : d = w[k]
    BY <1>6 DEF Has
<1>10. \A k \in 1 .. n : Links(w[k], a.chains[k])
    <2>1. \A k \in 1 .. n : w[k] = Chain(a.chains[k].name, a.chains[k].location, a.chains[k].key, NoAb(a.chains[k]))
        BY <1>3, <1>4
    <2> QED BY <2>1, ChainOf DEF Links
<1> QED BY <1>2, <1>4, <1>6, <1>7, <1>8, <1>9, <1>10

\* Descriptors that name no partition, behind others.
LEMMA CatLoose ==
    ASSUME NEW s, IsSeq(s), NEW t, Loose(t)
    PROVE  IsSeq(s \o t) /\ \A d : /\ Has(s, d) => Has(s \o t, d)
                                   /\ Has(s \o t, d) => Has(s, d) \/ d.type \in {"property", "cmdline"}
BY CatSeq, CatHas DEF Loose

\* Where a descriptor of a struct comes from.
LEMMA DescriptorsIs ==
    ASSUME NEW a, ArgumentsOK(a), NEW own, IsSeq(own), NEW hts, IsSeq(hts), NEW fs,
           IsSeq(Included(fs, a.include)), NEW ds, ds = Descriptors(a, own, hts, fs)
    PROVE  /\ IsSeq(ds)
           /\ \A d : Has(ds, d) => \/ Has(own, d) \/ Has(Chains(a), d) \/ Has(Included(fs, a.include), d)
                                   \/ d.type \in {"property", "cmdline"}
           /\ \A d : Has(own, d) \/ Has(Chains(a), d) \/ Has(Included(fs, a.include), d) => Has(ds, d)
<1>1. PICK c : c = Chains(a) OBVIOUS
<1>2. PICK x : x = [k \in DOMAIN a.props |-> Property(a.props[k])] OBVIOUS
<1>3. PICK y : y = IF a.rootfs = None THEN << >> ELSE RootfsCmdlines(fs[a.rootfs]) OBVIOUS
<1>4. PICK z : z = FlattenSeq([k \in DOMAIN hts |-> DmVerityCmdlines(hts[k])]) OBVIOUS
<1>5. PICK u : u = [k \in DOMAIN a.cmdlines |-> Cmdline("always", a.cmdlines[k])] OBVIOUS
<1>6. PICK i : i = Included(fs, a.include) OBVIOUS
<1>7. IsSeq(c) /\ Loose(x) /\ Loose(y) /\ Loose(z) /\ Loose(u) /\ IsSeq(i)
    BY <1>1, <1>2, <1>3, <1>4, <1>5, <1>6, ChainsIs, LooseParts
<1>8. ds = (((((own \o c) \o x) \o y) \o z) \o u) \o i
    BY <1>1, <1>2, <1>3, <1>4, <1>5, <1>6 DEF Descriptors
<1>9. PICK p1 : p1 = own \o c OBVIOUS
<1>10. IsSeq(p1) /\ \A d : Has(p1, d) <=> Has(own, d) \/ Has(c, d)
    BY <1>7, <1>9, CatSeq, CatHas
<1>11. PICK p2 : p2 = p1 \o x OBVIOUS
<1>12. IsSeq(p2) /\ \A d : /\ Has(p1, d) => Has(p2, d)
                           /\ Has(p2, d) => Has(p1, d) \/ d.type \in {"property", "cmdline"}
    BY <1>7, <1>10, <1>11, CatLoose
<1>13. PICK p3 : p3 = p2 \o y OBVIOUS
<1>14. IsSeq(p3) /\ \A d : /\ Has(p2, d) => Has(p3, d)
                           /\ Has(p3, d) => Has(p2, d) \/ d.type \in {"property", "cmdline"}
    BY <1>7, <1>12, <1>13, CatLoose
<1>15. PICK p4 : p4 = p3 \o z OBVIOUS
<1>16. IsSeq(p4) /\ \A d : /\ Has(p3, d) => Has(p4, d)
                           /\ Has(p4, d) => Has(p3, d) \/ d.type \in {"property", "cmdline"}
    BY <1>7, <1>14, <1>15, CatLoose
<1>17. PICK p5 : p5 = p4 \o u OBVIOUS
<1>18. IsSeq(p5) /\ \A d : /\ Has(p4, d) => Has(p5, d)
                           /\ Has(p5, d) => Has(p4, d) \/ d.type \in {"property", "cmdline"}
    BY <1>7, <1>16, <1>17, CatLoose
<1>19. ds = p5 \o i
    BY <1>8, <1>9, <1>11, <1>13, <1>15, <1>17
<1>20. IsSeq(ds) /\ \A d : Has(ds, d) <=> Has(p5, d) \/ Has(i, d)
    BY <1>7, <1>18, <1>19, CatSeq, CatHas
<1>21. \A d : Has(ds, d) => \/ Has(own, d) \/ Has(c, d) \/ Has(i, d) \/ d.type \in {"property", "cmdline"}
    BY <1>10, <1>12, <1>14, <1>16, <1>18, <1>20
<1>22. \A d : Has(own, d) \/ Has(c, d) \/ Has(i, d) => Has(ds, d)
    BY <1>10, <1>12, <1>14, <1>16, <1>18, <1>20
<1> QED BY <1>1, <1>6, <1>20, <1>21, <1>22

\* What a command line and the descriptor of the command itself require.
Requires(a, minor) ==
    minor \in 0 .. 3 /\ \A k \in 1 .. Len(a.chains) : a.chains[k].ab = TRUE \/ minor = 3

\* The descriptors a footer has, and what it covers.
Owns(p, own, covers, minor) ==
    \E d, c : /\ own = <<d>> /\ covers = {c} /\ Describes(d, c) /\ c.name = p /\ Needs(d) <= minor
              /\ d.type \in {"hash", "hashtree"}

\* What a descriptor can need.
LEMMA NeedsLittle == \A d : /\ d.type \in {"property", "cmdline"} => Needs(d) = 0
                            /\ d.type = "chain" => Needs(d) = IF d.flags # {} THEN 3 ELSE 0
                            /\ Needs(d) \in 0 .. 3
BY DEF Needs

\* The descriptors of a footer say what it covers.
LEMMA FooterKnows ==
    ASSUME NEW a, ArgumentsOK(a), a.include = << >>, NEW p \in ToSet(Names), p \in DOMAIN Sizes, NEW own, NEW covers, NEW minor,
           Requires(a, minor), Owns(p, own, covers, minor), NEW hts, IsSeq(hts),
           NEW ds, ds = Descriptors(a, own, hts, files)
    PROVE  /\ Knows(ds, Covers(a, covers), Made(a, covers, << >>).chains) /\ Enough(ds, minor)
           /\ \A d : Has(ds, d) /\ d.type \in {"hash", "hashtree"} => Has(own, d)
<1>1. PICK d0, c0 : /\ own = <<d0>> /\ covers = {c0} /\ Describes(d0, c0) /\ c0.name = p /\ Needs(d0) <= minor
                    /\ d0.type \in {"hash", "hashtree"}
    BY DEF Owns
<1>2. IsSeq(own) /\ \A d : Has(own, d) <=> d = d0
    BY <1>1, OneSeq
<1>3. PICK im : im = a.include OBVIOUS
<1>4. IsSeq(im) /\ Len(im) = 0 /\ im = << >> /\ DOMAIN im = {}
    BY <1>3, NilIs DEF NilSeq
<1>5. IsSeq(Included(files, im)) /\ \A d : ~ Has(Included(files, im), d)
    <2>1. PICK P : P = Parsed(files, im) OBVIOUS
    <2>2. PICK m : m = Len(im) /\ m = 0 BY <1>4
    <2>3. (\A i \in 1 .. m : IsSeq(P[i])) /\ \A i \in 1 .. m : FALSE
        BY <2>2
    <2>4. /\ IsSeq(Included(files, im))
          /\ \A d : Has(Included(files, im), d) => \E i \in 1 .. m : Has(P[i], d)
        BY <1>4, <2>1, <2>2, <2>3, IncludedHas, IncludedFrom
    <2> QED BY <2>3, <2>4
<1>6. /\ IsSeq(ds)
      /\ \A d : Has(ds, d) => d = d0 \/ Has(Chains(a), d) \/ d.type \in {"property", "cmdline"}
      /\ Has(ds, d0) /\ \A d : Has(Chains(a), d) => Has(ds, d)
    BY <1>2, <1>3, <1>5, DescriptorsIs
<1>7. Covers(a, covers) = {c0}
    <2>1. Covers(a, covers) = covers
        BY <1>3, <1>4 DEF Covers
    <2> QED BY <1>1, <2>1
<1>8. Made(a, covers, << >>).chains = ToSet(a.chains)
    BY <1>3, <1>4 DEF Made
<1>9. \A d : Has(Chains(a), d) => /\ d.type = "chain" /\ d.name \in ToSet(Names) /\ Needs(d) <= minor
                                  /\ \E c \in ToSet(a.chains) : Links(d, c)
    <2> TAKE d
    <2> HAVE Has(Chains(a), d)
    <2>1. PICK k \in 1 .. Len(a.chains) : d = Chains(a)[k]
        BY ChainsIs
    <2>2. /\ d.type = "chain" /\ d.name = a.chains[k].name /\ a.chains[k] \in ToSet(a.chains)
          /\ d.flags = NoAb(a.chains[k]) /\ Links(d, a.chains[k])
        BY <2>1, ChainsIs
    <2>3. d.name \in ToSet(Names)
        BY <2>2 DEF ArgumentsOK
    <2>4. Needs(d) <= minor
        <3>1. CASE a.chains[k].ab = TRUE
            BY <2>2, <3>1, NoAbIs, NeedsLittle DEF Requires
        <3>2. CASE minor = 3 BY <3>2, NeedsLittle
        <3> QED BY <3>1, <3>2 DEF Requires
    <2> QED BY <2>2, <2>3, <2>4
<1>10. \A c \in ToSet(a.chains) : c.name \in ToSet(Names) /\ \E d : Has(ds, d) /\ d.type = "chain" /\ d.name = c.name
    <2> TAKE c \in ToSet(a.chains)
    <2>1. PICK k \in 1 .. Len(a.chains) : c = a.chains[k]
        BY ChainsIs
    <2>2. PICK d : d = Chains(a)[k] OBVIOUS
    <2>3. Has(Chains(a), d) /\ d.type = "chain" /\ d.name = c.name
        BY <2>1, <2>2, ChainsIs
    <2> QED BY <1>6, <2>3 DEF ArgumentsOK
<1>11. d0.name = p /\ d0.image_size \in Nat
    BY <1>1, LenNat DEF Describes
<1>12. Knows(ds, {c0}, ToSet(a.chains))
    <2>1. \A c \in {c0} : /\ c.name \in ToSet(Names) /\ c.name \in DOMAIN Sizes
                          /\ \E d : Has(ds, d) /\ Describes(d, c)
        BY <1>1, <1>6
    <2>2. \A d : Has(ds, d) =>
         /\ d.type \in {"property", "cmdline", "hash", "hashtree", "chain"}
         /\ d.type \in NamedTypes => d.name \in ToSet(Names)
         /\ d.type \in {"hash", "hashtree"} => d.image_size \in Nat /\ \E c \in {c0} : Describes(d, c)
         /\ d.type = "chain" => \E c \in ToSet(a.chains) : Links(d, c)
        BY <1>1, <1>6, <1>9, <1>11 DEF NamedTypes
    <2>3. \A d, e : Has(ds, d) /\ Has(ds, e) /\ d.type = e.type /\ d.type \in {"hash", "hashtree"} /\ d.name = e.name
                    => d = e
        BY <1>6, <1>9
    <2> QED BY <1>6, <1>10, <2>1, <2>2, <2>3 DEF Knows
<1>13. Enough(ds, minor)
    BY <1>1, <1>6, <1>9, NeedsLittle DEF Enough, Requires
<1>14. \A d : Has(ds, d) /\ d.type \in {"hash", "hashtree"} => Has(own, d)
    BY <1>2, <1>6, <1>9
<1> QED BY <1>7, <1>8, <1>12, <1>13, <1>14

\* The images that an image takes descriptors from.
LEMMA IncludedSound ==
    ASSUME FilesKnown, hurt = {}, NEW a, ArgumentsOK(a),
           \A k \in DOMAIN a.include : Parses(files[a.include[k]]),
           NEW m, m = Len(a.include), NEW P, P = Parsed(files, a.include)
    PROVE  /\ IsSeq(a.include) /\ m \in Nat /\ DOMAIN a.include = 1 .. m
           /\ \A i \in 1 .. m :
                /\ a.include[i] \in ToSet(Names) /\ P[i] = ParseImage(files[a.include[i]])
                /\ Knows(P[i], made[a.include[i]].covers, made[a.include[i]].chains)
                /\ Enough(P[i], HeaderOf(files[a.include[i]]).minor)
                /\ IsSeq(P[i])
<1>1. IsSeq(a.include) BY DEF ArgumentsOK, IsSeq
<1>2. m \in Nat /\ DOMAIN a.include = 1 .. m
    BY <1>1, LenNat, SeqDomain
<1>3. \A i \in 1 .. m : P[i] = ParseImage(files[a.include[i]])
    BY <1>2 DEF Parsed
<1>4. \A i \in 1 .. m : a.include[i] \in ToSet(Names)
    BY <1>2 DEF ArgumentsOK
<1>5. ASSUME NEW i \in 1 .. m
      PROVE  /\ Knows(P[i], made[a.include[i]].covers, made[a.include[i]].chains)
             /\ Enough(P[i], HeaderOf(files[a.include[i]]).minor)
    <2>1. PICK q : q = a.include[i] OBVIOUS
    <2>2. q \in ToSet(Names) /\ q \notin hurt /\ Parses(files[q]) /\ P[i] = ParseImage(files[q])
        BY <1>2, <1>3, <1>4, <2>1
    <2>3. Sound(made[q]) /\ P[i] = Ds(made[q]) /\ Enough(Ds(made[q]), HeaderOf(files[q]).minor)
        BY <2>2, IntactIs
    <2> QED BY <2>1, <2>3 DEF Sound
<1>6. \A i \in 1 .. m : IsSeq(P[i]) BY <1>5 DEF Knows
<1> QED BY <1>1, <1>2, <1>3, <1>4, <1>5, <1>6

\* The covers that are taken over: of each partition and type those of the last image.
LastCover(a, m, c, k) ==
    /\ c \in made[a.include[k]].covers
    /\ \A j \in k + 1 .. m : \A e \in made[a.include[j]].covers : ~ (e.name = c.name /\ e.type = c.type)

\* What make_vbmeta_image covers: each last cover of an included image.
LEMMA CoversIs ==
    ASSUME NEW a, NEW m \in Nat, DOMAIN a.include = 1 .. m, NEW c
    PROVE  c \in Covers(a, {}) <=> \E k \in 1 .. m : LastCover(a, m, c, k)
<1>1. c \in Covers(a, {}) <=>
        \E k \in 1 .. m : /\ c \in made[a.include[k]].covers
                          /\ \A j \in 1 .. m : \A e \in made[a.include[j]].covers :
                                 e.name = c.name /\ e.type = c.type => j <= k
    BY DEF Covers
<1>2. ASSUME NEW k \in 1 .. m
      PROVE  LastCover(a, m, c, k) <=>
                /\ c \in made[a.include[k]].covers
                /\ \A j \in 1 .. m : \A e \in made[a.include[j]].covers :
                       e.name = c.name /\ e.type = c.type => j <= k
    <2>1. \A j \in 1 .. m : j \in k + 1 .. m <=> ~ (j <= k) OBVIOUS
    <2>2. \A j \in k + 1 .. m : j \in 1 .. m OBVIOUS
    <2> QED BY <2>1, <2>2 DEF LastCover
<1> QED BY <1>1, <1>2

\* The descriptors of a vbmeta image say what its command included and chained to.
LEMMA MakeKnows ==
    ASSUME FilesKnown, hurt = {}, NEW a, ArgumentsOK(a),
           \A k \in DOMAIN a.include : Parses(files[a.include[k]]),
           NEW minor, Requires(a, minor), NEW ds, ds = Descriptors(a, << >>, << >>, files),
           NEW chains, chains = Made(a, {}, << >>).chains
    PROVE  Knows(ds, Covers(a, {}), chains) /\ Enough(ds, Minor(a, minor, files))
<1>1. PICK m : m = Len(a.include) OBVIOUS
<1>2. PICK P : P = Parsed(files, a.include) OBVIOUS
<1>3. PICK im : im = a.include OBVIOUS
<1>4. /\ IsSeq(im) /\ m \in Nat /\ DOMAIN im = 1 .. m /\ m = Len(im) /\ P = Parsed(files, im)
      /\ \A i \in 1 .. m :
           /\ im[i] \in ToSet(Names) /\ P[i] = ParseImage(files[im[i]])
           /\ Knows(P[i], made[im[i]].covers, made[im[i]].chains)
           /\ Enough(P[i], HeaderOf(files[im[i]]).minor)
           /\ IsSeq(P[i])
    BY <1>1, <1>2, <1>3, IncludedSound
<1>5. PICK ic : ic = Included(files, im) OBVIOUS
<1>6. /\ IsSeq(ic)
      /\ \A d : Has(ic, d) => /\ \E i \in 1 .. m : Has(P[i], d)
                              /\ d.type \in NamedTypes => d.name \in ToSet(Names) /\ d = Kept(OfName(P, m, d.name, d.type))
    BY <1>4, <1>5, IncludedHas, IncludedFrom
<1>7. /\ IsSeq(ds)
      /\ \A d : Has(ds, d) => Has(Chains(a), d) \/ Has(ic, d) \/ d.type \in {"property", "cmdline"}
      /\ \A d : Has(Chains(a), d) \/ Has(ic, d) => Has(ds, d)
    <2>1. IsSeq(<< >>) /\ \A d : ~ Has(<< >>, d)
        BY NilIs DEF NilSeq
    <2> QED BY <1>3, <1>5, <1>6, <2>1, DescriptorsIs
<1>8. PICK r : r = Minor(a, minor, files) OBVIOUS
<1>9. r \in 0 .. 3 /\ minor <= r /\ \A i \in 1 .. m : HeaderOf(files[im[i]]).minor <= r
    BY <1>3, <1>4, <1>8, MinorIs DEF Requires
<1>10. \A d : Has(Chains(a), d) => /\ d.type = "chain" /\ d.name \in ToSet(Names) /\ Needs(d) <= minor
                                   /\ \E c \in ToSet(a.chains) : Links(d, c)
    <2> TAKE d
    <2> HAVE Has(Chains(a), d)
    <2>1. PICK k \in 1 .. Len(a.chains) : d = Chains(a)[k]
        BY ChainsIs
    <2>2. /\ d.type = "chain" /\ d.name = a.chains[k].name /\ a.chains[k] \in ToSet(a.chains)
          /\ d.flags = NoAb(a.chains[k]) /\ Links(d, a.chains[k])
        BY <2>1, ChainsIs
    <2>3. d.name \in ToSet(Names)
        BY <2>2 DEF ArgumentsOK
    <2>4. Needs(d) <= minor
        <3>1. CASE a.chains[k].ab = TRUE
            BY <2>2, <3>1, NoAbIs, NeedsLittle DEF Requires
        <3>2. CASE minor = 3 BY <3>2, NeedsLittle
        <3> QED BY <3>1, <3>2 DEF Requires
    <2> QED BY <2>2, <2>3, <2>4
\* A descriptor of an included image, and what comes of it.
<1>11. ASSUME NEW i \in 1 .. m, NEW d, Has(P[i], d)
       PROVE  /\ d.type \in {"property", "cmdline", "hash", "hashtree", "chain"}
              /\ d.type \in NamedTypes => d.name \in ToSet(Names)
              /\ d.type \in {"hash", "hashtree"} => d.image_size \in Nat /\ \E c \in made[im[i]].covers : Describes(d, c)
              /\ d.type = "chain" => \E c \in made[im[i]].chains : Links(d, c)
              /\ Needs(d) <= r
    <2>1. PICK q : q = HeaderOf(files[im[i]]).minor OBVIOUS
    <2>2. q \in 0 .. 3 /\ Needs(d) <= q /\ q <= r
        BY <1>4, <1>9, <1>11, <2>1 DEF Enough
    <2>3. Needs(d) <= r BY <1>9, <2>2, NeedsLittle
    <2> QED BY <1>4, <1>11, <2>3 DEF Knows
<1>12a. ASSUME NEW c PROVE c \in Covers(a, {}) <=> \E k \in 1 .. m : LastCover(a, m, c, k)
    <2>1. DOMAIN a.include = 1 .. m BY <1>3, <1>4
    <2> QED BY <1>4, <2>1, CoversIs
<1>12. ASSUME NEW c \in Covers(a, {})
       PROVE  c.name \in ToSet(Names) /\ c.name \in DOMAIN Sizes /\ \E d : Has(ds, d) /\ Describes(d, c)
    <2>2. PICK n : n = c.name OBVIOUS
    <2>3. PICK k \in 1 .. m : LastCover(a, m, c, k)
        BY <1>12, <1>12a
    <2>4. /\ c \in made[im[k]].covers
          /\ \A j \in k + 1 .. m : \A e \in made[im[j]].covers : ~ (e.name = c.name /\ e.type = c.type)
        BY <1>3, <2>3 DEF LastCover
    <2>1. c.name \in ToSet(Names) /\ c.name \in DOMAIN Sizes
        BY <1>4, <2>4 DEF Knows
    <2>5. PICK d : Has(P[k], d) /\ Describes(d, c)
        BY <1>4, <2>4 DEF Knows
    <2>6. d.type \in {"hash", "hashtree"} /\ d.name = n /\ d.type \in NamedTypes
        BY <2>2, <2>5 DEF Describes, TypeOf, NamedTypes
    <2>7. \A j \in k + 1 .. m : \A e : ~ (Has(P[j], e) /\ e.type = d.type /\ e.name = n)
        <3> SUFFICES ASSUME NEW j \in k + 1 .. m, NEW e, Has(P[j], e), e.type = d.type, e.name = n PROVE FALSE
            OBVIOUS
        <3>1. j \in 1 .. m BY <1>4
        <3>2. PICK x \in made[im[j]].covers : Describes(e, x)
            BY <1>11, <2>6, <3>1
        <3>3. x.name = c.name /\ x.type = c.type
            BY <2>2, <2>5, <3>2 DEF Describes, TypeOf
        <3> QED BY <2>4, <3>2, <3>3
    <2>8. \E e : Has(P[k], e) /\ e.type = d.type /\ e.name = n
        BY <2>5, <2>6
    <2>9. PICK t \in NamedTypes : t = d.type BY <2>6
    <2>10. PICK e : Has(P[k], e) /\ e.type = t /\ e.name = n /\ Has(ic, e)
        <3>1. n \in ToSet(Names) BY <2>1, <2>2
        <3>2. \A x \in 1 .. m : IsSeq(P[x]) BY <1>4
        <3>3. (\E x : Has(P[k], x) /\ x.type = t /\ x.name = n)
              /\ \A j \in k + 1 .. m : \A x : ~ (Has(P[j], x) /\ x.type = t /\ x.name = n)
            BY <2>7, <2>8, <2>9
        <3>4. IsSeq(im) /\ m = Len(im) /\ P = Parsed(files, im)
            BY <1>4
        <3> QED BY <1>5, <3>1, <3>2, <3>3, <3>4, IncludedLast
    <2>11. d = e
        BY <1>4, <2>5, <2>6, <2>9, <2>10 DEF Knows
    <2> QED BY <1>7, <2>1, <2>5, <2>10, <2>11
\* A hash or hashtree descriptor that is taken over, and the cover with it.
<1>13a. ASSUME NEW d, Has(ic, d), d.type \in {"hash", "hashtree"}
        PROVE  \E c \in Covers(a, {}) : Describes(d, c)
    <2>1. PICK n, t : n = d.name /\ t = d.type OBVIOUS
    <2>2. t \in NamedTypes
        BY <1>13a, <2>1 DEF NamedTypes
    <2>3. d = Kept(OfName(P, m, n, t))
        BY <1>6, <1>13a, <2>1, <2>2
    <2>4. PICK T : T = { i \in 1 .. m : \E e : Has(P[i], e) /\ e.type = t /\ e.name = n } OBVIOUS
    <2>5. T \in SUBSET (1 .. m) /\ T # {}
        <3>1. PICK i \in 1 .. m : Has(P[i], d)
            BY <1>6, <1>13a
        <3> QED BY <2>1, <2>4, <3>1
    <2>6. PICK k \in T : \A j \in T : j <= k
        BY <1>4, <2>5, Greatest
    <2>7. k \in 1 .. m /\ \E e : Has(P[k], e) /\ e.type = t /\ e.name = n
        BY <2>4, <2>6
    <2>8. \A j \in k + 1 .. m : \A e : ~ (Has(P[j], e) /\ e.type = t /\ e.name = n)
        <3> SUFFICES ASSUME NEW j \in k + 1 .. m, NEW e, Has(P[j], e), e.type = t, e.name = n PROVE FALSE
            OBVIOUS
        <3>1. j \in 1 .. m /\ ~ (j <= k) BY <1>4, <2>7
        <3>2. j \in T BY <2>4, <3>1
        <3> QED BY <2>6, <3>1, <3>2
    <2>9. Has(P[k], Kept(OfName(P, m, n, t)))
        <3>1. m \in Nat /\ \A x \in 1 .. m : IsSeq(P[x])
            BY <1>4
        <3>2. PICK i \in 1 .. m : i = k BY <2>7
        <3>3. /\ \E e : Has(P[i], e) /\ e.type = t /\ e.name = n
              /\ \A j \in i + 1 .. m : \A e : ~ (Has(P[j], e) /\ e.type = t /\ e.name = n)
            BY <2>7, <2>8, <3>2
        <3>4. Has(P[i], Kept(OfName(P, m, n, t)))
            BY <3>1, <3>3, OfNameLast
        <3> QED BY <3>2, <3>4
    <2>10. PICK c \in made[im[k]].covers : Describes(d, c)
        BY <1>11, <1>13a, <2>3, <2>7, <2>9
    <2>11. \A j \in k + 1 .. m : \A e \in made[im[j]].covers : ~ (e.name = c.name /\ e.type = c.type)
        <3> SUFFICES ASSUME NEW j \in k + 1 .. m, NEW e \in made[im[j]].covers, e.name = c.name, e.type = c.type
                     PROVE  FALSE
            OBVIOUS
        <3>1. j \in 1 .. m BY <1>4, <2>7
        <3>2. PICK x : Has(P[j], x) /\ Describes(x, e)
            BY <1>4, <3>1 DEF Knows
        <3>3. x.type = t /\ x.name = n
            BY <2>1, <2>10, <3>2 DEF Describes, TypeOf
        <3> QED BY <2>8, <3>2, <3>3
    <2>12. LastCover(a, m, c, k)
        BY <1>3, <2>10, <2>11 DEF LastCover
    <2> QED BY <1>12a, <2>7, <2>10, <2>12
<1>13. ASSUME NEW d, Has(ds, d)
       PROVE  /\ d.type \in {"property", "cmdline", "hash", "hashtree", "chain"}
              /\ d.type \in NamedTypes => d.name \in ToSet(Names)
              /\ d.type \in {"hash", "hashtree"} => d.image_size \in Nat /\ \E c \in Covers(a, {}) : Describes(d, c)
              /\ d.type = "chain" => \E c \in chains : Links(d, c)
              /\ Needs(d) <= r
    <2>0. /\ \A c \in ToSet(a.chains) : c \in chains
          /\ \A i \in 1 .. m : \A c \in made[im[i]].chains : c \in chains
        BY <1>3, <1>4 DEF Made
    <2>1. CASE d.type \in {"property", "cmdline"}
        <3>1. Needs(d) <= r BY <1>9, <2>1, NeedsLittle
        <3> QED BY <2>1, <3>1 DEF NamedTypes
    <2>2. CASE Has(Chains(a), d)
        <3>1. /\ d.type = "chain" /\ d.name \in ToSet(Names) /\ Needs(d) <= minor
              /\ \E c \in ToSet(a.chains) : Links(d, c)
            BY <1>10, <2>2
        <3>2. Needs(d) <= r
            BY <1>9, <3>1, NeedsLittle DEF Requires
        <3>3. \E c \in chains : Links(d, c)
            BY <2>0, <3>1
        <3> QED BY <3>1, <3>2, <3>3
    <2>3. CASE Has(ic, d)
        <3>1. PICK i \in 1 .. m : Has(P[i], d)
            BY <1>6, <2>3
        <3>2. /\ d.type \in {"property", "cmdline", "hash", "hashtree", "chain"}
              /\ d.type \in NamedTypes => d.name \in ToSet(Names)
              /\ d.type \in {"hash", "hashtree"} => d.image_size \in Nat
              /\ d.type = "chain" => \E c \in made[im[i]].chains : Links(d, c)
              /\ Needs(d) <= r
            BY <1>11, <3>1
        <3>3. d.type \in {"hash", "hashtree"} => \E c \in Covers(a, {}) : Describes(d, c)
            BY <1>13a, <2>3
        <3>4. d.type = "chain" => \E c \in chains : Links(d, c)
            BY <2>0, <3>2
        <3> QED BY <3>2, <3>3, <3>4
    <2> QED BY <1>7, <1>13, <2>1, <2>2, <2>3
<1>14. ASSUME NEW d, NEW e, Has(ds, d), Has(ds, e), d.type = e.type, d.type \in {"hash", "hashtree"}, d.name = e.name
       PROVE  d = e
    <2>1. Has(ic, d) /\ Has(ic, e) BY <1>7, <1>10, <1>14
    <2> QED BY <1>6, <1>14, <2>1 DEF NamedTypes
<1>15. ASSUME NEW c \in chains PROVE c.name \in ToSet(Names) /\ \E d : Has(ds, d) /\ d.type = "chain" /\ d.name = c.name
    <2>1. c \in ToSet(a.chains) \/ \E i \in 1 .. m : c \in made[im[i]].chains
        BY <1>3, <1>4, <1>15 DEF Made
    <2>2. CASE c \in ToSet(a.chains)
        <3>1. PICK k \in 1 .. Len(a.chains) : c = a.chains[k]
            BY <2>2, ChainsIs
        <3>2. PICK d : d = Chains(a)[k] OBVIOUS
        <3>3. Has(Chains(a), d) /\ d.type = "chain" /\ d.name = c.name
            BY <3>1, <3>2, ChainsIs
        <3> QED BY <1>7, <2>2, <3>3 DEF ArgumentsOK
    <2>3. ASSUME NEW i \in 1 .. m, c \in made[im[i]].chains
          PROVE  c.name \in ToSet(Names) /\ \E d : Has(ds, d) /\ d.type = "chain" /\ d.name = c.name
        <3>1. c.name \in ToSet(Names) /\ \E d : Has(P[i], d) /\ d.type = "chain" /\ d.name = c.name
            BY <1>4, <2>3 DEF Knows
        <3>2. PICK n \in ToSet(Names) : n = c.name
            BY <3>1
        <3>3. PICK o : o = OfName(P, m, n, "chain") OBVIOUS
        <3>4. /\ IsSeq(o)
              /\ \A d : Has(o, d) <=> d.type = "chain" /\ d.name = n /\ \E j \in 1 .. m : Has(P[j], d)
            <4>1. \A x \in 1 .. m : IsSeq(P[x]) BY <1>4
            <4> QED BY <1>4, <3>3, <4>1, OfNameIs
        <3>5. \E d : Has(o, d) BY <3>1, <3>2, <3>4
        <3>6. o # << >> BY <3>5, NilIs
        <3>7. Has(o, Kept(o))
            <4>1. Len(o) \in 1 .. Len(o)
                BY <3>4, <3>6, LenNat
            <4> QED BY <4>1 DEF Has, Kept, Last
        <3>8. Has(ic, Kept(o))
            <4>1. "chain" \in NamedTypes
                BY DEF NamedTypes
            <4>2. \A x \in 1 .. m : IsSeq(P[x]) BY <1>4
            <4>3. \E t \in NamedTypes : \E x \in ToSet(Names) :
                     OfName(P, m, x, t) # << >> /\ Kept(o) = Kept(OfName(P, m, x, t))
                BY <3>3, <3>6, <4>1
            <4> QED BY <1>4, <1>5, <4>2, <4>3, IncludedHas
        <3> QED BY <1>7, <3>1, <3>2, <3>4, <3>7, <3>8
    <2> QED BY <2>1, <2>2, <2>3
<1>16. Knows(ds, Covers(a, {}), chains)
    BY <1>7, <1>12, <1>13, <1>14, <1>15 DEF Knows
<1>17. Enough(ds, r) BY <1>9, <1>13 DEF Enough
<1> QED BY <1>8, <1>16, <1>17

--------------------------------------------------
(* Hash trees. *)

\* The size of the level above one of n cells.
Above(n) == round_to_multiple(Ceiling(n, PerBlock), PerBlock)

\* What a division rounded up returns.
LEMMA CeilingNat ==
    ASSUME NEW n \in Nat, NEW b \in Nat \ {0}
    PROVE  Ceiling(n, b) \in Nat /\ n <= Ceiling(n, b) * b /\ Ceiling(n, b) * b < n + b
<1>1. n + b - 1 \in Nat OBVIOUS
<1>2. PICK q : q = (n + b - 1) \div b OBVIOUS
<1>3. q \in Nat BY <1>1, <1>2, SMT
<1>4. PICK r : r = ((n + b - 1) \div b) * b OBVIOUS
<1>5. r \in Nat /\ n <= r /\ r < n + b BY <1>4, RoundUp
<1>6. Ceiling(n, b) = q /\ q * b = r
    BY <1>2, <1>4 DEF Ceiling
<1> QED BY <1>3, <1>5, <1>6

\* The size of a level is a number of blocks, with room for every digest.
LEMMA AboveNat ==
    ASSUME NEW n \in Nat
    PROVE  /\ Above(n) \in Nat /\ Above(n) % PerBlock = 0
           /\ Ceiling(n, PerBlock) \in Nat /\ Ceiling(n, PerBlock) <= Above(n)
<1>1. PerBlock \in Nat \ {0} BY SizesOK
<1>2. PICK c \in Nat : c = Ceiling(n, PerBlock)
    BY <1>1, CeilingNat
<1>3. /\ round_to_multiple(c, PerBlock) \in Nat /\ c <= round_to_multiple(c, PerBlock)
      /\ round_to_multiple(c, PerBlock) % PerBlock = 0
    BY <1>1, RoundTo
<1> QED BY <1>2, <1>3 DEF Above

LoopStep(r) == IF r.size <= PerBlock THEN r
               ELSE [size |-> Above(r.size), sizes |-> Append(r.sizes, Above(r.size))]
LoopStart(n) == [size |-> n, sizes |-> << >>]

\* f is what the recursion of LevelLoop computes.
LoopRuns(n, m, f) == f = [k \in 0 .. m |-> IF k = 0 THEN LoopStart(n) ELSE LoopStep(f[k - 1])]

\* The loop of calc_hash_level_offsets runs.
LEMMA LoopExists ==
    ASSUME NEW n, NEW m0 \in Nat
    PROVE  \E f : LoopRuns(n, m0, f)
<1> DEFINE R(m, r) == r = [k \in 0 .. m |-> IF k = 0 THEN LoopStart(n) ELSE LoopStep(r[k - 1])]
           P(m) == \E r : R(m, r)
           T == {m \in Nat : ~ P(m)}
<1>1. SUFFICES ASSUME T # {} PROVE FALSE BY DEF LoopRuns
<1>2. PICK m \in T : \A j \in T : m <= j BY <1>1, Least
<1>3. m # 0
    <2>1. P(0)
        <3> DEFINE f == [k \in {0} |-> LoopStart(n)]
        <3>1. R(0, f) OBVIOUS
        <3> QED BY <3>1
    <2> QED BY <2>1
<1>4. P(m - 1)
    <2>1. m - 1 \in Nat /\ ~ (m <= m - 1) BY <1>3
    <2>2. m - 1 \notin T BY <1>2, <2>1
    <2> QED BY <2>1, <2>2
<1>5. PICK g : R(m - 1, g) BY <1>4
<1> DEFINE f == [k \in 0 .. m |-> IF k = 0 THEN LoopStart(n) ELSE LoopStep(g[k - 1])]
<1>6. \A k \in 0 .. m : k # 0 => f[k - 1] = g[k - 1]
    <2> TAKE k \in 0 .. m
    <2> HAVE k # 0
    <2>1. k - 1 \in 0 .. m /\ k - 1 \in 0 .. (m - 1) OBVIOUS
    <2>2. f[k - 1] = IF k - 1 = 0 THEN LoopStart(n) ELSE LoopStep(g[(k - 1) - 1])
        BY <2>1
    <2>3. g[k - 1] = IF k - 1 = 0 THEN LoopStart(n) ELSE LoopStep(g[(k - 1) - 1])
        BY <1>5, <2>1
    <2> QED BY <2>2, <2>3
<1>7. R(m, f) BY <1>6
<1> QED BY <1>7

\* LevelSizes is its result.
LEMMA LoopIs ==
    ASSUME NEW n \in Nat
    PROVE  \E f : LoopRuns(n, n, f) /\ LevelSizes(n) = f[n].sizes
<1> DEFINE F(r) == r = [k \in 0 .. n |->
                          IF k = 0 THEN [size |-> n, sizes |-> << >>]
                          ELSE LET x == r[k - 1]
                                   level == round_to_multiple(Ceiling(x.size, PerBlock), PerBlock)
                               IN  IF x.size <= PerBlock THEN x
                                   ELSE [size |-> level, sizes |-> Append(x.sizes, level)]]
           f == CHOOSE r : F(r)
<1>1. \A r : F(r) <=> LoopRuns(n, n, r)
    BY Zenon DEF LoopRuns, LoopStart, LoopStep, Above
<1>2. \E r : F(r) BY <1>1, LoopExists, Zenon
<1>3. F(f) BY <1>2, Zenon
<1>4. LevelLoop(n) = f BY Zenon DEF LevelLoop
<1>5. LoopRuns(n, n, f) BY <1>1, <1>3, Zenon
<1> HIDE DEF f
<1> QED BY <1>4, <1>5 DEF LevelSizes

\* The sizes of levels so far: each is that above the one before.
Stack(n, s) ==
    /\ IsSeq(s)
    /\ \A i \in 1 .. Len(s) : /\ s[i] \in Nat /\ s[i] % PerBlock = 0
                              /\ s[i] = Above(IF i = 1 THEN n ELSE s[i - 1])
Stacked(n, r) == /\ r.size \in Nat /\ Stack(n, r.sizes)
                 /\ r.size = IF r.sizes = << >> THEN n ELSE r.sizes[Len(r.sizes)]

\* A turn of the loop of calc_hash_level_offsets adds a level.
LEMMA StackGrows ==
    ASSUME NEW n \in Nat, NEW r, Stacked(n, r)
    PROVE  Stacked(n, LoopStep(r))
<1>1. CASE r.size <= PerBlock BY <1>1 DEF LoopStep
<1>2. CASE ~ (r.size <= PerBlock)
    <2>1. PICK v : v = Above(r.size) OBVIOUS
    <2>2. v \in Nat /\ v % PerBlock = 0
        BY <2>1, AboveNat DEF Stacked
    <2>3. PICK s : s = r.sizes OBVIOUS
    <2>4. IsSeq(s) /\ Len(s) \in Nat /\ (s = << >> <=> Len(s) = 0)
        BY <2>3, LenNat DEF Stacked, Stack
    <2>5. PICK t : t = Append(s, v) OBVIOUS
    <2>6. IsSeq(t) /\ Len(t) = Len(s) + 1 /\ t[Len(s) + 1] = v /\ \A k \in 1 .. Len(s) : t[k] = s[k]
        BY <2>4, <2>5, AppendSeq
    <2>7. LoopStep(r) = [size |-> v, sizes |-> t]
        BY <1>2, <2>1, <2>3, <2>5 DEF LoopStep
    <2>8. \A i \in 1 .. Len(s) : s[i] \in Nat /\ s[i] % PerBlock = 0 /\ s[i] = Above(IF i = 1 THEN n ELSE s[i - 1])
        BY <2>3 DEF Stacked, Stack
    <2>9. r.size = IF s = << >> THEN n ELSE s[Len(s)]
        BY <2>3 DEF Stacked
    <2>10. ASSUME NEW i \in 1 .. Len(t)
           PROVE  t[i] \in Nat /\ t[i] % PerBlock = 0 /\ t[i] = Above(IF i = 1 THEN n ELSE t[i - 1])
        <3>1. CASE i <= Len(s)
            <4>1. i \in 1 .. Len(s) /\ (i # 1 => i - 1 \in 1 .. Len(s))
                BY <2>4, <2>6, <3>1
            <4>2. t[i] = s[i] /\ (i # 1 => t[i - 1] = s[i - 1])
                BY <2>6, <4>1
            <4> QED BY <2>8, <4>1, <4>2
        <3>2. CASE ~ (i <= Len(s))
            <4>1. i = Len(s) + 1 /\ t[i] = v
                BY <2>4, <2>6, <3>2
            <4>2. CASE i = 1
                BY <2>1, <2>2, <2>4, <2>9, <4>1, <4>2
            <4>3. CASE i # 1
                <5>1. i - 1 = Len(s) /\ Len(s) \in 1 .. Len(s) /\ t[i - 1] = s[Len(s)] /\ s # << >>
                    BY <2>4, <2>6, <4>1, <4>3
                <5> QED BY <2>1, <2>2, <2>9, <4>1, <4>3, <5>1
            <4> QED BY <4>2, <4>3
        <3> QED BY <3>1, <3>2
    <2>11. t # << >> BY <2>4, <2>6, LenNat
    <2>12. Stack(n, t) BY <2>6, <2>10 DEF Stack
    <2>13. LoopStep(r).size = v /\ LoopStep(r).sizes = t
        BY <2>7
    <2> QED BY <2>2, <2>6, <2>11, <2>12, <2>13 DEF Stacked
<1> QED BY <1>1, <1>2

\* Every level is as large as the digests of the one below need, up to one of one block.
LEMMA LevelSizesIs ==
    ASSUME NEW n \in Nat
    PROVE  Stack(n, LevelSizes(n)) /\ (n <= PerBlock => LevelSizes(n) = << >>)
<1>1. PICK f : LoopRuns(n, n, f) /\ LevelSizes(n) = f[n].sizes
    BY LoopIs
<1>2. /\ f[0] = LoopStart(n)
      /\ \A k \in 0 .. n : k # 0 => f[k] = LoopStep(f[k - 1])
    BY <1>1 DEF LoopRuns
<1>3. Stacked(n, LoopStart(n))
    BY NilIs DEF Stacked, Stack, LoopStart, NilSeq
<1> DEFINE Q(k) == Stacked(n, f[k]) /\ (n <= PerBlock => f[k] = LoopStart(n))
           T == {k \in 0 .. n : ~ Q(k)}
<1>4. T = {}
    <2> SUFFICES ASSUME T # {} PROVE FALSE OBVIOUS
    <2>1. PICK k \in T : \A j \in T : k <= j
        <3>1. T \in SUBSET Nat OBVIOUS
        <3> HIDE DEF T
        <3> QED BY <3>1, Least
    <2>2. k # 0 BY <1>2, <1>3
    <2>3. k \in 0 .. n /\ k - 1 \in 0 .. n /\ ~ (k <= k - 1)
        BY <2>1, <2>2
    <2>4. Q(k - 1) BY <2>1, <2>3
    <2>5. Stacked(n, f[k])
        BY <1>2, <2>2, <2>3, <2>4, StackGrows
    <2>6. n <= PerBlock => f[k] = LoopStart(n)
        <3>1. n <= PerBlock => LoopStep(LoopStart(n)) = LoopStart(n)
            BY DEF LoopStep, LoopStart
        <3>2. f[k] = LoopStep(f[k - 1])
            BY <1>2, <2>2, <2>3
        <3> QED BY <2>4, <3>1, <3>2
    <2> QED BY <2>1, <2>5, <2>6
<1>5. n \in 0 .. n OBVIOUS
<1>6. Q(n) BY <1>4, <1>5
<1> QED BY <1>1, <1>6 DEF Stacked, LoopStart

\* f is what the recursion of SumBehind computes.
SumRuns(s, n, f) == f = [j \in 0 .. n |-> IF j = 0 THEN 0 ELSE f[j - 1] + s[Len(s) - j + 1]]

\* The sums exist.
LEMMA SumExists ==
    ASSUME NEW s, NEW m0 \in Nat
    PROVE  \E f : SumRuns(s, m0, f)
<1> DEFINE R(m, r) == r = [j \in 0 .. m |-> IF j = 0 THEN 0 ELSE r[j - 1] + s[Len(s) - j + 1]]
           P(m) == \E r : R(m, r)
           T == {m \in Nat : ~ P(m)}
<1>1. SUFFICES ASSUME T # {} PROVE FALSE BY DEF SumRuns
<1>2. PICK m \in T : \A j \in T : m <= j BY <1>1, Least
<1>3. m # 0
    <2>1. P(0)
        <3> DEFINE f == [k \in {0} |-> 0]
        <3>1. R(0, f) OBVIOUS
        <3> QED BY <3>1
    <2> QED BY <2>1
<1>4. P(m - 1)
    <2>1. m - 1 \in Nat /\ ~ (m <= m - 1) BY <1>3
    <2>2. m - 1 \notin T BY <1>2, <2>1
    <2> QED BY <2>1, <2>2
<1>5. PICK g : R(m - 1, g) BY <1>4
<1> DEFINE f == [j \in 0 .. m |-> IF j = 0 THEN 0 ELSE g[j - 1] + s[Len(s) - j + 1]]
<1>6. \A k \in 0 .. m : k # 0 => f[k - 1] = g[k - 1]
    <2> TAKE k \in 0 .. m
    <2> HAVE k # 0
    <2>1. k - 1 \in 0 .. m /\ k - 1 \in 0 .. (m - 1) OBVIOUS
    <2>2. f[k - 1] = IF k - 1 = 0 THEN 0 ELSE g[(k - 1) - 1] + s[Len(s) - (k - 1) + 1]
        BY <2>1
    <2>3. g[k - 1] = IF k - 1 = 0 THEN 0 ELSE g[(k - 1) - 1] + s[Len(s) - (k - 1) + 1]
        BY <1>5, <2>1
    <2> QED BY <2>2, <2>3
<1>7. R(m, f) BY <1>6
<1> QED BY <1>7

\* SumBehind is its recursion, run to the end.
LEMMA SumRunsIs ==
    ASSUME NEW s, Len(s) \in Nat
    PROVE  \E f : SumRuns(s, Len(s), f) /\ \A k : SumBehind(s, k) = f[Len(s) - k]
<1> DEFINE f == CHOOSE r : SumRuns(s, Len(s), r)
<1>1. SumRuns(s, Len(s), f) BY SumExists, Zenon
<1>2. \A k : SumBehind(s, k) = f[Len(s) - k]
    BY Zenon DEF SumBehind, SumRuns
<1> QED BY <1>1, <1>2

\* The sums of the sizes behind each place.
LEMMA SumIs ==
    ASSUME NEW s, IsSeq(s), NEW b \in Nat \ {0}, \A i \in 1 .. Len(s) : s[i] \in Nat /\ s[i] % b = 0
    PROVE  /\ Len(s) \in Nat /\ SumBehind(s, Len(s)) = 0
           /\ \A k \in 0 .. Len(s) : SumBehind(s, k) \in Nat /\ SumBehind(s, k) % b = 0
           /\ \A k \in 1 .. Len(s) : SumBehind(s, k - 1) = SumBehind(s, k) + s[k]
<1>1. PICK n \in Nat : n = Len(s) BY LenNat
<1>2. PICK f : SumRuns(s, n, f) /\ \A k : SumBehind(s, k) = f[n - k]
    BY <1>1, SumRunsIs
<1>3. f[0] = 0 /\ \A j \in 1 .. n : f[j] = f[j - 1] + s[n - j + 1]
    <2>1. f = [j \in 0 .. n |-> IF j = 0 THEN 0 ELSE f[j - 1] + s[n - j + 1]]
        BY <1>1, <1>2, Zenon DEF SumRuns
    <2>2. 0 \in 0 .. n /\ \A j \in 1 .. n : j \in 0 .. n /\ j # 0 OBVIOUS
    <2>3. f[0] = 0 BY <2>1, <2>2
    <2>4. \A j \in 1 .. n : f[j] = f[j - 1] + s[n - j + 1]
        BY <2>1, <2>2, Zenon
    <2> QED BY <2>3, <2>4
<1> DEFINE Q(j) == f[j] \in Nat /\ f[j] % b = 0
           T == {j \in 0 .. n : ~ Q(j)}
<1>4. T = {}
    <2> SUFFICES ASSUME T # {} PROVE FALSE OBVIOUS
    <2>1. PICK k \in T : \A j \in T : k <= j
        <3>1. T \in SUBSET Nat OBVIOUS
        <3> HIDE DEF T
        <3> QED BY <3>1, Least
    <2>2. k # 0
        <3>1. 0 % b = 0 BY SMT
        <3> QED BY <1>3, <2>1, <3>1
    <2>3. k \in 1 .. n /\ k - 1 \in 0 .. n /\ ~ (k <= k - 1)
        BY <2>1, <2>2
    <2>4. Q(k - 1) BY <2>1, <2>3
    <2>5. PICK x \in Nat : x = f[k - 1] /\ x % b = 0
        BY <2>4
    <2>6. PICK y \in Nat : y = s[n - k + 1] /\ y % b = 0
        <3>1. n - k + 1 \in 1 .. n BY <2>3
        <3> QED BY <1>1, <3>1
    <2>7. f[k] = x + y BY <1>3, <2>3, <2>5, <2>6
    <2>8. (x + y) % b = 0 BY <2>5, <2>6, SumAligned
    <2> QED BY <2>1, <2>7, <2>8
<1>5. \A k \in 0 .. n : SumBehind(s, k) \in Nat /\ SumBehind(s, k) % b = 0
    <2> TAKE k \in 0 .. n
    <2>1. n - k \in 0 .. n OBVIOUS
    <2>2. Q(n - k) BY <1>4, <2>1
    <2> QED BY <1>2, <2>2
<1>6. SumBehind(s, n) = 0
    <2>1. n - n = 0 OBVIOUS
    <2> QED BY <1>2, <1>3, <2>1
<1>7. \A k \in 1 .. n : SumBehind(s, k - 1) = SumBehind(s, k) + s[k]
    <2> TAKE k \in 1 .. n
    <2>1. PICK j \in 1 .. n : j = n - (k - 1) /\ j - 1 = n - k /\ n - j + 1 = k OBVIOUS
    <2>2. SumBehind(s, k - 1) = f[j] /\ SumBehind(s, k) = f[j - 1]
        BY <1>2, <2>1
    <2> QED BY <1>3, <2>1, <2>2
<1> QED BY <1>1, <1>5, <1>6, <1>7

\* A slice that is padded to a block.
LEMMA PaddedIs ==
    ASSUME NEW s, IsSeq(s), NEW at \in Nat, NEW v, v = Slice(s, at, PerBlock)
    PROVE  /\ IsSeq(Padded(v))
           /\ \A r \in 1 .. PerBlock : at + r \in 1 .. Len(s) => Padded(v)[r] = s[at + r]
<1>1. PICK b \in Nat \ {0} : b = PerBlock BY SizesOK
<1>2. Len(s) \in Nat BY LenNat
<1>3. PICK n \in Nat : n = SliceLen(s, at, b)
    BY <1>1, <1>2, SliceSeq
<1>4. IsSeq(v) /\ Len(v) = n /\ n <= b /\ \A k \in 1 .. n : v[k] = s[at + k]
    <2>1. b \in Nat OBVIOUS
    <2>2. /\ IsSeq(Slice(s, at, b)) /\ Len(Slice(s, at, b)) = SliceLen(s, at, b)
          /\ SliceLen(s, at, b) <= b
          /\ \A k \in 1 .. SliceLen(s, at, b) : Slice(s, at, b)[k] = s[at + k]
        BY <2>1, SliceSeq, ZenonT(40)
    <2>3. v = Slice(s, at, b) /\ n = SliceLen(s, at, b)
        BY <1>1, <1>3
    <2> QED BY <2>2, <2>3, Zenon
<1>5. PICK m \in Nat : m = b - Len(v)
    BY <1>1, <1>3, <1>4
<1>6. IsSeq(v \o Nuls(m)) /\ \A k \in 1 .. Len(v) : (v \o Nuls(m))[k] = v[k]
    BY <1>4, NulsBehind
<1>7. Padded(v) = v \o Nuls(m) BY <1>1, <1>5 DEF Padded
<1>8. \A r \in 1 .. b : at + r \in 1 .. Len(s) => r \in 1 .. n
    BY <1>2, <1>3 DEF SliceLen
<1> QED BY <1>1, <1>4, <1>6, <1>7, <1>8

\* A block is a slice, and padded it is as long as every other.
LEMMA BlockIs ==
    ASSUME NEW s, IsSeq(s), NEW q \in Nat, NEW at \in Nat, at = q * PerBlock
    PROVE  /\ IsSeq(Padded(Block(s, q)))
           /\ \A r \in 1 .. PerBlock : at + r \in 1 .. Len(s) => Padded(Block(s, q))[r] = s[at + r]
<1>1. (q + 1) * PerBlock = at + PerBlock
    <2>1. PICK b \in Nat : b = PerBlock BY SizesOK
    <2>2. (q + 1) * b = q * b + b BY SMT
    <2> QED BY <2>1, <2>2
<1>2. PICK v : v = Block(s, q) OBVIOUS
<1>3. v = Slice(s, at, PerBlock)
    BY <1>1, <1>2 DEF Block, Slice
<1>4. /\ IsSeq(Padded(v))
      /\ \A r \in 1 .. PerBlock : at + r \in 1 .. Len(s) => Padded(v)[r] = s[at + r]
    BY <1>3, PaddedIs, Zenon
<1> QED BY <1>2, <1>4

\* The level above s.
LEMMA OutputIs ==
    ASSUME NEW s, IsSeq(s)
    PROVE  /\ IsSeq(LevelOutput(s)) /\ Len(s) \in Nat /\ Len(LevelOutput(s)) = Above(Len(s))
           /\ \A i \in 1 .. Len(LevelOutput(s)) : LevelOutput(s)[i].kind \in {"digest", "nul"}
           /\ \A i \in 1 .. Ceiling(Len(s), PerBlock) : /\ i \in 1 .. Len(LevelOutput(s))
                                                        /\ LevelOutput(s)[i] = Digest(Padded(Block(s, i - 1)))
<1>1. PICK n \in Nat : n = Len(s) BY LenNat
<1>2. PICK c \in Nat : c = Ceiling(n, PerBlock) /\ c <= Above(n) /\ Above(n) \in Nat
    BY AboveNat
<1>3. PICK ds : ds = [k \in 1 .. c |-> Digest(Padded(Block(s, k - 1)))] OBVIOUS
<1>4. IsSeq(ds) /\ Len(ds) = c
    <2>1. ds = [k \in 1 .. c |-> ds[k]] BY <1>3
    <2> QED BY <2>1, MapSeq
<1>5. PICK m \in Nat : m = Above(n) - c /\ c + m = Above(n)
    BY <1>2
<1>6. LevelOutput(s) = ds \o Nuls(m)
    <2>1. m = round_to_multiple(Len(ds), PerBlock) - Len(ds)
        BY <1>2, <1>4, <1>5 DEF Above
    <2> QED BY <1>1, <1>2, <1>3, <2>1 DEF LevelOutput
<1>7. PICK o : o = ds \o Nuls(m) OBVIOUS
<1>8. /\ IsSeq(o) /\ Len(o) = c + m
      /\ \A k \in 1 .. c : o[k] = ds[k]
      /\ \A k \in 1 .. c + m : k > c => o[k] = Nul
    BY <1>4, <1>7, NulsBehind
<1>9. \A k \in 1 .. c : ds[k] = Digest(Padded(Block(s, k - 1)))
    BY <1>3
<1>10. ASSUME NEW i \in 1 .. c + m PROVE o[i].kind \in {"digest", "nul"}
    <2>1. CASE i <= c
        <3>1. i \in 1 .. c BY <2>1
        <3> QED BY <1>8, <1>9, <3>1, NulDiffers
    <2>2. CASE ~ (i <= c) BY <1>8, <2>2, NulDiffers
    <2> QED BY <2>1, <2>2
<1>11. \A i \in 1 .. c : i \in 1 .. Len(o) /\ o[i] = Digest(Padded(Block(s, i - 1)))
    BY <1>8, <1>9
<1>12. LevelOutput(s) = o /\ Len(o) = Above(Len(s)) /\ c = Ceiling(Len(s), PerBlock) /\ Len(s) \in Nat
    BY <1>1, <1>2, <1>5, <1>6, <1>7, <1>8
<1> QED BY <1>8, <1>10, <1>11, <1>12

\* Two sequences of the same length with the same level above them are the same.
LEMMA OutputPins ==
    ASSUME NEW s, IsSeq(s), NEW t, IsSeq(t), Len(s) = Len(t), LevelOutput(s) = LevelOutput(t)
    PROVE  s = t
<1>1. PICK n \in Nat : n = Len(s) /\ n = Len(t)
    BY LenNat
<1>2. PICK b \in Nat \ {0} : b = PerBlock BY SizesOK
<1>3. ASSUME NEW i \in 1 .. n PROVE s[i] = t[i]
    <2>1. PICK q : q = (i - 1) \div b OBVIOUS
    <2>2. PICK r : r = (i - 1) % b OBVIOUS
    <2>3. q \in Nat /\ r \in 0 .. b - 1 /\ i - 1 = q * b + r
        <3>1. i - 1 \in Nat OBVIOUS
        <3>2. q \in Nat /\ r \in 0 .. b - 1
            BY <2>1, <2>2, <3>1, SMT
        <3>3. i - 1 = (b * ((i - 1) \div b)) + ((i - 1) % b)
            BY <3>1, SMT
        <3>4. b * q = q * b BY <3>2, SMT
        <3> QED BY <2>1, <2>2, <3>2, <3>3, <3>4
    <2>4. PICK at \in Nat : at = q * b
        <3>1. q * b \in Nat BY <2>3, SMT
        <3> QED BY <3>1
    <2>5. r + 1 \in 1 .. b /\ at + (r + 1) = i
        BY <2>3, <2>4
    <2>6. PICK c \in Nat : c = Ceiling(n, b) /\ n <= c * b
        BY <1>2, CeilingNat
    <2>7. q + 1 \in 1 .. c
        <3> SUFFICES ASSUME ~ (q + 1 <= c) PROVE FALSE
            BY <2>3
        <3>1. c <= q BY <2>3
        <3>2. c * b <= q * b BY <2>3, <3>1, SMT
        <3> QED BY <2>4, <2>5, <2>6, <3>2
    <2>8. /\ LevelOutput(s)[q + 1] = Digest(Padded(Block(s, (q + 1) - 1)))
          /\ LevelOutput(t)[q + 1] = Digest(Padded(Block(t, (q + 1) - 1)))
        BY <1>1, <1>2, <2>6, <2>7, OutputIs
    <2>9. (q + 1) - 1 = q BY <2>3
    <2>10. Padded(Block(s, q)) = Padded(Block(t, q))
        BY <2>8, <2>9, DigestOf
    <2>11. Padded(Block(s, q))[r + 1] = s[at + (r + 1)] /\ Padded(Block(t, q))[r + 1] = t[at + (r + 1)]
        BY <1>1, <1>2, <2>3, <2>4, <2>5, BlockIs
    <2> QED BY <2>5, <2>10, <2>11
<1> QED BY <1>1, <1>3, SameSeq

\* f is what the recursion of Levels computes.
LevelRuns(data, n, f) == f = [k \in 0 .. n |-> IF k = 0 THEN data ELSE LevelOutput(f[k - 1])]

\* The levels exist.
LEMMA LevelsExist ==
    ASSUME NEW data, NEW m0 \in Nat
    PROVE  \E f : LevelRuns(data, m0, f)
<1> DEFINE R(m, r) == r = [k \in 0 .. m |-> IF k = 0 THEN data ELSE LevelOutput(r[k - 1])]
           P(m) == \E r : R(m, r)
           T == {m \in Nat : ~ P(m)}
<1>1. SUFFICES ASSUME T # {} PROVE FALSE
    BY DEF LevelRuns
<1>2. PICK m \in T : \A j \in T : m <= j BY <1>1, Least
<1>3. m # 0
    <2>1. P(0)
        <3> DEFINE f == [k \in {0} |-> data]
        <3>1. R(0, f) OBVIOUS
        <3> QED BY <3>1
    <2> QED BY <2>1
<1>4. P(m - 1)
    <2>1. m - 1 \in Nat /\ ~ (m <= m - 1) BY <1>3
    <2>2. m - 1 \notin T BY <1>2, <2>1
    <2> QED BY <2>1, <2>2
<1>5. PICK g : R(m - 1, g) BY <1>4
<1> DEFINE f == [k \in 0 .. m |-> IF k = 0 THEN data ELSE LevelOutput(g[k - 1])]
<1>6. \A k \in 0 .. m : k # 0 => f[k - 1] = g[k - 1]
    <2> TAKE k \in 0 .. m
    <2> HAVE k # 0
    <2>1. k - 1 \in 0 .. m /\ k - 1 \in 0 .. (m - 1) OBVIOUS
    <2>2. f[k - 1] = IF k - 1 = 0 THEN data ELSE LevelOutput(g[(k - 1) - 1])
        BY <2>1
    <2>3. g[k - 1] = IF k - 1 = 0 THEN data ELSE LevelOutput(g[(k - 1) - 1])
        BY <1>5, <2>1
    <2> QED BY <2>2, <2>3
<1>7. R(m, f) BY <1>6
<1> QED BY <1>7

\* The levels of data, and their sizes.
Tower(data, s, f) ==
    /\ Len(data) \in Nat /\ Stack(Len(data), s) /\ IsSeq(s) /\ Len(s) \in Nat
    /\ f[0] = data /\ \A k \in 1 .. Len(s) : f[k] = LevelOutput(f[k - 1])
    /\ \A k \in 0 .. Len(s) : IsSeq(f[k])
    /\ \A k \in 1 .. Len(s) : /\ Len(f[k]) = s[k]
                              /\ \A i \in 1 .. s[k] : f[k][i].kind \in {"digest", "nul"}

\* The levels are as large as calc_hash_level_offsets says.
LEMMA LevelsIs ==
    ASSUME NEW data, IsSeq(data), NEW s, s = LevelSizes(Len(data)), NEW f, f = Levels(data)
    PROVE  Tower(data, s, f)
<1>1. Len(data) \in Nat /\ Stack(Len(data), s)
    BY LenNat, LevelSizesIs
<1>2. PICK n \in Nat : n = Len(s)
    BY <1>1, LenNat DEF Stack
<1>3. LevelRuns(data, n, f)
    <2>1. f = CHOOSE r : LevelRuns(data, n, r)
        BY <1>2, Zenon DEF Levels, LevelRuns
    <2> QED BY <2>1, LevelsExist, Zenon
<1>4. f[0] = data /\ \A k \in 1 .. n : f[k] = LevelOutput(f[k - 1])
    <2>1. f = [j \in 0 .. n |-> IF j = 0 THEN data ELSE LevelOutput(f[j - 1])]
        BY <1>3 DEF LevelRuns
    <2>2. 0 \in 0 .. n /\ \A j \in 1 .. n : j \in 0 .. n /\ j # 0 OBVIOUS
    <2>3. f[0] = data BY <2>1, <2>2
    <2>4. \A j \in 1 .. n : f[j] = LevelOutput(f[j - 1])
        BY <2>1, <2>2, Zenon
    <2> QED BY <2>3, <2>4
<1> DEFINE Q(k) == /\ IsSeq(f[k])
                   /\ k # 0 => /\ Len(f[k]) = s[k]
                               /\ \A i \in 1 .. s[k] : f[k][i].kind \in {"digest", "nul"}
           T == {k \in 0 .. n : ~ Q(k)}
<1>5. T = {}
    <2> SUFFICES ASSUME T # {} PROVE FALSE OBVIOUS
    <2>1. PICK k \in T : \A j \in T : k <= j
        <3>1. T \in SUBSET Nat OBVIOUS
        <3> HIDE DEF T
        <3> QED BY <3>1, Least
    <2>2. k # 0 BY <1>4
    <2>3. k \in 1 .. n /\ k - 1 \in 0 .. n /\ ~ (k <= k - 1)
        BY <2>1, <2>2
    <2>4. Q(k - 1) BY <2>1, <2>3
    <2>5. /\ IsSeq(f[k]) /\ Len(f[k]) = Above(Len(f[k - 1]))
          /\ \A i \in 1 .. Len(f[k]) : f[k][i].kind \in {"digest", "nul"}
        <3>1. PICK x : x = f[k - 1] OBVIOUS
        <3>2. IsSeq(x) /\ f[k] = LevelOutput(x)
            BY <1>4, <2>3, <2>4, <3>1
        <3>3. /\ IsSeq(LevelOutput(x)) /\ Len(LevelOutput(x)) = Above(Len(x))
              /\ \A i \in 1 .. Len(LevelOutput(x)) : LevelOutput(x)[i].kind \in {"digest", "nul"}
            BY <3>2, OutputIs
        <3> QED BY <3>1, <3>2, <3>3
    <2>6. s[k] = Above(IF k = 1 THEN Len(data) ELSE s[k - 1])
        BY <1>1, <1>2, <2>3 DEF Stack
    <2>7. Len(f[k - 1]) = IF k = 1 THEN Len(data) ELSE s[k - 1]
        BY <1>4, <2>3, <2>4
    <2> QED BY <2>1, <2>5, <2>6, <2>7
<1>6. \A k \in 0 .. n : Q(k) BY <1>5
<1>7. \A k \in 1 .. n : k \in 0 .. n /\ k # 0 OBVIOUS
<1>8. IsSeq(s) BY <1>1 DEF Stack
<1> QED BY <1>1, <1>2, <1>4, <1>6, <1>7, <1>8 DEF Tower

\* The root digest pins the data.
LEMMA RootPins ==
    ASSUME NEW x, IsSeq(x), NEW y, IsSeq(y), RootDigest(x) = RootDigest(y),
           Len(x) = Len(y) \/ (Len(x) <= PerBlock /\ Len(y) <= PerBlock)
    PROVE  x = y
<1>1. PICK s : s = LevelSizes(Len(x)) OBVIOUS
<1>2. PICK f : f = Levels(x) OBVIOUS
<1>3. PICK g : g = Levels(y) OBVIOUS
<1>4. s = LevelSizes(Len(y))
    <2>1. Len(x) \in Nat /\ Len(y) \in Nat BY LenNat
    <2> QED BY <1>1, <2>1, LevelSizesIs
<1>5. PICK n \in Nat : n = Len(s)
    BY <1>1, <1>2, LevelsIs DEF Tower
<1>6. /\ f[0] = x /\ \A k \in 1 .. n : f[k] = LevelOutput(f[k - 1])
      /\ \A k \in 0 .. n : IsSeq(f[k])
      /\ \A k \in 1 .. n : Len(f[k]) = s[k]
    <2>1. Tower(x, s, f) BY <1>1, <1>2, LevelsIs
    <2> QED BY <1>5, <2>1 DEF Tower
<1>7. /\ g[0] = y /\ \A k \in 1 .. n : g[k] = LevelOutput(g[k - 1])
      /\ \A k \in 0 .. n : IsSeq(g[k])
      /\ \A k \in 1 .. n : Len(g[k]) = s[k]
    <2>1. Tower(y, s, g) BY <1>3, <1>4, LevelsIs
    <2> QED BY <1>5, <2>1 DEF Tower
<1>8. f[n] = g[n]
    <2>1. RootDigest(x) = Digest(f[n]) /\ RootDigest(y) = Digest(g[n])
        BY <1>1, <1>2, <1>3, <1>4, <1>5 DEF RootDigest
    <2> QED BY <2>1, DigestOf
<1>9. CASE n = 0 BY <1>6, <1>7, <1>8, <1>9
<1>10. CASE n # 0
    <2>0. Len(x) = Len(y)
        <3>1. Len(x) <= PerBlock => s = << >>
            BY <1>1, LenNat, LevelSizesIs
        <3>2. Len(<< >>) = 0 BY NilIs DEF NilSeq
        <3> QED BY <1>5, <1>10, <3>1, <3>2
    <2> DEFINE T == {k \in 0 .. n : f[k] = g[k]}
    <2>1. T # {} BY <1>8
    <2>2. PICK k \in T : \A j \in T : k <= j
        <3>1. T \in SUBSET Nat OBVIOUS
        <3> HIDE DEF T
        <3> QED BY <2>1, <3>1, Least
    <2>3. k = 0
        <3> SUFFICES ASSUME k # 0 PROVE FALSE OBVIOUS
        <3>1. k \in 1 .. n /\ k - 1 \in 0 .. n /\ ~ (k <= k - 1)
            BY <2>2
        <3>2. LevelOutput(f[k - 1]) = LevelOutput(g[k - 1])
            BY <1>6, <1>7, <2>2, <3>1
        <3>3. Len(f[k - 1]) = Len(g[k - 1])
            <4>1. CASE k = 1 BY <1>6, <1>7, <2>0, <4>1
            <4>2. CASE k # 1
                <5>1. k - 1 \in 1 .. n BY <3>1, <4>2
                <5> QED BY <1>6, <1>7, <5>1
            <4> QED BY <4>1, <4>2
        <3>4. IsSeq(f[k - 1]) /\ IsSeq(g[k - 1])
            BY <1>6, <1>7, <3>1
        <3>5. f[k - 1] = g[k - 1]
            BY <3>2, <3>3, <3>4, OutputPins
        <3> QED BY <2>2, <3>1, <3>5
    <2> QED BY <1>6, <1>7, <2>2, <2>3
<1> QED BY <1>9, <1>10

\* generate_hash_tree: whole blocks of digests.
LEMMA TreeIs ==
    ASSUME NEW data, IsSeq(data)
    PROVE  /\ IsSeq(GenerateTree(data)) /\ Len(GenerateTree(data)) = TreeSize(Len(data))
           /\ TreeSize(Len(data)) \in Nat /\ TreeSize(Len(data)) % PerBlock = 0
           /\ \A i \in 1 .. TreeSize(Len(data)) : GenerateTree(data)[i].kind \in {"digest", "nul"}
<1>1. PICK s : s = LevelSizes(Len(data)) OBVIOUS
<1>2. PICK f : f = Levels(data) OBVIOUS
<1>3. /\ IsSeq(s) /\ \A i \in 1 .. Len(s) : s[i] \in Nat /\ s[i] % PerBlock = 0
      /\ \A k \in 1 .. Len(s) : /\ Len(f[k]) = s[k]
                                /\ \A i \in 1 .. s[k] : f[k][i].kind \in {"digest", "nul"}
    <2>1. Tower(data, s, f) BY <1>1, <1>2, LevelsIs
    <2> QED BY <2>1 DEF Tower, Stack
<1>4. PICK n \in Nat : n = Len(s) BY <1>3, LenNat
<1>5. /\ SumBehind(s, n) = 0
      /\ \A k \in 0 .. n : SumBehind(s, k) \in Nat /\ SumBehind(s, k) % PerBlock = 0
      /\ \A k \in 1 .. n : SumBehind(s, k - 1) = SumBehind(s, k) + s[k]
    <2>1. PICK b \in Nat \ {0} : b = PerBlock BY SizesOK
    <2>2. \A i \in 1 .. Len(s) : s[i] \in Nat /\ s[i] % b = 0
        BY <1>3, <2>1
    <2>3. /\ Len(s) \in Nat /\ SumBehind(s, Len(s)) = 0
          /\ \A k \in 0 .. Len(s) : SumBehind(s, k) \in Nat /\ SumBehind(s, k) % b = 0
          /\ \A k \in 1 .. Len(s) : SumBehind(s, k - 1) = SumBehind(s, k) + s[k]
        BY <1>3, <2>2, SumIs
    <2> QED BY <1>4, <2>1, <2>3
<1>6. PICK size \in Nat : size = TreeSize(Len(data)) /\ size = SumBehind(s, 0) /\ size % PerBlock = 0
    BY <1>1, <1>5 DEF TreeSize
<1> DEFINE at(k) == SumBehind(s, k)
           Of(i, k) == at(k) < i /\ i <= at(k) + Len(f[k])
           Cell(i) == f[CHOOSE k \in 1 .. n : Of(i, k)][i - at(CHOOSE k \in 1 .. n : Of(i, k))]
<1>6a. PICK t : t = GenerateTree(data) OBVIOUS
<1>7. t = [i \in 1 .. size |-> Cell(i)]
    <2>1. GenerateTree(data) = [i \in 1 .. TreeSize(Len(data)) |->
              Levels(data)[CHOOSE k \in 1 .. Len(LevelSizes(Len(data))) :
                              /\ SumBehind(LevelSizes(Len(data)), k) < i
                              /\ i <= SumBehind(LevelSizes(Len(data)), k) + Len(Levels(data)[k])]
                  [i - SumBehind(LevelSizes(Len(data)),
                         CHOOSE k \in 1 .. Len(LevelSizes(Len(data))) :
                              /\ SumBehind(LevelSizes(Len(data)), k) < i
                              /\ i <= SumBehind(LevelSizes(Len(data)), k) + Len(Levels(data)[k]))]]
        BY Zenon DEF GenerateTree, LevelOffset
    <2>2. s = LevelSizes(Len(data)) /\ f = Levels(data) /\ n = Len(LevelSizes(Len(data))) /\ size = TreeSize(Len(data))
        BY <1>1, <1>2, <1>4, <1>6
    <2> QED BY <1>6a, <2>1, <2>2
<1>8. ASSUME NEW i \in 1 .. size PROVE \E k \in 1 .. n : Of(i, k)
    <2> DEFINE T == {k \in 0 .. n : at(k) < i}
    <2>1. T # {} BY <1>5
    <2>2. PICK k \in T : \A j \in T : k <= j
        <3>1. T \in SUBSET Nat OBVIOUS
        <3> HIDE DEF T
        <3> QED BY <2>1, <3>1, Least
    <2>3. k # 0 BY <1>6, <2>2
    <2>4. k \in 1 .. n /\ k - 1 \in 0 .. n /\ ~ (k <= k - 1)
        BY <2>2, <2>3
    <2>5. ~ (at(k - 1) < i) BY <2>2, <2>4
    <2>6. Len(f[k]) = s[k] /\ at(k - 1) = at(k) + s[k] /\ at(k - 1) \in Nat
        BY <1>3, <1>4, <1>5, <2>4
    <2>7. i <= at(k) + Len(f[k]) BY <1>8, <2>5, <2>6
    <2>8. at(k) < i BY <2>2
    <2> QED BY <2>4, <2>7, <2>8
<1>9. ASSUME NEW i \in 1 .. size PROVE t[i].kind \in {"digest", "nul"}
    <2>1. PICK k : k = CHOOSE x \in 1 .. n : Of(i, x) OBVIOUS
    <2>2. k \in 1 .. n /\ Of(i, k) BY <1>8, <2>1
    <2>3. t[i] = f[k][i - at(k)] BY <1>7, <2>1
    <2>4. Len(f[k]) = s[k] /\ s[k] \in Nat /\ at(k) \in Nat
        BY <1>3, <1>4, <1>5, <2>2
    <2>5. i - at(k) \in 1 .. s[k] BY <2>2, <2>4
    <2> QED BY <1>3, <1>4, <2>2, <2>3, <2>5
<1>10. IsSeq(t) /\ Len(t) = size
    <2> HIDE DEF Cell
    <2>1. t = [i \in 1 .. size |-> t[i]] BY <1>7
    <2> QED BY <2>1, MapSeq
<1> QED BY <1>6, <1>6a, <1>9, <1>10

--------------------------------------------------
(* What the commands write. *)

\* What is recorded of a command.
LEMMA MadeParts == \A a, own, blob : /\ Made(a, own, blob).blob = blob /\ Made(a, own, blob).alg = a.alg
                                     /\ Made(a, own, blob).key = IF a.alg = "NONE" THEN None ELSE a.key
                                     /\ Made(a, own, blob).covers = Covers(a, own)
                                     /\ Made(a, own, blob).chains = Made(a, own, << >>).chains
                                     /\ Made(a, own, blob).zeroed = FALSE
BY DEF Made

\* What a footer covers.
LEMMA OwnCovers == ASSUME NEW a, a.include = << >>, NEW own PROVE Covers(a, own) = own
<1>1. PICK im : im = a.include OBVIOUS
<1>2. DOMAIN im = {} BY <1>1, NilIs DEF NilSeq
<1> QED BY <1>1, <1>2 DEF Covers

\* Data that fill no more than a block have no tree.
LEMMA SmallTree == ASSUME NEW n \in Nat, n <= PerBlock PROVE TreeSize(n) = 0
<1>1. PICK s : s = LevelSizes(n) OBVIOUS
<1>2. s = << >> /\ IsSeq(s) /\ Len(s) = 0
    BY <1>1, LevelSizesIs, NilIs DEF NilSeq
<1>3. PICK b \in Nat \ {0} : b = PerBlock BY SizesOK
<1>4. \A i \in 1 .. Len(s) : s[i] \in Nat /\ s[i] % b = 0
    BY <1>2
<1>5. SumBehind(s, Len(s)) = 0 BY <1>2, <1>4, SumIs
<1> QED BY <1>1, <1>2, <1>5 DEF TreeSize

CoverSays(c, p, data, a, n) ==
    /\ c.name = p /\ c.type = a.op /\ c.data = data /\ c.pinned \in BOOLEAN /\ c.tree \in BOOLEAN
    /\ c.type \in {"add_hash", "add_hashtree"}
    /\ (c.pinned = TRUE <=> a.persistent = FALSE) /\ a.persistent \in BOOLEAN /\ a.tree \in BOOLEAN
    /\ a.op = "add_hashtree" => (c.tree = TRUE <=> a.tree = TRUE \/ n <= PerBlock)

\* What is recorded of a partition with a footer.
LEMMA CoverIs ==
    ASSUME NEW a \in Footers, NEW p, NEW data, NEW n \in Nat, n = Len(data), NEW c, c = Cover(p, data, a)
    PROVE  CoverSays(c, p, data, a, n)
<1>1. a.persistent \in BOOLEAN /\ a.tree \in BOOLEAN /\ a.op \in {"add_hash", "add_hashtree"}
    BY AvbImagesAssumption
<1>2. PICK b \in Nat : b = PerBlock BY SizesOK
<1>3. c.name = p /\ c.type = a.op /\ c.data = data
    BY DEF Cover
<1>4. c.pinned \in BOOLEAN /\ (c.pinned = TRUE <=> a.persistent = FALSE)
    BY <1>1 DEF Cover
<1>5. c.tree \in BOOLEAN /\ (a.op = "add_hashtree" => (c.tree = TRUE <=> a.tree = TRUE \/ n <= b))
    BY <1>1, <1>2 DEF Cover
<1> QED BY <1>1, <1>2, <1>3, <1>4, <1>5 DEF CoverSays

\* The struct that is generated, when it is.
LEMMA GenerateIs ==
    ASSUME NEW a, ArgumentsOK(a), NEW own, NEW hts, NEW minor, NEW blob, blob = Generate(a, own, hts, minor, files),
           blob # << >>
    PROVE  /\ Args(a) /\ \A k \in DOMAIN a.include : Parses(files[a.include[k]])
           /\ blob = Struct(a, Descriptors(a, own, hts, files), Minor(a, minor, files))
<1>1. ~ Ungenerable(a, files) BY DEF Generate
<1>2. blob = Struct(a, Descriptors(a, own, hts, files), Minor(a, minor, files))
    BY <1>1 DEF Generate
<1>3. ~ KeyRefused(a) /\ \A k \in DOMAIN a.include : Parses(files[a.include[k]])
    BY <1>1 DEF Ungenerable
<1> QED BY <1>2, <1>3 DEF Args

\* A struct with descriptors that are known is sound.
LEMMA SoundIs ==
    ASSUME NEW a, Args(a), NEW ds, NEW r, NEW own, NEW blob, blob = Struct(a, ds, r),
           Knows(ds, Covers(a, own), Made(a, own, << >>).chains), Enough(ds, r),
           NEW m, m = Made(a, own, blob)
    PROVE  Sound(m) /\ Ds(m) = ds /\ m.blob = blob /\ blob # << >> /\ IsSeq(blob)
<1>1. IsSeq(ds) BY DEF Knows
<1>2. ParseImage(blob) = ds /\ blob # << >>
    BY <1>1, StructParses
<1>3. /\ m.blob = blob /\ m.alg = a.alg /\ m.key = IF a.alg = "NONE" THEN None ELSE a.key
      /\ m.covers = Covers(a, own) /\ m.chains = Made(a, own, << >>).chains
    BY MadeParts
<1>4. Ds(m) = ds BY <1>2, <1>3 DEF Ds
<1>5. Sound(m) BY <1>3, <1>4 DEF Sound
<1>6. IsSeq(blob) BY <1>2, <1>3, <1>5, NoFooterIn
<1> QED BY <1>2, <1>3, <1>4, <1>5, <1>6

\* A footer is sound.
LEMMA FooterSound ==
    ASSUME FilesKnown, hurt = {}, NEW a, ArgumentsOK(a), a.include = << >>, NEW p \in ToSet(Names), p \in DOMAIN Sizes,
           NEW own, NEW covers, NEW minor, Requires(a, minor), Owns(p, own, covers, minor),
           NEW hts, IsSeq(hts), NEW blob, blob = Generate(a, own, hts, minor, files), blob # << >>,
           NEW m, m = Made(a, covers, blob)
    PROVE  /\ Sound(m) /\ m.blob = blob /\ IsSeq(blob)
           /\ \A d : Has(Ds(m), d) /\ d.type = "hashtree" => Has(own, d)
<1>1. PICK ds : ds = Descriptors(a, own, hts, files) OBVIOUS
<1>2. PICK r : r = Minor(a, minor, files) OBVIOUS
<1>3. Args(a) /\ (\A k \in DOMAIN a.include : Parses(files[a.include[k]])) /\ blob = Struct(a, ds, r)
    BY <1>1, <1>2, GenerateIs
<1>4. /\ Knows(ds, Covers(a, covers), Made(a, covers, << >>).chains) /\ Enough(ds, minor)
      /\ \A d : Has(ds, d) /\ d.type \in {"hash", "hashtree"} => Has(own, d)
    BY <1>1, FooterKnows
<1>5. minor \in 0 .. 3 /\ r \in 0 .. 3 /\ minor <= r
    BY <1>2, <1>3, MinorIs DEF Requires
<1>6. Enough(ds, r)
    BY <1>4, <1>5, NeedsLittle DEF Enough
<1>7. Sound(m) /\ Ds(m) = ds /\ m.blob = blob /\ IsSeq(blob)
    BY <1>3, <1>4, <1>6, SoundIs
<1> QED BY <1>4, <1>7

\* So is a vbmeta image.
LEMMA MakeSound ==
    ASSUME FilesKnown, hurt = {}, NEW a, ArgumentsOK(a), NEW minor, Requires(a, minor),
           NEW blob, blob = Generate(a, << >>, << >>, minor, files), blob # << >>,
           NEW m, m = Made(a, {}, blob)
    PROVE  Sound(m) /\ m.blob = blob /\ IsSeq(blob)
<1>1. PICK ds : ds = Descriptors(a, << >>, << >>, files) OBVIOUS
<1>2. PICK r : r = Minor(a, minor, files) OBVIOUS
<1>3. Args(a) /\ (\A k \in DOMAIN a.include : Parses(files[a.include[k]])) /\ blob = Struct(a, ds, r)
    BY <1>1, <1>2, GenerateIs
<1>4. Knows(ds, Covers(a, {}), Made(a, {}, << >>).chains) /\ Enough(ds, r)
    BY <1>1, <1>2, <1>3, MakeKnows
<1> QED BY <1>3, <1>4, SoundIs

\* An output that has been emptied can be included by no command that succeeds.
LEMMA EmptiedIncluded ==
    ASSUME NEW a, ArgumentsOK(a), NEW p \in ToSet(Names), NEW fs, fs[p] = << >>,
           \A q \in ToSet(Names) : q # p => fs[q] = files[q],
           NEW own, NEW hts, NEW minor, Generate(a, own, hts, minor, fs) # << >>
    PROVE  Generate(a, own, hts, minor, fs) = Generate(a, own, hts, minor, files)
<1> DEFINE Inc(parsed, images) ==
        LET of(n, t)  == FlattenSeq([i \in DOMAIN images |->
                           FlattenSeq([k \in DOMAIN parsed[i] |->
                             IF parsed[i][k].type = t /\ parsed[i][k].name = n THEN <<parsed[i][k]>> ELSE << >>])])
            named(t)  == FlattenSeq([n \in DOMAIN Names |->
                           IF of(Names[n], t) = << >> THEN << >> ELSE <<Kept(of(Names[n], t))>>])
        IN  FlattenSeq([i \in DOMAIN images |-> OfTypes(parsed[i], {"property", "cmdline"})])
                \o named("chain") \o named("hash") \o named("hashtree")
<1>1. ~ Parses(<< >>)
    <2>1. VbmetaOffset(<< >>) = 0 BY DEF VbmetaOffset, HasFooter
    <2>2. ~ IsHeader(<< >>) BY <2>1 DEF IsHeader
    <2> QED BY <2>2 DEF Parses
<1>2. fs[p] = << >> /\ \A q \in ToSet(Names) : q # p => fs[q] = files[q]
    OBVIOUS
<1>3. ~ Ungenerable(a, fs) BY DEF Generate
<1>4. \A k \in DOMAIN a.include : a.include[k] \in ToSet(Names)
    BY DEF ArgumentsOK
<1>5. \A k \in DOMAIN a.include : Parses(fs[a.include[k]]) /\ fs[a.include[k]] = files[a.include[k]]
    BY <1>1, <1>2, <1>3, <1>4 DEF Ungenerable
<1>6. a.rootfs # None => fs[a.rootfs] = files[a.rootfs]
    BY <1>1, <1>2, <1>3 DEF Ungenerable, RootfsRefused, ArgumentsOK
<1>7. ~ Ungenerable(a, files)
    BY <1>3, <1>5, <1>6, Zenon DEF Ungenerable
<1>8. Minor(a, minor, fs) = Minor(a, minor, files)
    <2>1. { HeaderOf(fs[a.include[k]]).minor : k \in DOMAIN a.include }
            = { HeaderOf(files[a.include[k]]).minor : k \in DOMAIN a.include }
        BY <1>5
    <2> QED BY <2>1, Zenon DEF Minor
<1>9. Included(fs, a.include) = Included(files, a.include)
    <2>1. PICK x : x = [i \in DOMAIN a.include |-> ParseImage(fs[a.include[i]])] OBVIOUS
    <2>2. x = [i \in DOMAIN a.include |-> ParseImage(files[a.include[i]])]
        BY <1>5, <2>1
    <2>3. Included(fs, a.include) = Inc([i \in DOMAIN a.include |-> ParseImage(fs[a.include[i]])], a.include)
        BY Zenon DEF Included
    <2>4. Included(files, a.include) = Inc([i \in DOMAIN a.include |-> ParseImage(files[a.include[i]])], a.include)
        BY Zenon DEF Included
    <2> HIDE DEF Inc
    <2> QED BY <2>1, <2>2, <2>3, <2>4
<1>10. Descriptors(a, own, hts, fs) = Descriptors(a, own, hts, files)
    <2>1. (IF a.rootfs = None THEN << >> ELSE RootfsCmdlines(fs[a.rootfs]))
            = (IF a.rootfs = None THEN << >> ELSE RootfsCmdlines(files[a.rootfs]))
        BY <1>6
    <2> QED BY <1>9, <2>1 DEF Descriptors
<1> QED BY <1>3, <1>7, <1>8, <1>10, Zenon DEF Generate

\* The version a command requires suffices for its own descriptors.
LEMMA MinorOfIs ==
    ASSUME NEW a, ArgumentsOK(a)
    PROVE  /\ Requires(a, MinorOf(a))
           /\ a.persistent = TRUE \/ a.flags # {} => MinorOf(a) >= 1
<1>1. MinorOf(a) \in 0 .. 3 BY DEF MinorOf
<1>2. IsSeq(a.chains) BY DEF ArgumentsOK, IsSeq
<1>3. \A k \in 1 .. Len(a.chains) : k \in DOMAIN a.chains /\ a.chains[k].ab \in BOOLEAN
    <2> TAKE k \in 1 .. Len(a.chains)
    <2>1. k \in DOMAIN a.chains BY <1>2, SeqDomain
    <2>2. a.chains[k] \in ToSet(a.chains)
        BY <2>1 DEF ToSet
    <2> QED BY <2>1, <2>2 DEF ArgumentsOK
<1>4. (\E k \in DOMAIN a.chains : ~ a.chains[k].ab) => MinorOf(a) = 3
    BY DEF MinorOf
<1>5. \A k \in 1 .. Len(a.chains) : a.chains[k].ab = TRUE \/ MinorOf(a) = 3
    BY <1>3, <1>4
<1>6. a.persistent = TRUE \/ a.flags # {} => MinorOf(a) >= 1
    BY DEF MinorOf
<1> QED BY <1>1, <1>5, <1>6 DEF Requires

\* add_hash_footer: its descriptor says what it covers.
LEMMA HashOwns ==
    ASSUME NEW a, a \in Footers, a.op = "add_hash", NEW p, NEW data, IsSeq(data), NEW d,
           d = Hash(p, Len(data), IF a.persistent THEN << >> ELSE <<Digest(data)>>, a.flags)
    PROVE  Owns(p, <<d>>, {Cover(p, data, a)}, MinorOf(a)) /\ d.type = "hash"
<1>1. PICK c : c = Cover(p, data, a) OBVIOUS
<1>2. /\ c.name = p /\ c.type = "add_hash" /\ c.data = data /\ c.pinned \in BOOLEAN /\ c.tree \in BOOLEAN
      /\ c.pinned = TRUE <=> a.persistent = FALSE
    <2>1. PICK n \in Nat : n = Len(data) BY LenNat
    <2>2. CoverSays(c, p, data, a, n)
        BY <1>1, <2>1, CoverIs
    <2> QED BY <2>2 DEF CoverSays
<1>3. /\ d.type = "hash" /\ d.name = p /\ d.image_size = Len(data) /\ d.flags = a.flags
      /\ d.digest = IF a.persistent THEN << >> ELSE <<Digest(data)>>
    BY DEF Hash
<1>4. ArgumentsOK(a) /\ a.persistent \in BOOLEAN
    BY AvbImagesAssumption
<1>5. Describes(d, c)
    BY <1>2, <1>3, <1>4 DEF Describes, TypeOf, SaysDigest
<1>6. Needs(d) <= MinorOf(a)
    <2>1. << >> # <<Digest(data)>>
        BY OneSeq, NilIs DEF NilSeq
    <2>2. MinorOf(a) \in 0 .. 3 /\ (a.persistent = TRUE \/ a.flags # {} => MinorOf(a) >= 1)
        BY <1>4, MinorOfIs DEF Requires
    <2>3. PICK x : x = d.digest OBVIOUS
    <2>4. Needs(d) = IF d.flags # {} \/ << >> = x THEN 1 ELSE 0
        BY <1>3, <2>3 DEF Needs
    <2>5. CASE a.persistent = TRUE \/ a.flags # {}
        BY <2>2, <2>4, <2>5
    <2>6. CASE a.persistent = FALSE /\ a.flags = {}
        <3>1. x # << >> BY <1>3, <2>1, <2>3, <2>6
        <3> QED BY <1>3, <2>2, <2>4, <2>6, <3>1
    <2> QED BY <1>4, <2>5, <2>6
<1>7. \E x, e : /\ <<d>> = <<x>> /\ {c} = {e} /\ Describes(x, e) /\ e.name = p /\ Needs(x) <= MinorOf(a)
                /\ x.type \in {"hash", "hashtree"}
    BY <1>2, <1>3, <1>5, <1>6
<1> QED BY <1>1, <1>3, <1>7 DEF Owns

\* add_hashtree_footer: so does this one.
LEMMA TreeOwns ==
    ASSUME NEW a \in Footers, a.op = "add_hashtree", NEW p, NEW data, IsSeq(data),
           NEW d, d.type = "hashtree", d.name = p, d.image_size = Len(data), d.flags = a.flags,
           d.root_digest = IF a.persistent THEN << >> ELSE <<RootDigest(data)>>,
           d.tree_offset = Len(data), a.tree = TRUE => d.tree_size = TreeSize(Len(data)),
           a.tree = FALSE => d.tree_size = 0
    PROVE  Owns(p, <<d>>, {Cover(p, data, a)}, MinorOf(a))
<1>1. PICK c : c = Cover(p, data, a) OBVIOUS
<1>3. PICK n \in Nat : n = Len(data) BY LenNat
<1>2. /\ c.name = p /\ c.type = "add_hashtree" /\ c.data = data /\ c.pinned \in BOOLEAN /\ c.tree \in BOOLEAN
      /\ (c.pinned = TRUE <=> a.persistent = FALSE) /\ a.tree \in BOOLEAN
      /\ c.tree = TRUE <=> a.tree = TRUE \/ n <= PerBlock
    <2>1. CoverSays(c, p, data, a, n)
        BY <1>1, <1>3, CoverIs
    <2> QED BY <2>1 DEF CoverSays
<1>4. ArgumentsOK(a) /\ a.persistent \in BOOLEAN
    BY AvbImagesAssumption
<1>5. Describes(d, c)
    <2>1. SaysDigest(d.root_digest, c, RootDigest(c.data))
        BY <1>2, <1>4 DEF SaysDigest
    <2>2. n <= PerBlock => TreeSize(n) = 0 BY SmallTree
    <2>3. SaysTree(d, c)
        BY <1>2, <1>3, <2>2 DEF SaysTree
    <2> QED BY <1>2, <2>1, <2>3 DEF Describes, TypeOf
<1>6. Needs(d) <= MinorOf(a)
    <2>1. << >> # <<RootDigest(data)>>
        BY OneSeq, NilIs DEF NilSeq
    <2>2. MinorOf(a) \in 0 .. 3 /\ (a.persistent = TRUE \/ a.flags # {} => MinorOf(a) >= 1)
        BY <1>4, MinorOfIs DEF Requires
    <2>3. PICK x : x = d.root_digest OBVIOUS
    <2>4. Needs(d) = IF d.flags # {} \/ << >> = x THEN 1 ELSE 0
        BY <2>3 DEF Needs
    <2>5. CASE a.persistent = TRUE \/ a.flags # {}
        BY <2>2, <2>4, <2>5
    <2>6. CASE a.persistent = FALSE /\ a.flags = {}
        <3>1. x # << >> BY <2>1, <2>3, <2>6
        <3> QED BY <2>2, <2>4, <2>6, <3>1
    <2> QED BY <1>4, <2>5, <2>6
<1>7. \E x, e : /\ <<d>> = <<x>> /\ {c} = {e} /\ Describes(x, e) /\ e.name = p /\ Needs(x) <= MinorOf(a)
                /\ x.type \in {"hash", "hashtree"}
    BY <1>2, <1>5, <1>6
<1> QED BY <1>1, <1>7 DEF Owns

\* An image with a footer.
LEMMA WithFooterIs ==
    ASSUME NEW body, IsSeq(body), Len(body) % PerBlock = 0, \A i \in 1 .. Len(body) : Idle(body[i]),
           NEW blob, IsSeq(blob), NEW orig, NEW g, g = WithFooter(body, blob, orig)
    PROVE  /\ IsSeq(g) /\ Len(body) \in Nat /\ Len(g) \in Nat /\ Len(g) % PerBlock = 0 /\ g # << >>
           /\ g[Len(g)] = Footer(orig, Len(body), Len(blob))
           /\ Placed(g, Len(body), blob) /\ Len(body) + Len(blob) < Len(g)
           /\ \A i \in 1 .. Len(body) : g[i] = body[i]
           /\ \A i \in 1 .. Len(g) - 1 : i <= Len(body) \/ Len(body) + Len(blob) < i => Idle(g[i])
<1>1. PICK b \in Nat \ {0} : b = PerBlock BY SizesOK
<1>2. PICK n \in Nat : n = Len(body) /\ n % b = 0
    BY <1>1, LenNat
<1>3. PICK x : x = PadTo(blob, b) OBVIOUS
<1>4. /\ IsSeq(x) /\ Len(x) \in Nat /\ Len(blob) \in Nat /\ Len(blob) <= Len(x) /\ Len(x) % b = 0
      /\ \A k \in 1 .. Len(blob) : x[k] = blob[k]
      /\ \A k \in 1 .. Len(x) : k > Len(blob) => x[k] = Nul
    BY <1>3, PadSeq
<1>5. PICK l \in Nat : l = Len(x) /\ l % b = 0 BY <1>4
<1>6. PICK k0 \in Nat : k0 = Len(blob) /\ k0 <= l
    BY <1>4, <1>5
<1>7. PICK y : y = body \o x OBVIOUS
<1>8. /\ IsSeq(y) /\ Len(y) = n + l
      /\ \A k \in 1 .. n : y[k] = body[k]
      /\ \A k \in 1 .. l : y[n + k] = x[k]
    BY <1>2, <1>4, <1>5, <1>7, CatSeq
<1>9. PICK m \in Nat : m = b - 1 BY <1>1
<1>10. PICK z : z = y \o Nuls(m) OBVIOUS
<1>11. /\ IsSeq(z) /\ Len(z) = n + l + m
       /\ \A k \in 1 .. n + l : z[k] = y[k]
       /\ \A k \in 1 .. n + l + m : k > n + l => z[k] = Nul
    <2>1. IsSeq(y) /\ m \in Nat BY <1>8
    <2>2. /\ IsSeq(y \o Nuls(m)) /\ Len(y \o Nuls(m)) = Len(y) + m
          /\ \A k \in 1 .. Len(y) : (y \o Nuls(m))[k] = y[k]
          /\ \A k \in 1 .. Len(y) + m : k > Len(y) => (y \o Nuls(m))[k] = Nul
        BY <2>1, NulsBehind, ZenonT(40)
    <2>3. Len(y) = n + l BY <1>8
    <2>4. /\ IsSeq(z) /\ Len(z) = Len(y) + m
          /\ \A k \in 1 .. Len(y) : z[k] = y[k]
          /\ \A k \in 1 .. Len(y) + m : k > Len(y) => z[k] = Nul
        BY <1>10, <2>2, Zenon
    <2> QED BY <2>3, <2>4, Zenon
<1>12. PICK c : c = <<Footer(orig, n, k0)>> OBVIOUS
<1>13. IsSeq(c) /\ Len(c) = 1 /\ c[1] = Footer(orig, n, k0)
    BY <1>12, OneSeq
<1>14. g = z \o c
    BY <1>1, <1>2, <1>3, <1>6, <1>7, <1>9, <1>10, <1>12 DEF WithFooter
<1>15. /\ IsSeq(g) /\ Len(g) = n + l + m + 1
       /\ \A k \in 1 .. n + l + m : g[k] = z[k]
       /\ g[n + l + m + 1] = c[1]
    <2>1. /\ IsSeq(g) /\ Len(g) = Len(z) + Len(c)
          /\ \A k \in 1 .. Len(z) : g[k] = z[k]
          /\ \A k \in 1 .. Len(c) : g[Len(z) + k] = c[k]
        <3>1. IsSeq(z) /\ IsSeq(c) BY <1>11, <1>13
        <3> QED BY <1>14, <3>1, CatSeq
    <2> QED BY <1>11, <1>13, <2>1
<1>16. Len(g) % b = 0
    <2>1. b % b = 0 BY SMT
    <2>0. (n + l) % b = 0 BY <1>2, <1>5, SumAligned
    <2>2. PICK u \in Nat : u = n + l /\ u % b = 0
        BY <2>0
    <2>3. (u + b) % b = 0 BY <2>1, <2>2, SumAligned
    <2>4. Len(g) = u + b BY <1>9, <1>15, <2>2
    <2> QED BY <2>3, <2>4
<1>17. \A i \in 1 .. n : g[i] = body[i]
    <2> TAKE i \in 1 .. n
    <2>1. i \in 1 .. n + l /\ i \in 1 .. n + l + m OBVIOUS
    <2> QED BY <1>8, <1>11, <1>15, <2>1
<1>18. \A k \in 1 .. k0 : g[n + k] = blob[k]
    <2> TAKE k \in 1 .. k0
    <2>1. n + k \in 1 .. n + l /\ n + k \in 1 .. n + l + m /\ k \in 1 .. l
        BY <1>6
    <2> QED BY <1>4, <1>6, <1>8, <1>11, <1>15, <2>1
<1>19. ASSUME NEW i \in 1 .. n + l + m, i > n + k0 PROVE g[i] = Nul
    <2>1. CASE i > n + l BY <1>11, <1>15, <2>1
    <2>2. CASE ~ (i > n + l)
        <3>1. i - n \in 1 .. l /\ i - n > k0 /\ n + (i - n) = i /\ i \in 1 .. n + l
            BY <1>19, <2>2
        <3>2. x[i - n] = Nul /\ y[n + (i - n)] = x[i - n]
            BY <1>4, <1>5, <1>6, <1>8, <3>1
        <3> QED BY <1>11, <1>15, <3>1, <3>2
    <2> QED BY <2>1, <2>2
<1>20. Idle(Nul) BY NulDiffers DEF Idle
<1>21. g # << >> BY <1>15, LenNat
<1>22. \A i \in 1 .. n + l + m : i <= n \/ n + k0 < i => Idle(g[i])
    BY <1>2, <1>17, <1>19, <1>20
<1>23. Placed(g, n, blob) /\ n + k0 < Len(g)
    BY <1>6, <1>15, <1>18 DEF Placed
<1>24. Len(g) \in Nat /\ Len(g) - 1 = n + l + m /\ g[Len(g)] = Footer(orig, n, k0)
    BY <1>13, <1>15
<1> QED BY <1>1, <1>2, <1>6, <1>15, <1>16, <1>17, <1>21, <1>22, <1>23, <1>24

--------------------------------------------------
(* What is known of the images stays known. *)

\* Every command is recorded in the same way.
LEMMA RecordedIs == Recorded(Unmade) /\ \A a, own, blob : Recorded(Made(a, own, blob))
BY DEF Recorded, Unmade, Made

\* An image without a footer is data.
LEMMA BareLeft ==
    ASSUME NEW p, NEW g, IsSeq(g), \A i \in 1 .. Len(g) : g[i].kind = "data"
    PROVE  Left(p, g, Unmade)
BY DEF Left, Unmade

\* An image as it is built.
LEMMA DataIs ==
    ASSUME NEW p, NEW v, NEW n \in Nat
    PROVE  IsSeq(Data(p, v, n)) /\ \A i \in 1 .. Len(Data(p, v, n)) : Data(p, v, n)[i].kind = "data"
<1>1. PICK s : s = Data(p, v, n) OBVIOUS
<1>2. s = [i \in 1 .. n |-> [kind |-> "data", of |-> p, version |-> v, i |-> i]]
    BY <1>1 DEF Data
<1>3. s = [i \in 1 .. n |-> s[i]] /\ \A i \in 1 .. n : s[i].kind = "data"
    BY <1>2
<1>4. IsSeq(s) /\ Len(s) = n BY <1>3, MapSeq
<1> QED BY <1>1, <1>3, <1>4

\* A command leaves what it says it leaves.
LEMMA WritesKnown ==
    ASSUME Known, NEW p \in ToSet(Names), NEW g, NEW m, Recorded(m), Left(p, g, m), Writes(p, g, m)
    PROVE  Known'
<1>1. /\ hurt = {} /\ hurt' = {} /\ files' = [files EXCEPT ![p] = g] /\ made' = [made EXCEPT ![p] = m]
    BY DEF Writes
<1>2. DOMAIN files' = ToSet(Names) /\ DOMAIN made' = ToSet(Names)
    BY <1>1 DEF Known
<1>3. files'[p] = g /\ made'[p] = m /\ \A q \in ToSet(Names) : q # p => files'[q] = files[q] /\ made'[q] = made[q]
    BY <1>1 DEF Known
<1>4. ASSUME NEW q \in ToSet(Names)
      PROVE  \E f : Left(q, f, made'[q]) /\ Damaged(files'[q], f) /\ (q \notin hurt' => files'[q] = f)
    <2>1. CASE q = p
        <3>1. Damaged(g, g) BY DamagedSelf DEF Left
        <3> QED BY <1>3, <2>1, <3>1
    <2>2. CASE q # p
        <3>1. PICK f : Left(q, f, made[q]) /\ Damaged(files[q], f) /\ (q \notin hurt => files[q] = f)
            BY DEF Known, FilesKnown
        <3> QED BY <1>1, <1>3, <2>2, <3>1
    <2> QED BY <2>1, <2>2
<1>5. FilesKnown' BY <1>4 DEF FilesKnown
<1>6. \A q \in ToSet(Names) : Recorded(made'[q])
    BY <1>3 DEF Known
<1> QED BY <1>1, <1>2, <1>5, <1>6 DEF Known

\* In the beginning there are images without footers.
LEMMA InitKnown == ASSUME Init PROVE Known
<1>1. PICK n : /\ n \in { m \in [DOMAIN Sizes -> UNION { Sizes[p] : p \in DOMAIN Sizes }] :
                            \A p \in DOMAIN Sizes : m[p] \in Sizes[p] }
               /\ files = [p \in ToSet(Names) |-> IF p \in DOMAIN Sizes THEN Data(p, 0, n[p]) ELSE << >>]
    BY Zenon DEF Init
<1>2. \A p \in DOMAIN Sizes : n[p] \in Nat
    BY <1>1, AvbImagesAssumption
<1>3. hurt = {} /\ made = [p \in ToSet(Names) |-> Unmade]
    BY DEF Init
<1>4. ASSUME NEW q \in ToSet(Names)
      PROVE  \E f : Left(q, f, made[q]) /\ Damaged(files[q], f) /\ (q \notin hurt => files[q] = f)
    <2>1. PICK f : f = files[q] OBVIOUS
    <2>2. IsSeq(f) /\ \A i \in 1 .. Len(f) : f[i].kind = "data"
        <3>1. CASE q \in DOMAIN Sizes
            <4>1. PICK k \in Nat : k = n[q]
                BY <1>2, <3>1
            <4>2. f = Data(q, 0, k)
                BY <1>1, <2>1, <3>1, <4>1
            <4> QED BY <4>2, DataIs
        <3>2. CASE q \notin DOMAIN Sizes
            <4>1. f = << >> BY <1>1, <2>1, <3>2
            <4>2. 1 .. 0 = {} OBVIOUS
            <4> QED BY <4>1, <4>2, NilIs DEF NilSeq
        <3> QED BY <3>1, <3>2
    <2>3. made[q] = Unmade BY <1>3
    <2>4. Left(q, f, made[q]) /\ Damaged(f, f)
        BY <2>2, <2>3, BareLeft, DamagedSelf
    <2> QED BY <2>1, <2>4
<1>5. DOMAIN files = ToSet(Names) /\ DOMAIN made = ToSet(Names)
    BY <1>1, <1>3
<1>6. \A q \in ToSet(Names) : Recorded(made[q])
    BY <1>3, RecordedIs
<1> QED BY <1>3, <1>4, <1>5, <1>6 DEF Known, FilesKnown

\* A build writes such an image.
LEMMA BuildKnown ==
    ASSUME Known, NEW p \in DOMAIN Sizes, Build(p)
    PROVE  Known'
<1>1. PICK n \in Sizes[p] : Writes(p, Data(p, events', n), Unmade)
    BY DEF Build
<1>2. p \in ToSet(Names) /\ n \in Nat
    BY AvbImagesAssumption
<1>3. PICK g : g = Data(p, events', n) OBVIOUS
<1>4. PICK v : v = events' OBVIOUS
<1>5. g = Data(p, v, n) BY <1>3, <1>4
<1>6. IsSeq(g) /\ \A i \in 1 .. Len(g) : g[i].kind = "data"
    BY <1>2, <1>5, DataIs
<1>7. Left(p, g, Unmade) /\ Writes(p, g, Unmade)
    BY <1>1, <1>3, <1>6, BareLeft
<1> QED BY <1>2, <1>7, RecordedIs, WritesKnown

\* What a command that adds a footer starts from: data.
LEMMA OriginalIs ==
    ASSUME Known, hurt = {}, NEW p \in DOMAIN Sizes, files[p] # << >>, NEW d, d = Original(files[p])
    PROVE  IsSeq(d) /\ d # << >> /\ Len(d) \in Nat \ {0} /\ \A i \in 1 .. Len(d) : d[i].kind = "data"
<1>1. p \in ToSet(Names) BY AvbImagesAssumption
<1>2. PICK g : Left(p, g, made[p]) /\ Damaged(files[p], g) /\ files[p] = g
    BY <1>1 DEF Known, FilesKnown
<1>3. PICK m : m = made[p] OBVIOUS
<1>4. IsSeq(g) /\ Len(g) \in Nat \ {0}
    BY <1>2, LenNat DEF Left
<1>5. CASE m.blob = << >>
    <2>1. ~ HasFooter(g) /\ \A i \in 1 .. Len(g) : g[i].kind = "data"
        <3>1. ~ HasFooter(g)
            BY <1>2, <1>3, <1>5, BareRefused
        <3> QED BY <1>2, <1>3, <1>5, <3>1 DEF Left
    <2>2. d = g BY <1>2, <2>1 DEF Original
    <2> QED BY <1>2, <1>4, <2>1, <2>2
<1>6. CASE m.blob # << >>
    <2>0. PICK at \in Nat : \E orig \in 1 .. at :
              /\ g[Len(g)] = Footer(orig, at, Len(m.blob))
              /\ Placed(g, at, m.blob) /\ at + Len(m.blob) < Len(g)
              /\ \A i \in 1 .. orig : g[i].kind = "data"
        BY <1>2, <1>3, <1>6 DEF Left, Footed
    <2>1. PICK orig \in 1 .. at :
              /\ g[Len(g)] = Footer(orig, at, Len(m.blob))
              /\ Placed(g, at, m.blob) /\ at + Len(m.blob) < Len(g)
              /\ \A i \in 1 .. orig : g[i].kind = "data"
        BY <2>0
    <2>2. orig \in Nat /\ orig # 0 OBVIOUS
    <2>3. HasFooter(g) /\ Last(g).orig = orig
        BY <1>2, <2>1 DEF Footer, HasFooter, Last
    <2>4. d = Slice(g, 0, orig)
        BY <1>2, <2>3 DEF Original
    <2>5. PICK k0 \in Nat : k0 = Len(m.blob)
        <3>1. IsSeq(m.blob)
            BY <1>2, <1>3, <1>6, NoFooterIn DEF Left
        <3> QED BY <3>1, LenNat
    <2>6. orig < Len(g) BY <1>4, <2>1, <2>5
    <2>7. /\ IsSeq(Slice(g, 0, orig)) /\ Len(Slice(g, 0, orig)) = SliceLen(g, 0, orig)
          /\ \A k \in 1 .. SliceLen(g, 0, orig) : 0 + k <= Len(g) /\ Slice(g, 0, orig)[k] = g[0 + k]
        <3>1. IsSeq(g) /\ 0 \in Nat /\ orig \in Nat
            BY <1>4, <2>2
        <3> QED BY <3>1, SliceSeq
    <2>8. SliceLen(g, 0, orig) = orig
        BY <1>4, <2>2, <2>6 DEF SliceLen
    <2>9. IsSeq(d) /\ Len(d) = orig /\ \A k \in 1 .. orig : d[k] = g[k]
        BY <2>4, <2>7, <2>8
    <2> QED BY <2>1, <2>2, <2>9, LenNat
<1> QED BY <1>5, <1>6

\* The image that a footer is added to, as a whole.
LEMMA FootedIs ==
    ASSUME NEW m, NEW body, IsSeq(body), Len(body) % PerBlock = 0, \A i \in 1 .. Len(body) : Idle(body[i]),
           IsSeq(m.blob), NEW orig \in Nat, orig # 0, orig <= Len(body), \A i \in 1 .. orig : body[i].kind = "data",
           NEW g, g = WithFooter(body, m.blob, orig),
           \A d : Has(Ds(m), d) /\ d.type = "hashtree" =>
             /\ d.tree_offset \in Nat /\ d.tree_size \in Nat
             /\ orig <= d.tree_offset /\ d.tree_offset + d.tree_size <= Len(body)
    PROVE  IsSeq(g) /\ Footed(g, m)
<1>1. PICK b : b = m.blob OBVIOUS
<1>2. /\ IsSeq(g) /\ Len(body) \in Nat /\ Len(g) \in Nat /\ Len(g) % PerBlock = 0 /\ g # << >>
      /\ g[Len(g)] = Footer(orig, Len(body), Len(b))
      /\ Placed(g, Len(body), b) /\ Len(body) + Len(b) < Len(g)
      /\ \A i \in 1 .. Len(body) : g[i] = body[i]
      /\ \A i \in 1 .. Len(g) - 1 : i <= Len(body) \/ Len(body) + Len(b) < i => Idle(g[i])
    <2>1. IsSeq(b) /\ g = WithFooter(body, b, orig)
        BY <1>1
    <2> QED BY <2>1, WithFooterIs
<1>3. PICK at \in Nat : at = Len(body) BY <1>2
<1>4. orig \in 1 .. at /\ \A i \in 1 .. orig : g[i].kind = "data"
    BY <1>2, <1>3
<1> QED BY <1>1, <1>2, <1>3, <1>4 DEF Footed

\* What a footer command covers is in the body of the image.
LEMMA CoversHeld ==
    ASSUME NEW a \in Footers, a.include = << >>, NEW p, NEW data, IsSeq(data), NEW c, c = Cover(p, data, a),
           NEW blob, NEW m, m = Made(a, {c}, blob), NEW body, IsSeq(body), Placed(body, 0, data),
           c.type = "add_hashtree" /\ c.tree = TRUE => Placed(body, Len(data), GenerateTree(data)),
           NEW g, Len(body) <= Len(g), Len(g) \in Nat, \A i \in 1 .. Len(body) : g[i] = body[i]
    PROVE  HoldsCovers(g, m)
<1>1. m.zeroed = FALSE /\ m.covers = {c}
    BY OwnCovers, MadeParts
<1>2. c.data = data BY DEF Cover
<1>3. PICK n, l, k \in Nat : n = Len(data) /\ l = Len(body) /\ k = Len(g)
    BY LenNat
<1>4. Placed(g, 0, data)
    <2>1. n <= l /\ \A i \in 1 .. n : body[0 + i] = data[i]
        BY <1>3 DEF Placed
    <2>2. \A i \in 1 .. n : 0 + i = i /\ i \in 1 .. l
        BY <2>1
    <2> QED BY <1>3, <2>1, <2>2 DEF Placed
<1>5. c.type = "add_hashtree" /\ c.tree = TRUE => Placed(g, n, GenerateTree(data))
    <2> SUFFICES ASSUME c.type = "add_hashtree" /\ c.tree = TRUE PROVE Placed(g, n, GenerateTree(data))
        OBVIOUS
    <2>1. PICK t : t = GenerateTree(data) OBVIOUS
    <2>2. PICK e \in Nat : e = Len(t) BY <2>1, TreeIs
    <2>3. n + e <= l /\ \A i \in 1 .. e : body[n + i] = t[i]
        BY <1>3, <2>1, <2>2 DEF Placed
    <2>4. \A i \in 1 .. e : n + i \in 1 .. l BY <2>3
    <2>5. n + e <= k /\ \A i \in 1 .. e : g[n + i] = t[i]
        BY <1>3, <2>3, <2>4
    <2> QED BY <1>3, <2>1, <2>2, <2>5 DEF Placed
<1> QED BY <1>1, <1>2, <1>3, <1>4, <1>5 DEF HoldsCovers, HoldsTree

\* add_hash_footer, also when it is refused.
LEMMA HashFooterKnown ==
    ASSUME Known, NEW a \in Footers, AddHashFooter(a.image, a)
    PROVE  Known'
<1>1. PICK p \in DOMAIN Sizes : p = a.image /\ p \in ToSet(Names)
    BY AvbImagesAssumption
<1>2. ArgumentsOK(a) /\ a.include = << >> /\ a.op = "add_hash" /\ files[p] # << >>
    BY <1>1, AvbImagesAssumption DEF AddHashFooter
<1>3. PICK data : data = Original(files[p]) OBVIOUS
<1>4. PICK d : d = Hash(p, Len(data), IF a.persistent THEN << >> ELSE <<Digest(data)>>, a.flags)
    OBVIOUS
<1>5. PICK blob : blob = Generate(a, <<d>>, << >>, MinorOf(a), files) OBVIOUS
<1>6. PICK m : m = Made(a, {Cover(p, data, a)}, blob) OBVIOUS
<1>7. PICK body : body = PadTo(data, PerBlock) OBVIOUS
<1>8. PICK g : g = WithFooter(body, blob, Len(data)) OBVIOUS
<1>9. IF blob = << >> THEN Writes(p, data, Unmade) ELSE Writes(p, g, m)
    BY <1>1, <1>3, <1>4, <1>5, <1>6, <1>7, <1>8 DEF AddHashFooter
<1>10. hurt = {} BY <1>9 DEF Writes
<1>11. IsSeq(data) /\ Len(data) \in Nat \ {0} /\ \A i \in 1 .. Len(data) : data[i].kind = "data"
    BY <1>2, <1>3, <1>10, OriginalIs
<1>12. CASE blob = << >>
    <2>1. Writes(p, data, Unmade) /\ Left(p, data, Unmade)
        BY <1>9, <1>11, <1>12, BareLeft
    <2> QED BY <1>1, <2>1, RecordedIs, WritesKnown
<1>13. CASE blob # << >>
    <2>1. /\ Sound(m) /\ m.blob = blob /\ IsSeq(blob)
          /\ \A e : Has(Ds(m), e) /\ e.type = "hashtree" => Has(<<d>>, e)
        <3>1. Requires(a, MinorOf(a)) BY <1>2, MinorOfIs
        <3>2. Owns(p, <<d>>, {Cover(p, data, a)}, MinorOf(a))
            BY <1>2, <1>4, <1>11, HashOwns
        <3>3. FilesKnown /\ IsSeq(<< >>)
            BY NilIs DEF Known, NilSeq
        <3>4. PICK own : own = <<d>> OBVIOUS
        <3>5. PICK covers : covers = {Cover(p, data, a)} OBVIOUS
        <3>6. PICK minor : minor = MinorOf(a) OBVIOUS
        <3>7. PICK hs : hs = << >> OBVIOUS
        <3>8. /\ FilesKnown /\ hurt = {} /\ ArgumentsOK(a) /\ a.include = << >> /\ p \in ToSet(Names)
              /\ p \in DOMAIN Sizes /\ Requires(a, minor) /\ Owns(p, own, covers, minor) /\ IsSeq(hs)
              /\ blob = Generate(a, own, hs, minor, files) /\ blob # << >> /\ m = Made(a, covers, blob)
            BY <1>1, <1>2, <1>5, <1>6, <1>10, <1>13, <3>1, <3>2, <3>3, <3>4, <3>5, <3>6, <3>7
        <3>9. /\ Sound(m) /\ m.blob = blob /\ IsSeq(blob)
              /\ \A e : Has(Ds(m), e) /\ e.type = "hashtree" => Has(own, e)
            BY <3>8, FooterSound
        <3> QED BY <3>4, <3>9
    <2>2. \A e : ~ (Has(Ds(m), e) /\ e.type = "hashtree")
        <3>1. d.type = "hash"
            BY <1>2, <1>4, <1>11, HashOwns
        <3>2. \A e : Has(<<d>>, e) <=> e = d BY OneSeq
        <3> QED BY <2>1, <3>1, <3>2
    <2>3. /\ IsSeq(body) /\ Len(body) % PerBlock = 0 /\ Len(data) <= Len(body)
          /\ \A k \in 1 .. Len(data) : body[k] = data[k]
          /\ \A k \in 1 .. Len(body) : k > Len(data) => body[k] = Nul
        <3>1. PICK b \in Nat \ {0} : b = PerBlock
            BY SizesOK
        <3>2. body = PadTo(data, b) BY <1>7, <3>1
        <3> QED BY <1>11, <3>1, <3>2, PadSeq
    <2>4. \A i \in 1 .. Len(body) : Idle(body[i])
        <3> TAKE i \in 1 .. Len(body)
        <3>1. CASE i > Len(data)
            BY <2>3, <3>1, NulDiffers DEF Idle
        <3>2. CASE ~ (i > Len(data))
            <4>1. i \in 1 .. Len(data) BY <1>11, <3>2
            <4> QED BY <1>11, <2>3, <4>1 DEF Idle
        <3> QED BY <3>1, <3>2
    <2>5. IsSeq(g) /\ Footed(g, m)
        <3>1. PICK orig \in Nat : orig = Len(data) /\ orig # 0
            BY <1>11
        <3>2. orig <= Len(body) /\ (\A i \in 1 .. orig : body[i].kind = "data") /\ IsSeq(m.blob)
              /\ g = WithFooter(body, m.blob, orig)
            BY <1>8, <1>11, <2>1, <2>3, <3>1
        <3> QED BY <2>2, <2>3, <2>4, <3>1, <3>2, FootedIs
    <2>7. HoldsCovers(g, m)
        <3>1. PICK c : c = Cover(p, data, a) OBVIOUS
        <3>2. c.type = "add_hash" /\ m = Made(a, {c}, blob)
            BY <1>2, <1>6, <3>1 DEF Cover
        <3>3. Placed(body, 0, data)
            BY <1>11, <2>3, LenNat DEF Placed
        <3>4. Len(body) <= Len(g) /\ Len(g) \in Nat /\ \A i \in 1 .. Len(body) : g[i] = body[i]
            <4>1. /\ Len(body) \in Nat /\ Len(g) \in Nat /\ Len(body) + Len(blob) < Len(g)
                  /\ \A i \in 1 .. Len(body) : g[i] = body[i]
                BY <1>8, <2>1, <2>3, <2>4, WithFooterIs
            <4>2. Len(blob) \in Nat BY <2>1, LenNat
            <4> QED BY <4>1, <4>2
        <3> QED BY <1>2, <1>11, <2>3, <3>1, <3>2, <3>3, <3>4, CoversHeld
    <2>6. Left(p, g, m)
        BY <1>13, <2>1, <2>5, <2>7 DEF Left
    <2>10. Recorded(m) BY <1>6, RecordedIs
    <2> QED BY <1>1, <1>9, <1>13, <2>6, <2>10, WritesKnown
<1> QED BY <1>12, <1>13

\* add_hashtree_footer, also when it is refused.
LEMMA TreeFooterKnown ==
    ASSUME Known, NEW a \in Footers, AddHashtreeFooter(a.image, a)
    PROVE  Known'
<1>1. PICK p \in DOMAIN Sizes : p = a.image /\ p \in ToSet(Names)
    BY AvbImagesAssumption
<1>2. ArgumentsOK(a) /\ a.include = << >> /\ a.op = "add_hashtree" /\ files[p] # << >>
    BY <1>1, AvbImagesAssumption DEF AddHashtreeFooter
<1>3. PICK orig : orig = Original(files[p]) OBVIOUS
<1>3a. PICK data : data = Hashed(orig) OBVIOUS
<1>3b. PICK tree : tree = IF a.tree THEN GenerateTree(data) ELSE << >> OBVIOUS
<1>4. PICK d : d = Hashtree(p, Len(data), Len(tree), IF a.persistent THEN << >> ELSE <<RootDigest(data)>>, a.flags)
    OBVIOUS
<1>4a. PICK hts : hts = IF a.as_rootfs THEN <<d>> ELSE << >> OBVIOUS
<1>5. PICK blob : blob = Generate(a, <<d>>, hts, MinorOf(a), files) OBVIOUS
<1>6. PICK m : m = Made(a, {Cover(p, data, a)}, blob) OBVIOUS
<1>7. PICK body : body = data \o tree OBVIOUS
<1>8. PICK g : g = WithFooter(body, blob, Len(orig)) OBVIOUS
<1>9. IF blob = << >> THEN Writes(p, orig, Unmade) ELSE Writes(p, g, m)
    BY <1>1, <1>3, <1>3a, <1>3b, <1>4, <1>4a, <1>5, <1>6, <1>7, <1>8 DEF AddHashtreeFooter
<1>10. hurt = {} BY <1>9 DEF Writes
<1>11. IsSeq(orig) /\ Len(orig) \in Nat \ {0} /\ \A i \in 1 .. Len(orig) : orig[i].kind = "data"
    BY <1>2, <1>3, <1>10, OriginalIs
<1>12. CASE blob = << >>
    <2>1. Writes(p, orig, Unmade) /\ Left(p, orig, Unmade)
        BY <1>9, <1>11, <1>12, BareLeft
    <2> QED BY <1>1, <2>1, RecordedIs, WritesKnown
<1>13. CASE blob # << >>
    <2>1. /\ IsSeq(data) /\ Len(data) \in Nat /\ Len(data) % PerBlock = 0 /\ Len(orig) <= Len(data)
          /\ \A k \in 1 .. Len(orig) : data[k] = orig[k]
          /\ \A k \in 1 .. Len(data) : k > Len(orig) => data[k] = Nul
        <3>1. PICK b \in Nat \ {0} : b = PerBlock
            BY SizesOK
        <3>2. data = PadTo(orig, b)
            BY <1>3a, <3>1 DEF Hashed
        <3> QED BY <1>11, <3>1, <3>2, PadSeq
    <2>2. /\ IsSeq(tree) /\ Len(tree) \in Nat /\ Len(tree) % PerBlock = 0
          /\ \A i \in 1 .. Len(tree) : tree[i].kind \in {"digest", "nul"}
        <3>1. CASE a.tree = TRUE
            <4>1. tree = GenerateTree(data)
                BY <1>3b, <3>1
            <4>2. /\ IsSeq(GenerateTree(data)) /\ Len(GenerateTree(data)) = TreeSize(Len(data))
                  /\ TreeSize(Len(data)) \in Nat /\ TreeSize(Len(data)) % PerBlock = 0
                  /\ \A i \in 1 .. TreeSize(Len(data)) : GenerateTree(data)[i].kind \in {"digest", "nul"}
                BY <2>1, TreeIs
            <4> QED BY <4>1, <4>2
        <3>2. CASE a.tree = FALSE
            <4>1. tree = << >> /\ Len(tree) = 0 /\ IsSeq(tree)
                BY <1>3b, <3>2, NilIs DEF NilSeq
            <4>2. 0 % PerBlock = 0 /\ 1 .. 0 = {}
                <5>1. PICK b \in Nat \ {0} : b = PerBlock
                    BY SizesOK
                <5>2. 0 % b = 0 /\ 1 .. 0 = {} BY SMT
                <5> QED BY <5>1, <5>2
            <4> QED BY <4>1, <4>2
        <3> QED BY <3>1, <3>2, AvbImagesAssumption
    <2>3. /\ IsSeq(body) /\ Len(body) = Len(data) + Len(tree) /\ Len(body) % PerBlock = 0
          /\ \A k \in 1 .. Len(data) : body[k] = data[k]
          /\ \A k \in 1 .. Len(tree) : body[Len(data) + k] = tree[k]
        <3>1. PICK n \in Nat : n = Len(data) /\ n % PerBlock = 0
            BY <2>1
        <3>2. PICK l \in Nat : l = Len(tree) /\ l % PerBlock = 0
            BY <2>2
        <3>3. (n + l) % PerBlock = 0
            <4>1. PICK b \in Nat \ {0} : b = PerBlock
                BY SizesOK
            <4>2. n % b = 0 /\ l % b = 0
                BY <3>1, <3>2, <4>1
            <4>3. (n + l) % b = 0 BY <4>2, SumAligned
            <4> QED BY <4>1, <4>3
        <3>4. IsSeq(data) /\ IsSeq(tree) BY <2>1, <2>2
        <3>5. /\ IsSeq(body) /\ Len(body) = Len(data) + Len(tree)
              /\ \A k \in 1 .. Len(data) : body[k] = data[k]
              /\ \A k \in 1 .. Len(tree) : body[Len(data) + k] = tree[k]
            BY <1>7, <3>4, CatSeq
        <3> QED BY <3>1, <3>2, <3>3, <3>5
    <2>4. \A i \in 1 .. Len(body) : Idle(body[i])
        <3> TAKE i \in 1 .. Len(body)
        <3>1. CASE i <= Len(orig)
            <4>1. i \in 1 .. Len(orig) /\ i \in 1 .. Len(data)
                BY <1>11, <2>1, <3>1
            <4> QED BY <1>11, <2>1, <2>3, <4>1 DEF Idle
        <3>2. CASE ~ (i <= Len(orig)) /\ i <= Len(data)
            <4>1. i \in 1 .. Len(data) /\ i > Len(orig)
                BY <1>11, <2>1, <3>2
            <4>2. body[i] = Nul BY <2>1, <2>3, <4>1
            <4> QED BY <4>2, NulDiffers DEF Idle
        <3>3. CASE ~ (i <= Len(data))
            <4>1. i - Len(data) \in 1 .. Len(tree) /\ Len(data) + (i - Len(data)) = i
                BY <2>1, <2>2, <2>3, <3>3
            <4>2. body[i] = tree[i - Len(data)]
                BY <2>3, <4>1
            <4> QED BY <2>2, <4>1, <4>2 DEF Idle
        <3> QED BY <3>1, <3>2, <3>3
    <2>5. /\ Owns(p, <<d>>, {Cover(p, data, a)}, MinorOf(a))
          /\ d.type = "hashtree" /\ d.tree_offset = Len(data) /\ d.tree_size = Len(tree)
        <3>1. PICK size : size = Len(tree) OBVIOUS
        <3>2. d = Hashtree(p, Len(data), size, IF a.persistent THEN << >> ELSE <<RootDigest(data)>>, a.flags)
            BY <1>4, <3>1
        <3>3. /\ d.type = "hashtree" /\ d.name = p /\ d.image_size = Len(data) /\ d.flags = a.flags
              /\ d.root_digest = IF a.persistent THEN << >> ELSE <<RootDigest(data)>>
              /\ d.tree_offset = Len(data) /\ d.tree_size = size
            BY <3>2 DEF Hashtree
        <3>5. a.tree = TRUE => d.tree_size = TreeSize(Len(data))
            BY <1>3b, <2>1, <3>1, <3>3, TreeIs
        <3>6. a.tree = FALSE => d.tree_size = 0
            BY <1>3b, <3>1, <3>3, NilIs DEF NilSeq
        <3>4. Owns(p, <<d>>, {Cover(p, data, a)}, MinorOf(a))
            BY <1>2, <2>1, <3>3, <3>5, <3>6, TreeOwns
        <3> QED BY <3>1, <3>3, <3>4
    <2>6. /\ Sound(m) /\ m.blob = blob /\ IsSeq(blob)
          /\ \A e : Has(Ds(m), e) /\ e.type = "hashtree" => Has(<<d>>, e)
        <3>1. Requires(a, MinorOf(a)) BY <1>2, MinorOfIs
        <3>2. IsSeq(hts)
            BY <1>4a, NilIs, OneSeq DEF NilSeq
        <3>3. FilesKnown BY DEF Known
        <3>4. PICK own : own = <<d>> OBVIOUS
        <3>5. PICK covers : covers = {Cover(p, data, a)} OBVIOUS
        <3>6. PICK minor : minor = MinorOf(a) OBVIOUS
        <3>8. /\ FilesKnown /\ hurt = {} /\ ArgumentsOK(a) /\ a.include = << >> /\ p \in ToSet(Names)
              /\ p \in DOMAIN Sizes /\ Requires(a, minor) /\ Owns(p, own, covers, minor) /\ IsSeq(hts)
              /\ blob = Generate(a, own, hts, minor, files) /\ blob # << >> /\ m = Made(a, covers, blob)
            BY <1>1, <1>2, <1>5, <1>6, <1>10, <1>13, <2>5, <3>1, <3>2, <3>3, <3>4, <3>5, <3>6
        <3>9. /\ Sound(m) /\ m.blob = blob /\ IsSeq(blob)
              /\ \A e : Has(Ds(m), e) /\ e.type = "hashtree" => Has(own, e)
            BY <3>8, FooterSound
        <3> QED BY <3>4, <3>9
    <2>7. \A e : Has(Ds(m), e) /\ e.type = "hashtree" =>
            /\ e.tree_offset \in Nat /\ e.tree_size \in Nat
            /\ Len(orig) <= e.tree_offset /\ e.tree_offset + e.tree_size <= Len(body)
        <3>1. \A e : Has(<<d>>, e) <=> e = d BY OneSeq
        <3> QED BY <1>11, <2>1, <2>2, <2>3, <2>5, <2>6, <3>1
    <2>8. IsSeq(g) /\ Footed(g, m)
        <3>1. PICK o \in Nat : o = Len(orig) /\ o # 0
            BY <1>11
        <3>2. o <= Len(body) /\ (\A i \in 1 .. o : body[i].kind = "data") /\ IsSeq(m.blob)
              /\ g = WithFooter(body, m.blob, o)
            BY <1>8, <1>11, <2>1, <2>2, <2>3, <2>6, <3>1
        <3>3. \A e : Has(Ds(m), e) /\ e.type = "hashtree" =>
                /\ e.tree_offset \in Nat /\ e.tree_size \in Nat
                /\ o <= e.tree_offset /\ e.tree_offset + e.tree_size <= Len(body)
            BY <2>7, <3>1
        <3> QED BY <2>3, <2>4, <3>1, <3>2, <3>3, FootedIs
    <2>11. HoldsCovers(g, m)
        <3>1. PICK c : c = Cover(p, data, a) OBVIOUS
        <3>2. m = Made(a, {c}, blob) BY <1>6, <3>1
        <3>3. Placed(body, 0, data)
            BY <2>1, <2>2, <2>3 DEF Placed
        <3>4. Len(body) <= Len(g) /\ Len(g) \in Nat /\ \A i \in 1 .. Len(body) : g[i] = body[i]
            <4>1. PICK o : o = Len(orig) OBVIOUS
            <4>2. g = WithFooter(body, blob, o)
                BY <1>8, <4>1
            <4>3. /\ Len(body) \in Nat /\ Len(g) \in Nat /\ Len(body) + Len(blob) < Len(g)
                  /\ \A i \in 1 .. Len(body) : g[i] = body[i]
                <5>1. /\ IsSeq(body) /\ Len(body) % PerBlock = 0 /\ (\A i \in 1 .. Len(body) : Idle(body[i]))
                      /\ IsSeq(blob) /\ g = WithFooter(body, blob, o)
                    BY <2>3, <2>4, <2>6, <4>2
                <5> QED BY <5>1, WithFooterIs
            <4>4. Len(blob) \in Nat BY <2>6, LenNat
            <4> QED BY <4>3, <4>4
        <3>5. c.type = "add_hashtree" /\ c.tree = TRUE => Placed(body, Len(data), GenerateTree(data))
            <4> SUFFICES ASSUME c.tree = TRUE PROVE Placed(body, Len(data), GenerateTree(data))
                OBVIOUS
            <4>1. PICK n \in Nat : n = Len(data) BY <2>1
            <4>2. a.tree = TRUE \/ n <= PerBlock
                <5>1. CoverSays(c, p, data, a, n)
                    BY <3>1, <4>1, CoverIs
                <5> QED BY <1>2, <5>1 DEF CoverSays
            <4>3. CASE a.tree = TRUE
                <5>1. tree = GenerateTree(data)
                    BY <1>3b, <4>3
                <5> QED BY <2>2, <2>3, <5>1 DEF Placed
            <4>4. CASE n <= PerBlock
                <5>1. PICK t : t = GenerateTree(data) OBVIOUS
                <5>2. Len(t) = TreeSize(n)
                    BY <2>1, <4>1, <5>1, TreeIs
                <5>3. Len(t) = 0
                    BY <4>4, <5>2, SmallTree
                <5>4. Placed(body, n, t)
                    BY <2>2, <2>3, <4>1, <5>3 DEF Placed
                <5> QED BY <4>1, <5>1, <5>4
            <4> QED BY <4>2, <4>3, <4>4
        <3>6. a \in Footers /\ a.include = << >> /\ IsSeq(data) /\ IsSeq(body)
            BY <1>2, <2>1, <2>3
        <3> QED BY <3>1, <3>2, <3>3, <3>4, <3>5, <3>6, CoversHeld, Zenon
    <2>9. Left(p, g, m)
        BY <1>13, <2>6, <2>8, <2>11 DEF Left
    <2>10. Recorded(m) BY <1>6, RecordedIs
    <2> QED BY <1>1, <1>9, <1>13, <2>9, <2>10, WritesKnown
<1> QED BY <1>12, <1>13

--------------------------------------------------
(* The other commands, and the copies. *)

\* The footer of an image is the one of its partition.
LEMMA FooterOnly ==
    ASSUME NEW p, NEW g, NEW m, Left(p, g, m), HasFooter(g)
    PROVE  m.blob # << >> /\ p \in DOMAIN Sizes
<1>1. m.blob # << >>
    <2> SUFFICES ASSUME m.blob = << >> PROVE FALSE OBVIOUS
    <2>1. Damaged(g, g) BY DamagedSelf DEF Left
    <2> QED BY <2>1, BareRefused
<1>2. p \in DOMAIN Sizes
    <2> SUFFICES ASSUME p \notin DOMAIN Sizes PROVE FALSE OBVIOUS
    <2>1. PICK at : Spot(g, m, at) BY <1>1, SpotIs
    <2>2. at \in Nat /\ at # 0 /\ \A i \in 1 .. Len(g) : g[i].kind = "header" => i = at + 1
        BY <2>1 DEF Spot
    <2>3. Sound(m) /\ Placed(g, 0, m.blob)
        BY <1>1 DEF Left, Unfooted
    <2>4. PICK a, minor : Args(a) /\ m.blob = Struct(a, Ds(m), minor)
        BY <2>3 DEF Sound
    <2>5. IsSeq(Ds(m)) BY <2>3 DEF Sound, Knows
    <2>6. PICK h : h = HeadOf(a, Ds(m), minor) OBVIOUS
    <2>7. PICK b : b = m.blob OBVIOUS
    <2>8. b = Struct(a, Ds(m), minor) /\ Placed(g, 0, b)
        BY <2>3, <2>4, <2>7
    <2>9. IsSeq(b) /\ Len(b) \in Nat /\ b[1] = HeadCell(a, Ds(m), minor) /\ b # << >>
        BY <2>4, <2>5, <2>6, <2>8, StructIs
    <2>10. 1 \in 1 .. Len(b) /\ 1 \in 1 .. Len(g) /\ g[1] = b[1]
        <3>1. Len(b) # 0 /\ Len(b) <= Len(g) /\ Len(g) \in Nat
            BY <2>8, <2>9, LenNat DEF Placed, Left
        <3>2. 1 \in 1 .. Len(b) /\ 1 \in 1 .. Len(g) /\ 0 + 1 = 1
            BY <2>9, <3>1
        <3> QED BY <2>8, <3>2 DEF Placed
    <2>11. g[1].kind = "header"
        BY <2>9, <2>10 DEF HeadCell
    <2> QED BY <2>2, <2>10, <2>11
<1> QED BY <1>1, <1>2

\* What is known of an image does not depend on whether its tree was zeroed.
LEMMA SameMade ==
    ASSUME NEW m, NEW x, x.blob = m.blob, x.alg = m.alg, x.key = m.key, x.covers = m.covers, x.chains = m.chains,
           Sound(m)
    PROVE  Sound(x) /\ Ds(x) = Ds(m)
<1>1. Ds(x) = Ds(m) BY DEF Ds
<1> QED BY <1>1 DEF Sound

\* n cells of g behind the first at are zeroed, and marked.
Zeroed(g, at, n) == SubSeq(g, 1, at) \o <<[kind |-> "zeroed"]>> \o Nuls(n - 1) \o SubSeq(g, at + n + 1, Len(g))

\* What zero_hashtree writes.
LEMMA ZeroedIs ==
    ASSUME NEW g, IsSeq(g), NEW at \in Nat, NEW n \in Nat, n > 0, at + n <= Len(g), NEW z, z = Zeroed(g, at, n)
    PROVE  /\ IsSeq(z) /\ Len(z) = Len(g)
           /\ \A i \in 1 .. Len(g) : i <= at \/ at + n < i => z[i] = g[i]
           /\ \A i \in 1 .. Len(g) : at < i /\ i <= at + n => z[i].kind \in {"zeroed", "nul"}
           /\ z[at + 1].kind = "zeroed"
<1>1. PICK L \in Nat : L = Len(g) BY LenNat
<1>2. PICK s : s = SubSeq(g, 1, at) OBVIOUS
<1>3. IsSeq(s) /\ Len(s) = at /\ \A k \in 1 .. at : s[k] = g[k]
    <2>1. at <= Len(g) BY <1>1
    <2> QED BY <1>2, <2>1, PreSeq
<1>4. PICK c : c = <<[kind |-> "zeroed"]>> OBVIOUS
<1>5. IsSeq(c) /\ Len(c) = 1 /\ c[1].kind = "zeroed"
    BY <1>4, OneSeq
<1>6. PICK y : y = s \o c OBVIOUS
<1>7. /\ IsSeq(y) /\ Len(y) = at + 1 /\ \A k \in 1 .. at : y[k] = g[k]
      /\ y[at + 1].kind = "zeroed"
    <2>1. /\ IsSeq(y) /\ Len(y) = Len(s) + Len(c)
          /\ \A k \in 1 .. Len(s) : y[k] = s[k]
          /\ \A k \in 1 .. Len(c) : y[Len(s) + k] = c[k]
        <3>1. IsSeq(s) /\ IsSeq(c) BY <1>3, <1>5
        <3> QED BY <1>6, <3>1, CatSeq
    <2>2. 1 \in 1 .. Len(c) BY <1>5
    <2> QED BY <1>3, <1>5, <2>1, <2>2
<1>8. PICK m \in Nat : m = n - 1 OBVIOUS
<1>9. PICK x : x = y \o Nuls(m) OBVIOUS
<1>10. /\ IsSeq(x) /\ Len(x) = at + n
       /\ \A k \in 1 .. at + 1 : x[k] = y[k]
       /\ \A k \in 1 .. at + n : k > at + 1 => x[k] = Nul
    <2>0. IsSeq(y) /\ m \in Nat BY <1>7
    <2>1. /\ IsSeq(y \o Nuls(m)) /\ Len(y \o Nuls(m)) = Len(y) + m
          /\ \A k \in 1 .. Len(y) : (y \o Nuls(m))[k] = y[k]
          /\ \A k \in 1 .. Len(y) + m : k > Len(y) => (y \o Nuls(m))[k] = Nul
        BY <2>0, NulsBehind
    <2>2. Len(y) + m = at + n BY <1>7, <1>8
    <2> QED BY <1>7, <1>9, <2>1, <2>2
<1>11. PICK e \in Nat : e = at + n /\ e <= L BY <1>1
<1>12. PICK t : t = SubSeq(g, e + 1, L) OBVIOUS
<1>13. IsSeq(t) /\ Len(t) = L - e /\ \A k \in 1 .. L - e : t[k] = g[e + k]
    <2>1. e <= L /\ L <= Len(g) BY <1>1, <1>11
    <2> QED BY <1>12, <2>1, MidSeq
<1>14. z = x \o t
    BY <1>1, <1>2, <1>4, <1>6, <1>8, <1>9, <1>11, <1>12 DEF Zeroed
<1>15. /\ IsSeq(z) /\ Len(z) = L
       /\ \A k \in 1 .. e : z[k] = x[k]
       /\ \A k \in 1 .. L - e : z[e + k] = g[e + k]
    <2>1. /\ IsSeq(z) /\ Len(z) = Len(x) + Len(t)
          /\ \A k \in 1 .. Len(x) : z[k] = x[k]
          /\ \A k \in 1 .. Len(t) : z[Len(x) + k] = t[k]
        <3>1. IsSeq(x) /\ IsSeq(t) BY <1>10, <1>13
        <3> QED BY <1>14, <3>1, CatSeq
    <2>2. Len(x) = e /\ Len(t) = L - e /\ L - e \in Nat /\ e + (L - e) = L
        BY <1>10, <1>11, <1>13
    <2>3. \A k \in 1 .. L - e : z[e + k] = t[k]
        BY <2>1, <2>2
    <2> QED BY <1>13, <2>1, <2>2, <2>3
<1>16. ASSUME NEW i \in 1 .. L
       PROVE  /\ i <= at \/ e < i => z[i] = g[i]
              /\ at < i /\ i <= e => z[i].kind \in {"zeroed", "nul"}
    <2>1. CASE i <= at
        <3>1. i \in 1 .. at /\ i \in 1 .. at + 1 /\ i \in 1 .. e
            BY <1>11, <2>1
        <3> QED BY <1>7, <1>10, <1>15, <2>1, <3>1
    <2>2. CASE i = at + 1
        <3>1. i \in 1 .. at + 1 /\ i \in 1 .. e /\ ~ (e < i)
            BY <1>11, <2>2
        <3>2. z[i] = y[at + 1]
            BY <1>10, <1>15, <2>2, <3>1
        <3> QED BY <1>7, <2>2, <3>1, <3>2
    <2>3. CASE i > at + 1 /\ i <= e
        <3>1. i \in 1 .. e /\ i \in 1 .. at + n
            BY <1>11, <2>3
        <3>2. z[i] = Nul BY <1>10, <1>15, <2>3, <3>1
        <3> QED BY <2>3, <3>2, NulDiffers
    <2>4. CASE e < i
        <3>1. i - e \in 1 .. L - e /\ e + (i - e) = i
            BY <2>4
        <3>2. z[i] = g[i] BY <1>15, <3>1
        <3> QED BY <1>11, <2>4, <3>2
    <2> QED BY <2>1, <2>2, <2>3, <2>4
<1>17. z[at + 1].kind = "zeroed"
    <2>1. at + 1 \in 1 .. e /\ at + 1 \in 1 .. at + 1
        BY <1>11
    <2> QED BY <1>7, <1>10, <1>15, <2>1
<1> QED BY <1>1, <1>11, <1>15, <1>16, <1>17

\* It leaves the struct and the footer alone.
LEMMA ZeroedLeft ==
    ASSUME NEW p, NEW g, NEW m, Left(p, g, m), HasFooter(g), NEW d, Has(Ds(m), d), d.type = "hashtree", d.tree_size > 0,
           NEW z, z = Zeroed(g, d.tree_offset, d.tree_size),
           NEW x, x.blob = m.blob, x.alg = m.alg, x.key = m.key, x.covers = m.covers, x.chains = m.chains,
           x.zeroed = TRUE
    PROVE  Left(p, z, x)
<1>1. m.blob # << >> /\ p \in DOMAIN Sizes BY FooterOnly
<1>2. IsSeq(g) /\ Sound(m) /\ Footed(g, m) /\ HoldsCovers(g, m)
    BY <1>1 DEF Left
<1>3. Sound(x) /\ Ds(x) = Ds(m) BY <1>2, SameMade
<1>4. PICK b : b = m.blob OBVIOUS
<1>5. IsSeq(b) /\ Len(b) \in Nat /\ b = x.blob
    <2>1. IsSeq(b) BY <1>1, <1>2, <1>4, NoFooterIn
    <2> QED BY <1>4, <2>1, LenNat
<1>6. PICK at \in Nat : \E orig \in 1 .. at :
        /\ g # << >> /\ g[Len(g)] = Footer(orig, at, Len(b)) /\ Len(g) % PerBlock = 0
        /\ Placed(g, at, b) /\ at + Len(b) < Len(g)
        /\ \A i \in 1 .. orig : g[i].kind = "data"
        /\ \A i \in 1 .. Len(g) - 1 : i <= at \/ at + Len(b) < i => Idle(g[i])
        /\ \A e : Has(Ds(m), e) /\ e.type = "hashtree" =>
             /\ e.tree_offset \in Nat /\ e.tree_size \in Nat
             /\ orig <= e.tree_offset /\ e.tree_offset + e.tree_size <= at
    BY <1>2, <1>4 DEF Footed
<1>7. PICK orig \in 1 .. at :
        /\ g # << >> /\ g[Len(g)] = Footer(orig, at, Len(b)) /\ Len(g) % PerBlock = 0
        /\ Placed(g, at, b) /\ at + Len(b) < Len(g)
        /\ \A i \in 1 .. orig : g[i].kind = "data"
        /\ \A i \in 1 .. Len(g) - 1 : i <= at \/ at + Len(b) < i => Idle(g[i])
        /\ \A e : Has(Ds(m), e) /\ e.type = "hashtree" =>
             /\ e.tree_offset \in Nat /\ e.tree_size \in Nat
             /\ orig <= e.tree_offset /\ e.tree_offset + e.tree_size <= at
    BY <1>6
<1>8. PICK u \in Nat : u = d.tree_offset /\ orig <= u
    BY <1>7
<1>9. PICK n \in Nat : n = d.tree_size /\ n > 0 /\ u + n <= at
    BY <1>7, <1>8
<1>10. PICK L \in Nat : L = Len(g) /\ at + Len(b) < L /\ L # 0
    BY <1>2, <1>5, <1>7, LenNat
<1>11. /\ IsSeq(z) /\ Len(z) = L
       /\ \A i \in 1 .. L : i <= u \/ u + n < i => z[i] = g[i]
       /\ \A i \in 1 .. L : u < i /\ i <= u + n => z[i].kind \in {"zeroed", "nul"}
       /\ z[u + 1].kind = "zeroed"
    <2>1. z = Zeroed(g, u, n) /\ u + n <= Len(g)
        BY <1>5, <1>8, <1>9, <1>10
    <2>2. /\ IsSeq(z) /\ Len(z) = Len(g)
          /\ \A i \in 1 .. Len(g) : i <= u \/ u + n < i => z[i] = g[i]
          /\ \A i \in 1 .. Len(g) : u < i /\ i <= u + n => z[i].kind \in {"zeroed", "nul"}
          /\ z[u + 1].kind = "zeroed"
        BY <1>2, <1>9, <2>1, ZeroedIs
    <2> QED BY <1>10, <2>2
<1>12. z # << >> /\ z[L] = g[L]
    <2>1. L \in 1 .. L /\ u + n < L BY <1>5, <1>9, <1>10
    <2> QED BY <1>10, <1>11, <2>1, LenNat
<1>13. Placed(z, at, b)
    <2>1. ASSUME NEW k \in 1 .. Len(b) PROVE z[at + k] = b[k]
        <3>1. at + k \in 1 .. L /\ u + n < at + k
            BY <1>5, <1>9, <1>10
        <3> QED BY <1>7, <1>11, <3>1 DEF Placed
    <2> QED BY <1>5, <1>10, <1>11, <2>1 DEF Placed
<1>14. \A i \in 1 .. orig : z[i].kind = "data"
    <2> TAKE i \in 1 .. orig
    <2>1. i \in 1 .. L /\ i <= u
        BY <1>5, <1>8, <1>9, <1>10
    <2>2. z[i] = g[i] BY <1>11, <2>1
    <2> QED BY <1>7, <2>2
<1>15. \A i \in 1 .. L - 1 : i <= at \/ at + Len(b) < i => Idle(z[i])
    <2> SUFFICES ASSUME NEW i \in 1 .. L - 1, i <= at \/ at + Len(b) < i PROVE Idle(z[i]) OBVIOUS
    <2>1. i \in 1 .. L OBVIOUS
    <2>2. CASE u < i /\ i <= u + n
        BY <1>11, <2>1, <2>2 DEF Idle
    <2>3. CASE ~ (u < i /\ i <= u + n)
        <3>1. z[i] = g[i] BY <1>11, <2>1, <2>3
        <3> QED BY <1>7, <1>10, <3>1
    <2> QED BY <2>2, <2>3
<1>16. Footed(z, x)
    <2>1. z # << >> /\ z[Len(z)] = Footer(orig, at, Len(b)) /\ Len(z) % PerBlock = 0
        BY <1>7, <1>10, <1>11, <1>12
    <2>2. Placed(z, at, b) /\ at + Len(b) < Len(z)
        BY <1>10, <1>11, <1>13
    <2>3. \A i \in 1 .. Len(z) - 1 : i <= at \/ at + Len(b) < i => Idle(z[i])
        BY <1>11, <1>15
    <2>4. \A e : Has(Ds(x), e) /\ e.type = "hashtree" =>
             /\ e.tree_offset \in Nat /\ e.tree_size \in Nat
             /\ orig <= e.tree_offset /\ e.tree_offset + e.tree_size <= at
        BY <1>3, <1>7
    <2> QED BY <1>5, <1>14, <2>1, <2>2, <2>3, <2>4 DEF Footed
<1>17. HoldsCovers(z, x)
    <2>1. PICK c \in m.covers : Describes(d, c)
        BY <1>2 DEF Sound, Knows
    <2>2. /\ IsSeq(c.data) /\ u = Len(c.data)
          /\ c.tree = FALSE => n = 0
          /\ c.tree \in BOOLEAN /\ (\A e \in m.covers : e = c) /\ Placed(g, 0, c.data)
        BY <1>2, <1>8, <1>9, <2>1 DEF Describes, SaysTree, HoldsCovers
    <2>3. Placed(z, 0, c.data)
        <3>1. \A k \in 1 .. u : g[0 + k] = c.data[k]
            BY <2>2 DEF Placed
        <3>2. \A k \in 1 .. u : 0 + k = k /\ k \in 1 .. L /\ k <= u
            BY <1>5, <1>9, <1>10
        <3>3. \A k \in 1 .. u : z[0 + k] = c.data[k]
            BY <1>11, <3>1, <3>2
        <3> QED BY <1>5, <1>9, <1>10, <1>11, <2>2, <3>3 DEF Placed
    <2>4. u < Len(z) /\ z[u + 1].kind = "zeroed"
        BY <1>5, <1>9, <1>10, <1>11
    <2>5. HoldsTree(z, c, TRUE)
        BY <2>2, <2>4 DEF HoldsTree
    <2> QED BY <2>2, <2>3, <2>5 DEF HoldsCovers
<1> QED BY <1>1, <1>3, <1>11, <1>16, <1>17 DEF Left

--------------------------------------------------
\* zero_hashtree.
LEMMA ZeroKnown ==
    ASSUME Known, NEW p \in ToSet(Names), ZeroHashtree(p)
    PROVE  Known'
<1>1. PICK g : Left(p, g, made[p]) /\ Damaged(files[p], g) /\ (p \notin hurt => files[p] = g)
    BY DEF Known, FilesKnown
<1>2. PICK m : m = made[p] OBVIOUS
<1>3. PICK trees : trees = OfType(ParseImage(files[p]), "hashtree") OBVIOUS
<1>4. PICK d : d = trees[1] OBVIOUS
<1>5. PICK at : at = d.tree_offset OBVIOUS
<1>6. PICK n : n = d.tree_size OBVIOUS
<1>7. /\ HasFooter(files[p]) /\ trees # << >> /\ n > 0 /\ hurt = {} /\ hurt' = {}
      /\ made' = [made EXCEPT ![p].zeroed = TRUE]
      /\ files' = [files EXCEPT ![p] =
             SubSeq(@, 1, at) \o <<[kind |-> "zeroed"]>> \o Nuls(n - 1) \o SubSeq(@, at + n + 1, Len(@))]
    BY <1>3, <1>4, <1>5, <1>6 DEF ZeroHashtree
<1>8. files[p] = g /\ HasFooter(g) /\ Left(p, g, m)
    BY <1>1, <1>2, <1>7
<1>9. m.blob # << >> BY <1>8, FooterOnly
<1>10. ParseImage(g) = Ds(m) /\ Sound(m)
    <2>1. ParseImage(g) = Ds(m) BY <1>8, <1>9, LeftFound
    <2> QED BY <1>8, <1>9, <2>1 DEF Left
<1>11. Has(Ds(m), d) /\ d.type = "hashtree"
    <2>1. IsSeq(Ds(m)) BY <1>10 DEF Sound, Knows
    <2>2. trees = OfTypes(Ds(m), {"hashtree"})
        BY <1>3, <1>8, <1>10 DEF OfType
    <2>3. /\ IsSeq(OfTypes(Ds(m), {"hashtree"}))
          /\ \A e : Has(OfTypes(Ds(m), {"hashtree"}), e) <=> Has(Ds(m), e) /\ e.type \in {"hashtree"}
        BY <2>1, OfTypesIs
    <2>4. IsSeq(trees) /\ \A e : Has(trees, e) => Has(Ds(m), e) /\ e.type = "hashtree"
        BY <2>2, <2>3
    <2>5. Len(trees) \in Nat /\ Len(trees) # 0
        BY <1>7, <2>4, LenNat
    <2>6. 1 \in 1 .. Len(trees) BY <2>5
    <2>7. Has(trees, d) BY <1>4, <2>6 DEF Has
    <2> QED BY <2>4, <2>7
<1>12. PICK z : z = Zeroed(g, at, n) OBVIOUS
<1>13. files' = [files EXCEPT ![p] = z]
    BY <1>7, <1>8, <1>12 DEF Zeroed
<1>14. PICK x : x = [m EXCEPT !.zeroed = TRUE] OBVIOUS
<1>15. made' = [made EXCEPT ![p] = x]
    BY <1>2, <1>7, <1>14
<1>16. /\ x.blob = m.blob /\ x.alg = m.alg /\ x.key = m.key /\ x.covers = m.covers /\ x.chains = m.chains
       /\ Recorded(x) /\ x.zeroed = TRUE
    <2>1. Recorded(m) BY <1>2 DEF Known
    <2>2. m = [blob |-> m.blob, alg |-> m.alg, key |-> m.key, covers |-> m.covers,
               chains |-> m.chains, zeroed |-> m.zeroed]
        BY <2>1 DEF Recorded
    <2>3. PICK b, l, k, c, h, y : m = [blob |-> b, alg |-> l, key |-> k, covers |-> c, chains |-> h, zeroed |-> y]
        BY <2>2
    <2>4. x = [blob |-> b, alg |-> l, key |-> k, covers |-> c, chains |-> h, zeroed |-> TRUE]
        BY <1>14, <2>3
    <2> QED BY <2>3, <2>4 DEF Recorded
<1>17. Left(p, z, x)
    <2>1. d.tree_size > 0 /\ z = Zeroed(g, d.tree_offset, d.tree_size)
        BY <1>5, <1>6, <1>7, <1>12
    <2> HIDE DEF Zeroed, Known
    <2> QED BY <1>8, <1>11, <1>16, <2>1, ZeroedLeft
<1>18. DOMAIN files' = ToSet(Names) /\ DOMAIN made' = ToSet(Names)
    BY <1>13, <1>15 DEF Known
<1>19. files'[p] = z /\ made'[p] = x /\ \A q \in ToSet(Names) : q # p => files'[q] = files[q] /\ made'[q] = made[q]
    BY <1>13, <1>15 DEF Known
<1>20. ASSUME NEW q \in ToSet(Names)
       PROVE  \E f : Left(q, f, made'[q]) /\ Damaged(files'[q], f) /\ (q \notin hurt' => files'[q] = f)
    <2>1. CASE q = p
        <3>1. Damaged(z, z)
            BY <1>17, DamagedSelf DEF Left
        <3> QED BY <1>17, <1>19, <2>1, <3>1
    <2>2. CASE q # p
        <3>1. PICK f : Left(q, f, made[q]) /\ Damaged(files[q], f) /\ (q \notin hurt => files[q] = f)
            BY DEF Known, FilesKnown
        <3> QED BY <1>7, <1>19, <2>2, <3>1
    <2> QED BY <2>1, <2>2
<1>21. \A q \in ToSet(Names) : Recorded(made'[q])
    BY <1>16, <1>19 DEF Known
<1> QED BY <1>7, <1>18, <1>20, <1>21 DEF Known, FilesKnown

\* make_vbmeta_image.
LEMMA MakeKnown ==
    ASSUME Known, NEW a \in Makes, MakeVbmetaImage(a)
    PROVE  Known'
<1>1. PICK p : p = a.output OBVIOUS
<1>2. ArgumentsOK(a) /\ p \in ToSet(Names) /\ p \notin DOMAIN Sizes
    BY <1>1, AvbImagesAssumption
<1>3. PICK n \in Nat \ {0} : n = a.padding
    BY AvbImagesAssumption
<1>4. PICK minor : minor = MinorOf(a) OBVIOUS
<1>5. PICK fs, blob : fs = [files EXCEPT ![p] = << >>] /\ blob = Generate(a, << >>, << >>, minor, fs)
    OBVIOUS
<1>6. PICK m : m = Made(a, {}, blob) OBVIOUS
<1>7. PICK g : g = PadTo(blob, n) OBVIOUS
<1>8. IF blob = << >> THEN Writes(p, << >>, Unmade) ELSE Writes(p, g, m)
    BY <1>1, <1>3, <1>4, <1>5, <1>6, <1>7 DEF MakeVbmetaImage
<1>9. hurt = {} BY <1>8 DEF Writes
<1>10. CASE blob = << >>
    <2>1. PICK e : e = << >> OBVIOUS
    <2>2. IsSeq(e) /\ \A i \in 1 .. Len(e) : e[i].kind = "data"
        <3>1. 1 .. 0 = {} OBVIOUS
        <3> QED BY <2>1, <3>1, NilIs DEF NilSeq
    <2>3. Left(p, e, Unmade) /\ Writes(p, e, Unmade)
        BY <1>8, <1>10, <2>1, <2>2, BareLeft
    <2> QED BY <1>2, <2>3, RecordedIs, WritesKnown
<1>11. CASE blob # << >>
    <2>1. /\ Requires(a, minor) /\ FilesKnown
          /\ blob = Generate(a, << >>, << >>, minor, files)
        <3>1. fs[p] = << >> /\ \A q \in ToSet(Names) : q # p => fs[q] = files[q]
            BY <1>2, <1>5 DEF Known
        <3>2. PICK no : no = << >> OBVIOUS
        <3>3. ArgumentsOK(a) /\ p \in ToSet(Names) /\ Generate(a, no, no, minor, fs) # << >>
            BY <1>2, <1>5, <1>11, <3>2
        <3>4. Generate(a, no, no, minor, fs) = Generate(a, no, no, minor, files)
            BY <3>1, <3>3, EmptiedIncluded
        <3> QED BY <1>2, <1>4, <1>5, <3>2, <3>4, MinorOfIs DEF Known
    <2>2. Sound(m) /\ m.blob = blob /\ IsSeq(blob)
        BY <1>2, <1>6, <1>9, <1>11, <2>1, MakeSound
    <2>3. /\ IsSeq(g) /\ Placed(g, 0, blob)
          /\ \A k \in 1 .. Len(g) : k > Len(blob) => g[k] = Nul
        <3>1. n \in Nat \ {0} BY <1>3
        <3>2. /\ IsSeq(PadTo(blob, n))
              /\ \A k \in 1 .. Len(PadTo(blob, n)) : k > Len(blob) => PadTo(blob, n)[k] = Nul
            BY <2>2, <3>1, PadSeq
        <3>3. Placed(PadTo(blob, n), 0, blob)
            BY <2>2, <3>1, PlacedPad
        <3> QED BY <1>7, <3>2, <3>3
    <2>4. Left(p, g, m)
        BY <1>2, <1>11, <2>2, <2>3 DEF Left, Unfooted
    <2>5. Recorded(m) BY <1>6, RecordedIs
    <2> QED BY <1>2, <1>8, <1>11, <2>4, <2>5, WritesKnown
<1> QED BY <1>10, <1>11

\* What is damaged twice is damaged.
LEMMA DamagedAgain ==
    ASSUME NEW f, NEW g, NEW h, Damaged(f, g), Damaged(g, h)
    PROVE  Damaged(f, h)
<1>1. IsSeq(f) /\ IsSeq(g) /\ IsSeq(h) /\ Len(f) <= Len(g) /\ Len(g) <= Len(h)
    BY DEF Damaged
<1>2. Len(f) \in Nat /\ Len(g) \in Nat /\ Len(h) \in Nat
    BY <1>1, LenNat
<1>3. \A k \in 1 .. Len(f) : k \in 1 .. Len(g) /\ (f[k] = h[k] \/ f[k] = Nul)
    <2> TAKE k \in 1 .. Len(f)
    <2>1. k \in 1 .. Len(g) BY <1>1, <1>2
    <2> QED BY <2>1 DEF Damaged
<1> QED BY <1>1, <1>2, <1>3 DEF Damaged

\* A copy that goes wrong.
LEMMA FaultKnown ==
    ASSUME Known, NEW p \in ToSet(Names), NEW f, Damaged(f, files[p]), Fault(p, f)
    PROVE  Known'
<1>1. files' = [files EXCEPT ![p] = f] /\ hurt' = hurt \cup {p} /\ made' = made
    BY DEF Fault
<1>2. ASSUME NEW q \in ToSet(Names)
      PROVE  \E g : Left(q, g, made'[q]) /\ Damaged(files'[q], g) /\ (q \notin hurt' => files'[q] = g)
    <2>1. PICK g : Left(q, g, made[q]) /\ Damaged(files[q], g) /\ (q \notin hurt => files[q] = g)
        BY DEF Known, FilesKnown
    <2>2. CASE q = p
        <3>1. Damaged(f, g) BY <2>1, <2>2, DamagedAgain
        <3>2. files'[q] = f BY <1>1, <2>2 DEF Known
        <3> QED BY <1>1, <2>1, <2>2, <3>1, <3>2
    <2>3. CASE q # p
        <3>1. files'[q] = files[q]
            BY <1>1, <2>3 DEF Known
        <3> QED BY <1>1, <2>1, <2>3, <3>1
    <2> QED BY <2>2, <2>3
<1>3. DOMAIN files' = ToSet(Names) /\ DOMAIN made' = ToSet(Names) /\ hurt' \subseteq ToSet(Names)
    BY <1>1 DEF Known
<1>4. \A q \in ToSet(Names) : Recorded(made'[q])
    BY <1>1 DEF Known
<1> QED BY <1>2, <1>3, <1>4 DEF Known, FilesKnown

\* Nuls and missing ends are damage.
LEMMA CopiesDamaged ==
    ASSUME Known, NEW p \in ToSet(Names), Zero(p) \/ Truncate(p)
    PROVE  Known'
<1>1. IsSeq(files[p]) /\ DOMAIN files[p] = 1 .. Len(files[p]) /\ Len(files[p]) \in Nat
    <2>1. IsSeq(files[p])
        BY DEF Known, FilesKnown, Damaged
    <2> QED BY <2>1, SeqDomain, LenNat
<1>2. PICK g : g = files[p] OBVIOUS
<1>3. CASE Zero(p)
    <2>1. PICK i \in DOMAIN g : Fault(p, [g EXCEPT ![i] = Nul])
        BY <1>2, <1>3 DEF Zero, Edges
    <2>2. PICK f : f = [g EXCEPT ![i] = Nul] OBVIOUS
    <2>3. f = [k \in 1 .. Len(g) |-> f[k]] /\ \A k \in 1 .. Len(g) : f[k] = g[k] \/ f[k] = Nul
        BY <1>1, <1>2, <2>2
    <2>4. IsSeq(f) /\ Len(f) = Len(g)
        BY <1>1, <1>2, <2>3, MapSeq
    <2>5. Damaged(f, files[p]) /\ Fault(p, f)
        BY <1>1, <1>2, <2>1, <2>2, <2>3, <2>4 DEF Damaged
    <2> QED BY <2>5, FaultKnown
<1>4. CASE Truncate(p)
    <2>1. PICK i \in DOMAIN g : Fault(p, SubSeq(g, 1, i - 1))
        BY <1>2, <1>4 DEF Truncate, Edges
    <2>2. PICK n \in Nat : n = i - 1 /\ n <= Len(g)
        BY <1>1, <1>2, <2>1
    <2>3. PICK f : f = SubSeq(g, 1, n) OBVIOUS
    <2>4. IsSeq(f) /\ Len(f) = n /\ \A k \in 1 .. n : f[k] = g[k]
        BY <1>1, <1>2, <2>2, <2>3, PreSeq
    <2>5. Damaged(f, files[p]) /\ Fault(p, f)
        BY <1>1, <1>2, <2>1, <2>2, <2>3, <2>4 DEF Damaged
    <2> QED BY <2>5, FaultKnown
<1> QED BY <1>3, <1>4

\* verify_image changes no image.
LEMMA ReadsKnown == ASSUME Known, UNCHANGED <<files, made, hurt>> PROVE Known'
<1>1. files' = files /\ made' = made /\ hurt' = hurt OBVIOUS
<1> QED BY <1>1 DEF Known, FilesKnown

\* Every step.
LEMMA StepKnown == ASSUME Known, [Next]_vars PROVE Known'
<1>1. CASE \E p \in DOMAIN Sizes : Build(p)
    BY <1>1, BuildKnown
<1>2. CASE \E a \in Footers : AddHashFooter(a.image, a) \/ AddHashtreeFooter(a.image, a)
    BY <1>2, HashFooterKnown, TreeFooterKnown
<1>3. CASE \E p \in ToSet(Names) : ZeroHashtree(p) \/ Zero(p) \/ Truncate(p)
    BY <1>3, ZeroKnown, CopiesDamaged
<1>4. CASE \E a \in Makes : MakeVbmetaImage(a)
    BY <1>4, MakeKnown
<1>5. CASE \/ \E a \in Verifies : VerifyImage(a)
           \/ Verifying \/ Return
    <2>1. UNCHANGED <<files, made, hurt>>
        BY <1>5 DEF VerifyImage, Verifying, VerifyHash, VerifyHashtree, HashBlock, CompareTree, VerifyChain, VerifyDone,
           Verify, Return, Reads
    <2> QED BY <2>1, ReadsKnown
<1>6. CASE UNCHANGED vars
    <2>1. UNCHANGED <<files, made, hurt>>
        BY <1>6 DEF vars
    <2> QED BY <2>1, ReadsKnown
<1> QED BY <1>1, <1>2, <1>3, <1>4, <1>5, <1>6 DEF Next

--------------------------------------------------
(* The cells of the images, and what is read of them. *)

Kinds == {"data", "nul", "digest", "zeroed", "header", "desc", "more", "key", "pkmd", "sig", "footer"}

\* The cells of an image that has not been damaged.
LEMMA LeftCells ==
    ASSUME NEW p, NEW g, NEW m, Left(p, g, m)
    PROVE  \A i \in 1 .. Len(g) :
             /\ g[i].kind \in Kinds
             /\ g[i].kind = "desc" => \E d : Has(Ds(m), d) /\ g[i] = DescCell(d)
<1>1. CASE m.blob = << >> BY <1>1 DEF Left, Kinds
<1>2. CASE m.blob # << >>
    <2>1. Sound(m) /\ IsSeq(g) /\ Len(g) \in Nat
        BY <1>2, LenNat DEF Left
    <2>2. PICK b : b = m.blob OBVIOUS
    <2>3. /\ IsSeq(b) /\ Len(b) \in Nat
          /\ \A i \in 1 .. Len(b) : b[i].kind = "desc" => \E d : Has(Ds(m), d) /\ b[i] = DescCell(d)
          /\ \A i \in 1 .. Len(b) : b[i].kind \in Kinds
        <3>1. /\ IsSeq(b)
              /\ \A i \in 1 .. Len(b) : b[i].kind = "desc" => \E d : Has(Ds(m), d) /\ b[i] = DescCell(d)
              /\ \A i \in 1 .. Len(b) : b[i].kind \in
                    {"nul", "digest", "header", "desc", "more", "key", "pkmd", "sig"}
            BY <1>2, <2>1, <2>2, NoFooterIn
        <3> QED BY <3>1, LenNat DEF Kinds
    <2>4. PICK at \in Nat : /\ Placed(g, at, b)
                            /\ \A i \in 1 .. Len(g) : i <= at \/ at + Len(b) < i => g[i].kind \in Kinds /\ g[i].kind # "desc"
        <3>1. CASE p \in DOMAIN Sizes
            <4>1. PICK at \in Nat : \E orig \in 1 .. at :
                     /\ g[Len(g)] = Footer(orig, at, Len(b)) /\ Placed(g, at, b)
                     /\ \A i \in 1 .. Len(g) - 1 : i <= at \/ at + Len(b) < i => Idle(g[i])
                BY <1>2, <2>2, <3>1 DEF Left, Footed
            <4>2. g[Len(g)].kind = "footer"
                BY <4>1 DEF Footer
            <4>3. \A i \in 1 .. Len(g) : i = Len(g) \/ i \in 1 .. Len(g) - 1
                BY <2>1
            <4>4. \A i \in 1 .. Len(g) : i <= at \/ at + Len(b) < i => i = Len(g) \/ Idle(g[i])
                BY <4>1, <4>3
            <4>5. \A i \in 1 .. Len(g) : i <= at \/ at + Len(b) < i => g[i].kind \in Kinds /\ g[i].kind # "desc"
                BY <4>2, <4>4 DEF Idle, Kinds
            <4> QED BY <4>1, <4>5
        <3>2. CASE p \notin DOMAIN Sizes
            <4>1. Placed(g, 0, b) /\ \A i \in 1 .. Len(g) : i > Len(b) => g[i] = Nul
                BY <1>2, <2>2, <3>2 DEF Left, Unfooted
            <4>2. \A i \in 1 .. Len(g) : i <= 0 \/ 0 + Len(b) < i => g[i].kind \in Kinds /\ g[i].kind # "desc"
                BY <2>3, <4>1 DEF Nul, Kinds
            <4> QED BY <4>1, <4>2
        <3> QED BY <3>1, <3>2
    <2>5. ASSUME NEW i \in 1 .. Len(g), ~ (i <= at \/ at + Len(b) < i)
          PROVE  /\ g[i].kind \in Kinds
                 /\ g[i].kind = "desc" => \E d : Has(Ds(m), d) /\ g[i] = DescCell(d)
        <3>1. i - at \in 1 .. Len(b) /\ at + (i - at) = i
            BY <2>1, <2>3, <2>5
        <3>2. g[i] = b[i - at] BY <2>4, <3>1 DEF Placed
        <3> QED BY <2>3, <3>1, <3>2
    <2> QED BY <2>4, <2>5
<1> QED BY <1>1, <1>2

\* And of one that has.
LEMMA CellsTyped ==
    ASSUME Known, NEW p \in ToSet(Names)
    PROVE  /\ IsSeq(files[p]) /\ DOMAIN files[p] = 1 .. Len(files[p]) /\ Len(files[p]) \in Nat
           /\ \A i \in 1 .. Len(files[p]) : files[p][i].kind \in Kinds
           /\ HasFooter(files[p]) => Len(files[p]) % PerBlock = 0
<1>1. PICK g : Left(p, g, made[p]) /\ Damaged(files[p], g)
    BY DEF Known, FilesKnown
<1>2. PICK f : f = files[p] OBVIOUS
<1>3. PICK m : m = made[p] OBVIOUS
<1>4. IsSeq(f) /\ DOMAIN f = 1 .. Len(f) /\ Len(f) \in Nat /\ IsSeq(g) /\ Len(g) \in Nat /\ Len(f) <= Len(g)
    <2>1. IsSeq(f) /\ IsSeq(g) /\ Len(f) <= Len(g)
        BY <1>1, <1>2 DEF Damaged
    <2> QED BY <2>1, SeqDomain, LenNat
<1>5. \A i \in 1 .. Len(f) : i \in 1 .. Len(g) /\ (f[i] = g[i] \/ f[i] = Nul)
    BY <1>1, <1>2, <1>4 DEF Damaged
<1>6. \A i \in 1 .. Len(f) : f[i].kind \in Kinds
    <2>1. \A i \in 1 .. Len(g) : g[i].kind \in Kinds
        BY <1>1, LeftCells
    <2>2. Nul.kind \in Kinds BY DEF Nul, Kinds
    <2> QED BY <1>5, <2>1, <2>2
<1>7. ASSUME HasFooter(f) PROVE Len(f) % PerBlock = 0
    <2>1. f # << >> /\ f[Len(f)].kind = "footer" /\ Len(f) \in 1 .. Len(f)
        BY <1>4, <1>7, LenNat DEF HasFooter, Last
    <2>2. f[Len(f)] = g[Len(f)] /\ Len(f) \in 1 .. Len(g)
        BY <1>5, <2>1 DEF Nul
    <2>3. m.blob # << >>
        BY <1>1, <1>2, <1>3, <1>7, BareRefused
    <2>4. PICK at : Spot(g, m, at)
        BY <1>1, <1>3, <2>3, SpotIs
    <2>5. Len(f) = Len(g) BY <2>1, <2>2, <2>4 DEF Spot
    <2>6. g # << >> /\ Last(g).kind = "footer"
        BY <1>4, <2>1, <2>2, <2>5, LenNat DEF Last
    <2>7. p \in DOMAIN Sizes
        BY <1>1, <1>3, <2>6, FooterOnly DEF HasFooter
    <2>8. Footed(g, m)
        BY <1>1, <1>3, <2>3, <2>7 DEF Left
    <2> QED BY <2>5, <2>8 DEF Footed
<1> QED BY <1>2, <1>4, <1>6, <1>7

\* A descriptor that is read has the types its writer gave it.
LEMMA PlainRead ==
    ASSUME NEW d, Plain(d), NEW data, NEW o, data[o].kind = "desc", data[o] = DescCell(d)
    PROVE  Plain(Decode(data, o))
<1>1. data[o].d = d /\ data[o].nbf = Following(d)
    BY DEF DescCell
<1>2. CASE Decode(data, o) = d BY <1>2
<1>3. CASE Decode(data, o) # d
    <2>1. data[o].nbf # 0 /\ Decode(data, o) = Spoiled(d)
        BY <1>1, <1>3 DEF Decode
    <2>2. d.type \in {"hashtree", "chain"}
        BY <1>1, <2>1 DEF Following
    <2>3. /\ Spoiled(d).type = d.type /\ Spoiled(d).name = d.name
          /\ d.type = "hashtree" => Spoiled(d).image_size = d.image_size
        BY DEF Spoiled, Hashtree
    <2> QED BY <2>1, <2>2, <2>3 DEF Plain
<1> QED BY <1>2, <1>3

\* All descriptors of an image have.
LEMMA ShownPlain ==
    ASSUME Known, NEW p \in ToSet(Names), Parses(files[p])
    PROVE  IsSeq(ParseImage(files[p])) /\ \A d : Has(ParseImage(files[p]), d) => Plain(d)
<1>1. PICK g : Left(p, g, made[p]) /\ Damaged(files[p], g)
    BY DEF Known, FilesKnown
<1>2. PICK f : f = files[p] OBVIOUS
<1>3. PICK m : m = made[p] OBVIOUS
<1>4. Left(p, g, m) /\ Damaged(f, g) /\ Parses(f) /\ IsHeader(f) /\ IsSeq(f)
    BY <1>1, <1>2, <1>3 DEF Parses, Damaged
<1>5. m.blob # << >> BY <1>4, BareRefused
<1>6. Sound(m) BY <1>4, <1>5 DEF Left
<1>7. PICK at : Spot(g, m, at) BY <1>4, <1>5, SpotIs
<1>8. PICK a, minor : Args(a) /\ m.blob = Struct(a, Ds(m), minor)
    BY <1>6 DEF Sound
<1>9. PICK h : h = HeadOf(a, Ds(m), minor) OBVIOUS
<1>10. HeaderOf(f) = h
    BY <1>4, <1>5, <1>6, <1>7, <1>8, <1>9, CopyStruct
<1>11. VbmetaOffset(f) = at /\ at \in Nat
    BY <1>4, <1>7, CopyHeader DEF Spot
<1>12. h.auth \in Nat /\ h.desc_offset = 0 /\ h.desc_size = Len(EncodeAll(Ds(m))) /\ Len(EncodeAll(Ds(m))) \in Nat
    <2>1. IsSeq(Ds(m)) BY <1>6 DEF Sound, Knows
    <2> QED BY <1>8, <1>9, <2>1, HeadIs, AuxIs
<1>13. PICK x \in Nat : x = at + 1 + h.auth + h.desc_offset
    BY <1>11, <1>12
<1>14. PICK n \in Nat : n = h.desc_size BY <1>12
<1>15. PICK data : data = Slice(f, x, n) OBVIOUS
<1>16. ParseImage(f) = parse_descriptors(data).ret
    BY <1>10, <1>11, <1>13, <1>14, <1>15 DEF ParseImage, DescriptorsOf
<1>17. IsSeq(data) /\ Len(data) \in Nat /\ \A k \in 1 .. Len(data) : x + k <= Len(f) /\ data[k] = f[x + k]
    <2>1. IsSeq(f) /\ x \in Nat /\ n \in Nat BY <1>4
    <2> HIDE DEF Known
    <2>2. /\ IsSeq(Slice(f, x, n)) /\ Len(Slice(f, x, n)) = SliceLen(f, x, n) /\ SliceLen(f, x, n) \in Nat
          /\ \A k \in 1 .. SliceLen(f, x, n) : x + k <= Len(f) /\ Slice(f, x, n)[k] = f[x + k]
        BY <2>1, SliceSeq
    <2> QED BY <1>15, <2>2
<1>18. ASSUME NEW k \in 1 .. Len(data), data[k].kind = "desc"
       PROVE  \E d : Plain(d) /\ data[k] = DescCell(d)
    <2>1. Len(f) \in Nat /\ Len(g) \in Nat /\ Len(f) <= Len(g)
        BY <1>4, LenNat DEF Damaged
    <2>2. x + k \in 1 .. Len(f) /\ x + k \in 1 .. Len(g) /\ data[k] = f[x + k]
        BY <1>17, <2>1
    <2>3. f[x + k] = g[x + k] \/ f[x + k] = Nul
        BY <1>4, <2>2 DEF Damaged
    <2>4. data[k] = g[x + k]
        BY <1>18, <2>2, <2>3 DEF Nul
    <2>5. PICK d : Has(Ds(m), d) /\ g[x + k] = DescCell(d)
        BY <1>4, <1>18, <2>2, <2>4, LeftCells
    <2>6. Plain(d) BY <1>6, <2>5 DEF Sound, Knows, Plain
    <2> QED BY <2>4, <2>5, <2>6
<1>19. \A k \in 1 .. Len(data) : data[k].kind = "desc" => data[k].nbf \in Nat
    <2>1. \A d : DescCell(d).nbf \in Nat
        BY DEF DescCell, Following
    <2> QED BY <1>18, <2>1
<1>20. IsSeq(parse_descriptors(data).ret) /\ \A d : Has(parse_descriptors(data).ret, d) => Says(data, d)
    BY <1>17, <1>19, ParseFinds
<1>21. ASSUME NEW e, Says(data, e) PROVE Plain(e)
    <2>1. PICK o \in 1 .. Len(data) : data[o].kind = "desc" /\ e = Decode(data, o)
        BY <1>21 DEF Says
    <2>2. PICK d : Plain(d) /\ data[o] = DescCell(d)
        BY <1>18, <2>1
    <2> QED BY <2>1, <2>2, PlainRead
<1> QED BY <1>2, <1>16, <1>20, <1>21

--------------------------------------------------
(* What verify_image has seen of its descriptors. *)

\* What is left of a sequence behind its head.
LEMMA TailIs ==
    ASSUME NEW s, IsSeq(s), s # << >>
    PROVE  /\ IsSeq(Tail(s)) /\ Has(s, Head(s))
           /\ \A x : Has(s, x) <=> x = Head(s) \/ Has(Tail(s), x)
<1>1. Len(s) \in Nat /\ Len(s) # 0 BY LenNat
<1>2. PICK S : s \in Seq(S) BY DEF IsSeq
<1>3. /\ Tail(s) \in Seq(S) /\ Len(Tail(s)) = Len(s) - 1 /\ Head(s) = s[1]
      /\ \A i \in 1 .. Len(s) - 1 : Tail(s)[i] = s[i + 1]
    BY <1>2
<1>4. IsSeq(Tail(s)) BY <1>3 DEF IsSeq
<1>5. Has(s, Head(s)) BY <1>1, <1>3 DEF Has
<1>6. ASSUME NEW x, Has(s, x) PROVE x = Head(s) \/ Has(Tail(s), x)
    <2>1. PICK k \in 1 .. Len(s) : s[k] = x
        BY <1>6 DEF Has
    <2>2. CASE k = 1 BY <1>3, <2>1, <2>2
    <2>3. CASE k # 1
        <3>1. k - 1 \in 1 .. Len(Tail(s)) /\ (k - 1) + 1 = k /\ k - 1 \in 1 .. Len(s) - 1
            BY <1>1, <1>3, <2>3
        <3>2. Tail(s)[k - 1] = s[k] BY <1>3, <3>1
        <3> QED BY <2>1, <3>1, <3>2 DEF Has
    <2> QED BY <2>2, <2>3
<1>7. ASSUME NEW x, Has(Tail(s), x) PROVE Has(s, x)
    <2>1. PICK k \in 1 .. Len(Tail(s)) : Tail(s)[k] = x
        BY <1>7 DEF Has
    <2>2. k + 1 \in 1 .. Len(s) /\ k \in 1 .. Len(s) - 1
        BY <1>1, <1>3
    <2>3. s[k + 1] = x BY <1>3, <2>1, <2>2
    <2> QED BY <2>2, <2>3 DEF Has
<1> QED BY <1>4, <1>5, <1>6, <1>7

\* The tasks of verify_image are the descriptors with a name.
LEMMA TasksIs ==
    ASSUME NEW ds, IsSeq(ds), NEW top
    PROVE  /\ IsSeq(Tasks(ds, top))
           /\ \A t : Has(Tasks(ds, top), t) <=> \E d : Has(ds, d) /\ d.type \in NamedTypes /\ t = Item(d, top)
<1>1. PICK u : u = OfTypes(ds, {"hash", "hashtree", "chain"}) OBVIOUS
<1>2. IsSeq(u) /\ \A d : Has(u, d) <=> Has(ds, d) /\ d.type \in NamedTypes
    BY <1>1, OfTypesIs DEF NamedTypes
<1>3. PICK n \in Nat : n = Len(u) /\ DOMAIN u = 1 .. n
    BY <1>2, LenNat, SeqDomain
<1>4. PICK w : w = [k \in 1 .. n |-> [d |-> u[k], top |-> top]] OBVIOUS
<1>5. Tasks(ds, top) = w BY <1>1, <1>3, <1>4 DEF Tasks
<1>6. w = [k \in 1 .. n |-> w[k]] /\ \A k \in 1 .. n : w[k] = Item(u[k], top)
    BY <1>4 DEF Item
<1>7. IsSeq(w) /\ Len(w) = n BY <1>6, MapSeq
<1>8. ASSUME NEW t PROVE Has(w, t) <=> \E d : Has(u, d) /\ t = Item(d, top)
    BY <1>3, <1>6, <1>7 DEF Has
<1>9. ASSUME NEW t PROVE Has(w, t) <=> \E d : Has(ds, d) /\ d.type \in NamedTypes /\ t = Item(d, top)
    BY <1>2, <1>8
<1> QED BY <1>5, <1>7, <1>9

\* A task says which descriptor it is, and of which image.
LEMMA ItemIs == \A d, e, x, y : /\ Item(d, x) = Item(e, y) => d = e /\ x = y
                                /\ Item(d, x).d = d /\ Item(d, x).top = x
<1> TAKE d, e, x, y
<1>1. /\ Item(d, x).d = d /\ Item(d, x).top = x
      /\ Item(e, y).d = e /\ Item(e, y).top = y
    BY DEF Item
<1> QED BY <1>1, Zenon

\* The first descriptor is done.
LEMMA Passed ==
    ASSUME NEW todo, Queue(todo), todo # << >>, NEW d, NEW top \in BOOLEAN, Head(todo) = Item(d, top),
           NEW i, NEW a, Watched(i, a, todo), NEW t, \A x : Has(Tail(todo), x) => Has(t, x),
           d.type \in {"hash", "hashtree"} => Holds(d, a),
           d.type = "chain" /\ top = TRUE /\ a.follow = TRUE => Checked(files[d.name], a.key) /\ Seen(d.name, FALSE, t, a)
    PROVE  Watched(i, a, t)
<1>1. \A x : Has(todo, x) => x = Item(d, top) \/ Has(t, x)
    BY TailIs DEF Queue
<1>2. ASSUME NEW q, NEW y, Seen(q, y, todo, a) PROVE Seen(q, y, t, a)
    <2> SUFFICES ASSUME NEW e, Has(ParseImage(files[q]), e), e.type \in {"hash", "hashtree"}
                 PROVE  Holds(e, a) \/ Has(t, Item(e, y))
        BY DEF Seen
    <2>1. Holds(e, a) \/ Has(todo, Item(e, y))
        BY <1>2 DEF Seen
    <2>2. CASE Has(todo, Item(e, y)) /\ Item(e, y) = Item(d, top)
        <3>1. e = d BY <2>2, ItemIs
        <3> QED BY <3>1
    <2> QED BY <1>1, <2>1, <2>2
<1>3. SeenChains(i, a, t)
    <2> SUFFICES ASSUME NEW e, Has(ParseImage(files[i]), e), e.type = "chain",
                        a.follow = TRUE, ~ Has(t, Item(e, TRUE))
                 PROVE  Checked(files[e.name], a.key) /\ Seen(e.name, FALSE, t, a)
        BY DEF SeenChains
    <2>1. \/ Has(todo, Item(e, TRUE))
          \/ Checked(files[e.name], a.key) /\ Seen(e.name, FALSE, todo, a)
        BY DEF Watched, SeenChains
    <2>2. CASE Has(todo, Item(e, TRUE))
        <3>1. Item(e, TRUE) = Item(d, top) BY <1>1, <2>2
        <3>2. e = d /\ top = TRUE
            <4>1. Item(e, TRUE).d = e /\ Item(e, TRUE).top = TRUE /\ Item(d, top).d = d /\ Item(d, top).top = top
                BY DEF Item
            <4> QED BY <3>1, <4>1, Zenon
        <3> QED BY <3>2
    <2> QED BY <1>2, <2>1, <2>2
<1>4. Seen(i, TRUE, t, a) BY <1>2 DEF Watched
<1> QED BY <1>3, <1>4 DEF Watched

--------------------------------------------------
(* The steps of verify_image. *)

\* What has been verified stays so while no image changes.
LEMMA WatchedStays ==
    ASSUME files' = files, NEW p, NEW a, NEW t
    PROVE  /\ Watched(p, a, t) => Watched(p, a, t)'
           /\ \A l : Hashing(t, l) => Hashing(t, l)'
BY DEF Watched, Seen, SeenChains, Holds, Hashing

\* The parts of a job.
LEMMA JobParts ==
    ASSUME JobKnown
    PROVE  \E i, a, t, l, r : /\ job = [image |-> i, args |-> a, todo |-> t, left |-> l, result |-> r]
                              /\ job.image = i /\ job.args = a /\ job.todo = t /\ job.left = l /\ job.result = r
BY DEF JobKnown

\* The next descriptors.
LEMMA Continues ==
    ASSUME JobKnown, pc \in {"verify", "hash"}, Reads, NEW t, Queue(t), Watched(job.image, job.args, t), Proceed(t)
    PROVE  JobKnown'
<1>1. PICK i, a, s, l, r : /\ job = [image |-> i, args |-> a, todo |-> s, left |-> l, result |-> r]
                           /\ job.image = i /\ job.args = a /\ job.todo = s /\ job.left = l /\ job.result = r
    BY JobParts
<1>2. pc' = "verify" /\ job' = [image |-> i, args |-> a, todo |-> t, left |-> 0, result |-> r]
    BY <1>1 DEF Proceed
<1>3. r = "running" /\ events \in 0 .. MaxEvents /\ events' = events /\ files' = files
    BY <1>1 DEF JobKnown, Reads
<1>4. Watched(i, a, t)'
    <2>1. Watched(i, a, t) BY <1>1
    <2> QED BY <1>3, <2>1, WatchedStays
<1>5. /\ job'.image = i /\ job'.args = a /\ job'.todo = t /\ job'.left = 0 /\ job'.result = r
    BY <1>2
<1>6. /\ Watched(job.image, job.args, job.todo)' /\ Queue(job.todo)'
    BY <1>4, <1>5
<1>7. job' = [image |-> job'.image, args |-> job'.args, todo |-> job'.todo, left |-> job'.left, result |-> job'.result]
    BY <1>2
<1> QED BY <1>2, <1>3, <1>5, <1>6, <1>7 DEF JobKnown

\* The result.
LEMMA Ends ==
    ASSUME JobKnown, Reads, NEW v \in {"ok", "failed"}, v = "ok" => Watched(job.image, job.args, << >>), Result(v)
    PROVE  JobKnown'
<1>1. PICK i, a, s, l, r : /\ job = [image |-> i, args |-> a, todo |-> s, left |-> l, result |-> r]
                           /\ job.image = i /\ job.args = a /\ job.todo = s /\ job.left = l /\ job.result = r
    BY JobParts
<1>2. pc' = "done" /\ job' = [image |-> i, args |-> a, todo |-> << >>, left |-> 0, result |-> v]
    BY <1>1 DEF Result
<1>3. events \in 0 .. MaxEvents /\ events' = events /\ files' = files
    BY DEF JobKnown, Reads
<1>4. PICK e : e = << >> OBVIOUS
<1>5. ASSUME v = "ok" PROVE Watched(i, a, e)'
    <2>1. Watched(i, a, e) BY <1>1, <1>4, <1>5
    <2> QED BY <1>3, <2>1, WatchedStays
<1>6. /\ job'.image = i /\ job'.args = a /\ job'.left = 0 /\ job'.result = v
    BY <1>2
<1>7. job'.result = "ok" => Watched(job.image, job.args, << >>)'
    BY <1>4, <1>5, <1>6
<1>8. job' = [image |-> job'.image, args |-> job'.args, todo |-> job'.todo, left |-> job'.left, result |-> job'.result]
    BY <1>2
<1> QED BY <1>2, <1>3, <1>6, <1>7, <1>8 DEF JobKnown

\* The first task.
LEMMA TaskIs ==
    ASSUME JobKnown, pc \in {"verify", "hash"}, job.todo # << >>
    PROVE  /\ Queue(job.todo) /\ Queue(Rest) /\ Watched(job.image, job.args, job.todo)
           /\ \E d : \E top \in BOOLEAN : Task = Item(d, top) /\ Task.d = d /\ Task.top = top
                                         /\ Plain(d) /\ d.type \in NamedTypes
<1>1. PICK todo : todo = job.todo OBVIOUS
<1>2. Queue(todo) /\ Watched(job.image, job.args, job.todo)
    BY <1>1 DEF JobKnown
<1>3. /\ IsSeq(Tail(todo)) /\ Has(todo, Head(todo))
      /\ \A x : Has(todo, x) <=> x = Head(todo) \/ Has(Tail(todo), x)
    BY <1>1, <1>2, TailIs DEF Queue
<1>4. Queue(Tail(todo)) BY <1>2, <1>3 DEF Queue
<1>5. PICK d : \E top \in BOOLEAN : Head(todo) = Item(d, top) /\ Plain(d) /\ d.type \in NamedTypes
    BY <1>2, <1>3 DEF Queue
<1>6. PICK top \in BOOLEAN : Head(todo) = Item(d, top) /\ Plain(d) /\ d.type \in NamedTypes
    BY <1>5
<1>7. Item(d, top).d = d /\ Item(d, top).top = top
    BY DEF Item
<1>8. Task = Item(d, top) /\ Rest = Tail(todo)
    BY <1>1, <1>6 DEF Task, Rest
<1>9. Task.d = d /\ Task.top = top BY <1>7, <1>8
<1> QED BY <1>1, <1>2, <1>4, <1>6, <1>8, <1>9

\* A hash or hashtree descriptor that is verified.
LEMMA Goes ==
    ASSUME JobKnown, pc \in {"verify", "hash"}, job.todo # << >>, Reads, Task.d.type \in {"hash", "hashtree"},
           (Proceed(Rest) /\ Holds(Task.d, job.args)) \/ Result("failed")
    PROVE  JobKnown'
<1>1. PICK d : \E top \in BOOLEAN : Task = Item(d, top) /\ Task.d = d /\ Task.top = top
                                         /\ Plain(d) /\ d.type \in NamedTypes
    BY TaskIs
<1>2. PICK top \in BOOLEAN : Task = Item(d, top) /\ Task.d = d
    BY <1>1
<1>3. CASE Proceed(Rest) /\ Holds(Task.d, job.args)
    <2>1. PICK todo : todo = job.todo OBVIOUS
    <2>2. PICK t : t = Rest OBVIOUS
    <2>3. Queue(todo) /\ todo # << >> /\ Head(todo) = Item(d, top) /\ Watched(job.image, job.args, todo)
          /\ t = Tail(todo) /\ Holds(d, job.args) /\ d.type \in {"hash", "hashtree"} /\ Queue(t)
        BY <1>2, <1>3, <2>1, <2>2, TaskIs DEF Task, Rest
    <2>4. Watched(job.image, job.args, t)
        <3>1. PICK i : i = job.image OBVIOUS
        <3>2. PICK a : a = job.args OBVIOUS
        <3>3. Watched(i, a, todo) /\ \A x : Has(Tail(todo), x) => Has(t, x)
            BY <2>3, <3>1, <3>2
        <3>4. d.type # "chain" /\ Holds(d, a)
            BY <2>3, <3>2
        <3> HIDE DEF JobKnown
        <3>5. Watched(i, a, t)
            BY <2>3, <3>3, <3>4, Passed
        <3> QED BY <3>1, <3>2, <3>5
    <2> QED BY <1>3, <2>2, <2>3, <2>4, Continues
<1>4. CASE Result("failed") BY <1>4, Ends
<1> QED BY <1>3, <1>4

\* AvbHashDescriptor.verify.
LEMMA HashStep == ASSUME JobKnown, VerifyHash PROVE JobKnown'
<1>1. pc = "verify" /\ job.todo # << >> /\ Task.d.type = "hash" /\ Reads
    BY DEF VerifyHash, Verify
<1>2. CASE HashMatches(Task.d, files[Task.d.name])
    <2>1. Holds(Task.d, job.args) /\ Proceed(Rest)
        BY <1>1, <1>2 DEF Holds, VerifyHash
    <2> QED BY <1>1, <2>1, Goes
<1>3. CASE ~ HashMatches(Task.d, files[Task.d.name])
    <2>1. Result("failed") BY <1>3 DEF VerifyHash
    <2> QED BY <1>1, <2>1, Ends
<1> QED BY <1>2, <1>3

\* AvbHashtreeDescriptor.verify, up to the loop over the blocks.
LEMMA TreeStep == ASSUME Known, JobKnown, VerifyHashtree PROVE JobKnown'
<1>1. pc = "verify" /\ job.todo # << >> /\ Task.d.type = "hashtree" /\ Reads
    BY DEF VerifyHashtree, Verify
<1>2. Task.d.image_size \in Nat
    BY <1>1, TaskIs DEF Plain
<1>3. CASE Task.d.image_size > PerBlock
    <2>1. PICK i, a, s, l, r : /\ job = [image |-> i, args |-> a, todo |-> s, left |-> l, result |-> r]
                               /\ job.image = i /\ job.args = a /\ job.todo = s /\ job.left = l /\ job.result = r
        BY JobParts
    <2>2. PICK n \in Nat : n = Task.d.image_size BY <1>2
    <2>3. pc' = "hash" /\ job' = [image |-> i, args |-> a, todo |-> s, left |-> n, result |-> r]
        BY <1>3, <2>1, <2>2 DEF VerifyHashtree
    <2>4. /\ Watched(i, a, s) /\ Queue(s) /\ r = "running" /\ events \in 0 .. MaxEvents
          /\ events' = events /\ files' = files
        BY <1>1, <2>1 DEF JobKnown, Reads
    <2>5. Hashing(s, n)
        <3>1. Head(s) = Task BY <2>1 DEF Task
        <3>2. 0 <= Len(files[Task.d.name])
            <4>1. Task.d.name \in ToSet(Names)
                BY <1>1, TaskIs DEF Plain
            <4>2. Len(files[Task.d.name]) \in Nat
                BY <4>1, CellsTyped
            <4> QED BY <4>2
        <3> QED BY <1>1, <1>3, <2>1, <2>2, <3>1, <3>2 DEF Hashing
    <2>6. Watched(i, a, s)' /\ Hashing(s, n)'
        BY <2>4, <2>5, WatchedStays
    <2>7. /\ job'.image = i /\ job'.args = a /\ job'.todo = s /\ job'.left = n /\ job'.result = r
        BY <2>3
    <2>8. Watched(job.image, job.args, job.todo)' /\ Queue(job.todo)' /\ Hashing(job.todo, job.left)'
        BY <2>4, <2>6, <2>7
    <2>9. job' = [image |-> job'.image, args |-> job'.args, todo |-> job'.todo, left |-> job'.left, result |-> job'.result]
        BY <2>3
    <2> QED BY <2>3, <2>4, <2>7, <2>8, <2>9 DEF JobKnown
<1>4. CASE ~ (Task.d.image_size > PerBlock)
    <2>1. CASE TreeMatches(Task.d, files[Task.d.name], job.args.accept_zeroed)
        <3>1. Proceed(Rest)
            BY <1>4, <2>1 DEF VerifyHashtree
        <3>2. Holds(Task.d, job.args)
            BY <1>1, <1>4, <2>1 DEF Holds, TreeMatches
        <3> QED BY <1>1, <3>1, <3>2, Goes
    <2>2. CASE ~ TreeMatches(Task.d, files[Task.d.name], job.args.accept_zeroed)
        <3>1. Result("failed")
            BY <1>4, <2>2 DEF VerifyHashtree
        <3> QED BY <1>1, <3>1, Ends
    <2> QED BY <2>1, <2>2
<1> QED BY <1>3, <1>4

--------------------------------------------------
\* The loop: the blocks that have been read are there.
LEMMA BlockStep == ASSUME Known, JobKnown, HashBlock PROVE JobKnown'
<1>1. PICK i, a, s, l, r : /\ job = [image |-> i, args |-> a, todo |-> s, left |-> l, result |-> r]
                           /\ job.image = i /\ job.args = a /\ job.todo = s /\ job.left = l /\ job.result = r
    BY JobParts
<1>2. /\ pc = "hash" /\ pc' = pc /\ l > 0 /\ events' = events /\ files' = files
    BY <1>1 DEF HashBlock, Reads
<1>3. /\ Hashing(s, l) /\ Queue(s) /\ Watched(i, a, s) /\ r = "running" /\ l \in Nat /\ events \in 0 .. MaxEvents
    BY <1>1, <1>2 DEF JobKnown
<1>4. PICK f : f = files[Task.d.name] OBVIOUS
<1>5. Task = Head(s) /\ s # << >>
    BY <1>1, <1>3 DEF Task, Hashing
<1>6. Task.d.name \in ToSet(Names) /\ Task.d.image_size \in Nat /\ Task.d.type = "hashtree"
    <2>1. Task.d.type = "hashtree"
        BY <1>3, <1>5 DEF Hashing
    <2> QED BY <1>1, <1>2, <1>5, <2>1, TaskIs DEF Plain
<1>7. IsSeq(f) BY <1>4, <1>6, CellsTyped
<1>8. PICK n \in Nat : n = Task.d.image_size BY <1>6
<1>9. PICK L \in Nat : L = Len(f) BY <1>7, LenNat
<1>10. l \in 0 .. n /\ n - l <= L /\ n > PerBlock
    BY <1>3, <1>4, <1>5, <1>8, <1>9 DEF Hashing
<1>11. PICK b \in Nat \ {0} : b = PerBlock BY SizesOK
<1>12. PICK at \in Nat : at = n - l BY <1>10
<1>13. PICK k \in Nat : k = IF l < b THEN l ELSE b
    BY <1>3
<1>14. PICK c : c = Len(Slice(f, at, k)) OBVIOUS
<1>15. job' = [image |-> i, args |-> a, todo |-> s, left |-> l - c, result |-> r]
    <2>1. job' = [job EXCEPT !.left = @ - Len(Slice(f, Task.d.image_size - job.left, IF job.left < PerBlock THEN job.left ELSE PerBlock))]
        BY <1>4 DEF HashBlock
    <2>2. job' = [job EXCEPT !.left = @ - c]
        BY <1>1, <1>8, <1>11, <1>12, <1>13, <1>14, <2>1
    <2> QED BY <1>1, <2>2
<1>16. c \in Nat /\ c <= k /\ (at + c <= L \/ c = 0)
    <2>1. IsSeq(f) /\ at \in Nat /\ k \in Nat BY <1>7
    <2>2. /\ Len(Slice(f, at, k)) = SliceLen(f, at, k) /\ SliceLen(f, at, k) \in Nat /\ SliceLen(f, at, k) <= k
        BY <2>1, SliceSeq
    <2>3. SliceLen(f, at, k) = IF L <= at THEN 0 ELSE IF at + k < L THEN k ELSE L - at
        BY <1>9 DEF SliceLen
    <2> QED BY <1>14, <2>2, <2>3
<1>17. PICK z \in Nat : z = l - c /\ z \in 0 .. n /\ n - z <= L
    <2>1. c <= l BY <1>3, <1>13, <1>16
    <2> QED BY <1>10, <1>12, <1>16, <2>1
<1>18. Hashing(s, z)
    BY <1>3, <1>4, <1>5, <1>8, <1>9, <1>17 DEF Hashing
<1>19. Watched(i, a, s)' /\ Hashing(s, z)'
    BY <1>2, <1>3, <1>18, WatchedStays
<1>20. /\ job'.image = i /\ job'.args = a /\ job'.todo = s /\ job'.left = z /\ job'.result = r
    BY <1>15, <1>17
<1>21. Watched(job.image, job.args, job.todo)' /\ Queue(job.todo)' /\ Hashing(job.todo, job.left)'
    BY <1>3, <1>19, <1>20
<1>22. job' = [image |-> job'.image, args |-> job'.args, todo |-> job'.todo, left |-> job'.left, result |-> job'.result]
    BY <1>15
<1> QED BY <1>2, <1>3, <1>20, <1>21, <1>22 DEF JobKnown

\* The comparison behind the loop.
LEMMA CompareStep == ASSUME Known, JobKnown, CompareTree PROVE JobKnown'
<1>1. pc = "hash" /\ job.left = 0 /\ Reads /\ Hashing(job.todo, 0)
    BY DEF CompareTree, JobKnown
<1>2. /\ job.todo # << >> /\ Task.d.type = "hashtree"
      /\ Task.d.image_size - 0 <= Len(files[Task.d.name])
    BY <1>1 DEF Hashing, Task
<1>3. Task.d.image_size \in Nat
    BY <1>1, <1>2, TaskIs DEF Plain
<1>4. CASE TreeMatches(Task.d, files[Task.d.name], job.args.accept_zeroed)
    <2>1. Proceed(Rest) BY <1>4 DEF CompareTree
    <2>2. Holds(Task.d, job.args)
        BY <1>2, <1>3, <1>4 DEF Holds, TreeMatches
    <2> QED BY <1>1, <1>2, <2>1, <2>2, Goes
<1>5. CASE ~ TreeMatches(Task.d, files[Task.d.name], job.args.accept_zeroed)
    <2>1. Result("failed") BY <1>5 DEF CompareTree
    <2> QED BY <1>1, <2>1, Ends
<1> QED BY <1>4, <1>5

\* The descriptors of a chained image come before what is left.
Queues(p, top, s, t, a) == Queue(t) /\ (\A x : Has(s, x) => Has(t, x)) /\ Seen(p, top, t, a)

\* The descriptors of a chained image are tasks, before those that are left.
LEMMA Queued ==
    ASSUME Known, NEW p \in ToSet(Names), Parses(files[p]), NEW top \in BOOLEAN, NEW s, Queue(s), NEW a
    PROVE  Queues(p, top, s, Tasks(ParseImage(files[p]), top) \o s, a)
<1>0. PICK t : t = Tasks(ParseImage(files[p]), top) \o s OBVIOUS
<1>1. PICK ds : ds = ParseImage(files[p]) OBVIOUS
<1>2. IsSeq(ds) /\ \A d : Has(ds, d) => Plain(d)
    BY <1>1, ShownPlain
<1>3. PICK u : u = Tasks(ds, top) OBVIOUS
<1>4. IsSeq(u) /\ \A x : Has(u, x) <=> \E d : Has(ds, d) /\ d.type \in NamedTypes /\ x = Item(d, top)
    BY <1>2, <1>3, TasksIs
<1>5. IsSeq(s) BY DEF Queue
<1>6. t = u \o s BY <1>0, <1>1, <1>3
<1>7. IsSeq(t) /\ \A x : Has(t, x) <=> Has(u, x) \/ Has(s, x)
    <2>1. IsSeq(u) /\ IsSeq(s) BY <1>4, <1>5
    <2> QED BY <1>6, <2>1, CatSeq, CatHas
<1>8. Queue(t)
    <2> SUFFICES ASSUME NEW x, Has(t, x)
                 PROVE  \E d : \E y \in BOOLEAN : x = Item(d, y) /\ Plain(d) /\ d.type \in NamedTypes
        BY <1>7 DEF Queue
    <2>1. CASE Has(s, x) BY <2>1 DEF Queue
    <2>2. CASE Has(u, x) BY <1>2, <1>4, <2>2
    <2> QED BY <1>7, <2>1, <2>2
<1>9. \A d : Has(ds, d) /\ d.type \in NamedTypes => Has(t, Item(d, top))
    BY <1>4, <1>7
<1>10. Seen(p, top, t, a)
    <2>1. \A d : d.type \in {"hash", "hashtree"} => d.type \in NamedTypes
        BY DEF NamedTypes
    <2> QED BY <1>1, <1>9, <2>1 DEF Seen
<1> QED BY <1>0, <1>7, <1>8, <1>10 DEF Queues

\* AvbChainPartitionDescriptor.verify, which may call verify_image for another image.
LEMMA ChainStep == ASSUME Known, JobKnown, VerifyChain PROVE JobKnown'
<1>1. pc = "verify" /\ job.todo # << >> /\ Task.d.type = "chain" /\ Reads
    BY DEF VerifyChain, Verify
<1>2. PICK d : \E top \in BOOLEAN : Task = Item(d, top) /\ Task.d = d /\ Task.top = top
                                         /\ Plain(d) /\ d.type \in NamedTypes
    BY <1>1, TaskIs
<1>3. PICK top \in BOOLEAN : Task = Item(d, top) /\ Task.d = d /\ Task.top = top /\ Plain(d) /\ d.type \in NamedTypes
    BY <1>2
<1>4. d.name \in ToSet(Names) /\ d.type = "chain"
    BY <1>1, <1>3 DEF Plain
<1>5. PICK todo : todo = job.todo OBVIOUS
<1>6. PICK i : i = job.image OBVIOUS
<1>7. PICK a : a = job.args OBVIOUS
<1>8. PICK s : s = Rest OBVIOUS
<1>9. /\ Queue(todo) /\ todo # << >> /\ Head(todo) = Item(d, top) /\ Watched(i, a, todo) /\ Queue(s) /\ s = Tail(todo)
    BY <1>1, <1>3, <1>5, <1>6, <1>7, <1>8, TaskIs DEF Task, Rest
<1>10. a.follow \in BOOLEAN
    BY <1>9, AvbImagesAssumption DEF Watched
<1>11. \/ Result("failed")
       \/ (top = FALSE \/ a.follow = FALSE) /\ Proceed(s)
       \/ Checked(files[d.name], a.key) /\ Proceed(Tasks(ParseImage(files[d.name]), FALSE) \o s)
    BY <1>3, <1>7, <1>8, <1>10 DEF VerifyChain
<1>12. CASE Result("failed") BY <1>1, <1>12, Ends
<1>13. CASE (top = FALSE \/ a.follow = FALSE) /\ Proceed(s)
    <2>1. \A x : Has(Tail(todo), x) => Has(s, x) BY <1>9
    <2>2. d.type \notin {"hash", "hashtree"} /\ ~ (top = TRUE /\ a.follow = TRUE)
        BY <1>4, <1>13
    <2> HIDE DEF JobKnown, Known
    <2>3. Watched(i, a, s) BY <1>9, <2>1, <2>2, Passed
    <2> QED BY <1>1, <1>6, <1>7, <1>9, <1>13, <2>3, Continues
<1>14. CASE Checked(files[d.name], a.key) /\ Proceed(Tasks(ParseImage(files[d.name]), FALSE) \o s)
    <2>1. PICK t : t = Tasks(ParseImage(files[d.name]), FALSE) \o s OBVIOUS
    <2>2. Parses(files[d.name]) BY <1>14 DEF Checked
    <2>3. Queue(t) /\ (\A x : Has(s, x) => Has(t, x)) /\ Seen(d.name, FALSE, t, a)
        <3>1. Known /\ d.name \in ToSet(Names) /\ Parses(files[d.name]) /\ Queue(s) /\ FALSE \in BOOLEAN
            BY <1>4, <1>9, <2>2
        <3>2. Queues(d.name, FALSE, s, Tasks(ParseImage(files[d.name]), FALSE) \o s, a)
            BY <3>1, Queued, Zenon
        <3>3. Queues(d.name, FALSE, s, t, a)
            BY <2>1, <3>2, Zenon
        <3> QED BY <3>3, Zenon DEF Queues
    <2>4. \A x : Has(Tail(todo), x) => Has(t, x)
        BY <1>9, <2>3
    <2>5. d.type \notin {"hash", "hashtree"} BY <1>4
    <2> HIDE DEF JobKnown, Known
    <2>6. Watched(i, a, t)
        BY <1>9, <1>14, <2>3, <2>4, <2>5, Passed
    <2> QED BY <1>1, <1>6, <1>7, <1>14, <2>1, <2>3, <2>6, Continues
<1> QED BY <1>11, <1>12, <1>13, <1>14

\* All descriptors have been verified.
LEMMA DoneStep == ASSUME JobKnown, VerifyDone PROVE JobKnown'
<1>1. pc = "verify" /\ job.todo = << >> /\ Reads /\ Result("ok")
    BY DEF VerifyDone
<1>2. Watched(job.image, job.args, << >>)
    BY <1>1 DEF JobKnown
<1> QED BY <1>1, <1>2, Ends

\* The beginning of verify_image.
LEMMA StartStep == ASSUME Known, JobKnown, NEW a \in Verifies, VerifyImage(a) PROVE JobKnown'
<1>1. pc = "idle" /\ events' = events /\ files' = files /\ events \in 0 .. MaxEvents
    BY DEF VerifyImage, Reads, JobKnown
<1>2. PICK p \in ToSet(Names) : p = a.image
    BY AvbImagesAssumption
<1>3. PICK i : i = p OBVIOUS
<1>4. PICK j : j = [NoJob EXCEPT !.image = a.image, !.args = a] OBVIOUS
<1>5. j = [image |-> p, args |-> a, todo |-> << >>, left |-> 0, result |-> "running"]
    BY <1>2, <1>4 DEF NoJob
<1>6. CASE Checked(files[p], a.key)
    <2>1. PICK t : t = Tasks(ParseImage(files[p]), TRUE) OBVIOUS
    <2>2. pc' = "verify" /\ job' = [j EXCEPT !.todo = t]
        BY <1>2, <1>4, <1>6, <2>1 DEF VerifyImage
    <2>3. job' = [image |-> p, args |-> a, todo |-> t, left |-> 0, result |-> "running"]
        BY <1>5, <2>2
    <2>4. PICK ds : ds = ParseImage(files[p]) OBVIOUS
    <2>5. IsSeq(ds) /\ \A d : Has(ds, d) => Plain(d)
        BY <1>6, <2>4, ShownPlain DEF Checked
    <2>6. IsSeq(t) /\ \A x : Has(t, x) <=> \E d : Has(ds, d) /\ d.type \in NamedTypes /\ x = Item(d, TRUE)
        <3>1. t = Tasks(ds, TRUE) BY <2>1, <2>4
        <3>2. IsSeq(ds) BY <2>5
        <3>3. /\ IsSeq(Tasks(ds, TRUE))
              /\ \A x : Has(Tasks(ds, TRUE), x) <=> \E d : Has(ds, d) /\ d.type \in NamedTypes /\ x = Item(d, TRUE)
            BY <3>2, TasksIs, ZenonT(40)
        <3>4. IsSeq(t) BY <3>1, <3>3
        <3>5. ASSUME NEW x PROVE Has(t, x) <=> \E d : Has(ds, d) /\ d.type \in NamedTypes /\ x = Item(d, TRUE)
            BY <3>1, <3>3, Zenon
        <3> QED BY <3>4, <3>5, Zenon
    <2>7. Queue(t)
        <3> SUFFICES ASSUME NEW x, Has(t, x)
                     PROVE  \E d : \E y \in BOOLEAN : x = Item(d, y) /\ Plain(d) /\ d.type \in NamedTypes
            BY <2>6 DEF Queue
        <3>1. PICK d : Has(ds, d) /\ d.type \in NamedTypes /\ x = Item(d, TRUE)
            BY <2>6
        <3>2. Plain(d) /\ TRUE \in BOOLEAN BY <2>5, <3>1
        <3> QED BY <3>1, <3>2
    <2>8. Watched(p, a, t)
        <3>1. \A d : d.type \in {"hash", "hashtree", "chain"} => d.type \in NamedTypes
            BY DEF NamedTypes
        <3>2. \A d : Has(ds, d) /\ d.type \in {"hash", "hashtree", "chain"} => Has(t, Item(d, TRUE))
            <4> SUFFICES ASSUME NEW d, Has(ds, d), d.type \in {"hash", "hashtree", "chain"} PROVE Has(t, Item(d, TRUE))
                OBVIOUS
            <4>1. d.type \in NamedTypes BY <3>1
            <4> QED BY <2>6, <4>1, Zenon
        <3>3. Seen(p, TRUE, t, a) BY <2>4, <3>2 DEF Seen
        <3>4. SeenChains(p, a, t)
            BY <2>4, <3>2 DEF SeenChains
        <3> QED BY <1>2, <1>6, <3>3, <3>4 DEF Watched
    <2>9. Watched(p, a, t)' BY <1>1, <2>8, WatchedStays
    <2>10. /\ job'.image = p /\ job'.args = a /\ job'.todo = t /\ job'.left = 0 /\ job'.result = "running"
        BY <2>3
    <2>11. Watched(job.image, job.args, job.todo)' /\ Queue(job.todo)'
        BY <2>7, <2>9, <2>10
    <2>12. job' = [image |-> job'.image, args |-> job'.args, todo |-> job'.todo, left |-> job'.left, result |-> job'.result]
        BY <2>3
    <2> QED BY <1>1, <2>2, <2>10, <2>11, <2>12 DEF JobKnown
<1>7. CASE ~ Checked(files[p], a.key)
    <2>1. pc' = "done" /\ job' = [j EXCEPT !.result = "failed"]
        BY <1>2, <1>4, <1>7 DEF VerifyImage
    <2>2. job' = [image |-> p, args |-> a, todo |-> << >>, left |-> 0, result |-> "failed"]
        BY <1>5, <2>1
    <2>3. job' = [image |-> job'.image, args |-> job'.args, todo |-> job'.todo, left |-> job'.left, result |-> job'.result]
        BY <2>2
    <2>4. job'.left = 0 /\ job'.result = "failed"
        BY <2>2
    <2> QED BY <1>1, <2>1, <2>3, <2>4 DEF JobKnown
<1> QED BY <1>6, <1>7

\* Before a verification there is nothing to do.
LEMMA NoJobIs == NoJob = [image |-> NoJob.image, args |-> NoJob.args, todo |-> NoJob.todo, left |-> NoJob.left,
                          result |-> NoJob.result] /\ NoJob.left = 0 /\ NoJob.result = "running"
BY DEF NoJob

\* The program ends.
LEMMA ReturnStep == ASSUME JobKnown, Return PROVE JobKnown'
<1>1. pc' = "idle" /\ job' = NoJob /\ events' = events /\ events \in 0 .. MaxEvents
    BY DEF Return, Reads, JobKnown
<1> QED BY <1>1, NoJobIs DEF JobKnown

\* Every step that writes is taken between two verifications.
LEMMA WriteStep ==
    ASSUME JobKnown, pc = "idle", pc' = pc, job' = job, events' = events \/ (events' = events + 1 /\ events < MaxEvents)
    PROVE  JobKnown'
<1>1. events' \in 0 .. MaxEvents
    BY AvbImagesAssumption DEF JobKnown
<1>2. /\ job' = [image |-> job'.image, args |-> job'.args, todo |-> job'.todo, left |-> job'.left, result |-> job'.result]
      /\ job'.result = "running" /\ job'.left \in Nat
    BY DEF JobKnown
<1> QED BY <1>1, <1>2 DEF JobKnown

\* In the beginning nothing is verified.
LEMMA InitJob == ASSUME Init PROVE JobKnown
<1>1. pc = "idle" /\ job = NoJob /\ events = 0
    BY DEF Init
<1>2. 0 \in 0 .. MaxEvents BY AvbImagesAssumption
<1> QED BY <1>1, <1>2, NoJobIs DEF JobKnown

--------------------------------------------------
\* None of the steps that write touches a verification.
LEMMA WriteSteps ==
    ASSUME JobKnown, \/ \E p \in DOMAIN Sizes : Build(p)
                     \/ \E a \in Footers : AddHashFooter(a.image, a) \/ AddHashtreeFooter(a.image, a)
                     \/ \E p \in ToSet(Names) : ZeroHashtree(p) \/ Zero(p) \/ Truncate(p)
                     \/ \E a \in Makes : MakeVbmetaImage(a)
    PROVE  JobKnown'
<1>1. pc = "idle" /\ pc' = pc /\ job' = job /\ (events' = events \/ (events' = events + 1 /\ events < MaxEvents))
    <2>1. CASE \E p \in DOMAIN Sizes : Build(p)
        BY <2>1 DEF Build, Writes
    <2>2. CASE \E a \in Footers : AddHashFooter(a.image, a) \/ AddHashtreeFooter(a.image, a)
        BY <2>2 DEF AddHashFooter, AddHashtreeFooter, Writes
    <2>3. CASE \E p \in ToSet(Names) : ZeroHashtree(p) \/ Zero(p) \/ Truncate(p)
        BY <2>3 DEF ZeroHashtree, Zero, Truncate, Fault
    <2>4. CASE \E a \in Makes : MakeVbmetaImage(a)
        BY <2>4 DEF MakeVbmetaImage, Writes
    <2> QED BY <2>1, <2>2, <2>3, <2>4
<1> QED BY <1>1, WriteStep

\* A step that changes nothing.
LEMMA StutterJob == ASSUME JobKnown, UNCHANGED vars PROVE JobKnown'
<1>1. files' = files /\ pc' = pc /\ job' = job /\ events' = events
    BY DEF vars
<1> QED BY <1>1 DEF JobKnown, Watched, Seen, SeenChains, Holds, Hashing

\* ImagesKnown is an invariant of Spec: every image is what the last command
\* has left of it, up to damage (Known), and verify_image has seen what it has
\* taken off its list (JobKnown).
THEOREM Invariance == Spec => []ImagesKnown
<1>1. Init => ImagesKnown
    BY InitKnown, InitJob DEF ImagesKnown
<1>2. ASSUME ImagesKnown, [Next]_vars PROVE ImagesKnown'
    <2>1. Known /\ JobKnown BY <1>2 DEF ImagesKnown
    <2>2. Known' BY <1>2, <2>1, StepKnown
    <2>3. JobKnown'
        <3>1. CASE \/ \E p \in DOMAIN Sizes : Build(p)
                   \/ \E a \in Footers : AddHashFooter(a.image, a) \/ AddHashtreeFooter(a.image, a)
                   \/ \E p \in ToSet(Names) : ZeroHashtree(p) \/ Zero(p) \/ Truncate(p)
                   \/ \E a \in Makes : MakeVbmetaImage(a)
            BY <2>1, <3>1, WriteSteps
        <3>2. CASE \E a \in Verifies : VerifyImage(a)
            BY <2>1, <3>2, StartStep
        <3>3. CASE Verifying
            BY <2>1, <3>3, HashStep, TreeStep, BlockStep, CompareStep, ChainStep, DoneStep DEF Verifying
        <3>4. CASE Return BY <2>1, <3>4, ReturnStep
        <3>5. CASE UNCHANGED vars
            BY <2>1, <3>5, StutterJob
        <3> QED BY <1>2, <3>1, <3>2, <3>3, <3>4, <3>5 DEF Next
    <2> QED BY <2>2, <2>3 DEF ImagesKnown
<1> QED BY <1>1, <1>2, PTL DEF Spec

\* TypeOK for any names, sizes, keys, command lines, and block size: the cells of
\* the images, the variables of verify_image, and every file with a footer ends
\* at a block, whatever is built, written, damaged and cut.
THEOREM TypeCorrect == Spec => []TypeOK
<1>1. ASSUME ImagesKnown PROVE TypeOK
    <2>1. Known /\ JobKnown BY <1>1 DEF ImagesKnown
    <2>2. \A p \in ToSet(Names) : \A i \in DOMAIN files[p] : files[p][i].kind \in Kinds
        BY <2>1, CellsTyped
    <2>3. \A p \in ToSet(Names) : HasFooter(files[p]) => Len(files[p]) % PerBlock = 0
        BY <2>1, CellsTyped
    <2>4. /\ pc \in {"idle", "verify", "hash", "done"} /\ job.result \in {"running", "ok", "failed"}
          /\ job.left \in Nat /\ hurt \subseteq ToSet(Names) /\ events \in 0 .. MaxEvents
        BY <2>1 DEF Known, JobKnown
    <2> QED BY <2>2, <2>3, <2>4 DEF TypeOK, Kinds
<1> QED BY <1>1, Invariance, PTL

\* What is accepted has been made, and holds what it held then.
Accepted(q, key) ==
    /\ IsMade(q) /\ Sound(made[q])
    /\ key # None => Signed(q) /\ made[q].key = key
    /\ Believed(q) => /\ ParseImage(files[q]) = Ds(made[q]) /\ VbmetaBlob(files[q]) = made[q].blob
                      /\ \A c \in made[q].covers : c.pinned => Slice(files[c.name], 0, Len(c.data)) = c.data

\* A descriptor that says what a cover remembers, and holds.
LEMMA Pinned ==
    ASSUME Known, NEW d, NEW c, c.name \in ToSet(Names), Describes(d, c), c.pinned, NEW a, Holds(d, a)
    PROVE  Slice(files[c.name], 0, Len(c.data)) = c.data
<1>1. PICK f : f = files[c.name] OBVIOUS
<1>2. IsSeq(f) BY <1>1, CellsTyped
<1>3. PICK x : x = c.data OBVIOUS
<1>4. IsSeq(x) /\ d.type = TypeOf(c) /\ d.name = c.name /\ d.image_size = Len(x)
    BY <1>3 DEF Describes
<1>5. PICK n \in Nat : n = Len(x) BY <1>4, LenNat
<1>6. PICK y : y = Slice(f, 0, n) OBVIOUS
<1>7. IsSeq(y) /\ Len(y) = SliceLen(f, 0, n)
    <2>1. IsSeq(f) /\ 0 \in Nat /\ n \in Nat BY <1>2
    <2> HIDE DEF Known
    <2>2. IsSeq(Slice(f, 0, n)) /\ Len(Slice(f, 0, n)) = SliceLen(f, 0, n)
        BY <2>1, SliceSeq
    <2> QED BY <1>6, <2>2
<1>10. c.pinned = TRUE BY DEF Describes
<1>8. CASE d.type = "hash"
    <2>1. d.digest = <<Digest(x)>>
        BY <1>3, <1>8, <1>10 DEF Describes, SaysDigest
    <2>2. d.digest # << >> => d.digest = <<Digest(y)>>
        BY <1>1, <1>4, <1>5, <1>6, <1>8 DEF Holds, HashMatches
    <2>3. <<Digest(x)>> # << >> /\ <<Digest(x)>>[1] = Digest(x) /\ <<Digest(y)>>[1] = Digest(y)
        BY OneSeq, NilIs DEF NilSeq
    <2>4. Digest(x) = Digest(y) BY <2>1, <2>2, <2>3
    <2>5. x = y BY <2>4, DigestOf
    <2> QED BY <1>1, <1>3, <1>5, <1>6, <2>5
<1>9. CASE d.type # "hash"
    <2>2. d.type = "hashtree" BY <1>4, <1>9 DEF TypeOf
    <2>1. d.root_digest = <<RootDigest(x)>>
        BY <1>3, <1>10, <2>2 DEF Describes, SaysDigest
    <2>3. /\ d.root_digest # << >> => d.root_digest = <<RootDigest(y)>>
          /\ n > PerBlock => n <= Len(f)
        BY <1>1, <1>4, <1>5, <1>6, <2>2 DEF Holds
    <2>4. <<RootDigest(x)>> # << >> /\ <<RootDigest(x)>>[1] = RootDigest(x) /\ <<RootDigest(y)>>[1] = RootDigest(y)
        BY OneSeq, NilIs DEF NilSeq
    <2>5. RootDigest(x) = RootDigest(y)
        BY <2>1, <2>3, <2>4
    <2>6. Len(x) = Len(y) \/ (Len(x) <= PerBlock /\ Len(y) <= PerBlock)
        <3>1. PICK b \in Nat \ {0} : b = PerBlock
            BY SizesOK
        <3>2. PICK L \in Nat : L = Len(f)
            BY <1>2, LenNat
        <3>3. Len(y) = IF L <= 0 THEN 0 ELSE IF 0 + n < L THEN n ELSE L - 0
            BY <1>7, <3>2 DEF SliceLen
        <3>4. n > b => n <= L BY <2>3, <3>1, <3>2
        <3>5. Len(y) = n \/ (n <= b /\ Len(y) <= b)
            BY <3>3, <3>4
        <3> QED BY <1>5, <3>1, <3>5
    <2>7. x = y
        <3> HIDE DEF Known
        <3> QED BY <1>4, <1>7, <2>5, <2>6, RootPins
    <2> QED BY <1>1, <1>3, <1>5, <1>6, <2>7
<1> QED BY <1>8, <1>9

\* An image without open descriptors is accepted for good.
LEMMA AcceptedIs ==
    ASSUME Known, NEW q \in ToSet(Names), NEW key \in DOMAIN KeySize \cup {None}, Checked(files[q], key),
           NEW top, NEW a, Seen(q, top, << >>, a)
    PROVE  Accepted(q, key)
<1>1. PICK g : Left(q, g, made[q]) /\ Damaged(files[q], g) /\ (q \notin hurt => files[q] = g)
    BY DEF Known, FilesKnown
<1>2. PICK m : m = made[q] OBVIOUS
<1>3. PICK f : f = files[q] OBVIOUS
<1>4. Left(q, g, m) /\ Damaged(f, g) /\ (q \notin hurt => f = g) /\ Checked(f, key)
    BY <1>1, <1>2, <1>3
<1>5. /\ m.blob # << >> /\ (key # None => m.alg # "NONE" /\ m.key = key)
      /\ m.alg # "NONE" => VbmetaBlob(f) = m.blob /\ ParseImage(f) = Ds(m)
    BY <1>4, CheckedSound
<1>6. Sound(m) BY <1>4, <1>5 DEF Left
<1>7. ASSUME Believed(q) PROVE ParseImage(f) = Ds(m) /\ VbmetaBlob(f) = m.blob
    <2>1. CASE m.alg # "NONE" BY <1>5, <2>1
    <2>2. CASE m.alg = "NONE"
        <3>1. f = g
            BY <1>2, <1>4, <1>7, <2>2 DEF Believed, Signed
        <3> QED BY <1>4, <1>5, <3>1, LeftFound
    <2> QED BY <2>1, <2>2
<1>8. ASSUME Believed(q), NEW c \in m.covers, c.pinned PROVE Slice(files[c.name], 0, Len(c.data)) = c.data
    <2>1. c.name \in ToSet(Names) /\ \E d : Has(Ds(m), d) /\ Describes(d, c)
        BY <1>6 DEF Sound, Knows
    <2>2. PICK d : Has(Ds(m), d) /\ Describes(d, c)
        BY <2>1
    <2>3. d.type \in {"hash", "hashtree"}
        BY <2>2 DEF Describes, TypeOf
    <2>4. Has(ParseImage(files[q]), d)
        BY <1>3, <1>7, <1>8, <2>2
    <2>5. Holds(d, a) BY <2>3, <2>4, NilIs DEF Seen
    <2> QED BY <1>8, <2>1, <2>2, <2>5, Pinned
<1> QED BY <1>2, <1>3, <1>5, <1>6, <1>7, <1>8 DEF Accepted, IsMade, Signed

\* What verify_image has looked at is parsed, and every descriptor of it is seen.
LEMMA LookedSeen ==
    ASSUME Known, Watched(job.image, job.args, << >>)
    PROVE  /\ Accepted(job.image, job.args.key)
           /\ \A p \in Looked(job.args) : /\ p \in ToSet(Names) /\ Checked(files[p], job.args.key)
                                         /\ Accepted(p, job.args.key)
                                         /\ \E top : Seen(p, top, << >>, job.args)
<1>1. PICK a : a = job.args OBVIOUS
<1>2. PICK i : i = job.image OBVIOUS
<1>3. /\ a \in Verifies /\ i = a.image /\ Checked(files[i], a.key)
      /\ Seen(i, TRUE, << >>, a) /\ SeenChains(i, a, << >>)
    BY <1>1, <1>2 DEF Watched
<1>4. i \in ToSet(Names) /\ a.key \in DOMAIN KeySize \cup {None} /\ a.follow \in BOOLEAN
    BY <1>3, AvbImagesAssumption
<1>5. Accepted(i, a.key) BY <1>3, <1>4, AcceptedIs
<1>6. ASSUME NEW c \in made[i].chains, a.follow = TRUE, Believed(i)
      PROVE  /\ c.name \in ToSet(Names) /\ Checked(files[c.name], a.key)
             /\ Accepted(c.name, a.key) /\ Seen(c.name, FALSE, << >>, a)
    <2>1. PICK d : c.name \in ToSet(Names) /\ Has(Ds(made[i]), d) /\ d.type = "chain" /\ d.name = c.name
        BY <1>5 DEF Accepted, Sound, Knows
    <2>2. Has(ParseImage(files[i]), d)
        BY <1>5, <1>6, <2>1 DEF Accepted
    <2>3. Checked(files[d.name], a.key) /\ Seen(d.name, FALSE, << >>, a)
        BY <1>3, <1>6, <2>1, <2>2, NilIs DEF SeenChains
    <2>4. Checked(files[c.name], a.key) /\ Seen(c.name, FALSE, << >>, a)
        BY <2>1, <2>3
    <2> QED BY <1>4, <2>1, <2>4, AcceptedIs
<1>7. ASSUME NEW p \in Looked(a)
      PROVE  /\ p \in ToSet(Names) /\ Checked(files[p], a.key) /\ Accepted(p, a.key)
             /\ \E top : Seen(p, top, << >>, a)
    <2>1. CASE p = i BY <1>3, <1>4, <1>5, <2>1
    <2>2. CASE p # i
        <3>1. a.follow = TRUE /\ Believed(i) /\ \E c \in made[i].chains : p = c.name
            BY <1>3, <1>4, <2>2 DEF Looked
        <3> QED BY <1>6, <3>1
    <2> QED BY <2>1, <2>2
<1> QED BY <1>1, <1>2, <1>5, <1>7

\* verify_image returns success only for images that a command has made, signed
\* with the expected key where one is given, whose struct is unchanged and whose
\* data, chained partitions included where they are followed, is what it was when
\* the digest was taken.
THEOREM VerifiedSound == Spec => []VerifySound
<1>1. ASSUME ImagesKnown PROVE VerifySound
    <2> SUFFICES ASSUME job.result = "ok"
                 PROVE  /\ IsMade(job.image)
                        /\ \A p \in Looked(job.args) :
                             /\ IsMade(p)
                             /\ job.args.key # None => Signed(p) /\ made[p].key = job.args.key
                             /\ Believed(p) =>
                                  /\ VbmetaBlob(files[p]) = made[p].blob
                                  /\ \A c \in made[p].covers : c.pinned => Slice(files[c.name], 0, Len(c.data)) = c.data
        BY DEF VerifySound
    <2>1. Known /\ Watched(job.image, job.args, << >>)
        BY <1>1 DEF ImagesKnown, JobKnown
    <2>2. Accepted(job.image, job.args.key) /\ \A p \in Looked(job.args) : Accepted(p, job.args.key)
        BY <2>1, LookedSeen
    <2> QED BY <2>2 DEF Accepted
<1> QED BY <1>1, Invariance, PTL

--------------------------------------------------
(* The digest of a vbmeta image. *)

\* The descriptors in a struct by itself.
Ret(b) == parse_descriptors(Slice(b, 1 + b[1].h.auth + b[1].h.desc_offset, b[1].h.desc_size)).ret

\* Only the first cell is a header.
OneHeader(b) ==
    /\ IsSeq(b) /\ Len(b) \in Nat /\ Len(b) # 0 /\ b[1].kind = "header"
    /\ \A i \in 1 .. Len(b) : i > 1 => b[i].kind # "header"

\* A slice of a slice.
LEMMA SliceSlice ==
    ASSUME NEW s, IsSeq(s), NEW at \in Nat, NEW n \in Nat, NEW i \in Nat, NEW k \in Nat, i + k <= n
    PROVE  Slice(Slice(s, at, n), i, k) = Slice(s, at + i, k)
<1>1. PICK L \in Nat : L = Len(s) BY LenNat
<1>2. PICK v : v = Slice(s, at, n) OBVIOUS
<1>3. /\ IsSeq(v) /\ Len(v) = SliceLen(s, at, n)
      /\ \A j \in 1 .. SliceLen(s, at, n) : v[j] = s[at + j]
    BY <1>2, SliceSeq
<1>4. PICK l \in Nat : l = Len(v) BY <1>3, LenNat
<1>5. l = IF L <= at THEN 0 ELSE IF at + n < L THEN n ELSE L - at
    BY <1>1, <1>3, <1>4 DEF SliceLen
<1>6. PICK x : x = Slice(v, i, k) OBVIOUS
<1>7. PICK y : y = Slice(s, at + i, k) OBVIOUS
<1>8. /\ IsSeq(x) /\ Len(x) = SliceLen(v, i, k)
      /\ \A j \in 1 .. SliceLen(v, i, k) : i + j <= Len(v) /\ x[j] = v[i + j]
    <2>1. IsSeq(v) /\ i \in Nat /\ k \in Nat BY <1>3
    <2>2. /\ IsSeq(Slice(v, i, k)) /\ Len(Slice(v, i, k)) = SliceLen(v, i, k)
          /\ \A j \in 1 .. SliceLen(v, i, k) : i + j <= Len(v) /\ Slice(v, i, k)[j] = v[i + j]
        BY <2>1, SliceSeq
    <2> QED BY <1>6, <2>2
<1>9. PICK q \in Nat : q = at + i OBVIOUS
<1>10. /\ IsSeq(y) /\ Len(y) = SliceLen(s, at + i, k)
       /\ \A j \in 1 .. SliceLen(s, at + i, k) : y[j] = s[(at + i) + j]
    <2>1. IsSeq(s) /\ q \in Nat /\ k \in Nat OBVIOUS
    <2>2. /\ IsSeq(Slice(s, q, k)) /\ Len(Slice(s, q, k)) = SliceLen(s, q, k)
          /\ \A j \in 1 .. SliceLen(s, q, k) : Slice(s, q, k)[j] = s[q + j]
        BY <2>1, SliceSeq
    <2> QED BY <1>7, <1>9, <2>2
<1>11. PICK p \in Nat : p = Len(x) BY <1>8, LenNat
<1>12. p = IF l <= i THEN 0 ELSE IF i + k < l THEN k ELSE l - i
    BY <1>4, <1>8, <1>11 DEF SliceLen
<1>13. Len(y) = IF L <= at + i THEN 0 ELSE IF (at + i) + k < L THEN k ELSE L - (at + i)
    BY <1>1, <1>10 DEF SliceLen
<1>14. Len(y) = p BY <1>5, <1>12, <1>13
<1>15. ASSUME NEW j \in 1 .. Len(x) PROVE x[j] = y[j]
    <2>1. j \in 1 .. p /\ i + j <= l /\ x[j] = v[i + j]
        BY <1>4, <1>8, <1>11
    <2>2. i + j \in 1 .. l /\ at + (i + j) = (at + i) + j
        BY <2>1
    <2>3. v[i + j] = s[at + (i + j)] BY <1>3, <1>4, <2>2
    <2>4. y[j] = s[(at + i) + j] BY <1>10, <1>11, <1>14
    <2> QED BY <2>1, <2>2, <2>3, <2>4
<1>16. IsSeq(x) /\ IsSeq(y) /\ Len(x) = Len(y)
    BY <1>8, <1>10, <1>11, <1>14
<1>17. x = y BY <1>15, <1>16, SameSeq
<1> QED BY <1>2, <1>6, <1>7, <1>17

\* Whatever has happened to a copy: if it is read, its struct starts with the only
\* header in it, and it is all that the descriptors come from.
LEMMA BlobIs ==
    ASSUME NEW p, NEW g, NEW m, Left(p, g, m), NEW f, Damaged(f, g), Parses(f)
    PROVE  OneHeader(VbmetaBlob(f)) /\ ParseImage(f) = Ret(VbmetaBlob(f))
<1>1. m.blob # << >> /\ Sound(m) BY BareRefused DEF Left
<1>2. PICK at : Spot(g, m, at) BY <1>1, SpotIs
<1>3. PICK a, minor : Args(a) /\ m.blob = Struct(a, Ds(m), minor)
    BY <1>1 DEF Sound
<1>4. PICK h : h = HeadOf(a, Ds(m), minor) OBVIOUS
<1>5. PICK b : b = VbmetaBlob(f) OBVIOUS
<1>6. IsHeader(f) BY DEF Parses
<1>7. HeaderOf(f) = h /\ Damaged(b, m.blob) /\ b # << >> /\ b[1] = m.blob[1]
    BY <1>1, <1>2, <1>3, <1>4, <1>5, <1>6, CopyStruct
<1>8. VbmetaOffset(f) = at BY <1>2, <1>6, CopyHeader
<1>9. IsSeq(Ds(m)) BY <1>1 DEF Sound, Knows
<1>10. m.blob[1] = HeadCell(a, Ds(m), minor)
    BY <1>3, <1>4, <1>9, StructIs
<1>11. b[1].kind = "header" /\ b[1].h = h
    BY <1>4, <1>7, <1>10 DEF HeadCell
<1>12. OneHeader(b)
    <2>1. IsSeq(b) /\ Len(b) \in Nat /\ Len(b) # 0 /\ Len(m.blob) \in Nat /\ Len(b) <= Len(m.blob)
        BY <1>7, LenNat DEF Damaged
    <2>2. ASSUME NEW i \in 1 .. Len(b), i > 1 PROVE b[i].kind # "header"
        <3>1. i \in 1 .. Len(m.blob) /\ i # 1
            BY <2>1, <2>2
        <3>2. m.blob[i].kind # "header"
            BY <1>1, <3>1, NoFooterIn
        <3>3. b[i] = m.blob[i] \/ b[i] = Nul
            BY <1>7 DEF Damaged
        <3> QED BY <3>2, <3>3, NulDiffers
    <2> QED BY <1>11, <2>1, <2>2 DEF OneHeader
<1>13. /\ h.auth \in Nat /\ h.aux \in Nat /\ h.desc_size \in Nat /\ h.desc_offset = 0
       /\ h.desc_size <= h.aux
    <2>1. /\ h.auth \in Nat /\ h.aux \in Nat /\ h.desc_size \in Nat /\ h.desc_offset = 0
          /\ h.desc_size = Len(EncodeAll(Ds(m))) /\ Len(EncodeAll(Ds(m))) + Alg(a).key <= h.aux
        BY <1>3, <1>4, <1>9, HeadIs
    <2>2. Alg(a).key \in Nat BY <1>3, AlgIs
    <2> QED BY <2>1, <2>2
<1>14. PICK x \in Nat, y \in Nat, z \in Nat : x = h.auth /\ y = h.aux /\ z = h.desc_size
    BY <1>13
<1>15. IsSeq(f) /\ at \in Nat BY <1>2 DEF Damaged, Spot
<1>16. b = Slice(f, at, 1 + x + y)
    BY <1>5, <1>7, <1>8, <1>14 DEF VbmetaBlob
<1>17. DescriptorsOf(f) = parse_descriptors(Slice(f, at + 1 + x + 0, z))
    BY <1>7, <1>8, <1>13, <1>14 DEF DescriptorsOf
<1>18. Ret(b) = parse_descriptors(Slice(b, 1 + x + 0, z)).ret
    BY <1>11, <1>13, <1>14 DEF Ret
<1>19. 1 + x + 0 \in Nat /\ 1 + x + y \in Nat /\ (1 + x + 0) + z <= 1 + x + y
       /\ at + (1 + x + 0) = at + 1 + x + 0
    BY <1>13, <1>14, <1>15
<1>20. Slice(b, 1 + x + 0, z) = Slice(f, at + (1 + x + 0), z)
    <2>1. PICK i \in Nat, n \in Nat : i = 1 + x + 0 /\ n = 1 + x + y
        BY <1>19
    <2>2. IsSeq(f) /\ at \in Nat /\ n \in Nat /\ i \in Nat /\ z \in Nat /\ i + z <= n
        BY <1>15, <1>19, <2>1
    <2>3. Slice(Slice(f, at, n), i, z) = Slice(f, at + i, z)
        BY <2>2, SliceSlice
    <2> QED BY <1>16, <2>1, <2>3
<1> QED BY <1>5, <1>12, <1>17, <1>18, <1>19, <1>20 DEF ParseImage

\* Where a struct ends the next one begins.
Starts(s) == IsSeq(s) /\ (s # << >> => s[1].kind = "header")

\* Of two ways to cut, the first struct of one is no shorter than that of the other.
LEMMA CutLen ==
    ASSUME NEW s, NEW s1, NEW t, NEW t1, OneHeader(s), OneHeader(t), Starts(s1), Starts(t1),
           s \o s1 = t \o t1
    PROVE  Len(s) >= Len(t)
<1>1. IsSeq(s) /\ IsSeq(s1) /\ IsSeq(t) /\ IsSeq(t1)
    BY DEF OneHeader, Starts
<1>2. PICK l \in Nat, l1 \in Nat, m \in Nat, m1 \in Nat : l = Len(s) /\ l1 = Len(s1) /\ m = Len(t) /\ m1 = Len(t1)
    BY <1>1, LenNat
<1>3. PICK z : z = s \o s1 OBVIOUS
<1>4. Len(z) = l + l1 /\ \A k \in 1 .. l1 : z[l + k] = s1[k]
    <2>1. /\ Len(s \o s1) = Len(s) + Len(s1)
          /\ \A k \in 1 .. Len(s1) : (s \o s1)[Len(s) + k] = s1[k]
        BY <1>1, CatSeq
    <2> QED BY <1>2, <1>3, <2>1
<1>5. Len(z) = m + m1 /\ \A k \in 1 .. m : z[k] = t[k]
    <2>1. /\ Len(t \o t1) = Len(t) + Len(t1) /\ (\A k \in 1 .. Len(t) : (t \o t1)[k] = t[k])
        BY <1>1, CatSeq
    <2> QED BY <1>2, <1>3, <2>1
<1>6. SUFFICES ASSUME l < m PROVE FALSE BY <1>2
<1>7. l + 1 \in 1 .. m /\ l1 # 0 /\ l + 1 > 1 /\ 1 \in 1 .. l1
    BY <1>2, <1>4, <1>5, <1>6 DEF OneHeader
<1>8. z[l + 1].kind # "header"
    BY <1>2, <1>5, <1>7 DEF OneHeader
<1>9. s1 # << >> BY <1>1, <1>2, <1>7, LenNat
<1> QED BY <1>4, <1>7, <1>8, <1>9 DEF Starts

\* There is one way to cut off the first struct.
LEMMA Cut ==
    ASSUME NEW s, NEW s1, NEW t, NEW t1, OneHeader(s), OneHeader(t), Starts(s1), Starts(t1),
           s \o s1 = t \o t1
    PROVE  s = t /\ s1 = t1
<1>1. IsSeq(s) /\ IsSeq(s1) /\ IsSeq(t) /\ IsSeq(t1)
    BY DEF OneHeader, Starts
<1>2. PICK l \in Nat, l1 \in Nat, m \in Nat, m1 \in Nat : l = Len(s) /\ l1 = Len(s1) /\ m = Len(t) /\ m1 = Len(t1)
    BY <1>1, LenNat
<1>3. Len(s) >= Len(t) /\ Len(t) >= Len(s) BY CutLen
<1>4. l = m BY <1>2, <1>3
<1>5. PICK z : z = s \o s1 OBVIOUS
<1>6. Len(z) = l + l1 /\ (\A k \in 1 .. l : z[k] = s[k]) /\ \A k \in 1 .. l1 : z[l + k] = s1[k]
    <2>1. /\ Len(s \o s1) = Len(s) + Len(s1) /\ (\A k \in 1 .. Len(s) : (s \o s1)[k] = s[k])
          /\ \A k \in 1 .. Len(s1) : (s \o s1)[Len(s) + k] = s1[k]
        BY <1>1, CatSeq
    <2> QED BY <1>2, <1>5, <2>1
<1>7. Len(z) = m + m1 /\ (\A k \in 1 .. m : z[k] = t[k]) /\ \A k \in 1 .. m1 : z[m + k] = t1[k]
    <2>1. /\ Len(t \o t1) = Len(t) + Len(t1) /\ (\A k \in 1 .. Len(t) : (t \o t1)[k] = t[k])
          /\ \A k \in 1 .. Len(t1) : (t \o t1)[Len(t) + k] = t1[k]
        BY <1>1, CatSeq
    <2> QED BY <1>2, <1>5, <2>1
<1>8. s = t BY <1>1, <1>2, <1>4, <1>6, <1>7, SameSeq
<1>9. l1 = m1 BY <1>4, <1>6, <1>7
<1>10. \A k \in 1 .. Len(s1) : s1[k] = t1[k]
    BY <1>2, <1>4, <1>6, <1>7, <1>9
<1> QED BY <1>1, <1>2, <1>8, <1>9, <1>10, SameSeq

\* Structs one behind the other: they start with a header.
Structs(w) == IsSeqs(w) /\ \A k \in 1 .. Len(w) : OneHeader(w[k])

\* Structs one behind the other start with a header.
LEMMA StructsStart ==
    ASSUME NEW w, Structs(w)
    PROVE  Starts(FlattenSeq(w))
<1>1. IsSeqs(w) /\ IsSeq(w) BY DEF Structs, IsSeqs
<1>2. PICK n \in Nat : n = Len(w) BY <1>1, LenNat
<1>3. PICK z : z = FlattenSeq(w) OBVIOUS
<1>4. IsSeq(z) BY <1>1, <1>3, FlattenHas
<1>5. CASE n = 0
    <2>1. z = Flat(w, 0)
        BY <1>1, <1>2, <1>3, <1>5, FlatAll
    <2>2. z = << >> BY <2>1, FlatNone
    <2> QED BY <1>3, <1>4, <2>2 DEF Starts
<1>6. CASE n # 0
    <2>1. 1 \in 1 .. Len(w) BY <1>2, <1>6
    <2>2. Placed(z, Len(Flat(w, 1 - 1)), w[1])
        BY <1>1, <1>3, <2>1, FlatPlaced
    <2>3. 1 - 1 = 0 /\ Len(Flat(w, 0)) = 0
        BY FlatNone, NilIs DEF NilSeq
    <2>4. Placed(z, 0, w[1]) BY <2>2, <2>3
    <2>5. Len(w[1]) \in Nat /\ Len(w[1]) # 0 /\ w[1][1].kind = "header"
        BY <2>1 DEF Structs, OneHeader
    <2>6. 1 \in 1 .. Len(w[1]) /\ 0 + 1 = 1 BY <2>5
    <2>7. z[1] = w[1][1] BY <2>4, <2>6 DEF Placed
    <2> QED BY <1>3, <1>4, <2>5, <2>7 DEF Starts
<1> QED BY <1>5, <1>6

\* With the same structs before them, two structs have the same length.
LEMMA StructsLen ==
    ASSUME NEW v, NEW w, Structs(v), Structs(w), Len(v) = Len(w), FlattenSeq(v) = FlattenSeq(w),
           NEW k \in 1 .. Len(v), Flat(v, k - 1) = Flat(w, k - 1)
    PROVE  Len(v[k]) >= Len(w[k])
<1>1. IsSeqs(v) /\ IsSeqs(w) /\ IsSeq(v) /\ IsSeq(w)
    BY DEF Structs, IsSeqs
<1>2. PICK n \in Nat : n = Len(v) BY <1>1, LenNat
<1>3. k \in 1 .. n /\ n = Len(w) BY <1>2
<1>4. PICK z : z = FlattenSeq(v) OBVIOUS
<1>5. PICK o \in Nat : o = Len(Flat(v, k - 1))
    <2>1. k - 1 \in 0 .. Len(v) BY <1>2, <1>3
    <2>2. IsSeq(Flat(v, k - 1)) BY <1>1, <2>1, FlatSeq
    <2> QED BY <2>2, LenNat
<1>6. OneHeader(v[k]) /\ OneHeader(w[k])
    BY <1>2, <1>3 DEF Structs
<1>7. PICK l \in Nat, m \in Nat : l = Len(v[k]) /\ m = Len(w[k]) /\ l # 0 /\ m # 0
    BY <1>6 DEF OneHeader
<1>8. SUFFICES ASSUME l < m PROVE FALSE BY <1>7
<1>9. Placed(z, o, w[k])
    <2>1. Placed(FlattenSeq(w), Len(Flat(w, k - 1)), w[k])
        BY <1>1, <1>3, FlatPlaced
    <2> QED BY <1>4, <1>5, <2>1
<1>10. o + m <= Len(z) /\ l + 1 \in 1 .. m /\ l + 1 > 1
    BY <1>7, <1>8, <1>9 DEF Placed
<1>11. z[o + (l + 1)] = w[k][l + 1] /\ w[k][l + 1].kind # "header"
    BY <1>6, <1>7, <1>9, <1>10 DEF Placed, OneHeader
<1>12. IsSeq(Flat(v, k)) /\ Len(Flat(v, k)) = o + l
    <2>1. k - 1 \in 0 .. Len(v) BY <1>2, <1>3
    <2>2. IsSeq(Flat(v, k - 1)) BY <1>1, <2>1, FlatSeq
    <2>3. Flat(v, k) = Flat(v, k - 1) \o v[k] /\ IsSeq(v[k])
        BY <1>1, <1>2, <1>3, <2>2, FlatGrows DEF IsSeqs
    <2>4. PICK x : x = Flat(v, k - 1) OBVIOUS
    <2>5. PICK y : y = v[k] OBVIOUS
    <2>6. IsSeq(x) /\ IsSeq(y) BY <2>2, <2>3, <2>4, <2>5
    <2>7. IsSeq(x \o y) /\ Len(x \o y) = Len(x) + Len(y)
        BY <2>6, CatSeq
    <2> QED BY <1>5, <1>7, <2>3, <2>4, <2>5, <2>7
<1>13. CASE k = n
    <2>1. z = Flat(v, n) BY <1>1, <1>2, <1>4, FlatAll
    <2>2. Len(z) = o + l BY <1>12, <1>13, <2>1
    <2> QED BY <1>8, <1>10, <2>2
<1>14. CASE k # n
    <2>1. k + 1 \in 1 .. Len(v) /\ (k + 1) - 1 = k
        BY <1>2, <1>3, <1>14
    <2>2. Placed(z, Len(Flat(v, (k + 1) - 1)), v[k + 1])
        BY <1>1, <1>4, <2>1, FlatPlaced
    <2>3. Placed(z, o + l, v[k + 1])
        BY <1>12, <2>1, <2>2
    <2>4. Len(v[k + 1]) \in Nat /\ Len(v[k + 1]) # 0 /\ v[k + 1][1].kind = "header"
        BY <2>1 DEF Structs, OneHeader
    <2>5. 1 \in 1 .. Len(v[k + 1]) /\ (o + l) + 1 = o + (l + 1)
        BY <2>4
    <2>6. z[(o + l) + 1] = v[k + 1][1]
        BY <2>3, <2>5 DEF Placed
    <2> QED BY <1>11, <2>4, <2>5, <2>6
<1> QED BY <1>13, <1>14

\* A concatenation of structs can be cut in one way only.
LEMMA StructsApart ==
    ASSUME NEW v, NEW w, Structs(v), Structs(w), Len(v) = Len(w), FlattenSeq(v) = FlattenSeq(w)
    PROVE  \A k \in 1 .. Len(v) : v[k] = w[k]
<1>1. IsSeqs(v) /\ IsSeqs(w) /\ IsSeq(v) /\ IsSeq(w)
    BY DEF Structs, IsSeqs
<1>2. PICK n \in Nat : n = Len(v) BY <1>1, LenNat
<1> DEFINE T == {k \in 1 .. n : v[k] # w[k]}
<1>3. SUFFICES ASSUME T # {} PROVE FALSE BY <1>2
<1>4. T \in SUBSET Nat OBVIOUS
<1>5. \A k \in 1 .. n : k \in T <=> v[k] # w[k] OBVIOUS
<1>6. T \subseteq 1 .. n OBVIOUS
<1> HIDE DEF T
<1>7. PICK k \in T : \A j \in T : k <= j
    BY <1>3, <1>4, Least
<1>8. k \in 1 .. n /\ v[k] # w[k] BY <1>5, <1>6, <1>7
<1>9. \A q \in 1 .. k - 1 : v[q] = w[q]
    <2>1. ASSUME NEW q \in 1 .. k - 1 PROVE v[q] = w[q]
        <3>1. q \in 1 .. n /\ ~ (k <= q) BY <1>8, <2>1
        <3> QED BY <1>5, <1>7, <3>1
    <2> QED BY <2>1
<1>10. Flat(v, k - 1) = Flat(w, k - 1)
    <2>1. [q \in 1 .. k - 1 |-> v[q]] = [q \in 1 .. k - 1 |-> w[q]]
        BY <1>9, Zenon
    <2> QED BY <2>1 DEF Flat
<1>11. k \in 1 .. Len(v) /\ k \in 1 .. Len(w)
    BY <1>2, <1>8
<1>12. Len(v[k]) >= Len(w[k])
    BY <1>10, <1>11, StructsLen
<1>13. Len(w[k]) >= Len(v[k])
    BY <1>10, <1>11, StructsLen
<1>14. IsSeq(v[k]) /\ IsSeq(w[k]) /\ Len(v[k]) = Len(w[k])
    BY <1>11, <1>12, <1>13, LenNat DEF Structs, IsSeqs
<1>15. PICK z : z = FlattenSeq(v) OBVIOUS
<1>16. PICK o \in Nat : o = Len(Flat(v, k - 1))
    BY <1>1, <1>11, FlatPlaced
<1>17. Placed(z, o, v[k])
    BY <1>1, <1>11, <1>15, <1>16, FlatPlaced
<1>18. Placed(z, o, w[k])
    <2>1. Placed(FlattenSeq(w), Len(Flat(w, k - 1)), w[k])
        BY <1>1, <1>11, FlatPlaced
    <2> QED BY <1>10, <1>15, <1>16, <2>1
<1>19. \A i \in 1 .. Len(v[k]) : v[k][i] = w[k][i]
    BY <1>14, <1>17, <1>18 DEF Placed
<1>20. v[k] = w[k] BY <1>14, <1>19, SameSeq
<1> QED BY <1>8, <1>20

\* What is known of the images that can be read.
Shown(fs) ==
    \A q \in ToSet(Names) : Parses(fs[q]) =>
        /\ OneHeader(VbmetaBlob(fs[q])) /\ ParseImage(fs[q]) = Ret(VbmetaBlob(fs[q]))
        /\ IsSeq(ParseImage(fs[q]))
        /\ \A d : Has(ParseImage(fs[q]), d) /\ d.type = "chain" => d.name \in ToSet(Names)

Linked(fs, p) == [k \in DOMAIN Chained(fs[p]) |-> VbmetaBlob(fs[Chained(fs[p])[k].name])]

\* The structs of the images that p chains.
LEMMA LinkedIs ==
    ASSUME NEW fs, Shown(fs), NEW p \in ToSet(Names), Readable(fs, p), NEW c, c = Chained(fs[p])
    PROVE  /\ IsSeq(c) /\ Len(c) \in Nat /\ Len(Linked(fs, p)) = Len(c) /\ Structs(Linked(fs, p))
           /\ \A k \in 1 .. Len(c) :
                /\ c[k].name \in ToSet(Names) /\ Parses(fs[c[k].name])
                /\ Linked(fs, p)[k] = VbmetaBlob(fs[c[k].name])
           /\ VbmetaDigest(fs, p) = VbmetaBlob(fs[p]) \o FlattenSeq(Linked(fs, p))
<1>1. PICK ds : ds = ParseImage(fs[p]) OBVIOUS
<1>2. Parses(fs[p]) /\ IsSeq(ds)
    BY <1>1 DEF Readable, Shown
<1>3. c = OfTypes(ds, {"chain"})
    BY <1>1 DEF Chained, OfType
<1>4. IsSeq(c) /\ \A d : Has(c, d) <=> Has(ds, d) /\ d.type \in {"chain"}
    BY <1>2, <1>3, OfTypesIs
<1>5. Len(c) \in Nat /\ DOMAIN c = 1 .. Len(c)
    BY <1>4, LenNat, SeqDomain
<1>6. ASSUME NEW k \in 1 .. Len(c) PROVE c[k].name \in ToSet(Names) /\ Parses(fs[c[k].name])
    <2>1. Has(c, c[k]) BY <1>6 DEF Has
    <2>2. Has(ds, c[k]) /\ c[k].type = "chain"
        BY <1>4, <2>1
    <2> QED BY <1>1, <1>2, <1>5, <2>2 DEF Shown, Readable
<1>7. PICK w : w = Linked(fs, p) OBVIOUS
<1>8. w = [k \in 1 .. Len(c) |-> VbmetaBlob(fs[c[k].name])]
    BY <1>5, <1>7 DEF Linked
<1>9. \A k \in 1 .. Len(c) : w[k] = VbmetaBlob(fs[c[k].name])
    BY <1>8
<1>10. \A k \in 1 .. Len(c) : OneHeader(w[k])
    BY <1>6, <1>9 DEF Shown
<1>11. \A k \in 1 .. Len(c) : IsSeq(w[k])
    BY <1>10 DEF OneHeader
<1>12. w = [k \in 1 .. Len(c) |-> w[k]] BY <1>8
<1>13. IsSeqs(w) /\ Len(w) = Len(c)
    <2>1. PICK n \in Nat : n = Len(c) BY <1>5
    <2>2. w = [k \in 1 .. n |-> w[k]] /\ \A k \in 1 .. n : IsSeq(w[k])
        BY <1>11, <1>12, <2>1
    <2> QED BY <2>1, <2>2, MapSeqs
<1>14. Structs(w) BY <1>10, <1>13 DEF Structs
<1>15. VbmetaDigest(fs, p) = VbmetaBlob(fs[p]) \o FlattenSeq(w)
    BY <1>7 DEF VbmetaDigest, Linked
<1> QED BY <1>4, <1>5, <1>6, <1>7, <1>9, <1>13, <1>14, <1>15

\* The same digest: the same descriptors, one chain down.
LEMMA SameDigest ==
    ASSUME NEW fs, NEW gs, Shown(fs), Shown(gs), NEW p \in ToSet(Names), Readable(fs, p), Readable(gs, p),
           VbmetaDigest(fs, p) = VbmetaDigest(gs, p)
    PROVE  Flattened(fs, p) = Flattened(gs, p)
<1>1. PICK c : c = Chained(fs[p]) OBVIOUS
<1>2. PICK e : e = Chained(gs[p]) OBVIOUS
<1>3. PICK v, w : v = Linked(fs, p) /\ w = Linked(gs, p) OBVIOUS
<1>4. PICK x, y : x = VbmetaBlob(fs[p]) /\ y = VbmetaBlob(gs[p]) OBVIOUS
<1>5. /\ IsSeq(c) /\ Len(c) \in Nat /\ Len(v) = Len(c) /\ Structs(v)
      /\ \A k \in 1 .. Len(c) : /\ c[k].name \in ToSet(Names) /\ Parses(fs[c[k].name])
                                /\ v[k] = VbmetaBlob(fs[c[k].name])
      /\ VbmetaDigest(fs, p) = x \o FlattenSeq(v)
    <2>1. Shown(fs) /\ Readable(fs, p) /\ c = Chained(fs[p])
        BY <1>1
    <2>2. /\ IsSeq(c) /\ Len(c) \in Nat /\ Len(Linked(fs, p)) = Len(c) /\ Structs(Linked(fs, p))
          /\ \A k \in 1 .. Len(c) :
               /\ c[k].name \in ToSet(Names) /\ Parses(fs[c[k].name])
               /\ Linked(fs, p)[k] = VbmetaBlob(fs[c[k].name])
          /\ VbmetaDigest(fs, p) = VbmetaBlob(fs[p]) \o FlattenSeq(Linked(fs, p))
        BY <2>1, LinkedIs
    <2> QED BY <1>3, <1>4, <2>2
<1>6. /\ IsSeq(e) /\ Len(e) \in Nat /\ Len(w) = Len(e) /\ Structs(w)
      /\ \A k \in 1 .. Len(e) : /\ e[k].name \in ToSet(Names) /\ Parses(gs[e[k].name])
                                /\ w[k] = VbmetaBlob(gs[e[k].name])
      /\ VbmetaDigest(gs, p) = y \o FlattenSeq(w)
    <2>1. Shown(gs) /\ Readable(gs, p) /\ e = Chained(gs[p])
        BY <1>2
    <2>2. /\ IsSeq(e) /\ Len(e) \in Nat /\ Len(Linked(gs, p)) = Len(e) /\ Structs(Linked(gs, p))
          /\ \A k \in 1 .. Len(e) :
               /\ e[k].name \in ToSet(Names) /\ Parses(gs[e[k].name])
               /\ Linked(gs, p)[k] = VbmetaBlob(gs[e[k].name])
          /\ VbmetaDigest(gs, p) = VbmetaBlob(gs[p]) \o FlattenSeq(Linked(gs, p))
        BY <2>1, LinkedIs
    <2> QED BY <1>3, <1>4, <2>2
<1>7. Parses(fs[p]) /\ Parses(gs[p]) BY DEF Readable
<1>8. /\ OneHeader(x) /\ OneHeader(y) /\ ParseImage(fs[p]) = Ret(x) /\ ParseImage(gs[p]) = Ret(y)
      /\ IsSeq(ParseImage(fs[p]))
    BY <1>4, <1>7 DEF Shown
<1>9. PICK v1, w1 : v1 = FlattenSeq(v) /\ w1 = FlattenSeq(w) OBVIOUS
<1>10. Starts(v1) /\ Starts(w1) /\ x \o v1 = y \o w1
    BY <1>5, <1>6, <1>9, StructsStart
<1>11. x = y /\ v1 = w1 BY <1>8, <1>10, Cut
<1>12. PICK ds : ds = ParseImage(fs[p]) OBVIOUS
<1>13. ds = ParseImage(gs[p]) /\ IsSeq(ds)
    BY <1>8, <1>11, <1>12
<1>14. c = e BY <1>1, <1>2, <1>12, <1>13 DEF Chained
<1>15. \A k \in 1 .. Len(v) : v[k] = w[k]
    <2>1. Len(v) = Len(w) /\ FlattenSeq(v) = FlattenSeq(w)
        BY <1>5, <1>6, <1>9, <1>11, <1>14
    <2> QED BY <1>5, <1>6, <2>1, StructsApart
<1>16. ASSUME NEW k \in DOMAIN ds, ds[k].type = "chain"
       PROVE  ParseImage(fs[ds[k].name]) = ParseImage(gs[ds[k].name])
    <2>1. k \in 1 .. Len(ds) BY <1>13, <1>16, SeqDomain
    <2>2. Has(ds, ds[k]) /\ ds[k].type \in {"chain"}
        BY <1>16, <2>1 DEF Has
    <2>3. c = OfTypes(ds, {"chain"})
        BY <1>1, <1>12 DEF Chained, OfType
    <2>4. Has(c, ds[k]) BY <1>13, <2>2, <2>3, OfTypesIs
    <2>5. PICK j \in 1 .. Len(c) : c[j] = ds[k]
        BY <2>4 DEF Has
    <2>6. /\ c[j].name \in ToSet(Names) /\ Parses(fs[c[j].name]) /\ v[j] = VbmetaBlob(fs[c[j].name])
          /\ Parses(gs[c[j].name]) /\ w[j] = VbmetaBlob(gs[c[j].name]) /\ v[j] = w[j]
        BY <1>5, <1>6, <1>14, <1>15
    <2>7. ParseImage(fs[c[j].name]) = Ret(v[j]) /\ ParseImage(gs[c[j].name]) = Ret(w[j])
        BY <2>6 DEF Shown
    <2> QED BY <2>5, <2>6, <2>7
<1>17. [k \in DOMAIN ds |-> IF ds[k].type = "chain" THEN ParseImage(fs[ds[k].name]) ELSE <<ds[k]>>]
         = [k \in DOMAIN ds |-> IF ds[k].type = "chain" THEN ParseImage(gs[ds[k].name]) ELSE <<ds[k]>>]
    BY <1>16
<1> QED BY <1>12, <1>13, <1>17 DEF Flattened, Followed

\* What is known of the images makes them readable as structs.
LEMMA KnownShown == ASSUME Known PROVE Shown(files)
<1>1. ASSUME NEW q \in ToSet(Names), Parses(files[q])
      PROVE  /\ OneHeader(VbmetaBlob(files[q])) /\ ParseImage(files[q]) = Ret(VbmetaBlob(files[q]))
             /\ IsSeq(ParseImage(files[q]))
             /\ \A d : Has(ParseImage(files[q]), d) /\ d.type = "chain" => d.name \in ToSet(Names)
    <2>1. PICK g : Left(q, g, made[q]) /\ Damaged(files[q], g)
        BY DEF Known, FilesKnown
    <2>2. OneHeader(VbmetaBlob(files[q])) /\ ParseImage(files[q]) = Ret(VbmetaBlob(files[q]))
        BY <1>1, <2>1, BlobIs
    <2>3. IsSeq(ParseImage(files[q])) /\ \A d : Has(ParseImage(files[q]), d) => Plain(d)
        BY <1>1, ShownPlain
    <2> QED BY <2>2, <2>3 DEF Plain, NamedTypes
<1> QED BY <1>1 DEF Shown

\* calculate_vbmeta_digest stands for what the other commands say of an image, whatever
\* is built, made, damaged or cut: before and after a step that leaves its digest the
\* kernel command line is the same, and so are the digests of partitions that are
\* printed, if the images it chains chain no other: those are no part of the digest.
THEOREM DigestsPin == Spec => DigestPins
<1> DEFINE P == \A p \in { a.output : a \in Makes } :
         Readable(files, p) /\ Readable(files', p) /\ VbmetaDigest(files, p) = VbmetaDigest(files', p) =>
             /\ \A off \in BOOLEAN : KernelCmdline(files, p, off) = KernelCmdline(files', p, off)
             /\ OneLevel(files, p) => PartitionDigests(files, p) = PartitionDigests(files', p)
<1>1. ImagesKnown => Shown(files)
    BY KnownShown DEF ImagesKnown
<1>2. ASSUME Shown(files), Shown(files)' PROVE P
    <2>1. PICK fs : fs = files OBVIOUS
    <2>2. PICK gs : gs = files' OBVIOUS
    <2>3. Shown(fs) /\ Shown(gs)
        BY <1>2, <2>1, <2>2 DEF Shown
    <2>4. \A p \in { a.output : a \in Makes } : p \in ToSet(Names)
        BY AvbImagesAssumption
    <2>5. ASSUME NEW p \in ToSet(Names), Readable(fs, p), Readable(gs, p), VbmetaDigest(fs, p) = VbmetaDigest(gs, p)
          PROVE  /\ \A off \in BOOLEAN : KernelCmdline(fs, p, off) = KernelCmdline(gs, p, off)
                 /\ OneLevel(fs, p) => PartitionDigests(fs, p) = PartitionDigests(gs, p)
        <3>1. Flattened(fs, p) = Flattened(gs, p)
            BY <2>3, <2>5, SameDigest
        <3>2. PICK ds : ds = Flattened(fs, p) OBVIOUS
        <3>3. \A off \in BOOLEAN : KernelCmdline(fs, p, off) = KernelCmdline(gs, p, off)
            BY <3>1 DEF KernelCmdline
        <3>4. OneLevel(fs, p) => Deepened(fs, ds) = ds /\ Deepened(gs, ds) = ds
            BY <3>2, Zenon DEF OneLevel, Deepened
        <3> QED BY <3>1, <3>2, <3>3, <3>4, Zenon DEF PartitionDigests
    <2> QED BY <2>1, <2>2, <2>4, <2>5
<1>3. Shown(files) /\ Shown(files)' => [P]_vars BY <1>2
<1> QED BY <1>1, <1>3, Invariance, PTL DEF Spec, DigestPins

--------------------------------------------------
(* Numbers: quotients and roundings. *)

\* Products keep the order.
LEMMA TimesMono ==
    ASSUME NEW x \in Nat, NEW y \in Nat, NEW b \in Nat, x <= y
    PROVE  x * b <= y * b /\ x * b \in Nat /\ y * b \in Nat
BY SMT

\* And have it.
LEMMA TimesBack ==
    ASSUME NEW x \in Nat, NEW y \in Nat, NEW b \in Nat \ {0}, x * b < y * b
    PROVE  x < y
<1>1. CASE y <= x
    <2>1. y * b <= x * b /\ x * b \in Nat /\ y * b \in Nat
        BY <1>1, TimesMono
    <2> QED BY <2>1
<1> QED BY <1>1

\* One more.
LEMMA TimesPlus ==
    ASSUME NEW x \in Nat, NEW b \in Nat
    PROVE  (x + 1) * b = x * b + b /\ x * b \in Nat
BY SMT

\* Products can be turned.
LEMMA TimesTurn ==
    ASSUME NEW x \in Nat, NEW y \in Nat, NEW z \in Nat
    PROVE  (x * y) * z = x * (z * y) /\ (x * y) * z = (x * z) * y /\ x * y = y * x
           /\ x * y \in Nat /\ (x * y) * z \in Nat
BY SMT

\* Between two multiples.
LEMMA Between ==
    ASSUME NEW x \in Nat, NEW y \in Nat, NEW b \in Nat \ {0}, x * b < (y + 1) * b
    PROVE  x <= y
<1>1. x < y + 1
    <2>1. y + 1 \in Nat OBVIOUS
    <2> QED BY <2>1, TimesBack
<1> QED BY <1>1

\* What a rounding up is.
LEMMA CeilingAt ==
    ASSUME NEW n \in Nat, NEW b \in Nat \ {0}, NEW c \in Nat, n <= c * b, c * b < n + b
    PROVE  Ceiling(n, b) = c
<1>1. PICK d \in Nat : d = Ceiling(n, b) BY CeilingNat
<1>2. n <= d * b /\ d * b < n + b BY <1>1, CeilingNat
<1>3. (c + 1) * b = c * b + b /\ c * b \in Nat /\ (d + 1) * b = d * b + b /\ d * b \in Nat
    BY <1>1, TimesPlus
<1>4. d * b < (c + 1) * b /\ c * b < (d + 1) * b
    BY <1>2, <1>3
<1>5. d <= c /\ c <= d BY <1>4, Between
<1> QED BY <1>1, <1>5

\* Of a multiple.
LEMMA CeilingWhole ==
    ASSUME NEW m \in Nat, NEW b \in Nat \ {0}
    PROVE  Ceiling(m * b, b) = m
<1>1. PICK n \in Nat : n = m * b BY TimesMono
<1>2. n <= m * b /\ m * b < n + b BY <1>1
<1> QED BY <1>1, <1>2, CeilingAt

\* Rounding up twice.
LEMMA CeilingTwice ==
    ASSUME NEW n \in Nat, NEW p \in Nat \ {0}, NEW b \in Nat \ {0}
    PROVE  Ceiling(Ceiling(n, p), b) = Ceiling(n, p * b)
<1>1. PICK c \in Nat : c = Ceiling(n, p) /\ n <= c * p /\ c * p < n + p
    BY CeilingNat
<1>2. PICK e \in Nat : e = Ceiling(c, b) /\ c <= e * b /\ e * b < c + b
    BY CeilingNat
<1>3. PICK u \in Nat, x \in Nat : u = e * b /\ x = p * b
    BY TimesTurn
<1>4. x # 0 BY <1>3, SMT
<1>5. PICK w \in Nat : w = u * p /\ w = e * x
    BY <1>3, TimesTurn
<1>6. PICK v \in Nat : v = c * p BY TimesTurn
<1>7. n <= w
    <2>1. c * p <= u * p BY <1>2, <1>3, TimesMono
    <2> QED BY <1>1, <1>5, <1>6, <2>1
<1>8. w < n + x
    <2>1. PICK k \in Nat : k = c + b - 1 OBVIOUS
    <2>2. u <= k BY <1>2, <1>3, <2>1
    <2>3. u * p <= k * p BY <2>2, TimesMono
    <2>4. k * p = v + x - p BY <1>3, <1>6, <2>1, SMT
    <2> QED BY <1>1, <1>5, <1>6, <2>3, <2>4
<1>9. Ceiling(n, x) = e
    BY <1>4, <1>5, <1>7, <1>8, CeilingAt
<1> QED BY <1>1, <1>2, <1>3, <1>9

\* What a quotient is.
LEMMA QuotientIs ==
    ASSUME NEW x \in Nat, NEW d \in Nat \ {0}
    PROVE  /\ x \div d \in Nat /\ (x \div d) * d <= x /\ x < ((x \div d) + 1) * d
           /\ x % d \in 0 .. d - 1 /\ x = (x \div d) * d + (x % d)
<1>1. x \div d \in Nat /\ x % d \in 0 .. d - 1 /\ x = d * (x \div d) + (x % d)
    BY SMT
<1>2. PICK q \in Nat : q = x \div d BY <1>1
<1>3. d * q = q * d /\ (q + 1) * d = q * d + d /\ q * d \in Nat
    BY TimesTurn, TimesPlus
<1> QED BY <1>1, <1>2, <1>3

\* The only number that is so is it.
LEMMA QuotientAt ==
    ASSUME NEW x \in Nat, NEW d \in Nat \ {0}, NEW v \in Nat, v * d <= x, x < (v + 1) * d
    PROVE  x \div d = v
<1>1. PICK u \in Nat : u = x \div d BY QuotientIs
<1>2. u * d <= x /\ x < (u + 1) * d BY <1>1, QuotientIs
<1>3. u * d \in Nat /\ v * d \in Nat /\ (u + 1) * d \in Nat /\ (v + 1) * d \in Nat
    BY TimesPlus
<1>4. u * d < (v + 1) * d /\ v * d < (u + 1) * d
    BY <1>2, <1>3
<1>5. u <= v /\ v <= u BY <1>4, Between
<1> QED BY <1>1, <1>5

\* The quotient of a quotient.
LEMMA QuotientTwice ==
    ASSUME NEW x \in Nat, NEW p \in Nat \ {0}, NEW b \in Nat \ {0}
    PROVE  (x \div p) \div b = x \div (p * b)
<1>1. PICK w \in Nat : w = x \div p /\ w * p <= x /\ x < (w + 1) * p
    BY QuotientIs
<1>2. PICK v \in Nat : v = w \div b /\ v * b <= w /\ w < (v + 1) * b
    BY QuotientIs
<1>3. PICK d \in Nat : d = p * b BY TimesTurn
<1>4. d # 0 BY <1>3, SMT
<1>5. PICK y \in Nat, z \in Nat : y = v * b /\ z = (v + 1) * b
    BY TimesPlus
<1>6. v * d <= x
    <2>1. y * p <= w * p /\ y * p \in Nat /\ w * p \in Nat
        BY <1>2, <1>5, TimesMono
    <2>2. y * p = v * d BY <1>3, <1>5, TimesTurn
    <2> QED BY <1>1, <2>1, <2>2
<1>7. x < (v + 1) * d
    <2>1. w + 1 \in Nat /\ w + 1 <= z BY <1>2, <1>5
    <2>2. (w + 1) * p <= z * p /\ (w + 1) * p \in Nat /\ z * p \in Nat
        BY <2>1, TimesMono
    <2>3. v + 1 \in Nat OBVIOUS
    <2>4. z * p = (v + 1) * d
        BY <1>3, <1>5, <2>3, TimesTurn
    <2> QED BY <1>1, <2>2, <2>4
<1>8. x \div d = v BY <1>4, <1>6, <1>7, QuotientAt
<1> QED BY <1>1, <1>2, <1>3, <1>8

\* Those below n are in the parts that n is rounded up to.
LEMMA QuotientBelow ==
    ASSUME NEW x \in Nat, NEW n \in Nat, x < n, NEW p \in Nat \ {0}
    PROVE  x \div p < Ceiling(n, p)
<1>1. PICK w \in Nat : w = x \div p /\ w * p <= x
    BY QuotientIs
<1>2. PICK c \in Nat : c = Ceiling(n, p) /\ n <= c * p
    BY CeilingNat
<1>3. w * p \in Nat /\ c * p \in Nat BY TimesTurn
<1>4. w * p < c * p BY <1>1, <1>2, <1>3
<1>5. w < c BY <1>4, TimesBack
<1> QED BY <1>1, <1>2, <1>5

\* What is less than a block is of the first.
LEMMA QuotientSmall ==
    ASSUME NEW x \in Nat, NEW p \in Nat \ {0}, x < p
    PROVE  x \div p = 0
<1>1. 0 * p = 0 /\ (0 + 1) * p = p BY SMT
<1> QED BY <1>1, QuotientAt

--------------------------------------------------
(* Power. *)

PowerRuns(m, f) == f = [k \in 0 .. m |-> IF k = 0 THEN 1 ELSE PerBlock * f[k - 1]]

\* The function of Power exists.
LEMMA PowerExists ==
    ASSUME NEW m0 \in Nat
    PROVE  \E f : PowerRuns(m0, f)
<1> DEFINE R(m, r) == r = [k \in 0 .. m |-> IF k = 0 THEN 1 ELSE PerBlock * r[k - 1]]
           P(m) == \E r : R(m, r)
           T == {m \in Nat : ~ P(m)}
<1>1. SUFFICES ASSUME T # {} PROVE FALSE
    BY DEF PowerRuns
<1>2. PICK m \in T : \A j \in T : m <= j BY <1>1, Least
<1>3. m # 0
    <2>1. P(0)
        <3> DEFINE f == [k \in {0} |-> 1]
        <3>1. R(0, f) OBVIOUS
        <3> QED BY <3>1
    <2> QED BY <2>1
<1>4. P(m - 1)
    <2>1. m - 1 \in Nat /\ ~ (m <= m - 1) BY <1>3
    <2>2. m - 1 \notin T BY <1>2, <2>1
    <2> QED BY <2>1, <2>2
<1>5. PICK g : R(m - 1, g) BY <1>4
<1> DEFINE f == [k \in 0 .. m |-> IF k = 0 THEN 1 ELSE PerBlock * g[k - 1]]
<1>6. \A k \in 0 .. m : k # 0 => f[k - 1] = g[k - 1]
    <2> TAKE k \in 0 .. m
    <2> HAVE k # 0
    <2>1. k - 1 \in 0 .. m /\ k - 1 \in 0 .. (m - 1) OBVIOUS
    <2>2. f[k - 1] = IF k - 1 = 0 THEN 1 ELSE PerBlock * g[(k - 1) - 1]
        BY <2>1
    <2>3. g[k - 1] = IF k - 1 = 0 THEN 1 ELSE PerBlock * g[(k - 1) - 1]
        BY <1>5, <2>1
    <2> QED BY <2>2, <2>3
<1>7. R(m, f) BY <1>6
<1> QED BY <1>7

\* Power is its last value.
LEMMA PowerRunsIs ==
    ASSUME NEW m \in Nat
    PROVE  \E f : PowerRuns(m, f) /\ Power(m) = f[m]
<1> DEFINE f == CHOOSE r : PowerRuns(m, r)
<1>1. PowerRuns(m, f) BY PowerExists, Zenon
<1>2. Power(m) = f[m] BY Zenon DEF Power, PowerRuns
<1> QED BY <1>1, <1>2

\* From one value to the next.
LEMMA PowerSteps ==
    ASSUME NEW m \in Nat, NEW f, PowerRuns(m, f)
    PROVE  f[0] = 1 /\ \A k \in 1 .. m : f[k] = PerBlock * f[k - 1]
<1>1. f = [k \in 0 .. m |-> IF k = 0 THEN 1 ELSE PerBlock * f[k - 1]]
    BY Zenon DEF PowerRuns
<1>2. 0 \in 0 .. m /\ \A k \in 1 .. m : k \in 0 .. m /\ k # 0 OBVIOUS
<1>3. f[0] = 1 BY <1>1, <1>2
<1>4. \A k \in 1 .. m : f[k] = PerBlock * f[k - 1]
    BY <1>1, <1>2, Zenon
<1> QED BY <1>3, <1>4

\* A longer run goes through the same values.
LEMMA PowerAgrees ==
    ASSUME NEW m \in Nat, NEW f, PowerRuns(m, f), NEW g, PowerRuns(m + 1, g)
    PROVE  f[m] = g[m]
<1>1. f[0] = 1 /\ \A k \in 1 .. m : f[k] = PerBlock * f[k - 1]
    BY PowerSteps
<1>2. PICK n \in Nat : n = m + 1 OBVIOUS
<1>3. PowerRuns(n, g) BY <1>2
<1>4. g[0] = 1 /\ \A k \in 1 .. n : g[k] = PerBlock * g[k - 1]
    BY <1>3, PowerSteps
<1> DEFINE T == {k \in 0 .. m : f[k] # g[k]}
<1>5. SUFFICES ASSUME T # {} PROVE FALSE OBVIOUS
<1>6. T \in SUBSET Nat /\ \A k \in 0 .. m : k \in T <=> f[k] # g[k] OBVIOUS
<1>7. T \subseteq 0 .. m OBVIOUS
<1> HIDE DEF T
<1>8. PICK k \in T : \A j \in T : k <= j
    BY <1>5, <1>6, Least
<1>9. k \in 0 .. m /\ f[k] # g[k] BY <1>6, <1>7, <1>8
<1>10. k # 0 BY <1>1, <1>4, <1>9
<1>11. k - 1 \in 0 .. m /\ ~ (k <= k - 1) /\ k \in 1 .. m /\ k \in 1 .. n
    BY <1>2, <1>9, <1>10
<1>12. f[k - 1] = g[k - 1] BY <1>6, <1>8, <1>11
<1>13. f[k] = PerBlock * f[k - 1] /\ g[k] = PerBlock * g[k - 1]
    BY <1>1, <1>4, <1>11
<1> QED BY <1>9, <1>12, <1>13

\* One power more.
LEMMA PowerStep ==
    ASSUME NEW m \in Nat
    PROVE  Power(m + 1) = PerBlock * Power(m)
<1>1. PICK n \in Nat : n = m + 1 OBVIOUS
<1>2. PICK f : PowerRuns(m, f) /\ Power(m) = f[m]
    BY PowerRunsIs
<1>3. PICK g : PowerRuns(n, g) /\ Power(n) = g[n]
    BY PowerRunsIs
<1>4. f[m] = g[m] BY <1>1, <1>2, <1>3, PowerAgrees
<1>5. n \in 1 .. n /\ n - 1 = m BY <1>1
<1>6. g[n] = PerBlock * g[m] BY <1>3, <1>5, PowerSteps
<1> QED BY <1>1, <1>2, <1>3, <1>4, <1>6

\* The powers of a block, each larger than its exponent.
LEMMA PowerIs ==
    /\ Power(0) = 1
    /\ \A m \in Nat : Power(m) \in Nat \ {0} /\ m < Power(m) /\ Power(m + 1) = Power(m) * PerBlock
<1>1. Power(0) = 1
    <2>1. 0 \in Nat OBVIOUS
    <2>2. PICK f : PowerRuns(0, f) /\ Power(0) = f[0]
        BY <2>1, PowerRunsIs
    <2> QED BY <2>1, <2>2, PowerSteps
<1>2. PICK b \in Nat : b = PerBlock /\ b > 1 BY SizesOK
<1> DEFINE P(m) == Power(m) \in Nat \ {0} /\ m < Power(m)
           T == {m \in Nat : ~ P(m)}
<1>3. T = {}
    <2> SUFFICES ASSUME T # {} PROVE FALSE OBVIOUS
    <2>1. T \in SUBSET Nat /\ \A m \in Nat : m \in T <=> ~ P(m) OBVIOUS
    <2>2. PICK k \in T : \A j \in T : k <= j
        <3> HIDE DEF T
        <3> QED BY <2>1, Least
    <2>3. k \in Nat /\ ~ P(k) OBVIOUS
    <2>4. k # 0 BY <1>1, <2>3
    <2>5. PICK j \in Nat : k = j + 1 /\ ~ (k <= j)
        <3>1. k - 1 \in Nat /\ k = (k - 1) + 1 /\ ~ (k <= k - 1)
            BY <2>3, <2>4
        <3> QED BY <3>1
    <2>6. P(j) BY <2>1, <2>2, <2>5
    <2>7. PICK x \in Nat : x = Power(j) /\ x # 0 /\ j < x
        BY <2>6
    <2>8. Power(k) = b * x
        BY <1>2, <2>5, <2>7, PowerStep
    <2>9. b * x \in Nat /\ b * x >= 2 * x BY <1>2, SMT
    <2>10. b * x # 0 /\ k < b * x BY <2>5, <2>7, <2>9
    <2> QED BY <2>3, <2>8, <2>9, <2>10
<1>4. ASSUME NEW m \in Nat PROVE P(m) /\ Power(m + 1) = Power(m) * PerBlock
    <2>1. P(m) BY <1>3
    <2>2. PICK x \in Nat : x = Power(m) BY <2>1
    <2>3. Power(m + 1) = b * x BY <1>2, <2>2, PowerStep
    <2>4. b * x = x * b BY TimesTurn
    <2> QED BY <1>2, <2>1, <2>2, <2>3, <2>4
<1> QED BY <1>1, <1>4

--------------------------------------------------
(* The sizes of the levels. *)

\* The size of a level in blocks.
LEMMA AboveIs ==
    ASSUME NEW n \in Nat
    PROVE  Above(n) = Ceiling(Ceiling(n, PerBlock), PerBlock) * PerBlock
<1>1. PICK b \in Nat \ {0} : b = PerBlock BY SizesOK
<1>2. PICK c \in Nat : c = Ceiling(n, b) BY CeilingNat
<1>3. PICK r \in Nat : r = round_to_multiple(c, b) /\ c <= r /\ r < c + b /\ r % b = 0
    BY RoundTo
<1>4. PICK q \in Nat : r = q * b BY <1>3, Quotient
<1>5. Ceiling(c, b) = q BY <1>3, <1>4, CeilingAt
<1> QED BY <1>1, <1>2, <1>3, <1>4, <1>5 DEF Above

\* A level is smaller than what is more than a block below it.
LEMMA AboveLess ==
    ASSUME NEW n \in Nat, n > PerBlock
    PROVE  Above(n) < n
<1>1. PICK b \in Nat \ {0} : b = PerBlock /\ b > 1
    BY SizesOK
<1>2. PICK c \in Nat : c = Ceiling(n, b) /\ n <= c * b /\ c * b < n + b
    BY CeilingNat
<1>3. PICK e \in Nat : e = Ceiling(c, b) /\ e * b < c + b
    BY CeilingNat
<1>4. Above(n) = e * b BY <1>1, <1>2, <1>3, AboveIs
<1>5. c > 1
    <2>1. 1 * b = b /\ c * b \in Nat BY SMT
    <2>2. 1 * b < c * b BY <1>1, <1>2, <2>1
    <2> QED BY <2>2, TimesBack
<1>6. PICK d \in Nat : c = d + 1
    <2>1. c - 1 \in Nat /\ c = (c - 1) + 1 BY <1>5
    <2> QED BY <2>1
<1>7. c * b = d * b + b /\ d * b \in Nat
    BY <1>6, TimesPlus
<1>8. d * b >= 2 * d
    <2>1. 2 * d <= b * d /\ b * d = d * b
        BY <1>1, TimesMono, TimesTurn
    <2> QED BY <2>1
<1>9. e <= d
    <2>1. CASE e >= c
        <3>1. c * b <= e * b /\ e * b \in Nat
            BY <2>1, TimesMono
        <3>2. d * b + b < c + b BY <1>3, <1>7, <3>1
        <3> QED BY <1>5, <1>6, <1>7, <1>8, <3>2
    <2>2. CASE ~ (e >= c) BY <1>6, <2>2
    <2> QED BY <2>1, <2>2
<1>10. e * b <= d * b /\ e * b \in Nat
    BY <1>9, TimesMono
<1> QED BY <1>2, <1>4, <1>7, <1>10

\* A level is there because what is below it is more than a block.
Tall(n, s) == \A i \in 1 .. Len(s) : (IF i = 1 THEN n ELSE s[i - 1]) > PerBlock

\* The loop goes on only while there is more than a block.
LEMMA TallGrows ==
    ASSUME NEW n \in Nat, NEW r, Stacked(n, r), Tall(n, r.sizes)
    PROVE  Tall(n, LoopStep(r).sizes)
<1>1. CASE r.size <= PerBlock BY <1>1 DEF LoopStep
<1>2. CASE ~ (r.size <= PerBlock)
    <2>1. PICK v : v = Above(r.size) OBVIOUS
    <2>3. PICK s : s = r.sizes OBVIOUS
    <2>4. IsSeq(s) /\ Len(s) \in Nat /\ (s = << >> <=> Len(s) = 0)
        BY <2>3, LenNat DEF Stacked, Stack
    <2>5. PICK t : t = Append(s, v) OBVIOUS
    <2>6. IsSeq(t) /\ Len(t) = Len(s) + 1 /\ \A k \in 1 .. Len(s) : t[k] = s[k]
        BY <2>4, <2>5, AppendSeq
    <2>7. LoopStep(r) = [size |-> v, sizes |-> t]
        BY <1>2, <2>1, <2>3, <2>5 DEF LoopStep
    <2>8. \A i \in 1 .. Len(s) : (IF i = 1 THEN n ELSE s[i - 1]) > PerBlock
        BY <2>3 DEF Tall
    <2>9. r.size = IF s = << >> THEN n ELSE s[Len(s)]
        BY <2>3 DEF Stacked
    <2>10. r.size > PerBlock
        BY <1>2, SizesOK DEF Stacked
    <2>11. ASSUME NEW i \in 1 .. Len(t)
           PROVE  (IF i = 1 THEN n ELSE t[i - 1]) > PerBlock
        <3>1. CASE i <= Len(s)
            <4>1. i \in 1 .. Len(s) /\ (i # 1 => i - 1 \in 1 .. Len(s))
                BY <2>4, <2>6, <3>1
            <4>2. i # 1 => t[i - 1] = s[i - 1]
                BY <2>6, <4>1
            <4> QED BY <2>8, <4>1, <4>2
        <3>2. CASE ~ (i <= Len(s))
            <4>1. i = Len(s) + 1 BY <2>4, <2>6, <3>2
            <4>2. CASE i = 1
                BY <2>4, <2>9, <2>10, <4>1, <4>2
            <4>3. CASE i # 1
                <5>1. i - 1 = Len(s) /\ Len(s) \in 1 .. Len(s) /\ t[i - 1] = s[Len(s)] /\ s # << >>
                    BY <2>4, <2>6, <4>1, <4>3
                <5> QED BY <2>9, <2>10, <4>3, <5>1
            <4> QED BY <4>2, <4>3
        <3> QED BY <3>1, <3>2
    <2>12. LoopStep(r).sizes = t BY <2>7
    <2> QED BY <2>11, <2>12 DEF Tall
<1> QED BY <1>1, <1>2

\* And ends when there is not.
LEMMA LevelsEnd ==
    ASSUME NEW n \in Nat, NEW s, s = LevelSizes(n)
    PROVE  Tall(n, s) /\ (IF s = << >> THEN n ELSE s[Len(s)]) <= PerBlock
<1>1. PICK f : LoopRuns(n, n, f) /\ LevelSizes(n) = f[n].sizes
    BY LoopIs
<1>2. /\ f[0] = LoopStart(n)
      /\ \A k \in 0 .. n : k # 0 => f[k] = LoopStep(f[k - 1])
    BY <1>1 DEF LoopRuns
<1>3. LoopStart(n).size = n /\ LoopStart(n).sizes = << >>
    BY DEF LoopStart
<1>4. Stacked(n, LoopStart(n)) /\ Tall(n, LoopStart(n).sizes)
    BY <1>3, NilIs DEF Stacked, Stack, Tall, NilSeq
<1> DEFINE Q(k) == /\ Stacked(n, f[k]) /\ Tall(n, f[k].sizes)
                   /\ f[k].size <= PerBlock \/ f[k].size + k <= n
           T == {k \in 0 .. n : ~ Q(k)}
<1>5. Q(0)
    <2>1. n + 0 <= n OBVIOUS
    <2> QED BY <1>2, <1>3, <1>4, <2>1
<1>6. T = {}
    <2> SUFFICES ASSUME T # {} PROVE FALSE OBVIOUS
    <2>1. PICK k \in T : \A j \in T : k <= j
        <3>1. T \in SUBSET Nat OBVIOUS
        <3> HIDE DEF T
        <3> QED BY <3>1, Least
    <2>2. k # 0 BY <1>5, <2>1
    <2>3. k \in 0 .. n /\ k - 1 \in 0 .. n /\ ~ (k <= k - 1)
        BY <2>1, <2>2
    <2>4. Q(k - 1) BY <2>1, <2>3
    <2>5. PICK r : r = f[k - 1] OBVIOUS
    <2>6. f[k] = LoopStep(r) /\ Stacked(n, r) /\ Tall(n, r.sizes) /\ (r.size <= PerBlock \/ r.size + (k - 1) <= n)
        BY <1>2, <2>2, <2>3, <2>4, <2>5
    <2>7. Stacked(n, f[k]) /\ Tall(n, f[k].sizes)
        BY <2>6, StackGrows, TallGrows
    <2>8. f[k].size <= PerBlock \/ f[k].size + k <= n
        <3>1. CASE r.size <= PerBlock
            BY <2>6, <3>1 DEF LoopStep
        <3>2. CASE ~ (r.size <= PerBlock)
            <4>1. PICK x \in Nat : x = r.size
                BY <2>6 DEF Stacked
            <4>2. x > PerBlock BY <3>2, <4>1, SizesOK
            <4>3. Above(x) < x /\ Above(x) \in Nat
                BY <4>2, AboveLess, AboveNat
            <4>4. f[k].size = Above(x)
                BY <2>6, <3>2, <4>1 DEF LoopStep
            <4> QED BY <2>3, <2>6, <3>2, <4>1, <4>3, <4>4
        <3> QED BY <3>1, <3>2
    <2> QED BY <2>1, <2>7, <2>8
<1>7. n \in 0 .. n OBVIOUS
<1>8. Q(n) BY <1>6, <1>7
<1>9. f[n].size <= PerBlock
    <2>1. f[n].size \in Nat BY <1>8 DEF Stacked
    <2>2. f[n].size + n <= n => f[n].size = 0 BY <2>1
    <2> QED BY <1>8, <2>2, SizesOK
<1> QED BY <1>1, <1>8, <1>9 DEF Stacked

--------------------------------------------------
(* What dm-verity takes them for. *)

\* q blocks of data: level k has as many blocks as dm-verity reckons.
Reckoned(s, q) ==
    /\ q \in Nat /\ Len(s) \in Nat
    /\ \A k \in 1 .. Len(s) : Ceiling(q, Power(k)) \in Nat /\ s[k] = Ceiling(q, Power(k)) * PerBlock

\* That is so for every number of cells.
LEMMA SizesAre ==
    ASSUME NEW n \in Nat, NEW s, s = LevelSizes(n), NEW q, q = Ceiling(n, PerBlock)
    PROVE  Reckoned(s, q)
<1>1. PICK b \in Nat \ {0} : b = PerBlock /\ b > 1
    BY SizesOK
<1>2. q \in Nat /\ q = Ceiling(n, b) BY <1>1, CeilingNat
<1>3. Stack(n, s) BY LevelSizesIs
<1>4. PICK m \in Nat : m = Len(s)
    BY <1>3, LenNat DEF Stack
<1>5. \A i \in 1 .. m : s[i] \in Nat /\ s[i] = Above(IF i = 1 THEN n ELSE s[i - 1])
    BY <1>3, <1>4 DEF Stack
<1> DEFINE Q(k) == k # 0 => s[k] = Ceiling(q, Power(k)) * b
           T == {k \in 0 .. m : ~ Q(k)}
<1>6. T = {}
    <2> SUFFICES ASSUME T # {} PROVE FALSE OBVIOUS
    <2>1. PICK k \in T : \A j \in T : k <= j
        <3>1. T \in SUBSET Nat OBVIOUS
        <3> HIDE DEF T
        <3> QED BY <3>1, Least
    <2>2. k # 0 BY <2>1
    <2>3. k \in 1 .. m /\ k - 1 \in 0 .. m /\ ~ (k <= k - 1)
        BY <2>1, <2>2
    <2>4. PICK j \in Nat : j = k - 1 /\ k = j + 1
        BY <2>3
    <2>5. Q(j) BY <2>1, <2>3, <2>4
    <2>6. PICK p \in Nat \ {0} : p = Power(j) /\ Power(k) = p * b
        BY <1>1, <2>4, PowerIs
    <2>7. PICK c \in Nat : c = Ceiling(q, p)
        BY <1>2, CeilingNat
    <2>8. Ceiling(c, b) = Ceiling(q, Power(k))
        <3>1. PICK r \in Nat : r = q BY <1>2
        <3>2. PICK t \in Nat \ {0} : t = p BY <2>6
        <3>3. r \in Nat /\ t \in Nat \ {0} /\ b \in Nat \ {0} OBVIOUS
        <3>4. Ceiling(Ceiling(r, t), b) = Ceiling(r, t * b)
            BY <3>3, CeilingTwice
        <3> QED BY <2>6, <2>7, <3>1, <3>2, <3>4
    <2>9. s[k] = Ceiling(c, b) * b
        <3>1. CASE k = 1
            <4>1. j = 0 /\ p = 1
                BY <2>4, <2>6, <3>1, PowerIs
            <4>2. s[k] = Ceiling(q, b) * b
                BY <1>1, <1>2, <1>5, <2>3, <3>1, AboveIs
            <4>3. Ceiling(q, 1) = q BY <1>2 DEF Ceiling
            <4> QED BY <2>7, <4>1, <4>2, <4>3
        <3>2. CASE k # 1
            <4>1. j # 0 /\ s[k] = Above(s[j])
                BY <1>5, <2>3, <2>4, <3>2
            <4>2. s[j] = c * b BY <2>5, <2>6, <2>7, <4>1
            <4>3. PICK x \in Nat : x = c * b
                BY TimesTurn
            <4>4. Above(x) = Ceiling(Ceiling(x, b), b) * b
                BY <1>1, AboveIs
            <4>5. Ceiling(x, b) = c
                BY <4>3, CeilingWhole
            <4> QED BY <4>1, <4>2, <4>3, <4>4, <4>5
        <3> QED BY <3>1, <3>2
    <2> QED BY <2>1, <2>8, <2>9
<1>7. ASSUME NEW k \in 1 .. m PROVE Ceiling(q, Power(k)) \in Nat /\ s[k] = Ceiling(q, Power(k)) * b
    <2>1. k \in 0 .. m /\ k # 0 /\ k \in Nat OBVIOUS
    <2>2. Q(k) BY <1>6, <2>1
    <2>3. PICK p \in Nat \ {0} : p = Power(k)
        BY <2>1, PowerIs
    <2>4. Ceiling(q, p) \in Nat BY <1>2, CeilingNat
    <2> QED BY <2>1, <2>2, <2>3, <2>4
<1> QED BY <1>1, <1>2, <1>4, <1>7 DEF Reckoned

\* dm-verity reckons with as many levels as there are.
LEMMA HeightIs ==
    ASSUME NEW n \in Nat, NEW s, s = LevelSizes(n), NEW q, q = Ceiling(n, PerBlock)
    PROVE  /\ VerityLevels(q) = Len(s) /\ Power(Len(s)) >= q
           /\ \A k \in 0 .. Len(s) - 1 : Power(k) < q
<1>1. PICK b \in Nat \ {0} : b = PerBlock /\ b > 1
    BY SizesOK
<1>2. /\ q \in Nat /\ Len(s) \in Nat
      /\ \A k \in 1 .. Len(s) : Ceiling(q, Power(k)) \in Nat /\ s[k] = Ceiling(q, Power(k)) * b
    <2>1. n \in Nat /\ s = LevelSizes(n) /\ q = Ceiling(n, PerBlock) OBVIOUS
    <2>2. Reckoned(s, q) BY <2>1, SizesAre
    <2> QED BY <1>1, <2>2 DEF Reckoned
<1>3. PICK m \in Nat : m = Len(s) BY <1>2
<1>4. Tall(n, s) /\ (IF s = << >> THEN n ELSE s[Len(s)]) <= PerBlock
    BY LevelsEnd
<1>5. s = << >> <=> m = 0
    <2>1. IsSeq(s) BY LevelSizesIs DEF Stack
    <2> QED BY <1>3, <2>1, LenNat
<1>6. n <= q * b /\ q * b < n + b BY <1>1, CeilingNat
<1>7. 1 * b = b /\ 2 * b = b + b /\ q * b \in Nat
    BY <1>2, SMT
<1>8. ASSUME NEW k \in 0 .. m - 1 PROVE Power(k) < q
    <2>1. k + 1 \in 1 .. Len(s) /\ (k + 1) - 1 = k
        BY <1>3
    <2>2. (IF k + 1 = 1 THEN n ELSE s[k]) > b
        BY <1>1, <1>4, <2>1 DEF Tall
    <2>3. CASE k = 0
        <3>1. 1 * b < q * b BY <1>6, <1>7, <2>2, <2>3
        <3>2. 1 < q BY <1>2, <3>1, TimesBack
        <3> QED BY <2>3, <3>2, PowerIs
    <2>4. CASE k # 0
        <3>1. PICK p \in Nat \ {0} : p = Power(k)
            BY PowerIs
        <3>2. k \in 1 .. Len(s) BY <1>3, <2>4
        <3>3. PICK c \in Nat : c = Ceiling(q, p) /\ s[k] = c * b
            BY <1>2, <3>1, <3>2
        <3>4. 1 * b < c * b BY <1>7, <2>2, <2>4, <3>3
        <3>5. 1 < c BY <3>4, TimesBack
        <3>6. c * p < q + p BY <1>2, <3>3, CeilingNat
        <3>7. 2 * p <= c * p /\ 2 * p = p + p /\ c * p \in Nat
            BY <3>5, TimesMono
        <3> QED BY <1>2, <3>1, <3>6, <3>7
    <2> QED BY <2>3, <2>4
<1>9. Power(m) >= q
    <2>1. CASE m = 0
        <3>1. q * b < 2 * b
            BY <1>1, <1>4, <1>5, <1>6, <1>7, <2>1
        <3>2. q < 2 BY <1>2, <3>1, TimesBack
        <3> QED BY <1>2, <2>1, <3>2, PowerIs
    <2>2. CASE m # 0
        <3>1. PICK p \in Nat \ {0} : p = Power(m)
            BY PowerIs
        <3>2. m \in 1 .. Len(s) BY <1>3, <2>2
        <3>3. PICK c \in Nat : c = Ceiling(q, p) /\ s[m] = c * b
            BY <1>2, <3>1, <3>2
        <3>4. c * b <= 1 * b /\ c * b \in Nat
            BY <1>1, <1>3, <1>4, <1>5, <1>7, <2>2, <3>3, TimesTurn
        <3>5. c * b < (1 + 1) * b BY <1>7, <3>4
        <3>6. c <= 1 BY <3>5, Between
        <3>7. q <= c * p BY <1>2, <3>3, CeilingNat
        <3>8. c * p <= 1 * p /\ 1 * p = p /\ c * p \in Nat
            BY <3>6, TimesMono
        <3> QED BY <1>2, <3>1, <3>7, <3>8
    <2> QED BY <2>1, <2>2
<1> DEFINE G(x) == Power(x) >= q /\ \A k \in 0 .. x - 1 : Power(k) < q
<1>10. m \in 0 .. q
    <2>1. CASE m = 0 BY <1>2, <2>1
    <2>2. CASE m # 0
        <3>1. PICK k \in Nat : k = m - 1 /\ k \in 0 .. m - 1
            <4>1. m - 1 \in Nat /\ m - 1 \in 0 .. m - 1
                BY <2>2
            <4> QED BY <4>1
        <3>2. k < Power(k) /\ Power(k) \in Nat /\ Power(k) < q
            BY <1>8, <3>1, PowerIs
        <3> QED BY <1>2, <3>1, <3>2
    <2> QED BY <2>1, <2>2
<1>11. G(m) BY <1>8, <1>9
<1>12. ASSUME NEW x \in 0 .. q, G(x) PROVE x = m
    <2>1. Power(x) \in Nat /\ Power(m) \in Nat
        <3>1. x \in Nat /\ m \in Nat BY <1>2
        <3> QED BY <3>1, PowerIs
    <2>2. CASE x < m
        <3>1. x \in 0 .. m - 1 BY <1>2, <2>2
        <3>2. Power(x) < q BY <1>8, <3>1
        <3> QED BY <1>2, <1>12, <2>1, <3>2
    <2>3. CASE m < x
        <3>1. m \in 0 .. x - 1 BY <1>2, <2>3
        <3>2. Power(m) < q BY <1>12, <3>1
        <3> QED BY <1>2, <1>9, <2>1, <3>2
    <2> QED BY <1>2, <2>2, <2>3
<1>13. VerityLevels(q) = CHOOSE x \in 0 .. q : G(x)
    BY Zenon DEF VerityLevels
<1> HIDE DEF G
<1>14. VerityLevels(q) = m
    <2>1. (CHOOSE x \in 0 .. q : G(x)) \in 0 .. q /\ G(CHOOSE x \in 0 .. q : G(x))
        BY <1>10, <1>11, Zenon
    <2> QED BY <1>12, <1>13, <2>1, Zenon
<1> QED BY <1>3, <1>8, <1>9, <1>14

--------------------------------------------------
(* Where the levels are. *)

\* f is what the recursion of VerityLevelStart computes.
StartRuns(q, n, m, f) == f = [j \in 0 .. m |-> IF j = 0 THEN 0 ELSE f[j - 1] + VerityLevelBlocks(q, n - j)]

\* The function of VerityLevelStart exists.
LEMMA StartExists ==
    ASSUME NEW q, NEW n, NEW m0 \in Nat
    PROVE  \E f : StartRuns(q, n, m0, f)
<1> DEFINE R(m, r) == r = [j \in 0 .. m |-> IF j = 0 THEN 0 ELSE r[j - 1] + VerityLevelBlocks(q, n - j)]
           P(m) == \E r : R(m, r)
           T == {m \in Nat : ~ P(m)}
<1>1. SUFFICES ASSUME T # {} PROVE FALSE
    BY DEF StartRuns
<1>2. PICK m \in T : \A j \in T : m <= j BY <1>1, Least
<1>3. m # 0
    <2>1. P(0)
        <3> DEFINE f == [k \in {0} |-> 0]
        <3>1. R(0, f) OBVIOUS
        <3> QED BY <3>1
    <2> QED BY <2>1
<1>4. P(m - 1)
    <2>1. m - 1 \in Nat /\ ~ (m <= m - 1) BY <1>3
    <2>2. m - 1 \notin T BY <1>2, <2>1
    <2> QED BY <2>1, <2>2
<1>5. PICK g : R(m - 1, g) BY <1>4
<1> DEFINE f == [j \in 0 .. m |-> IF j = 0 THEN 0 ELSE g[j - 1] + VerityLevelBlocks(q, n - j)]
<1>6. \A k \in 0 .. m : k # 0 => f[k - 1] = g[k - 1]
    <2> TAKE k \in 0 .. m
    <2> HAVE k # 0
    <2>1. k - 1 \in 0 .. m /\ k - 1 \in 0 .. (m - 1) OBVIOUS
    <2>2. f[k - 1] = IF k - 1 = 0 THEN 0 ELSE g[(k - 1) - 1] + VerityLevelBlocks(q, n - (k - 1))
        BY <2>1
    <2>3. g[k - 1] = IF k - 1 = 0 THEN 0 ELSE g[(k - 1) - 1] + VerityLevelBlocks(q, n - (k - 1))
        BY <1>5, <2>1
    <2> QED BY <2>2, <2>3
<1>7. R(m, f) BY <1>6
<1> QED BY <1>7

\* VerityLevelStart is a value of it.
LEMMA StartRunsIs ==
    ASSUME NEW q, NEW n \in Nat, n = VerityLevels(q)
    PROVE  \E f : StartRuns(q, n, n, f) /\ \A i : VerityLevelStart(q, i) = f[n - 1 - i]
<1> DEFINE f == CHOOSE r : StartRuns(q, n, n, r)
<1>1. StartRuns(q, n, n, f) BY StartExists, Zenon
<1>2. \A i : VerityLevelStart(q, i) = f[n - 1 - i]
    BY Zenon DEF VerityLevelStart, StartRuns
<1> QED BY <1>1, <1>2

\* A level begins where dm-verity reckons it does.
LEMMA StartsAre ==
    ASSUME NEW n \in Nat, NEW s, s = LevelSizes(n), NEW q, q = Ceiling(n, PerBlock), NEW m \in Nat, m = Len(s)
    PROVE  \A i \in 0 .. m - 1 : /\ VerityLevelStart(q, i) \in Nat
                                 /\ SumBehind(s, i + 1) = VerityLevelStart(q, i) * PerBlock
<1>1. PICK b \in Nat \ {0} : b = PerBlock /\ b > 1
    BY SizesOK
<1>2. m = VerityLevels(q) BY HeightIs
<1>3. PICK f : StartRuns(q, m, m, f) /\ \A i : VerityLevelStart(q, i) = f[m - 1 - i]
    BY <1>2, StartRunsIs
<1>4. f[0] = 0 /\ \A j \in 1 .. m : f[j] = f[j - 1] + VerityLevelBlocks(q, m - j)
    <2>1. f = [j \in 0 .. m |-> IF j = 0 THEN 0 ELSE f[j - 1] + VerityLevelBlocks(q, m - j)]
        BY <1>3, Zenon DEF StartRuns
    <2>2. 0 \in 0 .. m /\ \A j \in 1 .. m : j \in 0 .. m /\ j # 0 OBVIOUS
    <2>3. f[0] = 0 BY <2>1, <2>2
    <2>4. \A j \in 1 .. m : f[j] = f[j - 1] + VerityLevelBlocks(q, m - j)
        BY <2>1, <2>2, Zenon
    <2> QED BY <2>3, <2>4
<1>5. IsSeq(s) /\ \A i \in 1 .. m : s[i] \in Nat /\ s[i] % b = 0
    BY <1>1, LevelSizesIs DEF Stack
<1>6. /\ SumBehind(s, m) = 0 /\ \A k \in 0 .. m : SumBehind(s, k) \in Nat
      /\ \A k \in 1 .. m : SumBehind(s, k - 1) = SumBehind(s, k) + s[k]
    <2>1. \A i \in 1 .. Len(s) : s[i] \in Nat /\ s[i] % b = 0
        BY <1>5
    <2>2. /\ Len(s) \in Nat /\ SumBehind(s, Len(s)) = 0
          /\ \A k \in 0 .. Len(s) : SumBehind(s, k) \in Nat /\ SumBehind(s, k) % b = 0
          /\ \A k \in 1 .. Len(s) : SumBehind(s, k - 1) = SumBehind(s, k) + s[k]
        BY <1>5, <2>1, SumIs
    <2> QED BY <2>2
<1>7. \A k \in 1 .. m : Ceiling(q, Power(k)) \in Nat /\ s[k] = Ceiling(q, Power(k)) * b
    <2>1. n \in Nat /\ s = LevelSizes(n) /\ q = Ceiling(n, PerBlock) OBVIOUS
    <2>2. Reckoned(s, q) BY <2>1, SizesAre
    <2> QED BY <1>1, <2>2 DEF Reckoned
<1> DEFINE Q(j) == f[j] \in Nat /\ SumBehind(s, m - j) = f[j] * b
           T == {j \in 0 .. m : ~ Q(j)}
<1>8. T = {}
    <2> SUFFICES ASSUME T # {} PROVE FALSE OBVIOUS
    <2>1. PICK k \in T : \A j \in T : k <= j
        <3>1. T \in SUBSET Nat OBVIOUS
        <3> HIDE DEF T
        <3> QED BY <3>1, Least
    <2>2. k # 0
        <3>1. 0 * b = 0 /\ m - 0 = m BY SMT
        <3> QED BY <1>4, <1>6, <2>1, <3>1
    <2>3. k \in 1 .. m /\ k - 1 \in 0 .. m /\ ~ (k <= k - 1)
        BY <2>1, <2>2
    <2>4. Q(k - 1) BY <2>1, <2>3
    <2>5. PICK u \in 1 .. m : u = m - k + 1 /\ u - 1 = m - k /\ m - (k - 1) = u
        <3>1. m - k + 1 \in 1 .. m /\ (m - k + 1) - 1 = m - k /\ m - (k - 1) = m - k + 1
            BY <2>3
        <3> QED BY <3>1
    <2>6. PICK c \in Nat : c = VerityLevelBlocks(q, m - k) /\ s[u] = c * b
        BY <1>7, <2>5 DEF VerityLevelBlocks
    <2>7. PICK x \in Nat : x = f[k - 1] /\ SumBehind(s, u) = x * b
        BY <2>4, <2>5
    <2>8. f[k] = x + c BY <1>4, <2>3, <2>6, <2>7
    <2>9. SumBehind(s, u - 1) = x * b + c * b
        BY <1>6, <2>5, <2>6, <2>7
    <2>10. (x + c) * b = x * b + c * b BY SMT
    <2> QED BY <2>1, <2>5, <2>8, <2>9, <2>10
<1>9. ASSUME NEW i \in 0 .. m - 1
      PROVE  VerityLevelStart(q, i) \in Nat /\ SumBehind(s, i + 1) = VerityLevelStart(q, i) * b
    <2>1. PICK j \in 0 .. m : j = m - 1 - i /\ m - j = i + 1
        <3>1. m - 1 - i \in 0 .. m /\ m - (m - 1 - i) = i + 1 OBVIOUS
        <3> QED BY <3>1
    <2>2. Q(j) BY <1>8
    <2> QED BY <1>3, <2>1, <2>2
<1> QED BY <1>1, <1>9

\* The cells of a level are in the tree at its offset.
LEMMA TreeHolds ==
    ASSUME NEW data, IsSeq(data), NEW s, s = LevelSizes(Len(data)), NEW f, f = Levels(data),
           NEW k0 \in 1 .. Len(s), NEW x \in 1 .. s[k0]
    PROVE  /\ SumBehind(s, k0) + x \in 1 .. Len(GenerateTree(data))
           /\ GenerateTree(data)[SumBehind(s, k0) + x] = f[k0][x]
<1>1. /\ IsSeq(s) /\ \A i \in 1 .. Len(s) : s[i] \in Nat /\ s[i] % PerBlock = 0
      /\ \A k \in 1 .. Len(s) : Len(f[k]) = s[k]
    <2>1. Tower(data, s, f) BY LevelsIs
    <2> QED BY <2>1 DEF Tower, Stack
<1>2. PICK n \in Nat : n = Len(s) BY <1>1, LenNat
<1> DEFINE at(k) == SumBehind(s, k)
           Of(i, k) == at(k) < i /\ i <= at(k) + Len(f[k])
           Cell(i) == f[CHOOSE k \in 1 .. n : Of(i, k)][i - at(CHOOSE k \in 1 .. n : Of(i, k))]
<1>3. at(n) = 0 /\ \A k \in 0 .. n : at(k) \in Nat
    <2>1. PICK b \in Nat \ {0} : b = PerBlock BY SizesOK
    <2>2. \A i \in 1 .. Len(s) : s[i] \in Nat /\ s[i] % b = 0
        BY <1>1, <2>1
    <2>3. /\ Len(s) \in Nat /\ SumBehind(s, Len(s)) = 0
          /\ \A k \in 0 .. Len(s) : SumBehind(s, k) \in Nat /\ SumBehind(s, k) % b = 0
          /\ \A k \in 1 .. Len(s) : SumBehind(s, k - 1) = SumBehind(s, k) + s[k]
        BY <1>1, <2>2, SumIs
    <2> QED BY <1>2, <2>3
<1>4. \A k \in 1 .. n : at(k - 1) = at(k) + s[k]
    <2>1. PICK b \in Nat \ {0} : b = PerBlock BY SizesOK
    <2>2. \A i \in 1 .. Len(s) : s[i] \in Nat /\ s[i] % b = 0
        BY <1>1, <2>1
    <2>3. /\ Len(s) \in Nat /\ SumBehind(s, Len(s)) = 0
          /\ \A k \in 0 .. Len(s) : SumBehind(s, k) \in Nat /\ SumBehind(s, k) % b = 0
          /\ \A k \in 1 .. Len(s) : SumBehind(s, k - 1) = SumBehind(s, k) + s[k]
        BY <1>1, <2>2, SumIs
    <2> QED BY <1>2, <2>3
\* The offsets fall as the levels rise.
<1>5. ASSUME NEW j \in 0 .. n PROVE \A k \in 0 .. n : j <= k => at(k) <= at(j)
    <2> DEFINE T == {k \in 0 .. n : j <= k /\ ~ (at(k) <= at(j))}
    <2> SUFFICES ASSUME T # {} PROVE FALSE OBVIOUS
    <2>1. PICK k \in T : \A i \in T : k <= i
        <3>1. T \in SUBSET Nat OBVIOUS
        <3> HIDE DEF T
        <3> QED BY <3>1, Least
    <2>2. at(j) \in Nat /\ at(k) \in Nat BY <1>3, <2>1
    <2>3. k # j BY <2>1, <2>2
    <2>4. k \in 1 .. n /\ k - 1 \in 0 .. n /\ j <= k - 1 /\ ~ (k <= k - 1)
        BY <2>1, <2>3
    <2>5. at(k - 1) <= at(j) BY <2>1, <2>4
    <2>6. at(k - 1) = at(k) + s[k] /\ s[k] \in Nat
        BY <1>1, <1>2, <1>4, <2>4
    <2> QED BY <2>1, <2>2, <2>5, <2>6
<1>6. PICK i : i = at(k0) + x OBVIOUS
<1>7. k0 \in 1 .. n /\ Of(i, k0) /\ i \in Nat /\ i <= at(k0 - 1) /\ i - at(k0) = x
    <2>1. k0 \in 1 .. n /\ k0 \in 0 .. n BY <1>2
    <2>2. at(k0) \in Nat /\ Len(f[k0]) = s[k0] /\ s[k0] \in Nat /\ at(k0 - 1) = at(k0) + s[k0]
        BY <1>1, <1>2, <1>3, <1>4, <2>1
    <2> QED BY <1>6, <2>1, <2>2
<1>8. PICK size \in Nat : size = TreeSize(Len(data)) /\ size = at(0)
    <2>1. 0 \in 0 .. n OBVIOUS
    <2> QED BY <1>3, <2>1 DEF TreeSize
<1>9. i \in 1 .. size
    <2>1. k0 - 1 \in 0 .. n /\ 0 \in 0 .. n /\ 0 <= k0 - 1 /\ k0 \in 0 .. n
        BY <1>7
    <2>2. at(k0 - 1) <= at(0) /\ at(k0 - 1) \in Nat /\ at(k0) \in Nat
        BY <1>3, <1>5, <2>1
    <2> QED BY <1>6, <1>7, <1>8, <2>2
<1>10. ASSUME NEW k \in 1 .. n, Of(i, k) PROVE k = k0
    <2>1. k \in 0 .. n /\ k - 1 \in 0 .. n /\ k0 \in 0 .. n /\ k0 - 1 \in 0 .. n
        BY <1>7
    <2>2. /\ at(k) \in Nat /\ at(k0) \in Nat /\ at(k - 1) \in Nat /\ at(k0 - 1) \in Nat
          /\ Len(f[k]) = s[k] /\ at(k - 1) = at(k) + s[k]
        BY <1>1, <1>2, <1>3, <1>4, <2>1
    <2>3. at(k) < i /\ i <= at(k - 1) /\ at(k0) < i /\ i <= at(k0 - 1)
        BY <1>7, <1>10, <2>2
    <2>4. CASE k < k0
        <3>1. k <= k0 - 1 BY <1>7, <2>4
        <3>2. at(k0 - 1) <= at(k) BY <1>5, <2>1, <3>1
        <3> QED BY <1>7, <2>2, <2>3, <3>2
    <2>5. CASE k0 < k
        <3>1. k0 <= k - 1 BY <1>7, <2>5
        <3>2. at(k - 1) <= at(k0) BY <1>5, <2>1, <3>1
        <3> QED BY <1>7, <2>2, <2>3, <3>2
    <2> QED BY <1>7, <2>4, <2>5
<1>11. PICK t : t = GenerateTree(data) OBVIOUS
<1>12. t = [j \in 1 .. size |-> Cell(j)]
    <2>1. GenerateTree(data) = [j \in 1 .. TreeSize(Len(data)) |->
              Levels(data)[CHOOSE k \in 1 .. Len(LevelSizes(Len(data))) :
                              /\ SumBehind(LevelSizes(Len(data)), k) < j
                              /\ j <= SumBehind(LevelSizes(Len(data)), k) + Len(Levels(data)[k])]
                  [j - SumBehind(LevelSizes(Len(data)),
                         CHOOSE k \in 1 .. Len(LevelSizes(Len(data))) :
                              /\ SumBehind(LevelSizes(Len(data)), k) < j
                              /\ j <= SumBehind(LevelSizes(Len(data)), k) + Len(Levels(data)[k]))]]
        BY Zenon DEF GenerateTree, LevelOffset
    <2>2. s = LevelSizes(Len(data)) /\ f = Levels(data) /\ n = Len(LevelSizes(Len(data))) /\ size = TreeSize(Len(data))
        BY <1>2, <1>8
    <2> QED BY <1>11, <2>1, <2>2
<1>13. (CHOOSE k \in 1 .. n : Of(i, k)) = k0
    <2> HIDE DEF Of
    <2>1. (CHOOSE k \in 1 .. n : Of(i, k)) \in 1 .. n /\ Of(i, CHOOSE k \in 1 .. n : Of(i, k))
        BY <1>7, Zenon
    <2> QED BY <1>10, <2>1, Zenon
<1>14. t[i] = f[k0][x]
    <2>1. t[i] = Cell(i)
        <3> HIDE DEF Cell
        <3> QED BY <1>9, <1>12
    <2> QED BY <1>7, <1>13, <2>1
<1>15. Len(t) = size BY <1>8, <1>11, TreeIs
<1> QED BY <1>6, <1>9, <1>11, <1>14, <1>15

--------------------------------------------------
(* dm-verity accepts a block by the tree that the tool has made. *)

\* A block that is not the short one at the end.
LEMMA FullBlock ==
    ASSUME NEW s, IsSeq(s), NEW v \in Nat, NEW at \in Nat, at = v * PerBlock, at + PerBlock <= Len(s)
    PROVE  /\ IsSeq(Block(s, v)) /\ Len(Block(s, v)) = PerBlock
           /\ \A r \in 1 .. PerBlock : Block(s, v)[r] = s[at + r]
<1>1. PICK b \in Nat \ {0} : b = PerBlock BY SizesOK
<1>2. (v + 1) * PerBlock = at + PerBlock
    <2>1. (v + 1) * b = v * b + b BY SMT
    <2> QED BY <1>1, <2>1
<1>3. PICK x : x = Block(s, v) OBVIOUS
<1>4. x = Slice(s, at, b)
    BY <1>1, <1>2, <1>3 DEF Block, Slice
<1>5. /\ IsSeq(Slice(s, at, b)) /\ Len(Slice(s, at, b)) = SliceLen(s, at, b) /\ Len(s) \in Nat
      /\ \A k \in 1 .. SliceLen(s, at, b) : Slice(s, at, b)[k] = s[at + k]
    <2>1. PICK a \in Nat : a = at OBVIOUS
    <2>2. IsSeq(s) /\ a \in Nat /\ b \in Nat OBVIOUS
    <2>3. /\ IsSeq(Slice(s, a, b)) /\ Len(Slice(s, a, b)) = SliceLen(s, a, b)
          /\ Len(s) \in Nat /\ SliceLen(s, a, b) \in Nat /\ SliceLen(s, a, b) <= b
          /\ \A k \in 1 .. SliceLen(s, a, b) : a + k <= Len(s) /\ Slice(s, a, b)[k] = s[a + k]
        BY <2>2, SliceSeq
    <2> QED BY <2>1, <2>3
<1>6. SliceLen(s, at, b) = b BY <1>1, <1>5 DEF SliceLen
<1> QED BY <1>1, <1>3, <1>4, <1>5, <1>6

\* A whole block is not padded.
LEMMA NoPadding ==
    ASSUME NEW s, IsSeq(s), Len(s) = PerBlock
    PROVE  Padded(s) = s
<1>1. PICK m \in Nat : m = PerBlock - Len(s) /\ m = 0
    BY SizesOK
<1>2. PICK z : z = Nuls(m) OBVIOUS
<1>3. z = [k \in 1 .. m |-> z[k]] BY <1>2 DEF Nuls
<1>4. IsSeq(z) /\ Len(z) = 0 BY <1>1, <1>3, MapSeq
<1>5. IsSeq(s \o z) /\ Len(s \o z) = Len(s) + Len(z) /\ Len(s) \in Nat /\ \A k \in 1 .. Len(s) : (s \o z)[k] = s[k]
    BY <1>4, CatSeq
<1>6. s \o z = s
    <2>1. Len(s \o z) = Len(s) BY <1>4, <1>5
    <2> QED BY <1>5, <2>1, SameSeq
<1>7. Padded(s) = s \o z BY <1>1, <1>2 DEF Padded
<1> QED BY <1>6, <1>7

\* A level of n blocks, and the w-th of them.
LEMMA BlockFits ==
    ASSUME NEW w \in Nat, NEW c \in Nat, w < c, NEW b \in Nat \ {0}
    PROVE  w * b + b <= c * b /\ w * b \in Nat /\ c * b \in Nat
<1>1. (w + 1) * b = w * b + b /\ w * b \in Nat
    BY TimesPlus
<1>2. w + 1 <= c OBVIOUS
<1>3. (w + 1) * b <= c * b /\ c * b \in Nat
    BY <1>2, TimesMono
<1> QED BY <1>1, <1>3

\* In a stack of levels f, of sizes s, over q blocks of data: the block of level k
\* that leads to block c.
Way(c, k) == c \div Power(k)

\* What the way to block c passes.
Passes(f, s, q, c) ==
    /\ \A k \in 0 .. Len(s) : Way(c, k) \in Nat /\ Way(c, k) * PerBlock \in Nat
                              /\ Way(c, k) * PerBlock + PerBlock <= Len(f[k])
    /\ \A k \in 1 .. Len(s) : /\ Way(c, k) = Way(c, k - 1) \div PerBlock
                              /\ Way(c, k - 1) + 1 \in 1 .. Ceiling(Len(f[k - 1]), PerBlock)
    /\ Len(f[Len(s)]) = PerBlock /\ Way(c, Len(s)) = 0 /\ Way(c, 0) = c

\* The way to a whole block of the data passes whole blocks.
LEMMA WayIs ==
    ASSUME NEW data, IsSeq(data), NEW s, s = LevelSizes(Len(data)), NEW f, f = Levels(data),
           NEW q, q = Ceiling(Len(data), PerBlock), NEW c \in Nat, NEW at \in Nat, at = c * PerBlock, at + PerBlock <= Len(data)
    PROVE  Passes(f, s, q, c)
<1>1. PICK b \in Nat \ {0} : b = PerBlock /\ b > 1
    BY SizesOK
<1>2. PICK N \in Nat : N = Len(data) BY LenNat
<1>3. N \in Nat /\ s = LevelSizes(N) /\ q = Ceiling(N, PerBlock)
    BY <1>2
<1>4. Reckoned(s, q) BY <1>3, SizesAre
<1>5. PICK m \in Nat : m = Len(s) BY <1>4 DEF Reckoned
<1>6. q \in Nat /\ \A k \in 1 .. m : Ceiling(q, Power(k)) \in Nat /\ s[k] = Ceiling(q, Power(k)) * b
    BY <1>1, <1>4, <1>5 DEF Reckoned
<1>7. Power(m) >= q
    <2>1. Power(Len(s)) >= q BY <1>3, HeightIs
    <2> QED BY <1>5, <2>1
<1>8. (IF s = << >> THEN N ELSE s[m]) <= b
    <2>1. (IF s = << >> THEN N ELSE s[Len(s)]) <= PerBlock
        BY <1>3, LevelsEnd
    <2> QED BY <1>1, <1>5, <2>1
<1>9. s = << >> <=> m = 0
    <2>1. IsSeq(s) BY <1>3, LevelSizesIs DEF Stack
    <2> QED BY <1>5, <2>1, LenNat
<1>10. f[0] = data /\ \A k \in 1 .. m : Len(f[k]) = s[k]
    <2>1. Tower(data, s, f) BY LevelsIs
    <2> QED BY <1>5, <2>1 DEF Tower
<1>11. c < q
    <2>1. N <= q * b /\ q * b \in Nat /\ q \in Nat
        <3>1. N \in Nat /\ b \in Nat \ {0} OBVIOUS
        <3>2. Ceiling(N, b) \in Nat /\ N <= Ceiling(N, b) * b
            BY <3>1, CeilingNat
        <3>3. q * b \in Nat BY <1>6, SMT
        <3> QED BY <1>1, <1>3, <3>2, <3>3
    <2>2. c * b < q * b BY <1>1, <1>2, <2>1
    <2> QED BY <2>1, <2>2, TimesBack
<1>12. ASSUME NEW k \in 1 .. m
       PROVE  /\ Way(c, k) \in Nat /\ Way(c, k) < Ceiling(q, Power(k)) /\ Way(c, k) * b \in Nat
              /\ Way(c, k) * b + b <= Len(f[k]) /\ Ceiling(Len(f[k]), b) = Ceiling(q, Power(k))
    <2>1. PICK p \in Nat \ {0} : p = Power(k)
        <3>1. k \in Nat OBVIOUS
        <3> QED BY <3>1, PowerIs
    <2>2. PICK x \in Nat : x = Ceiling(q, p) /\ s[k] = x * b
        BY <1>6, <2>1
    <2>3. PICK w \in Nat : w = c \div p BY QuotientIs
    <2>4. w < x
        <3>1. c \in Nat /\ q \in Nat /\ c < q /\ p \in Nat \ {0}
            BY <1>6, <1>11
        <3>2. c \div p < Ceiling(q, p)
            BY <3>1, QuotientBelow
        <3> QED BY <2>2, <2>3, <3>2
    <2>5. w * b + b <= x * b /\ w * b \in Nat /\ x * b \in Nat
        BY <2>4, BlockFits
    <2>6. Ceiling(x * b, b) = x BY CeilingWhole
    <2> QED BY <1>10, <2>1, <2>2, <2>3, <2>4, <2>5, <2>6 DEF Way
<1>13. Way(c, 0) = c
    <2>1. c \div 1 = c BY SMT
    <2> QED BY <2>1, PowerIs DEF Way
<1>14. ASSUME NEW k \in 0 .. m
       PROVE  Way(c, k) \in Nat /\ Way(c, k) * b \in Nat /\ Way(c, k) * b + b <= Len(f[k])
    <2>1. CASE k = 0 BY <1>1, <1>10, <1>13, <2>1
    <2>2. CASE k # 0
        <3>1. k \in 1 .. m BY <2>2
        <3> QED BY <1>12, <3>1
    <2> QED BY <2>1, <2>2
<1>15. ASSUME NEW k \in 1 .. m
       PROVE  Way(c, k) = Way(c, k - 1) \div b /\ Way(c, k - 1) + 1 \in 1 .. Ceiling(Len(f[k - 1]), b)
    <2>1. PICK j \in 0 .. m : j = k - 1 /\ k = j + 1 /\ j \in Nat
        <3>1. k - 1 \in 0 .. m /\ k = (k - 1) + 1 /\ k - 1 \in Nat OBVIOUS
        <3> QED BY <3>1
    <2>2. PICK p \in Nat \ {0} : p = Power(j) /\ Power(k) = p * b
        BY <1>1, <2>1, PowerIs
    <2>3. (c \div p) \div b = c \div (p * b)
        BY QuotientTwice
    <2>4. Way(c, k) = Way(c, j) \div b
        BY <2>2, <2>3 DEF Way
    <2>5. CASE j = 0
        <3>1. Way(c, j) = c /\ Ceiling(Len(f[j]), b) = q
            BY <1>1, <1>3, <1>2, <1>10, <1>13, <2>5
        <3> QED BY <1>6, <1>11, <2>1, <2>4, <3>1
    <2>6. CASE j # 0
        <3>1. j \in 1 .. m BY <2>1, <2>6
        <3>2. Way(c, j) \in Nat /\ Way(c, j) < Ceiling(q, Power(j)) /\ Ceiling(Len(f[j]), b) = Ceiling(q, Power(j))
            BY <1>12, <3>1
        <3>3. Ceiling(q, Power(j)) \in Nat BY <1>6, <3>1
        <3> QED BY <2>1, <2>4, <3>2, <3>3
    <2> QED BY <2>5, <2>6
<1>16. Way(c, m) = 0
    <2>1. PICK p \in Nat \ {0} : p = Power(m) BY PowerIs
    <2>2. c < p BY <1>6, <1>7, <1>11, <2>1
    <2>3. c \div p = 0 BY <2>2, QuotientSmall
    <2> QED BY <2>1, <2>3 DEF Way
<1>17. Len(f[m]) = b
    <2>1. Len(f[m]) <= b BY <1>2, <1>8, <1>9, <1>10
    <2>2. 0 * b = 0 BY SMT
    <2>3. b <= Len(f[m])
        <3>1. m \in 0 .. m OBVIOUS
        <3>2. Way(c, m) * b + b <= Len(f[m])
            BY <1>14, <3>1
        <3> QED BY <1>16, <2>2, <3>2
    <2>4. Len(f[m]) \in Nat
        <3>1. Tower(data, s, f) BY LevelsIs
        <3>2. IsSeq(f[m]) BY <1>5, <3>1 DEF Tower
        <3> QED BY <3>2, LenNat
    <2> QED BY <2>1, <2>3, <2>4
<1> QED BY <1>1, <1>5, <1>13, <1>14, <1>15, <1>16, <1>17 DEF Passes

\* What dm-verity reads on the way to block c is what the tool has hashed.
HashAt(t, q, c, i)  == Block(t, VerityLevelStart(q, i) + (c \div Power(i + 1)))
EntryAt(t, q, c, i) == LET k == ((c \div Power(i)) % PerBlock) + 1
                       IN  IF k <= Len(HashAt(t, q, c, i)) THEN HashAt(t, q, c, i)[k] ELSE Nul

\* The hash block and the entry in it that dm-verity reads at level i.
LEMMA HashIs ==
    ASSUME NEW data, IsSeq(data), NEW s, s = LevelSizes(Len(data)), NEW f, f = Levels(data),
           NEW q, q = Ceiling(Len(data), PerBlock), NEW c \in Nat, Passes(f, s, q, c),
           NEW t, t = GenerateTree(data), NEW m \in Nat, m = Len(s), NEW i \in 0 .. m - 1
    PROVE  /\ HashAt(t, q, c, i) = Block(f[i + 1], Way(c, i + 1))
           /\ EntryAt(t, q, c, i) = Digest(Padded(Block(f[i], Way(c, i))))
<1>1. PICK b \in Nat \ {0} : b = PerBlock BY SizesOK
<1>2. PICK k \in 1 .. m : k = i + 1 /\ k - 1 = i
    <2>1. i + 1 \in 1 .. m /\ (i + 1) - 1 = i OBVIOUS
    <2> QED BY <2>1
<1>3. PICK v \in Nat : v = Way(c, k) BY <1>2 DEF Passes
<1>4. PICK w \in Nat : w = Way(c, i)
    <2>1. i \in 0 .. Len(s) OBVIOUS
    <2> QED BY <2>1 DEF Passes
<1>5. PICK o \in Nat : o = v * b BY SMT
<1>6. o + b <= Len(f[k]) /\ v = w \div b /\ w + 1 \in 1 .. Ceiling(Len(f[i]), PerBlock)
    <2>1. k \in 0 .. Len(s) /\ k \in 1 .. Len(s) OBVIOUS
    <2> QED BY <1>1, <1>2, <1>3, <1>4, <1>5, <2>1 DEF Passes
<1>7. IsSeq(f[k]) /\ Len(f[k]) = s[k] /\ s[k] \in Nat /\ IsSeq(f[i]) /\ f[k] = LevelOutput(f[i])
    <2>1. Tower(data, s, f) BY LevelsIs
    <2>2. k \in 0 .. Len(s) /\ k \in 1 .. Len(s) /\ i \in 0 .. Len(s) OBVIOUS
    <2> QED BY <1>2, <2>1, <2>2 DEF Tower, Stack
<1>8. IsSeq(t) BY TreeIs
<1>9. PICK z \in Nat : z = VerityLevelStart(q, i) /\ SumBehind(s, k) = z * b
    <2>1. PICK n \in Nat : n = Len(data) BY LenNat
    <2>2. n \in Nat /\ s = LevelSizes(n) /\ q = Ceiling(n, PerBlock) /\ m \in Nat /\ m = Len(s)
        BY <2>1
    <2>3. \A j \in 0 .. m - 1 : /\ VerityLevelStart(q, j) \in Nat
                                /\ SumBehind(s, j + 1) = VerityLevelStart(q, j) * PerBlock
        BY <2>2, StartsAre
    <2> QED BY <1>1, <1>2, <2>3
<1>10. PICK y \in Nat : y = z * b BY SMT
<1>11. (z + v) * b = y + o
    <2>1. (z + v) * b = z * b + v * b BY SMT
    <2> QED BY <1>5, <1>10, <2>1
<1>12. ASSUME NEW x \in 1 .. s[k] PROVE y + x \in 1 .. Len(t) /\ t[y + x] = f[k][x]
    <2>1. k \in 1 .. Len(s) OBVIOUS
    <2>2. SumBehind(s, k) + x \in 1 .. Len(t) /\ t[SumBehind(s, k) + x] = f[k][x]
        BY <2>1, TreeHolds
    <2> QED BY <1>9, <1>10, <2>2
<1>13. PICK h : h = Block(t, z + v) OBVIOUS
<1>14. IsSeq(h) /\ Len(h) = b /\ \A r \in 1 .. b : h[r] = f[k][o + r]
    <2>1. \A r \in 1 .. b : o + r \in 1 .. s[k] /\ b \in 1 .. b
        BY <1>6, <1>7
    <2>2. y + o + b <= Len(t)
        <3>1. o + b \in 1 .. s[k] BY <2>1
        <3>2. y + (o + b) \in 1 .. Len(t) BY <1>12, <3>1
        <3> QED BY <3>2
    <2>3. PICK u \in Nat : u = z + v OBVIOUS
    <2>4. PICK g \in Nat : g = y + o OBVIOUS
    <2>5. IsSeq(t) /\ u \in Nat /\ g \in Nat /\ g = u * PerBlock /\ g + PerBlock <= Len(t)
        BY <1>1, <1>8, <1>11, <2>2, <2>3, <2>4
    <2>6. IsSeq(Block(t, u)) /\ Len(Block(t, u)) = PerBlock /\ \A r \in 1 .. PerBlock : Block(t, u)[r] = t[g + r]
        BY <2>5, FullBlock
    <2>7. ASSUME NEW r \in 1 .. b PROVE t[g + r] = f[k][o + r]
        <3>1. PICK x \in 1 .. s[k] : x = o + r BY <2>1
        <3>2. t[y + x] = f[k][x] /\ y + x = g + r
            BY <1>12, <2>4, <3>1
        <3> QED BY <3>1, <3>2
    <2> QED BY <1>1, <1>13, <2>3, <2>6, <2>7
<1>15. h = Block(f[k], v)
    <2>1. PICK d : d = f[k] OBVIOUS
    <2>2. IsSeq(d) /\ v \in Nat /\ o \in Nat /\ o = v * PerBlock /\ o + PerBlock <= Len(d)
        BY <1>1, <1>5, <1>6, <1>7, <2>1
    <2>3. IsSeq(Block(d, v)) /\ Len(Block(d, v)) = PerBlock /\ \A r \in 1 .. PerBlock : Block(d, v)[r] = d[o + r]
        BY <2>2, FullBlock
    <2>4. PICK x : x = Block(d, v) OBVIOUS
    <2>5. IsSeq(x) /\ Len(h) = Len(x) /\ \A r \in 1 .. Len(h) : h[r] = x[r]
        BY <1>1, <1>14, <2>1, <2>3, <2>4
    <2>6. h = x BY <1>14, <2>5, SameSeq
    <2> QED BY <2>1, <2>4, <2>6
<1>16. HashAt(t, q, c, i) = h
    BY <1>2, <1>3, <1>9, <1>13 DEF HashAt, Way
<1>17. PICK r \in 1 .. b : r = (w % b) + 1 /\ o + r = w + 1
    <2>1. w % b \in 0 .. b - 1 /\ w = (w \div b) * b + (w % b)
        BY QuotientIs
    <2>2. PICK x \in 0 .. b - 1 : x = w % b BY <2>1
    <2>3. w = o + x BY <1>5, <1>6, <2>1, <2>2
    <2>4. x + 1 \in 1 .. b /\ x + 1 = (w % b) + 1 /\ o + (x + 1) = w + 1
        BY <2>2, <2>3
    <2> QED BY <2>4
<1>18. EntryAt(t, q, c, i) = h[r]
    <2>1. ((c \div Power(i)) % PerBlock) + 1 = r
        BY <1>1, <1>4, <1>17 DEF Way
    <2>2. r <= Len(h) BY <1>14
    <2>3. EntryAt(t, q, c, i) = IF r <= Len(h) THEN h[r] ELSE Nul
        BY <1>16, <2>1, Zenon DEF EntryAt
    <2> QED BY <2>2, <2>3
<1>19. h[r] = f[k][w + 1] BY <1>14, <1>17
<1>20. f[k][w + 1] = Digest(Padded(Block(f[i], w)))
    <2>1. PICK d : d = f[i] OBVIOUS
    <2>2. IsSeq(d) /\ w + 1 \in 1 .. Ceiling(Len(d), PerBlock)
        BY <1>6, <1>7, <2>1
    <2>3. \A j \in 1 .. Ceiling(Len(d), PerBlock) : LevelOutput(d)[j] = Digest(Padded(Block(d, j - 1)))
        BY <2>2, OutputIs
    <2>4. PICK e : e = w + 1 /\ e - 1 = w OBVIOUS
    <2>5. LevelOutput(d)[e] = Digest(Padded(Block(d, e - 1)))
        BY <2>2, <2>3, <2>4
    <2> QED BY <1>7, <2>1, <2>4, <2>5
<1> QED BY <1>2, <1>3, <1>4, <1>15, <1>16, <1>18, <1>19, <1>20

\* dm-verity accepts every whole block of the data.
LEMMA VerityHolds ==
    ASSUME NEW data, IsSeq(data), NEW c \in Nat, NEW at \in Nat, at = c * PerBlock, at + PerBlock <= Len(data)
    PROVE  VerityAccepts(data, GenerateTree(data), RootDigest(data), c)
<1>1. PICK s : s = LevelSizes(Len(data)) OBVIOUS
<1>2. PICK f : f = Levels(data) OBVIOUS
<1>3. PICK q : q = Ceiling(Len(data), PerBlock) OBVIOUS
<1>4. PICK t : t = GenerateTree(data) OBVIOUS
<1>5. Tower(data, s, f) BY <1>1, <1>2, LevelsIs
<1>6. PICK m \in Nat : m = Len(s) BY <1>5 DEF Tower
<1>7. Passes(f, s, q, c) BY <1>1, <1>2, <1>3, WayIs
<1>8. VerityLevels(q) = m
    <2>1. PICK n \in Nat : n = Len(data) BY LenNat
    <2>2. n \in Nat /\ s = LevelSizes(n) /\ q = Ceiling(n, PerBlock)
        BY <1>1, <1>3, <2>1
    <2>3. VerityLevels(q) = Len(s) BY <2>2, HeightIs
    <2> QED BY <1>6, <2>3
<1>9. ASSUME NEW i \in 0 .. m - 1
      PROVE  /\ HashAt(t, q, c, i) = Block(f[i + 1], Way(c, i + 1))
             /\ EntryAt(t, q, c, i) = Digest(Padded(Block(f[i], Way(c, i))))
    BY <1>1, <1>2, <1>3, <1>4, <1>6, <1>7, HashIs
<1> DEFINE below(i) == IF i = 0 THEN Block(data, c) ELSE HashAt(t, q, c, i - 1)
<1>10. ASSUME NEW i \in 0 .. m PROVE below(i) = Block(f[i], Way(c, i))
    <2>1. CASE i = 0
        <3>1. f[0] = data /\ Way(c, 0) = c
            BY <1>5, <1>7 DEF Tower, Passes
        <3> QED BY <2>1, <3>1
    <2>2. CASE i # 0
        <3>1. PICK j \in 0 .. m - 1 : j = i - 1 /\ j + 1 = i
            <4>1. i - 1 \in 0 .. m - 1 /\ (i - 1) + 1 = i
                BY <2>2
            <4> QED BY <4>1
        <3>2. HashAt(t, q, c, j) = Block(f[j + 1], Way(c, j + 1))
            BY <1>9
        <3> QED BY <2>2, <3>1, <3>2
    <2> QED BY <2>1, <2>2
<1>11. \A i \in 0 .. m - 1 : EntryAt(t, q, c, i) = Digest(Padded(below(i)))
    <2> SUFFICES ASSUME NEW i \in 0 .. m - 1 PROVE EntryAt(t, q, c, i) = Digest(Padded(below(i)))
        OBVIOUS
    <2>1. i \in 0 .. m OBVIOUS
    <2>2. below(i) = Block(f[i], Way(c, i))
        BY <1>10, <2>1
    <2> HIDE DEF below
    <2> QED BY <1>9, <2>2
<1>12. RootDigest(data) = Digest(Padded(below(m)))
    <2>1. PICK d : d = f[m] OBVIOUS
    <2>2. IsSeq(d) /\ Len(d) = PerBlock /\ Way(c, m) = 0
        <3>1. m \in 0 .. Len(s) BY <1>6
        <3> QED BY <1>5, <1>6, <1>7, <2>1, <3>1 DEF Tower, Passes
    <2>3. PICK o \in Nat : o = 0 OBVIOUS
    <2>3a. PICK g \in Nat : g = 0 OBVIOUS
    <2>4. IsSeq(d) /\ o \in Nat /\ g \in Nat /\ g = o * PerBlock /\ g + PerBlock <= Len(d)
        BY <2>2, <2>3, <2>3a, SizesOK
    <2>5. IsSeq(Block(d, o)) /\ Len(Block(d, o)) = PerBlock /\ \A r \in 1 .. PerBlock : Block(d, o)[r] = d[g + r]
        BY <2>4, FullBlock
    <2>6. PICK x : x = Block(d, o) OBVIOUS
    <2>7. IsSeq(x) /\ Len(x) = PerBlock /\ Len(x) = Len(d) /\ \A r \in 1 .. Len(x) : x[r] = d[r]
        <3>1. \A r \in 1 .. PerBlock : g + r = r
            BY <2>3a, SizesOK
        <3> QED BY <2>2, <2>5, <2>6, <3>1
    <2>8. x = d BY <2>2, <2>7, SameSeq
    <2>9. Padded(d) = d BY <2>2, NoPadding
    <2>10. below(m) = Block(f[m], Way(c, m))
        <3>1. m \in 0 .. m OBVIOUS
        <3> QED BY <1>10, <3>1
    <2>11. below(m) = d
        <3> HIDE DEF below
        <3> QED BY <2>1, <2>2, <2>3, <2>6, <2>8, <2>10
    <2>12. RootDigest(data) = Digest(d)
        BY <1>1, <1>2, <1>6, <2>1 DEF RootDigest
    <2> HIDE DEF below
    <2> QED BY <2>9, <2>11, <2>12
<1>13. VerityAccepts(data, t, RootDigest(data), c) <=>
          /\ \A i \in 0 .. m - 1 : EntryAt(t, q, c, i) = Digest(Padded(below(i)))
          /\ RootDigest(data) = Digest(Padded(below(m)))
    BY <1>3, <1>8, Zenon DEF VerityAccepts, EntryAt, HashAt
<1> HIDE DEF below
<1> QED BY <1>4, <1>11, <1>12, <1>13

\* verify_image has compared the tree and the root digest.
LEMMA TreesRead == ASSUME Known, JobKnown PROVE KernelReads
<1> SUFFICES ASSUME job.result = "ok", ~ job.args.accept_zeroed, NEW p \in Looked(job.args)
             PROVE  LET trees == OfType(ParseImage(files[p]), "hashtree")
                    IN  \A k \in DOMAIN trees : trees[k].root_digest # << >> =>
                          LET d    == trees[k]
                              data == Slice(files[d.name], 0, d.image_size)
                              tree == Slice(files[d.name], d.tree_offset, d.tree_size)
                          IN  \A b \in 0 .. (Len(data) \div PerBlock) - 1 :
                                VerityAccepts(data, tree, d.root_digest[1], b)
    BY Zenon DEF KernelReads
<1>1. Watched(job.image, job.args, << >>)
    BY DEF JobKnown
<1>2. PICK a : a = job.args OBVIOUS
<1>2a. a.accept_zeroed = FALSE
    <2>1. a \in Verifies BY <1>1, <1>2 DEF Watched
    <2>2. a.accept_zeroed \in BOOLEAN
        BY <2>1, AvbImagesAssumption
    <2> QED BY <1>2, <2>2
<1>3. p \in ToSet(Names) /\ Parses(files[p]) /\ \E top : Seen(p, top, << >>, a)
    BY <1>1, <1>2, LookedSeen DEF Checked
<1>4. PICK ds : ds = ParseImage(files[p]) OBVIOUS
<1>5. IsSeq(ds) /\ \A d : Has(ds, d) => Plain(d)
    BY <1>3, <1>4, ShownPlain
<1>6. PICK trees : trees = OfType(ds, "hashtree") OBVIOUS
<1>7. IsSeq(trees) /\ \A d : Has(trees, d) => Has(ds, d) /\ d.type = "hashtree"
    <2>1. trees = OfTypes(ds, {"hashtree"})
        BY <1>6 DEF OfType
    <2> QED BY <1>5, <2>1, OfTypesIs
<1>8. ASSUME NEW k \in DOMAIN trees, trees[k].root_digest # << >>
      PROVE  LET d    == trees[k]
                 data == Slice(files[d.name], 0, d.image_size)
                 tree == Slice(files[d.name], d.tree_offset, d.tree_size)
             IN  \A b \in 0 .. (Len(data) \div PerBlock) - 1 : VerityAccepts(data, tree, d.root_digest[1], b)
    <2>1. PICK d : d = trees[k] OBVIOUS
    <2>2. Has(ds, d) /\ d.type = "hashtree"
        <3>1. Has(trees, d)
            BY <1>7, <1>8, <2>1, SeqDomain DEF Has
        <3> QED BY <1>7, <3>1
    <2>3. Holds(d, a) /\ d.name \in ToSet(Names) /\ d.image_size \in Nat
        <3>1. Holds(d, a)
            BY <1>3, <1>4, <2>2, NilIs DEF Seen
        <3>2. Plain(d) BY <1>5, <2>2
        <3> QED BY <2>2, <3>1, <3>2 DEF Plain, NamedTypes
    <2>4. PICK data : data = Slice(files[d.name], 0, d.image_size) OBVIOUS
    <2>5. PICK tree : tree = Slice(files[d.name], d.tree_offset, d.tree_size) OBVIOUS
    <2>6. IsSeq(data)
        <3>1. PICK f : f = files[d.name] OBVIOUS
        <3>2. PICK n \in Nat : n = d.image_size BY <2>3
        <3>3. PICK z \in Nat : z = 0 OBVIOUS
        <3>4. IsSeq(f) /\ z \in Nat /\ n \in Nat
            BY <2>3, <3>1, CellsTyped
        <3> HIDE DEF Known
        <3>5. IsSeq(Slice(f, z, n)) BY <3>4, SliceSeq
        <3> QED BY <2>4, <3>1, <3>2, <3>3, <3>5
    <2>7. d.root_digest[1] = RootDigest(data) /\ tree = GenerateTree(data)
        <3>1. d.root_digest = <<RootDigest(data)>> /\ tree = GenerateTree(data)
            BY <1>2a, <1>8, <2>1, <2>2, <2>3, <2>4, <2>5 DEF Holds
        <3>2. <<RootDigest(data)>>[1] = RootDigest(data)
            BY OneSeq
        <3> QED BY <3>1, <3>2
    <2>8. ASSUME NEW b \in 0 .. (Len(data) \div PerBlock) - 1 PROVE VerityAccepts(data, tree, d.root_digest[1], b)
        <3>1. PICK c \in Nat : c = b OBVIOUS
        <3>2. PICK e \in Nat \ {0} : e = PerBlock
            BY SizesOK
        <3>3. PICK n \in Nat : n = Len(data)
            BY <2>6, LenNat
        <3>4. n \div e \in Nat /\ (n \div e) * e <= n
            BY QuotientIs
        <3>5. PICK x \in Nat : x = n \div e /\ c < x
            BY <3>1, <3>2, <3>3, <3>4
        <3>6. c * e + e <= x * e /\ c * e \in Nat /\ x * e \in Nat
            BY <3>5, BlockFits
        <3>7. PICK at \in Nat : at = c * e BY <3>6
        <3>8. IsSeq(data) /\ c \in Nat /\ at \in Nat /\ at = c * PerBlock /\ at + PerBlock <= Len(data)
            BY <2>6, <3>2, <3>3, <3>4, <3>5, <3>6, <3>7
        <3> HIDE DEF Known, JobKnown
        <3>9. VerityAccepts(data, GenerateTree(data), RootDigest(data), c)
            BY <3>8, VerityHolds
        <3> QED BY <2>7, <3>1, <3>9
    <2> QED BY <2>1, <2>4, <2>5, <2>8
<1> QED BY <1>4, <1>6, <1>8

\* The version that a struct requires is enough for what it says.
LEMMA VersionIsEnough == ASSUME Known PROVE VersionSuffices
<1> SUFFICES ASSUME NEW p \in ToSet(Names) \ hurt, IsMade(p), NEW k \in DOMAIN ParseImage(files[p])
             PROVE  Needs(ParseImage(files[p])[k]) <= HeaderOf(files[p]).minor
    BY DEF VersionSuffices
<1>1. PICK g : Left(p, g, made[p]) /\ files[p] = g
    BY DEF Known, FilesKnown
<1>2. PICK m : m = made[p] OBVIOUS
<1>3. ParseImage(g) = Ds(m) /\ Enough(Ds(m), HeaderOf(g).minor) /\ IsSeq(Ds(m))
    <2>1. Left(p, g, m) /\ m.blob # << >>
        BY <1>1, <1>2 DEF IsMade
    <2>2. IsSeq(Ds(m)) BY <2>1 DEF Left, Sound, Knows
    <2> QED BY <2>1, <2>2, LeftFound
<1>4. PICK ds : ds = Ds(m) OBVIOUS
<1>5. Has(ds, ds[k])
    BY <1>1, <1>3, <1>4, SeqDomain DEF Has
<1> QED BY <1>1, <1>3, <1>4, <1>5 DEF Enough

\* The device can use what the tool has made and accepted: dm-verity, which finds the
\* digests by a reckoning of its own, accepts every whole block of a partition that
\* verify_image has accepted with its tree, whatever the number of levels, and a
\* struct never says what the version in its header does not allow.
THEOREM DeviceUses == Spec => []DeviceUnderstands
<1>1. ASSUME ImagesKnown PROVE DeviceUnderstands
    BY <1>1, TreesRead, VersionIsEnough DEF ImagesKnown, DeviceUnderstands
<1> QED BY <1>1, Invariance, PTL

--------------------------------------------------
(* What has not been changed is accepted. *)

\* What is signed of a struct is its header and its auxiliary block.
LEMMA SignedIs ==
    ASSUME NEW a, Args(a), NEW ds, IsSeq(ds), NEW minor,
           NEW h, h = HeadOf(a, ds, minor), NEW b, b = Struct(a, ds, minor)
    PROVE  SignedPart(h, b) = SignedOf(a, ds, minor)
<1>1. /\ IsSeq(b) /\ Len(b) = 1 + h.auth + h.aux /\ Len(b) \in Nat
      /\ b[1] = HeadCell(a, ds, minor)
      /\ Placed(b, 1 + h.auth, AuxBlock(a, ds)) /\ Len(AuxBlock(a, ds)) = h.aux
    BY StructIs
<1>2. h.auth \in Nat /\ h.aux \in Nat BY HeadIs
<1>3. PICK x : x = AuxBlock(a, ds) OBVIOUS
<1>4. PICK n \in Nat : n = 1 + h.auth BY <1>2
<1>5. IsSeq(x) /\ Placed(b, n, x) /\ Len(x) = h.aux
    BY <1>1, <1>3, <1>4, AuxIs
<1>6. Slice(b, n, Len(x)) = x BY <1>1, <1>5, SlicePlaced
<1>7. PICK t : t = <<HeadCell(a, ds, minor)>> OBVIOUS
<1>8. IsSeq(t) /\ Len(t) = 1 /\ t[1] = HeadCell(a, ds, minor)
    BY <1>7, OneSeq
<1>9. 0 + 1 <= Len(b) BY <1>1, <1>2
<1>10. Placed(b, 0, t) BY <1>1, <1>8, <1>9 DEF Placed
<1>11. Slice(b, 0, Len(t)) = t
    BY <1>1, <1>8, <1>10, SlicePlaced
<1>12. Slice(b, 0, 1) = t /\ Slice(b, 1 + h.auth, h.aux) = x
    BY <1>4, <1>5, <1>6, <1>8, <1>11
<1> QED BY <1>3, <1>7, <1>12, Zenon DEF SignedPart, SignedOf

\* The public key of a struct is that of the command line, and its hash and its
\* signature are those of what is signed.
LEMMA StructChecked ==
    ASSUME NEW a, Args(a), NEW ds, IsSeq(ds), NEW minor,
           NEW h, h = HeadOf(a, ds, minor), NEW b, b = Struct(a, ds, minor)
    PROVE  /\ verify_vbmeta_signature(h, b)
           /\ a.alg # "NONE" => PublicKey(h, b) = KeyCells(a.key)
<1>1. /\ IsSeq(b) /\ Len(b) \in Nat
      /\ Placed(b, 1, AuthBlock(a, SignedOf(a, ds, minor)))
      /\ Placed(b, 1 + h.auth, AuxBlock(a, ds))
    BY StructIs
<1>2. /\ h.alg = a.alg /\ h.hash_offset = 0 /\ h.hash_size = Alg(a).hash
      /\ h.sig_offset = Alg(a).hash /\ h.sig_size = Alg(a).sig
      /\ h.key_offset = Len(EncodeAll(ds)) /\ h.key_size = Alg(a).key
      /\ h.auth \in Nat
    BY HeadIs
<1>3. CASE a.alg = "NONE"
    <2>1. ALGORITHMS[h.alg].hash = 0
        BY <1>2, <1>3 DEF ALGORITHMS
    <2> QED BY <1>3, <2>1 DEF verify_vbmeta_signature
<1>4. CASE a.alg # "NONE"
    <2>1. /\ Alg(a).hash = 1 /\ Alg(a).sig \in Nat /\ Alg(a).key \in Nat /\ Alg(a).key > 0
          /\ a.key \in DOMAIN KeySize
        BY <1>4, AlgIs
    <2>2. PICK s : s = SignedOf(a, ds, minor) OBVIOUS
    <2>3. PICK y : y = AuthBlock(a, s) OBVIOUS
    <2>4. PICK n \in Nat : n = Alg(a).sig BY <2>1
    <2>5. /\ IsSeq(y) /\ 1 + n <= Len(y) /\ y[1] = Digest(s)
          /\ \A i \in 1 .. n : y[1 + i] = SigCell(a.key, Digest(s), i)
        BY <1>4, <2>3, <2>4, AuthIs
    <2>6. Placed(b, 1, y) BY <1>1, <2>2, <2>3
    <2>7. PICK t : t = <<Digest(s)>> OBVIOUS
    <2>8. IsSeq(t) /\ Len(t) = 1 /\ t[1] = Digest(s) /\ Len(y) \in Nat
        BY <2>5, <2>7, OneSeq, LenNat
    <2>9. Placed(y, 0, t) BY <2>5, <2>8 DEF Placed
    <2>10. Placed(b, 1 + 0, t)
        BY <1>1, <2>5, <2>6, <2>8, <2>9, PlacedIn
    <2>11. Slice(b, 1 + 0, Len(t)) = t
        <3>1. 1 + 0 \in Nat OBVIOUS
        <3> QED BY <1>1, <2>8, <2>10, <3>1, SlicePlaced
    <2>12. PICK z : z = SigCells(a.key, Digest(s), n) OBVIOUS
    <2>13. IsSeq(z) /\ Len(z) = n /\ \A i \in 1 .. n : z[i] = SigCell(a.key, Digest(s), i)
        BY <2>12, SigCellsIs
    <2>14. Placed(y, 1, z) BY <2>5, <2>13 DEF Placed
    <2>15. Placed(b, 1 + 1, z)
        BY <1>1, <2>5, <2>6, <2>13, <2>14, PlacedIn
    <2>16. Slice(b, 1 + 1, Len(z)) = z
        <3>1. 1 + 1 \in Nat OBVIOUS
        <3> QED BY <1>1, <2>13, <2>15, <3>1, SlicePlaced
    <2>17. PICK x : x = AuxBlock(a, ds) OBVIOUS
    <2>18. PICK k : k = KeyPart(a) OBVIOUS
    <2>19. PICK e \in Nat : e = Len(EncodeAll(ds))
        BY AuxIs
    <2>20. IsSeq(x) /\ Placed(x, e, k) /\ IsSeq(k) /\ Len(k) = Alg(a).key
        BY <2>17, <2>18, <2>19, AuxIs
    <2>21. PICK u \in Nat : u = 1 + h.auth BY <1>2
    <2>22. Placed(b, u + e, k)
        BY <1>1, <2>17, <2>20, <2>21, PlacedIn
    <2>23. Slice(b, u + e, Len(k)) = k
        <3>1. u + e \in Nat OBVIOUS
        <3> QED BY <1>1, <2>20, <2>22, <3>1, SlicePlaced
    <2>24. k = KeyCells(a.key)
        BY <2>1, <2>18 DEF KeyPart
    <2>25. PublicKey(h, b) = KeyCells(a.key)
        BY <1>2, <2>19, <2>20, <2>21, <2>23, <2>24 DEF PublicKey
    <2>26. SignedPart(h, b) = s BY <2>2, SignedIs
    <2>27. Slice(b, 1 + h.hash_offset, h.hash_size) = <<Digest(s)>>
        BY <1>2, <2>1, <2>7, <2>8, <2>11
    <2>28. Slice(b, 1 + h.sig_offset, h.sig_size) = SigCells(a.key, Digest(s), h.sig_size)
        BY <1>2, <2>1, <2>4, <2>12, <2>13, <2>16
    <2>29. verify_vbmeta_signature(h, b)
        BY <2>1, <2>25, <2>26, <2>27, <2>28, Zenon DEF verify_vbmeta_signature
    <2> QED BY <2>25, <2>29
<1> QED BY <1>3, <1>4

\* An image that no copy error has met is accepted as far as its descriptors.
LEMMA LeftChecked ==
    ASSUME NEW p, NEW g, NEW m, Left(p, g, m), m.blob # << >>, NEW key, key = None \/ key = m.key
    PROVE  Checked(g, key)
<1>1. IsSeq(g) /\ Sound(m) BY DEF Left
<1>2. PICK ds : ds = Ds(m) OBVIOUS
<1>3. PICK b : b = m.blob OBVIOUS
<1>4. PICK a, minor : Args(a) /\ b = Struct(a, ds, minor) /\ m.key = IF a.alg = "NONE" THEN None ELSE a.key
    BY <1>1, <1>2, <1>3 DEF Sound
<1>5. IsSeq(ds) BY <1>1, <1>2 DEF Sound, Knows
<1>6. PICK at : Spot(g, m, at) BY SpotIs
<1>7. at \in Nat /\ VbmetaOffset(g) = at /\ Placed(g, at, Struct(a, ds, minor))
    BY <1>3, <1>4, <1>6 DEF Spot
<1>8. /\ HeaderOf(g) = HeadOf(a, ds, minor)
      /\ VbmetaBlob(g) = Struct(a, ds, minor) /\ Parses(g)
    BY <1>1, <1>4, <1>5, <1>7, StructFound
<1>9. PICK h : h = HeadOf(a, ds, minor) OBVIOUS
<1>10. /\ verify_vbmeta_signature(h, b)
       /\ a.alg # "NONE" => PublicKey(h, b) = KeyCells(a.key)
    BY <1>4, <1>5, <1>9, StructChecked
<1>11. verify_vbmeta_signature(HeaderOf(g), VbmetaBlob(g))
    BY <1>4, <1>8, <1>9, <1>10
<1>12. KeyAgrees(g, key)
    BY <1>4, <1>8, <1>9, <1>10 DEF KeyAgrees
<1> QED BY <1>8, <1>11, <1>12 DEF Checked

--------------------------------------------------
\* A hash or hashtree descriptor that verify accepts.
Agrees(d, a) == /\ d.type = "hash" => HashMatches(d, files[d.name])
                /\ d.type = "hashtree" => TreeMatches(d, files[d.name], a.accept_zeroed)

\* An image to which nothing has happened is accepted as far as its descriptors,
\* which are those that its command has put into it.
LEMMA FreshIs ==
    ASSUME Known, NEW q \in ToSet(Names), NEW a, Fresh(q, a)
    PROVE  /\ Checked(files[q], a.key) /\ ParseImage(files[q]) = Ds(made[q]) /\ Parses(files[q])
           /\ Sound(made[q])
<1>1. q \notin hurt /\ made[q].blob # << >> /\ (a.key # None => made[q].key = a.key)
    BY DEF Fresh, IsMade
<1>2. PICK m : m = made[q] OBVIOUS
<1>3. PICK g : Left(q, g, m) /\ g = files[q]
    BY <1>1, <1>2 DEF Known, FilesKnown
<1>4. PICK key : key = a.key OBVIOUS
<1>5. m.blob # << >> /\ (key = None \/ key = m.key)
    BY <1>1, <1>2, <1>4
<1>6. Checked(g, key) BY <1>3, <1>5, LeftChecked
<1>7. Parses(g) /\ ParseImage(g) = Ds(m)
    BY <1>3, <1>5, LeftFound
<1>8. Sound(m) BY <1>3, <1>5 DEF Left
<1> QED BY <1>2, <1>3, <1>4, <1>6, <1>7, <1>8

\* What a descriptor says of an image that still holds what the descriptor was made of.
LEMMA HeldPasses ==
    ASSUME NEW g, IsSeq(g), NEW m, HoldsCovers(g, m), NEW c, c \in m.covers, NEW d, Describes(d, c),
           NEW accept \in BOOLEAN, accept = TRUE \/ (c.tree = TRUE /\ m.zeroed = FALSE)
    PROVE  /\ d.type = "hash" => HashMatches(d, g)
           /\ d.type = "hashtree" => TreeMatches(d, g, accept)
<1>1. PICK x : x = c.data OBVIOUS
<1>2. /\ IsSeq(x) /\ d.image_size = Len(x) /\ d.type = TypeOf(c) /\ c.pinned \in BOOLEAN /\ c.tree \in BOOLEAN
      /\ c.type \in {"add_hash", "add_hashtree"} /\ m.zeroed \in BOOLEAN /\ Placed(g, 0, x)
      /\ c.type = "add_hashtree" /\ c.tree = TRUE => HoldsTree(g, c, m.zeroed)
    BY <1>1 DEF Describes, HoldsCovers
<1>3. Slice(g, 0, d.image_size) = x
    <2>1. 0 \in Nat OBVIOUS
    <2> QED BY <1>2, <2>1, SlicePlaced
<1>4. ASSUME d.type = "hash" PROVE HashMatches(d, g)
    <2>1. SaysDigest(d.digest, c, Digest(x))
        BY <1>1, <1>4 DEF Describes
    <2>2. d.digest # << >> => d.digest = <<Digest(x)>>
        BY <1>2, <2>1 DEF SaysDigest
    <2> QED BY <1>3, <2>2 DEF HashMatches
<1>5. ASSUME d.type = "hashtree" PROVE TreeMatches(d, g, accept)
    <2>1. SaysDigest(d.root_digest, c, RootDigest(x)) /\ SaysTree(d, c)
        BY <1>1, <1>5 DEF Describes
    <2>2. d.root_digest # << >> => d.root_digest = <<RootDigest(x)>>
        BY <1>2, <2>1 DEF SaysDigest
    <2>3. PICK t : t = GenerateTree(x) OBVIOUS
    <2>4. PICK size \in Nat : size = TreeSize(Len(x)) /\ size = Len(t) /\ IsSeq(t)
        BY <1>2, <2>3, TreeIs
    <2>5. PICK n \in Nat : n = Len(x) BY <1>2, LenNat
    <2>6. /\ d.tree_offset = n /\ (c.tree = TRUE => d.tree_size = size) /\ (c.tree = FALSE => d.tree_size = 0)
        BY <1>1, <2>1, <2>4, <2>5 DEF SaysTree
    <2>7. c.type = "add_hashtree"
        BY <1>2, <1>5 DEF TypeOf
    <2>8. PICK ondisk : ondisk = Slice(g, d.tree_offset, d.tree_size) OBVIOUS
    <2>9. ASSUME c.tree = TRUE, m.zeroed = FALSE PROVE ondisk = t
        <3>1. Placed(g, n, t)
            BY <1>1, <1>2, <2>3, <2>5, <2>7, <2>9 DEF HoldsTree
        <3>2. Slice(g, n, Len(t)) = t
            BY <2>4, <3>1, SlicePlaced
        <3> QED BY <2>4, <2>6, <2>8, <2>9, <3>2
    <2>10. ASSUME ~ (c.tree = TRUE /\ m.zeroed = FALSE)
           PROVE  accept = TRUE /\ (d.tree_size = 0 \/ (ondisk # << >> /\ ondisk[1].kind = "zeroed"))
        <3>1. CASE c.tree = FALSE BY <2>6, <2>10, <3>1
        <3>2. CASE c.tree = TRUE /\ size = 0
            BY <2>6, <2>10, <3>2
        <3>3. CASE c.tree = TRUE /\ size # 0
            <4>1. m.zeroed = TRUE BY <1>2, <2>10, <3>3
            <4>2. n < Len(g) /\ g[n + 1].kind = "zeroed"
                BY <1>1, <1>2, <2>4, <2>5, <2>7, <3>3, <4>1 DEF HoldsTree
            <4>3. /\ IsSeq(Slice(g, n, size)) /\ Len(Slice(g, n, size)) = SliceLen(g, n, size)
                  /\ Len(g) \in Nat /\ \A k \in 1 .. SliceLen(g, n, size) : Slice(g, n, size)[k] = g[n + k]
                BY SliceSeq
            <4>4. SliceLen(g, n, size) \in Nat /\ 1 <= SliceLen(g, n, size)
                BY <3>3, <4>2, <4>3 DEF SliceLen
            <4>5. ondisk = Slice(g, n, size)
                BY <2>6, <2>8, <3>3
            <4>6. IsSeq(ondisk) /\ Len(ondisk) # 0 /\ ondisk[1] = g[n + 1]
                <5>1. 1 \in 1 .. SliceLen(g, n, size)
                    BY <4>4
                <5> QED BY <4>3, <4>4, <4>5, <5>1
            <4>7. ondisk # << >> BY <4>6, LenNat
            <4> QED BY <2>10, <4>2, <4>6, <4>7
        <3> QED BY <1>2, <3>1, <3>2, <3>3
    <2>11. (accept = TRUE /\ (d.tree_size = 0 \/ (ondisk # << >> /\ ondisk[1].kind = "zeroed"))) \/ ondisk = t
        BY <2>9, <2>10
    <2> QED BY <1>3, <2>2, <2>3, <2>8, <2>11 DEF TreeMatches
<1> QED BY <1>4, <1>5

\* An image that still holds what was made of it meets the descriptors of it that an
\* image has, to which nothing has happened either.
LEMMA FreshPasses ==
    ASSUME Known, NEW q \in ToSet(Names), NEW a, a.accept_zeroed \in BOOLEAN, Fresh(q, a),
           NEW d, Has(Ds(made[q]), d), d.type \in {"hash", "hashtree"}
    PROVE  Agrees(d, a)
<1>1. Knows(Ds(made[q]), made[q].covers, made[q].chains)
    BY FreshIs DEF Sound
<1>2. PICK c \in made[q].covers : Describes(d, c)
    BY <1>1 DEF Knows
<1>3. c.name \in ToSet(Names) /\ c.name \in DOMAIN Sizes
    BY <1>1 DEF Knows
<1>4. /\ c.name \notin hurt /\ made[c.name].blob # << >> /\ c \in made[c.name].covers
      /\ a.accept_zeroed \/ (c.tree /\ ~ made[c.name].zeroed)
    BY DEF Fresh, IsMade
<1>5. PICK n : n = c.name OBVIOUS
<1>6. PICK m : m = made[n] OBVIOUS
<1>7. PICK g : Left(n, g, m) /\ g = files[n]
    BY <1>3, <1>4, <1>5, <1>6 DEF Known, FilesKnown
<1>8. IsSeq(g) /\ HoldsCovers(g, m)
    BY <1>3, <1>4, <1>5, <1>6, <1>7 DEF Left
<1>9. PICK accept \in BOOLEAN : accept = a.accept_zeroed OBVIOUS
<1>10. c.tree \in BOOLEAN /\ m.zeroed \in BOOLEAN /\ d.name = n
    BY <1>2, <1>5, <1>8 DEF Describes, HoldsCovers
<1>11. accept = TRUE \/ (c.tree = TRUE /\ m.zeroed = FALSE)
    BY <1>4, <1>5, <1>6, <1>9, <1>10
<1>12. c \in m.covers BY <1>4, <1>5, <1>6
<1>13. /\ d.type = "hash" => HashMatches(d, g)
       /\ d.type = "hashtree" => TreeMatches(d, g, accept)
    BY <1>2, <1>8, <1>11, <1>12, HeldPasses
<1> QED BY <1>7, <1>9, <1>10, <1>13 DEF Agrees

--------------------------------------------------

\* The image itself, and those it chains.
LEMMA HopefulIs ==
    ASSUME Known, NEW a \in Verifies, Hopeful(a)
    PROVE  /\ a.image \in ToSet(Names) /\ Fresh(a.image, a)
           /\ a.follow \in BOOLEAN /\ a.accept_zeroed \in BOOLEAN
           /\ \A c \in made[a.image].chains :
                /\ c.name \in ToSet(Names) /\ Expected(c, a)
                /\ a.follow = TRUE => Fresh(c.name, a) /\ made[c.name].chains = {}
<1>1. a.image \in ToSet(Names) /\ a.follow \in BOOLEAN /\ a.accept_zeroed \in BOOLEAN
    BY AvbImagesAssumption
<1>2. Fresh(a.image, a) BY DEF Hopeful, Looked
<1>3. Sound(made[a.image]) BY <1>1, <1>2, FreshIs
<1>4. Believed(a.image) BY <1>2 DEF Fresh, Believed
<1>5. ASSUME NEW c \in made[a.image].chains
      PROVE  /\ c.name \in ToSet(Names) /\ Expected(c, a)
             /\ a.follow = TRUE => Fresh(c.name, a) /\ made[c.name].chains = {}
    <2>1. c.name \in ToSet(Names)
        BY <1>3 DEF Sound, Knows
    <2>2. a.follow = TRUE => c.name \in Looked(a)
        BY <1>4 DEF Looked
    <2> QED BY <2>1, <2>2 DEF Hopeful
<1> QED BY <1>1, <1>2, <1>5

\* A hash or hashtree descriptor that is meant.
LEMMA MeantAgrees ==
    ASSUME Known, NEW a \in Verifies, Hopeful(a), NEW d, NEW top \in BOOLEAN, Meant(Item(d, top), a),
           d.type \in {"hash", "hashtree"}
    PROVE  Agrees(d, a)
<1>1. Item(d, top).d = d /\ Item(d, top).top = top
    BY ItemIs
<1>2. CASE top = TRUE
    <2>1. PICK n : n = a.image OBVIOUS
    <2>2. Has(Ds(made[n]), d)
        BY <1>1, <1>2, <2>1 DEF Meant
    <2>3. n \in ToSet(Names) /\ Fresh(n, a) /\ a.accept_zeroed \in BOOLEAN
        BY <2>1, HopefulIs
    <2> QED BY <2>2, <2>3, FreshPasses
<1>3. CASE top = FALSE
    <2>1. PICK c \in made[a.image].chains : Has(Ds(made[c.name]), d) /\ a.follow = TRUE
        BY <1>1, <1>3 DEF Meant
    <2>2. PICK n : n = c.name OBVIOUS
    <2>3. n \in ToSet(Names) /\ Fresh(n, a) /\ Has(Ds(made[n]), d) /\ a.accept_zeroed \in BOOLEAN
        BY <2>1, <2>2, HopefulIs
    <2> QED BY <2>3, FreshPasses
<1> QED BY <1>2, <1>3

\* A chain that is meant is one of the image itself, and expected.
LEMMA MeantChain ==
    ASSUME Known, NEW a \in Verifies, Hopeful(a), NEW d, NEW top \in BOOLEAN, Meant(Item(d, top), a),
           d.type = "chain"
    PROVE  top = TRUE /\ \E c \in made[a.image].chains : Links(d, c)
<1>1. Item(d, top).d = d /\ Item(d, top).top = top
    BY ItemIs
<1>2. CASE top = TRUE
    <2>1. Has(Ds(made[a.image]), d)
        BY <1>1, <1>2 DEF Meant
    <2>2. Knows(Ds(made[a.image]), made[a.image].covers, made[a.image].chains)
        BY HopefulIs, FreshIs DEF Sound
    <2> QED BY <1>2, <2>1, <2>2 DEF Knows
<1>3. CASE top = FALSE
    <2>1. PICK c \in made[a.image].chains : Has(Ds(made[c.name]), d) /\ a.follow = TRUE
        BY <1>1, <1>3 DEF Meant
    <2>2. PICK n : n = c.name OBVIOUS
    <2>3. n \in ToSet(Names) /\ Fresh(n, a) /\ Has(Ds(made[n]), d) /\ made[n].chains = {}
        BY <2>1, <2>2, HopefulIs
    <2>4. Knows(Ds(made[n]), made[n].covers, made[n].chains)
        BY <2>3, FreshIs DEF Sound
    <2>5. \E e \in made[n].chains : Links(d, e)
        BY <2>3, <2>4 DEF Knows
    <2> QED BY <2>3, <2>5
<1> QED BY <1>2, <1>3

\* What is hoped for does not depend on how far the verification is.
LEMMA HopefulStays ==
    ASSUME made' = made, hurt' = hurt, NEW a
    PROVE  /\ Hopeful(a)' <=> Hopeful(a)
           /\ \A t : AllMeant(t, a)' <=> AllMeant(t, a)
BY DEF Hopeful, Looked, Fresh, Expected, IsMade, Believed, Signed, AllMeant, Meant, Ds

\* The next descriptors.
LEMMA MeantContinues ==
    ASSUME JobKnown, Reads, NEW t, Hopeful(job.args) => AllMeant(t, job.args), Proceed(t), job.result = "running"
    PROVE  JobMeant'
<1>1. PICK i, a, s, l, r : /\ job = [image |-> i, args |-> a, todo |-> s, left |-> l, result |-> r]
                           /\ job.image = i /\ job.args = a /\ job.todo = s /\ job.left = l /\ job.result = r
    BY JobParts
<1>2. pc' = "verify" /\ job' = [image |-> i, args |-> a, todo |-> t, left |-> 0, result |-> r]
    BY <1>1 DEF Proceed
<1>3. made' = made /\ hurt' = hurt BY DEF Reads
<1>4. Hopeful(a)' => AllMeant(t, a)'
    <2>1. Hopeful(a) => AllMeant(t, a) BY <1>1
    <2> QED BY <1>3, <2>1, HopefulStays
<1>5. job'.args = a /\ job'.todo = t /\ job'.result = "running"
    BY <1>1, <1>2
<1>6. Hopeful(job.args)' => AllMeant(job.todo, job.args)'
    BY <1>4, <1>5
<1> QED BY <1>5, <1>6 DEF JobMeant

\* The result.
LEMMA MeantEnds ==
    ASSUME JobKnown, Reads, NEW v, Result(v), pc \in {"verify", "hash"}, v = "failed" => ~ Hopeful(job.args)
    PROVE  JobMeant'
<1>1. PICK i, a, s, l, r : /\ job = [image |-> i, args |-> a, todo |-> s, left |-> l, result |-> r]
                           /\ job.image = i /\ job.args = a /\ job.todo = s /\ job.left = l /\ job.result = r
    BY JobParts
<1>2. pc' = "done" /\ job' = [image |-> i, args |-> a, todo |-> << >>, left |-> 0, result |-> v]
    BY <1>1 DEF Result
<1>3. made' = made /\ hurt' = hurt BY DEF Reads
<1>4. a \in Verifies /\ i = a.image
    BY <1>1 DEF JobKnown, Watched
<1>5. job'.args = a /\ job'.image = i /\ job'.result = v
    BY <1>2
<1>6. v = "failed" => ~ Hopeful(a)'
    <2>1. v = "failed" => ~ Hopeful(a) BY <1>1
    <2> QED BY <1>3, <2>1, HopefulStays
<1>7. v = "failed" => ~ Hopeful(job.args)' BY <1>5, <1>6
<1> QED BY <1>2, <1>4, <1>5, <1>7 DEF JobMeant

--------------------------------------------------
\* The first task is meant.
LEMMA TaskMeant ==
    ASSUME JobKnown, JobMeant, pc \in {"verify", "hash"}, job.todo # << >>, Hopeful(job.args)
    PROVE  Meant(Task, job.args) /\ AllMeant(Rest, job.args) /\ job.args \in Verifies
<1>1. PICK todo : todo = job.todo OBVIOUS
<1>2. IsSeq(todo) /\ todo # << >> /\ Watched(job.image, job.args, job.todo)
    BY <1>1 DEF JobKnown, Queue
<1>3. /\ IsSeq(Tail(todo)) /\ Has(todo, Head(todo))
      /\ \A x : Has(todo, x) <=> x = Head(todo) \/ Has(Tail(todo), x)
    BY <1>2, TailIs
<1>4. AllMeant(todo, job.args) BY <1>1 DEF JobMeant
<1>5. Task = Head(todo) /\ Rest = Tail(todo)
    BY <1>1 DEF Task, Rest
<1> QED BY <1>2, <1>3, <1>4, <1>5 DEF AllMeant, Watched

\* A hash or hashtree descriptor that is meant verifies.
LEMMA MeantGoes ==
    ASSUME Known, JobKnown, JobMeant, pc \in {"verify", "hash"}, job.todo # << >>, Reads,
           Task.d.type \in {"hash", "hashtree"},
           Proceed(Rest) \/ (Result("failed") /\ ~ Agrees(Task.d, job.args))
    PROVE  JobMeant'
<1>1. PICK d : \E top \in BOOLEAN : Task = Item(d, top) /\ Task.d = d /\ Task.top = top
                                         /\ Plain(d) /\ d.type \in NamedTypes
    BY TaskIs
<1>2. PICK top \in BOOLEAN : Task = Item(d, top) /\ Task.d = d
    BY <1>1
<1>3. PICK a : a = job.args OBVIOUS
<1>4. Hopeful(a) => Meant(Item(d, top), a) /\ AllMeant(Rest, a) /\ a \in Verifies
    BY <1>2, <1>3, TaskMeant
<1>5. CASE Proceed(Rest)
    <2>1. PICK t : t = Rest OBVIOUS
    <2>2. (Hopeful(job.args) => AllMeant(t, job.args)) /\ Proceed(t)
        BY <1>3, <1>4, <1>5, <2>1
    <2>3. job.result = "running" BY DEF JobKnown
    <2> HIDE DEF JobKnown, Known, JobMeant
    <2> QED BY <2>2, <2>3, MeantContinues
<1>6. CASE Result("failed") /\ ~ Agrees(Task.d, job.args)
    <2>1. ~ Agrees(d, a) /\ d.type \in {"hash", "hashtree"}
        BY <1>2, <1>3, <1>6
    <2>2. ~ Hopeful(a) BY <1>4, <2>1, MeantAgrees
    <2> HIDE DEF JobKnown, Known, JobMeant
    <2> QED BY <1>3, <1>6, <2>2, MeantEnds
<1> QED BY <1>5, <1>6

\* AvbHashDescriptor.verify.
LEMMA HashMeant == ASSUME Known, JobKnown, JobMeant, VerifyHash PROVE JobMeant'
<1>1. pc = "verify" /\ job.todo # << >> /\ Task.d.type = "hash" /\ Reads
    BY DEF VerifyHash, Verify
<1>2. Proceed(Rest) \/ (Result("failed") /\ ~ Agrees(Task.d, job.args))
    BY <1>1 DEF VerifyHash, Agrees
<1> QED BY <1>1, <1>2, MeantGoes

\* The blocks of a hash tree are read one after the other; the descriptors stay.
LEMMA MeantReads ==
    ASSUME JobKnown, JobMeant, pc \in {"verify", "hash"}, Reads, pc' = "hash", NEW n, job' = [job EXCEPT !.left = n]
    PROVE  JobMeant'
<1>1. PICK i, a, s, l, r : /\ job = [image |-> i, args |-> a, todo |-> s, left |-> l, result |-> r]
                           /\ job.image = i /\ job.args = a /\ job.todo = s /\ job.left = l /\ job.result = r
    BY JobParts
<1>2. job' = [image |-> i, args |-> a, todo |-> s, left |-> n, result |-> r]
    BY <1>1
<1>3. made' = made /\ hurt' = hurt BY DEF Reads
<1>4. Hopeful(a)' => AllMeant(s, a)'
    <2>1. Hopeful(a) => AllMeant(s, a)
        BY <1>1 DEF JobMeant
    <2> QED BY <1>3, <2>1, HopefulStays
<1>5. job'.args = a /\ job'.todo = s /\ job'.result = r /\ r = "running"
    BY <1>1, <1>2 DEF JobKnown
<1>6. Hopeful(job.args)' => AllMeant(job.todo, job.args)'
    BY <1>4, <1>5
<1> QED BY <1>5, <1>6 DEF JobMeant

\* AvbHashtreeDescriptor.verify, up to the blocks.
LEMMA TreeMeant == ASSUME Known, JobKnown, JobMeant, VerifyHashtree PROVE JobMeant'
<1>1. pc = "verify" /\ job.todo # << >> /\ Task.d.type = "hashtree" /\ Reads
    BY DEF VerifyHashtree, Verify
<1>2. CASE Task.d.image_size > PerBlock
    BY <1>1, <1>2, MeantReads DEF VerifyHashtree
<1>3. CASE ~ (Task.d.image_size > PerBlock)
    <2>1. Proceed(Rest) \/ (Result("failed") /\ ~ Agrees(Task.d, job.args))
        BY <1>1, <1>3 DEF VerifyHashtree, Agrees
    <2> QED BY <1>1, <2>1, MeantGoes
<1> QED BY <1>2, <1>3

\* A block of it.
LEMMA BlockMeant == ASSUME JobKnown, JobMeant, HashBlock PROVE JobMeant'
<1>1. PICK n : job' = [job EXCEPT !.left = n]
    BY DEF HashBlock
<1>2. pc = "hash" /\ pc' = "hash" /\ Reads
    BY DEF HashBlock
<1> QED BY <1>1, <1>2, MeantReads

\* AvbHashtreeDescriptor.verify, after the blocks.
LEMMA CompareMeant == ASSUME Known, JobKnown, JobMeant, CompareTree PROVE JobMeant'
<1>1. pc = "hash" /\ Reads BY DEF CompareTree
<1>2. job.todo # << >> /\ Task.d.type = "hashtree"
    BY <1>1 DEF JobKnown, Hashing, Task
<1>3. Proceed(Rest) \/ (Result("failed") /\ ~ Agrees(Task.d, job.args))
    BY <1>2 DEF CompareTree, Agrees
<1> QED BY <1>1, <1>2, <1>3, MeantGoes

\* An image that is accepted has not failed.
LEMMA DoneMeant == ASSUME JobKnown, JobMeant, VerifyDone PROVE JobMeant'
<1>1. pc = "verify" /\ Reads /\ Result("ok")
    BY DEF VerifyDone
<1>2. PICK v : v = "ok" OBVIOUS
<1>3. Result(v) /\ v # "failed" BY <1>1, <1>2
<1> QED BY <1>1, <1>3, MeantEnds

--------------------------------------------------
\* The descriptors of an image to which nothing has happened are meant.
LEMMA TasksMeant ==
    ASSUME Known, NEW q \in ToSet(Names), NEW a, Fresh(q, a), NEW top \in BOOLEAN,
           top = TRUE => q = a.image,
           top = FALSE => a.follow = TRUE /\ \E c \in made[a.image].chains : c.name = q
    PROVE  AllMeant(Tasks(ParseImage(files[q]), top), a)
<1>1. PICK ds : ds = ParseImage(files[q]) OBVIOUS
<1>2. ds = Ds(made[q]) /\ IsSeq(ds)
    BY <1>1, FreshIs DEF Sound, Knows
<1>3. SUFFICES ASSUME NEW t, Has(Tasks(ds, top), t) PROVE Meant(t, a)
    BY <1>1 DEF AllMeant
<1>4. PICK d : Has(ds, d) /\ t = Item(d, top)
    BY <1>2, <1>3, TasksIs
<1>5. t.d = d /\ t.top = top BY <1>4, ItemIs
<1> QED BY <1>2, <1>4, <1>5 DEF Meant

\* A chain that is meant is expected, and the image it names is accepted.
LEMMA ChainMeant == ASSUME Known, JobKnown, JobMeant, VerifyChain PROVE JobMeant'
<1>1. pc = "verify" /\ job.todo # << >> /\ Task.d.type = "chain" /\ Reads /\ job.result = "running"
    BY DEF VerifyChain, Verify, JobKnown
<1>2. PICK d : \E top \in BOOLEAN : Task = Item(d, top) /\ Task.d = d /\ Task.top = top
                                         /\ Plain(d) /\ d.type \in NamedTypes
    BY <1>1, TaskIs
<1>3. PICK top \in BOOLEAN : Task = Item(d, top) /\ Task.d = d /\ Task.top = top
    BY <1>2
<1>4. PICK a : a = job.args OBVIOUS
<1>5. a \in Verifies /\ a.follow \in BOOLEAN
    BY <1>1, <1>4, AvbImagesAssumption DEF JobKnown, Watched
<1>6. Hopeful(a) => Meant(Item(d, top), a) /\ AllMeant(Rest, a)
    BY <1>1, <1>3, <1>4, TaskMeant
<1>7. PICK expected : expected = IF top THEN a.expected ELSE {} OBVIOUS
<1>8. PICK follow : follow = (top /\ a.follow) OBVIOUS
<1>9. PICK fails : fails = ~ (ChainExpected(d, expected) \/ (follow /\ ~ \E e \in expected : e.name = d.name))
    OBVIOUS
<1>10. \/ Result("failed") /\ (fails \/ (follow /\ ~ Checked(files[d.name], a.key)))
       \/ Proceed(Rest)
       \/ follow /\ Proceed(Tasks(ParseImage(files[d.name]), FALSE) \o Rest)
    BY <1>3, <1>4, <1>7, <1>8, <1>9 DEF VerifyChain
<1>11. ASSUME Hopeful(a)
       PROVE  /\ ~ fails
              /\ follow => /\ \E c \in made[a.image].chains : c.name = d.name
                           /\ a.follow = TRUE /\ Fresh(d.name, a) /\ d.name \in ToSet(Names)
    <2>1. top = TRUE /\ \E c \in made[a.image].chains : Links(d, c)
        BY <1>1, <1>3, <1>5, <1>6, <1>11, MeantChain
    <2>2. PICK c \in made[a.image].chains : Links(d, c)
        BY <2>1
    <2>3. /\ c.name \in ToSet(Names) /\ Expected(c, a)
          /\ a.follow = TRUE => Fresh(c.name, a)
        BY <1>5, <1>11, HopefulIs
    <2>4. d.name = c.name /\ d.location = c.location /\ d.public_key = KeyCells(c.key)
        BY <2>2 DEF Links
    <2>5. ~ fails
        <3>1. CASE \E e \in a.expected : e.name = c.name /\ e.location = c.location /\ e.key = c.key
            <4>1. ChainExpected(d, a.expected)
                BY <2>4, <3>1 DEF ChainExpected
            <4> QED BY <1>7, <1>9, <2>1, <4>1
        <3>2. CASE a.follow /\ ~ \E e \in a.expected : e.name = c.name
            BY <1>7, <1>8, <1>9, <2>1, <2>4, <3>2
        <3> QED BY <2>3, <3>1, <3>2 DEF Expected
    <2> QED BY <1>5, <1>8, <2>1, <2>2, <2>3, <2>4, <2>5
<1>12. CASE Result("failed") /\ (fails \/ (follow /\ ~ Checked(files[d.name], a.key)))
    <2>1. ~ Hopeful(job.args)
        <3> SUFFICES ASSUME Hopeful(a) PROVE FALSE
            BY <1>4
        <3>1. follow /\ ~ Checked(files[d.name], a.key)
            BY <1>11, <1>12
        <3>2. PICK q : q = d.name OBVIOUS
        <3>3. q \in ToSet(Names) /\ Fresh(q, a)
            BY <1>11, <3>1, <3>2
        <3>4. Checked(files[q], a.key) BY <3>3, FreshIs
        <3> QED BY <3>1, <3>2, <3>4
    <2>2. PICK v : v = "failed" OBVIOUS
    <2>3. Result(v) BY <1>12, <2>2
    <2> HIDE DEF JobKnown, Known, JobMeant
    <2> QED BY <1>1, <2>1, <2>3, MeantEnds
<1>13. CASE Proceed(Rest)
    <2>1. PICK t : t = Rest OBVIOUS
    <2>2. (Hopeful(job.args) => AllMeant(t, job.args)) /\ Proceed(t)
        BY <1>4, <1>6, <1>13, <2>1
    <2> HIDE DEF JobKnown, Known, JobMeant
    <2> QED BY <1>1, <2>2, MeantContinues
<1>14. CASE follow /\ Proceed(Tasks(ParseImage(files[d.name]), FALSE) \o Rest)
    <2>1. PICK x : x = Tasks(ParseImage(files[d.name]), FALSE) OBVIOUS
    <2>2. PICK t : t = x \o Rest OBVIOUS
    <2>3. ASSUME Hopeful(a) PROVE AllMeant(t, a)
        <3>1. PICK q : q = d.name OBVIOUS
        <3>2. /\ q \in ToSet(Names) /\ Fresh(q, a) /\ a.follow = TRUE
              /\ \E c \in made[a.image].chains : c.name = q
            BY <1>11, <1>14, <2>3, <3>1
        <3>3. AllMeant(Tasks(ParseImage(files[q]), FALSE), a)
            BY <3>2, TasksMeant
        <3>4. AllMeant(x, a) /\ AllMeant(Rest, a)
            BY <1>6, <2>1, <2>3, <3>1, <3>3
        <3>5. IsSeq(Rest) BY <1>1, TaskIs DEF Queue
        <3>6. IsSeq(x)
            <4>1. IsSeq(ParseImage(files[q]))
                BY <3>2, FreshIs DEF Sound, Knows
            <4>2. IsSeq(Tasks(ParseImage(files[q]), FALSE))
                BY <4>1, TasksIs
            <4> QED BY <2>1, <3>1, <4>2
        <3>7. PICK r : r = Rest OBVIOUS
        <3>8. \A y : Has(x \o r, y) <=> Has(x, y) \/ Has(r, y)
            BY <3>5, <3>6, <3>7, CatHas
        <3> QED BY <2>2, <3>4, <3>7, <3>8 DEF AllMeant
    <2>4. (Hopeful(job.args) => AllMeant(t, job.args)) /\ Proceed(t)
        BY <1>4, <1>14, <2>1, <2>2, <2>3
    <2> HIDE DEF JobKnown, Known, JobMeant
    <2> QED BY <1>1, <2>4, MeantContinues
<1> QED BY <1>10, <1>12, <1>13, <1>14

\* verify_image up to the descriptors: an image to which nothing has happened passes.
LEMMA StartMeant == ASSUME Known, JobKnown, NEW a \in Verifies, VerifyImage(a) PROVE JobMeant'
<1>1. made' = made /\ hurt' = hurt
    BY DEF VerifyImage, Reads
<1>2. PICK q \in ToSet(Names) : q = a.image
    BY AvbImagesAssumption
<1>3. PICK j : j = [NoJob EXCEPT !.image = a.image, !.args = a] OBVIOUS
<1>4. j = [image |-> q, args |-> a, todo |-> << >>, left |-> 0, result |-> "running"]
    BY <1>2, <1>3 DEF NoJob
<1>5. Hopeful(a) => Fresh(q, a) BY <1>2, HopefulIs
<1>6. CASE Checked(files[q], a.key)
    <2>1. PICK t : t = Tasks(ParseImage(files[q]), TRUE) OBVIOUS
    <2>2. pc' = "verify" /\ job' = [j EXCEPT !.todo = t]
        BY <1>2, <1>3, <1>6, <2>1 DEF VerifyImage
    <2>3. job' = [image |-> q, args |-> a, todo |-> t, left |-> 0, result |-> "running"]
        BY <1>4, <2>2
    <2>4. Hopeful(a) => AllMeant(t, a)
        <3>1. ASSUME Fresh(q, a) PROVE AllMeant(Tasks(ParseImage(files[q]), TRUE), a)
            BY <1>2, <3>1, TasksMeant
        <3> QED BY <1>5, <2>1, <3>1
    <2>5. Hopeful(a)' => AllMeant(t, a)'
        BY <1>1, <2>4, HopefulStays
    <2>6. job'.args = a /\ job'.todo = t /\ job'.result = "running"
        BY <2>3
    <2>7. Hopeful(job.args)' => AllMeant(job.todo, job.args)'
        BY <2>5, <2>6
    <2> QED BY <2>6, <2>7 DEF JobMeant
<1>7. CASE ~ Checked(files[q], a.key)
    <2>1. pc' = "done" /\ job' = [j EXCEPT !.result = "failed"]
        BY <1>2, <1>3, <1>7 DEF VerifyImage
    <2>2. job' = [image |-> q, args |-> a, todo |-> << >>, left |-> 0, result |-> "failed"]
        BY <1>4, <2>1
    <2>3. ~ Hopeful(a) BY <1>5, <1>7, FreshIs
    <2>4. ~ Hopeful(a)' BY <1>1, <2>3, HopefulStays
    <2>5. job'.args = a /\ job'.image = q BY <2>2
    <2>6. ~ Hopeful(job.args)' BY <2>4, <2>5
    <2> QED BY <1>2, <2>1, <2>5, <2>6 DEF JobMeant
<1> QED BY <1>6, <1>7

--------------------------------------------------
\* Between two verifications nothing is to do, and nothing has failed.
LEMMA IdleMeant ==
    ASSUME JobKnown, pc = "idle", pc' = "idle", job' = job
    PROVE  JobMeant'
<1>1. job'.result = "running" BY DEF JobKnown
<1> QED BY <1>1 DEF JobMeant

\* After a verification nothing has failed.
LEMMA ReturnMeant == ASSUME Return PROVE JobMeant'
<1>1. pc' = "idle" /\ job'.result = "running"
    BY NoJobIs DEF Return
<1> QED BY <1>1 DEF JobMeant

\* Nor has in the beginning.
LEMMA InitMeant == ASSUME Init PROVE JobMeant
<1>1. pc = "idle" /\ job.result = "running"
    BY NoJobIs DEF Init
<1> QED BY <1>1 DEF JobMeant

\* No step that writes is taken while verify_image runs.
LEMMA WriteMeant ==
    ASSUME JobKnown, \/ \E p \in DOMAIN Sizes : Build(p)
                     \/ \E a \in Footers : AddHashFooter(a.image, a) \/ AddHashtreeFooter(a.image, a)
                     \/ \E p \in ToSet(Names) : ZeroHashtree(p) \/ Zero(p) \/ Truncate(p)
                     \/ \E a \in Makes : MakeVbmetaImage(a)
    PROVE  JobMeant'
<1>1. pc = "idle" /\ pc' = pc /\ job' = job
    <2>1. CASE \E p \in DOMAIN Sizes : Build(p)
        BY <2>1 DEF Build, Writes
    <2>2. CASE \E a \in Footers : AddHashFooter(a.image, a) \/ AddHashtreeFooter(a.image, a)
        BY <2>2 DEF AddHashFooter, AddHashtreeFooter, Writes
    <2>3. CASE \E p \in ToSet(Names) : ZeroHashtree(p) \/ Zero(p) \/ Truncate(p)
        BY <2>3 DEF ZeroHashtree, Zero, Truncate, Fault
    <2>4. CASE \E a \in Makes : MakeVbmetaImage(a)
        BY <2>4 DEF MakeVbmetaImage, Writes
    <2> QED BY <2>1, <2>2, <2>3, <2>4
<1> QED BY <1>1, IdleMeant

\* A step that changes nothing.
LEMMA StutterMeant == ASSUME JobMeant, UNCHANGED vars PROVE JobMeant'
<1>1. files' = files /\ pc' = pc /\ job' = job /\ made' = made /\ hurt' = hurt
    BY DEF vars
<1>2. PICK i : i = job.image OBVIOUS
<1>3. PICK a : a = job.args OBVIOUS
<1>4. PICK s : s = job.todo OBVIOUS
<1>5. /\ pc \in {"verify", "hash"} => (Hopeful(a) => AllMeant(s, a))
      /\ job.result = "failed" => a \in Verifies /\ i = a.image /\ ~ Hopeful(a)
    BY <1>2, <1>3, <1>4 DEF JobMeant
<1>6. /\ Hopeful(a)' <=> Hopeful(a)
      /\ AllMeant(s, a)' <=> AllMeant(s, a)
    BY <1>1, HopefulStays
<1>7. job'.args = a /\ job'.todo = s /\ job'.image = i /\ job'.result = job.result
    BY <1>1, <1>2, <1>3, <1>4
<1>8. Hopeful(job.args)' <=> Hopeful(a)' BY <1>7
<1>9. AllMeant(job.todo, job.args)' <=> AllMeant(s, a)'
    BY <1>7
<1> QED BY <1>1, <1>5, <1>6, <1>7, <1>8, <1>9 DEF JobMeant

\* No false alarm, for whatever partitions, sizes, keys and command lines: when
\* verify_image refuses an image, it or a partition that it covers has changed since,
\* or the key or the chains are not those that were asked for.
THEOREM FreshAccepted == Spec => []FreshVerifies
<1>1. Init => JobMeant BY InitMeant
<1>2. ASSUME ImagesKnown, JobMeant, [Next]_vars PROVE JobMeant'
    <2>1. Known /\ JobKnown BY <1>2 DEF ImagesKnown
    <2>2. CASE \/ \E p \in DOMAIN Sizes : Build(p)
               \/ \E a \in Footers : AddHashFooter(a.image, a) \/ AddHashtreeFooter(a.image, a)
               \/ \E p \in ToSet(Names) : ZeroHashtree(p) \/ Zero(p) \/ Truncate(p)
               \/ \E a \in Makes : MakeVbmetaImage(a)
        BY <2>1, <2>2, WriteMeant
    <2>3. CASE \E a \in Verifies : VerifyImage(a)
        BY <2>1, <2>3, StartMeant
    <2>4. CASE Verifying
        BY <1>2, <2>1, <2>4, HashMeant, TreeMeant, BlockMeant, CompareMeant, ChainMeant, DoneMeant DEF Verifying
    <2>5. CASE Return BY <2>5, ReturnMeant
    <2>6. CASE UNCHANGED vars
        BY <1>2, <2>6, StutterMeant
    <2> QED BY <1>2, <2>2, <2>3, <2>4, <2>5, <2>6 DEF Next
<1>3. JobMeant => FreshVerifies
    BY DEF JobMeant, FreshVerifies, Hopeful
<1> QED BY <1>1, <1>2, <1>3, Invariance, PTL DEF Spec
=============================================================================
