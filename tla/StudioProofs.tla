---------------------------- MODULE StudioProofs ----------------------------
(***************************************************************************)
(* Proofs about the studio (module Studio).  What the review states, what  *)
(* the enclave checks and what the contract pays all come out of sums over *)
(* the recipients, so the module begins with sums over finite sets; then   *)
(* the share table of a list of recipients, durations and triggers; then   *)
(* the invariant of the builder, and what follows from it.                 *)
(***************************************************************************)
EXTENDS Studio, SequenceTheorems, FiniteSetTheorems, TLAPS

-----------------------------------------------------------------------------
(* Sums                                                                    *)

OneOf(T) == CHOOSE x \in T : TRUE

\* g gives the sum of f over every subset of S.
Sums(f, S, g) ==
    g = [T \in SUBSET S |-> IF T = {} THEN 0 ELSE f[OneOf(T)] + g[T \ {OneOf(T)}]]

\* Induction on finite sets, without a parameter for the property: whatever holds
\* of some subsets holds of a smallest one.
LEMMA Smallest ==
    ASSUME NEW S, IsFiniteSet(S), NEW B \in SUBSET SUBSET S, B # {}
    PROVE  \E T \in B : \A U \in B : U \subseteq T => U = T
<1>1. IsWellFoundedOn(StrictSubsetOrdering(S), SUBSET S)
    BY FS_StrictSubsetOrderingWellFounded, FS_FiniteSubsetsOfFinite
<1>2. PICK T \in B : \A U \in B : <<U, T>> \notin StrictSubsetOrdering(S)
    BY <1>1, WFMin
<1> QED
    BY <1>2 DEF StrictSubsetOrdering

\* The library's sum is the recursion of Sums.
LEMMA SumUnfolds ==
    ASSUME NEW f, NEW S
    PROVE  SumFunctionOnSet(f, S) = (CHOOSE g : Sums(f, S, g))[S]
BY Zenon DEF SumFunctionOnSet, FoldFunctionOnSet, MapThenFoldSet, Sums, OneOf

\* Where two such functions are both defined they agree.
LEMMA SumsAgree ==
    ASSUME NEW f, NEW S, IsFiniteSet(S), NEW g, Sums(f, S, g),
           NEW R, NEW h, Sums(f, R, h)
    PROVE  \A T \in SUBSET (S \cap R) : g[T] = h[T]
<1> SUFFICES ASSUME {T \in SUBSET (S \cap R) : g[T] # h[T]} # {}
             PROVE  FALSE
    OBVIOUS
<1> DEFINE B == {T \in SUBSET (S \cap R) : g[T] # h[T]}
<1>1. B \in SUBSET SUBSET S /\ B # {}
    OBVIOUS
<1> HIDE DEF B
<1>2. PICK T \in B : \A U \in B : U \subseteq T => U = T
    BY <1>1, Smallest
<1> USE DEF B
<1> DEFINE a == OneOf(T)
<1>3. /\ g[T] = IF T = {} THEN 0 ELSE f[a] + g[T \ {a}]
      /\ h[T] = IF T = {} THEN 0 ELSE f[a] + h[T \ {a}]
    BY DEF Sums
<1>4. CASE T = {}
    BY <1>3, <1>4
<1>5. CASE T # {}
    <2>1. a \in T
        BY <1>5 DEF OneOf
    <2>2. g[T \ {a}] = h[T \ {a}]
        BY <1>2, <2>1
    <2> QED
        BY <1>3, <1>5, <2>2
<1> QED
    BY <1>4, <1>5

\* There is one for every finite set.
LEMMA SumsExist ==
    ASSUME NEW f, NEW S, IsFiniteSet(S)
    PROVE  \E g : Sums(f, S, g)
<1> DEFINE B == {T \in SUBSET S : ~\E g : Sums(f, T, g)}
           Sum(T) == (CHOOSE g : Sums(f, T, g))[T]
<1> SUFFICES ASSUME B # {}
             PROVE  FALSE
    OBVIOUS
<1>0. B \in SUBSET SUBSET S /\ B # {}
    OBVIOUS
<1> HIDE DEF B
<1>1. PICK T \in B : \A U \in B : U \subseteq T => U = T
    BY <1>0, Smallest
<1> USE DEF B
<1>2. ASSUME NEW U \in SUBSET T, U # T
      PROVE  IsFiniteSet(U) /\ \E h : Sums(f, U, h)
    <2>1. U \in SUBSET S /\ U \notin B
        BY <1>1, <1>2
    <2> QED
        BY <2>1, FS_Subset
<1> DEFINE g == [U \in SUBSET T |-> IF U = {} THEN 0 ELSE f[OneOf(U)] + Sum(U \ {OneOf(U)})]
<1>3. ASSUME NEW U \in SUBSET T, U # T
      PROVE  g[U] = Sum(U)
    <2>1. PICK h : Sums(f, U, h) /\ h = CHOOSE k : Sums(f, U, k)
        BY <1>2, <1>3
    <2>2. h[U] = Sum(U)
        BY <2>1
    <2>3. h[U] = IF U = {} THEN 0 ELSE f[OneOf(U)] + h[U \ {OneOf(U)}]
        BY <2>1 DEF Sums
    <2>4. CASE U = {}
        BY <2>2, <2>3, <2>4
    <2>5. CASE U # {}
        <3> DEFINE V == U \ {OneOf(U)}
        <3>1. V \in SUBSET U /\ V # T /\ V \in SUBSET T
            BY <1>3
        <3>2. Sums(f, V, CHOOSE k : Sums(f, V, k))
            BY <1>2, <3>1
        <3>3. IsFiniteSet(U)
            BY <1>2, <1>3
        <3>4. h[V] = Sum(V)
            <4> DEFINE c == CHOOSE k : Sums(f, V, k)
            <4>1. \A W \in SUBSET (U \cap V) : h[W] = c[W]
                <5> HIDE DEF c, V
                <5> QED BY <2>1, <3>2, <3>3, SumsAgree DEF c
            <4> QED
                BY <4>1, <3>1
        <3> QED
            BY <2>2, <2>3, <2>5, <3>4
    <2> QED
        BY <2>4, <2>5
<1>4. ASSUME NEW U \in SUBSET T, U # {}
      PROVE  g[U \ {OneOf(U)}] = Sum(U \ {OneOf(U)})
    <2>1. OneOf(U) \in U
        BY <1>4 DEF OneOf
    <2>2. U \ {OneOf(U)} \in SUBSET T /\ U \ {OneOf(U)} # T
        BY <2>1
    <2> HIDE DEF g, Sum
    <2> QED
        BY <1>3, <2>2
<1>5. Sums(f, T, g)
    <2>1. \A U \in SUBSET T : g[U] = IF U = {} THEN 0 ELSE f[OneOf(U)] + g[U \ {OneOf(U)}]
        <3> SUFFICES ASSUME NEW U \in SUBSET T
                     PROVE  g[U] = IF U = {} THEN 0 ELSE f[OneOf(U)] + g[U \ {OneOf(U)}]
            OBVIOUS
        <3>1. g[U] = IF U = {} THEN 0 ELSE f[OneOf(U)] + Sum(U \ {OneOf(U)})
            OBVIOUS
        <3> HIDE DEF g, Sum
        <3> QED
            BY <1>4, <3>1
    <2>2. g = [U \in SUBSET T |-> g[U]]
        OBVIOUS
    <2> HIDE DEF g
    <2> QED
        BY <2>1, <2>2 DEF Sums
<1> HIDE DEF g
<1> QED
    BY <1>1, <1>5

\* The sum of f over a finite set, one element at a time.
LEMMA SumStep ==
    ASSUME NEW f, NEW S, IsFiniteSet(S)
    PROVE  SumFunctionOnSet(f, S)
               = IF S = {} THEN 0 ELSE f[OneOf(S)] + SumFunctionOnSet(f, S \ {OneOf(S)})
<1> DEFINE R == S \ {OneOf(S)}
           c(T) == CHOOSE g : Sums(f, T, g)
<1>1. IsFiniteSet(R)
    BY FS_Subset
<1>2. Sums(f, S, c(S)) /\ Sums(f, R, c(R))
    BY <1>1, SumsExist
<1>3. c(S)[S] = IF S = {} THEN 0 ELSE f[OneOf(S)] + c(S)[R]
    <2> HIDE DEF c
    <2> QED
        BY <1>2 DEF Sums
<1>4. \A T \in SUBSET (S \cap R) : c(S)[T] = c(R)[T]
    <2> HIDE DEF c, R
    <2> QED
        BY <1>2, SumsAgree
<1>5. c(S)[R] = c(R)[R]
    <2> HIDE DEF c
    <2> QED
        BY <1>4
<1>6. SumFunctionOnSet(f, S) = c(S)[S] /\ SumFunctionOnSet(f, R) = c(R)[R]
    BY SumUnfolds, Zenon
<1> HIDE DEF c
<1> QED
    BY <1>3, <1>5, <1>6

\* A sum of integers is an integer.
LEMMA SumIsInteger ==
    ASSUME NEW f, NEW S, IsFiniteSet(S), \A x \in S : f[x] \in Int
    PROVE  SumFunctionOnSet(f, S) \in Int
<1> DEFINE B == {T \in SUBSET S : SumFunctionOnSet(f, T) \notin Int}
<1> SUFFICES ASSUME B # {}
             PROVE  FALSE
    OBVIOUS
<1>1. B \in SUBSET SUBSET S /\ B # {}
    OBVIOUS
<1> HIDE DEF B
<1>2. PICK T \in B : \A U \in B : U \subseteq T => U = T
    BY <1>1, Smallest
<1> USE DEF B
<1>3. IsFiniteSet(T)
    BY FS_Subset
<1>4. SumFunctionOnSet(f, T) = IF T = {} THEN 0 ELSE f[OneOf(T)] + SumFunctionOnSet(f, T \ {OneOf(T)})
    BY <1>3, SumStep
<1>5. T # {}
    BY <1>4
<1>6. OneOf(T) \in T
    BY <1>5 DEF OneOf
<1>7. SumFunctionOnSet(f, T \ {OneOf(T)}) \in Int
    BY <1>2, <1>6
<1> QED
    BY <1>4, <1>6, <1>7

\* The sum may begin with any element.
LEMMA SumWithout ==
    ASSUME NEW f, NEW S, IsFiniteSet(S), \A x \in S : f[x] \in Int, NEW y \in S
    PROVE  SumFunctionOnSet(f, S) = f[y] + SumFunctionOnSet(f, S \ {y})
<1> DEFINE Sum(T) == SumFunctionOnSet(f, T)
           B == {T \in SUBSET S : \E x \in T : Sum(T) # f[x] + Sum(T \ {x})}
<1> SUFFICES ASSUME B # {}
             PROVE  FALSE
    OBVIOUS
<1>1. B \in SUBSET SUBSET S /\ B # {}
    OBVIOUS
<1> HIDE DEF B
<1>2. PICK T \in B : \A U \in B : U \subseteq T => U = T
    BY <1>1, Smallest
<1> USE DEF B
<1> HIDE DEF Sum
<1>3. PICK x \in T : Sum(T) # f[x] + Sum(T \ {x})
    OBVIOUS
<1> DEFINE a == OneOf(T)
<1>4. a \in T
    BY DEF OneOf
<1>5. \A U \in SUBSET S : U # {} => Sum(U) = f[OneOf(U)] + Sum(U \ {OneOf(U)})
    BY FS_Subset, SumStep DEF Sum
<1>6. \A U \in SUBSET S : Sum(U) \in Int
    BY FS_Subset, SumIsInteger DEF Sum
<1>7. Sum(T) = f[a] + Sum(T \ {a})
    BY <1>4, <1>5
<1>8. x # a
    BY <1>3, <1>7
<1>9. ASSUME NEW U \in SUBSET T, U # T, NEW z \in U
      PROVE  Sum(U) = f[z] + Sum(U \ {z})
    <2>1. U \in SUBSET S /\ U \notin B
        BY <1>2, <1>9
    <2> QED
        BY <2>1
<1>10. Sum(T \ {a}) = f[x] + Sum((T \ {a}) \ {x})
    <2> HIDE DEF a
    <2> QED
        BY <1>4, <1>8, <1>9
<1>11. Sum(T \ {x}) = f[a] + Sum((T \ {x}) \ {a})
    <2> HIDE DEF a
    <2> QED
        BY <1>4, <1>8, <1>9
<1> DEFINE rest == Sum((T \ {x}) \ {a})
<1>12. (T \ {a}) \ {x} = (T \ {x}) \ {a}
    OBVIOUS
<1>13. f[x] \in Int /\ f[a] \in Int /\ rest \in Int
    BY <1>4, <1>6
<1>14. Sum(T) = f[a] + (f[x] + rest)
    BY <1>7, <1>10, <1>12
<1>15. Sum(T) # f[x] + (f[a] + rest)
    BY <1>3, <1>11
<1> HIDE DEF rest, a
<1> QED
    BY <1>13, <1>14, <1>15

\* Functions that agree have the same sum.
LEMMA SumsOfEqual ==
    ASSUME NEW f, NEW g, NEW S, IsFiniteSet(S), \A x \in S : f[x] = g[x]
    PROVE  SumFunctionOnSet(f, S) = SumFunctionOnSet(g, S)
<1> DEFINE B == {T \in SUBSET S : SumFunctionOnSet(f, T) # SumFunctionOnSet(g, T)}
<1> SUFFICES ASSUME B # {}
             PROVE  FALSE
    OBVIOUS
<1>1. B \in SUBSET SUBSET S /\ B # {}
    OBVIOUS
<1> HIDE DEF B
<1>2. PICK T \in B : \A U \in B : U \subseteq T => U = T
    BY <1>1, Smallest
<1> USE DEF B
<1>3. IsFiniteSet(T)
    BY FS_Subset
<1>4. /\ SumFunctionOnSet(f, T) = IF T = {} THEN 0 ELSE f[OneOf(T)] + SumFunctionOnSet(f, T \ {OneOf(T)})
      /\ SumFunctionOnSet(g, T) = IF T = {} THEN 0 ELSE g[OneOf(T)] + SumFunctionOnSet(g, T \ {OneOf(T)})
    BY <1>3, SumStep
<1>5. OneOf(T) \in T
    BY <1>4 DEF OneOf
<1>6. SumFunctionOnSet(f, T \ {OneOf(T)}) = SumFunctionOnSet(g, T \ {OneOf(T)})
    BY <1>2, <1>5
<1> QED
    BY <1>4, <1>5, <1>6

\* What bounds the terms, up to factors, bounds the sums.
LEMMA SumsCompare ==
    ASSUME NEW f, NEW g, NEW S, IsFiniteSet(S), NEW c \in Int, NEW d \in Int,
           \A x \in S : f[x] \in Int /\ g[x] \in Int /\ c * f[x] <= d * g[x]
    PROVE  c * SumFunctionOnSet(f, S) <= d * SumFunctionOnSet(g, S)
<1> DEFINE B == {T \in SUBSET S : ~(c * SumFunctionOnSet(f, T) <= d * SumFunctionOnSet(g, T))}
<1> SUFFICES ASSUME B # {}
             PROVE  FALSE
    OBVIOUS
<1>1. B \in SUBSET SUBSET S /\ B # {}
    OBVIOUS
<1> HIDE DEF B
<1>2. PICK T \in B : \A U \in B : U \subseteq T => U = T
    BY <1>1, Smallest
<1> USE DEF B
<1>3. IsFiniteSet(T)
    BY FS_Subset
<1> DEFINE a == OneOf(T)
           F == SumFunctionOnSet(f, T \ {a})
           G == SumFunctionOnSet(g, T \ {a})
<1>4. /\ SumFunctionOnSet(f, T) = IF T = {} THEN 0 ELSE f[a] + F
      /\ SumFunctionOnSet(g, T) = IF T = {} THEN 0 ELSE g[a] + G
    BY <1>3, SumStep
<1>5. T # {}
    BY <1>4
<1>6. a \in T
    BY <1>5 DEF OneOf
<1>7. c * F <= d * G
    BY <1>2, <1>6
<1>8. F \in Int /\ G \in Int
    BY FS_Subset, SumIsInteger
<1>9. f[a] \in Int /\ g[a] \in Int /\ c * f[a] <= d * g[a]
    BY <1>6
<1> HIDE DEF F, G, a
<1>10. ASSUME NEW p \in Int, NEW q \in Int, NEW r \in Int, NEW s \in Int,
              c * p <= d * q, c * r <= d * s
       PROVE  c * (p + r) <= d * (q + s)
    BY <1>10
<1> QED
    BY <1>4, <1>5, <1>7, <1>8, <1>9, <1>10

\* A sum of terms that are not negative grows with the set.
LEMMA SumsGrow ==
    ASSUME NEW f, NEW S, IsFiniteSet(S), \A x \in S : f[x] \in Nat, NEW R \in SUBSET S
    PROVE  SumFunctionOnSet(f, R) <= SumFunctionOnSet(f, S)
<1> DEFINE Sum(T) == SumFunctionOnSet(f, T)
           B == {T \in SUBSET S : R \subseteq T /\ ~(Sum(R) <= Sum(T))}
<1> SUFFICES ASSUME B # {}
             PROVE  FALSE
    OBVIOUS
<1>1. B \in SUBSET SUBSET S /\ B # {}
    OBVIOUS
<1> HIDE DEF B
<1>2. PICK T \in B : \A U \in B : U \subseteq T => U = T
    BY <1>1, Smallest
<1> USE DEF B
<1>3. \A U \in SUBSET S : Sum(U) \in Int
    BY FS_Subset, SumIsInteger
<1> HIDE DEF Sum
<1>4. PICK x \in T : x \notin R
    BY <1>3
<1>5. Sum(R) <= Sum(T \ {x})
    BY <1>2, <1>4
<1>6. Sum(T) = f[x] + Sum(T \ {x}) /\ f[x] \in Nat
    BY FS_Subset, SumWithout DEF Sum
<1>7. Sum(R) \in Int /\ Sum(T) \in Int /\ Sum(T \ {x}) \in Int /\ ~(Sum(R) <= Sum(T))
    BY <1>3
<1> QED
    BY <1>5, <1>6, <1>7

-----------------------------------------------------------------------------
(* Share tables                                                            *)

\* A list of recipients, as far as sums over it are concerned.
HasShares(rs) ==
    /\ DOMAIN rs = 1..Len(rs) /\ Len(rs) \in Nat
    /\ \A k \in 1..Len(rs) : rs[k].shareBps \in Int

Bps(rs) == [k \in DOMAIN rs |-> rs[k].shareBps]

\* Total adds up the shares of all recipients.
LEMMA TotalIsSum ==
    ASSUME NEW rs, HasShares(rs)
    PROVE  Total(rs) = SumFunctionOnSet(Bps(rs), 1..Len(rs))
BY DEF Total, SumFunction, Bps, HasShares

\* The running totals of the table are sums of the first shares.
LEMMA RunningTotals ==
    ASSUME NEW S, NEW rs \in Seq(S), HasShares(rs), NEW k \in 1..Len(rs)
    PROVE  TableOf(rs).upTo[k] = SumFunctionOnSet(Bps(rs), 1..k)
<1> DEFINE first == SubSeq(rs, 1, k)
<1>1. first = [i \in 1..k |-> rs[i]]
    BY DEF HasShares
<1>2. Len(first) = k /\ DOMAIN first = 1..k /\ \A i \in 1..k : first[i] = rs[i]
    BY SubSeqProperties DEF HasShares
<1>3. Total(first) = SumFunctionOnSet([i \in 1..k |-> first[i].shareBps], 1..k)
    BY <1>2 DEF Total, SumFunction
<1>4. \A i \in 1..k : [j \in 1..k |-> first[j].shareBps][i] = Bps(rs)[i]
    BY <1>2 DEF Bps, HasShares
<1>5. IsFiniteSet(1..k)
    BY FS_Interval DEF HasShares
<1> HIDE DEF first
<1>6. SumFunctionOnSet([i \in 1..k |-> first[i].shareBps], 1..k) = SumFunctionOnSet(Bps(rs), 1..k)
    BY <1>4, <1>5, SumsOfEqual
<1>7. TableOf(rs).upTo[k] = Total(first)
    BY DEF TableOf, HasShares, first
<1> QED
    BY <1>3, <1>6, <1>7

\* Sums of the first shares grow by one share at a time.
LEMMA NextShare ==
    ASSUME NEW rs, HasShares(rs), NEW k \in 1..Len(rs)
    PROVE  /\ SumFunctionOnSet(Bps(rs), 1..k)
                  = rs[k].shareBps + SumFunctionOnSet(Bps(rs), 1..(k - 1))
           /\ SumFunctionOnSet(Bps(rs), 1..k) \in Int
           /\ SumFunctionOnSet(Bps(rs), 1..(k - 1)) \in Int
<1>1. /\ IsFiniteSet(1..k) /\ IsFiniteSet(1..(k - 1))
      /\ \A i \in 1..k : Bps(rs)[i] = rs[i].shareBps /\ Bps(rs)[i] \in Int
    <2>1. k \in Int /\ k - 1 \in Int /\ 1 \in Int
        BY DEF HasShares
    <2>2. \A i \in 1..k : i \in 1..Len(rs)
        BY DEF HasShares
    <2> QED
        BY <2>1, <2>2, FS_Interval DEF Bps, HasShares
<1>2. (1..k) \ {k} = 1..(k - 1)
    BY DEF HasShares
<1>3. k \in 1..k /\ 1..(k - 1) \subseteq 1..k
    BY DEF HasShares
<1>4. SumFunctionOnSet(Bps(rs), 1..k) = Bps(rs)[k] + SumFunctionOnSet(Bps(rs), (1..k) \ {k})
    BY <1>1, <1>3, SumWithout
<1>5. /\ SumFunctionOnSet(Bps(rs), 1..k) \in Int
      /\ SumFunctionOnSet(Bps(rs), 1..(k - 1)) \in Int
    BY <1>1, <1>3, SumIsInteger
<1> QED
    BY <1>1, <1>2, <1>3, <1>4, <1>5

\* Nothing is the sum of nothing.
LEMMA NoShares ==
    ASSUME NEW f
    PROVE  SumFunctionOnSet(f, {}) = 0
BY SumStep, FS_EmptySet

\* The table has an entry per recipient, with that recipient's share, and the
\* total of the recipients.
LEMMA TableOfShares ==
    ASSUME NEW S, NEW rs \in Seq(S), HasShares(rs)
    PROVE  /\ Len(TableOf(rs).to) = Len(rs)
           /\ \A k \in 1..Len(rs) : TableOf(rs).to[k] = rs[k].address
           /\ \A k \in 1..Len(rs) : ShareBps(TableOf(rs), k) = rs[k].shareBps
           /\ TotalBps(TableOf(rs)) = Total(rs)
<1> DEFINE n == Len(rs)
           table == TableOf(rs)
           Sum(k) == SumFunctionOnSet(Bps(rs), 1..k)
<1>1. n \in Nat /\ DOMAIN rs = 1..n
    BY DEF HasShares
<1>2. /\ table.to = [k \in 1..n |-> rs[k].address]
      /\ Len(table.to) = n
    BY <1>1 DEF TableOf
<1>3. \A k \in 1..n : table.upTo[k] = Sum(k)
    BY RunningTotals
<1>4. Sum(0) = 0
    BY NoShares
<1>5. \A k \in 0..n : RunningBps(table, k) = Sum(k)
    <2> HIDE DEF table, Sum
    <2> QED
        BY <1>1, <1>3, <1>4 DEF RunningBps
<1>6. ASSUME NEW k \in 1..n
      PROVE  ShareBps(table, k) = rs[k].shareBps
    <2>1. RunningBps(table, k) = Sum(k) /\ RunningBps(table, k - 1) = Sum(k - 1)
        <3> HIDE DEF table, Sum
        <3> QED
            BY <1>1, <1>5
    <2>2. Sum(k) = rs[k].shareBps + Sum(k - 1) /\ Sum(k - 1) \in Int /\ rs[k].shareBps \in Int
        BY NextShare DEF HasShares
    <2> HIDE DEF table, Sum
    <2> QED
        BY <2>1, <2>2 DEF ShareBps
<1>7. TotalBps(table) = Total(rs)
    <2>1. RunningBps(table, n) = Sum(n)
        BY <1>1, <1>5
    <2>2. Total(rs) = Sum(n)
        BY TotalIsSum
    <2> HIDE DEF table, Sum
    <2> QED
        BY <1>2, <2>1, <2>2 DEF TotalBps
<1> QED
    BY <1>2, <1>6, <1>7

\* What validateShares in the enclave looks at, of recipients that the schema
\* accepts.
LEMMA SchemaSatisfiesEnclave ==
    ASSUME NEW S, NEW rs \in Seq(S), HasShares(rs), ValidRecipients(rs),
           \A k \in 1..Len(rs) : rs[k].address # ZeroAddress
    PROVE  ValidShares(TableOf(rs))
<1>1. /\ Len(TableOf(rs).to) = Len(rs)
      /\ \A k \in 1..Len(rs) : TableOf(rs).to[k] = rs[k].address
      /\ TotalBps(TableOf(rs)) = Total(rs)
    BY TableOfShares
<1>2. Len(rs) > 0 /\ Total(rs) = TOTAL_BPS
    BY DEF ValidRecipients
<1>3. DOMAIN TableOf(rs).to = 1..Len(rs)
    BY DEF TableOf, HasShares
<1> QED
    BY <1>1, <1>2, <1>3 DEF ValidShares

\* The table of recipients that the schema accepts is one that an owner can commit
\* to: the running totals never decrease, and end at the whole.
LEMMA SchemaMakesShareTables ==
    ASSUME NEW S, NEW rs \in Seq(S), HasShares(rs), ValidRecipients(rs)
    PROVE  IsShareTable(TableOf(rs), WellFormed) /\ TotalBps(TableOf(rs)) = TOTAL_BPS
<1> DEFINE n == Len(rs)
           to == TableOf(rs).to
           upTo == TableOf(rs).upTo
           Sum(k) == SumFunctionOnSet(Bps(rs), 1..k)
<1>1. n \in Nat /\ DOMAIN rs = 1..n
    BY DEF HasShares
<1>2. \A k \in 1..n : rs[k].address \in WellFormed /\ rs[k].shareBps \in 1..TOTAL_BPS
    BY <1>1 DEF ValidRecipients, ValidRecipient
<1>3. to = [k \in 1..n |-> rs[k].address] /\ upTo = [k \in 1..n |-> Total(SubSeq(rs, 1, k))]
    BY <1>1 DEF TableOf
<1>4. \A k \in 1..n : upTo[k] = Sum(k)
    BY RunningTotals
<1>5. ASSUME NEW j \in 0..n, NEW i \in 0..j
      PROVE  Sum(i) \in Int /\ Sum(j) \in Int /\ Sum(i) <= Sum(j)
    <2>1. IsFiniteSet(1..i) /\ IsFiniteSet(1..j) /\ 1..i \subseteq 1..j
        <3>1. 1 \in Int /\ i \in Int /\ j \in Int /\ i <= j
            BY <1>1
        <3> QED
            BY <3>1, FS_Interval
    <2>2. \A k \in 1..j : Bps(rs)[k] \in Nat
        <3>1. \A k \in 1..j : k \in 1..n
            BY <1>1
        <3>2. \A x : x \in 1..TOTAL_BPS => x \in Nat
            BY DEF TOTAL_BPS
        <3>3. \A k \in 1..n : Bps(rs)[k] = rs[k].shareBps
            BY <1>1 DEF Bps
        <3> HIDE DEF n
        <3> QED
            BY <1>2, <3>1, <3>2, <3>3
    <2>3. \A k \in 1..j : Bps(rs)[k] \in Int
        BY <2>2
    <2> QED
        BY <2>1, <2>2, <2>3, SumIsInteger, SumsGrow
<1>6. Sum(0) = 0
    BY NoShares
<1> HIDE DEF Sum
<1>7. \A k \in 1..n : Sum(k) \in Nat
    <2> SUFFICES ASSUME NEW k \in 1..n
                 PROVE  Sum(k) \in Nat
        OBVIOUS
    <2>1. k \in 0..n /\ 0 \in 0..k
        BY <1>1
    <2>2. Sum(k) \in Int /\ Sum(0) <= Sum(k)
        BY <1>5, <2>1
    <2> QED
        BY <1>6, <2>2
<1>8. to \in Seq(WellFormed) /\ Len(to) = n
    <2> HIDE DEF to
    <2>1. \A k \in 1..n : to[k] \in WellFormed
        BY <1>2, <1>3
    <2>2. \E g : to = [k \in 1..n |-> g[k]]
        <3>1. to = [k \in 1..n |-> to[k]]
            BY <1>3
        <3> QED
            BY <3>1
    <2> QED
        BY <1>1, <2>1, <2>2
<1>9. upTo \in Seq(Nat) /\ Len(upTo) = n
    <2>1. \A k \in 1..n : upTo[k] \in Nat
        BY <1>4, <1>7
    <2>2. upTo = [k \in 1..n |-> upTo[k]]
        BY <1>3
    <2> HIDE DEF upTo
    <2> QED
        BY <1>1, <2>1, <2>2
<1>10. \A i, j \in 1..n : i <= j => upTo[i] <= upTo[j]
    <2> SUFFICES ASSUME NEW i \in 1..n, NEW j \in 1..n, i <= j
                 PROVE  upTo[i] <= upTo[j]
        OBVIOUS
    <2>1. j \in 0..n /\ i \in 0..j
        BY <1>1
    <2>2. Sum(i) <= Sum(j)
        BY <1>5, <2>1
    <2> HIDE DEF upTo
    <2> QED
        BY <1>4, <2>2
<1>11. TotalBps(TableOf(rs)) = TOTAL_BPS
    BY TableOfShares DEF ValidRecipients
<1> QED
    BY <1>8, <1>9, <1>10, <1>11 DEF IsShareTable

\* resolveDistributions gives away exactly the balance, whatever it is, in amounts
\* that are not negative; all but the last are those of the contract.
THEOREM ResolvesTheWholeBalance ==
    ASSUME NEW S, NEW rs \in Seq(S), HasShares(rs), ValidRecipients(rs), NEW balance \in Nat
    PROVE  LET amounts == ResolveDistributions(rs, balance)
           IN  /\ \A k \in DOMAIN amounts : amounts[k] >= 0
               /\ SumFunction(amounts) = balance
               /\ \A k \in 1..(Len(rs) - 1) : amounts[k] = Floor(balance, TableOf(rs), k)
<1> DEFINE n == Len(rs)
           amounts == ResolveDistributions(rs, balance)
           share(k) == (balance * rs[k].shareBps) \div TOTAL_BPS
           shares == [k \in 1..(n - 1) |-> share(k)]
           given == SumFunctionOnSet(shares, 1..(n - 1))
<1>1. n \in Nat \ {0} /\ DOMAIN rs = 1..n
    BY DEF HasShares, ValidRecipients
<1>2. \A k \in 1..n : rs[k].shareBps \in Int /\ rs[k].shareBps >= 1 /\ rs[k].shareBps <= 10000
    <2>1. \A k \in 1..n : rs[k].shareBps \in 1..TOTAL_BPS
        BY <1>1 DEF ValidRecipients, ValidRecipient
    <2>2. \A x : x \in 1..TOTAL_BPS => x \in Int /\ x >= 1 /\ x <= 10000
        BY DEF TOTAL_BPS
    <2> QED
        BY <2>1, <2>2
<1>3. ASSUME NEW k \in 1..n
      PROVE  share(k) \in Nat /\ TOTAL_BPS * share(k) <= balance * rs[k].shareBps
    <2>1. balance * rs[k].shareBps \in Nat
        BY <1>2
    <2> QED
        BY <2>1 DEF TOTAL_BPS
<1>4. amounts = [k \in 1..n |-> IF k < n THEN share(k) ELSE balance - given]
    BY <1>1 DEF ResolveDistributions, SumFunction
<1>5. IsFiniteSet(1..n) /\ IsFiniteSet(1..(n - 1)) /\ (1..n) \ {n} = 1..(n - 1) /\ n \in 1..n
    <2>1. n \in Int /\ n - 1 \in Int /\ 1 \in Int
        BY <1>1
    <2>2. IsFiniteSet(1..n) /\ IsFiniteSet(1..(n - 1))
        BY <2>1, FS_Interval
    <2> QED
        BY <1>1, <2>2
<1>6. \A k \in 1..(n - 1) : k \in 1..n /\ k < n
    BY <1>1
<1>7. given \in Int /\ TOTAL_BPS * given <= balance * SumFunctionOnSet(Bps(rs), 1..(n - 1))
    <2>1. /\ TOTAL_BPS \in Int
          /\ \A k \in 1..(n - 1) : /\ shares[k] \in Int /\ Bps(rs)[k] \in Int
                                   /\ TOTAL_BPS * shares[k] <= balance * Bps(rs)[k]
        <3>1. ASSUME NEW k \in 1..(n - 1)
              PROVE  /\ shares[k] \in Int /\ Bps(rs)[k] \in Int
                     /\ TOTAL_BPS * shares[k] <= balance * Bps(rs)[k]
            <4>1. k \in 1..n
                BY <1>6
            <4>2. shares[k] = share(k) /\ Bps(rs)[k] = rs[k].shareBps
                BY <1>1, <4>1 DEF Bps
            <4>3. rs[k].shareBps \in Int
                BY <1>2, <4>1
            <4> HIDE DEF share, shares
            <4> QED
                BY <1>3, <4>1, <4>2, <4>3
        <3> HIDE DEF shares
        <3> QED
            BY <3>1 DEF TOTAL_BPS
    <2>2. given \in Int
        <3> HIDE DEF shares
        <3> QED
            BY <1>5, <2>1, SumIsInteger
    <2>3. balance \in Int
        OBVIOUS
    <2> HIDE DEF shares
    <2> QED
        BY <1>5, <2>1, <2>2, <2>3, SumsCompare
<1>8. SumFunctionOnSet(Bps(rs), 1..(n - 1)) \in Int
      /\ SumFunctionOnSet(Bps(rs), 1..(n - 1)) <= TOTAL_BPS
    <2>1. /\ SumFunctionOnSet(Bps(rs), 1..n) = rs[n].shareBps + SumFunctionOnSet(Bps(rs), 1..(n - 1))
          /\ SumFunctionOnSet(Bps(rs), 1..(n - 1)) \in Int
        BY <1>5, NextShare
    <2>2. SumFunctionOnSet(Bps(rs), 1..n) = TOTAL_BPS
        BY TotalIsSum DEF ValidRecipients
    <2> DEFINE rest == SumFunctionOnSet(Bps(rs), 1..(n - 1))
               last == rs[n].shareBps
    <2>3. last \in Int /\ last >= 1 /\ rest \in Int /\ 10000 = last + rest
        <3>1. rest \in Int /\ 10000 = last + rest
            BY <2>1, <2>2 DEF TOTAL_BPS
        <3> QED
            BY <1>2, <1>5, <3>1
    <2> HIDE DEF rest, last
    <2>4. rest <= 10000
        BY <2>3
    <2> QED
        BY <2>3, <2>4 DEF rest, TOTAL_BPS
<1>9. given <= balance
    <2>1. balance * SumFunctionOnSet(Bps(rs), 1..(n - 1)) <= balance * TOTAL_BPS
        <3>1. \A p, q \in Int : p <= q => balance * p <= balance * q
            OBVIOUS
        <3> QED
            BY <1>8, <3>1 DEF TOTAL_BPS
    <2>2. TOTAL_BPS * given <= balance * TOTAL_BPS
        <3> DEFINE p == balance * SumFunctionOnSet(Bps(rs), 1..(n - 1))
        <3>1. p \in Int
            BY <1>8
        <3> HIDE DEF p, given
        <3> QED
            BY <1>7, <2>1, <3>1 DEF TOTAL_BPS, p
    <2> HIDE DEF given
    <2> QED
        BY <1>7, <2>2 DEF TOTAL_BPS
<1>10. \A k \in DOMAIN amounts : amounts[k] \in Int /\ amounts[k] >= 0
    <2> HIDE DEF given, share
    <2> QED
        BY <1>3, <1>4, <1>7, <1>9
<1>11. SumFunction(amounts) = balance
    <2>1. SumFunctionOnSet(amounts, 1..(n - 1)) = given
        <3>1. \A k \in 1..(n - 1) : amounts[k] = shares[k]
            <4> HIDE DEF given, share
            <4> QED
                BY <1>4, <1>6 DEF shares
        <3> HIDE DEF amounts, shares
        <3> QED
            BY <1>5, <3>1, SumsOfEqual DEF given
    <2>2. amounts[n] = balance - given
        <3> HIDE DEF given, share
        <3> QED
            BY <1>1, <1>4, <1>5
    <2>3. DOMAIN amounts = 1..n
        BY <1>4
    <2> HIDE DEF amounts, given
    <2>4. SumFunctionOnSet(amounts, 1..n) = amounts[n] + SumFunctionOnSet(amounts, 1..(n - 1))
        BY <1>5, <1>10, <2>3, SumWithout
    <2> QED
        BY <1>7, <2>1, <2>2, <2>3, <2>4 DEF SumFunction
<1>12. ASSUME NEW k \in 1..(n - 1)
       PROVE  amounts[k] = Floor(balance, TableOf(rs), k)
    <2>1. ShareBps(TableOf(rs), k) = rs[k].shareBps
        BY <1>6, TableOfShares
    <2>2. amounts[k] = share(k)
        <3> HIDE DEF given, share
        <3> QED
            BY <1>4, <1>6
    <2> QED
        BY <2>1, <2>2 DEF Floor
<1> QED
    BY <1>10, <1>11, <1>12

-----------------------------------------------------------------------------
(* Durations and triggers                                                  *)

Positive == Nat \ {0}

\* What the duration input sets is a positive number of days.
LEMMA JoinedIsPositive ==
    ASSUME NEW d, d.value \in Int, d.unit \in DOMAIN DaysIn
    PROVE  JoinDuration(d) \in Positive
<1>1. DaysIn[d.unit] \in {1, 30, 365}
    BY DEF DaysIn
<1>2. \A v \in Int : \A f \in {1, 30, 365} : v >= 1 => v * f \in Positive
    BY DEF Positive
<1>3. CASE d.value < 1
    BY <1>3 DEF JoinDuration, Positive
<1>4. CASE d.value >= 1
    BY <1>1, <1>2, <1>4 DEF JoinDuration
<1> QED
    BY <1>3, <1>4

\* splitDuration picks a unit that is exact.
LEMMA SplitIsExact ==
    ASSUME NEW days \in Positive
    PROVE  /\ SplitDuration(days).value \in Positive
           /\ SplitDuration(days).unit \in DOMAIN DaysIn
           /\ JoinDuration(SplitDuration(days)) = days
<1>1. days \in Nat /\ days >= 1
    BY DEF Positive
<1>2. CASE days % 365 = 0
    <2>1. SplitDuration(days) = [value |-> days \div 365, unit |-> "years"]
        BY <1>2 DEF SplitDuration, DaysIn
    <2>2. days \div 365 \in Nat /\ days \div 365 >= 1 /\ (days \div 365) * 365 = days
        BY <1>1, <1>2
    <2> QED
        BY <2>1, <2>2 DEF JoinDuration, DaysIn, Positive
<1>3. CASE days % 365 # 0 /\ days % 30 = 0
    <2>1. SplitDuration(days) = [value |-> days \div 30, unit |-> "months"]
        BY <1>3 DEF SplitDuration, DaysIn
    <2>2. days \div 30 \in Nat /\ days \div 30 >= 1 /\ (days \div 30) * 30 = days
        BY <1>1, <1>3
    <2> QED
        BY <2>1, <2>2 DEF JoinDuration, DaysIn, Positive
<1>4. CASE days % 365 # 0 /\ days % 30 # 0
    <2>1. SplitDuration(days) = [value |-> days \div 1, unit |-> "days"]
        BY <1>4 DEF SplitDuration, DaysIn
    <2>2. days \div 1 = days
        BY <1>1
    <2> QED
        BY <1>1, <2>1, <2>2 DEF JoinDuration, DaysIn, Positive
<1> QED
    BY <1>2, <1>3, <1>4

\* formatInterval, too.
LEMMA FormatIsExact ==
    ASSUME NEW days \in Positive
    PROVE  JoinDuration(FormatInterval(days)) = days
<1>1. days \in Nat /\ days >= 1
    BY DEF Positive
<1>2. CASE days >= 365 /\ days % 365 = 0
    <2>1. FormatInterval(days) = [value |-> days \div 365, unit |-> "years"]
        BY <1>2 DEF FormatInterval, DaysIn
    <2>2. days \div 365 \in Nat /\ days \div 365 >= 1 /\ (days \div 365) * 365 = days
        BY <1>1, <1>2
    <2> QED
        BY <2>1, <2>2 DEF JoinDuration, DaysIn
<1>3. CASE days % 365 # 0 /\ days >= 30 /\ days % 30 = 0
    <2>1. FormatInterval(days) = [value |-> days \div 30, unit |-> "months"]
        BY <1>3 DEF FormatInterval, DaysIn
    <2>2. days \div 30 \in Nat /\ days \div 30 >= 1 /\ (days \div 30) * 30 = days
        BY <1>1, <1>3
    <2> QED
        BY <2>1, <2>2 DEF JoinDuration, DaysIn
<1>4. CASE ~(days >= 365 /\ days % 365 = 0) /\ ~(days % 365 # 0 /\ days >= 30 /\ days % 30 = 0)
    <2>1. FormatInterval(days) = [value |-> days \div 1, unit |-> "days"]
        BY <1>4 DEF FormatInterval, DaysIn
    <2>2. days \div 1 = days
        BY <1>1
    <2> QED
        BY <1>1, <2>1, <2>2 DEF JoinDuration, DaysIn
<1> QED
    BY <1>2, <1>3, <1>4

HeartbeatDrafts ==
    [kind : {"manualHeartbeat"}, intervalSeconds : Positive, demoMode : BOOLEAN]
PaymentDrafts ==
    [kind : {"chainProofOfLife"}, intervalSeconds : Positive, sourceId : {"testXRP"},
     destinationAddress : Destinations \cup {Empty}, minimumAmount : Nat]
DateDrafts == [kind : {"timestamp"}, executeAfter : Int]

\* The drafts of a trigger, kind by kind.
LEMMA DraftsByKind ==
    /\ TriggerDrafts = HeartbeatDrafts \cup PaymentDrafts \cup DateDrafts
    /\ \A t \in HeartbeatDrafts : t.kind = "manualHeartbeat" /\ t.intervalSeconds \in Positive
    /\ \A t \in PaymentDrafts : t.kind = "chainProofOfLife" /\ t.intervalSeconds \in Positive
    /\ \A t \in DateDrafts : t.kind = "timestamp"
    /\ \A t \in TriggerDrafts : t.kind \in Kinds
BY DEF TriggerDrafts, HeartbeatDrafts, PaymentDrafts, DateDrafts, Positive, Kinds

\* What a kind starts with is a draft of that kind.
LEMMA DefaultsAreDrafts ==
    ASSUME NEW now \in Int
    PROVE  /\ Defaults("manualHeartbeat", now) \in HeartbeatDrafts
           /\ Defaults("chainProofOfLife", now) \in PaymentDrafts
           /\ Defaults("timestamp", now) \in DateDrafts
           /\ \A t \in Templates \cup {NoTemplate} : SeededTrigger(t, now) \in TriggerDrafts
<1>1. Defaults("manualHeartbeat", now) \in HeartbeatDrafts
    BY DEF Defaults, HeartbeatTrigger, HeartbeatDrafts, YEAR, Positive
<1>2. Defaults("chainProofOfLife", now) \in PaymentDrafts
    BY DEF Defaults, PaymentDrafts, YEAR, Positive, MinimumHeartbeat
<1>3. Defaults("timestamp", now) \in DateDrafts
    BY DEF Defaults, TimestampTrigger, DateDrafts, YEAR
<1>4. XrpInheritance(TRUE) \in HeartbeatDrafts
    BY DEF XrpInheritance, HeartbeatTrigger, HeartbeatDrafts, YEAR, Positive
<1>5. ScheduledDistribution(now) \in DateDrafts
    BY DEF ScheduledDistribution, TimestampTrigger, DateDrafts, YEAR
<1> QED
    BY <1>1, <1>2, <1>3, <1>4, <1>5, DraftsByKind DEF SeededTrigger

\* Switching the kind makes a draft of that kind, and keeps the interval where
\* both kinds have one.
LEMMA SwitchMakesDrafts ==
    ASSUME NEW current \in TriggerDrafts, NEW kind \in Kinds, NEW now \in Int
    PROVE  LET next == SwitchTriggerKind(current, kind, now)
           IN  /\ next \in TriggerDrafts
               /\ next.kind = kind
               /\ {current.kind, kind} \subseteq Kinds \ {"timestamp"}
                      => next.intervalSeconds = current.intervalSeconds
<1> DEFINE default == Defaults(kind, now)
           carried == {f \in Fields[kind] \cap DOMAIN current : current[f] # Empty}
           next == SwitchTriggerKind(current, kind, now)
<1>1. \/ current \in HeartbeatDrafts
      \/ current \in PaymentDrafts
      \/ current \in DateDrafts
    BY DraftsByKind
<1>2. \A n \in Positive : n # Empty
    BY StudioAssumption DEF Positive
<1>3. /\ DOMAIN next = DOMAIN default
      /\ next = [f \in DOMAIN default |-> next[f]]
      /\ \A f \in DOMAIN default \cap carried : next[f] = current[f]
      /\ \A f \in DOMAIN default \ carried : next[f] = default[f]
    BY DEF SwitchTriggerKind
<1>4. "kind" \notin carried
    BY DEF Fields, Kinds
<1> HIDE DEF next, default
<1>5. ASSUME kind # "timestamp", "intervalSeconds" \in DOMAIN default,
             default["intervalSeconds"] \in Positive
      PROVE  /\ next.intervalSeconds \in Positive
             /\ current \notin DateDrafts => next.intervalSeconds = current.intervalSeconds
    <2>1. CASE current \in DateDrafts
        <3>1. "intervalSeconds" \notin carried
            BY <2>1 DEF DateDrafts
        <3> QED
            BY <1>3, <1>5, <2>1, <3>1
    <2>2. CASE current \in HeartbeatDrafts \cup PaymentDrafts
        <3>1. "intervalSeconds" \in DOMAIN current /\ current["intervalSeconds"] \in Positive
            BY <2>2 DEF HeartbeatDrafts, PaymentDrafts
        <3>2. "intervalSeconds" \in Fields[kind]
            BY <1>5 DEF Fields, Kinds
        <3>3. "intervalSeconds" \in carried
            BY <1>2, <3>1, <3>2
        <3> HIDE DEF carried
        <3> QED
            BY <1>3, <1>5, <3>1, <3>3
    <2> QED
        BY <1>1, <2>1, <2>2
<1>6. CASE kind = "manualHeartbeat"
    <2>1. default = [kind |-> kind, intervalSeconds |-> YEAR, demoMode |-> FALSE]
        BY <1>6 DEF Defaults, HeartbeatTrigger, default
    <2>2. DOMAIN default = {"kind", "intervalSeconds", "demoMode"} /\ YEAR \in Positive
        BY <2>1 DEF YEAR, Positive
    <2>3. next.kind = kind
        BY <1>3, <1>4, <2>1, <2>2
    <2>4. /\ next.intervalSeconds \in Positive
          /\ current \notin DateDrafts => next.intervalSeconds = current.intervalSeconds
        BY <1>5, <1>6, <2>1, <2>2
    <2>5. next.demoMode \in BOOLEAN
        <3>1. CASE "demoMode" \in carried
            <4>1. current \in HeartbeatDrafts
                BY <1>1, <3>1 DEF PaymentDrafts, DateDrafts
            <4>2. current["demoMode"] \in BOOLEAN
                BY <4>1 DEF HeartbeatDrafts
            <4> HIDE DEF carried
            <4> QED
                BY <1>3, <2>2, <3>1, <4>2
        <3>2. CASE "demoMode" \notin carried
            <4> HIDE DEF carried
            <4>1. default["demoMode"] = FALSE /\ next["demoMode"] = default["demoMode"]
                BY <1>3, <2>1, <2>2, <3>2
            <4> QED
                BY <4>1
        <3> QED
            BY <3>1, <3>2
    <2>6. next \in HeartbeatDrafts
        BY <1>3, <1>6, <2>2, <2>3, <2>4, <2>5 DEF HeartbeatDrafts
    <2> QED
        BY <1>1, <2>3, <2>4, <2>6, DraftsByKind DEF next
<1>7. CASE kind = "chainProofOfLife"
    <2>1. default = [kind |-> kind, intervalSeconds |-> YEAR, sourceId |-> "testXRP",
                     destinationAddress |-> Empty, minimumAmount |-> MinimumHeartbeat]
        BY <1>7 DEF Defaults, default
    <2>2. /\ DOMAIN default = {"kind", "intervalSeconds", "sourceId", "destinationAddress",
                               "minimumAmount"}
          /\ YEAR \in Positive /\ MinimumHeartbeat \in Nat
        BY <2>1 DEF YEAR, Positive, MinimumHeartbeat
    <2>3. next.kind = kind
        BY <1>3, <1>4, <2>1, <2>2
    <2>4. /\ next.intervalSeconds \in Positive
          /\ current \notin DateDrafts => next.intervalSeconds = current.intervalSeconds
        BY <1>5, <1>7, <2>1, <2>2
    <2>5. next.sourceId = "testXRP"
        <3>1. "sourceId" \notin carried
            BY <1>7 DEF Fields
        <3> HIDE DEF carried
        <3> QED
            BY <1>3, <2>1, <2>2, <3>1
    <2>6. next.destinationAddress \in Destinations \cup {Empty}
        <3>1. CASE "destinationAddress" \in carried
            <4>1. current \in PaymentDrafts
                BY <1>1, <3>1 DEF HeartbeatDrafts, DateDrafts
            <4>2. current["destinationAddress"] \in Destinations \cup {Empty}
                BY <4>1 DEF PaymentDrafts
            <4> HIDE DEF carried
            <4> QED
                BY <1>3, <2>2, <3>1, <4>2
        <3>2. CASE "destinationAddress" \notin carried
            <4> HIDE DEF carried
            <4> QED
                BY <1>3, <2>1, <2>2, <3>2
        <3> QED
            BY <3>1, <3>2
    <2>7. next.minimumAmount \in Nat
        <3>1. CASE "minimumAmount" \in carried
            <4>1. current \in PaymentDrafts
                BY <1>1, <3>1 DEF HeartbeatDrafts, DateDrafts
            <4>2. current["minimumAmount"] \in Nat
                BY <4>1 DEF PaymentDrafts
            <4> HIDE DEF carried
            <4> QED
                BY <1>3, <2>2, <3>1, <4>2
        <3>2. CASE "minimumAmount" \notin carried
            <4> HIDE DEF carried
            <4> QED
                BY <1>3, <2>1, <2>2, <3>2
        <3> QED
            BY <3>1, <3>2
    <2>8. next \in PaymentDrafts
        BY <1>3, <1>7, <2>2, <2>3, <2>4, <2>5, <2>6, <2>7 DEF PaymentDrafts
    <2> QED
        BY <1>1, <2>3, <2>4, <2>8, DraftsByKind DEF next
<1>8. CASE kind = "timestamp"
    <2>1. default = [kind |-> kind, executeAfter |-> now + YEAR]
        BY <1>8 DEF Defaults, TimestampTrigger, default
    <2>2. DOMAIN default = {"kind", "executeAfter"} /\ now + YEAR \in Int
        BY <2>1 DEF YEAR
    <2>3. next.kind = kind
        BY <1>3, <1>4, <2>1, <2>2
    <2>4. next.executeAfter \in Int
        <3>1. CASE "executeAfter" \in carried
            <4>1. current \in DateDrafts
                BY <1>1, <3>1 DEF HeartbeatDrafts, PaymentDrafts
            <4>2. current["executeAfter"] \in Int
                BY <4>1 DEF DateDrafts
            <4> HIDE DEF carried
            <4> QED
                BY <1>3, <2>2, <3>1, <4>2
        <3>2. CASE "executeAfter" \notin carried
            <4> HIDE DEF carried
            <4> QED
                BY <1>3, <2>1, <2>2, <3>2
        <3> QED
            BY <3>1, <3>2
    <2>5. next \in DateDrafts
        BY <1>3, <1>8, <2>2, <2>3, <2>4 DEF DateDrafts
    <2> QED
        BY <1>8, <2>3, <2>5, DraftsByKind DEF next
<1> QED
    BY <1>6, <1>7, <1>8 DEF Kinds, next
-----------------------------------------------------------------------------
(* The form                                                                *)

StepNames == {"asset", "trigger", "confidential", "action-0"}

\* The form has a step, and shows one of those it has.
LEMMA ShowsAStep ==
    /\ Len(Steps) \in Nat
    /\ \A k \in 1..Len(Steps) : Steps[k] \in StepNames
    /\ Index \in 1..Len(Steps)
<1> DEFINE front == <<"asset", "trigger">>
           middle == IF ConfidentialInputCount > 0 THEN <<"confidential">> ELSE <<>>
           last == <<"action-0">>
<1>1. /\ front \in Seq(StepNames) /\ Len(front) = 2
      /\ middle \in Seq(StepNames) /\ Len(middle) \in Nat
      /\ last \in Seq(StepNames) /\ Len(last) = 1
    <2>1. /\ "asset" \in StepNames /\ "trigger" \in StepNames
          /\ "confidential" \in StepNames /\ "action-0" \in StepNames
        BY DEF StepNames
    <2>2. middle = <<"confidential">> \/ middle = <<>>
        OBVIOUS
    <2>3. <<"confidential">> \in Seq(StepNames) /\ <<>> \in Seq(StepNames)
        BY <2>1
    <2>4. middle \in Seq(StepNames)
        BY <2>2, <2>3
    <2>5. front \in Seq(StepNames) /\ Len(front) = 2 /\ last \in Seq(StepNames) /\ Len(last) = 1
        BY <2>1
    <2> HIDE DEF middle
    <2> QED
        BY <2>4, <2>5
<1>2. Steps = front \o middle \o last
    BY DEF Steps
<1> HIDE DEF front, middle, last
<1>3. front \o middle \in Seq(StepNames) /\ Len(front \o middle) = 2 + Len(middle)
    <2>1. /\ front \o middle \in Seq(StepNames)
          /\ Len(front \o middle) = Len(front) + Len(middle)
        BY <1>1, ConcatProperties
    <2> QED
        BY <1>1, <2>1
<1>4. Steps \in Seq(StepNames) /\ Len(Steps) = 2 + Len(middle) + 1
    <2>1. /\ (front \o middle) \o last \in Seq(StepNames)
          /\ Len((front \o middle) \o last) = Len(front \o middle) + Len(last)
        BY <1>1, <1>3, ConcatProperties
    <2> QED
        BY <1>1, <1>2, <1>3, <2>1
<1>5. /\ Len(Steps) \in Nat /\ 1 \in 1..Len(Steps) /\ DOMAIN Steps = 1..Len(Steps)
      /\ \A k \in 1..Len(Steps) : Steps[k] \in StepNames
    BY <1>1, <1>4
<1>6. Index \in 1..Len(Steps)
    BY <1>5 DEF Index, Contains
<1> QED
    BY <1>5, <1>6

\* What a user types, and what a draft starts with.
Texts == WellFormed \cup AddressTexts \cup LabelTexts \cup STRING
Recipient == [address : Texts, shareBps : Int, label : Texts]

\* A draft's recipients can be added up.
LEMMA DraftsHaveShares ==
    ASSUME NEW rs \in Seq(Recipient)
    PROVE  HasShares(rs)
<1>1. \A r \in Recipient : r.shareBps \in Int
    BY DEF Recipient
<1>2. Len(rs) \in Nat /\ DOMAIN rs = 1..Len(rs) /\ \A k \in 1..Len(rs) : rs[k] \in Recipient
    OBVIOUS
<1> QED
    BY <1>1, <1>2 DEF HasShares

\* Every edit of the list makes a list of recipients that is not too long.
LEMMA EditsMakeRecipients ==
    ASSUME recipients \in Seq(Recipient), Len(recipients) <= MaxRecipients, EditRecipients
    PROVE  \E next \in Seq(Recipient) : Len(next) <= MaxRecipients /\ ChangeRecipients(next)
<1> DEFINE n == Len(recipients)
           Legal(next) == next \in Seq(Recipient) /\ Len(next) <= MaxRecipients
<1>1. /\ n \in Nat /\ DOMAIN recipients = 1..n /\ \A k \in 1..n : recipients[k] \in Recipient
      /\ MaxRecipients \in Nat
    BY StudioAssumption
<1>2. ASSUME NEW k \in 1..n, NEW r \in Recipient
      PROVE  Legal(ReplaceAt(recipients, k, r))
    <2>1. ReplaceAt(recipients, k, r) \in Seq(Recipient)
        BY <1>1 DEF ReplaceAt
    <2>2. Len(ReplaceAt(recipients, k, r)) = n
        BY <1>1 DEF ReplaceAt
    <2> QED
        BY <2>1, <2>2
<1>3. \A k \in 1..n : \A a \in Texts : [recipients[k] EXCEPT !.address = a] \in Recipient
    BY <1>1 DEF Recipient
<1>4. \A k \in 1..n : \A l \in Texts : [recipients[k] EXCEPT !.label = l] \in Recipient
    BY <1>1 DEF Recipient
<1>5. \A k \in 1..n : \A bps \in Int : [recipients[k] EXCEPT !.shareBps = bps] \in Recipient
    BY <1>1 DEF Recipient
<1>6. ASSUME NEW k \in 1..n, TypeAddress(k)
      PROVE  \E next : Legal(next) /\ ChangeRecipients(next)
    <2> HIDE DEF Legal
    <2> QED
        BY <1>2, <1>3, <1>6 DEF TypeAddress, Update, Texts
<1>7. ASSUME NEW k \in 1..n, TypeLabel(k)
      PROVE  \E next : Legal(next) /\ ChangeRecipients(next)
    <2> HIDE DEF Legal
    <2> QED
        BY <1>2, <1>4, <1>7 DEF TypeLabel, Update, Texts
<1>8. ASSUME NEW k \in 1..n, TypeShare(k)
      PROVE  \E next : Legal(next) /\ ChangeRecipients(next)
    <2> HIDE DEF Legal
    <2> QED
        BY <1>2, <1>5, <1>8, StudioAssumption DEF TypeShare, Update
<1>9. ASSUME NEW k \in 1..n, RemoveRecipient(k)
      PROVE  \E next : Legal(next) /\ ChangeRecipients(next)
    <2> DEFINE front == SubSeq(recipients, 1, k - 1)
               back == SubSeq(recipients, k + 1, n)
    <2>1. /\ front \in Seq(Recipient) /\ Len(front) = k - 1
          /\ back \in Seq(Recipient) /\ Len(back) = n - k
        <3>1. 1 \in Int /\ k - 1 \in Int /\ k + 1 \in Int /\ n \in Int
            BY <1>1
        <3>2. /\ \A i \in 1..(k - 1) : recipients[i] \in Recipient
              /\ \A i \in (k + 1)..n : recipients[i] \in Recipient
            <4>1. \A i \in 1..(k - 1) : i \in 1..n
                BY <1>1
            <4>2. \A i \in (k + 1)..n : i \in 1..n
                BY <1>1
            <4> HIDE DEF n
            <4> QED
                BY <1>1, <4>1, <4>2
        <3>3. /\ front \in Seq(Recipient)
              /\ Len(front) = IF 1 <= k - 1 THEN k - 1 - 1 + 1 ELSE 0
            BY <3>1, <3>2, SubSeqProperties
        <3>4. /\ back \in Seq(Recipient)
              /\ Len(back) = IF k + 1 <= n THEN n - (k + 1) + 1 ELSE 0
            BY <3>1, <3>2, SubSeqProperties
        <3>5. /\ (IF 1 <= k - 1 THEN k - 1 - 1 + 1 ELSE 0) = k - 1
              /\ (IF k + 1 <= n THEN n - (k + 1) + 1 ELSE 0) = n - k
            <4> HIDE DEF n
            <4> QED
                BY <1>1
        <3> HIDE DEF front, back
        <3> QED
            BY <3>3, <3>4, <3>5
    <2>2. front \o back \in Seq(Recipient) /\ Len(front \o back) = n - 1
        <3> HIDE DEF front, back
        <3>1. /\ front \o back \in Seq(Recipient)
              /\ Len(front \o back) = Len(front) + Len(back)
            BY <2>1, ConcatProperties
        <3> QED
            BY <1>1, <2>1, <3>1
    <2>3. ChangeRecipients(front \o back)
        BY <1>9 DEF RemoveRecipient, RemoveAt
    <2> HIDE DEF front, back
    <2>4. Legal(front \o back)
        BY <1>1, <2>2
    <2> HIDE DEF Legal
    <2> QED
        BY <2>3, <2>4
<1>10. ASSUME Add
       PROVE  \E next : Legal(next) /\ ChangeRecipients(next)
    <2> DEFINE r == [address |-> Empty, shareBps |-> 0, label |-> Empty]
    <2>1. r \in Recipient
        BY StudioAssumption DEF Recipient, Texts
    <2>2. Append(recipients, r) \in Seq(Recipient) /\ Len(Append(recipients, r)) = n + 1
        <3> HIDE DEF r
        <3> QED
            BY <2>1, AppendProperties
    <2>3. n < MaxRecipients /\ ChangeRecipients(Append(recipients, r))
        BY <1>10 DEF Add
    <2> HIDE DEF r
    <2>4. Legal(Append(recipients, r))
        BY <1>1, <2>2, <2>3
    <2> HIDE DEF Legal
    <2> QED
        BY <2>3, <2>4
<1>11. ASSUME Rebalance
       PROVE  \E next : Legal(next) /\ ChangeRecipients(next)
    <2> DEFINE each == TOTAL_BPS \div n
               share(k) == IF k = n THEN TOTAL_BPS - each * (n - 1) ELSE each
               next == [k \in 1..n |-> [recipients[k] EXCEPT !.shareBps = share(k)]]
    <2>1. n > 0 /\ ChangeRecipients(next)
        BY <1>11 DEF Rebalance
    <2>2. \A k \in 1..n : share(k) \in Int
        BY <1>1, <2>1 DEF TOTAL_BPS
    <2> HIDE DEF share
    <2>3. \A k \in 1..n : next[k] \in Recipient
        BY <1>5, <2>2
    <2>4. next \in Seq(Recipient) /\ Len(next) = n
        <3>1. next = [k \in 1..n |-> next[k]]
            OBVIOUS
        <3> HIDE DEF next
        <3> QED
            BY <1>1, <2>3, <3>1
    <2> HIDE DEF next
    <2>5. Legal(next)
        BY <2>4
    <2> HIDE DEF Legal
    <2> QED
        BY <2>1, <2>5
<1> HIDE DEF Legal
<1>12. \E next : Legal(next) /\ ChangeRecipients(next)
    BY <1>1, <1>6, <1>7, <1>8, <1>9, <1>10, <1>11 DEF EditRecipients
<1> QED
    BY <1>12 DEF Legal

\* Whatever is rendered as the trigger is a draft.
LEMMA RendersADraft ==
    ASSUME TypeOK
    PROVE  ir.trigger \in TriggerDrafts
<1>1. seededOn \in Int /\ template \in Templates \cup {NoTemplate}
    BY StudioAssumption DEF TypeOK
<1>2. SeededTrigger(template, seededOn) \in TriggerDrafts
    BY <1>1, DefaultsAreDrafts
<1>3. trigger \in TriggerDrafts \cup {NoTrigger}
    BY DEF TypeOK
<1> QED
    BY <1>2, <1>3 DEF ir

\* Every edit of the trigger makes a draft, and keeps the interval unless it is the
\* interval that is edited.
LEMMA EditsMakeTriggers ==
    ASSUME TypeOK, EditTrigger
    PROVE  \E next \in TriggerDrafts :
               /\ ChangeTrigger(next)
               /\ ({ir.trigger.kind, next.kind} \subseteq Kinds \ {"timestamp"}
                      /\ ir.trigger.kind # next.kind)
                     => next.intervalSeconds = ir.trigger.intervalSeconds
<1> DEFINE t == ir.trigger
           Legal(next) ==
               /\ next \in TriggerDrafts
               /\ ({t.kind, next.kind} \subseteq Kinds \ {"timestamp"} /\ t.kind # next.kind)
                     => next.intervalSeconds = t.intervalSeconds
<1>1. t \in TriggerDrafts
    BY RendersADraft
<1>2. \/ t \in HeartbeatDrafts
      \/ t \in PaymentDrafts
      \/ t \in DateDrafts
    BY <1>1, DraftsByKind
<1> HIDE DEF t
<1>3. ASSUME ChangeKind
      PROVE  \E next : Legal(next) /\ ChangeTrigger(next)
    <2>1. PICK kind \in Kinds : ChangeTrigger(SwitchTriggerKind(t, kind, today))
        BY <1>3 DEF ChangeKind, t
    <2>2. today \in Int
        BY StudioAssumption DEF TypeOK
    <2>3. Legal(SwitchTriggerKind(t, kind, today))
        BY <1>1, <2>2, SwitchMakesDrafts
    <2> QED
        BY <2>1, <2>3
\* A field is edited without changing the kind.
<1>4. ASSUME NEW next \in TriggerDrafts, next.kind = t.kind
      PROVE  Legal(next)
    BY <1>4
<1>5. ASSUME TypeDuration
      PROVE  \E next : Legal(next) /\ ChangeTrigger(next)
    <2>1. PICK v \in TypedDurations : ChangeTrigger([t EXCEPT !["intervalSeconds"] = v])
        BY <1>5 DEF TypeDuration, SetField, t
    <2>2. t.kind # "timestamp"
        BY <1>5 DEF TypeDuration, t
    <2>3. t \in HeartbeatDrafts \cup PaymentDrafts /\ t.intervalSeconds \in Positive
        BY <1>2, <2>2, DraftsByKind
    <2>4. v \in Positive
        <3>1. /\ Shown.value \in Int /\ Shown.unit \in DOMAIN DaysIn
              /\ Shown = [value |-> Shown.value, unit |-> Shown.unit]
            <4>1. Shown = SplitDuration(t.intervalSeconds)
                BY DEF Shown, t
            <4>2. Shown = [value |-> Shown.value, unit |-> Shown.unit]
                BY <4>1 DEF SplitDuration
            <4> QED
                BY <2>3, <4>1, <4>2, SplitIsExact DEF Positive
        <3>2. \A d \in Durations : d.value \in Int /\ d.unit \in DOMAIN DaysIn
            BY StudioAssumption
        <3>3. ASSUME NEW d \in Durations
              PROVE  /\ JoinDuration([Shown EXCEPT !.value = d.value]) \in Positive
                     /\ JoinDuration([Shown EXCEPT !.unit = d.unit]) \in Positive
            <4> DEFINE p == [Shown EXCEPT !.value = d.value]
                       q == [Shown EXCEPT !.unit = d.unit]
            <4>1. p.value = d.value /\ p.unit = Shown.unit
                BY <3>1
            <4>2. q.value = Shown.value /\ q.unit = d.unit
                BY <3>1
            <4> HIDE DEF p, q
            <4>3. JoinDuration(p) \in Positive /\ JoinDuration(q) \in Positive
                BY <3>1, <3>2, <4>1, <4>2, JoinedIsPositive
            <4> QED
                BY <4>3 DEF p, q
        <3> QED
            BY <3>3 DEF TypedDurations
    <2>5. [t EXCEPT !["intervalSeconds"] = v] \in TriggerDrafts
          /\ [t EXCEPT !["intervalSeconds"] = v].kind = t.kind
        <3>1. CASE t \in HeartbeatDrafts
            BY <2>4, <3>1, DraftsByKind DEF HeartbeatDrafts
        <3>2. CASE t \in PaymentDrafts
            BY <2>4, <3>2, DraftsByKind DEF PaymentDrafts
        <3> QED
            BY <2>3, <3>1, <3>2
    <2> HIDE DEF Legal
    <2> QED
        BY <1>4, <2>1, <2>5
<1>6. ASSUME ToggleDemo
      PROVE  \E next : Legal(next) /\ ChangeTrigger(next)
    <2>1. ChangeTrigger([t EXCEPT !["demoMode"] = ~t.demoMode]) /\ t.kind = "manualHeartbeat"
        BY <1>6 DEF ToggleDemo, SetField, t
    <2>2. t \in HeartbeatDrafts
        BY <1>2, <2>1, DraftsByKind
    <2>3. [t EXCEPT !["demoMode"] = ~t.demoMode] \in HeartbeatDrafts
        BY <2>2 DEF HeartbeatDrafts
    <2>4. [t EXCEPT !["demoMode"] = ~t.demoMode] \in TriggerDrafts
          /\ [t EXCEPT !["demoMode"] = ~t.demoMode].kind = t.kind
        BY <2>2, <2>3, DraftsByKind
    <2> HIDE DEF Legal
    <2> QED
        BY <1>4, <2>1, <2>4
<1>7. ASSUME TypeDestination
      PROVE  \E next : Legal(next) /\ ChangeTrigger(next)
    <2>1. PICK v \in Destinations : ChangeTrigger([t EXCEPT !["destinationAddress"] = v])
        BY <1>7 DEF TypeDestination, SetField, t
    <2>2. "destinationAddress" \in Fields[t.kind]
        BY <1>7 DEF TypeDestination, SetField, t
    <2>3. t \in PaymentDrafts
        BY <1>2, <2>2, DraftsByKind DEF Fields
    <2>4. [t EXCEPT !["destinationAddress"] = v] \in PaymentDrafts
        BY <2>3 DEF PaymentDrafts
    <2>5. [t EXCEPT !["destinationAddress"] = v] \in TriggerDrafts
          /\ [t EXCEPT !["destinationAddress"] = v].kind = t.kind
        BY <2>3, <2>4, DraftsByKind
    <2> HIDE DEF Legal
    <2> QED
        BY <1>4, <2>1, <2>5
<1>8. ASSUME TypeAmount
      PROVE  \E next : Legal(next) /\ ChangeTrigger(next)
    <2>1. PICK v \in Amounts : ChangeTrigger([t EXCEPT !["minimumAmount"] = v])
        BY <1>8 DEF TypeAmount, SetField, t
    <2>2. "minimumAmount" \in Fields[t.kind]
        BY <1>8 DEF TypeAmount, SetField, t
    <2>3. t \in PaymentDrafts
        BY <1>2, <2>2, DraftsByKind DEF Fields
    <2>4. [t EXCEPT !["minimumAmount"] = v] \in PaymentDrafts
        BY <2>3, StudioAssumption DEF PaymentDrafts
    <2>5. [t EXCEPT !["minimumAmount"] = v] \in TriggerDrafts
          /\ [t EXCEPT !["minimumAmount"] = v].kind = t.kind
        BY <2>3, <2>4, DraftsByKind
    <2> HIDE DEF Legal
    <2> QED
        BY <1>4, <2>1, <2>5
<1>9. ASSUME PickDate
      PROVE  \E next : Legal(next) /\ ChangeTrigger(next)
    <2>1. PICK v \in Dates : ChangeTrigger([t EXCEPT !["executeAfter"] = v])
        BY <1>9 DEF PickDate, SetField, t
    <2>2. "executeAfter" \in Fields[t.kind]
        BY <1>9 DEF PickDate, SetField, t
    <2>3. t \in DateDrafts
        BY <1>2, <2>2, DraftsByKind DEF Fields
    <2>4. [t EXCEPT !["executeAfter"] = v] \in DateDrafts
        BY <2>3, StudioAssumption DEF DateDrafts
    <2>5. [t EXCEPT !["executeAfter"] = v] \in TriggerDrafts
          /\ [t EXCEPT !["executeAfter"] = v].kind = t.kind
        BY <2>3, <2>4, DraftsByKind
    <2> HIDE DEF Legal
    <2> QED
        BY <1>4, <2>1, <2>5
<1>10. \E next : Legal(next) /\ ChangeTrigger(next)
    <2> HIDE DEF Legal
    <2> QED
        BY <1>3, <1>5, <1>6, <1>7, <1>8, <1>9 DEF EditTrigger
<1> QED
    BY <1>10 DEF t

-----------------------------------------------------------------------------
(* The invariant                                                           *)

\* What can be on the screen of the review, and what compiles from that.
Rendered == [recipients : Seq(Recipient), trigger : TriggerDrafts]
WasReviewed(policy) == \E i \in Rendered : Compiles(i) /\ policy = Compile(i)

\* TypeOK says nothing of where a policy in the dialog comes from.  It need not be
\* the draft of now, which can be edited behind the dialog, but it was a draft.
StudioInv ==
    /\ TypeOK
    /\ recipients \in Seq(Recipient)
    /\ (reviewing \/ deploying # NoPolicy) => template # NoTemplate
    /\ deploying # NoPolicy => WasReviewed(deploying)

\* The screen depends on the draft alone.
LEMMA RenderedFromDraft ==
    ASSUME UNCHANGED draft
    PROVE  ir' = ir /\ Reviewed' = Reviewed
<1>1. ir' = ir
    BY DEF draft, ir
<1> QED
    BY <1>1 DEF Reviewed

\* What the review has compiled was on its screen.
LEMMA ReviewedFromScreen ==
    ASSUME StudioInv, Reviewed # NoPolicy
    PROVE  WasReviewed(Reviewed)
<1>1. ir \in Rendered
    BY RendersADraft DEF StudioInv, ir, Rendered
<1>2. Compiles(ir) /\ Reviewed = Compile(ir)
    BY DEF Reviewed
<1> QED
    BY <1>1, <1>2 DEF WasReviewed

\* What a draft starts with is as the invariant wants it.
LEMMA FreshDraft ==
    /\ InitialRecipients \in Seq(Recipient) /\ Len(InitialRecipients) <= MaxRecipients
    /\ \A k \in DOMAIN InitialRecipients : InitialRecipients[k].shareBps \in Int
    /\ Today \in Today..LastDay /\ 0 \in 0..MaxEdits
<1> DEFINE rs == InitialRecipients
           fresh == [address : WellFormed, shareBps : Int, label : STRING]
<1>1. rs \in Seq(fresh) /\ Len(rs) <= MaxRecipients
    BY StudioAssumption
<1>2. \A r \in fresh : r \in Recipient
    BY DEF Recipient, Texts
<1> HIDE DEF rs, fresh
<1>3. rs \in Seq(Recipient)
    BY <1>1, <1>2
<1>4. \A k \in DOMAIN rs : rs[k].shareBps \in Int
    BY <1>3, DraftsHaveShares DEF HasShares
<1>5. Today \in Today..LastDay /\ 0 \in 0..MaxEdits
    BY StudioAssumption
<1> QED
    BY <1>1, <1>3, <1>4, <1>5 DEF rs

\* It holds in the gallery, where no draft is open.
LEMMA StudioInit == Init => StudioInv
<1> SUFFICES ASSUME Init
             PROVE  StudioInv
    OBVIOUS
<1>1. TypeOK
    BY FreshDraft DEF Init, TypeOK
<1> QED
    BY <1>1, FreshDraft DEF Init, StudioInv

\* What an edit of the recipients leaves alone, and what it makes.
LEMMA ChangeRecipientsKeepsInv ==
    ASSUME StudioInv, NEW next \in Seq(Recipient), Len(next) <= MaxRecipients,
           ChangeRecipients(next)
    PROVE  StudioInv'
<1>1. /\ FormOpen /\ edits < MaxEdits
      /\ recipients' = next /\ seededOn' = today /\ edits' = edits + 1
      /\ UNCHANGED <<template, trigger, step, reviewing, deploying, deployed, today>>
    BY DEF ChangeRecipients, Editing, overlays
<1>2. WasReviewed(deploying)' = WasReviewed(deploying)
    BY <1>1 DEF WasReviewed
<1>3. \A k \in DOMAIN next : next[k].shareBps \in Int
    BY DraftsHaveShares DEF HasShares
<1>4. edits' \in 0..MaxEdits
    BY <1>1, StudioAssumption DEF StudioInv, TypeOK
<1>5. TypeOK'
    BY <1>1, <1>3, <1>4 DEF StudioInv, TypeOK
<1> QED
    BY <1>1, <1>2, <1>5 DEF StudioInv

\* Another kind, or another value in a field of the trigger.
LEMMA ChangeTriggerKeepsInv ==
    ASSUME StudioInv, NEW next \in TriggerDrafts, ChangeTrigger(next)
    PROVE  StudioInv'
<1>1. /\ FormOpen /\ edits < MaxEdits
      /\ trigger' = next /\ edits' = edits + 1
      /\ UNCHANGED <<template, recipients, seededOn, step, reviewing, deploying, deployed, today>>
    BY DEF ChangeTrigger, Editing, overlays
<1>2. WasReviewed(deploying)' = WasReviewed(deploying)
    BY <1>1 DEF WasReviewed
<1>3. edits' \in 0..MaxEdits
    BY <1>1, StudioAssumption DEF StudioInv, TypeOK
<1>4. TypeOK'
    BY <1>1, <1>3 DEF StudioInv, TypeOK
<1> QED
    BY <1>1, <1>2, <1>4 DEF StudioInv

\* The steps of the form, and its way in and out.
LEMMA GalleryKeepsInv ==
    ASSUME StudioInv, (\E t \in Templates : OpenTemplate(t)) \/ Leave
    PROVE  StudioInv'
<1>1. ASSUME NEW t \in Templates, OpenTemplate(t)
      PROVE  StudioInv'
    <2>1. /\ template = NoTemplate /\ template' = t /\ seededOn' = today
          /\ UNCHANGED <<recipients, trigger, edits, step, reviewing, deploying, deployed, today>>
        BY <1>1 DEF OpenTemplate, overlays
    <2>2. deploying' = NoPolicy /\ ~reviewing'
        BY <2>1 DEF StudioInv
    <2>3. TypeOK'
        BY <2>1 DEF StudioInv, TypeOK
    <2> QED
        BY <2>1, <2>2, <2>3 DEF StudioInv
<1>2. ASSUME Leave
      PROVE  StudioInv'
    <2>1. TypeOK'
        BY <1>2, FreshDraft DEF Leave, StudioInv, TypeOK
    <2> QED
        BY <1>2, <2>1, FreshDraft DEF Leave, StudioInv
<1> QED
    BY <1>1, <1>2

\* Whatever leaves the draft alone keeps what is derived from it.
LEMMA ScreenKeepsInv ==
    ASSUME StudioInv, UNCHANGED draft, TypeOK',
           (reviewing' \/ deploying' # NoPolicy) => template # NoTemplate,
           deploying' \in {deploying, Reviewed, NoPolicy}
    PROVE  StudioInv'
<1>1. UNCHANGED <<template, recipients>>
    BY DEF draft
<1>2. deploying' # NoPolicy => WasReviewed(deploying')
    BY ReviewedFromScreen DEF StudioInv
<1>3. deploying' # NoPolicy => WasReviewed(deploying)'
    BY <1>2 DEF WasReviewed
<1>4. recipients' \in Seq(Recipient)
    BY <1>1 DEF StudioInv
<1>5. (reviewing' \/ deploying' # NoPolicy) => template' # NoTemplate
    BY <1>1
<1> QED
    BY <1>3, <1>4, <1>5 DEF StudioInv

\* One action of the form, the review, the dialog or the calendar at a time.
LEMMA StudioStep ==
    ASSUME StudioInv, [Next]_studioVars
    PROVE  StudioInv'
<1>1. CASE \E t \in Templates : OpenTemplate(t)
    BY <1>1, GalleryKeepsInv
<1>2. CASE Leave
    BY <1>2, GalleryKeepsInv
<1>3. CASE StepStrip \/ Back \/ Forward
    <2>1. PICK k \in 1..Len(Steps) : GoTo(Steps[k])
        <3>1. /\ DOMAIN Steps = 1..Len(Steps)
              /\ Index > 1 => Index - 1 \in 1..Len(Steps)
              /\ Index < Len(Steps) => Index + 1 \in 1..Len(Steps)
            <4>1. DOMAIN Steps = 1..Len(Steps)
                BY DEF Steps
            <4> QED
                BY <4>1, ShowsAStep
        <3> QED
            BY <1>3, <3>1 DEF StepStrip, Back, Forward
    <2>2. Steps[k] \in StepNames
        BY ShowsAStep
    <2>3. /\ step' \in StepNames /\ FormOpen
          /\ UNCHANGED <<template, recipients, trigger, seededOn, edits, reviewing, deploying,
                         deployed, today>>
        BY <2>1, <2>2 DEF GoTo, draft, overlays
    <2>4. TypeOK' /\ UNCHANGED draft
        BY <2>3 DEF StudioInv, TypeOK, StepNames, draft
    <2> QED
        BY <2>3, <2>4, ScreenKeepsInv DEF FormOpen
<1>4. CASE EditRecipients
    <2>1. PICK next \in Seq(Recipient) : Len(next) <= MaxRecipients /\ ChangeRecipients(next)
        BY <1>4, EditsMakeRecipients DEF StudioInv, TypeOK
    <2> QED
        BY <2>1, ChangeRecipientsKeepsInv
<1>5. CASE EditTrigger
    <2>1. PICK next \in TriggerDrafts : ChangeTrigger(next)
        BY <1>5, EditsMakeTriggers DEF StudioInv
    <2> QED
        BY <2>1, ChangeTriggerKeepsInv
<1>6. CASE Review
    <2>1. /\ FormOpen /\ reviewing' = TRUE /\ UNCHANGED draft
          /\ UNCHANGED <<template, recipients, trigger, seededOn, edits, step, deploying, deployed,
                         today>>
        BY <1>6 DEF Review, draft
    <2>2. TypeOK' /\ template # NoTemplate
        BY <2>1 DEF StudioInv, TypeOK, FormOpen
    <2> QED
        BY <2>1, <2>2, ScreenKeepsInv
<1>7. CASE KeepEditing
    <2>1. /\ reviewing /\ reviewing' = FALSE /\ UNCHANGED draft
          /\ UNCHANGED <<template, recipients, trigger, seededOn, edits, step, deploying, deployed,
                         today>>
        BY <1>7 DEF KeepEditing, draft
    <2>2. TypeOK' /\ template # NoTemplate
        BY <2>1 DEF StudioInv, TypeOK
    <2> QED
        BY <2>1, <2>2, ScreenKeepsInv
<1>8. CASE Deploy
    <2>1. /\ reviewing /\ reviewing' = FALSE /\ deploying' = Reviewed /\ UNCHANGED draft
          /\ UNCHANGED <<template, recipients, trigger, seededOn, edits, step, deployed, today>>
        BY <1>8 DEF Deploy, draft
    <2>2. TypeOK' /\ template # NoTemplate
        BY <2>1 DEF StudioInv, TypeOK
    <2> QED
        BY <2>1, <2>2, ScreenKeepsInv
<1>9. CASE Deployed
    <2>1. /\ deploying # NoPolicy /\ deployed' = TRUE /\ UNCHANGED draft
          /\ UNCHANGED <<template, recipients, trigger, seededOn, edits, step, reviewing, deploying,
                         today>>
        BY <1>9 DEF Deployed, draft
    <2>2. TypeOK' /\ template # NoTemplate
        BY <2>1 DEF StudioInv, TypeOK
    <2> QED
        BY <2>1, <2>2, ScreenKeepsInv
<1>10. CASE CloseDialog
    <2>1. /\ deploying # NoPolicy /\ deploying' = NoPolicy /\ UNCHANGED draft
          /\ UNCHANGED <<template, recipients, trigger, seededOn, edits, step, reviewing, deployed,
                         today>>
        BY <1>10 DEF CloseDialog, draft
    <2>2. TypeOK' /\ template # NoTemplate
        BY <2>1 DEF StudioInv, TypeOK
    <2> QED
        BY <2>1, <2>2, ScreenKeepsInv
<1>11. CASE DayPasses
    <2>1. /\ today < LastDay /\ today' = today + 1 /\ UNCHANGED draft
          /\ UNCHANGED <<template, recipients, trigger, seededOn, edits, step, reviewing, deploying,
                         deployed>>
        BY <1>11 DEF DayPasses, draft, overlays
    <2>2. today' \in Today..LastDay
        BY <2>1, StudioAssumption DEF StudioInv, TypeOK
    <2>3. TypeOK'
        BY <2>1, <2>2 DEF StudioInv, TypeOK
    <2> QED
        BY <2>1, <2>3, ScreenKeepsInv DEF StudioInv
<1>12. CASE UNCHANGED studioVars
    <2>1. UNCHANGED draft
          /\ UNCHANGED <<template, recipients, trigger, seededOn, edits, step, reviewing, deploying,
                         deployed, today>>
        BY <1>12 DEF studioVars, draft, overlays
    <2>2. TypeOK'
        BY <2>1 DEF StudioInv, TypeOK
    <2> QED
        BY <2>1, <2>2, ScreenKeepsInv DEF StudioInv
<1> QED
    BY <1>1, <1>2, <1>3, <1>4, <1>5, <1>6, <1>7, <1>8, <1>9, <1>10, <1>11, <1>12 DEF Next

\* StudioInv holds throughout.
LEMMA StudioInvariant == Spec => []StudioInv
<1>1. Init => StudioInv
    BY StudioInit
<1>2. StudioInv /\ [Next]_studioVars => StudioInv'
    BY StudioStep
<1> QED
    BY <1>1, <1>2, PTL DEF Spec

-----------------------------------------------------------------------------
(* What follows                                                            *)

\* Type correctness; in particular a trigger always has the fields of its kind.
THEOREM TypesHold == Spec => []TypeOK
<1>1. StudioInv => TypeOK
    BY DEF StudioInv
<1> QED
    BY <1>1, StudioInvariant, PTL

\* What is in the dialog compiled, from recipients that the schema let through.
LEMMA DialogHasDraft ==
    ASSUME StudioInv, deploying # NoPolicy
    PROVE  LET rs == deploying.recipients
           IN  /\ rs \in Seq(Recipient) /\ HasShares(rs) /\ ValidRecipients(rs)
               /\ deploying.commitment = ComputeCommitment(Shares(rs), Salt)
               /\ deploying.enclaveConfig = [shares |-> Shares(rs), salt |-> Salt]
<1>1. PICK i \in Rendered : Compiles(i) /\ deploying = Compile(i)
    BY DEF StudioInv, WasReviewed
<1>2. deploying.recipients = i.recipients
    BY <1>1 DEF Compile
<1>3. i.recipients \in Seq(Recipient)
    BY DEF Rendered
<1>4. HasShares(i.recipients)
    BY <1>3, DraftsHaveShares
<1>5. ValidRecipients(i.recipients)
    BY <1>1 DEF Compiles, ValidPolicy
<1> QED
    BY <1>1, <1>2, <1>3, <1>4, <1>5 DEF Compile, EnclaveConfig

\* What the dialog is handed is, row by row, what the review shows.
LEMMA HandedOverAsShown ==
    ASSUME StudioInv, reviewing, Reviewed # NoPolicy
    PROVE  /\ Summary(Reviewed).when = DescribeTrigger(ir.trigger)
           /\ \A k \in DOMAIN recipients :
                  Summary(Reviewed).rows[k]
                      = <<recipients[k].address, ShareBps(TableOf(recipients), k)>>
<1>1. Reviewed.trigger = ir.trigger /\ Reviewed.recipients = recipients
    BY DEF Reviewed, Compile, ir
<1>2. recipients \in Seq(Recipient) /\ HasShares(recipients)
    BY DraftsHaveShares DEF StudioInv
<1>3. Summary(Reviewed).when = DescribeTrigger(ir.trigger)
    BY <1>1 DEF Summary
<1>4. ASSUME NEW k \in DOMAIN recipients
      PROVE  Summary(Reviewed).rows[k]
                 = <<recipients[k].address, ShareBps(TableOf(recipients), k)>>
    <2>1. Summary(Reviewed).rows[k] = <<recipients[k].address, recipients[k].shareBps>>
        BY <1>1 DEF Summary
    <2>2. k \in 1..Len(recipients)
        BY <1>2 DEF HasShares
    <2>3. ShareBps(TableOf(recipients), k) = recipients[k].shareBps
        BY <1>2, <2>2, TableOfShares
    <2> QED
        BY <2>1, <2>3
<1> QED
    BY <1>3, <1>4

\* What the dialog is handed is what the review shows at that moment, and what the
\* review shows does not change unless the draft is edited, whoever edits it and
\* from wherever on the page: the date of an untouched template is the one of the
\* last edit, not of today.
THEOREM DialogGetsWhatWasRead == Spec => DeploysWhatWasRead
<1>1. ASSUME StudioInv, Next
      PROVE  reviewing /\ reviewing' /\ edits' = edits => Reviewed' = Reviewed
    <2> SUFFICES ASSUME reviewing, reviewing', edits' = edits
                 PROVE  Reviewed' = Reviewed
        OBVIOUS
    <2>1. template # NoTemplate /\ edits \in Nat
        BY <1>1, StudioAssumption DEF StudioInv, TypeOK
    <2>2. ~Leave /\ ~\E t \in Templates : OpenTemplate(t)
        BY <2>1 DEF Leave, OpenTemplate
    <2>3. ~EditRecipients
        <3>1. EditRecipients => \E next : ChangeRecipients(next)
            BY <1>1, EditsMakeRecipients DEF StudioInv, TypeOK
        <3> QED
            BY <2>1, <3>1 DEF ChangeRecipients
    <2>4. ~EditTrigger
        <3>1. EditTrigger => \E next : ChangeTrigger(next)
            BY <1>1, EditsMakeTriggers DEF StudioInv
        <3> QED
            BY <2>1, <3>1 DEF ChangeTrigger
    <2>5. UNCHANGED draft
        BY <1>1, <2>2, <2>3, <2>4
        DEF Next, StepStrip, Back, Forward, GoTo, Review, KeepEditing, Deploy, Deployed,
            CloseDialog, DayPasses
    <2> QED
        BY <2>5, RenderedFromDraft
<1>2. ASSUME StudioInv, Next, deploying' \notin {deploying, NoPolicy}
      PROVE  reviewing /\ deploying' = Reviewed /\ Reviewed # NoPolicy
    <2>1. EditRecipients => \E next : ChangeRecipients(next)
        BY <1>2, EditsMakeRecipients DEF StudioInv, TypeOK
    <2>2. EditTrigger => \E next : ChangeTrigger(next)
        BY <1>2, EditsMakeTriggers DEF StudioInv
    <2>3. EditRecipients \/ EditTrigger => UNCHANGED deploying
        BY <2>1, <2>2 DEF ChangeRecipients, ChangeTrigger, overlays
    <2>4. StepStrip \/ Back \/ Forward => UNCHANGED deploying
        BY DEF StepStrip, Back, Forward, GoTo, overlays
    <2> QED
        BY <1>2, <2>3, <2>4
        DEF Next, OpenTemplate, Leave, Review, KeepEditing, Deploy, Deployed, CloseDialog,
            DayPasses, overlays
<1>3. StudioInv /\ [Next]_studioVars =>
          [/\ reviewing /\ reviewing' /\ edits' = edits => Reviewed' = Reviewed
           /\ deploying' \notin {deploying, NoPolicy} =>
                  /\ reviewing
                  /\ deploying' = Reviewed
                  /\ Summary(deploying').when = DescribeTrigger(ir.trigger)
                  /\ \A k \in DOMAIN recipients :
                         Summary(deploying').rows[k] = <<recipients[k].address,
                                                         ShareBps(TableOf(recipients), k)>>]_studioVars
    <2> SUFFICES ASSUME StudioInv, Next, deploying' \notin {deploying, NoPolicy}
                 PROVE  /\ reviewing
                        /\ deploying' = Reviewed
                        /\ Summary(deploying').when = DescribeTrigger(ir.trigger)
                        /\ \A k \in DOMAIN recipients :
                               Summary(deploying').rows[k]
                                   = <<recipients[k].address, ShareBps(TableOf(recipients), k)>>
        BY <1>1
    <2>1. reviewing /\ deploying' = Reviewed /\ Reviewed # NoPolicy
        BY <1>2
    <2> QED
        BY <2>1, HandedOverAsShown
<1> QED
    BY <1>3, StudioInvariant, PTL DEF Spec, DeploysWhatWasRead

\* What is deployed opens its commitment, and passes validateShares unless it names
\* the zero address.
THEOREM EnclaveAcceptsEveryPolicy == Spec => []EnclaveAccepts
<1>1. StudioInv => EnclaveAccepts
    <2> SUFFICES ASSUME StudioInv, deploying # NoPolicy
                 PROVE  LET config == deploying.enclaveConfig
                        IN  /\ ComputeCommitment(config.shares, config.salt) = deploying.commitment
                            /\ \/ ValidShares(TableOf(deploying.recipients))
                               \/ \E k \in DOMAIN config.shares :
                                      config.shares[k].recipient = ZeroAddress
        BY DEF EnclaveAccepts
    <2> DEFINE config == deploying.enclaveConfig
    <2> DEFINE rs == deploying.recipients
    <2>1. /\ rs \in Seq(Recipient) /\ HasShares(rs) /\ ValidRecipients(rs)
          /\ deploying.commitment = ComputeCommitment(Shares(rs), Salt)
          /\ config = [shares |-> Shares(rs), salt |-> Salt]
        BY DialogHasDraft
    <2>2. ComputeCommitment(config.shares, config.salt) = deploying.commitment
        BY <2>1
    <2>3. /\ DOMAIN config.shares = 1..Len(rs)
          /\ \A k \in 1..Len(rs) : config.shares[k].recipient = rs[k].address
        BY <2>1 DEF Shares, HasShares
    <2>4. CASE \A k \in 1..Len(rs) : rs[k].address # ZeroAddress
        BY <2>1, <2>2, <2>4, SchemaSatisfiesEnclave
    <2>5. CASE \E k \in 1..Len(rs) : rs[k].address = ZeroAddress
        BY <2>2, <2>3, <2>5
    <2> QED
        BY <2>4, <2>5
<1> QED
    BY <1>1, StudioInvariant, PTL

\* The table of every policy handed to the dialog is one that the policy vault's
\* proofs assume owners commit to (OpeningAssumption of ConfidentialPolicy).
THEOREM EveryPolicyHasAShareTable ==
    Spec => [](deploying # NoPolicy =>
                   LET table == TableOf(deploying.recipients)
                   IN  IsShareTable(table, WellFormed) /\ TotalBps(table) = TOTAL_BPS)
<1>1. StudioInv => (deploying # NoPolicy =>
                        LET table == TableOf(deploying.recipients)
                        IN  IsShareTable(table, WellFormed) /\ TotalBps(table) = TOTAL_BPS)
    <2> SUFFICES ASSUME StudioInv, deploying # NoPolicy
                 PROVE  LET table == TableOf(deploying.recipients)
                        IN  IsShareTable(table, WellFormed) /\ TotalBps(table) = TOTAL_BPS
        OBVIOUS
    <2>1. /\ deploying.recipients \in Seq(Recipient)
          /\ ValidRecipients(deploying.recipients) /\ HasShares(deploying.recipients)
        BY DialogHasDraft
    <2> QED
        BY <2>1, SchemaMakesShareTables
<1> QED
    BY <1>1, StudioInvariant, PTL

\* The split that the browser computes gives away exactly the balance, as the
\* contract will.
THEOREM EveryPolicyPaysTheWholeBalance == Spec => []PaysTheWholeBalance
<1>1. StudioInv => PaysTheWholeBalance
    <2> SUFFICES ASSUME StudioInv, deploying # NoPolicy, NEW balance \in Balances
                 PROVE  LET rs == deploying.recipients
                            amounts == ResolveDistributions(rs, balance)
                        IN  /\ \A k \in DOMAIN amounts : amounts[k] >= 0
                            /\ SumFunction(amounts) = balance
                            /\ \A k \in 1..(Len(rs) - 1) :
                                   amounts[k] = Floor(balance, TableOf(rs), k)
        BY DEF PaysTheWholeBalance
    <2>1. /\ deploying.recipients \in Seq(Recipient)
          /\ ValidRecipients(deploying.recipients) /\ HasShares(deploying.recipients)
        BY DialogHasDraft
    <2>2. balance \in Nat
        BY DEF Balances
    <2> QED
        BY <2>1, <2>2, ResolvesTheWholeBalance
<1> QED
    BY <1>1, StudioInvariant, PTL

\* The interval in words, and in the editor, is exactly the one configured.
THEOREM IntervalIsStated == Spec => []StatesTheInterval
<1>1. StudioInv => StatesTheInterval
    <2> SUFFICES ASSUME StudioInv, ir.trigger.kind # "timestamp"
                 PROVE  LET interval == ir.trigger.intervalSeconds
                        IN  /\ JoinDuration(DescribeTrigger(ir.trigger)) = interval
                            /\ JoinDuration(SplitDuration(interval)) = interval
        BY DEF StatesTheInterval
    <2>1. ir.trigger \in TriggerDrafts
        BY RendersADraft DEF StudioInv
    <2>2. ir.trigger.intervalSeconds \in Positive
        BY <2>1, DraftsByKind
    <2>3. DescribeTrigger(ir.trigger) = FormatInterval(ir.trigger.intervalSeconds)
        BY DEF DescribeTrigger
    <2> QED
        BY <2>2, <2>3, SplitIsExact, FormatIsExact
<1> QED
    BY <1>1, StudioInvariant, PTL

\* A step of Next that stays in a draft, and what it does to the trigger: only its
\* editor changes one that was edited, and a change of kind keeps the interval.
LEMMA TriggerStays ==
    ASSUME StudioInv, Next, template # NoTemplate, template' = template
    PROVE  /\ ir'.trigger # ir.trigger =>
                  \/ Editing("trigger")
                  \/ trigger = NoTrigger /\ ir.trigger.kind = "timestamp"
           /\ ({ir.trigger.kind, ir'.trigger.kind} \subseteq Kinds \ {"timestamp"}
                   /\ ir.trigger.kind # ir'.trigger.kind)
                  => ir'.trigger.intervalSeconds = ir.trigger.intervalSeconds
<1>1. ASSUME ir'.trigger = ir.trigger
      PROVE  ir.trigger.kind = ir'.trigger.kind
    BY <1>1
<1>2. CASE UNCHANGED <<template, trigger, seededOn>>
    <2>1. ir'.trigger = ir.trigger
        BY <1>2 DEF ir
    <2> QED
        BY <2>1
<1>3. CASE EditRecipients
    <2>1. template' = template /\ trigger' = trigger
        <3>1. \E next : ChangeRecipients(next)
            BY <1>3, EditsMakeRecipients DEF StudioInv, TypeOK
        <3> QED
            BY <3>1 DEF ChangeRecipients
    <2>2. CASE trigger # NoTrigger
        <3>1. ir'.trigger = ir.trigger
            BY <2>1, <2>2 DEF ir
        <3> QED
            BY <3>1
    <2>3. CASE trigger = NoTrigger /\ template = "xrp-inheritance"
        <3>1. ir'.trigger = ir.trigger
            BY <2>1, <2>3 DEF ir, SeededTrigger
        <3> QED
            BY <3>1
    <2>4. CASE trigger = NoTrigger /\ template # "xrp-inheritance"
        <3>1. ir.trigger.kind = "timestamp" /\ ir'.trigger.kind = "timestamp"
            BY <2>1, <2>4 DEF ir, SeededTrigger, ScheduledDistribution, TimestampTrigger
        <3> QED
            BY <2>4, <3>1
    <2> QED
        BY <2>2, <2>3, <2>4
<1>4. CASE EditTrigger
    <2>1. PICK next \in TriggerDrafts :
              /\ ChangeTrigger(next)
              /\ ({ir.trigger.kind, next.kind} \subseteq Kinds \ {"timestamp"}
                     /\ ir.trigger.kind # next.kind)
                    => next.intervalSeconds = ir.trigger.intervalSeconds
        BY <1>4, EditsMakeTriggers DEF StudioInv
    <2>2. Editing("trigger") /\ trigger' = next
        BY <2>1 DEF ChangeTrigger
    <2>3. ir'.trigger = next
        BY <2>2, StudioAssumption DEF ir
    <2> QED
        BY <2>1, <2>2, <2>3
<1>5. CASE \E t \in Templates : OpenTemplate(t)
    BY <1>5, StudioAssumption DEF OpenTemplate
<1>6. CASE Leave
    BY <1>6 DEF Leave
<1>7. CASE StepStrip \/ Back \/ Forward
    <2>1. UNCHANGED draft
        BY <1>7 DEF StepStrip, Back, Forward, GoTo
    <2> QED
        BY <1>2, <2>1 DEF draft
<1>8. CASE Review \/ KeepEditing \/ Deploy \/ Deployed \/ CloseDialog \/ DayPasses
    <2>1. UNCHANGED draft
        BY <1>8 DEF Review, KeepEditing, Deploy, Deployed, CloseDialog, DayPasses
    <2> QED
        BY <1>2, <2>1 DEF draft
<1> QED
    BY <1>3, <1>4, <1>5, <1>6, <1>7, <1>8 DEF Next

\* An edited trigger stays edited, and keeps its interval across kinds.
THEOREM TriggerEditsStick == Spec => EditsStick
<1>1. StudioInv /\ [Next]_studioVars =>
          [(template # NoTemplate /\ template' = template /\ edits' >= edits) =>
              /\ ir'.trigger # ir.trigger =>
                     \/ Editing("trigger")
                     \/ trigger = NoTrigger /\ ir.trigger.kind = "timestamp"
              /\ ({ir.trigger.kind, ir'.trigger.kind} \subseteq Kinds \ {"timestamp"}
                      /\ ir.trigger.kind # ir'.trigger.kind)
                     => ir'.trigger.intervalSeconds = ir.trigger.intervalSeconds]_studioVars
    BY TriggerStays
<1> QED
    BY <1>1, StudioInvariant, PTL DEF Spec, EditsStick
=============================================================================
