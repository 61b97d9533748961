-------------------------- MODULE SimulationProofs --------------------------
(* Proofs about the table of accounts, for any number of replicas, clients,  *)
(* initial accounts and faults, and about the simulation that uses it.      *)
EXTENDS SimulationInv, WellFoundedInduction, FiniteSetTheorems, TLAPS

-----------------------------------------------------------------------------
(* Sums over finite sets (the lemmas of TransfersProofs, which this module   *)
(* does not extend)                                                         *)

(* Every non-empty set of naturals has a least element. *)
LEMMA LeastNatural ==
  ASSUME NEW T \in SUBSET Nat, T # {}
  PROVE  \E x \in T : \A y \in T : x <= y
<1>1. PICK x \in T : \A y \in T : <<y, x>> \notin OpToRel(<, Nat)
  BY WFMin, NatLessThanWellFounded, Zenon
<1>2. \A y \in T : <<y, x>> \in Nat \X Nat
  OBVIOUS
<1>3. \A y \in T : ~ (<<y, x>>[1] < <<y, x>>[2])
  BY <1>1, <1>2, Zenon DEF OpToRel
<1>4. QED
  BY <1>3

(* m sums w over the subsets of S. *)
Sums(m, w, S) ==
  /\ m \in [SUBSET S -> Int] /\ m[{}] = 0
  /\ \A x \in S : \A T \in SUBSET S : x \notin T => m[T \union {x}] = m[T] + w[x]

(* Weights over a finite set have a sum: otherwise take a least subset      *)
(* without one, and remove an element.                                      *)
LEMMA SomethingSums ==
  ASSUME NEW S, IsFiniteSet(S), NEW w, \A x \in S : w[x] \in Int
  PROVE  \E m : Sums(m, w, S)
<1> DEFINE Missing == {Cardinality(T) : T \in {U \in SUBSET S : ~ \E m : Sums(m, w, U)}}
<1>1. SUFFICES ASSUME Missing # {} PROVE FALSE
  BY Zenon
<1>2. Missing \subseteq Nat
  BY FS_Subset, FS_CardinalityType
<1>3. PICK c \in Missing : \A d \in Missing : c <= d
  <2> HIDE DEF Missing
  <2> QED BY <1>1, <1>2, LeastNatural
<1>4. PICK T \in SUBSET S : Cardinality(T) = c /\ ~ \E m : Sums(m, w, T)
  BY <1>3
<1>5. T # {}
  <2>1. Sums([U \in SUBSET {} |-> 0], w, {})
    BY DEF Sums
  <2>2. QED
    BY <2>1, <1>4
<1>6. PICK y \in T : TRUE
  BY <1>5
<1> DEFINE R == T \ {y}
<1>7. R \in SUBSET S /\ Cardinality(R) < c /\ Cardinality(R) \in Nat
  BY <1>4, <1>6, FS_Subset, FS_CardinalityType, FS_RemoveElement
<1>8. PICK m : Sums(m, w, R)
  <2>1. Cardinality(R) \notin Missing
    BY <1>2, <1>3, <1>7
  <2>2. QED
    BY <1>7, <2>1
<1> DEFINE n == [U \in SUBSET T |-> IF y \in U THEN m[U \ {y}] + w[y] ELSE m[U]]
<1>9. \A U \in SUBSET T : U \ {y} \in SUBSET R /\ (y \notin U => U \ {y} = U)
  OBVIOUS
<1>10. n \in [SUBSET T -> Int] /\ n[{}] = 0
  <2>1. \A U \in SUBSET R : m[U] \in Int
    BY <1>8 DEF Sums
  <2>2. \A U \in SUBSET T : n[U] \in Int
    BY <1>9, <2>1, <1>6
  <2>3. QED
    BY <2>2, <1>8 DEF Sums
<1>11. ASSUME NEW x \in T, NEW U \in SUBSET T, x \notin U PROVE n[U \union {x}] = n[U] + w[x]
  <2>0. w[x] \in Int /\ w[y] \in Int
    BY <1>4, <1>6
  <2>1. CASE x = y
    <3>1. (U \union {x}) \ {y} = U /\ U \in SUBSET R
      BY <2>1, <1>11
    <3>2. n[U \union {x}] = m[U] + w[y]
      BY <3>1, <2>1
    <3>3. QED
      BY <3>2, <2>1, <1>11
  <2>2. CASE x # y /\ y \in U
    <3>1. (U \union {x}) \ {y} = (U \ {y}) \union {x} /\ x \in R /\ U \ {y} \in SUBSET R /\ x \notin U \ {y}
      BY <2>2, <1>11
    <3>2. m[(U \ {y}) \union {x}] = m[U \ {y}] + w[x] /\ m[U \ {y}] \in Int
      BY <3>1, <1>8 DEF Sums
    <3>3. n[U \union {x}] = m[(U \ {y}) \union {x}] + w[y] /\ n[U] = m[U \ {y}] + w[y]
      BY <2>2, <3>1
    <3>4. QED
      BY <2>0, <3>2, <3>3
  <2>3. CASE x # y /\ y \notin U
    <3>1. x \in R /\ U \in SUBSET R
      BY <2>3
    <3>2. m[U \union {x}] = m[U] + w[x]
      BY <3>1, <1>8, <1>11 DEF Sums
    <3>3. QED
      BY <2>3, <3>2
  <2>4. QED
    BY <2>1, <2>2, <2>3
<1>12. Sums(n, w, T)
  <2> HIDE DEF n
  <2> QED BY <1>10, <1>11 DEF Sums
<1>13. QED
  BY <1>4, <1>12

(* The recursion by which the library defines a sum. *)
Recursion(m, w, S) ==
  m = [T \in SUBSET S |-> IF T = {} THEN 0
         ELSE w[CHOOSE x \in T : TRUE] + m[T \ {CHOOSE x \in T : TRUE}]]

(* A measure that sums satisfies the recursion. *)
LEMMA SumsRecursion ==
  ASSUME NEW S, NEW w, \A x \in S : w[x] \in Int, NEW m, Sums(m, w, S)
  PROVE  Recursion(m, w, S)
<1>1. ASSUME NEW T \in SUBSET S, T # {}, NEW x \in T
      PROVE  m[T] = w[x] + m[T \ {x}]
  <2>1. (T \ {x}) \union {x} = T /\ T \ {x} \in SUBSET S /\ x \notin T \ {x}
    BY <1>1
  <2>2. m[T] = m[T \ {x}] + w[x]
    BY <2>1, <1>1 DEF Sums
  <2>3. m[T \ {x}] \in Int /\ w[x] \in Int
    BY <2>1 DEF Sums
  <2>4. QED
    BY <2>2, <2>3
<1>2. \A T \in SUBSET S : T # {} => (CHOOSE x \in T : TRUE) \in T
  BY Zenon
<1>3. \A T \in SUBSET S : m[T] = IF T = {} THEN 0
         ELSE w[CHOOSE x \in T : TRUE] + m[T \ {CHOOSE x \in T : TRUE}]
  BY <1>1, <1>2 DEF Sums
<1>4. m = [T \in SUBSET S |-> m[T]]
  BY DEF Sums
<1>5. QED
  BY <1>3, <1>4 DEF Recursion

(* The library's sum is what it chooses among the solutions. *)
LEMMA SumDefined ==
  ASSUME NEW S, NEW w
  PROVE  SumFunctionOnSet(w, S) = (CHOOSE m : Recursion(m, w, S))[S]
BY Zenon DEF SumFunctionOnSet, FoldFunctionOnSet, MapThenFoldSet, Recursion

(* All solutions of the recursion agree, so the chosen one is the sum. *)
LEMMA SumIs ==
  ASSUME NEW S, IsFiniteSet(S), NEW w, \A x \in S : w[x] \in Int, NEW m, Sums(m, w, S)
  PROVE  SumFunctionOnSet(w, S) = m[S]
<1> DEFINE g == CHOOSE f : Recursion(f, w, S)
           c(T) == CHOOSE x \in T : TRUE
           Wrong == {Cardinality(T) : T \in {U \in SUBSET S : g[U] # m[U]}}
<1>1. Recursion(m, w, S) /\ Recursion(g, w, S)
  BY SumsRecursion, Zenon
<1> HIDE DEF g
<1>2. SUFFICES ASSUME Wrong # {} PROVE FALSE
  <2>1. g[S] = m[S]
    BY <1>2
  <2>2. QED
    BY <2>1, SumDefined DEF g
<1>3. Wrong \subseteq Nat
  BY FS_Subset, FS_CardinalityType
<1>4. PICK d \in Wrong : \A e \in Wrong : d <= e
  <2> HIDE DEF Wrong
  <2> QED BY <1>2, <1>3, LeastNatural
<1>5. PICK T \in SUBSET S : Cardinality(T) = d /\ g[T] # m[T]
  BY <1>4
<1>6. T # {}
  BY <1>1, <1>5 DEF Recursion
<1>7. c(T) \in T
  BY <1>6, Zenon
<1>8. T \ {c(T)} \in SUBSET S /\ Cardinality(T \ {c(T)}) < d /\ Cardinality(T \ {c(T)}) \in Nat
  <2> HIDE DEF c
  <2> QED BY <1>5, <1>7, FS_Subset, FS_CardinalityType, FS_RemoveElement
<1>9. Cardinality(T \ {c(T)}) \notin Wrong
  <2> HIDE DEF Wrong, c
  <2> QED BY <1>3, <1>4, <1>8
<1>10. g[T \ {c(T)}] = m[T \ {c(T)}]
  <2> HIDE DEF c
  <2> QED BY <1>8, <1>9
<1>11. g[T] = w[c(T)] + g[T \ {c(T)}] /\ m[T] = w[c(T)] + m[T \ {c(T)}]
  BY <1>1, <1>6 DEF Recursion
<1>12. QED
  BY <1>5, <1>10, <1>11

(* The empty sum. *)
LEMMA SumEmpty == \A w : SumFunctionOnSet(w, {}) = 0
<1> SUFFICES ASSUME NEW w PROVE SumFunctionOnSet(w, {}) = 0
  OBVIOUS
<1>1. PICK m : Sums(m, w, {})
  BY SomethingSums, FS_EmptySet
<1>2. QED
  BY <1>1, SumIs, FS_EmptySet DEF Sums

(* The sum depends on the weights of its elements alone. *)
LEMMA SumSame ==
  ASSUME NEW S, IsFiniteSet(S), NEW v, NEW w, \A x \in S : v[x] \in Int /\ w[x] = v[x]
  PROVE  SumFunctionOnSet(w, S) = SumFunctionOnSet(v, S)
<1>1. PICK m : Sums(m, v, S)
  BY SomethingSums
<1>2. Sums(m, w, S)
  BY <1>1 DEF Sums
<1>3. QED
  BY <1>1, <1>2, SumIs

(* One more element adds its weight. *)
LEMMA SumAdds ==
  ASSUME NEW S, IsFiniteSet(S), NEW x, x \notin S,
         NEW w, \A y \in S \union {x} : w[y] \in Int
  PROVE  /\ SumFunctionOnSet(w, S) \in Int
         /\ SumFunctionOnSet(w, S \union {x}) = SumFunctionOnSet(w, S) + w[x]
<1> DEFINE U == S \union {x}
<1>1. IsFiniteSet(U)
  BY FS_AddElement
<1>2. PICK m : Sums(m, w, U)
  BY <1>1, SomethingSums
<1>3. PICK n : n = [T \in SUBSET S |-> m[T]]
  OBVIOUS
<1>4. Sums(n, w, S) /\ n[S] = m[S] /\ m[S] \in Int
  BY <1>2, <1>3 DEF Sums
<1>5. SumFunctionOnSet(w, S) = n[S]
  BY <1>4, SumIs
<1>6. SumFunctionOnSet(w, U) = m[U]
  BY <1>1, <1>2, SumIs
<1>7. m[U] = m[S] + w[x]
  BY <1>2 DEF Sums
<1>8. QED
  BY <1>4, <1>5, <1>6, <1>7

(* Moving an amount from one element to another leaves the sum alone. *)
LEMMA SumMoves ==
  ASSUME NEW S, IsFiniteSet(S), NEW x \in S, NEW y \in S, x # y, NEW d \in Int,
         NEW v, NEW w, \A z \in S : v[z] \in Int /\ w[z] \in Int,
         w[x] = v[x] - d, w[y] = v[y] + d, \A z \in S \ {x, y} : w[z] = v[z]
  PROVE  SumFunctionOnSet(w, S) = SumFunctionOnSet(v, S)
<1> DEFINE R == S \ {x, y}
           T == R \union {x}
<1>1. IsFiniteSet(R) /\ IsFiniteSet(T)
  BY FS_Subset
<1>2. x \notin R /\ y \notin T /\ S = T \union {y}
  OBVIOUS
<1>3. SumFunctionOnSet(w, R) = SumFunctionOnSet(v, R)
  BY <1>1, SumSame
<1> HIDE DEF R
<1>4. \A z \in R \union {x} : v[z] \in Int /\ w[z] \in Int
  BY DEF R
<1>5. /\ SumFunctionOnSet(v, R) \in Int
      /\ SumFunctionOnSet(v, T) = SumFunctionOnSet(v, R) + v[x]
      /\ SumFunctionOnSet(w, T) = SumFunctionOnSet(w, R) + w[x]
  BY <1>1, <1>2, <1>4, SumAdds
<1> HIDE DEF T
<1>6. /\ SumFunctionOnSet(v, S) = SumFunctionOnSet(v, T) + v[y]
      /\ SumFunctionOnSet(w, S) = SumFunctionOnSet(w, T) + w[y]
  BY <1>1, <1>2, SumAdds
<1>7. QED
  BY <1>3, <1>5, <1>6

-----------------------------------------------------------------------------
(* The list of accounts *)

(* The values of a function on a finite set are finitely many.               *)
LEMMA FiniteImage ==
  ASSUME NEW f, IsFiniteSet(DOMAIN f), f = [x \in DOMAIN f |-> f[x]]
  PROVE  IsFiniteSet({f[x] : x \in DOMAIN f})
<1>1. f \in Surjection(DOMAIN f, {f[x] : x \in DOMAIN f})
  BY DEF Surjection
<1> QED BY <1>1, FS_Surjection

(* The k-th account of a finite list exists: take the least k that has none, *)
(* and the least number above the (k-1)-th.                                  *)
LEMMA Ranked ==
  ASSUME NEW S \in SUBSET Nat, IsFiniteSet(S), NEW k \in Nat, k < Cardinality(S)
  PROVE  \E n \in S : Rank(n, S) = k
<1> DEFINE Bad == {j \in Nat : j < Cardinality(S) /\ ~ \E n \in S : Rank(n, S) = j}
<1>1. SUFFICES ASSUME Bad # {} PROVE FALSE
  OBVIOUS
<1>2. PICK j \in Bad : \A i \in Bad : j =< i
  <2>1. Bad \in SUBSET Nat
    OBVIOUS
  <2> HIDE DEF Bad
  <2> QED BY <1>1, <2>1, LeastNatural
<1>3. Cardinality(S) \in Nat /\ j \in Nat /\ j < Cardinality(S) /\ \A n \in S : Rank(n, S) # j
  BY FS_CardinalityType
<1>4. PICK L \in SUBSET S : Cardinality(L) = j /\ \A m \in L, n \in S : n =< m => n \in L
  <2>1. CASE j = 0
    BY <2>1, FS_EmptySet
  <2>2. CASE j # 0
    <3>1. j - 1 \in Nat /\ j - 1 \notin Bad /\ j - 1 < Cardinality(S)
      BY <1>2, <1>3, <2>2
    <3>2. PICK n \in S : Rank(n, S) = j - 1
      BY <3>1
    <3> DEFINE B == {m \in S : m < n}
    <3>3. IsFiniteSet(B) /\ Cardinality(B) = j - 1 /\ n \notin B
      BY <3>2, FS_Subset DEF Rank
    <3>4. Cardinality(B \union {n}) = j
      <4> HIDE DEF B, Bad
      <4>1. Cardinality(B \union {n}) = Cardinality(B) + 1
        BY <3>3, FS_AddElement
      <4> QED BY <1>3, <3>3, <4>1
    <3>5. B \union {n} \in SUBSET S
      OBVIOUS
    <3>6. \A m \in B \union {n}, q \in S : q =< m => q \in B \union {n}
      <4>1. n \in Nat /\ \A q \in S : q \in Nat
        OBVIOUS
      <4>2. \A m \in B \union {n} : m \in Nat /\ m =< n
        BY <4>1
      <4> HIDE DEF Bad
      <4> QED BY <4>1, <4>2
    <3> HIDE DEF B
    <3> QED BY <3>4, <3>5, <3>6
  <2> QED BY <2>1, <2>2
<1>5. S \ L # {} /\ S \ L \in SUBSET Nat
  <2>1. L # S
    BY <1>3, <1>4
  <2> QED BY <2>1
<1>6. PICK n \in S \ L : \A m \in S \ L : n =< m
  BY <1>5, LeastNatural
<1>7. {m \in S : m < n} = L
  <2>1. \A m \in S : m \in Nat /\ n \in Nat /\ n \in S /\ n \notin L
    OBVIOUS
  <2>2. \A m \in S : m < n <=> m \in L
    <3> HIDE DEF Bad
    <3> QED BY <1>4, <1>6, <2>1
  <2> QED BY <2>2
<1> QED BY <1>3, <1>4, <1>6, <1>7 DEF Rank

(* Neighbours have different remainders.                                     *)
LEMMA Neighbours ==
  ASSUME NEW n \in Nat, n >= 2, NEW i \in Nat
  PROVE  (i + 1) % n # i % n
<1> SUFFICES ASSUME (i + 1) % n = i % n PROVE FALSE
  OBVIOUS
<1>1. PICK p \in Int, q \in Int, r \in Int : i + 1 = n * p + r /\ i = n * q + r
  <2>1. i + 1 = n * ((i + 1) \div n) + ((i + 1) % n) /\ i = n * (i \div n) + (i % n)
    OBVIOUS
  <2>2. (i + 1) \div n \in Int /\ i \div n \in Int /\ i % n \in Int
    OBVIOUS
  <2> QED BY <2>1, <2>2
<1>2. n * (p - q) = 1
  BY <1>1
<1>3. PICK d \in Int : d = p - q /\ n * d = 1
  BY <1>2
<1>4. d >= 1 => n * d >= 2
  BY <1>3
<1>5. d =< 0 => n * d =< 0
  BY <1>3
<1> QED BY <1>3, <1>4, <1>5

(* A task pays from one listed account to another.                           *)
LEMMA TaskBetweenListed ==
  ASSUME NEW S \in SUBSET Nat, IsFiniteSet(S), Cardinality(S) >= 2, NEW i \in Nat \ {0}
  PROVE  /\ TaskOn(i, S).src \in S /\ TaskOn(i, S).dst \in S
         /\ TaskOn(i, S).src # TaskOn(i, S).dst
         /\ TaskOn(i, S).amt \in Nat
<1>1. Cardinality(S) \in Nat \ {0}
  BY FS_CardinalityType
<1>2. ASSUME NEW k \in Nat PROVE At(k, S) \in S /\ Rank(At(k, S), S) = k % Cardinality(S)
  <2>1. PICK c \in Nat \ {0} : c = Cardinality(S)
    BY <1>1
  <2>2. k % c \in Nat /\ k % c < c
    BY <2>1
  <2>3. \E n \in S : Rank(n, S) = k % Cardinality(S)
    BY <2>1, <2>2, Ranked
  <2> QED BY <2>3, Zenon DEF At
<1>3. i - 1 \in Nat /\ (i - 1) + 1 = i
  OBVIOUS
<1>4. i % Cardinality(S) # (i - 1) % Cardinality(S)
  BY <1>1, <1>3, Neighbours
<1>5. At(i - 1, S) # At(i, S)
  BY <1>2, <1>3, <1>4
<1>6. 10 + ((i - 1) % 20) \in Nat
  OBVIOUS
<1> QED BY <1>2, <1>3, <1>5, <1>6 DEF TaskOn, TaskOrder

-----------------------------------------------------------------------------
(* The table of accounts *)

(* The initial state of the table.                                           *)
LEMMA TableStart == TableInit => TableInv
<1> SUFFICES ASSUME TableInit PROVE TableInv
  OBVIOUS
<1>1. TableTypeOK
  <2>1. row \in [Replicas -> 1..SeedSize + 1] /\ faults \in 0..MaxFaults
    BY SeedAssumption DEF TableInit
  <2>2. post \in [Clients -> {Unasked} \union Begun \union Answers]
    BY DEF TableInit
  <2>3. boot \in [Replicas -> {"starting", "seeding", "ready"}] /\ rows = {}
    BY DEF TableInit
  <2> QED BY <2>1, <2>2, <2>3 DEF TableInit, TableTypeOK
<1>2. UniqueRows /\ NothingBeforeJob /\ ServedAfterRows /\ SeederSaved /\ SavedInOrder
  BY DEF TableInit, UniqueRows, NothingBeforeJob, ServedAfterRows, SeederSaved, SavedInOrder
<1>3. ClientRows /\ SeedWhole /\ CreatedOnce
  BY DEF TableInit, ClientRows, SeedWhole, CreatedOnce, Unasked, Inserted
<1> QED BY <1>1, <1>2, <1>3 DEF TableInv

(* What a step may do to the rows: nothing, or add one under a number that   *)
(* is free, or the whole seed of the job to an empty table.                  *)
LEMMA RowsGrow ==
  ASSUME TableInv, TableNext
  PROVE  \/ UNCHANGED rows
         \/ \E n \in Numbers, a \in Replicas \union Clients :
              n \notin Taken /\ rows' = rows \union {NewRow(n, a)}
         \/ rows = {} /\ rows' = {NewRow(n, Job) : n \in Seeds}
<1>1. CASE MigrateSeed
  <2>1. rows = {} /\ Taken = {}
    BY <1>1 DEF MigrateSeed, TableInv, NothingBeforeJob, Taken
  <2> QED BY <1>1, <2>1 DEF MigrateSeed
<1>2. ASSUME NEW r \in Replicas, SaveRow(r)
      PROVE  UNCHANGED rows \/ \E n \in Numbers, a \in Replicas \union Clients :
               n \notin Taken /\ rows' = rows \union {NewRow(n, a)}
  <2>1. CASE row[r] \in Taken
    BY <1>2, <2>1 DEF SaveRow
  <2>2. CASE row[r] \notin Taken
    <3>1. row[r] \in Seeds
      BY <1>2 DEF TableInv, SeederSaved, SaveRow
    <3> QED BY <1>2, <2>2, <3>1, SeedAssumption DEF SaveRow, Seeds
  <2> QED BY <2>1, <2>2
<1>3. ASSUME NEW p \in Clients, InsertAccount(p)
      PROVE  UNCHANGED rows \/ \E n \in Numbers, a \in Replicas \union Clients :
               n \notin Taken /\ rows' = rows \union {NewRow(n, a)}
  BY <1>3, SeedAssumption DEF InsertAccount
<1>4. CASE MigrateSchema \/ SkipMigration \/ JobDies
  BY <1>4 DEF MigrateSchema, SkipMigration, JobDies
<1>5. ASSUME NEW r \in Replicas, CountAccounts(r) \/ Crash(r) PROVE UNCHANGED rows
  BY <1>5 DEF CountAccounts, Crash
<1>6. ASSUME NEW p \in Clients, FindExisting(p) \/ AnswerCreated(p) \/ CreateFails(p) PROVE UNCHANGED rows
  BY <1>6 DEF FindExisting, AnswerCreated, CreateFails
<1> QED BY <1>1, <1>2, <1>3, <1>4, <1>5, <1>6 DEF TableNext, TableStep, Migrate, Start, Create

(* Rows stay, under one number each.                                         *)
LEMMA RowsStay ==
  ASSUME TableInv, TableNext
  PROVE  /\ rows \subseteq rows' /\ Taken \subseteq Taken'
         /\ rows' \subseteq [num : Numbers, by : Authors]
         /\ UniqueRows'
<1>1. CASE UNCHANGED rows
  BY <1>1 DEF TableInv, TableTypeOK, UniqueRows, Taken
<1>2. ASSUME NEW n \in Numbers, NEW a \in Replicas \union Clients,
             n \notin Taken, rows' = rows \union {NewRow(n, a)}
      PROVE  /\ rows \subseteq rows' /\ Taken \subseteq Taken'
             /\ rows' \subseteq [num : Numbers, by : Authors]
             /\ UniqueRows'
  BY <1>2 DEF TableInv, TableTypeOK, UniqueRows, Taken, NewRow, Authors
<1>3. CASE rows = {} /\ rows' = {NewRow(n, Job) : n \in Seeds}
  BY <1>3, SeedAssumption DEF UniqueRows, Taken, NewRow, Authors, Seeds
<1> QED BY <1>1, <1>2, <1>3, RowsGrow

(* Types.                                                                    *)
LEMMA TableTypes ==
  ASSUME TableInv, TableNext
  PROVE  TableTypeOK'
<1> USE DEF TableInv, TableTypeOK
<1>1. rows' \subseteq [num : Numbers, by : Authors]
  BY RowsStay
<1>2. CASE MigrateSchema \/ MigrateSeed \/ SkipMigration
  BY <1>1, <1>2 DEF MigrateSchema, MigrateSeed, SkipMigration
<1>3. CASE JobDies
  BY <1>1, <1>3, SeedAssumption DEF JobDies
<1>4. ASSUME NEW r \in Replicas, CountAccounts(r) PROVE TableTypeOK'
  <2>1. row' \in [Replicas -> 1..SeedSize + 1]
    BY <1>4, SeedAssumption DEF CountAccounts
  <2>2. boot' \in [Replicas -> {"starting", "seeding", "ready"}]
    BY <1>4 DEF CountAccounts
  <2> QED BY <1>1, <1>4, <2>1, <2>2 DEF CountAccounts
<1>5. ASSUME NEW r \in Replicas, SaveRow(r) PROVE TableTypeOK'
  <2>1. row' \in [Replicas -> 1..SeedSize + 1]
    BY <1>5, SeedAssumption DEF SaveRow, SeederSaved, Seeds
  <2>2. boot' \in [Replicas -> {"starting", "seeding", "ready"}] /\ cut' \in BOOLEAN
    BY <1>5 DEF SaveRow
  <2> QED BY <1>1, <1>5, <2>1, <2>2 DEF SaveRow
<1>6. ASSUME NEW p \in Clients, Create(p) PROVE TableTypeOK'
  <2>1. post' \in [Clients -> {Unasked} \union Begun \union Answers]
    BY <1>6 DEF Create, FindExisting, InsertAccount, AnswerCreated, CreateFails, Unasked, Inserting, Inserted, Begun, Answers, Reset
  <2>2. UNCHANGED <<schema, job, boot, row, cut>>
    BY <1>6 DEF Create, FindExisting, InsertAccount, AnswerCreated, CreateFails
  <2>3. faults' \in 0..MaxFaults
    BY <1>6, SeedAssumption DEF Create, FindExisting, InsertAccount, AnswerCreated, CreateFails
  <2> QED BY <1>1, <2>1, <2>2, <2>3
<1>7. ASSUME NEW r \in Replicas, Crash(r) PROVE TableTypeOK'
  <2>1. post' \in [Clients -> {Unasked} \union Begun \union Answers]
    BY <1>7 DEF Crash, Answers
  <2>2. boot' \in [Replicas -> {"starting", "seeding", "ready"}] /\ cut' \in BOOLEAN
    BY <1>7 DEF Crash
  <2>3. faults' \in 0..MaxFaults
    BY <1>7, SeedAssumption DEF Crash
  <2> QED BY <1>1, <1>7, <2>1, <2>2, <2>3 DEF Crash
<1> QED BY <1>2, <1>3, <1>4, <1>5, <1>6, <1>7 DEF TableNext, TableStep, Migrate, Start

(* The job comes first.                                                      *)
LEMMA JobFirst ==
  ASSUME TableInv, TableNext
  PROVE  NothingBeforeJob'
<1> USE DEF TableInv, NothingBeforeJob
<1>1. CASE Migrate \/ JobDies
  BY <1>1 DEF Migrate, MigrateSchema, MigrateSeed, SkipMigration, JobDies
<1>2. ASSUME NEW r \in Replicas, Start(r) \/ Crash(r) PROVE NothingBeforeJob'
  BY <1>2 DEF Start, CountAccounts, SaveRow, Crash
<1>3. ASSUME NEW p \in Clients, Create(p) PROVE NothingBeforeJob'
  <2>1. job = "done"
    BY <1>3 DEF Create, FindExisting, InsertAccount, AnswerCreated, CreateFails, ServedAfterRows, Unasked, Begun, Inserting, Inserted
  <2> QED BY <1>3, <2>1 DEF Create, FindExisting, InsertAccount, AnswerCreated, CreateFails
<1> QED BY <1>1, <1>2, <1>3 DEF TableNext, TableStep

(* Whoever is served finds accounts.                                         *)
LEMMA Served ==
  ASSUME TableInv, TableNext
  PROVE  ServedAfterRows'
<1>1. rows # {} => rows' # {}
  BY RowsStay
<1> USE DEF TableInv, TableTypeOK, ServedAfterRows
<1>2. CASE Migrate \/ JobDies
  BY <1>1, <1>2 DEF Migrate, MigrateSchema, MigrateSeed, SkipMigration, JobDies
<1>3. ASSUME NEW r \in Replicas, Start(r) \/ Crash(r) PROVE ServedAfterRows'
  <2>1. CASE rows # {}
    BY <1>1, <2>1
  <2>2. CASE rows = {} /\ CountAccounts(r)
    BY <2>2 DEF CountAccounts
  <2>3. CASE SaveRow(r) /\ rows = {}
    <3>1. row[r] \notin Taken
      BY <2>3 DEF Taken
    <3> QED BY <2>3, <3>1 DEF SaveRow
  <2>4. CASE Crash(r) /\ rows = {}
    BY <2>4 DEF Crash, Begun, Unasked, Reset
  <2> QED BY <1>3, <2>1, <2>2, <2>3, <2>4 DEF Start
<1>4. ASSUME NEW p \in Clients, Create(p) PROVE ServedAfterRows'
  <2>1. rows # {}
    BY <1>4 DEF Create, FindExisting, InsertAccount, AnswerCreated, CreateFails, Unasked, Begun, Inserting, Inserted
  <2> QED BY <1>1, <2>1
<1> QED BY <1>2, <1>3, <1>4 DEF TableNext, TableStep

(* A replica that seeds has saved exactly the rows before its next one.      *)
LEMMA SeederSteps ==
  ASSUME TableInv, TableNext
  PROVE  SeederSaved'
<1> SUFFICES ASSUME NEW s \in Replicas, boot'[s] = "seeding"
             PROVE  row'[s] \in Seeds /\ \A n \in Seeds : NewRow(n, s) \in rows' <=> n < row'[s]
  BY DEF SeederSaved
<1> USE DEF TableInv, TableTypeOK, SeederSaved
<1>1. CASE Migrate \/ JobDies
  BY <1>1 DEF Migrate, MigrateSchema, MigrateSeed, SkipMigration, JobDies, NothingBeforeJob
<1>2. ASSUME NEW r \in Replicas, CountAccounts(r)
      PROVE  row'[s] \in Seeds /\ \A n \in Seeds : NewRow(n, s) \in rows' <=> n < row'[s]
  <2>1. CASE r = s
    <3>1. row'[s] = 1 /\ rows' = {}
      BY <1>2, <2>1 DEF CountAccounts
    <3> QED BY <3>1, SeedAssumption DEF Seeds
  <2>2. CASE r # s
    BY <1>2, <2>2 DEF CountAccounts
  <2> QED BY <2>1, <2>2
<1>3. ASSUME NEW r \in Replicas, SaveRow(r)
      PROVE  row'[s] \in Seeds /\ \A n \in Seeds : NewRow(n, s) \in rows' <=> n < row'[s]
  <2>1. boot[s] = "seeding" /\ boot[r] = "seeding"
    BY <1>3 DEF SaveRow
  <2>2. CASE row[r] \in Taken
    BY <1>3, <2>1, <2>2 DEF SaveRow
  <2>3. CASE row[r] \notin Taken /\ r # s
    BY <1>3, <2>1, <2>3 DEF SaveRow, NewRow
  <2>4. CASE row[r] \notin Taken /\ r = s
    <3>1. row[s] # SeedSize /\ row'[s] = row[s] + 1 /\ rows' = rows \union {NewRow(row[s], s)}
      BY <1>3, <2>1, <2>4 DEF SaveRow
    <3>2. row'[s] \in Seeds
      BY <2>1, <3>1, SeedAssumption DEF Seeds
    <3>3. \A n \in Seeds : NewRow(n, s) = NewRow(row[s], s) <=> n = row[s]
      BY DEF NewRow
    <3>4. \A n \in Seeds : NewRow(n, s) \in rows' <=> n < row[s] \/ n = row[s]
      BY <2>1, <3>1, <3>3
    <3> QED BY <2>1, <3>1, <3>2, <3>4 DEF Seeds
  <2> QED BY <2>2, <2>3, <2>4
<1>4. ASSUME NEW p \in Clients, Create(p)
      PROVE  row'[s] \in Seeds /\ \A n \in Seeds : NewRow(n, s) \in rows' <=> n < row'[s]
  <2>1. boot' = boot /\ row' = row
    BY <1>4 DEF Create, FindExisting, InsertAccount, AnswerCreated, CreateFails
  <2>2. s # p
    BY SeedAssumption
  <2>3. \A n \in Seeds : NewRow(n, s) \in rows' <=> NewRow(n, s) \in rows
    BY <1>4, <2>2 DEF Create, FindExisting, InsertAccount, AnswerCreated, CreateFails, NewRow
  <2> QED BY <2>1, <2>3
<1>5. ASSUME NEW r \in Replicas, Crash(r)
      PROVE  row'[s] \in Seeds /\ \A n \in Seeds : NewRow(n, s) \in rows' <=> n < row'[s]
  BY <1>5 DEF Crash
<1> QED BY <1>1, <1>2, <1>3, <1>4, <1>5 DEF TableNext, TableStep, Start

(* A replica saves its rows in order, the job all of them.                   *)
LEMMA OrderSteps ==
  ASSUME TableInv, TableNext
  PROVE  SavedInOrder'
<1>1. rows \subseteq rows' /\ Taken \subseteq Taken' /\ SavedInOrder
  BY RowsStay DEF TableInv
<1>2. \A x \in rows : /\ x.by \in Replicas => \A n \in 1..x.num - 1 : NewRow(n, x.by) \in rows'
                      /\ x.by \in Replicas => x.num \in Seeds
                      /\ x.by = Job => Seeds \subseteq Taken'
  BY <1>1 DEF SavedInOrder
<1>3. CASE MigrateSeed
  <2>1. rows = {} /\ rows' = {NewRow(n, Job) : n \in Seeds}
    BY <1>3 DEF MigrateSeed, TableInv, NothingBeforeJob, Taken
  <2>2. \A x \in rows' : x.by = Job
    BY <2>1 DEF NewRow
  <2>3. \A n \in Seeds : NewRow(n, Job) \in rows' /\ NewRow(n, Job).num = n
    BY <2>1 DEF NewRow
  <2>4. Seeds \subseteq Taken'
    BY <2>3 DEF Taken
  <2> QED BY <2>2, <2>4, SeedAssumption DEF SavedInOrder
<1>4. ASSUME NEW r \in Replicas, SaveRow(r) PROVE SavedInOrder'
  <2>1. CASE row[r] \in Taken
    BY <1>2, <1>4, <2>1 DEF SaveRow, SavedInOrder
  <2>2. CASE row[r] \notin Taken
    <3>1. rows' = rows \union {NewRow(row[r], r)}
      BY <1>4, <2>2 DEF SaveRow
    <3>2. row[r] \in Seeds /\ \A n \in Seeds : n < row[r] => NewRow(n, r) \in rows
      BY <1>4 DEF SaveRow, TableInv, SeederSaved
    <3>3. \A n \in 1..row[r] - 1 : NewRow(n, r) \in rows'
      BY <1>1, <3>2, SeedAssumption DEF Seeds
    <3>4. NewRow(row[r], r).by = r /\ NewRow(row[r], r).num = row[r] /\ r # Job
      BY SeedAssumption DEF NewRow
    <3> QED BY <1>2, <3>1, <3>2, <3>3, <3>4 DEF SavedInOrder
  <2> QED BY <2>1, <2>2
<1>5. ASSUME NEW p \in Clients, InsertAccount(p) PROVE SavedInOrder'
  BY <1>2, <1>5, SeedAssumption DEF InsertAccount, SavedInOrder, NewRow
<1>6. CASE UNCHANGED rows
  BY <1>1, <1>6 DEF SavedInOrder, Taken
<1>7. \/ MigrateSeed \/ (\E r \in Replicas : SaveRow(r)) \/ (\E p \in Clients : InsertAccount(p))
      \/ UNCHANGED rows
  BY DEF TableNext, TableStep, Migrate, Start, Create, MigrateSchema, SkipMigration, JobDies,
         CountAccounts, Crash, FindExisting, AnswerCreated, CreateFails
<1> QED BY <1>3, <1>4, <1>5, <1>6, <1>7

(* The row of a client is the one it asked for, before it is told.           *)
LEMMA ClientSteps ==
  ASSUME TableInv, TableNext
  PROVE  ClientRows'
<1>1. rows \subseteq rows'
  BY RowsStay
<1> USE DEF TableInv, TableTypeOK, ClientRows
<1>2. CASE Migrate \/ JobDies
  BY <1>2, SeedAssumption DEF Migrate, MigrateSchema, MigrateSeed, SkipMigration, JobDies, NewRow
<1>3. ASSUME NEW r \in Replicas, Start(r) PROVE ClientRows'
  BY <1>1, <1>3, SeedAssumption DEF Start, CountAccounts, SaveRow, NewRow
<1>4. ASSUME NEW p \in Clients, Create(p) PROVE ClientRows'
  <2>1. CASE FindExisting(p)
    BY <2>1 DEF FindExisting, Unasked, Inserting, Inserted, Reset
  <2>2. CASE InsertAccount(p) /\ UNCHANGED rows
    <3>1. rows' = rows /\ post[p] = Inserting /\ post'[p] = 500 /\ \A q \in Clients \ {p} : post'[q] = post[q]
      <4>1. NewRow(Wanted[p], p) \notin rows
        BY <2>2 DEF InsertAccount, NewRow, Inserting, Inserted, Reset
      <4> QED BY <2>2, <4>1 DEF InsertAccount
    <3> QED BY <3>1 DEF Inserting, Inserted, Reset
  <2>3. CASE InsertAccount(p) /\ ~ UNCHANGED rows
    <3>1. rows' = rows \union {NewRow(Wanted[p], p)} /\ post' = [post EXCEPT ![p] = Inserted]
      BY <2>3 DEF InsertAccount
    <3> QED BY <2>3, <3>1 DEF InsertAccount, NewRow, Inserting, Inserted, Reset
  <2>4. CASE AnswerCreated(p)
    BY <2>4 DEF AnswerCreated, Inserted, Reset
  <2>5. CASE CreateFails(p)
    BY <2>5 DEF CreateFails, Begun, Inserted, Reset
  <2> QED BY <1>4, <2>1, <2>2, <2>3, <2>4, <2>5 DEF Create
<1>5. ASSUME NEW r \in Replicas, Crash(r) PROVE ClientRows'
  <2>1. rows' = rows /\ \A p \in Clients : post'[p] = post[p] \/ post'[p] = Reset
    BY <1>5 DEF Crash
  <2>2. \A p \in Clients : post'[p] = Reset => post[p] = Reset \/ post[p] \in Begun
    BY <1>5 DEF Crash
  <2> QED BY <2>1, <2>2 DEF Inserted, Reset
<1> QED BY <1>2, <1>3, <1>4, <1>5 DEF TableNext, TableStep

(* A seeding that stops at a row of another replica has saved nothing.       *)
LEMMA LoserSavedNothing ==
  ASSUME TableInv, NEW r \in Replicas, boot[r] = "seeding", row[r] \in Taken
  PROVE  row[r] = 1 \/ Seeds \subseteq Taken \/ \E x \in RowsOf(row[r]) : x.by \in Clients
<1>1. PICK x \in rows : x.num = row[r]
  BY DEF Taken
<1>2. row[r] \in Seeds /\ \A n \in Seeds : NewRow(n, r) \in rows <=> n < row[r]
  BY DEF TableInv, SeederSaved
<1>3. SUFFICES ASSUME row[r] # 1, ~ Seeds \subseteq Taken, x.by \notin Clients PROVE FALSE
  BY <1>1 DEF RowsOf
<1>4. x.by \in Replicas /\ x = NewRow(row[r], x.by)
  BY <1>1, <1>3 DEF TableInv, TableTypeOK, SavedInOrder, Authors, NewRow
<1>5. 1 \in Seeds /\ 1 \in 1..x.num - 1
  BY <1>1, <1>2, <1>3, SeedAssumption DEF Seeds
<1>6. NewRow(1, x.by) \in rows /\ NewRow(1, r) \in rows
  BY <1>1, <1>2, <1>3, <1>4, <1>5, SeedAssumption DEF TableInv, SavedInOrder, Seeds
<1>7. x.by = r
  BY <1>6 DEF TableInv, UniqueRows, NewRow
<1> QED BY <1>1, <1>2, <1>4, <1>7, SeedAssumption DEF Seeds

(* The seed is never left half done.                                         *)
LEMMA WholeSteps ==
  ASSUME TableInv, TableNext
  PROVE  SeedWhole'
<1>1. rows \subseteq rows' /\ Taken \subseteq Taken'
  BY RowsStay
<1>2. ASSUME cut' = cut, \A s \in Replicas : boot[s] = "seeding" => boot'[s] = "seeding" /\ row'[s] = row[s],
             rows = {} => rows' = {}
      PROVE  SeedWhole'
  BY <1>1, <1>2 DEF TableInv, SeedWhole
<1>3. CASE Migrate \/ JobDies
  <2>1. CASE MigrateSeed
    <3>1. \A n \in Seeds : NewRow(n, Job).num = n /\ (NewRow(n, Job) \in rows' \/ n \in Taken')
      BY <1>1, <2>1 DEF MigrateSeed, NewRow
    <3>2. Seeds \subseteq Taken'
      BY <3>1 DEF Taken
    <3> QED BY <3>2 DEF SeedWhole
  <2> QED BY <1>2, <1>3, <2>1 DEF Migrate, MigrateSchema, SkipMigration, JobDies
<1>4. ASSUME NEW r \in Replicas, CountAccounts(r) PROVE SeedWhole'
  BY <1>2, <1>4 DEF CountAccounts, TableInv, TableTypeOK
<1>5. ASSUME NEW r \in Replicas, SaveRow(r) PROVE SeedWhole'
  <2>1. row[r] \in Seeds /\ \A n \in Seeds : NewRow(n, r) \in rows <=> n < row[r]
    BY <1>5 DEF SaveRow, TableInv, SeederSaved
  <2>2. CASE row[r] \in Taken
    <3>1. row[r] = 1 \/ Seeds \subseteq Taken \/ cut'
      BY <1>5, <2>2, LoserSavedNothing DEF SaveRow
    <3>2. cut => cut'
      BY <1>5, <2>2 DEF SaveRow
    <3>3. rows' = rows /\ rows # {} /\ row' = row /\ \A s \in Replicas \ {r} : boot'[s] = boot[s]
      BY <1>5, <2>2 DEF SaveRow, Taken, TableInv, TableTypeOK
    <3> QED BY <1>1, <3>1, <3>2, <3>3 DEF TableInv, SeedWhole
  <2>3. CASE row[r] \notin Taken /\ row[r] = SeedSize
    <3>1. \A n \in Seeds : NewRow(n, r) \in rows'
      BY <1>1, <1>5, <2>1, <2>3, SeedAssumption DEF SaveRow, Seeds
    <3>2. \A n \in Seeds : NewRow(n, r).num = n
      BY DEF NewRow
    <3>3. Seeds \subseteq Taken'
      BY <3>1, <3>2 DEF Taken
    <3> QED BY <3>3 DEF SeedWhole
  <2>4. CASE row[r] \notin Taken /\ row[r] # SeedSize
    <3>1. boot'[r] = "seeding" /\ row'[r] = row[r] + 1
      BY <1>5, <2>4 DEF SaveRow, TableInv, TableTypeOK
    <3> QED BY <2>1, <3>1, SeedAssumption DEF SeedWhole, Seeds
  <2> QED BY <2>2, <2>3, <2>4
<1>6. ASSUME NEW p \in Clients, Create(p) PROVE SeedWhole'
  <2>1. rows # {}
    BY <1>6 DEF Create, FindExisting, InsertAccount, AnswerCreated, CreateFails, TableInv, ServedAfterRows,
                Unasked, Begun, Inserting, Inserted
  <2> QED BY <1>2, <1>6, <2>1 DEF Create, FindExisting, InsertAccount, AnswerCreated, CreateFails
<1>7. ASSUME NEW r \in Replicas, Crash(r) PROVE SeedWhole'
  <2>1. rows' = rows /\ row' = row /\ (cut => cut') /\ (boot[r] = "seeding" => cut')
    BY <1>7 DEF Crash
  <2>2. \A s \in Replicas \ {r} : boot'[s] = boot[s]
    BY <1>7 DEF Crash, TableInv, TableTypeOK
  <2> QED BY <1>1, <2>1, <2>2 DEF TableInv, SeedWhole
<1> QED BY <1>3, <1>4, <1>5, <1>6, <1>7 DEF TableNext, TableStep, Start

(* The answers of creations.                                                 *)
LEMMA CreatedSteps ==
  ASSUME TableInv, TableNext
  PROVE  CreatedOnce'
<1>1. rows \subseteq rows' /\ UniqueRows' /\ ClientRows'
  BY RowsStay, ClientSteps
<1> SUFFICES ASSUME NEW q \in Clients
             PROVE  /\ post'[q] = 201 => RowsOf(Wanted[q])' = {NewRow(Wanted[q], q)}
                    /\ post'[q] = 409 => \E x \in RowsOf(Wanted[q])' : x.by # q
  BY DEF CreatedOnce
<1>2. post'[q] = 201 => RowsOf(Wanted[q])' = {NewRow(Wanted[q], q)}
  <2>1. SUFFICES ASSUME post'[q] = 201 PROVE {x \in rows' : x.num = Wanted[q]} = {NewRow(Wanted[q], q)}
    BY DEF RowsOf
  <2>2. NewRow(Wanted[q], q) \in rows'
    BY <1>1, <2>1 DEF ClientRows
  <2>3. NewRow(Wanted[q], q).num = Wanted[q]
    BY DEF NewRow
  <2> QED BY <1>1, <2>2, <2>3 DEF UniqueRows
<1>3. post[q] = 409 => \E x \in RowsOf(Wanted[q])' : x.by # q
  BY <1>1 DEF TableInv, CreatedOnce, RowsOf
<1>4. ASSUME post'[q] = 409, post[q] # 409
      PROVE  \E x \in RowsOf(Wanted[q])' : x.by # q
  <2>1. /\ FindExisting(q)
        /\ post[q] = Unasked /\ Wanted[q] \in Taken
    <3>1. PICK p \in Clients : Create(p)
      BY <1>4 DEF TableNext, TableStep, Migrate, MigrateSchema, MigrateSeed, SkipMigration, JobDies,
                  Start, CountAccounts, SaveRow, Crash, Reset, TableInv, TableTypeOK
    <3>2. p = q
      BY <1>4, <3>1 DEF Create, FindExisting, InsertAccount, AnswerCreated, CreateFails, TableInv, TableTypeOK
    <3> QED BY <1>4, <3>1, <3>2 DEF Create, FindExisting, InsertAccount, AnswerCreated, CreateFails,
                                    TableInv, TableTypeOK, Inserting, Inserted
  <2>2. PICK x \in rows : x.num = Wanted[q]
    BY <2>1 DEF Taken
  <2>3. x.by # q
    BY <2>1 DEF TableInv, ClientRows, Unasked, Inserting, Inserted, Reset
  <2> QED BY <1>1, <2>2, <2>3 DEF RowsOf
<1> QED BY <1>2, <1>3, <1>4

(* One step of the table.                                                    *)
LEMMA TableSteps == TableInv /\ [TableNext]_tableVars => TableInv'
<1> SUFFICES ASSUME TableInv, [TableNext]_tableVars PROVE TableInv'
  OBVIOUS
<1>1. CASE TableNext
  BY <1>1, TableTypes, RowsStay, JobFirst, Served, SeederSteps, OrderSteps, ClientSteps,
     WholeSteps, CreatedSteps DEF TableInv
<1>2. CASE UNCHANGED tableVars
  <2>1. UNCHANGED <<schema, job, rows, boot, row, post, faults, cut>> /\ Taken' = Taken
    BY <1>2 DEF tableVars, Taken
  <2>2. TableTypeOK' /\ UniqueRows' /\ NothingBeforeJob' /\ ServedAfterRows' /\ ClientRows'
    BY <2>1 DEF TableInv, TableTypeOK, UniqueRows, NothingBeforeJob, ServedAfterRows, ClientRows
  <2>3. SeederSaved' /\ SavedInOrder' /\ SeedWhole' /\ CreatedOnce'
    BY <2>1 DEF TableInv, SeederSaved, SavedInOrder, SeedWhole, CreatedOnce, RowsOf
  <2> QED BY <2>2, <2>3 DEF TableInv
<1> QED BY <1>1, <1>2

-----------------------------------------------------------------------------
(* The table keeps its invariant under job, replicas, clients and faults.   *)
THEOREM TableInvariant == TableSpec => []TableInv
  BY TableStart, TableSteps, PTL DEF TableSpec

(* Replicas that start together never leave half a seed.                     *)
THEOREM SeedNeverHalf == TableSpec => []SeedWhole
<1>1. TableInv => SeedWhole
  BY DEF TableInv
<1> QED BY <1>1, TableInvariant, PTL

(* An answer to a creation tells who owns the number.                        *)
THEOREM CreationIsTrue == TableSpec => []CreatedOnce
<1>1. TableInv => CreatedOnce
  BY DEF TableInv
<1> QED BY <1>1, TableInvariant, PTL

-----------------------------------------------------------------------------
(* The simulation *)

(* What the other actors leave alone: the run of the simulation only looks   *)
(* at the table when it lists the accounts and sums their money.             *)
LEMMA RunUnchanged ==
  ASSUME RunInv, UNCHANGED <<payVars, runVars>>
  PROVE  RunInv'
<1>1. UNCHANGED <<order, balance, txs, answer, spike, host, listed, before, after, next, task, successful, failed>>
  BY DEF payVars, runVars
<1>2. InFlight' = InFlight /\ Rewarded' = Rewarded
  BY <1>1 DEF InFlight, Rewarded
<1>3. RunTypeOK' /\ PaymentTypes' /\ SuccessPaid'
  BY <1>1 DEF RunInv, RunTypeOK, PaymentTypes, SuccessPaid
<1>4. TakenOnly' /\ Counted'
  BY <1>1, <1>2 DEF RunInv, TakenOnly, Counted
<1> QED BY <1>3, <1>4 DEF RunInv

LEMMA RunStart == Init => RunInv
<1> SUFFICES ASSUME Init PROVE RunInv
  OBVIOUS
<1>1. /\ spike = "off" /\ host = NoReplica /\ listed = {} /\ next = 1
      /\ task = [w \in Workers |-> 0] /\ successful = 0 /\ failed = 0
      /\ order = [i \in Tasks |-> NoOrder] /\ txs = {}
      /\ answer = [i \in Tasks |-> Payments!NoAnswer]
  BY DEF Init, Payments!Init
<1>2. InFlight = {} /\ Rewarded = {}
  BY <1>1 DEF InFlight, Rewarded, Tasks
<1>3. RunTypeOK
  BY <1>1, SimulationAssumption DEF RunTypeOK
<1>4. PaymentTypes
  BY <1>1, FS_EmptySet DEF PaymentTypes, Payments!NoAnswer, Payments!Pending
<1>5. SuccessPaid /\ TakenOnly
  BY <1>1, SimulationAssumption DEF SuccessPaid, TakenOnly, Payments!NoAnswer, Payments!Pending, Tasks, Workers
<1>6. Counted
  BY <1>1, <1>2, FS_EmptySet DEF Counted
<1> QED BY <1>3, <1>4, <1>5, <1>6 DEF RunInv

(* The set of tasks is finite, and so are those in flight and those paid.    *)
LEMMA FiniteTasks ==
  ASSUME RunInv
  PROVE  /\ IsFiniteSet(InFlight) /\ Cardinality(InFlight) \in Nat
         /\ IsFiniteSet(Rewarded) /\ Cardinality(Rewarded) \in Nat
         /\ next \in Nat /\ successful \in Nat /\ failed \in Nat /\ Total \in Nat
<1>1. IsFiniteSet(Tasks)
  BY FS_Interval, SimulationAssumption DEF Tasks
<1>2. next \in 1..Total + 1 /\ successful \in 0..Total /\ failed \in 0..Total /\ Total \in Nat
  BY SimulationAssumption DEF RunInv, RunTypeOK
<1>3. InFlight \in SUBSET Tasks /\ Rewarded \in SUBSET Tasks
  BY <1>2 DEF InFlight, Rewarded, Tasks
<1> QED BY <1>1, <1>2, <1>3, FS_Subset, FS_CardinalityType

(* The accounts are listed.                                                  *)
LEMMA ListSteps ==
  ASSUME IInv, NEW r \in Replicas, ListAccounts(r)
  PROVE  RunInv'
<1> USE DEF IInv, RunInv
<1>1. /\ UNCHANGED <<order, balance, txs, answer, before, after, next, task, successful, failed>>
      /\ spike = "off" /\ spike' = "listed" /\ host' = r /\ listed' = Taken
  BY DEF ListAccounts, payVars
<1>2. InFlight' = InFlight /\ Rewarded' = Rewarded
  BY <1>1 DEF InFlight, Rewarded
<1>3. Taken \subseteq Numbers
  BY DEF TableInv, TableTypeOK, Taken
<1>4. RunTypeOK' /\ PaymentTypes' /\ SuccessPaid'
  BY <1>1, <1>3 DEF RunTypeOK, PaymentTypes, SuccessPaid
<1>5. TakenOnly' /\ Counted'
  BY <1>1, <1>2 DEF TakenOnly, Counted
<1> QED BY <1>4, <1>5

(* The workers start, each on a task of its own.                             *)
LEMMA StartSteps ==
  ASSUME IInv, SumBefore
  PROVE  RunInv'
<1> USE DEF IInv, RunInv
<1>1. /\ UNCHANGED <<txs, answer, host, listed, successful, failed>>
      /\ spike = "listed" /\ next = 1
  BY DEF SumBefore, TakenOnly
<1>2. CASE Cardinality(listed) < 2
  <2>1. spike' = "refused" /\ UNCHANGED <<order, next, task>>
    BY <1>2 DEF SumBefore
  <2>2. InFlight' = InFlight /\ Rewarded' = Rewarded
    BY <1>1, <2>1 DEF InFlight, Rewarded
  <2> QED BY <1>1, <2>1, <2>2 DEF RunTypeOK, PaymentTypes, SuccessPaid, TakenOnly, Counted
<1>3. CASE ~ (Cardinality(listed) < 2)
  <2>1. /\ spike' = "running" /\ task' = [w \in Workers |-> w] /\ next' = WorkerCount + 1
        /\ order' = [i \in DOMAIN order |-> IF i \in Workers THEN TaskOn(i, listed) ELSE order[i]]
    BY <1>3 DEF SumBefore
  <2>2. WorkerCount \in Nat /\ Total \in Nat /\ WorkerCount \in 1..Total /\ Workers \subseteq Tasks
    BY SimulationAssumption DEF Workers, Tasks
  <2>3. InFlight' = Workers
    BY <2>1, <2>2 DEF InFlight
  <2>4. Rewarded' = {} /\ Rewarded = {} /\ InFlight = {}
    <3>1. (1..next' - 1) \ InFlight' = {}
      BY <2>1, <2>2, <2>3 DEF Workers
    <3>2. 1..next - 1 = {}
      BY <1>1
    <3>3. InFlight = {}
      BY <1>1, SimulationAssumption DEF InFlight, TakenOnly, Tasks, RunTypeOK
    <3> QED BY <3>1, <3>2, <3>3 DEF Rewarded
  <2>5. RunTypeOK'
    BY <1>1, <2>1, <2>2 DEF RunTypeOK, Workers
  <2>6. PaymentTypes'
    BY <1>1, <2>1 DEF PaymentTypes
  <2>7. SuccessPaid'
    <3>1. \A i \in Tasks : TaskOn(i, listed).key = NoKey
      BY DEF TaskOn, TaskOrder
    <3>2. \A i \in Tasks : order'[i] = order[i] \/ order'[i] = TaskOn(i, listed)
      BY <2>1 DEF PaymentTypes
    <3> QED BY <1>1, <3>1, <3>2 DEF SuccessPaid
  <2>8. TakenOnly'
    <3>1. \A i \in Tasks : i >= next' => i \notin Workers /\ i >= next
      BY <1>1, <2>1, <2>2 DEF Workers, Tasks
    <3>2. \A i \in Tasks : i >= next' => order'[i] = NoOrder /\ answer'[i] = Payments!NoAnswer
      BY <1>1, <2>1, <3>1 DEF TakenOnly, PaymentTypes
    <3>3. \A i \in Tasks : i < next' => i \in Workers
      BY <2>1, <2>2 DEF Workers, Tasks
    <3>4. \A w \in Workers : task'[w] < next'
      BY <2>1, <2>2 DEF Workers
    <3> QED BY <2>1, <2>3, <3>2, <3>3, <3>4 DEF TakenOnly
  <2>9. Counted'
    <3>1. Cardinality(Workers) = WorkerCount
      BY <2>2, FS_Interval DEF Workers
    <3>2. successful' = 0 /\ failed' = 0
      <4>1. Cardinality(InFlight) = 0 /\ Cardinality(Rewarded) = 0
        BY <2>4, FS_EmptySet
      <4> QED BY <1>1, <4>1, FiniteTasks DEF Counted
    <3>3. Cardinality(Rewarded') = 0
      BY <2>4, FS_EmptySet
    <3>4. successful' + failed' + Cardinality(InFlight') = next' - 1
      BY <2>1, <2>2, <2>3, <3>1, <3>2
    <3>5. \A v, w \in Workers : task'[v] = task'[w] /\ v # w => task'[v] = 0
      BY <2>1
    <3> QED BY <2>1, <3>2, <3>3, <3>4, <3>5 DEF Counted
  <2> QED BY <2>5, <2>6, <2>7, <2>8, <2>9
<1> QED BY <1>2, <1>3

(* A worker that is between two tasks settles the one that has ended.        *)
LEMMA SettleSteps ==
  ASSUME IInv, NEW w \in Workers, Settle(w)
  PROVE  RunInv'
<1> USE DEF IInv, RunInv
<1> DEFINE i == task[w]
           Won == answer[i].code = 201
           New == IF next =< Total THEN {next} ELSE {}
<1>1. /\ UNCHANGED <<balance, txs, answer, spike, host, listed, before, after>>
      /\ spike = "running" /\ i # 0 /\ answer[i] # Payments!NoAnswer
      /\ successful' = (IF Won THEN successful + 1 ELSE successful)
      /\ failed' = (IF Won THEN failed ELSE failed + 1)
      /\ TakeNext(w)
  BY DEF Settle, Ended
<1>2. /\ next \in 1..Total + 1 /\ Total \in Nat \ {0} /\ task \in [Workers -> 0..Total]
      /\ next \in Nat /\ i \in 1..Total /\ i < next
  BY <1>1, SimulationAssumption DEF RunTypeOK, TakenOnly
<1>3. /\ next' = (IF next =< Total THEN next + 1 ELSE next)
      /\ task' = [task EXCEPT ![w] = IF next =< Total THEN next ELSE 0]
      /\ order' = (IF next =< Total THEN [order EXCEPT ![next] = TaskOn(next, listed)] ELSE order)
  BY <1>1, <1>2 DEF TakeNext
<1>4. \A v \in Workers \ {w} : task'[v] = task[v] /\ task[v] # i
  BY <1>1, <1>2, <1>3 DEF Counted
<1>5. task'[w] = (IF next =< Total THEN next ELSE 0)
  BY <1>2, <1>3
<1>6. i \in InFlight /\ i \in Tasks
  BY <1>2 DEF InFlight, Tasks
<1>7. InFlight' = (InFlight \ {i}) \union New
  <2>1. ASSUME NEW j \in Tasks PROVE j \in InFlight' <=> j \in (InFlight \ {i}) \union New
    BY <1>2, <1>4, <1>5, <2>1 DEF InFlight, Tasks
  <2>2. New \subseteq Tasks /\ InFlight \subseteq Tasks /\ InFlight' \subseteq Tasks
    BY <1>2 DEF InFlight, Tasks
  <2> QED BY <2>1, <2>2
<1>8. Rewarded' = (IF Won THEN Rewarded \union {i} ELSE Rewarded) /\ i \notin Rewarded
  <2>1. 1..next' - 1 = (1..next - 1) \union New
    BY <1>2, <1>3
  <2>2. next \notin 1..next - 1 /\ i \in 1..next - 1 /\ i \notin New
    BY <1>2
  <2>3. (1..next' - 1) \ InFlight' = ((1..next - 1) \ InFlight) \union {i}
    BY <1>7, <2>1, <2>2
  <2>4. answer' = answer
    BY <1>1
  <2> HIDE DEF i, New
  <2> QED BY <1>6, <2>3, <2>4 DEF Rewarded
<1>9. RunTypeOK'
  <2>1. successful' + failed' =< Total /\ successful' \in Nat /\ failed' \in Nat
    <3>1. Cardinality(InFlight) >= 1
      BY <1>6, FiniteTasks, FS_EmptySet
    <3> QED BY <1>1, <1>2, <3>1, FiniteTasks DEF Counted
  <2>2. successful' \in 0..Total /\ failed' \in 0..Total
    <3>1. Total \in Nat
      BY <1>2
    <3>2. \A m, n, k \in Nat : m + n =< k => m \in 0..k /\ n \in 0..k
      OBVIOUS
    <3> QED BY <2>1, <3>1, <3>2
  <2>3. next' \in 1..Total + 1 /\ task' \in [Workers -> 0..Total]
    BY <1>2, <1>3
  <2> QED BY <1>1, <2>2, <2>3 DEF RunTypeOK
<1>10. PaymentTypes'
  BY <1>1, <1>3 DEF PaymentTypes
<1>11. SuccessPaid'
  <2>1. \A j \in Tasks : order'[j] = order[j] \/ order'[j] = TaskOn(next, listed)
    BY <1>3 DEF PaymentTypes
  <2>2. TaskOn(next, listed).key = NoKey
    BY DEF TaskOn, TaskOrder
  <2> QED BY <1>1, <2>1, <2>2 DEF SuccessPaid
<1>12. TakenOnly'
  <2>1. \A j \in Tasks : j >= next' => j >= next /\ j # next
    BY <1>2, <1>3 DEF Tasks
  <2>2. \A j \in Tasks : j >= next' => order'[j] = NoOrder /\ answer'[j] = Payments!NoAnswer
    BY <1>1, <1>3, <2>1 DEF TakenOnly, PaymentTypes
  <2>3. \A j \in Tasks : j < next' /\ answer'[j] = Payments!NoAnswer => j \in InFlight'
    <3>1. \A j \in Tasks : j < next' => j < next \/ j \in New
      BY <1>2, <1>3 DEF Tasks
    <3> HIDE DEF New
    <3> QED BY <1>1, <1>7, <3>1 DEF TakenOnly
  <2>4. \A v \in Workers : task'[v] < next'
    BY <1>2, <1>3, <1>4, <1>5 DEF TakenOnly
  <2> QED BY <1>1, <2>2, <2>3, <2>4 DEF TakenOnly
<1>13. Counted'
  <2>1. Cardinality(InFlight') = IF next =< Total THEN Cardinality(InFlight) ELSE Cardinality(InFlight) - 1
    <3>1. Cardinality(InFlight \ {i}) = Cardinality(InFlight) - 1 /\ IsFiniteSet(InFlight \ {i})
      BY <1>6, FiniteTasks, FS_RemoveElement
    <3>2. CASE next =< Total
      <4>1. next \notin InFlight
        BY <1>2 DEF InFlight, TakenOnly
      <4>2. InFlight' = (InFlight \ {i}) \union {next}
        BY <1>7, <3>2
      <4>3. Cardinality(InFlight') = Cardinality(InFlight \ {i}) + 1
        BY <3>1, <4>1, <4>2, FS_AddElement
      <4> QED BY <3>1, <3>2, <4>3, FiniteTasks
    <3>3. CASE ~ (next =< Total)
      BY <1>7, <3>1, <3>3
    <3> QED BY <3>2, <3>3
  <2>2. Cardinality(Rewarded') = IF Won THEN Cardinality(Rewarded) + 1 ELSE Cardinality(Rewarded)
    BY <1>8, FiniteTasks, FS_AddElement
  <2>3. successful' = Cardinality(Rewarded')
    BY <1>1, <2>2 DEF Counted
  <2>4. successful' + failed' + Cardinality(InFlight') = next' - 1
    <3> HIDE DEF Won, i, New
    <3> QED BY <1>1, <1>2, <1>3, <2>1, FiniteTasks DEF Counted
  <2>5. \A v, u \in Workers : task'[v] = task'[u] /\ v # u => task'[v] = 0
    <3>1. \A v \in Workers \ {w} : task'[v] = task[v] /\ task[v] < next
      BY <1>4 DEF TakenOnly
    <3>2. \A v \in Workers \ {w} : task'[v] = task'[w] => task'[v] = 0
      BY <1>2, <1>5, <3>1
    <3>3. \A v, u \in Workers \ {w} : task[v] = task[u] /\ v # u => task[v] = 0
      BY DEF Counted
    <3> QED BY <1>5, <3>1, <3>2, <3>3
  <2> QED BY <1>1, <2>3, <2>4, <2>5 DEF Counted
<1> QED BY <1>9, <1>10, <1>11, <1>12, <1>13

(* The report is made.                                                       *)
LEMMA ReportSteps ==
  ASSUME IInv, SumAfter
  PROVE  RunInv'
<1> USE DEF IInv, RunInv
<1>1. /\ UNCHANGED <<order, balance, txs, answer, host, listed, next, task, successful, failed>>
      /\ spike' = "reported" /\ next > Total /\ InFlight = {}
  BY DEF SumAfter, payVars
<1>2. InFlight' = InFlight /\ Rewarded' = Rewarded
  BY <1>1 DEF InFlight, Rewarded
<1>3. RunTypeOK' /\ PaymentTypes' /\ SuccessPaid'
  BY <1>1 DEF RunTypeOK, PaymentTypes, SuccessPaid
<1>4. TakenOnly' /\ Counted'
  BY <1>1, <1>2 DEF TakenOnly, Counted
<1> QED BY <1>3, <1>4

(* A query fails and there is no report.                                     *)
LEMMA QuerySteps ==
  ASSUME IInv, QueryFails
  PROVE  RunInv'
<1> USE DEF IInv, RunInv
<1>1. /\ UNCHANGED <<order, balance, txs, answer, host, listed, next, task, successful, failed>>
      /\ spike' = "lost"
  BY DEF QueryFails, payVars
<1>2. InFlight' = InFlight /\ Rewarded' = Rewarded
  BY <1>1 DEF InFlight, Rewarded
<1>3. RunTypeOK' /\ PaymentTypes' /\ SuccessPaid'
  BY <1>1 DEF RunTypeOK, PaymentTypes, SuccessPaid
<1>4. TakenOnly' /\ Counted'
  BY <1>1, <1>2 DEF TakenOnly, Counted
<1> QED BY <1>3, <1>4

(* A replica dies, perhaps the one that simulates.                           *)
LEMMA DeathSteps ==
  ASSUME IInv, NEW r \in Replicas, Dies(r)
  PROVE  RunInv'
<1> USE DEF IInv, RunInv
<1>1. UNCHANGED <<order, txs, host, listed, next, task, successful, failed>>
  BY DEF Dies
<1>2. InFlight' = InFlight
  BY <1>1 DEF InFlight
<1>3. CASE UNCHANGED <<spike, answer>>
  <2>1. Rewarded' = Rewarded
    BY <1>1, <1>2, <1>3 DEF Rewarded
  <2>2. RunTypeOK' /\ PaymentTypes' /\ SuccessPaid'
    BY <1>1, <1>3 DEF RunTypeOK, PaymentTypes, SuccessPaid
  <2>3. TakenOnly' /\ Counted'
    BY <1>1, <1>2, <1>3, <2>1 DEF TakenOnly, Counted
  <2> QED BY <2>2, <2>3
<1>4. CASE /\ host = r /\ spike \in {"listed", "running"} /\ spike' = "lost"
           /\ answer' = [j \in DOMAIN answer |->
                IF j \in InFlight /\ answer[j] = Payments!NoAnswer
                THEN Payments!Told(Payments!Reset, {}) ELSE answer[j]]
  <2>1. \A j \in Tasks : /\ j \notin InFlight => answer'[j] = answer[j]
                         /\ answer'[j] = answer[j] \/ (answer'[j].code = 1 /\ answer'[j] \in [code : Nat, paid : SUBSET txs])
                         /\ answer'[j] = Payments!NoAnswer => answer[j] = Payments!NoAnswer
    BY <1>4 DEF PaymentTypes, Payments!Told, Payments!Reset, Payments!NoAnswer, Payments!Pending
  <2>2. Rewarded' = Rewarded
    <3>1. 1..next - 1 \subseteq Tasks
      BY SimulationAssumption DEF RunTypeOK, Tasks
    <3>2. (1..next' - 1) \ InFlight' = (1..next - 1) \ InFlight
      BY <1>1, <1>2
    <3> QED BY <2>1, <3>1, <3>2 DEF Rewarded
  <2>3. RunTypeOK'
    BY <1>1, <1>4 DEF RunTypeOK
  <2>4. PaymentTypes'
    <3>1. answer' \in [Tasks -> [code : Nat, paid : SUBSET txs]]
      BY <1>4, <2>1 DEF PaymentTypes
    <3> QED BY <1>1, <3>1 DEF PaymentTypes
  <2>5. SuccessPaid'
    BY <1>1, <2>1 DEF SuccessPaid
  <2>6. TakenOnly'
    <3>1. \A j \in Tasks : j >= next => j \notin InFlight
      BY SimulationAssumption DEF InFlight, TakenOnly, RunTypeOK, Tasks
    <3> QED BY <1>1, <1>2, <1>4, <2>1, <3>1 DEF TakenOnly
  <2>7. Counted'
    BY <1>1, <1>2, <1>4, <2>2 DEF Counted
  <2> QED BY <2>3, <2>4, <2>5, <2>6, <2>7
<1> QED BY <1>3, <1>4 DEF Dies

(* The endpoint pays.                                                        *)
LEMMA PaySteps ==
  ASSUME IInv, NEW i \in Tasks, Pay(i)
  PROVE  RunInv'
<1> USE DEF IInv, RunInv
<1>1. UNCHANGED <<order, answer, spike, host, listed, before, after, next, task, successful, failed>>
  BY DEF Pay, Payments!Pay, runVars
<1>2. PICK t : txs' = txs \union {t}
  BY DEF Pay, Payments!Pay
<1>3. InFlight' = InFlight /\ Rewarded' = Rewarded
  BY <1>1 DEF InFlight, Rewarded
<1>4. IsFiniteSet(txs') /\ txs \subseteq txs'
  BY <1>2, FS_AddElement DEF PaymentTypes
<1>5. RunTypeOK' /\ PaymentTypes' /\ SuccessPaid'
  BY <1>1, <1>4 DEF RunTypeOK, PaymentTypes, SuccessPaid
<1>6. TakenOnly' /\ Counted'
  BY <1>1, <1>3 DEF TakenOnly, Counted
<1> QED BY <1>5, <1>6

(* The endpoint answers; a 201 names a payment of this task, which has no key. *)
LEMMA ReplySteps ==
  ASSUME IInv, NEW i \in Tasks, Reply(i)
  PROVE  RunInv'
<1> USE DEF IInv, RunInv
<1>1. /\ UNCHANGED <<order, balance, txs, spike, host, listed, before, after, next, task, successful, failed>>
      /\ order[i] # NoOrder /\ answer[i] = Payments!NoAnswer
  BY DEF Reply, Payments!Reply, runVars
<1>2. PICK c \in Nat, S \in SUBSET txs :
        /\ answer' = [answer EXCEPT ![i] = [code |-> c, paid |-> S]]
        /\ c # 0
        /\ c = 201 => \E t \in txs : Payments!Covers(t, i)
  BY DEF Reply, Payments!Reply, Payments!Told, Payments!Refusals
<1>3. i < next /\ i \in InFlight
  BY <1>1, SimulationAssumption DEF TakenOnly, RunTypeOK, Tasks
<1>4. InFlight' = InFlight
  BY <1>1 DEF InFlight
<1>5. \A j \in Tasks \ {i} : answer'[j] = answer[j]
  BY <1>2 DEF PaymentTypes
<1>6. answer'[i] = [code |-> c, paid |-> S]
  BY <1>2 DEF PaymentTypes
<1>7. Rewarded' = Rewarded
  <2>1. 1..next - 1 \subseteq Tasks
    BY SimulationAssumption DEF RunTypeOK, Tasks
  <2> QED BY <1>1, <1>3, <1>4, <1>5, <2>1 DEF Rewarded
<1>8. RunTypeOK' /\ PaymentTypes'
  BY <1>1, <1>2 DEF RunTypeOK, PaymentTypes
<1>9. SuccessPaid'
  <2>1. order[i].key = NoKey
    BY <1>1 DEF SuccessPaid
  <2>2. c = 201 => \E t \in txs : t.by = i
    BY <1>2, <2>1 DEF Payments!Covers
  <2> QED BY <1>1, <1>5, <1>6, <2>2 DEF SuccessPaid
<1>10. TakenOnly'
  <2>1. answer'[i] # Payments!NoAnswer
    BY <1>2, <1>6 DEF Payments!NoAnswer, Payments!Pending
  <2>2. \A j \in Tasks : j >= next => j # i
    BY <1>3, SimulationAssumption DEF RunTypeOK, Tasks
  <2> QED BY <1>1, <1>4, <1>5, <2>1, <2>2 DEF TakenOnly
<1>11. Counted'
  BY <1>1, <1>4, <1>7 DEF Counted
<1> QED BY <1>8, <1>9, <1>10, <1>11

-----------------------------------------------------------------------------
(* The simulation, its faults included, leaves the table to the others.     *)
LEMMA TableOfSimulation == [Next]_vars => [TableNext]_tableVars
<1>1. TableStep \/ (\E r \in Replicas : Dies(r)) => TableNext
  BY DEF TableNext, Dies
<1>2. ASSUME Next, ~ TableStep, ~ \E r \in Replicas : Dies(r) PROVE UNCHANGED tableVars
  <2>1. ASSUME NEW r \in Replicas, ListAccounts(r) PROVE UNCHANGED tableVars
    BY <2>1 DEF ListAccounts
  <2>2. ASSUME NEW w \in Workers, Settle(w) PROVE UNCHANGED tableVars
    BY <2>2 DEF Settle
  <2>3. ASSUME NEW i \in Tasks, Pay(i) \/ Reply(i) PROVE UNCHANGED tableVars
    BY <2>3 DEF Pay, Reply
  <2> QED BY <1>2, <2>1, <2>2, <2>3 DEF Next, SumBefore, SumAfter, QueryFails
<1> QED BY <1>1, <1>2 DEF vars

LEMMA Start0 == Init => IInv
  BY TableStart, RunStart DEF Init, IInv

LEMMA Steps == IInv /\ [Next]_vars => IInv'
<1> SUFFICES ASSUME IInv, [Next]_vars PROVE IInv'
  OBVIOUS
<1>1. TableInv'
  BY TableOfSimulation, TableSteps DEF IInv
<1>2. ASSUME UNCHANGED <<payVars, runVars>> PROVE RunInv'
  BY <1>2, RunUnchanged DEF IInv
<1>3. ASSUME Next PROVE RunInv'
  <2>1. ASSUME NEW r \in Replicas, Dies(r) \/ ListAccounts(r) PROVE RunInv'
    BY <2>1, DeathSteps, ListSteps
  <2>2. ASSUME NEW w \in Workers, Settle(w) PROVE RunInv'
    BY <2>2, SettleSteps
  <2>3. ASSUME NEW i \in Tasks, Pay(i) \/ Reply(i) PROVE RunInv'
    BY <2>3, PaySteps, ReplySteps
  <2> QED BY <1>2, <1>3, <2>1, <2>2, <2>3, StartSteps, ReportSteps, QuerySteps DEF Next
<1>4. UNCHANGED vars => UNCHANGED <<payVars, runVars>>
  BY DEF vars
<1> QED BY <1>1, <1>2, <1>3, <1>4 DEF IInv

-----------------------------------------------------------------------------
(* The money of the simulation *)

LEMMA MoneyStart == Init => MoneyInv
<1> SUFFICES ASSUME Init PROVE MoneyInv
  OBVIOUS
<1>1. rows = {} /\ listed = {} /\ spike = "off" /\ balance = Opening /\ \A i \in Tasks : order[i] = NoOrder
  BY DEF Init, TableInit, Payments!Init
<1> QED BY <1>1, FS_EmptySet, SimulationAssumption DEF MoneyInv, TasksStayListed, MoneyKept

(* Neither rows nor balances change: the money of the table is the same.     *)
LEMMA SameTable ==
  ASSUME UNCHANGED <<rows, balance>>
  PROVE  Taken' = Taken /\ TotalMoney' = TotalMoney
BY DEF Taken, TotalMoney

(* New rows have new numbers, so the table is not the list any more.         *)
LEMMA RowsMoney ==
  ASSUME TableInv, MoneyInv, TableNext, rows' # rows
  PROVE  IsFiniteSet(rows') /\ listed \subseteq Taken' /\ Taken' # listed
<1>1. CASE \E n \in Numbers, a \in Replicas \union Clients : n \notin Taken /\ rows' = rows \union {NewRow(n, a)}
  <2>1. PICK n \in Numbers, a \in Replicas \union Clients : n \notin Taken /\ rows' = rows \union {NewRow(n, a)}
    BY <1>1
  <2>2. Taken' = Taken \union {n}
    BY <2>1 DEF Taken, NewRow
  <2> QED BY <2>1, <2>2, FS_AddElement DEF MoneyInv, MoneyKept
<1>2. CASE rows = {} /\ rows' = {NewRow(n, Job) : n \in Seeds}
  <2>1. IsFiniteSet(rows')
    <3>1. IsFiniteSet(Seeds)
      BY FS_Interval, SeedAssumption DEF Seeds
    <3>2. PICK f : f = [n \in Seeds |-> NewRow(n, Job)]
      OBVIOUS
    <3>3. DOMAIN f = Seeds /\ rows' = {f[n] : n \in DOMAIN f} /\ f = [n \in DOMAIN f |-> f[n]]
      BY <1>2, <3>2
    <3> QED BY <3>1, <3>3, FiniteImage
  <2>2. 1 \in Seeds /\ NewRow(1, Job) \in rows'
    BY <1>2, SeedAssumption DEF Seeds
  <2>3. 1 \in Taken' /\ Taken = {}
    BY <1>2, <2>2 DEF Taken, NewRow
  <2> QED BY <2>1, <2>3 DEF MoneyInv, MoneyKept
<1> QED BY <1>1, <1>2, RowsGrow

(* A payment between two accounts of the table leaves its money alone.       *)
LEMMA PayMoney ==
  ASSUME IInv, MoneyInv, NEW i \in Tasks, Pay(i)
  PROVE  balance' \in [Numbers -> Int] /\ TotalMoney' = TotalMoney
<1> DEFINE o == order[i]
<1>1. /\ o.src \in Taken /\ o.dst \in Taken /\ o.src # o.dst /\ o.amt \in Nat
      /\ o.src \in Numbers /\ o.dst \in Numbers
      /\ balance' = [balance EXCEPT ![o.src] = @ - o.amt, ![o.dst] = @ + o.amt]
      /\ balance \in [Numbers -> Int] /\ rows' = rows
  BY DEF Pay, Payments!Pay, MoneyInv, TasksStayListed, MoneyKept, tableVars
<1>2. PICK x \in rows, y \in rows : x.num = o.src /\ y.num = o.dst
  BY <1>1 DEF Taken
<1> HIDE DEF o
<1>3. /\ x # y
      /\ \A z \in rows : z.num \in Numbers /\ (z.num = o.src => z = x) /\ (z.num = o.dst => z = y)
  BY <1>1, <1>2 DEF IInv, TableInv, TableTypeOK, UniqueRows
<1>4. PICK v : v = [z \in rows |-> balance[z.num]]
  OBVIOUS
<1>5. PICK w : w = [z \in rows |-> balance'[z.num]]
  OBVIOUS
<1>6. PICK b : b = balance'
  OBVIOUS
<1>7. /\ b \in [Numbers -> Int] /\ o.amt \in Int
      /\ b[o.src] = balance[o.src] - o.amt
      /\ b[o.dst] = balance[o.dst] + o.amt
      /\ \A a \in Numbers \ {o.src, o.dst} : b[a] = balance[a]
  BY <1>1, <1>6
<1>8. \A z \in rows : v[z] = balance[z.num] /\ w[z] = b[z.num]
  BY <1>4, <1>5, <1>6
<1>9. \A z \in rows : v[z] \in Int /\ w[z] \in Int
  <2> TAKE z \in rows
  <2>1. z.num \in Numbers /\ v[z] = balance[z.num] /\ w[z] = b[z.num]
    BY <1>3, <1>8
  <2> QED BY <1>1, <1>7, <2>1
<1>10. w[x] = v[x] - o.amt /\ w[y] = v[y] + o.amt
  BY <1>2, <1>7, <1>8
<1>11. \A z \in rows \ {x, y} : w[z] = v[z]
  <2> TAKE z \in rows \ {x, y}
  <2>1. z.num \in Numbers \ {o.src, o.dst}
    BY <1>3
  <2>2. v[z] = balance[z.num] /\ w[z] = b[z.num]
    BY <1>8
  <2> QED BY <1>7, <2>1, <2>2
<1>12. SumFunctionOnSet(w, rows) = SumFunctionOnSet(v, rows)
  <2>1. x # y /\ IsFiniteSet(rows)
    BY <1>3 DEF MoneyInv, MoneyKept
  <2>2. PICK d \in Int : d = o.amt
    BY <1>7
  <2>3. w[x] = v[x] - d /\ w[y] = v[y] + d
    BY <1>10, <2>2
  <2> QED BY <1>9, <1>11, <2>1, <2>3, SumMoves
<1>13. TotalMoney = SumFunctionOnSet(v, rows) /\ TotalMoney' = SumFunctionOnSet(w, rows)
  BY <1>1, <1>4, <1>5 DEF TotalMoney, SumFunction
<1> QED BY <1>6, <1>7, <1>12, <1>13

(* The list is finite and made of numbers. *)
LEMMA ListFinite ==
  ASSUME IInv, MoneyInv
  PROVE  IsFiniteSet(Taken) /\ IsFiniteSet(listed) /\ listed \in SUBSET Nat /\ Cardinality(listed) \in Nat
<1>1. IsFiniteSet(Taken)
  <2>1. PICK f : f = [x \in rows |-> x.num]
    OBVIOUS
  <2>2. DOMAIN f = rows /\ Taken = {f[x] : x \in DOMAIN f} /\ f = [x \in DOMAIN f |-> f[x]]
    BY <2>1 DEF Taken
  <2> QED BY <2>2, FiniteImage DEF MoneyInv, MoneyKept
<1>2. listed \in SUBSET Nat
  BY SimulationAssumption DEF IInv, RunInv, RunTypeOK
<1> QED BY <1>1, <1>2, FS_Subset, FS_CardinalityType DEF MoneyInv, MoneyKept

LEMMA MoneySteps == IInv /\ MoneyInv /\ [Next]_vars => MoneyInv'
<1> SUFFICES ASSUME IInv, MoneyInv, [Next]_vars PROVE MoneyInv'
  OBVIOUS
<1> USE DEF MoneyInv
<1>1. CASE TableStep /\ UNCHANGED <<payVars, runVars>>
  <2>1. UNCHANGED <<order, balance, spike, listed, before, after>>
    BY <1>1 DEF payVars, runVars
  <2>2. TasksStayListed'
    BY <2>1 DEF TasksStayListed
  <2>3. CASE rows' = rows
    BY <2>1, <2>2, <2>3, SameTable DEF MoneyKept
  <2>4. CASE rows' # rows
    BY <1>1, <2>1, <2>2, <2>4, RowsMoney DEF IInv, MoneyKept, TableNext
  <2> QED BY <2>2, <2>3, <2>4
<1>2. ASSUME NEW r \in Replicas, Dies(r) PROVE MoneyInv'
  <2>1. UNCHANGED <<rows, order, balance, listed, before, after>> /\ spike' \in {spike, "lost"}
    BY <1>2 DEF Dies, Crash
  <2>2. TasksStayListed'
    BY <2>1 DEF TasksStayListed
  <2> QED BY <2>1, <2>2, SameTable DEF MoneyKept
<1>3. ASSUME NEW r \in Replicas, ListAccounts(r) PROVE MoneyInv'
  <2>1. UNCHANGED <<rows, order, balance>> /\ spike = "off" /\ spike' = "listed" /\ listed' = Taken
    BY <1>3 DEF ListAccounts, tableVars, payVars
  <2>2. \A i \in Tasks : order[i] = NoOrder
    <3>1. next = 1 /\ \A i \in Tasks : i >= 1
      BY <2>1, SimulationAssumption DEF IInv, RunInv, TakenOnly, Tasks
    <3> QED BY <3>1 DEF IInv, RunInv, TakenOnly
  <2> QED BY <2>1, <2>2, SameTable DEF TasksStayListed, MoneyKept
<1>4. CASE SumBefore
  <2>1. UNCHANGED <<rows, balance, listed, after>> /\ before' = TotalMoney
    BY <1>4 DEF SumBefore, tableVars
  <2>2. CASE Cardinality(listed) < 2
    <3>1. spike' = "refused" /\ order' = order
      BY <1>4, <2>2 DEF SumBefore
    <3> QED BY <2>1, <3>1, SameTable DEF TasksStayListed, MoneyKept
  <2>3. CASE ~ (Cardinality(listed) < 2)
    <3>1. spike' = "running" /\ order' = [i \in DOMAIN order |-> IF i \in Workers THEN TaskOn(i, listed) ELSE order[i]]
      BY <1>4, <2>3 DEF SumBefore
    <3>2. Cardinality(listed) >= 2
      BY <2>3, ListFinite
    <3>3. ASSUME NEW i \in Tasks
          PROVE  order'[i] # NoOrder =>
                   /\ order'[i].src \in listed /\ order'[i].dst \in listed /\ order'[i].src # order'[i].dst
                   /\ order'[i].amt \in Nat
      <4>1. DOMAIN order = Tasks /\ i \in Nat \ {0}
        BY SimulationAssumption DEF IInv, RunInv, PaymentTypes, Tasks
      <4>2. CASE i \in Workers
        BY <3>1, <3>2, <4>1, <4>2, ListFinite, TaskBetweenListed
      <4>3. CASE i \notin Workers
        BY <3>1, <4>1, <4>3 DEF TasksStayListed
      <4> QED BY <4>2, <4>3
    <3>4. TasksStayListed'
      BY <2>1, <3>3 DEF TasksStayListed
    <3> QED BY <2>1, <3>1, <3>2, <3>4, SameTable DEF MoneyKept
  <2> QED BY <2>2, <2>3
<1>5. ASSUME NEW w \in Workers, Settle(w) PROVE MoneyInv'
  <2>1. UNCHANGED <<rows, balance, listed, spike, before, after>> /\ spike = "running" /\ TakeNext(w)
    BY <1>5 DEF Settle, Ended, tableVars
  <2>2. order' = order \/ (next =< Total /\ order' = [order EXCEPT ![next] = TaskOn(next, listed)])
    BY <2>1 DEF TakeNext
  <2>3. next \in Nat \ {0} /\ DOMAIN order = Tasks
    BY SimulationAssumption DEF IInv, RunInv, RunTypeOK, PaymentTypes
  <2>4. /\ TaskOn(next, listed).src \in listed /\ TaskOn(next, listed).dst \in listed
        /\ TaskOn(next, listed).src # TaskOn(next, listed).dst /\ TaskOn(next, listed).amt \in Nat
    BY <2>1, <2>3, ListFinite, TaskBetweenListed DEF MoneyKept
  <2>5. \A i \in Tasks : order'[i] = order[i] \/ order'[i] = TaskOn(next, listed)
    BY <2>2, <2>3
  <2>6. TasksStayListed'
    BY <2>1, <2>4, <2>5 DEF TasksStayListed
  <2> QED BY <2>1, <2>6, SameTable DEF MoneyKept
<1>6. CASE SumAfter
  <2>1. /\ UNCHANGED <<rows, order, balance, listed, before>>
        /\ spike = "running" /\ spike' = "reported" /\ after' = TotalMoney
    BY <1>6 DEF SumAfter, tableVars, payVars
  <2> QED BY <2>1, SameTable DEF TasksStayListed, MoneyKept
<1>7. CASE QueryFails
  <2>1. UNCHANGED <<rows, order, balance, listed, before, after>> /\ spike' = "lost"
    BY <1>7 DEF QueryFails, tableVars, payVars
  <2> QED BY <2>1, SameTable DEF TasksStayListed, MoneyKept
<1>8. ASSUME NEW i \in Tasks, Pay(i) PROVE MoneyInv'
  <2>1. UNCHANGED <<rows, order, spike, listed, before, after>>
    BY <1>8 DEF Pay, Payments!Pay, tableVars, runVars
  <2>2. Taken' = Taken
    BY <2>1 DEF Taken
  <2> QED BY <1>8, <2>1, <2>2, PayMoney DEF TasksStayListed, MoneyKept
<1>9. ASSUME NEW i \in Tasks, Reply(i) PROVE MoneyInv'
  <2>1. UNCHANGED <<rows, order, balance, spike, listed, before, after>>
    BY <1>9 DEF Reply, Payments!Reply, tableVars, runVars
  <2> QED BY <2>1, SameTable DEF TasksStayListed, MoneyKept
<1>10. CASE UNCHANGED vars
  <2>1. UNCHANGED <<rows, order, balance, spike, listed, before, after>>
    BY <1>10 DEF vars, tableVars, payVars, runVars
  <2> QED BY <2>1, SameTable DEF TasksStayListed, MoneyKept
<1> QED BY <1>1, <1>2, <1>3, <1>4, <1>5, <1>6, <1>7, <1>8, <1>9, <1>10 DEF Next

-----------------------------------------------------------------------------
(* The simulation implements the table of accounts: whatever holds of the    *)
(* table holds while a spike runs on it.                                     *)
THEOREM ImplementsTable == Spec => TableSpec
<1>1. Init => TableInit
  BY DEF Init
<1> QED BY <1>1, TableOfSimulation, PTL DEF Spec, TableSpec

(* The inductive invariants of table and simulation together.                *)
THEOREM Invariance == Spec => []IInv
  BY Start0, Steps, PTL DEF Spec

(* Type correctness; the two sums are left open.                             *)
THEOREM Typing == Spec => []TypeOK
<1>1. IInv => TypeOK
  BY DEF IInv, TableInv, RunInv, TypeOK
<1> QED BY <1>1, Invariance, PTL

(* Every success of a task is counted once, and paid by a payment of its own. *)
LEMMA SuccessesPaid == IInv => Cardinality(Rewarded) =< Cardinality(txs)
<1> SUFFICES ASSUME IInv PROVE Cardinality(Rewarded) =< Cardinality(txs)
  OBVIOUS
<1> DEFINE f == [t \in txs |-> t.by]
           T == {t.by : t \in txs}
<1>1. f \in Surjection(txs, T)
  BY DEF Surjection
<1>2. IsFiniteSet(txs) /\ IsFiniteSet(T) /\ Cardinality(T) =< Cardinality(txs)
  BY <1>1, FS_Surjection DEF IInv, RunInv, PaymentTypes
<1>3. Rewarded \in SUBSET T
  <2>1. 1..next - 1 \subseteq Tasks
    BY SimulationAssumption DEF IInv, RunInv, RunTypeOK, Tasks
  <2> QED BY <2>1 DEF IInv, RunInv, SuccessPaid, Rewarded
<1>4. Cardinality(Rewarded) =< Cardinality(T) /\ Cardinality(Rewarded) \in Nat
  BY <1>2, <1>3, FS_Subset, FS_CardinalityType
<1>5. Cardinality(T) \in Nat /\ Cardinality(txs) \in Nat
  BY <1>2, FS_CardinalityType
<1> QED BY <1>2, <1>4, <1>5

(* The report accounts for every transfer once.                              *)
THEOREM ReportsAddUp == Spec => []ReportAddsUp
<1>1. IInv => ReportAddsUp
  <2> SUFFICES ASSUME IInv PROVE ReportAddsUp
    OBVIOUS
  <2>1. Counted /\ RunInv /\ RunTypeOK
    BY DEF IInv, RunInv
  <2>2. spike = "reported" => successful + failed = Total
    BY <2>1, FiniteTasks, FS_EmptySet DEF Counted, RunTypeOK
  <2>3. successful =< Cardinality(txs)
    BY <2>1, SuccessesPaid DEF Counted
  <2> QED BY <2>1, <2>2, <2>3 DEF Counted, ReportAddsUp
<1> QED BY <1>1, Invariance, PTL

(* moneyConserved is false only when the table has grown since it was        *)
(* listed: payments between listed accounts move money, and lose none.       *)
THEOREM MoneyConserved == Spec => []AlarmHasCause
<1>1. MoneyInv => AlarmHasCause
  BY DEF MoneyInv, MoneyKept, AlarmHasCause
<1> QED BY <1>1, MoneyStart, MoneySteps, Invariance, PTL DEF Spec

(* A report is lost with its replica, or by a query of the simulation's own  *)
(* when no transfer is under way: never by a transfer (the safety half of    *)
(* Finishes).                                                                *)
THEOREM LostForOwnReasons == Spec => LostForAReason
<1> DEFINE Reason == boot'[host] = "starting" \/ next = 1 \/ successful + failed = Total
           Lost == spike' = "lost" /\ spike # "lost"
<1>1. ASSUME IInv, Next, Lost PROVE Reason
  <2>1. CASE QueryFails
    <3>1. CASE spike = "listed"
      BY <1>1, <3>1 DEF IInv, RunInv, TakenOnly
    <3>2. CASE next > Total /\ InFlight = {}
      <4>1. /\ Cardinality(InFlight) = 0 /\ next = Total + 1 /\ Total \in Nat
            /\ successful + failed + Cardinality(InFlight) = next - 1
            /\ successful \in Nat /\ failed \in Nat
        BY <1>1, <3>2, FS_EmptySet, SimulationAssumption DEF IInv, RunInv, RunTypeOK, Counted
      <4> QED BY <4>1
    <3> QED BY <2>1, <3>1, <3>2 DEF QueryFails
  <2>2. ASSUME NEW r \in Replicas, Dies(r) PROVE Reason
    <3>1. host = r /\ Crash(r)
      BY <1>1, <2>2 DEF Dies
    <3>2. boot' = [boot EXCEPT ![r] = "starting"] /\ boot \in [Replicas -> {"starting", "seeding", "ready"}]
      BY <1>1, <3>1 DEF Crash, IInv, TableInv, TableTypeOK
    <3> QED BY <3>1, <3>2
  <2>3. ASSUME NEW r \in Replicas PROVE ~ ListAccounts(r)
    BY <1>1 DEF ListAccounts
  <2>4. ~ SumBefore /\ ~ SumAfter
    BY <1>1 DEF SumBefore, SumAfter
  <2>5. ASSUME NEW w \in Workers PROVE ~ Settle(w)
    BY <1>1 DEF Settle
  <2>6. ASSUME NEW i \in Tasks PROVE ~ Pay(i) /\ ~ Reply(i)
    BY <1>1 DEF Pay, Reply, runVars
  <2>7. ~ UNCHANGED <<payVars, runVars>>
    BY <1>1 DEF runVars
  <2> QED BY <1>1, <2>1, <2>2, <2>3, <2>4, <2>5, <2>6, <2>7 DEF Next
<1>2. IInv /\ [Next]_vars => [Lost => Reason]_vars
  BY <1>1
<1> QED BY <1>2, Invariance, PTL DEF Spec, LostForAReason

(* The seed and the answers of creations, while a spike runs.                *)
THEOREM SeedAndAnswers == Spec => [](SeedWhole /\ CreatedOnce)
<1>1. IInv => SeedWhole /\ CreatedOnce
  BY DEF IInv, TableInv
<1> QED BY <1>1, Invariance, PTL
=============================================================================
