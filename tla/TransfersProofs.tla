--------------------------- MODULE TransfersProofs --------------------------
EXTENDS TransfersInv, WellFoundedInduction, FiniteSetTheorems, TLAPS

-----------------------------------------------------------------------------
(* Sums over finite sets *)

(* Every non-empty set of naturals has a least element. *)
LEMMA LeastNatural ==
  ASSUME NEW T \in SUBSET Nat, T # {}
  PROVE  \E x \in T : \A y \in T : x <= y
<1>1. PICK x \in T : \A y \in T : <<y, x>> \notin OpToRel(<, Nat)
  BY WFMin, NatLessThanWellFounded, Zenon
<1>2. \A y \in T : <<y, x>> \in Nat \X Nat
  OBVIOUS
<1>3. \A y \in T : ~ (<<y, x>>[1] < <<y, x>>[2])
  BY <1>1, <1>2, Zenon DEF OpToRel
<1>4. QED
  BY <1>3

(* m sums w over the subsets of S. *)
Sums(m, w, S) ==
  /\ m \in [SUBSET S -> Int] /\ m[{}] = 0
  /\ \A x \in S : \A T \in SUBSET S : x \notin T => m[T \union {x}] = m[T] + w[x]

(* Weights over a finite set have a sum: otherwise take a least subset      *)
(* without one, and remove an element.                                      *)
LEMMA SomethingSums ==
  ASSUME NEW S, IsFiniteSet(S), NEW w, \A x \in S : w[x] \in Int
  PROVE  \E m : Sums(m, w, S)
<1> DEFINE Missing == {Cardinality(T) : T \in {U \in SUBSET S : ~ \E m : Sums(m, w, U)}}
<1>1. SUFFICES ASSUME Missing # {} PROVE FALSE
  BY Zenon
<1>2. Missing \subseteq Nat
  BY FS_Subset, FS_CardinalityType
<1>3. PICK c \in Missing : \A d \in Missing : c <= d
  <2> HIDE DEF Missing
  <2> QED BY <1>1, <1>2, LeastNatural
<1>4. PICK T \in SUBSET S : Cardinality(T) = c /\ ~ \E m : Sums(m, w, T)
  BY <1>3
<1>5. T # {}
  <2>1. Sums([U \in SUBSET {} |-> 0], w, {})
    BY DEF Sums
  <2>2. QED
    BY <2>1, <1>4
<1>6. PICK y \in T : TRUE
  BY <1>5
<1> DEFINE R == T \ {y}
<1>7. R \in SUBSET S /\ Cardinality(R) < c /\ Cardinality(R) \in Nat
  BY <1>4, <1>6, FS_Subset, FS_CardinalityType, FS_RemoveElement
<1>8. PICK m : Sums(m, w, R)
  <2>1. Cardinality(R) \notin Missing
    BY <1>2, <1>3, <1>7
  <2>2. QED
    BY <1>7, <2>1
<1> DEFINE n == [U \in SUBSET T |-> IF y \in U THEN m[U \ {y}] + w[y] ELSE m[U]]
<1>9. \A U \in SUBSET T : U \ {y} \in SUBSET R /\ (y \notin U => U \ {y} = U)
  OBVIOUS
<1>10. n \in [SUBSET T -> Int] /\ n[{}] = 0
  <2>1. \A U \in SUBSET R : m[U] \in Int
    BY <1>8 DEF Sums
  <2>2. \A U \in SUBSET T : n[U] \in Int
    BY <1>9, <2>1, <1>6
  <2>3. QED
    BY <2>2, <1>8 DEF Sums
<1>11. ASSUME NEW x \in T, NEW U \in SUBSET T, x \notin U PROVE n[U \union {x}] = n[U] + w[x]
  <2>0. w[x] \in Int /\ w[y] \in Int
    BY <1>4, <1>6
  <2>1. CASE x = y
    <3>1. (U \union {x}) \ {y} = U /\ U \in SUBSET R
      BY <2>1, <1>11
    <3>2. n[U \union {x}] = m[U] + w[y]
      BY <3>1, <2>1
    <3>3. QED
      BY <3>2, <2>1, <1>11
  <2>2. CASE x # y /\ y \in U
    <3>1. (U \union {x}) \ {y} = (U \ {y}) \union {x} /\ x \in R /\ U \ {y} \in SUBSET R /\ x \notin U \ {y}
      BY <2>2, <1>11
    <3>2. m[(U \ {y}) \union {x}] = m[U \ {y}] + w[x] /\ m[U \ {y}] \in Int
      BY <3>1, <1>8 DEF Sums
    <3>3. n[U \union {x}] = m[(U \ {y}) \union {x}] + w[y] /\ n[U] = m[U \ {y}] + w[y]
      BY <2>2, <3>1
    <3>4. QED
      BY <2>0, <3>2, <3>3
  <2>3. CASE x # y /\ y \notin U
    <3>1. x \in R /\ U \in SUBSET R
      BY <2>3
    <3>2. m[U \union {x}] = m[U] + w[x]
      BY <3>1, <1>8, <1>11 DEF Sums
    <3>3. QED
      BY <2>3, <3>2
  <2>4. QED
    BY <2>1, <2>2, <2>3
<1>12. Sums(n, w, T)
  <2> HIDE DEF n
  <2> QED BY <1>10, <1>11 DEF Sums
<1>13. QED
  BY <1>4, <1>12

(* The recursion by which the library defines a sum. *)
Recursion(m, w, S) ==
  m = [T \in SUBSET S |-> IF T = {} THEN 0
         ELSE w[CHOOSE x \in T : TRUE] + m[T \ {CHOOSE x \in T : TRUE}]]

(* A measure that sums satisfies the recursion. *)
LEMMA SumsRecursion ==
  ASSUME NEW S, NEW w, \A x \in S : w[x] \in Int, NEW m, Sums(m, w, S)
  PROVE  Recursion(m, w, S)
<1>1. ASSUME NEW T \in SUBSET S, T # {}, NEW x \in T
      PROVE  m[T] = w[x] + m[T \ {x}]
  <2>1. (T \ {x}) \union {x} = T /\ T \ {x} \in SUBSET S /\ x \notin T \ {x}
    BY <1>1
  <2>2. m[T] = m[T \ {x}] + w[x]
    BY <2>1, <1>1 DEF Sums
  <2>3. m[T \ {x}] \in Int /\ w[x] \in Int
    BY <2>1 DEF Sums
  <2>4. QED
    BY <2>2, <2>3
<1>2. \A T \in SUBSET S : T # {} => (CHOOSE x \in T : TRUE) \in T
  BY Zenon
<1>3. \A T \in SUBSET S : m[T] = IF T = {} THEN 0
         ELSE w[CHOOSE x \in T : TRUE] + m[T \ {CHOOSE x \in T : TRUE}]
  BY <1>1, <1>2 DEF Sums
<1>4. m = [T \in SUBSET S |-> m[T]]
  BY DEF Sums
<1>5. QED
  BY <1>3, <1>4 DEF Recursion

(* The library's sum is what it chooses among the solutions. *)
LEMMA SumDefined ==
  ASSUME NEW S, NEW w
  PROVE  SumFunctionOnSet(w, S) = (CHOOSE m : Recursion(m, w, S))[S]
BY Zenon DEF SumFunctionOnSet, FoldFunctionOnSet, MapThenFoldSet, Recursion

(* All solutions of the recursion agree, so the chosen one is the sum. *)
LEMMA SumIs ==
  ASSUME NEW S, IsFiniteSet(S), NEW w, \A x \in S : w[x] \in Int, NEW m, Sums(m, w, S)
  PROVE  SumFunctionOnSet(w, S) = m[S]
<1> DEFINE g == CHOOSE f : Recursion(f, w, S)
           c(T) == CHOOSE x \in T : TRUE
           Wrong == {Cardinality(T) : T \in {U \in SUBSET S : g[U] # m[U]}}
<1>1. Recursion(m, w, S) /\ Recursion(g, w, S)
  BY SumsRecursion, Zenon
<1> HIDE DEF g
<1>2. SUFFICES ASSUME Wrong # {} PROVE FALSE
  <2>1. g[S] = m[S]
    BY <1>2
  <2>2. QED
    BY <2>1, SumDefined DEF g
<1>3. Wrong \subseteq Nat
  BY FS_Subset, FS_CardinalityType
<1>4. PICK d \in Wrong : \A e \in Wrong : d <= e
  <2> HIDE DEF Wrong
  <2> QED BY <1>2, <1>3, LeastNatural
<1>5. PICK T \in SUBSET S : Cardinality(T) = d /\ g[T] # m[T]
  BY <1>4
<1>6. T # {}
  BY <1>1, <1>5 DEF Recursion
<1>7. c(T) \in T
  BY <1>6, Zenon
<1>8. T \ {c(T)} \in SUBSET S /\ Cardinality(T \ {c(T)}) < d /\ Cardinality(T \ {c(T)}) \in Nat
  <2> HIDE DEF c
  <2> QED BY <1>5, <1>7, FS_Subset, FS_CardinalityType, FS_RemoveElement
<1>9. Cardinality(T \ {c(T)}) \notin Wrong
  <2> HIDE DEF Wrong, c
  <2> QED BY <1>3, <1>4, <1>8
<1>10. g[T \ {c(T)}] = m[T \ {c(T)}]
  <2> HIDE DEF c
  <2> QED BY <1>8, <1>9
<1>11. g[T] = w[c(T)] + g[T \ {c(T)}] /\ m[T] = w[c(T)] + m[T \ {c(T)}]
  BY <1>1, <1>6 DEF Recursion
<1>12. QED
  BY <1>5, <1>10, <1>11

(* The empty sum. *)
LEMMA SumEmpty == \A w : SumFunctionOnSet(w, {}) = 0
<1> SUFFICES ASSUME NEW w PROVE SumFunctionOnSet(w, {}) = 0
  OBVIOUS
<1>1. PICK m : Sums(m, w, {})
  BY SomethingSums, FS_EmptySet
<1>2. QED
  BY <1>1, SumIs, FS_EmptySet DEF Sums

(* The sum depends on the weights of its elements alone. *)
LEMMA SumSame ==
  ASSUME NEW S, IsFiniteSet(S), NEW v, NEW w, \A x \in S : v[x] \in Int /\ w[x] = v[x]
  PROVE  SumFunctionOnSet(w, S) = SumFunctionOnSet(v, S)
<1>1. PICK m : Sums(m, v, S)
  BY SomethingSums
<1>2. Sums(m, w, S)
  BY <1>1 DEF Sums
<1>3. QED
  BY <1>1, <1>2, SumIs

(* One more element adds its weight. *)
LEMMA SumAdds ==
  ASSUME NEW S, IsFiniteSet(S), NEW x, x \notin S,
         NEW w, \A y \in S \union {x} : w[y] \in Int
  PROVE  /\ SumFunctionOnSet(w, S) \in Int
         /\ SumFunctionOnSet(w, S \union {x}) = SumFunctionOnSet(w, S) + w[x]
<1> DEFINE U == S \union {x}
<1>1. IsFiniteSet(U)
  BY FS_AddElement
<1>2. PICK m : Sums(m, w, U)
  BY <1>1, SomethingSums
<1>3. PICK n : n = [T \in SUBSET S |-> m[T]]
  OBVIOUS
<1>4. Sums(n, w, S) /\ n[S] = m[S] /\ m[S] \in Int
  BY <1>2, <1>3 DEF Sums
<1>5. SumFunctionOnSet(w, S) = n[S]
  BY <1>4, SumIs
<1>6. SumFunctionOnSet(w, U) = m[U]
  BY <1>1, <1>2, SumIs
<1>7. m[U] = m[S] + w[x]
  BY <1>2 DEF Sums
<1>8. QED
  BY <1>4, <1>5, <1>6, <1>7

(* Moving an amount from one element to another leaves the sum alone. *)
LEMMA SumMoves ==
  ASSUME NEW S, IsFiniteSet(S), NEW x \in S, NEW y \in S, x # y, NEW d \in Int,
         NEW v, NEW w, \A z \in S : v[z] \in Int /\ w[z] \in Int,
         w[x] = v[x] - d, w[y] = v[y] + d, \A z \in S \ {x, y} : w[z] = v[z]
  PROVE  SumFunctionOnSet(w, S) = SumFunctionOnSet(v, S)
<1> DEFINE R == S \ {x, y}
           T == R \union {x}
<1>1. IsFiniteSet(R) /\ IsFiniteSet(T)
  BY FS_Subset
<1>2. x \notin R /\ y \notin T /\ S = T \union {y}
  OBVIOUS
<1>3. SumFunctionOnSet(w, R) = SumFunctionOnSet(v, R)
  BY <1>1, SumSame
<1> HIDE DEF R
<1>4. \A z \in R \union {x} : v[z] \in Int /\ w[z] \in Int
  BY DEF R
<1>5. /\ SumFunctionOnSet(v, R) \in Int
      /\ SumFunctionOnSet(v, T) = SumFunctionOnSet(v, R) + v[x]
      /\ SumFunctionOnSet(w, T) = SumFunctionOnSet(w, R) + w[x]
  BY <1>1, <1>2, <1>4, SumAdds
<1> HIDE DEF T
<1>6. /\ SumFunctionOnSet(v, S) = SumFunctionOnSet(v, T) + v[y]
      /\ SumFunctionOnSet(w, S) = SumFunctionOnSet(w, T) + w[y]
  BY <1>1, <1>2, SumAdds
<1>7. QED
  BY <1>3, <1>5, <1>6

-----------------------------------------------------------------------------
(* One step of a request *)

Step(r) == Receive(r) \/ Progress(r) \/ StatementFails(r) \/ CommitUnacknowledged(r)

(* What a step of r changes of r alone, as updates of the per-request       *)
(* functions.                                                               *)
Updates(r) ==
  /\ pc' = [pc EXCEPT ![r] = pc'[r]] /\ pc'[r] \in PCs
  /\ order' = [order EXCEPT ![r] = order'[r]] /\ order'[r] \in Orders
  /\ pc[r] # "done" /\ pc'[r] # "idle"
  /\ pc[r] # "idle" => order'[r] = order[r]
  /\ pc'[r] # "done" => answer'[r] = answer[r] /\ order'[r].src # order'[r].dst
  /\ attempt' = [attempt EXCEPT ![r] = attempt'[r]] /\ attempt'[r] \in 1..MaxAttempts
  /\ error' = [error EXCEPT ![r] = error'[r]] /\ error'[r] \in Errors
  /\ wrote' = [wrote EXCEPT ![r] = wrote'[r]] /\ wrote'[r] \subseteq Stages
  /\ answer' = [answer EXCEPT ![r] = answer'[r]]
  /\ answer'[r] \in [code : Codes, paid : SUBSET Tx]

LEMMA StepUpdates ==
  ASSUME TypeOK, OrdersKnown, NEW r \in Requests, Step(r)
  PROVE  Updates(r)
<1> USE TransfersAssumption DEF TypeOK, OrdersKnown, Updates, dbVars, Raise, Goto, Answer, Write
<1> USE DEF Told, NoAnswer, PCs, Waits, InSession, Statements, Errors, AllFaults, NoError, Codes, Reset, Pending
<1>1. CASE Receive(r)
  BY <1>1 DEF Receive
<1>2. CASE Lookup(r)
  BY <1>2 DEF Lookup, Processed
<1>3. CASE Connect(r)
  BY <1>3 DEF Connect
<1>4. CASE LockRow(r)
  BY <1>4 DEF LockRow
<1>5. CASE Validate(r)
  BY <1>5 DEF Validate, Rejection
<1>6. CASE Debit(r)
  BY <1>6 DEF Debit, Stages
<1>7. CASE Credit(r)
  BY <1>7 DEF Credit, Stages
<1>8. CASE InsertTx(r)
  BY <1>8 DEF InsertTx, Stages
<1>9. CASE InsertOutbox(r)
  BY <1>9 DEF InsertOutbox, Stages
<1>10. CASE Commit(r)
  BY <1>10 DEF Commit, ApplyWrites
<1>11. CASE CommitUnacknowledged(r)
  BY <1>11 DEF CommitUnacknowledged
<1>12. CASE Finish(r)
  BY <1>12 DEF Finish, TxOf, Tx, OrdersKnown
<1>13. CASE StatementFails(r)
  BY <1>13 DEF StatementFails
<1>14. CASE LockTimeout(r)
  BY <1>14 DEF LockTimeout
<1>15. CASE Rollback(r)
  BY <1>15 DEF Rollback
<1>16. CASE AcquireFails(r)
  BY <1>16 DEF AcquireFails
<1>17. CASE SeekWinner(r)
  BY <1>17 DEF SeekWinner
<1>18. CASE Retry(r)
  BY <1>18 DEF Retry, RetriesAgain, Retryable
<1>19. CASE GiveUp(r)
  BY <1>19 DEF GiveUp, StatusOf
<1>20. CASE Winner(r)
  BY <1>20 DEF Winner, Processed
<1>21. QED
  BY <1>1, <1>2, <1>3, <1>4, <1>5, <1>6, <1>7, <1>8, <1>9, <1>10, <1>11, <1>12, <1>13, <1>14, <1>15, <1>16, <1>17, <1>18, <1>19, <1>20 DEF Step, Progress

(* The database and the pool change only through r's own connection, row    *)
(* locks and commit.                                                        *)
CommitStep(r) ==
  /\ pc[r] = "commit" /\ ApplyWrites(r) /\ lock' = Unlocked(r) /\ wrote'[r] = {}
  /\ pc'[r] = "committed" \/ (pc'[r] = "rollback" /\ error'[r] = "CONN")
  /\ UNCHANGED <<order, attempt, conn, answer>>

LEMMA StepShared ==
  ASSUME TypeOK, NEW r \in Requests, Step(r)
  PROVE  /\ conn' = conn \/ conn' = conn \union {r} \/ conn' = conn \ {r}
         /\ lock' = lock \/ lock' = Unlocked(r) \/ LockRow(r)
         /\ UNCHANGED dbVars \/ CommitStep(r)
         /\ crashes' = crashes
<1> USE DEF TypeOK, dbVars, CommitStep, Raise, Goto, Answer
<1>1. CASE Receive(r)
  BY <1>1 DEF Receive
<1>2. CASE Lookup(r)
  BY <1>2 DEF Lookup
<1>3. CASE Connect(r)
  BY <1>3 DEF Connect
<1>4. CASE LockRow(r)
  BY <1>4 DEF LockRow
<1>5. CASE Validate(r)
  BY <1>5 DEF Validate
<1>6. CASE Debit(r)
  BY <1>6 DEF Debit
<1>7. CASE Credit(r)
  BY <1>7 DEF Credit
<1>8. CASE InsertTx(r)
  BY <1>8 DEF InsertTx
<1>9. CASE InsertOutbox(r)
  BY <1>9 DEF InsertOutbox
<1>10. CASE Commit(r)
  BY <1>10 DEF Commit
<1>11. CASE CommitUnacknowledged(r)
  BY <1>11 DEF CommitUnacknowledged
<1>12. CASE Finish(r)
  BY <1>12 DEF Finish
<1>13. CASE StatementFails(r)
  BY <1>13 DEF StatementFails
<1>14. CASE LockTimeout(r)
  BY <1>14 DEF LockTimeout
<1>15. CASE Rollback(r)
  BY <1>15 DEF Rollback
<1>16. CASE AcquireFails(r)
  BY <1>16 DEF AcquireFails
<1>17. CASE SeekWinner(r)
  BY <1>17 DEF SeekWinner
<1>18. CASE Retry(r)
  BY <1>18 DEF Retry
<1>19. CASE GiveUp(r)
  BY <1>19 DEF GiveUp
<1>20. CASE Winner(r)
  BY <1>20 DEF Winner
<1>21. QED
  BY <1>1, <1>2, <1>3, <1>4, <1>5, <1>6, <1>7, <1>8, <1>9, <1>10, <1>11, <1>12, <1>13, <1>14, <1>15, <1>16, <1>17, <1>18, <1>19, <1>20 DEF Step, Progress

(* A crash ends every request in progress and frees everything. *)
LEMMA TypeStep == TypeOK /\ OrdersKnown /\ [Next]_vars => TypeOK' /\ OrdersKnown'
<1> SUFFICES ASSUME TypeOK, OrdersKnown, [Next]_vars PROVE TypeOK' /\ OrdersKnown'
  OBVIOUS
<1> USE TransfersAssumption
<1>1. ASSUME NEW r \in Requests, Step(r) PROVE TypeOK'
  <2>1. Updates(r)
    BY <1>1, StepUpdates
  <2>2. /\ pc' \in [Requests -> PCs]
        /\ order' \in [Requests -> Orders \union {NoOrder}]
    BY <2>1 DEF Updates, TypeOK
  <2>6. /\ attempt' \in [Requests -> 1..MaxAttempts]
        /\ error' \in [Requests -> Errors]
    BY <2>1 DEF Updates, TypeOK
  <2>7. /\ wrote' \in [Requests -> SUBSET Stages]
        /\ answer' \in [Requests -> [code : Codes, paid : SUBSET Tx]]
    BY <2>1 DEF Updates, TypeOK
  <2>3. conn' \subseteq Requests /\ lock' \in [Accounts -> Requests \union {NoRequest}]
    BY <1>1, StepShared DEF TypeOK, Unlocked, LockRow
  <2>4. balance' \in [Accounts -> Int] /\ txs' \subseteq Tx /\ outbox' \subseteq Event /\ crashes' \in Nat
    <3>1. CASE UNCHANGED dbVars
      BY <3>1, <1>1, StepShared DEF TypeOK, dbVars
    <3>2. CASE CommitStep(r)
      <4>1. order[r] \in OrderType /\ order[r] \in Orders /\ TxOf(r) \in Tx
        BY <3>2 DEF CommitStep, OrdersKnown, TypeOK, TxOf, Tx
      <4>2. EventsOf(TxOf(r)) \subseteq Event
        BY <4>1 DEF EventsOf, Event
      <4>3. balance' \in [Accounts -> Int]
        BY <3>2, <4>1 DEF CommitStep, ApplyWrites, TypeOK, OrderType
      <4>4. QED
        BY <3>2, <4>1, <4>2, <4>3, <1>1, StepShared DEF CommitStep, ApplyWrites, TypeOK
    <3>3. QED
      BY <3>1, <3>2, <1>1, StepShared
  <2>5. QED
    BY <2>2, <2>3, <2>4, <2>6, <2>7 DEF TypeOK
<1>2. ASSUME NEW r \in Requests, Step(r) PROVE OrdersKnown'
  <2>1. Updates(r)
    BY <1>2, StepUpdates
  <2>2. SUFFICES ASSUME NEW q \in Requests
                 PROVE /\ pc'[q] = "idle" <=> order'[q] = NoOrder
                       /\ pc'[q] \notin {"idle", "done"} => order'[q].src # order'[q].dst
                       /\ pc'[q] # "done" => answer'[q] = NoAnswer
    BY DEF OrdersKnown
  <2>3. CASE q # r
    BY <2>3, <2>1 DEF Updates, TypeOK, OrdersKnown
  <2>4. CASE q = r
    BY <2>4, <2>1, TransfersAssumption DEF Updates, TypeOK, OrdersKnown
  <2>5. QED
    BY <2>3, <2>4
<1>3. ASSUME Crash PROVE TypeOK' /\ OrdersKnown'
  BY <1>3 DEF Crash, InFlight, TypeOK, OrdersKnown, dbVars, Told, Codes, Reset, PCs
<1>4. ASSUME UNCHANGED vars PROVE TypeOK' /\ OrdersKnown'
  BY <1>4 DEF vars, dbVars, TypeOK, OrdersKnown
<1>5. QED
  BY <1>1, <1>2, <1>3, <1>4 DEF Next, Step

(* Which action leads to which label. *)
LEMMA Flow ==
  ASSUME TypeOK, NEW r \in Requests, Step(r)
  PROVE  /\ pc'[r] = "lock1" => Connect(r)
         /\ pc'[r] \in {"lock2", "validate"} => LockRow(r)
         /\ pc'[r] = "debit" => Validate(r)
         /\ pc'[r] = "credit" => Debit(r)
         /\ pc'[r] = "insert" => Credit(r)
         /\ pc'[r] = "outbox" => InsertTx(r)
         /\ pc'[r] = "commit" => InsertOutbox(r)
         /\ pc'[r] = "committed" => Commit(r)
         /\ pc'[r] = "rollback" =>
              /\ pc[r] \in InSession
              /\ \/ Validate(r) \/ Debit(r) \/ InsertTx(r)
                 \/ StatementFails(r) \/ LockTimeout(r) \/ CommitUnacknowledged(r)
         /\ pc'[r] = "caught" => Rollback(r) \/ Lookup(r) \/ AcquireFails(r)
         /\ pc'[r] = "winner" => SeekWinner(r)
         /\ pc'[r] = "done" => \/ Receive(r) \/ Lookup(r) \/ Winner(r)
                              \/ AcquireFails(r) \/ GiveUp(r) \/ Finish(r)
         /\ pc[r] = "committed" => Finish(r)
         /\ pc[r] = "rollback" => Rollback(r)
         /\ pc[r] = "caught" => SeekWinner(r) \/ Retry(r) \/ GiveUp(r)
         /\ pc[r] = "winner" => Winner(r) \/ AcquireFails(r)
         /\ LockRow(r) => pc'[r] \in {"lock2", "validate"}
         /\ CommitStep(r) => pc'[r] \in {"committed", "rollback"}
<1>1. pc \in [Requests -> PCs]
  BY DEF TypeOK
<1>2. CASE Receive(r) \/ Lookup(r) \/ Winner(r)
  <2>1. pc'[r] \in {"lookup", "connect", "caught", "done"} /\ pc[r] \in {"idle", "lookup", "winner"}
    BY <1>1, <1>2 DEF Receive, Lookup, Winner, Goto, Raise, Answer
  <2>2. pc'[r] = "caught" => Lookup(r)
    BY <1>1, <1>2 DEF Receive, Winner, Goto, Raise, Answer
  <2>3. pc[r] = "winner" => Winner(r)
    BY <1>2 DEF Receive, Lookup
  <2>4. ~ LockRow(r) /\ ~ CommitStep(r)
    BY <2>1 DEF LockRow, CommitStep
  <2>5. pc'[r] = "done" => Receive(r) \/ Lookup(r) \/ Winner(r)
    BY <1>2
  <2>6. QED
    BY <2>1, <2>2, <2>3, <2>4, <2>5
<1>3. CASE AcquireFails(r) \/ SeekWinner(r) \/ Retry(r) \/ GiveUp(r)
  BY <1>1, <1>3 DEF AcquireFails, SeekWinner, Retry, GiveUp, Goto, Answer, Waits, LockRow, CommitStep
<1>4. CASE Connect(r) \/ LockRow(r) \/ Validate(r)
  BY <1>1, <1>4 DEF Connect, LockRow, Validate, Goto, Raise, InSession, Statements, CommitStep
<1>5. CASE Debit(r) \/ Credit(r) \/ InsertTx(r) \/ InsertOutbox(r)
  BY <1>1, <1>5 DEF Debit, Credit, InsertTx, InsertOutbox, Goto, Raise, Write, InSession, Statements, LockRow, CommitStep
<1>6. CASE Commit(r) \/ CommitUnacknowledged(r) \/ Finish(r) \/ Rollback(r)
  BY <1>1, <1>6 DEF Commit, CommitUnacknowledged, Finish, Rollback, Goto, Raise, Answer, InSession, Statements, LockRow, CommitStep
<1>7. CASE StatementFails(r) \/ LockTimeout(r)
  BY <1>1, <1>7 DEF StatementFails, LockTimeout, Goto, Raise, InSession, Statements, LockRow, CommitStep
<1>8. QED
  BY <1>2, <1>3, <1>4, <1>5, <1>6, <1>7 DEF Step, Progress

-----------------------------------------------------------------------------
(* What a session holds: connection, locks, uncommitted writes *)

LEMMA NothingLeaksStep ==
  ASSUME IInv, NEW r \in Requests, Step(r)
  PROVE  NothingLeaks'
<1>1. Updates(r)
  BY StepUpdates DEF IInv
<1>2. /\ conn' = conn \/ conn' = conn \union {r} \/ conn' = conn \ {r}
      /\ lock' = lock \/ lock' = Unlocked(r) \/ LockRow(r)
  BY StepShared DEF IInv
<1>3. ASSUME NEW q \in Requests, q # r, pc'[q] \notin InSession
      PROVE  q \notin conn' /\ wrote'[q] = {} /\ \A a \in Accounts : lock'[a] # q
  <2>1. pc[q] \notin InSession /\ wrote'[q] = wrote[q]
    BY <1>1, <1>3 DEF Updates, IInv, TypeOK
  <2>2. q \notin conn /\ wrote[q] = {} /\ \A a \in Accounts : lock[a] # q
    BY <2>1 DEF IInv, NothingLeaks
  <2>3. \A a \in Accounts : lock'[a] # q
    BY <1>2, <1>3, <2>2, TransfersAssumption DEF Unlocked, LockRow
  <2>4. QED
    BY <1>2, <1>3, <2>1, <2>2, <2>3
<1>4. ASSUME pc'[r] \notin InSession
      PROVE  r \notin conn' /\ wrote'[r] = {} /\ \A a \in Accounts : lock'[a] # r
  <2>1. CASE pc[r] \notin InSession /\ UNCHANGED <<conn, lock, wrote>>
    BY <2>1 DEF IInv, NothingLeaks
  <2>2. CASE Finish(r)
    BY <2>2 DEF Finish, IInv, StagesDone, LocksHeld
  <2>3. CASE Rollback(r)
    BY <2>3, TransfersAssumption DEF Rollback, IInv, TypeOK, Unlocked
  <2>4. \/ pc[r] \notin InSession /\ UNCHANGED <<conn, lock, wrote>>
        \/ Finish(r) \/ Rollback(r)
    <3>1. pc \in [Requests -> PCs]
      BY DEF IInv, TypeOK
    <3>2. CASE Receive(r) \/ Lookup(r) \/ AcquireFails(r) \/ SeekWinner(r) \/ Retry(r) \/ GiveUp(r) \/ Winner(r)
      BY <3>2 DEF Receive, Lookup, AcquireFails, SeekWinner, Retry, GiveUp, Winner, InSession, Statements, Waits
    <3>3. CASE Connect(r) \/ LockRow(r) \/ Validate(r) \/ Debit(r) \/ Credit(r) \/ InsertTx(r) \/ InsertOutbox(r)
      BY <1>4, <3>1, <3>3 DEF Connect, LockRow, Validate, Debit, Credit, InsertTx, InsertOutbox, Goto, Raise,
         Write, InSession, Statements
    <3>4. CASE Commit(r) \/ CommitUnacknowledged(r) \/ StatementFails(r) \/ LockTimeout(r)
      BY <1>4, <3>1, <3>4 DEF Commit, CommitUnacknowledged, StatementFails, LockTimeout, Goto, Raise,
         InSession, Statements
    <3>5. QED
      BY <3>2, <3>3, <3>4 DEF Step, Progress
  <2>5. QED
    BY <2>1, <2>2, <2>3, <2>4
<1>5. QED
  BY <1>3, <1>4 DEF NothingLeaks

LEMMA StagesDoneStep ==
  ASSUME IInv, NEW r \in Requests, Step(r)
  PROVE  StagesDone'
<1>1. Updates(r) /\ pc \in [Requests -> PCs] /\ wrote \in [Requests -> SUBSET Stages]
  BY StepUpdates DEF IInv, TypeOK
<1> DEFINE P(q) == /\ pc[q] \in {"lock1", "lock2", "validate", "debit", "committed"} => wrote[q] = {}
                   /\ pc[q] = "credit" => wrote[q] = {"debit"}
                   /\ pc[q] = "insert" => wrote[q] = {"debit", "credit"}
                   /\ pc[q] = "outbox" => wrote[q] = {"debit", "credit", "tx"}
                   /\ pc[q] = "commit" => wrote[q] = Stages
<1>2. P(r) /\ (pc[r] \notin InSession => wrote[r] = {})
  BY DEF IInv, StagesDone, NothingLeaks
<1>3. P(r)'
  <2>1. pc'[r] \in {"lock1", "lock2", "validate", "debit"} => wrote'[r] = {}
    BY Flow, <1>2 DEF Connect, LockRow, Validate, InSession, Statements, IInv
  <2>2. pc'[r] = "committed" => wrote'[r] = {}
    BY Flow, <1>1 DEF Commit, IInv
  <2>3. pc'[r] \in {"credit", "insert"} => wrote'[r] = {"debit"} \union {s \in {"credit"} : pc'[r] = "insert"}
    BY Flow, <1>1, <1>2 DEF Debit, Credit, Write, Goto, Raise, IInv
  <2>4. pc'[r] = "outbox" => wrote'[r] = {"debit", "credit", "tx"}
    BY Flow, <1>1, <1>2 DEF InsertTx, Write, Goto, Raise, IInv
  <2>5. pc'[r] = "commit" => wrote'[r] = Stages
    BY Flow, <1>1, <1>2 DEF InsertOutbox, Write, Goto, Stages, IInv
  <2>6. QED
    BY <2>1, <2>2, <2>3, <2>4, <2>5
<1>4. ASSUME NEW q \in Requests, q # r PROVE P(q)'
  BY <1>1, <1>4 DEF Updates, IInv, StagesDone
<1>5. QED
  BY <1>3, <1>4 DEF StagesDone

LEMMA LocksHeldStep ==
  ASSUME IInv, NEW r \in Requests, Step(r)
  PROVE  LocksHeld'
<1>1. Updates(r) /\ pc \in [Requests -> PCs] /\ order \in [Requests -> Orders \union {NoOrder}]
  BY StepUpdates DEF IInv, TypeOK
<1>2. lock' = lock \/ lock' = Unlocked(r) \/ LockRow(r)
  BY StepShared DEF IInv
<1>3. lock \in [Accounts -> Requests \union {NoRequest}] /\ NoRequest \notin Requests
  BY TransfersAssumption DEF IInv, TypeOK
<1> DEFINE P(q) == /\ \A a \in Accounts : lock[a] = q => a \in Rows(q)
                   /\ pc[q] \in {"lock1", "committed"} => \A a \in Accounts : lock[a] # q
                   /\ pc[q] = "lock2" => \A a \in Accounts : lock[a] = q <=> a = LockOrder(order[q])[1]
                   /\ pc[q] \in Locked => \A a \in Rows(q) : lock[a] = q
<1>4. ASSUME NEW q \in Requests, q # r PROVE P(q)'
  <2>1. P(q)
    BY DEF IInv, LocksHeld
  <2>2. \A a \in Accounts : (lock'[a] = q <=> lock[a] = q)
    <3>1. CASE LockRow(r)
      BY <3>1, <1>3, <1>4 DEF LockRow, BlockedBy
    <3>2. QED
      BY <1>2, <1>3, <1>4, <3>1 DEF Unlocked
  <2>3. pc'[q] = pc[q] /\ order'[q] = order[q]
    BY <1>1, <1>4 DEF Updates
  <2>4. QED
    BY <2>1, <2>2, <2>3 DEF Rows
<1>5. P(r)'
  <2>1. P(r) /\ (pc[r] \notin InSession => \A a \in Accounts : lock[a] # r)
    BY DEF IInv, LocksHeld, NothingLeaks
  <2>3. CASE LockRow(r)
    <3>1. order'[r] = order[r] /\ order[r] \in OrderType /\ order[r].src # order[r].dst
      BY <2>3, <1>1, TransfersAssumption DEF LockRow, IInv, OrdersKnown, Updates
    <3>2. WantedRow(r) \subseteq {order[r].src, order[r].dst}
      BY <3>1 DEF WantedRow, LockOrder
    <3>3. CASE pc[r] = "lock1"
      BY <3>1, <3>3, <2>1, <2>3, <1>1, <1>3 DEF LockRow, WantedRow, LockOrder, Rows, Goto, Locked
    <3>4. CASE pc[r] = "lock2"
      BY <3>1, <3>4, <2>1, <2>3, <1>1, <1>3 DEF LockRow, WantedRow, LockOrder, Rows, Goto, Locked, OrderType
    <3>5. QED
      BY <2>3, <3>3, <3>4 DEF LockRow
  <2>4. CASE ~ LockRow(r)
    <3>1. \A a \in Accounts : lock'[a] = r => lock[a] = r
      BY <2>4, <1>2, <1>3 DEF Unlocked
    <3>2. \A a \in Accounts : lock'[a] = r => a \in Rows(r)'
      BY <3>1, <2>1, <1>1 DEF Updates, Rows, InSession, Statements
    <3>3. pc'[r] = "lock1" => \A a \in Accounts : lock'[a] # r
      BY <3>1, <2>1, Flow DEF Connect, InSession, Statements, IInv
    <3>4. pc'[r] = "committed" => \A a \in Accounts : lock'[a] # r
      BY Flow, <1>3 DEF Commit, Unlocked, IInv
    <3>5. pc'[r] \in Locked => pc[r] \in Locked /\ lock' = lock /\ order' = order
      BY Flow, <2>4 DEF Locked, Validate, Debit, Credit, InsertTx, InsertOutbox, IInv
    <3>6. pc'[r] \in Locked => \A a \in Rows(r)' : lock'[a] = r
      BY <3>5, <2>1 DEF Rows
    <3>7. QED
      BY <3>2, <3>3, <3>4, <3>6, <2>4, Flow DEF IInv
  <2>5. QED
    BY <2>3, <2>4
<1>6. QED
  BY <1>4, <1>5 DEF LocksHeld

-----------------------------------------------------------------------------
(* The commit and the ledger *)

(* A commit moves the amount between two distinct rows that only r holds,   *)
(* and records one row whose key and request are new to the table.          *)
LEMMA CommitEffect ==
  ASSUME IInv, NEW r \in Requests, CommitStep(r)
  PROVE  LET o == order[r] IN
         /\ o \in OrderType /\ o.src # o.dst /\ o.src \in Accounts /\ o.dst \in Accounts
         /\ balance[o.src] >= o.amt
         /\ balance'[o.src] = balance[o.src] - o.amt
         /\ balance'[o.dst] = balance[o.dst] + o.amt
         /\ \A a \in Accounts \ {o.src, o.dst} : balance'[a] = balance[a]
         /\ lock[o.src] = r /\ lock[o.dst] = r
         /\ txs' = txs \union {TxOf(r)}
         /\ outbox' = outbox \union EventsOf(TxOf(r))
         /\ \A t \in txs : t.by # r /\ (o.key # NoKey => t.order.key # o.key)
<1> DEFINE o == order[r]
<1>1. pc[r] = "commit" /\ wrote[r] = Stages /\ ApplyWrites(r)
  BY DEF CommitStep, IInv, StagesDone
<1>2. o \in OrderType /\ o.src # o.dst /\ o.src \in Accounts /\ o.dst \in Accounts /\ balance[o.src] >= o.amt
  BY <1>1, TransfersAssumption DEF IInv, OrdersKnown, TypeOK, Funded
<1>3. lock[o.src] = r /\ lock[o.dst] = r
  BY <1>1, <1>2 DEF IInv, LocksHeld, Locked, Rows
<1>4. txs' = txs \union {TxOf(r)} /\ outbox' = outbox \union EventsOf(TxOf(r))
  BY <1>1 DEF ApplyWrites, Stages
<1>5. \A a \in Accounts : balance[a] \in Int
  BY DEF IInv, TypeOK
<1>6. /\ balance'[o.src] = balance[o.src] - o.amt
      /\ balance'[o.dst] = balance[o.dst] + o.amt
      /\ \A a \in Accounts \ {o.src, o.dst} : balance'[a] = balance[a]
  BY <1>1, <1>2, <1>5 DEF ApplyWrites, Stages, OrderType
<1>7. \A t \in txs : t.by # r
  BY <1>1 DEF IInv, PaidIsOver
<1>8. o.key # NoKey => \A t \in txs : t.order.key # o.key
  BY <1>1 DEF IInv, KeyReserved, Stages, Processed
<1>9. QED
  BY <1>2, <1>3, <1>4, <1>6, <1>7, <1>8

LEMMA FundedStep ==
  ASSUME IInv, NEW r \in Requests, Step(r)
  PROVE  Funded'
<1>1. Updates(r) /\ pc \in [Requests -> PCs] /\ order \in [Requests -> Orders \union {NoOrder}]
  BY StepUpdates DEF IInv, TypeOK
<1>2. UNCHANGED dbVars \/ CommitStep(r)
  BY StepShared DEF IInv
<1> DEFINE Paying == {"credit", "insert", "outbox", "commit"}
<1>3. ASSUME NEW q \in Requests, q # r
      PROVE  /\ pc'[q] \in {"debit"} \union Paying => {order'[q].src, order'[q].dst} \subseteq Active
             /\ pc'[q] \in Paying => balance'[order'[q].src] >= order'[q].amt
  <2>1. pc'[q] = pc[q] /\ order'[q] = order[q]
    BY <1>1, <1>3 DEF Updates
  <2>2. CASE UNCHANGED dbVars
    BY <2>1, <2>2 DEF IInv, Funded, dbVars
  <2>3. CASE CommitStep(r)
    <3>1. ASSUME pc[q] \in Paying PROVE balance'[order[q].src] = balance[order[q].src]
      <4>1. order[q].src \in Accounts
        BY <3>1, TransfersAssumption DEF IInv, Funded
      <4>2. pc[q] \in Locked
        BY <3>1 DEF Locked
      <4>3. lock[order[q].src] = q
        BY <4>1, <4>2 DEF IInv, LocksHeld, Rows
      <4>4. QED
        BY <4>1, <4>3, <1>3, <2>3, CommitEffect
    <3>2. QED
      BY <2>1, <3>1 DEF IInv, Funded
  <2>4. QED
    BY <1>2, <2>2, <2>3
<1>4. /\ pc'[r] \in {"debit"} \union Paying => {order'[r].src, order'[r].dst} \subseteq Active
      /\ pc'[r] \in Paying => balance'[order'[r].src] >= order'[r].amt
  <2>1. pc'[r] = "debit" => {order'[r].src, order'[r].dst} \subseteq Active
    BY Flow, <1>1 DEF IInv, Validate, Rejection, Raise, Goto, NoError
  <2>2. pc'[r] \in Paying => /\ order' = order /\ balance' = balance
                             /\ pc[r] \in {"debit"} \union Paying
    BY Flow DEF IInv, Debit, Credit, InsertTx, InsertOutbox, dbVars
  <2>3. pc'[r] = "credit" => balance[order[r].src] >= order[r].amt
    BY Flow, <1>1 DEF IInv, Debit, Raise, Goto
  <2>4. pc'[r] \in Paying \ {"credit"} => pc[r] \in Paying
    BY Flow DEF IInv, Credit, InsertTx, InsertOutbox
  <2>5. QED
    BY <2>1, <2>2, <2>3, <2>4 DEF IInv, Funded
<1>5. QED
  BY <1>3, <1>4 DEF Funded

LEMMA NoOverdraftStep ==
  ASSUME IInv, NEW r \in Requests, Step(r)
  PROVE  NoOverdraft'
<1>1. CASE UNCHANGED dbVars
  BY <1>1 DEF IInv, NoOverdraft, dbVars
<1>2. CASE CommitStep(r)
  <2>1. \A a \in Accounts : balance[a] \in Int /\ balance[a] >= 0
    BY DEF IInv, TypeOK, NoOverdraft
  <2>2. QED
    BY <1>2, <2>1, CommitEffect DEF NoOverdraft, OrderType
<1>3. QED
  BY <1>1, <1>2, StepShared DEF IInv

LEMMA OutboxStep ==
  ASSUME IInv, NEW r \in Requests, Step(r)
  PROVE  OutboxMatchesLedger'
<1>1. CASE UNCHANGED dbVars
  BY <1>1 DEF IInv, OutboxMatchesLedger, dbVars
<1>2. CASE CommitStep(r)
  <2> DEFINE Ev(S) == {[tx |-> t, type |-> "bancs.sync"] : t \in S}
               \union {[tx |-> t, type |-> "transaction.created"] : t \in {u \in S : u.order.ai}}
             x == TxOf(r)
  <2>1. Ev(txs \union {x}) = Ev(txs) \union Ev({x})
    OBVIOUS
  <2>2. Ev({x}) = EventsOf(x)
    BY DEF EventsOf
  <2>3. outbox = Ev(txs)
    BY DEF IInv, OutboxMatchesLedger
  <2>4. txs' = txs \union {x} /\ outbox' = outbox \union EventsOf(x)
    BY <1>2, CommitEffect
  <2>5. outbox' = Ev(txs')
    BY <2>1, <2>2, <2>3, <2>4
  <2>6. QED
    BY <2>5 DEF OutboxMatchesLedger
<1>3. QED
  BY <1>1, <1>2, StepShared DEF IInv

LEMMA OncePerKeyStep ==
  ASSUME IInv, NEW r \in Requests, Step(r)
  PROVE  AtMostOncePerKey' /\ PaidOnce'
<1>1. CASE UNCHANGED dbVars
  BY <1>1 DEF IInv, AtMostOncePerKey, PaidOnce, dbVars
<1>2. CASE CommitStep(r)
  <2>1. TxOf(r).by = r /\ TxOf(r).order = order[r]
    BY DEF TxOf
  <2>2. QED
    BY <1>2, <2>1, CommitEffect DEF IInv, AtMostOncePerKey, PaidOnce
<1>3. QED
  BY <1>1, <1>2, StepShared DEF IInv

LEMMA KeyReservedStep ==
  ASSUME IInv, NEW r \in Requests, Step(r)
  PROVE  KeyReserved'
<1>1. Updates(r) /\ pc \in [Requests -> PCs] /\ wrote \in [Requests -> SUBSET Stages]
      /\ order \in [Requests -> Orders \union {NoOrder}]
  BY StepUpdates DEF IInv, TypeOK
<1>2. \A q \in Requests \ {r} : wrote'[q] = wrote[q] /\ order'[q] = order[q]
  BY <1>1 DEF Updates
<1>3. \A a \in Keys \union {NoKey} : UNCHANGED dbVars => Processed(a)' = Processed(a)
  BY DEF Processed, dbVars
<1>4. ASSUME "tx" \in wrote'[r], "tx" \notin wrote[r]
      PROVE  InsertTx(r) /\ Processed(order[r].key) = {}
  <2>1. wrote' # wrote
    BY <1>4
  <2>2. Debit(r) \/ Credit(r) \/ InsertTx(r) \/ InsertOutbox(r)
    BY <1>1, <1>4, <2>1 DEF Step, Progress, Receive, Lookup, Connect, LockRow, Validate, Commit,
       CommitUnacknowledged, Finish, StatementFails, LockTimeout, Rollback, AcquireFails, SeekWinner,
       Retry, GiveUp, Winner
  <2>3. QED
    BY <1>1, <1>4, <2>2 DEF Debit, Credit, InsertTx, InsertOutbox, Write
<1>5. ASSUME "tx" \in wrote'[r] PROVE order'[r] = order[r] /\ UNCHANGED dbVars
  <2>1. CASE "tx" \in wrote[r]
    <3>1. pc[r] \in InSession
      BY <2>1 DEF IInv, NothingLeaks
    <3>2. order'[r] = order[r]
      BY <3>1, <1>1 DEF Updates, InSession, Statements
    <3>3. QED
      BY <3>2, <1>5, StepShared DEF IInv, CommitStep
  <2>2. CASE "tx" \notin wrote[r]
    BY <1>4, <1>5, <2>2 DEF InsertTx, dbVars
  <2>3. QED
    BY <2>1, <2>2
<1>6. ASSUME NEW q \in Requests, "tx" \in wrote'[q], order'[q].key # NoKey
      PROVE  /\ \A t \in txs' : t.order.key # order'[q].key
             /\ \A p \in Requests \ {q} : "tx" \in wrote'[p] => order'[p].key # order'[q].key
  <2> DEFINE Reserved(x) == /\ \A t \in txs : t.order.key # order[x].key
                            /\ \A p \in Requests \ {x} : "tx" \in wrote[p] => order[p].key # order[x].key
  <2>1. \A x \in Requests : "tx" \in wrote[x] /\ order[x].key # NoKey => Reserved(x)
    BY DEF IInv, KeyReserved, Processed
  <2>2. InsertTx(r) => \A p \in Requests \ {r} :
                         "tx" \in wrote[p] /\ order[p].key # NoKey => order[p].key # order[r].key
    BY DEF InsertTx, BlockedBy
  <2>3. CASE q = r
    <3>1. order'[r] = order[r] /\ txs' = txs /\ order[r].key # NoKey
      BY <1>5, <1>6, <2>3 DEF dbVars
    <3>2. Reserved(r)
      BY <1>4, <1>6, <2>1, <2>2, <2>3, <3>1 DEF Processed
    <3>3. QED
      BY <3>1, <3>2, <2>3, <1>2
  <2>4. CASE q # r
    <3>1. order'[q] = order[q] /\ "tx" \in wrote[q] /\ Reserved(q)
      BY <1>2, <1>6, <2>1, <2>4
    <3>2. \A t \in txs' : t.order.key # order[q].key
      <4>1. CASE UNCHANGED dbVars
        BY <3>1, <4>1 DEF dbVars
      <4>2. CASE CommitStep(r)
        <5>1. "tx" \in wrote[r]
          BY <4>2 DEF CommitStep, IInv, StagesDone, Stages
        <5>2. txs' = txs \union {TxOf(r)} /\ TxOf(r).order = order[r]
          BY <4>2, CommitEffect DEF TxOf
        <5>3. QED
          BY <5>1, <5>2, <3>1, <2>4
      <4>3. QED
        BY <4>1, <4>2, StepShared DEF IInv
    <3>3. "tx" \in wrote'[r] => order'[r].key # order[q].key
      BY <1>4, <1>5, <2>2, <2>4, <3>1, <1>6
    <3>4. QED
      BY <3>1, <3>2, <3>3, <1>2
  <2>5. QED
    BY <2>3, <2>4
<1>7. \A q \in Requests : "tx" \in wrote'[q] /\ order'[q].key # NoKey => {t \in txs' : t.order.key = order'[q].key} = {}
  BY <1>6
<1>8. QED
  BY <1>6, <1>7 DEF KeyReserved, Processed

LEMMA PaidIsOverStep ==
  ASSUME IInv, NEW r \in Requests, Step(r)
  PROVE  PaidIsOver'
<1>1. Updates(r) /\ pc \in [Requests -> PCs] /\ order \in [Requests -> Orders \union {NoOrder}]
      /\ error \in [Requests -> Errors]
  BY StepUpdates DEF IInv, TypeOK
<1> DEFINE P(t) == /\ pc[t.by] \in {"committed", "done", "rollback", "caught"}
                   /\ pc[t.by] \in {"rollback", "caught"} => error[t.by] = "CONN"
                   /\ t.order = order[t.by]
                   /\ t.order.src # t.order.dst
<1>2. ASSUME NEW t \in txs PROVE P(t)'
  <2>1. P(t) /\ t.by \in Requests
    BY DEF IInv, PaidIsOver, TypeOK, Tx
  <2>2. CASE t.by # r
    BY <2>1, <2>2, <1>1 DEF Updates
  <2>3. CASE t.by = r
    <3>1. order'[r] = order[r]
      BY <2>1, <2>3, <1>1 DEF Updates
    <3>2. Finish(r) \/ (Rollback(r) /\ error[r] = "CONN") \/ (GiveUp(r) /\ error[r] = "CONN")
      BY <2>1, <2>3, <1>1, Flow DEF IInv, Updates, SeekWinner, LosesKeyRace, Retry, RetriesAgain, Retryable
    <3>3. QED
      BY <2>1, <2>3, <3>1, <3>2, <1>1 DEF Finish, Rollback, GiveUp, Goto, Answer
  <2>4. QED
    BY <2>2, <2>3
<1>3. \A t \in txs' : P(t)'
  <2>1. CASE UNCHANGED dbVars
    BY <1>2, <2>1 DEF dbVars
  <2>2. CASE CommitStep(r)
    <3>1. txs' = txs \union {TxOf(r)} /\ order[r].src # order[r].dst
      BY <2>2, CommitEffect
    <3>2. ASSUME NEW t, t = TxOf(r) PROVE P(t)'
      BY <2>2, <3>1, <3>2 DEF CommitStep, TxOf
    <3>3. QED
      BY <1>2, <3>1, <3>2
  <2>3. QED
    BY <2>1, <2>2, StepShared DEF IInv
<1>4. ASSUME NEW q \in Requests, pc'[q] = "committed" PROVE TxOf(q)' \in txs'
  <2>1. CASE q = r
    <3>1. Commit(r)
      BY <1>4, <2>1, Flow DEF IInv
    <3>2. "tx" \in wrote[r]
      BY <3>1 DEF Commit, IInv, StagesDone, Stages
    <3>3. QED
      BY <2>1, <3>1, <3>2 DEF Commit, ApplyWrites, TxOf
  <2>2. CASE q # r
    <3>1. pc[q] = "committed" /\ order'[q] = order[q] /\ attempt'[q] = attempt[q]
      BY <1>1, <1>4, <2>2 DEF Updates, IInv, TypeOK
    <3>2. TxOf(q) \in txs /\ TxOf(q)' = TxOf(q)
      BY <3>1 DEF IInv, PaidIsOver, TxOf
    <3>3. txs \subseteq txs'
      BY StepShared, CommitEffect DEF IInv, dbVars
    <3>4. QED
      BY <3>2, <3>3
  <2>3. QED
    BY <2>1, <2>2
<1>5. QED
  BY <1>3, <1>4 DEF PaidIsOver

LEMMA LedgerGrows ==
  ASSUME IInv, NEW r \in Requests, Step(r)
  PROVE  txs \subseteq txs'
  BY StepShared, CommitEffect DEF IInv, dbVars

LEMMA LoserHasWinnerStep ==
  ASSUME IInv, NEW r \in Requests, Step(r)
  PROVE  LoserHasWinner'
<1>1. Updates(r) /\ pc \in [Requests -> PCs] /\ order \in [Requests -> Orders \union {NoOrder}]
      /\ error \in [Requests -> Errors]
  BY StepUpdates DEF IInv, TypeOK
<1> DEFINE Lost(q) == pc[q] = "winner" \/ (pc[q] \in {"rollback", "caught"} /\ error[q] = "23505")
<1>2. ASSUME NEW q \in Requests, Lost(q)'
      PROVE  order'[q] = order[q] /\ \E t \in txs : order[q].key # NoKey /\ t.order.key = order[q].key
  <2>1. CASE Lost(q) /\ order'[q] = order[q]
    BY <2>1 DEF IInv, LoserHasWinner, Processed
  <2>2. CASE q # r
    BY <1>1, <1>2, <2>1, <2>2 DEF Updates
  <2>3. CASE q = r
    <3>1. pc[r] # "idle" /\ order'[r] = order[r]
      BY <1>1, <1>2, <2>3, Flow DEF Updates, IInv, Lookup, Rollback, AcquireFails, Waits, InSession, Statements, SeekWinner
    <3>2. CASE pc'[r] = "winner"
      BY <1>1, <2>1, <2>3, <3>1, <3>2, Flow DEF IInv, SeekWinner, LosesKeyRace
    <3>3. CASE pc'[r] = "caught"
      <4>1. CASE Rollback(r)
        BY <1>2, <2>1, <2>3, <3>1, <3>3, <4>1 DEF Rollback
      <4>2. CASE Lookup(r) \/ AcquireFails(r)
        <5>1. error'[r] # "23505"
          BY <1>1, <3>3, <4>2 DEF Lookup, Raise, Goto, Answer, AcquireFails
        <5>2. QED
          BY <5>1, <1>2, <2>3, <3>3
      <4>3. QED
        BY <3>3, <4>1, <4>2, Flow DEF IInv
    <3>4. CASE pc'[r] = "rollback"
      <4>1. error'[r] = "23505"
        BY <1>2, <2>3, <3>4
      <4>2. InsertTx(r)
        <5>1. Validate(r) => error'[r] # "23505"
          BY <1>1, <3>4 DEF Validate, Rejection, Raise, Goto, NoError
        <5>2. Debit(r) \/ StatementFails(r) \/ LockTimeout(r) \/ CommitUnacknowledged(r) => error'[r] # "23505"
          BY <1>1, <3>4, TransfersAssumption DEF Debit, StatementFails, LockTimeout, CommitUnacknowledged,
             Raise, Write, Goto, AllFaults
        <5>3. QED
          BY <3>4, <4>1, <5>1, <5>2, Flow DEF IInv
      <4>3. QED
        BY <1>1, <3>1, <3>4, <4>2, <2>3 DEF InsertTx, Write, Goto, Processed
    <3>5. QED
      BY <1>2, <2>3, <3>2, <3>3, <3>4
  <2>4. QED
    BY <2>2, <2>3
<1>3. \A q \in Requests : Lost(q)' => {t \in txs' : order'[q].key # NoKey /\ t.order.key = order'[q].key} # {}
  BY <1>2, LedgerGrows
<1>4. QED
  BY <1>3 DEF LoserHasWinner, Processed

LEMMA AnswersAreTrueStep ==
  ASSUME IInv, NEW r \in Requests, Step(r)
  PROVE  AnswersAreTrue'
<1>1. Updates(r) /\ pc \in [Requests -> PCs] /\ order \in [Requests -> Orders \union {NoOrder}]
      /\ error \in [Requests -> Errors] /\ answer \in [Requests -> [code : Codes, paid : SUBSET Tx]]
  BY StepUpdates DEF IInv, TypeOK
<1>2. txs \subseteq txs'
  BY LedgerGrows
<1> DEFINE True(q) == /\ answer[q].code = 201 => \E t \in txs : answer[q].paid = {t} /\ Pays(t, q)
                      /\ answer[q].code \in {400, 404, 422, 503} => \A t \in txs : t.by # q
<1>3. ASSUME NEW q \in Requests, q # r PROVE True(q)'
  <2>1. answer'[q] = answer[q] /\ order'[q] = order[q]
    BY <1>1, <1>3 DEF Updates
  <2>2. \A t \in txs' : t.by = q => t \in txs
    <3>1. CASE CommitStep(r)
      <4>1. txs' = txs \union {TxOf(r)} /\ TxOf(r).by = r
        BY <3>1, CommitEffect DEF TxOf
      <4>2. QED
        BY <4>1, <1>3
    <3>2. QED
      BY <3>1, StepShared DEF IInv, dbVars
  <2>3. True(q)
    BY DEF IInv, AnswersAreTrue
  <2>4. QED
    BY <1>2, <2>1, <2>2, <2>3 DEF Pays
<1>4. True(r)'
  <2>1. CASE pc'[r] # "done"
    BY <2>1, <1>1 DEF IInv, OrdersKnown, Updates, NoAnswer, Told, Pending
  <2>2. CASE pc'[r] = "done"
    <3>1. pc[r] \in {"committed", "done", "rollback", "caught"} \/ \A t \in txs : t.by # r
      BY DEF IInv, PaidIsOver
    <3>2. txs' = txs
      BY <2>2, StepShared, Flow DEF IInv, dbVars
    <3>3. CASE Receive(r)
      BY <1>1, <2>2, <3>1, <3>2, <3>3 DEF Receive, Answer, Goto, Told
    <3>4. CASE Lookup(r) \/ Winner(r)
      <4>1. \/ answer'[r] = Told(422, {}) \/ answer'[r] = Told(500, {})
            \/ \E t \in Processed(order[r].key) : SameRequest(t, order[r]) /\ answer'[r] = Told(201, {t})
        <5>1. CASE Lookup(r)
          <6>1. PICK t \in Processed(order[r].key) :
                  IF SameRequest(t, order[r]) THEN Answer(r, 201, {t}) ELSE Raise(r, "422", "caught")
            BY <1>1, <2>2, <5>1 DEF Lookup, Goto
          <6>2. SameRequest(t, order[r]) /\ answer' = [answer EXCEPT ![r] = Told(201, {t})]
            BY <6>1, <1>1, <2>2 DEF Answer, Raise, Goto
          <6>3. QED
            BY <6>2, <1>1
        <5>2. CASE Winner(r)
          <6>1. CASE Processed(order[r].key) = {}
            BY <6>1, <1>1, <5>2 DEF Winner, Answer
          <6>2. CASE Processed(order[r].key) # {}
            <7>1. PICK t \in Processed(order[r].key) :
                    IF SameRequest(t, order[r]) THEN Answer(r, 201, {t}) ELSE Answer(r, 422, {})
              BY <6>2, <5>2 DEF Winner
            <7>2. CASE SameRequest(t, order[r])
              BY <7>1, <7>2, <1>1 DEF Answer
            <7>3. CASE ~ SameRequest(t, order[r])
              BY <7>1, <7>3, <1>1 DEF Answer
            <7>4. QED
              BY <7>2, <7>3
          <6>3. QED
            BY <6>1, <6>2
        <5>3. QED
          BY <3>4, <5>1, <5>2
      <4>2. order' = order
        BY <3>4 DEF Lookup, Winner
      <4>3. \A t \in txs : t.by # r
        BY <3>1, <3>4 DEF Lookup, Winner
      <4>4. QED
        <5>1. CASE answer'[r] = Told(422, {}) \/ answer'[r] = Told(500, {})
          BY <5>1, <4>3, <3>2 DEF Told
        <5>2. ASSUME NEW t \in Processed(order[r].key), SameRequest(t, order[r]), answer'[r] = Told(201, {t})
              PROVE  True(r)'
          <6>1. t \in txs /\ order[r].key # NoKey /\ t.order.key = order[r].key
            BY DEF Processed
          <6>2. Pays(t, r)'
            BY <5>2, <6>1, <4>2 DEF Pays, SameRequest
          <6>3. QED
            BY <5>2, <6>1, <6>2, <3>2 DEF Told
        <5>3. CASE \E t \in Processed(order[r].key) : SameRequest(t, order[r]) /\ answer'[r] = Told(201, {t})
          <6>1. PICK t \in Processed(order[r].key) : SameRequest(t, order[r]) /\ answer'[r] = Told(201, {t})
            BY <5>3
          <6>2. QED
            BY <5>2, <6>1
        <5>4. QED
          BY <4>1, <5>1, <5>3
    <3>5. CASE AcquireFails(r)
      <4>1. pc'[r] = "done" => answer'[r] = Told(500, {})
        BY <1>1, <3>5 DEF AcquireFails, Answer, Goto, Waits
      <4>2. pc'[r] # "done" => answer'[r] = answer[r]
        BY <1>1, <3>5 DEF AcquireFails, Answer, Goto, Waits
      <4>3. QED
        BY <4>1, <4>2, <2>2, <3>1, <3>2 DEF Told
    <3>6. CASE GiveUp(r)
      <4>1. answer'[r].code # 201 /\ (answer'[r].code \in {400, 404, 422, 503} => error[r] # "CONN")
        BY <1>1, <3>6 DEF GiveUp, Answer, Told, StatusOf, Retryable
      <4>2. (\E t \in txs : t.by = r) => error[r] = "CONN"
        BY <3>6 DEF GiveUp, IInv, PaidIsOver
      <4>3. QED
        BY <4>1, <4>2, <3>2
    <3>7. CASE Finish(r)
      <4>1. TxOf(r) \in txs /\ answer'[r] = Told(201, {TxOf(r)}) /\ order' = order
        BY <1>1, <3>7 DEF Finish, Answer, IInv, PaidIsOver
      <4>2. QED
        BY <4>1, <3>2 DEF Told, Pays, TxOf
    <3>8. QED
      BY <2>2, <3>3, <3>4, <3>5, <3>6, <3>7, Flow DEF IInv
  <2>3. QED
    BY <2>1, <2>2
<1>5. QED
  BY <1>3, <1>4 DEF AnswersAreTrue

-----------------------------------------------------------------------------
(* The invariant *)

(* A crash ends every request in progress: what they had committed stays,   *)
(* and nothing is held.                                                     *)
LEMMA CrashStep ==
  ASSUME IInv, Crash
  PROVE  IInv'
<1>1. TypeOK' /\ OrdersKnown'
  BY TypeStep DEF IInv, Next
<1>2. /\ \A q \in Requests : /\ pc'[q] \in {"idle", "done"}
                             /\ pc'[q] = "idle" <=> pc[q] = "idle"
                             /\ pc[q] \in {"idle", "done"} => answer'[q] = answer[q]
                             /\ pc[q] \notin {"idle", "done"} => answer'[q] = Told(Reset, {})
                             /\ wrote'[q] = {}
      /\ conn' = {} /\ UNCHANGED <<order, attempt, error, balance, txs, outbox>>
      /\ \A a \in Accounts : lock'[a] = NoRequest
  BY DEF Crash, InFlight, dbVars, IInv, TypeOK
<1>3. NothingLeaks' /\ StagesDone'
  BY <1>2, TransfersAssumption DEF NothingLeaks, StagesDone
<1>4. LocksHeld' /\ Funded' /\ KeyReserved' /\ LoserHasWinner'
  BY <1>2, TransfersAssumption DEF LocksHeld, Funded, KeyReserved, LoserHasWinner, Locked
<1>5. AtMostOncePerKey' /\ PaidOnce' /\ NoOverdraft' /\ OutboxMatchesLedger'
  BY <1>2 DEF IInv, AtMostOncePerKey, PaidOnce, NoOverdraft, OutboxMatchesLedger
<1>6. PaidIsOver'
  <2>1. \A t \in txs : t.by \in Requests
    BY DEF IInv, TypeOK, Tx
  <2>2. QED
    BY <1>2, <2>1 DEF IInv, PaidIsOver
<1>7. AnswersAreTrue'
  BY <1>2 DEF IInv, AnswersAreTrue, Pays, Told, Reset
<1>8. QED
  BY <1>1, <1>3, <1>4, <1>5, <1>6, <1>7 DEF IInv

(* The inductive invariant holds for every number of requests, accounts,    *)
(* connections and attempts: type correctness, the session discipline and   *)
(* the ledger properties of processTransaction and executeTransfer.         *)
THEOREM Invariance == Spec => []IInv
<1>1. Init => IInv
  <2>1. ASSUME Init PROVE TypeOK
    BY <2>1, TransfersAssumption DEF Init, TypeOK, PCs, Errors, AllFaults, NoError, NoAnswer, Told,
       Codes, Pending
  <2>2. ASSUME Init PROVE NothingLeaks /\ OrdersKnown /\ LocksHeld /\ StagesDone /\ Funded /\ KeyReserved
    BY <2>2, TransfersAssumption DEF Init, NothingLeaks, OrdersKnown, LocksHeld, StagesDone, Funded, KeyReserved, InSession,
       Statements, Locked
  <2>3. ASSUME Init PROVE AtMostOncePerKey /\ PaidIsOver /\ PaidOnce /\ LoserHasWinner /\ OutboxMatchesLedger
    BY <2>3 DEF Init, AtMostOncePerKey, PaidIsOver, PaidOnce, LoserHasWinner, OutboxMatchesLedger
  <2>4. ASSUME Init PROVE NoOverdraft /\ AnswersAreTrue
    BY <2>4, TransfersAssumption DEF Init, NoOverdraft, AnswersAreTrue, NoAnswer, Told, Pending
  <2>5. QED
    BY <2>1, <2>2, <2>3, <2>4 DEF IInv
<1>2. IInv /\ [Next]_vars => IInv'
  <2> SUFFICES ASSUME IInv, [Next]_vars PROVE IInv'
    OBVIOUS
  <2>1. ASSUME NEW r \in Requests, Step(r) PROVE IInv'
    <3>1. TypeOK' /\ OrdersKnown'
      BY <2>1, TypeStep DEF IInv, Next, Step
    <3>2. QED
      BY <2>1, <3>1, NothingLeaksStep, LocksHeldStep, StagesDoneStep, FundedStep, KeyReservedStep,
         OncePerKeyStep, PaidIsOverStep, LoserHasWinnerStep, NoOverdraftStep, OutboxStep,
         AnswersAreTrueStep DEF IInv
  <2>2. CASE Crash
    BY <2>2, CrashStep
  <2>3. CASE UNCHANGED vars
    BY <2>3 DEF vars, dbVars, IInv, TypeOK, NothingLeaks, OrdersKnown, LocksHeld, StagesDone, Funded,
       KeyReserved, AtMostOncePerKey, PaidIsOver, PaidOnce, LoserHasWinner, NoOverdraft,
       OutboxMatchesLedger, AnswersAreTrue, Rows, Processed, TxOf, Pays
  <2>4. QED
    BY <2>1, <2>2, <2>3 DEF Next, Step
<1>3. QED
  BY <1>1, <1>2, PTL DEF Spec

(* Under the invariant no set of requests waits for itself.  Among blocked  *)
(* requests none has inserted its key, so each waits for a row; the one     *)
(* that waits for the greatest row is blocked by a request that holds it,   *)
(* which, if blocked too, waits for a greater one.  m bounds the account    *)
(* numbers (VARCHAR(20)).                                                   *)
LEMMA WaitsEnd ==
  ASSUME NEW m \in Nat, \A a \in Accounts : a <= m, IInv
  PROVE  NoDeadlock
<1> SUFFICES ASSUME NEW S \in SUBSET Requests, S # {},
                    \A r \in S : BlockedBy(r) \intersect S # {}
             PROVE  FALSE
  BY DEF NoDeadlock
<1> DEFINE Second(r) == LockOrder(order[r])[2]
           Slow == {q \in S : pc[q] = "lock2"}
           Height == {m - Second(q) : q \in Slow}
<1>1. \A r \in S : pc[r] \in {"lock1", "lock2", "insert"}
  BY DEF BlockedBy, WantedRow
<1>2. \A r \in S : "tx" \notin wrote[r]
  BY <1>1 DEF IInv, StagesDone
<1>3. \A r \in S : \E q \in S : \E a \in WantedRow(r) \intersect Accounts : lock[a] = q
  BY <1>2 DEF BlockedBy
<1>4. \A r \in S : LockOrder(order[r])[1] < Second(r)
  <2> TAKE r \in S
  <2>1. order[r] \in Orders /\ order[r].src # order[r].dst
    BY <1>1 DEF IInv, OrdersKnown, TypeOK
  <2>2. order[r].src \in Nat /\ order[r].dst \in Nat
    BY <2>1, TransfersAssumption DEF OrderType
  <2>3. QED
    BY <2>1, <2>2 DEF LockOrder
<1>5. \A q \in S, a \in Accounts : lock[a] = q => q \in Slow /\ a < Second(q)
  <2> SUFFICES ASSUME NEW q \in S, NEW a \in Accounts, lock[a] = q
               PROVE  pc[q] = "lock2" /\ a < Second(q)
    OBVIOUS
  <2>1. CASE pc[q] = "lock2"
    BY <2>1, <1>4 DEF IInv, LocksHeld
  <2>2. CASE pc[q] = "lock1"
    BY <2>2 DEF IInv, LocksHeld
  <2>3. CASE pc[q] = "insert"
    BY <2>3, <1>3 DEF WantedRow
  <2>4. QED
    BY <1>1, <2>1, <2>2, <2>3
<1>6. \A r \in Slow : Second(r) \in Accounts /\ \E q \in Slow : Second(r) < Second(q)
  <2> TAKE r \in Slow
  <2>1. WantedRow(r) = {Second(r)}
    BY DEF WantedRow
  <2>2. PICK q \in S : Second(r) \in Accounts /\ lock[Second(r)] = q
    BY <1>3, <2>1
  <2>3. QED
    BY <1>5, <2>2
<1>7. Slow # {}
  <2>1. PICK r \in S : TRUE
    OBVIOUS
  <2>2. PICK q \in S, a \in Accounts : lock[a] = q
    BY <1>3, <2>1
  <2>3. QED
    BY <1>5, <2>2
<1> HIDE DEF Second, Slow
<1>8. \A q \in Slow : Second(q) \in Nat /\ Second(q) <= m
  BY <1>6, TransfersAssumption
<1>9. Height \in SUBSET Nat /\ Height # {}
  BY <1>7, <1>8
<1>10. PICK h \in Height : \A k \in Height : h <= k
  BY <1>9, LeastNatural
<1>11. PICK r \in Slow : h = m - Second(r)
  BY <1>10
<1>12. PICK q \in Slow : Second(r) < Second(q)
  BY <1>6, <1>11
<1>13. m - Second(r) <= m - Second(q)
  BY <1>10, <1>11, <1>12
<1>14. QED
  BY <1>8, <1>12, <1>13

-----------------------------------------------------------------------------
(* What is left to do *)

(* Every label is some steps from the end. *)
LEMMA Distances ==
  /\ Distance("done") = 0 /\ Distance("winner") = 1 /\ Distance("caught") = 2
  /\ Distance("rollback") = 3 /\ Distance("committed") = 4 /\ Distance("commit") = 5
  /\ Distance("outbox") = 6 /\ Distance("insert") = 7 /\ Distance("credit") = 8
  /\ Distance("debit") = 9 /\ Distance("validate") = 10 /\ Distance("lock2") = 11
  /\ Distance("lock1") = 12 /\ Distance("connect") = 13 /\ Distance("lookup") = 14
  /\ Distance("idle") = 15
  BY DEF Distance

LEMMA DistanceBounded == \A label \in PCs : Distance(label) \in 0..15
  BY Distances DEF PCs, Waits, InSession, Statements

(* A step of a request brings it nearer to the end of its attempt, or is    *)
(* the Retry that begins the next one.                                      *)
LEMMA StepNearer ==
  ASSUME TypeOK, NEW r \in Requests, Step(r)
  PROVE  \/ attempt'[r] = attempt[r] /\ Distance(pc'[r]) < Distance(pc[r])
         \/ attempt'[r] = attempt[r] + 1 /\ pc[r] = "caught" /\ pc'[r] = "connect"
<1> USE Distances DEF TypeOK
<1>1. CASE Receive(r) \/ Lookup(r) \/ Connect(r) \/ Winner(r)
  <2>1. attempt' = attempt /\ pc \in [Requests -> PCs]
    BY <1>1 DEF Receive, Lookup, Connect, Winner
  <2>2. \/ pc[r] = "idle" /\ pc'[r] \in {"lookup", "connect", "done"}
        \/ pc[r] = "lookup" /\ pc'[r] \in {"connect", "caught", "done"}
        \/ pc[r] = "connect" /\ pc'[r] = "lock1"
        \/ pc[r] = "winner" /\ pc'[r] = "done"
    BY <1>1, <2>1 DEF Receive, Lookup, Connect, Winner, Goto, Raise, Answer
  <2>3. QED
    BY <2>1, <2>2
<1>2. CASE LockRow(r) \/ Validate(r) \/ Debit(r) \/ Credit(r)
  BY <1>2 DEF LockRow, Validate, Debit, Credit, Goto, Raise, Write
<1>3. CASE InsertTx(r) \/ InsertOutbox(r) \/ Commit(r) \/ CommitUnacknowledged(r)
  BY <1>3 DEF InsertTx, InsertOutbox, Commit, CommitUnacknowledged, Goto, Raise, Write
<1>4. CASE Finish(r) \/ Rollback(r) \/ SeekWinner(r) \/ GiveUp(r)
  BY <1>4 DEF Finish, Rollback, SeekWinner, GiveUp, Goto, Answer
<1>5. CASE StatementFails(r) \/ LockTimeout(r) \/ AcquireFails(r)
  BY <1>5 DEF StatementFails, LockTimeout, AcquireFails, Statements, Waits, Goto, Raise, Answer
<1>6. CASE Retry(r)
  BY <1>6 DEF Retry, Goto
<1>7. QED
  BY <1>1, <1>2, <1>3, <1>4, <1>5, <1>6 DEF Step, Progress

(* A request that a step does not concern has as much left as before.       *)
LEMMA StepsLeftFalls ==
  ASSUME TypeOK, OrdersKnown, [Next]_vars, vars' # vars
  PROVE  /\ \A r \in Requests : StepsLeft(r)' <= StepsLeft(r)
         /\ \E r \in Requests : StepsLeft(r)' < StepsLeft(r)
<1>1. \A r \in Requests : StepsLeft(r) \in Int /\ StepsLeft(r)' \in Int
  <2>1. TypeOK'
    BY TypeStep
  <2>2. \A r \in Requests : attempt[r] \in Int /\ attempt'[r] \in Int /\ pc[r] \in PCs /\ pc'[r] \in PCs
    BY <2>1, TransfersAssumption DEF TypeOK
  <2>3. QED
    BY <2>2, DistanceBounded, TransfersAssumption DEF StepsLeft
<1>2. ASSUME NEW q \in Requests, Step(q)
      PROVE  /\ \A r \in Requests : StepsLeft(r)' <= StepsLeft(r)
             /\ \E r \in Requests : StepsLeft(r)' < StepsLeft(r)
  <2>1. Updates(q)
    BY <1>2, StepUpdates
  <2>2. \A r \in Requests \ {q} : StepsLeft(r)' = StepsLeft(r)
    BY <2>1 DEF Updates, TypeOK, StepsLeft
  <2>3. StepsLeft(q)' < StepsLeft(q)
    <3>1. /\ pc[q] \in PCs /\ pc'[q] \in PCs
          /\ attempt[q] \in Int /\ attempt'[q] \in Int
      BY <2>1, TransfersAssumption DEF Updates, TypeOK
    <3>2. Distance(pc[q]) \in Int /\ Distance(pc'[q]) \in Int
      BY <3>1, DistanceBounded
    <3>3. CASE attempt'[q] = attempt[q] /\ Distance(pc'[q]) < Distance(pc[q])
      BY <3>1, <3>2, <3>3, TransfersAssumption DEF StepsLeft
    <3>4. CASE attempt'[q] = attempt[q] + 1 /\ pc[q] = "caught" /\ pc'[q] = "connect"
      <4>1. Distance(pc[q]) = 2 /\ Distance(pc'[q]) = 13
        BY <3>4, Distances
      <4>2. QED
        BY <3>1, <3>4, <4>1, TransfersAssumption DEF StepsLeft
    <3>5. QED
      BY <1>2, <3>3, <3>4, StepNearer
  <2>4. QED
    BY <1>1, <2>2, <2>3
<1>3. ASSUME Crash
      PROVE  /\ \A r \in Requests : StepsLeft(r)' <= StepsLeft(r)
             /\ \E r \in Requests : StepsLeft(r)' < StepsLeft(r)
  <2>1. \A r \in Requests \ InFlight : StepsLeft(r)' = StepsLeft(r)
    BY <1>3 DEF Crash, StepsLeft
  <2>2. \A r \in InFlight : StepsLeft(r)' < StepsLeft(r)
    <3> TAKE r \in InFlight
    <3>1. pc[r] \in PCs \ {"idle", "done"} /\ pc'[r] = "done" /\ attempt'[r] = attempt[r]
      BY <1>3 DEF Crash, InFlight, TypeOK
    <3>2. Distance(pc[r]) \in 1..15 /\ Distance(pc'[r]) = 0
      BY <3>1, Distances DEF PCs, Waits, InSession, Statements
    <3>3. r \in Requests /\ attempt[r] \in Int
      BY TransfersAssumption DEF InFlight, TypeOK
    <3>4. QED
      BY <3>1, <3>2, <3>3, TransfersAssumption DEF StepsLeft
  <2>3. InFlight # {} /\ InFlight \subseteq Requests
    BY <1>3 DEF Crash, InFlight
  <2>4. QED
    BY <1>1, <2>1, <2>2, <2>3
<1>4. QED
  BY <1>2, <1>3 DEF Next, Step

(* Of the requests in flight one is not held up: a session that waits for   *)
(* no other, or, where there is no session, one that takes a connection.    *)
LEMMA OneIsFree ==
  ASSUME IInv, NoDeadlock
  PROVE  SomeoneMoves
<1> SUFFICES ASSUME InFlight # {}
             PROVE  \E r \in InFlight : BlockedBy(r) = {} /\ (pc[r] \in Waits => FreeConnection)
  BY DEF SomeoneMoves
<1> DEFINE Sessions == {r \in Requests : pc[r] \in InSession}
<1>1. CASE Sessions = {}
  <2>1. conn = {}
    BY <1>1 DEF IInv, TypeOK, NothingLeaks
  <2>2. FreeConnection
    BY <2>1, FS_EmptySet, TransfersAssumption DEF FreeConnection
  <2>3. PICK r \in InFlight : TRUE
    OBVIOUS
  <2>4. pc[r] \notin InSession
    BY <1>1 DEF InFlight
  <2>5. BlockedBy(r) = {}
    BY <2>4 DEF BlockedBy, WantedRow, InSession, Statements
  <2>6. QED
    BY <2>2, <2>5
<1>2. CASE Sessions # {}
  <2>1. PICK r \in Sessions : BlockedBy(r) \intersect Sessions = {}
    BY <1>2 DEF NoDeadlock
  <2>2. BlockedBy(r) \subseteq Sessions
    BY DEF BlockedBy, IInv, NothingLeaks
  <2>3. r \in InFlight /\ pc[r] \notin Waits
    BY DEF InFlight, InSession, Statements, Waits
  <2>4. QED
    BY <2>1, <2>2, <2>3
<1>3. QED
  BY <1>1, <1>2

-----------------------------------------------------------------------------
(* The ledger and the balances *)

(* One more row moves its amount. *)
LEMMA MovedAdds ==
  ASSUME NEW ts, IsFiniteSet(ts), NEW t, t \notin ts, \A u \in ts \union {t} : u.order.amt \in Int
  PROVE  /\ Moved(ts) \in Int
         /\ Moved(ts \union {t}) = Moved(ts) + t.order.amt
<1>1. PICK v : v = [u \in ts |-> u.order.amt]
  OBVIOUS
<1>2. PICK w : w = [u \in ts \union {t} |-> u.order.amt]
  OBVIOUS
<1>3. Moved(ts) = SumFunctionOnSet(v, ts) /\ Moved(ts \union {t}) = SumFunctionOnSet(w, ts \union {t})
  BY <1>1, <1>2 DEF Moved, SumFunction
<1>4. \A u \in ts : v[u] \in Int /\ w[u] = v[u]
  BY <1>1, <1>2
<1>5. w[t] = t.order.amt /\ \A u \in ts \union {t} : w[u] \in Int
  BY <1>2
<1>6. SumFunctionOnSet(w, ts) = SumFunctionOnSet(v, ts)
  BY <1>4, SumSame
<1>7. SumFunctionOnSet(w, ts) \in Int /\ SumFunctionOnSet(w, ts \union {t}) = SumFunctionOnSet(w, ts) + w[t]
  BY <1>5, SumAdds
<1>8. QED
  BY <1>3, <1>5, <1>6, <1>7

(* The ledger explains the balances, and is finite. *)
Ledger == IsFiniteSet(txs) /\ LedgerExplainsBalances

(* A commit adds to each side of the equation of the two accounts what it   *)
(* adds to the other, and nothing else writes either table.                 *)
LEMMA LedgerStep == IInv /\ Ledger /\ [Next]_vars => Ledger'
<1> SUFFICES ASSUME IInv, Ledger, [Next]_vars PROVE Ledger'
  OBVIOUS
<1>1. CASE UNCHANGED dbVars
  BY <1>1 DEF Ledger, LedgerExplainsBalances, Moved, dbVars
<1>2. ASSUME NEW r \in Requests, CommitStep(r) PROVE Ledger'
  <2> DEFINE o == order[r]
             x == TxOf(r)
             In(ts, a) == {t \in ts : t.order.dst = a}
             Out(ts, a) == {t \in ts : t.order.src = a}
  <2>1. /\ o \in OrderType /\ o.src # o.dst /\ o.src \in Accounts /\ o.dst \in Accounts
        /\ balance'[o.src] = balance[o.src] - o.amt
        /\ balance'[o.dst] = balance[o.dst] + o.amt
        /\ \A a \in Accounts \ {o.src, o.dst} : balance'[a] = balance[a]
        /\ txs' = txs \union {x}
        /\ \A t \in txs : t.by # r
    BY <1>2, CommitEffect
  <2>2. x.by = r /\ x.order = o /\ x \notin txs /\ o.amt \in Int
    BY <2>1 DEF TxOf, OrderType
  <2>3. IsFiniteSet(txs')
    BY <2>1, FS_AddElement DEF Ledger
  <2>4. \A t \in txs : t.order.amt \in Int
    BY TransfersAssumption DEF IInv, TypeOK, Tx, OrderType
  <2>5. ASSUME NEW a \in Accounts
        PROVE  balance'[a] = Opening[a] + Moved(In(txs', a)) - Moved(Out(txs', a))
    <3>1. IsFiniteSet(In(txs, a)) /\ IsFiniteSet(Out(txs, a))
      BY FS_Subset DEF Ledger
    <3>2. balance[a] = Opening[a] + Moved(In(txs, a)) - Moved(Out(txs, a))
      BY DEF Ledger, LedgerExplainsBalances
    <3>3. /\ In(txs', a) = IF o.dst = a THEN In(txs, a) \union {x} ELSE In(txs, a)
          /\ Out(txs', a) = IF o.src = a THEN Out(txs, a) \union {x} ELSE Out(txs, a)
      BY <2>1, <2>2
    <3>4. /\ Moved(In(txs, a)) \in Int
          /\ Moved(In(txs, a) \union {x}) = Moved(In(txs, a)) + o.amt
      <4>1. x \notin In(txs, a) /\ \A u \in In(txs, a) \union {x} : u.order.amt \in Int
        BY <2>2, <2>4
      <4> HIDE DEF In, x
      <4>2. QED
        BY <4>1, <3>1, <2>2, MovedAdds
    <3>5. /\ Moved(Out(txs, a)) \in Int
          /\ Moved(Out(txs, a) \union {x}) = Moved(Out(txs, a)) + o.amt
      <4>1. x \notin Out(txs, a) /\ \A u \in Out(txs, a) \union {x} : u.order.amt \in Int
        BY <2>2, <2>4
      <4> HIDE DEF Out, x
      <4>2. QED
        BY <4>1, <3>1, <2>2, MovedAdds
    <3>6. balance[a] \in Int /\ Opening[a] \in Int
      BY TransfersAssumption DEF IInv, TypeOK
    <3> HIDE DEF In, Out, x, o
    <3>7. QED
      BY <2>1, <2>2, <3>2, <3>3, <3>4, <3>5, <3>6
  <2>6. QED
    BY <2>3, <2>5 DEF Ledger, LedgerExplainsBalances
<1>3. UNCHANGED dbVars \/ \E r \in Requests : CommitStep(r)
  <2>1. ASSUME NEW r \in Requests, Step(r) PROVE UNCHANGED dbVars \/ CommitStep(r)
    BY <2>1, StepShared DEF IInv
  <2>2. Crash \/ UNCHANGED vars => UNCHANGED dbVars
    BY DEF Crash, vars, dbVars
  <2>3. QED
    BY <2>1, <2>2 DEF Next, Step
<1>4. QED
  BY <1>1, <1>2, <1>3

-----------------------------------------------------------------------------
(* Refinement of IdempotentPayments *)

(* A commit is the abstract payment. *)
LEMMA CommitPays ==
  ASSUME IInv, NEW r \in Requests, CommitStep(r)
  PROVE  Promise!Pay(r)
<1> DEFINE o == order[r]
<1>1. /\ o \in OrderType /\ o.src # o.dst /\ o.src \in Accounts /\ o.dst \in Accounts
      /\ balance[o.src] >= o.amt
      /\ balance'[o.src] = balance[o.src] - o.amt
      /\ balance'[o.dst] = balance[o.dst] + o.amt
      /\ \A a \in Accounts \ {o.src, o.dst} : balance'[a] = balance[a]
      /\ txs' = txs \union {TxOf(r)}
      /\ \A t \in txs : t.by # r /\ (o.key # NoKey => t.order.key # o.key)
  BY CommitEffect
<1>2. balance' = [balance EXCEPT ![o.src] = @ - o.amt, ![o.dst] = @ + o.amt]
  <2>1. balance \in [Accounts -> Int] /\ DOMAIN balance' = Accounts /\ balance' = [a \in Accounts |-> balance'[a]]
    BY DEF IInv, TypeOK, CommitStep, ApplyWrites
  <2>2. QED
    BY <1>1, <2>1
<1>3. o # NoOrder /\ o.src \in Active /\ o.dst \in Active /\ answer[r] = NoAnswer
  BY DEF CommitStep, IInv, OrdersKnown, Funded
<1>4. Promise!PaidBy(r) = {}
  BY <1>1 DEF Promise!PaidBy
<1>5. \E n \in 1..MaxAttempts : txs' = txs \union {[by |-> r, n |-> n, order |-> o]}
  BY <1>1 DEF IInv, TypeOK, TxOf
<1>6. QED
  BY <1>1, <1>2, <1>3, <1>4, <1>5 DEF Promise!Pay, CommitStep, Promise!NoAnswer, NoAnswer, Told,
     Promise!Pending, Pending

(* Outside Receive and the commit, a step that answers gives an abstract    *)
(* reply: what it says is what AnswersAreTrue allows.                       *)
LEMMA AnswerReplies ==
  ASSUME IInv, NEW r \in Requests, Step(r), ~ Receive(r), UNCHANGED dbVars, answer' # answer
  PROVE  Promise!Reply(r)
<1>1. Updates(r) /\ pc \in [Requests -> PCs] /\ answer \in [Requests -> [code : Codes, paid : SUBSET Tx]]
  BY StepUpdates DEF IInv, TypeOK
<1>2. AnswersAreTrue' /\ txs' = txs
  BY AnswersAreTrueStep DEF dbVars
<1>3. pc'[r] = "done" /\ pc[r] # "done"
  BY <1>1 DEF Updates
<1>4. Lookup(r) \/ Winner(r) \/ AcquireFails(r) \/ GiveUp(r) \/ Finish(r)
  BY <1>3, Flow DEF IInv
<1>5. pc[r] # "idle" /\ order' = order /\ balance' = balance
  BY <1>4 DEF Lookup, Winner, AcquireFails, GiveUp, Finish, Waits, dbVars
<1>6. order[r] # NoOrder /\ answer[r] = NoAnswer
  BY <1>3, <1>5 DEF IInv, OrdersKnown
<1>7. /\ answer'[r].code \in {201, 400, 404, 422, 500, 503}
      /\ answer'[r].code # 201 => answer'[r].paid = {}
      /\ answer'[r] = Told(answer'[r].code, answer'[r].paid)
  <2>1. CASE Finish(r)
    BY <2>1, <1>1 DEF Finish, Answer, Told
  <2>2. CASE GiveUp(r)
    BY <2>2, <1>1 DEF GiveUp, Answer, Told, StatusOf
  <2>3. CASE AcquireFails(r)
    BY <2>3, <1>1, <1>3 DEF AcquireFails, Answer, Goto, Told
  <2>4. CASE Winner(r)
    BY <2>4, <1>1 DEF Winner, Answer, Told
  <2>5. CASE Lookup(r)
    BY <2>5, <1>1, <1>3 DEF Lookup, Answer, Goto, Raise, Told
  <2>6. QED
    BY <1>4, <2>1, <2>2, <2>3, <2>4, <2>5
<1>8. CASE answer'[r].code = 201
  <2>1. PICK t \in txs : answer'[r].paid = {t} /\ Pays(t, r)'
    BY <1>2, <1>8 DEF AnswersAreTrue
  <2>2. Promise!Covers(t, r)
    BY <2>1, <1>5 DEF Pays, Promise!Covers
  <2>3. answer' = [answer EXCEPT ![r] = Promise!Told(201, {t})]
    BY <2>1, <1>1, <1>7, <1>8 DEF Updates, Told, Promise!Told
  <2>4. QED
    BY <2>2, <2>3, <1>2, <1>5, <1>6 DEF Promise!Reply, Promise!NoAnswer, NoAnswer, Told, Promise!Pending, Pending
<1>9. CASE answer'[r].code # 201
  <2>1. answer' = [answer EXCEPT ![r] = Promise!Told(answer'[r].code, {})]
    BY <1>1, <1>7, <1>9 DEF Updates, Told, Promise!Told
  <2>2. answer'[r].code \in {400, 404, 422, 503} => Promise!PaidBy(r) = {}
    BY <1>2 DEF AnswersAreTrue, Promise!PaidBy
  <2>3. CASE answer'[r].code \in {400, 404, 422, 503}
    BY <2>1, <2>2, <2>3, <1>2, <1>5, <1>6 DEF Promise!Reply, Promise!Refusals, Promise!NoAnswer, NoAnswer, Told,
       Promise!Pending, Pending
  <2>4. CASE answer'[r].code = 500
    BY <2>1, <2>4, <1>2, <1>5, <1>6 DEF Promise!Reply, Promise!NoAnswer, NoAnswer, Told, Promise!Pending, Pending
  <2>5. QED
    BY <1>7, <1>9, <2>3, <2>4
<1>10. QED
  BY <1>8, <1>9

(* Receive is the abstract submission. *)
LEMMA ReceiveSubmits ==
  ASSUME IInv, NEW r \in Requests, Receive(r)
  PROVE  Promise!Submit(r)
<1>1. order[r] = NoOrder /\ UNCHANGED <<balance, txs>>
  BY DEF Receive, IInv, OrdersKnown, dbVars
<1>2. \E o \in Orders : order' = [order EXCEPT ![r] = o]
  BY DEF Receive
<1>3. UNCHANGED answer \/ answer' = [answer EXCEPT ![r] = Told(400, {})]
  BY DEF Receive, Answer
<1>4. QED
  BY <1>1, <1>2, <1>3 DEF Promise!Submit, Told, Promise!Told

(* A crash is the loss of every request in progress. *)
LEMMA CrashLoses == IInv /\ Crash => Promise!Lose
<1> SUFFICES ASSUME IInv, Crash PROVE Promise!Lose
  OBVIOUS
<1>1. InFlight \in SUBSET {r \in Requests : order[r] # NoOrder /\ answer[r] = NoAnswer}
  BY DEF InFlight, IInv, OrdersKnown
<1>2. answer' = [r \in Requests |-> IF r \in InFlight THEN Told(Reset, {}) ELSE answer[r]]
      /\ UNCHANGED <<order, balance, txs>>
  BY DEF Crash, dbVars
<1>3. QED
  BY <1>1, <1>2 DEF Promise!Lose, Promise!Told, Told, Promise!Reset, Reset, Promise!NoAnswer, NoAnswer,
     Promise!Pending, Pending

-----------------------------------------------------------------------------
(* Theorems *)

(* Type correctness of the transfer service. *)
THEOREM Typing == Spec => []TypeOK
  BY Invariance, PTL DEF IInv

(* The service never waits for itself in PostgreSQL: sorted row locks, then *)
(* the key.                                                                 *)
THEOREM DeadlockFreedom ==
  ASSUME NEW m \in Nat, \A a \in Accounts : a <= m
  PROVE  Spec => []NoDeadlock
<1>1. IInv => NoDeadlock
  BY WaitsEnd
<1>2. QED
  BY <1>1, Invariance, PTL

(* Whatever fails, a request has a bounded number of steps ahead of it and  *)
(* every step of the service uses one up: retries, timeouts and crashes     *)
(* never keep processTransaction going round.                               *)
THEOREM RequestsRunOut ==
  Spec => AlwaysNearer /\ [](\A r \in Requests : StepsLeft(r) \in 0..(16 * MaxAttempts))
<1> DEFINE Bounded == \A r \in Requests : StepsLeft(r) \in 0..(16 * MaxAttempts)
<1>1. IInv => Bounded
  <2> SUFFICES ASSUME IInv, NEW r \in Requests PROVE StepsLeft(r) \in 0..(16 * MaxAttempts)
    OBVIOUS
  <2>1. attempt[r] \in 1..MaxAttempts /\ Distance(pc[r]) \in 0..15
    BY DistanceBounded DEF IInv, TypeOK
  <2>2. QED
    BY <2>1, TransfersAssumption DEF StepsLeft
<1>2. IInv /\ [Next]_vars =>
        [ /\ \A r \in Requests : StepsLeft(r)' <= StepsLeft(r)
          /\ \E r \in Requests : StepsLeft(r)' < StepsLeft(r) ]_vars
  BY StepsLeftFalls DEF IInv
<1>3. QED
  BY <1>1, <1>2, Invariance, PTL DEF Spec, AlwaysNearer

(* As long as requests are in flight one of them is held up by nobody, for  *)
(* no row, key or connection: the timeouts are not what keeps the service   *)
(* going.                                                                   *)
THEOREM SomeoneAlwaysMoves ==
  ASSUME NEW m \in Nat, \A a \in Accounts : a <= m
  PROVE  Spec => []SomeoneMoves
<1>1. IInv => SomeoneMoves
  BY WaitsEnd, OneIsFree
<1>2. QED
  BY <1>1, Invariance, PTL

(* One key pays once, and a request pays once, under every race, crash,     *)
(* retry and lost acknowledgement of processTransaction.                    *)
THEOREM PaysOnce == Spec => [](AtMostOncePerKey /\ PaidOnce)
  BY Invariance, PTL DEF IInv

(* The conditional debit and the row locks keep committed balances from     *)
(* going below zero.                                                        *)
THEOREM Solvency == Spec => []NoOverdraft
  BY Invariance, PTL DEF IInv

(* The transactions table explains every balance to the cent, whatever      *)
(* interleaving of commits, rollbacks, retries and crashes led there.       *)
THEOREM LedgerExplains == Spec => []LedgerExplainsBalances
<1>1. Init => Ledger
  <2> SUFFICES ASSUME Init PROVE Ledger
    OBVIOUS
  <2>1. txs = {} /\ balance = Opening
    BY DEF Init
  <2>2. Moved({}) = 0
    BY SumEmpty DEF Moved, SumFunction
  <2>3. \A a \in Accounts : {t \in txs : t.order.dst = a} = {} /\ {t \in txs : t.order.src = a} = {}
    BY <2>1
  <2>4. QED
    BY <2>1, <2>2, <2>3, FS_EmptySet, TransfersAssumption DEF Ledger, LedgerExplainsBalances
<1>2. Ledger => LedgerExplainsBalances
  BY DEF Ledger
<1>3. QED
  BY <1>1, <1>2, LedgerStep, Invariance, PTL DEF Spec

(* Money is neither made nor lost: over any finite set of accounts the      *)
(* committed balances always add up to what was opened.                     *)
THEOREM Conservation ==
  ASSUME IsFiniteSet(Accounts)
  PROVE  Spec => [](SumFunction(balance) = SumFunction(Opening))
<1> DEFINE Conserved == SumFunction(balance) = SumFunction(Opening)
<1>1. Init => Conserved
  BY DEF Init
<1>2. IInv /\ Conserved /\ [Next]_vars => Conserved'
  <2> SUFFICES ASSUME IInv, Conserved, [Next]_vars PROVE SumFunction(balance') = SumFunction(balance)
    OBVIOUS
  <2>1. ASSUME NEW r \in Requests, CommitStep(r) PROVE SumFunction(balance') = SumFunction(balance)
    <3>1. DOMAIN balance = Accounts /\ DOMAIN balance' = Accounts /\ \A a \in Accounts : balance[a] \in Int
      BY <2>1 DEF IInv, TypeOK, CommitStep, ApplyWrites
    <3>2. /\ order[r].src \in Accounts /\ order[r].dst \in Accounts /\ order[r].src # order[r].dst
          /\ order[r].amt \in Int
          /\ balance'[order[r].src] = balance[order[r].src] - order[r].amt
          /\ balance'[order[r].dst] = balance[order[r].dst] + order[r].amt
          /\ \A a \in Accounts \ {order[r].src, order[r].dst} : balance'[a] = balance[a]
      BY <2>1, CommitEffect DEF OrderType
    <3>3. \A a \in Accounts : balance'[a] \in Int
      BY <3>1, <3>2
    <3>4. SumFunctionOnSet(balance', Accounts) = SumFunctionOnSet(balance, Accounts)
      BY <3>1, <3>2, <3>3, SumMoves
    <3>5. QED
      BY <3>1, <3>4 DEF SumFunction
  <2>2. UNCHANGED balance \/ \E r \in Requests : CommitStep(r)
    <3>1. ASSUME NEW r \in Requests, Step(r) PROVE UNCHANGED balance \/ CommitStep(r)
      BY <3>1, StepShared DEF IInv, dbVars
    <3>2. Crash \/ UNCHANGED vars => UNCHANGED balance
      BY DEF Crash, vars, dbVars
    <3>3. QED
      BY <3>1, <3>2 DEF Next, Step
  <2>3. QED
    BY <2>1, <2>2
<1>3. QED
  BY <1>1, <1>2, Invariance, PTL DEF Spec

(* The outbox and the transactions table never disagree: no dual write.     *)
THEOREM NoDualWrite == Spec => []OutboxMatchesLedger
  BY Invariance, PTL DEF IInv

(* What the HTTP answer says of the money is true when it is given and      *)
(* stays true.                                                              *)
THEOREM Honesty == Spec => []AnswersAreTrue
  BY Invariance, PTL DEF IInv

(* No connection, row lock or uncommitted write outlives its session, and   *)
(* the loser of a key race finds the row that beat it.                      *)
THEOREM SessionsEnd == Spec => [](NothingLeaks /\ WinnerExists)
<1>1. IInv => NothingLeaks /\ WinnerExists
  BY DEF IInv, LoserHasWinner, WinnerExists
<1>2. QED
  BY <1>1, Invariance, PTL

(* The service implements the endpoint's promise: every step of the code is *)
(* an abstract submission, payment, reply or loss, or none.                 *)
THEOREM Implementation == Spec => ImplementsPromise
<1>1. Init => Promise!Init
  BY DEF Init, Promise!Init, NoAnswer, Promise!NoAnswer, Told, Pending, Promise!Pending
<1>2. IInv /\ [Next]_vars => [Promise!Next]_(Promise!vars)
  <2> SUFFICES ASSUME IInv, [Next]_vars PROVE [Promise!Next]_(Promise!vars)
    OBVIOUS
  <2>1. ASSUME NEW r \in Requests, Step(r) PROVE [Promise!Next]_(Promise!vars)
    <3>1. CASE Receive(r)
      BY <3>1, ReceiveSubmits DEF Promise!Next
    <3>2. CASE CommitStep(r)
      BY <3>2, CommitPays DEF Promise!Next
    <3>3. CASE ~ Receive(r) /\ UNCHANGED dbVars /\ answer' # answer
      BY <2>1, <3>3, AnswerReplies DEF Promise!Next
    <3>4. CASE ~ Receive(r) /\ UNCHANGED dbVars /\ answer' = answer
      <4>1. order' = order
        BY <2>1, <3>4 DEF Step, Progress, Lookup, Connect, LockRow, Validate, Debit, Credit, InsertTx, InsertOutbox,
           Commit, CommitUnacknowledged, Finish, StatementFails, LockTimeout, Rollback, AcquireFails, SeekWinner,
           Retry, GiveUp, Winner
      <4>2. QED
        BY <3>4, <4>1 DEF Promise!vars, dbVars
    <3>5. QED
      BY <2>1, <3>1, <3>2, <3>3, <3>4, StepShared DEF IInv
  <2>2. CASE Crash
    BY <2>2, CrashLoses DEF Promise!Next
  <2>3. CASE UNCHANGED vars
    BY <2>3 DEF vars, dbVars, Promise!vars
  <2>4. QED
    BY <2>1, <2>2, <2>3 DEF Next, Step
<1>3. QED
  BY <1>1, <1>2, Invariance, PTL DEF Spec, ImplementsPromise, Promise!Spec
=============================================================================
