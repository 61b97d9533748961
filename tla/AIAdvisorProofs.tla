-------------------------- MODULE AIAdvisorProofs ---------------------------
(* Proofs about the advisor, for any number of threads, any transactions,    *)
(* any answers of Gemini and any cooldown.                                   *)
EXTENDS AIAdvisorInv, FiniteSetTheorems, TLAPS

(* What Gemini's score becomes is a number, if it may be NaN.                *)
LEMMA ConfidenceType ==
  ASSUME NEW answer \in GeminiAnswers
  PROVE  /\ Confidence(answer) \in 0..10 \union {NaN}
         /\ answer.confidenceScore # NaN => Confidence(answer) \in 0..10
<1> DEFINE raw == IF answer.confidenceScore = NoConfidence THEN 5 ELSE answer.confidenceScore
<1>1. raw \in Int \union {NaN} /\ (raw = NaN <=> answer.confidenceScore = NaN)
  BY AdvisorAssumption
<1>2. Confidence(answer) = PyMin(PyMax(raw, 0), 10)
  BY DEF Confidence, LOW_CONFIDENCE_DEFAULT
<1> HIDE DEF raw
<1>3. CASE raw = NaN
  <2>1. PyMax(raw, 0) = NaN
    BY <1>3 DEF PyMax, Less
  <2>2. PyMin(PyMax(raw, 0), 10) = NaN
    BY <2>1 DEF PyMin, Less
  <2> QED BY <1>1, <1>2, <1>3, <2>2
<1>4. CASE raw \in Int
  <2>1. raw # NaN /\ 0 # NaN /\ 10 # NaN
    BY <1>4, AdvisorAssumption
  <2>2. PyMax(raw, 0) \in Nat
    BY <1>4, <2>1 DEF PyMax, Less
  <2>3. PyMax(raw, 0) # NaN
    BY <2>2, AdvisorAssumption
  <2>4. PyMin(PyMax(raw, 0), 10) \in 0..10
    BY <2>1, <2>2, <2>3 DEF PyMin, Less
  <2> QED BY <1>2, <2>4
<1> QED BY <1>1, <1>3, <1>4

(* An answer that passes _validate_gemini_result is a recommendation.        *)
LEMMA ValidatedType ==
  ASSUME NEW answer \in GeminiAnswers, Acceptable(answer)
  PROVE  /\ Validated(answer) \in Recommendations
         /\ Validated(answer).type \in VALID_TYPES
         /\ Validated(answer).title \in 1..MAX_TITLE_LENGTH
<1>1. answer.type \in VALID_TYPES /\ answer.title \in Nat
  BY AdvisorAssumption DEF Acceptable
<1>2. Title(answer) \in 1..150
  BY <1>1 DEF Title, DEFAULT_TITLE_LENGTH, MAX_TITLE_LENGTH
<1>3. Confidence(answer) \in Int \union {NaN}
  BY ConfidenceType
<1>4. Less(Confidence(answer), LOW_CONFIDENCE_THRESHOLD) \in BOOLEAN
  BY DEF Less
<1> HIDE DEF VALID_TYPES
<1> QED BY <1>1, <1>2, <1>3, <1>4 DEF Validated, Recommendations, MAX_TITLE_LENGTH

(* The rules always give a recommendation.                                   *)
LEMMA RuleType ==
  ASSUME NEW x \in Transactions
  PROVE  /\ Rule(x) \in Recommendations
         /\ Rule(x).type \in VALID_TYPES
         /\ Rule(x).title \in 1..MAX_TITLE_LENGTH
<1>1. TypeByCategory(x.category) \in VALID_TYPES
  BY DEF TypeByCategory, VALID_TYPES
<1>2. x.amount \in Nat
  BY AdvisorAssumption
<1>3. ASSUME NEW type \in VALID_TYPES, NEW risk \in {"LOW", "MEDIUM", "HIGH"}
      PROVE  /\ Rec(type, risk) \in Recommendations
             /\ Rec(type, risk).type \in VALID_TYPES
             /\ Rec(type, risk).title \in 1..MAX_TITLE_LENGTH
  BY <1>3 DEF Rec, Recommendations, DEFAULT_TITLE_LENGTH, MAX_TITLE_LENGTH, RULE_CONFIDENCE
<1>4. "FRAUD_WARNING" \in VALID_TYPES /\ "SPENDING_ALERT" \in VALID_TYPES
  BY DEF VALID_TYPES
<1>5. \/ Rule(x) = Rec("FRAUD_WARNING", "HIGH")
      \/ Rule(x) = Rec("SPENDING_ALERT", "MEDIUM")
      \/ Rule(x) = Rec(TypeByCategory(x.category), "LOW")
  BY <1>2 DEF Rule
<1> QED BY <1>1, <1>3, <1>4, <1>5

(* A step of a thread that leaves the circuit breaker alone.                 *)
LEMMA ThreadStep ==
  ASSUME IInv, NEW t \in Threads, pc[t] # "opening",
         NEW to \in PCs \ {"opening"}, pc' = [pc EXCEPT ![t] = to],
         UNCHANGED <<key, left, deadline, age>>, unanswered' \in Int,
         tx' \in [Threads -> Transactions \union {None}],
         \A u \in Threads \ {t} : tx'[u] = tx[u],
         to = "idle" <=> tx'[t] = None,
         result' \in [Threads -> Recommendations \union {None}],
         \A u \in Threads \ {t} : result'[u] = result[u],
         to = "done" <=> result'[t] # None,
         to = "done" => \/ result'[t] = Rule(tx'[t])
                        \/ \E answer \in GeminiAnswers :
                             Acceptable(answer) /\ result'[t] = Validated(answer),
         late' \in [Threads -> Nat],
         \A u \in Threads \ {t} : late'[u] = late[u],
         left > 0 => /\ late'[t] <= 2
                     /\ to = "call" => late'[t] = 0
                     /\ to = "sent" => late'[t] <= 1
  PROVE  IInv'
<1>1. /\ pc' \in [Threads -> PCs] /\ pc'[t] = to
      /\ \A u \in Threads \ {t} : pc'[u] = pc[u]
  BY DEF IInv, TypeOK
<1>2. TypeOK'
  <2>1. /\ deadline[t] = 0
        /\ \A u \in Threads : deadline[u] > 0 => pc[u] = "opening"
    BY DEF IInv, TypeOK
  <2> QED BY <1>1, <2>1 DEF IInv, TypeOK
<1>3. ResultsMade'
  <2> SUFFICES ASSUME NEW u \in Threads, pc'[u] = "done"
               PROVE  \/ result'[u] = Rule(tx'[u])
                      \/ \E answer \in GeminiAnswers :
                           Acceptable(answer) /\ result'[u] = Validated(answer)
    BY DEF ResultsMade, Acceptable, Validated, Confidence, Title, PyMin, PyMax, Less, Rule, Rec, TakesTenths, Before
  <2>1. CASE u = t
    BY <2>1, <1>1
  <2>2. CASE u # t
    <3>1. pc[u] = "done" /\ result'[u] = result[u] /\ tx'[u] = tx[u]
      BY <2>2, <1>1
    <3> QED BY <3>1 DEF IInv, ResultsMade
  <2> QED BY <2>1, <2>2
<1>4. left' > 0 => \A u \in Threads :
                     /\ late'[u] <= 2
                     /\ pc'[u] = "call" => late'[u] = 0
                     /\ pc'[u] = "sent" => late'[u] <= 1
  <2> SUFFICES ASSUME left > 0, NEW u \in Threads
               PROVE  /\ late'[u] <= 2
                      /\ pc'[u] = "call" => late'[u] = 0
                      /\ pc'[u] = "sent" => late'[u] <= 1
    OBVIOUS
  <2>1. CASE u = t
    BY <2>1, <1>1
  <2>2. CASE u # t
    BY <2>2, <1>1 DEF IInv
  <2> QED BY <2>1, <2>2
<1> QED BY <1>2, <1>3, <1>4 DEF IInv
(* Every step keeps the invariant.                                           *)
LEMMA Step == IInv /\ [Next]_vars => IInv'
<1> SUFFICES ASSUME IInv, [Next]_vars PROVE IInv'
  OBVIOUS
<1>0. CASE UNCHANGED vars
  BY <1>0 DEF vars, advisor, history, IInv, TypeOK, ResultsMade
<1>1. CASE Tick
  <2>1. /\ left' \in 0..Cooldown /\ left' <= left /\ (left' > 0 => left' = left - 1)
        /\ age' \in 0..Cooldown /\ age' <= age + 1
        /\ UNCHANGED <<key, unanswered, pc, tx, result, late>>
    BY <1>1, AdvisorAssumption DEF Tick, Less1, IInv, TypeOK
  <2>2. /\ deadline' \in [Threads -> 0..Cooldown]
        /\ \A t \in Threads : deadline'[t] > 0 => deadline'[t] = deadline[t] - 1
    BY <1>1, AdvisorAssumption DEF Tick, Less1, IInv, TypeOK
  <2>3. \A t \in Threads : deadline[t] \in Int
    BY DEF IInv, TypeOK
  <2>4. TypeOK'
    <3>1. \A t \in Threads : deadline'[t] > 0 => pc[t] = "opening"
      BY <2>2, <2>3 DEF IInv, TypeOK
    <3> QED BY <2>1, <2>2, <3>1 DEF IInv, TypeOK
  <2>5. ResultsMade'
    BY <2>1 DEF IInv, ResultsMade
  <2>6. \A t \in Threads : deadline'[t] > 0 => deadline'[t] + age' <= Cooldown
    BY <2>1, <2>2, <2>3, AdvisorAssumption DEF IInv, TypeOK
  <2>7. left' > 0 => left' + age' <= Cooldown
    BY <2>1, AdvisorAssumption DEF IInv, TypeOK
  <2>8. left' > 0 => left > 0
    BY <2>1 DEF IInv, TypeOK
  <2> QED BY <2>1, <2>4, <2>5, <2>6, <2>7, <2>8 DEF IInv
<1>2. ASSUME NEW t \in Threads, Analyze(t) \/ Progress(t)
      PROVE  IInv'
  <2> USE <1>2
  <2>0. /\ pc[t] \in PCs /\ late[t] \in Nat /\ unanswered \in Int
        /\ tx \in [Threads -> Transactions \union {None}]
        /\ result \in [Threads -> Recommendations \union {None}]
        /\ late \in [Threads -> Nat]
        /\ pc[t] = "idle" <=> tx[t] = None
        /\ pc[t] = "done" <=> result[t] # None
        /\ left > 0 => /\ late[t] <= 2
                       /\ pc[t] = "call" => late[t] = 0
                       /\ pc[t] = "sent" => late[t] <= 1
    BY DEF IInv, TypeOK
  <2>1. CASE Analyze(t)
    <3>1. PICK x \in Transactions : tx' = [tx EXCEPT ![t] = x]
      BY <2>1 DEF Analyze
    <3>2. x # None
      BY AdvisorAssumption
    <3>3. /\ pc' = [pc EXCEPT ![t] = "check"] /\ pc[t] = "idle"
          /\ UNCHANGED <<key, left, result, deadline, age, late>> /\ unanswered' \in Int
      BY <2>0, <2>1 DEF Analyze, Move, history
    <3>4. /\ tx' \in [Threads -> Transactions \union {None}] /\ tx'[t] # None
          /\ \A u \in Threads \ {t} : tx'[u] = tx[u]
      BY <2>0, <3>1, <3>2
    <3> QED BY <2>0, <3>3, <3>4, ThreadStep DEF PCs
  <2>2. CASE Skip(t)
    BY <2>0, <2>2, ThreadStep DEF Skip, Move, advisor, history, PCs
  <2>3. CASE Admit(t)
    <3>1. /\ pc' = [pc EXCEPT ![t] = "call"] /\ pc[t] = "check" /\ left = 0
          /\ UNCHANGED <<key, left, unanswered, tx, result, deadline, age, late>>
      BY <2>3 DEF Admit, Move, advisor, history
    <3>2. left > 0 => /\ late'[t] <= 2
                      /\ "call" = "call" => late'[t] = 0
                      /\ "call" = "sent" => late'[t] <= 1
      BY <3>1
    <3>3. pc[t] # "opening" /\ unanswered' \in Int /\ "call" \in PCs \ {"opening"}
      BY <2>0, <3>1 DEF PCs
    <3>4. /\ tx' \in [Threads -> Transactions \union {None}]
          /\ \A u \in Threads \ {t} : tx'[u] = tx[u]
          /\ "call" = "idle" <=> tx'[t] = None
          /\ result' \in [Threads -> Recommendations \union {None}]
          /\ \A u \in Threads \ {t} : result'[u] = result[u]
          /\ "call" = "done" <=> result'[t] # None
      BY <2>0, <3>1
    <3>5. late' \in [Threads -> Nat] /\ \A u \in Threads \ {t} : late'[u] = late[u]
      BY <2>0, <3>1
    <3> QED BY <3>1, <3>2, <3>3, <3>4, <3>5, ThreadStep
  <2>4. CASE Call(t) \/ CallAgain(t)
    <3>1. /\ UNCHANGED <<key, left, deadline, age, unanswered, tx, result>>
          /\ late' = [late EXCEPT ![t] = IF left > 0 THEN late[t] + 1 ELSE late[t]]
      BY <2>4 DEF Call, CallAgain, NoteIfLate, advisor
    <3>2. /\ late' \in [Threads -> Nat]
          /\ \A u \in Threads \ {t} : late'[u] = late[u]
          /\ left > 0 => late'[t] = late[t] + 1
      BY <2>0, <3>1
    <3>3. CASE Call(t)
      <4>1. pc' = [pc EXCEPT ![t] = "sent"] /\ pc[t] = "call"
        BY <3>3 DEF Call, Move
      <4>2. left > 0 => /\ late'[t] <= 2
                        /\ "sent" = "call" => late'[t] = 0
                        /\ "sent" = "sent" => late'[t] <= 1
        BY <2>0, <3>2, <4>1
      <4>3. pc[t] # "opening" /\ unanswered' \in Int /\ "sent" \in PCs \ {"opening"}
        BY <2>0, <3>1, <4>1 DEF PCs
      <4>4. /\ tx' \in [Threads -> Transactions \union {None}]
            /\ \A u \in Threads \ {t} : tx'[u] = tx[u]
            /\ "sent" = "idle" <=> tx'[t] = None
            /\ result' \in [Threads -> Recommendations \union {None}]
            /\ \A u \in Threads \ {t} : result'[u] = result[u]
            /\ "sent" = "done" <=> result'[t] # None
        BY <2>0, <3>1, <4>1
      <4> QED BY <3>1, <3>2, <4>1, <4>2, <4>3, <4>4, ThreadStep
    <3>4. CASE CallAgain(t)
      <4>1. pc' = [pc EXCEPT ![t] = "resent"] /\ pc[t] = "sent"
        BY <3>4 DEF CallAgain, Move
      <4>2. left > 0 => late'[t] <= 2
        BY <2>0, <3>2, <4>1
      <4> QED BY <2>0, <3>1, <3>2, <4>1, <4>2, ThreadStep DEF PCs
    <3> QED BY <2>4, <3>3, <3>4
  <2>5. CASE Accept(t)
    <3>1. PICK answer \in GeminiAnswers :
            Acceptable(answer) /\ result' = [result EXCEPT ![t] = Validated(answer)]
      BY <2>5 DEF Accept
    <3>2. Validated(answer) \in Recommendations /\ Validated(answer) # None
      BY <3>1, ValidatedType, AdvisorAssumption DEF Recommendations
    <3>3. /\ pc' = [pc EXCEPT ![t] = "done"] /\ pc[t] \in {"sent", "resent"}
          /\ UNCHANGED <<key, left, tx, deadline, age, late>> /\ unanswered' \in Int
      BY <2>0, <2>5 DEF Accept, Waits, Then, history
    <3>4. /\ result' \in [Threads -> Recommendations \union {None}]
          /\ result'[t] = Validated(answer)
          /\ \A u \in Threads \ {t} : result'[u] = result[u]
      BY <2>0, <3>1, <3>2
    <3> QED BY <2>0, <3>1, <3>2, <3>3, <3>4, ThreadStep DEF PCs
  <2>6. CASE Refuse(t) \/ Fail(t)
    BY <2>0, <2>6, ThreadStep DEF Refuse, Fail, Waits, Then, advisor, history, PCs
  <2>7. CASE Fallback(t)
    <3>1. tx[t] \in Transactions
      BY <2>0, <2>7 DEF Fallback, Move
    <3>2. Rule(tx[t]) \in Recommendations /\ Rule(tx[t]) # None
      BY <3>1, RuleType, AdvisorAssumption DEF Recommendations
    <3>3. /\ result' \in [Threads -> Recommendations \union {None}]
          /\ result'[t] = Rule(tx[t])
          /\ \A u \in Threads \ {t} : result'[u] = result[u]
      BY <2>0, <2>7, <3>2 DEF Fallback
    <3>4. /\ pc' = [pc EXCEPT ![t] = "done"] /\ pc[t] = "rules"
          /\ UNCHANGED <<key, left, tx, deadline, age, late>> /\ unanswered' \in Int
      BY <2>0, <2>7 DEF Fallback, Move, history
    <3> QED BY <2>0, <3>2, <3>3, <3>4, ThreadStep DEF PCs
  <2>8. CASE Return(t)
    BY <2>0, <2>8, ThreadStep DEF Return, Move, advisor, history, PCs
  <2>9. CASE FailHard(t)
    <3>1. /\ pc' = [pc EXCEPT ![t] = "opening"] /\ pc[t] \in {"sent", "resent"}
          /\ deadline' = [deadline EXCEPT ![t] = Cooldown] /\ age' = 0
          /\ UNCHANGED <<key, left, unanswered, tx, result, late>>
      BY <2>9 DEF FailHard, Waits, Then, advisor
    <3>2. /\ pc' \in [Threads -> PCs] /\ pc'[t] = "opening"
          /\ \A u \in Threads \ {t} : pc'[u] = pc[u]
          /\ deadline' \in [Threads -> 0..Cooldown]
          /\ \A u \in Threads \ {t} : deadline'[u] = deadline[u]
      BY <3>1, AdvisorAssumption DEF IInv, TypeOK, PCs
    <3>3. TypeOK'
      BY <3>1, <3>2, AdvisorAssumption DEF IInv, TypeOK
    <3>4. ResultsMade'
      BY <3>1, <3>2 DEF IInv, ResultsMade
    <3>5. \A u \in Threads : deadline'[u] > 0 => deadline'[u] + age' <= Cooldown
      BY <3>1, <3>2, AdvisorAssumption
    <3>6. left' > 0 => left' + age' <= Cooldown
      BY <3>1, AdvisorAssumption DEF IInv, TypeOK
    <3>7. \A u \in Threads : pc'[u] \in {"call", "sent"} => pc'[u] = pc[u]
      BY <3>2
    <3> QED BY <3>1, <3>3, <3>4, <3>5, <3>6, <3>7 DEF IInv
  <2>10. CASE OpenCircuit(t)
    <3>1. /\ pc' = [pc EXCEPT ![t] = "rules"] /\ pc[t] = "opening"
          /\ left' = deadline[t] /\ deadline' = [deadline EXCEPT ![t] = 0]
          /\ late' = IF left = 0 /\ deadline[t] > 0 THEN [u \in Threads |-> 0] ELSE late
          /\ UNCHANGED <<key, unanswered, tx, result, age>>
      BY <2>10 DEF OpenCircuit, Move, Opens
    <3>2. /\ pc' \in [Threads -> PCs] /\ pc'[t] = "rules"
          /\ \A u \in Threads \ {t} : pc'[u] = pc[u]
          /\ deadline[t] \in 0..Cooldown
          /\ deadline' \in [Threads -> 0..Cooldown] /\ deadline'[t] = 0
          /\ \A u \in Threads \ {t} : deadline'[u] = deadline[u]
      BY <3>1, AdvisorAssumption DEF IInv, TypeOK, PCs
    <3>3. late' \in [Threads -> Nat]
      BY <2>0, <3>1
    <3>4. TypeOK'
      BY <3>1, <3>2, <3>3 DEF IInv, TypeOK
    <3>5. ResultsMade'
      BY <3>1, <3>2 DEF IInv, ResultsMade
    <3>6. \A u \in Threads : deadline'[u] > 0 => deadline'[u] + age' <= Cooldown
      BY <3>1, <3>2 DEF IInv
    <3>7. left' > 0 => left' + age' <= Cooldown
      BY <3>1 DEF IInv
    <3>8. left' > 0 => \A u \in Threads : /\ late'[u] <= 2
                                          /\ pc'[u] = "call" => late'[u] = 0
                                          /\ pc'[u] = "sent" => late'[u] <= 1
      <4>1. CASE left = 0
        BY <4>1, <3>1
      <4>2. CASE left > 0
        <5>1. late' = late
          BY <4>2, <3>1
        <5>2. \A u \in Threads : pc'[u] \in {"call", "sent"} => pc'[u] = pc[u]
          BY <3>2
        <5> QED BY <4>2, <5>1, <5>2 DEF IInv
      <4>3. left \in 0..Cooldown
        BY DEF IInv, TypeOK
      <4> QED BY <4>1, <4>2, <4>3, AdvisorAssumption
    <3> QED BY <3>4, <3>5, <3>6, <3>7, <3>8 DEF IInv
  <2> QED
    BY <2>1, <2>2, <2>3, <2>4, <2>5, <2>6, <2>7, <2>8, <2>9, <2>10 DEF Progress
<1> QED BY <1>0, <1>1, <1>2 DEF Next

(* The invariant holds in every reachable state.                             *)
THEOREM Invariance == Spec => []IInv
<1>1. Init => IInv
  BY AdvisorAssumption DEF Init, IInv, TypeOK, ResultsMade, PCs
<1> QED BY <1>1, Step, PTL DEF Spec

(* The advisor's variables keep their types: no cooldown is longer than      *)
(* GEMINI_COOLDOWN_SECONDS.                                                  *)
THEOREM Typing == Spec => []TypeOK
BY Invariance, PTL DEF IInv

(* While the circuit is open a thread sends Gemini two requests at most.     *)
THEOREM FewRequests == Spec => []FewLateRequests
<1>1. IInv => FewLateRequests
  BY DEF IInv, FewLateRequests
<1> QED BY <1>1, Invariance, PTL

(* No order of computing and assigning deadlines makes a cooldown outlast    *)
(* its failure.                                                              *)
THEOREM CooldownBounded == Spec => []NoLongerThanCooldown
<1>1. IInv => NoLongerThanCooldown
  BY DEF IInv, NoLongerThanCooldown
<1> QED BY <1>1, Invariance, PTL

(* A cooldown cannot be prolonged for ever: while the circuit is open each   *)
(* OpenCircuit uses up a request that was admitted before, and no request is *)
(* admitted (the safety half of CircuitCloses).                              *)
THEOREM CooldownsRunOut ==
  Spec => ProlongedByOldRequests /\ [](\A t \in Threads : Due(t) \in 0..4)
<1> DEFINE Kept == \A t \in Threads : Due(t)' <= Due(t)
           Paid == \E t \in Threads : Due(t)' < Due(t)
           Bounded == \A t \in Threads : Due(t) \in 0..4
<1>0. \A t \in Threads : Due(t) \in 0..4 /\ Due(t)' \in 0..4
  BY DEF Due
<1>1. Bounded
  BY <1>0
<1>2. IInv /\ [Next]_vars => [left > 0 => Kept /\ (left' > left => Paid)]_vars
  <2> SUFFICES ASSUME IInv, [Next]_vars, left > 0
               PROVE  Kept /\ (left' > left => Paid)
    OBVIOUS
  <2>1. ASSUME pc' = pc, left' \in Int, left' <= left PROVE Kept /\ (left' > left => Paid)
    <3>1. Kept
      BY <2>1, <1>0 DEF Due
    <3>2. left \in Int
      BY AdvisorAssumption DEF IInv, TypeOK
    <3> QED BY <2>1, <3>1, <3>2
  <2>2. ASSUME NEW t \in Threads, Analyze(t) \/ Progress(t)
        PROVE  Kept /\ (left' > left => Paid)
    <3>1. \A u \in Threads \ {t} : pc'[u] = pc[u]
      BY <2>2 DEF IInv, TypeOK, Analyze, Progress, Skip, Admit, Call, CallAgain, Accept, Refuse,
                  Fail, FailHard, OpenCircuit, Fallback, Return, Move, Then
    <3>2. Due(t)' <= Due(t) /\ (left' = left \/ Due(t)' < Due(t))
      <4>1. CASE Analyze(t) \/ Skip(t) \/ Admit(t) \/ Fallback(t) \/ Return(t)
        BY <4>1 DEF IInv, TypeOK, Analyze, Skip, Admit, Fallback, Return, Move, Due, advisor
      <4>2. CASE Call(t) \/ CallAgain(t)
        BY <4>2 DEF IInv, TypeOK, Call, CallAgain, Move, Due, advisor
      <4>3. CASE Accept(t) \/ Refuse(t) \/ Fail(t) \/ FailHard(t)
        BY <4>3 DEF IInv, TypeOK, Accept, Refuse, Fail, FailHard, Waits, Then, Due, advisor
      <4>4. CASE OpenCircuit(t)
        BY <4>4 DEF IInv, TypeOK, OpenCircuit, Move, Due
      <4> QED BY <2>2, <4>1, <4>2, <4>3, <4>4 DEF Progress
    <3>3. Kept
      <4> TAKE u \in Threads
      <4>1. CASE u = t
        BY <4>1, <3>2
      <4>2. CASE u # t
        BY <4>2, <3>1, <1>0 DEF Due
      <4> QED BY <4>1, <4>2
    <3>4. left' > left => Paid
      <4>1. left \in Int
        BY AdvisorAssumption DEF IInv, TypeOK
      <4> QED BY <3>2, <4>1
    <3> QED BY <3>3, <3>4
  <2>3. CASE Tick
    <3>1. pc' = pc /\ left' \in Int /\ left' <= left
      BY <2>3, AdvisorAssumption DEF Tick, Less1, IInv, TypeOK
    <3> QED BY <3>1, <2>1
  <2>4. CASE UNCHANGED vars
    <3>1. pc' = pc /\ left' \in Int /\ left' <= left
      BY <2>4, AdvisorAssumption DEF vars, advisor, IInv, TypeOK
    <3> QED BY <3>1, <2>1
  <2> QED BY <2>2, <2>3, <2>4 DEF Next
<1> QED BY <1>1, <1>2, Invariance, PTL DEF Spec, ProlongedByOldRequests

(* Only a result that is about to be returned is looked at below.            *)
LEMMA ResultMade ==
  ASSUME IInv, NEW t \in Threads, result[t] # None
  PROVE  /\ pc[t] = "done" /\ tx[t] \in Transactions
         /\ \/ result[t] = Rule(tx[t])
            \/ \E answer \in GeminiAnswers : Acceptable(answer) /\ result[t] = Validated(answer)
<1>1. pc[t] = "done"
  BY DEF IInv, TypeOK
<1>2. tx[t] \in Transactions
  BY <1>1 DEF IInv, TypeOK
<1> QED BY <1>1, <1>2 DEF IInv, ResultsMade

(* Whatever Gemini answers, the backend is given a type of its enum and a    *)
(* title that fits the column.                                               *)
THEOREM Contract == Spec => []MeetsContract
<1>1. IInv => MeetsContract
  BY ResultMade, RuleType, ValidatedType DEF MeetsContract
<1> QED BY <1>1, Invariance, PTL

(* The confidence of a recommendation is in [0,1] if Gemini never answers    *)
(* NaN: that is the only answer that breaks the docstring.                   *)
THEOREM ConfidenceUnlessNaN ==
  ASSUME \A answer \in GeminiAnswers : answer.confidenceScore # NaN
  PROVE  Spec => []ConfidenceInRange
<1>1. IInv => ConfidenceInRange
  <2> SUFFICES ASSUME IInv, NEW t \in Threads, result[t] # None
               PROVE  result[t].confidenceScore \in 0..10
    BY DEF ConfidenceInRange
  <2>1. CASE result[t] = Rule(tx[t])
    BY <2>1 DEF Rule, Rec, RULE_CONFIDENCE
  <2>2. ASSUME NEW answer \in GeminiAnswers, result[t] = Validated(answer)
        PROVE  result[t].confidenceScore \in 0..10
    BY <2>2, ConfidenceType DEF Validated
  <2> QED BY <2>1, <2>2, ResultMade
<1> QED BY <1>1, Invariance, PTL

(* Of two amounts from one balance the larger raises no smaller alarm: the   *)
(* rules are in an order that never lets a smaller threshold hide a larger.  *)
THEOREM NoSafer == Spec => []LargerIsNoSafer
<1>1. IInv => LargerIsNoSafer
  <2> SUFFICES ASSUME IInv, NEW t \in Threads, pc[t] = "done", result[t].engine = "rules",
                      NEW x \in Transactions, Before(x) = Before(tx[t]), x.amount >= tx[t].amount
               PROVE  Alarm(Rule(x).risk) >= Alarm(result[t].risk)
    BY DEF LargerIsNoSafer
  <2>1. result[t] # None
    BY DEF IInv, TypeOK
  <2>2. tx[t] \in Transactions /\ result[t] = Rule(tx[t])
    <3>1. \A answer \in GeminiAnswers : Validated(answer).engine = "gemini"
      BY DEF Validated
    <3> QED BY <2>1, <3>1, ResultMade
  <2>3. /\ x.amount \in Nat /\ tx[t].amount \in Nat
        /\ Before(x) \in Int
    BY <2>2, AdvisorAssumption DEF Before
  <2>4. \A y \in Transactions :
          Rule(y).risk = IF y.amount >= 5000 THEN "HIGH" ELSE IF TakesTenths(y, 3) THEN "MEDIUM" ELSE "LOW"
    BY DEF Rule, Rec
  <2>5. TakesTenths(tx[t], 3) => TakesTenths(x, 3)
    BY <2>3 DEF TakesTenths
  <2>6. tx[t].amount >= 5000 => x.amount >= 5000
    BY <2>3
  <2> QED BY <2>2, <2>4, <2>5, <2>6 DEF Alarm
<1> QED BY <1>1, Invariance, PTL

(* Every analysis is counted once, when it has its result: what the          *)
(* counters leave open is the number of analyses under way.                  *)
THEOREM Counting == Spec => []CountersAddUp
<1> DEFINE UnderWay == {t \in Threads : pc[t] \notin {"idle", "done"}}
<1>1. Init => CountersAddUp
  <2> SUFFICES ASSUME Init PROVE CountersAddUp
    OBVIOUS
  <2>1. UnderWay = {}
    BY DEF Init
  <2> QED BY <2>1, FS_EmptySet DEF Init, CountersAddUp
<1>2. IInv /\ CountersAddUp /\ [Next]_vars => CountersAddUp'
  <2> SUFFICES ASSUME IInv, CountersAddUp, [Next]_vars PROVE CountersAddUp'
    OBVIOUS
  <2>0. /\ pc \in [Threads -> PCs] /\ unanswered = Cardinality(UnderWay)
        /\ IsFiniteSet(UnderWay)
    BY AdvisorAssumption, FS_Subset DEF IInv, TypeOK, CountersAddUp
  <2> SUFFICES unanswered' = Cardinality(UnderWay')
    BY DEF CountersAddUp
  <2>1. CASE UNCHANGED vars \/ Tick
    BY <2>0, <2>1 DEF vars, advisor, Tick
  <2>2. ASSUME NEW t \in Threads, Analyze(t)
        PROVE  unanswered' = Cardinality(UnderWay')
    <3>1. pc[t] = "idle" /\ pc' = [pc EXCEPT ![t] = "check"] /\ unanswered' = unanswered + 1
      BY <2>2 DEF Analyze, Move
    <3>2. UnderWay' = UnderWay \union {t} /\ t \notin UnderWay
      BY <2>0, <3>1
    <3> QED BY <2>0, <3>1, <3>2, FS_AddElement
  <2>3. ASSUME NEW t \in Threads, Accept(t) \/ Fallback(t)
        PROVE  unanswered' = Cardinality(UnderWay')
    <3>1. /\ pc[t] \in {"sent", "resent", "rules"} /\ pc' = [pc EXCEPT ![t] = "done"]
          /\ unanswered' = unanswered - 1
      BY <2>3 DEF Accept, Fallback, Move, Waits, Then
    <3>2. UnderWay' = UnderWay \ {t} /\ t \in UnderWay
      BY <2>0, <3>1
    <3> QED BY <2>0, <3>1, <3>2, FS_RemoveElement
  <2>4. ASSUME NEW t \in Threads,
               \/ Skip(t) \/ Admit(t) \/ Call(t) \/ CallAgain(t) \/ Refuse(t)
               \/ Fail(t) \/ FailHard(t) \/ OpenCircuit(t) \/ Return(t)
        PROVE  unanswered' = Cardinality(UnderWay')
    <3>1. PICK to \in PCs : /\ pc' = [pc EXCEPT ![t] = to]
                            /\ pc[t] \in {"idle", "done"} <=> to \in {"idle", "done"}
      BY <2>4 DEF Skip, Admit, Call, CallAgain, Refuse, Fail, FailHard, OpenCircuit,
                  Return, Move, Waits, Then, PCs
    <3>2. unanswered' = unanswered
      BY <2>4 DEF Skip, Admit, Call, CallAgain, Refuse, Fail, FailHard, OpenCircuit, Return, advisor
    <3>3. UnderWay' = UnderWay
      BY <2>0, <3>1
    <3> QED BY <2>0, <3>2, <3>3
  <2> QED BY <2>1, <2>2, <2>3, <2>4 DEF Next, Progress
<1> QED BY <1>1, <1>2, Invariance, PTL DEF Spec
=============================================================================
