------------------------------ MODULE AIAdvisor -----------------------------
(* analyze_transaction of ai-service/advisor.py, called by several threads   *)
(* at once: the consumer's and those that serve /predict-recommendation.     *)
(* One advisor is shared by all; its circuit breaker is read and set without *)
(* a lock, its counters under one.                                           *)
(*                                                                           *)
(* time.time() only enters as a distance from a deadline, so a deadline is   *)
(* kept as the time that is left until it, which Tick uses up: no bound on   *)
(* time is needed. The clock never goes back. Money is in whole dollars,     *)
(* scores and shares in tenths and without rounding.                         *)
EXTENDS Integers, FiniteSets

CONSTANTS
  Threads,       \* threads of the ai-service
  Transactions,  \* the arguments tx_data: amount, category, currentBalance
  GeminiAnswers, \* the JSON objects Gemini may answer
  Cooldown,      \* GEMINI_COOLDOWN_SECONDS
  NaN,           \* float("nan")
  NoConfidence,  \* an answer with no number as confidenceScore
  None           \* the Python None

VALID_TYPES == {"SPENDING_ALERT", "BUDGET_OPTIMIZATION", "INVESTMENT_OPPORTUNITY",
                "SAVINGS_ADVICE", "FRAUD_WARNING"}
MAX_TITLE_LENGTH == 150
DEFAULT_TITLE_LENGTH == 24  \* "Recomendación SmartBancs"
LOW_CONFIDENCE_THRESHOLD == 6
LOW_CONFIDENCE_DEFAULT == 5
RULE_CONFIDENCE == 5

Categories == {"FOOD", "ENTERTAINMENT", "SHOPPING", "SERVICES", "SALARY", "TRANSFER", "OTHER"}

ASSUME AdvisorAssumption ==
  /\ Cooldown \in Nat \ {0}
  /\ NaN \notin Int /\ NoConfidence \notin Int /\ NaN # NoConfidence
  /\ IsFiniteSet(Threads)
  /\ Transactions \subseteq [amount : Nat, category : Categories, currentBalance : Int]
  \* title is the length of what strip() leaves, 0 also for what is no string;
  \* message tells a string that is not blank
  /\ GeminiAnswers \subseteq [type : VALID_TYPES \union {"unknown"}, message : BOOLEAN,
                              title : Nat, confidenceScore : Int \union {NaN, NoConfidence}]
  /\ None \notin Transactions
  /\ None \notin [engine : {"gemini", "rules"}, type : VALID_TYPES, title : Nat,
                  confidenceScore : Int \union {NaN}, risk : {"LOW", "MEDIUM", "HIGH", None},
                  needsClientConfirmation : BOOLEAN]

VARIABLES
  key,        \* gemini_api_key is set
  left,       \* gemini_open_until, as the time left; 0 when it has passed
  unanswered, \* total_inferences - gemini_success_count - fallback_count
  pc,         \* where a thread is in analyze_transaction
  tx,         \* its argument
  result,     \* what it is about to return
  deadline,   \* what _open_circuit has computed and not yet assigned, as the time left
  age,        \* history: time since the last failure was seen, up to Cooldown
  late        \* history: requests sent while the circuit is open, since it opened

advisor == <<key, left, unanswered>>
history == <<age, late>>
vars == <<advisor, pc, tx, result, deadline, history>>

PCs == {"idle", "check", "call", "sent", "resent", "opening", "rules", "done"}

Init ==
  /\ key \in BOOLEAN
  /\ left = 0 /\ unanswered = 0
  /\ pc = [t \in Threads |-> "idle"]
  /\ tx = [t \in Threads |-> None]
  /\ result = [t \in Threads |-> None]
  /\ deadline = [t \in Threads |-> 0]
  /\ age = Cooldown
  /\ late = [t \in Threads |-> 0]

Move(t, from, to) == pc[t] = from /\ pc' = [pc EXCEPT ![t] = to]

-----------------------------------------------------------------------------
(* _validate_gemini_result. Comparisons with NaN are false, and max and min  *)
(* of Python keep their first argument unless the second compares as better. *)
Less(x, y) == x # NaN /\ y # NaN /\ x < y
PyMax(x, y) == IF Less(x, y) THEN y ELSE x
PyMin(x, y) == IF Less(y, x) THEN y ELSE x

Confidence(answer) ==
  PyMin(PyMax(IF answer.confidenceScore = NoConfidence THEN LOW_CONFIDENCE_DEFAULT
              ELSE answer.confidenceScore, 0), 10)

Title(answer) ==
  IF answer.title = 0 THEN DEFAULT_TITLE_LENGTH
  ELSE IF answer.title > MAX_TITLE_LENGTH THEN MAX_TITLE_LENGTH ELSE answer.title

Acceptable(answer) == answer.type \in VALID_TYPES /\ answer.message

(* metadata.riskLevel is passed on as Gemini gives it, if it does.           *)
Validated(answer) ==
  [engine |-> "gemini", type |-> answer.type, title |-> Title(answer),
   confidenceScore |-> Confidence(answer), risk |-> None,
   needsClientConfirmation |-> Less(Confidence(answer), LOW_CONFIDENCE_THRESHOLD)]

(* _heuristic_rule_fallback: a share of the balance before the transaction.  *)
Before(x) == x.currentBalance + x.amount
TakesTenths(x, n) == Before(x) > 0 => 10 * x.amount >= n * Before(x)

TypeByCategory(category) ==
  IF category \in {"FOOD", "ENTERTAINMENT", "SHOPPING", "SERVICES"} THEN "BUDGET_OPTIMIZATION"
  ELSE IF category = "SALARY" THEN "INVESTMENT_OPPORTUNITY" ELSE "SAVINGS_ADVICE"

(* The titles of the rules are short: one length stands for them.           *)
Rec(type, risk) ==
  [engine |-> "rules", type |-> type, title |-> DEFAULT_TITLE_LENGTH,
   confidenceScore |-> RULE_CONFIDENCE, risk |-> risk,
   needsClientConfirmation |-> risk = "HIGH"]

RuleShareFirst(x) ==  \* mutant: the two alarms in the other order
  IF TakesTenths(x, 3) THEN Rec("SPENDING_ALERT", "MEDIUM")
  ELSE IF x.amount >= 5000 THEN Rec("FRAUD_WARNING", "HIGH")
  ELSE Rec(TypeByCategory(x.category), "LOW")

(* The first rule that applies. The ones for salaries and for discretionary  *)
(* spending give what their category gives by default: only the wording      *)
(* tells them apart.                                                         *)
Rule(x) ==
  IF x.amount >= 5000 THEN Rec("FRAUD_WARNING", "HIGH")
  ELSE IF TakesTenths(x, 3) THEN Rec("SPENDING_ALERT", "MEDIUM")
  ELSE Rec(TypeByCategory(x.category), "LOW")

-----------------------------------------------------------------------------
(* analyze_transaction: the call is counted.                                 *)
Analyze(t) ==
  /\ Move(t, "idle", "check")
  /\ \E x \in Transactions : tx' = [tx EXCEPT ![t] = x]
  /\ unanswered' = unanswered + 1
  /\ UNCHANGED <<key, left, result, deadline, history>>

SkipRenews(t) ==  \* mutant: a call that is skipped starts the cooldown anew
  /\ Move(t, "check", "rules")
  /\ ~key \/ left > 0
  /\ left' = IF key THEN Cooldown ELSE left
  /\ UNCHANGED <<key, unanswered, tx, result, deadline, history>>

(* gemini_circuit_open, or no key.                                           *)
Skip(t) ==
  /\ Move(t, "check", "rules")
  /\ ~key \/ left > 0
  /\ UNCHANGED <<advisor, tx, result, deadline, history>>

AdmitAlways(t) ==  \* mutant: the circuit is not consulted
  /\ Move(t, "check", "call")
  /\ key
  /\ UNCHANGED <<advisor, tx, result, deadline, history>>

(* ... is closed; the prompt is yet to be built.                             *)
Admit(t) ==
  /\ Move(t, "check", "call")
  /\ key /\ left = 0
  /\ UNCHANGED <<advisor, tx, result, deadline, history>>

NoteIfLate(t) == late' = [late EXCEPT ![t] = IF left > 0 THEN @ + 1 ELSE @]

Call(t) ==
  /\ Move(t, "call", "sent")
  /\ NoteIfLate(t)
  /\ UNCHANGED <<advisor, tx, result, deadline, age>>

(* HTTP 400 about thinkingConfig: sent once more without it, and without     *)
(* asking the circuit breaker again.                                         *)
CallAgain(t) ==
  /\ Move(t, "sent", "resent")
  /\ NoteIfLate(t)
  /\ UNCHANGED <<advisor, tx, result, deadline, age>>

(* What follows is the answer to either request.                             *)
Waits(t) == pc[t] \in {"sent", "resent"}
Then(t, to) == pc' = [pc EXCEPT ![t] = to]

Accept(t) ==
  /\ Waits(t) /\ Then(t, "done")
  /\ \E answer \in GeminiAnswers :
       /\ Acceptable(answer)
       /\ result' = [result EXCEPT ![t] = Validated(answer)]
  /\ unanswered' = unanswered - 1
  /\ UNCHANGED <<key, left, tx, deadline, history>>

(* An answer the backend would refuse.                                       *)
Refuse(t) ==
  /\ Waits(t) /\ Then(t, "rules")
  /\ \E answer \in GeminiAnswers : ~Acceptable(answer)
  /\ UNCHANGED <<advisor, tx, result, deadline, history>>

(* No JSON object in the answer, another 4xx, no connection: the circuit     *)
(* stays as it is.                                                           *)
Fail(t) ==
  /\ Waits(t) /\ Then(t, "rules")
  /\ UNCHANGED <<advisor, tx, result, deadline, history>>

(* 429, 5xx or a timeout: _open_circuit computes its deadline ...            *)
FailHard(t) ==
  /\ Waits(t) /\ Then(t, "opening")
  /\ deadline' = [deadline EXCEPT ![t] = Cooldown]
  /\ age' = 0
  /\ UNCHANGED <<advisor, tx, result, late>>

Opens(t) == left = 0 /\ deadline[t] > 0

(* ... and assigns it, over what another thread may have assigned since.     *)
OpenCircuit(t) ==
  /\ Move(t, "opening", "rules")
  /\ left' = deadline[t]
  /\ deadline' = [deadline EXCEPT ![t] = 0]
  /\ late' = IF Opens(t) THEN [u \in Threads |-> 0] ELSE late
  /\ UNCHANGED <<key, unanswered, tx, result, age>>

FallbackOnlyOnSkip(t) ==  \* mutant: a request that failed is not counted
  /\ Move(t, "rules", "done")
  /\ result' = [result EXCEPT ![t] = Rule(tx[t])]
  /\ unanswered' = IF left > 0 \/ ~key THEN unanswered - 1 ELSE unanswered
  /\ UNCHANGED <<key, left, tx, deadline, history>>

Fallback(t) ==
  /\ Move(t, "rules", "done")
  /\ result' = [result EXCEPT ![t] = Rule(tx[t])]
  /\ unanswered' = unanswered - 1
  /\ UNCHANGED <<key, left, tx, deadline, history>>

Return(t) ==
  /\ Move(t, "done", "idle")
  /\ tx' = [tx EXCEPT ![t] = None]
  /\ result' = [result EXCEPT ![t] = None]
  /\ UNCHANGED <<advisor, deadline, history>>

-----------------------------------------------------------------------------
Less1(n) == IF n > 0 THEN n - 1 ELSE 0

(* One unit of time passes.                                                  *)
Tick ==
  /\ left' = Less1(left)
  /\ deadline' = [t \in Threads |-> Less1(deadline[t])]
  /\ age' = IF age < Cooldown THEN age + 1 ELSE age
  /\ UNCHANGED <<key, unanswered, pc, tx, result, late>>

Progress(t) ==
  \/ Skip(t) \/ Admit(t) \/ Call(t) \/ CallAgain(t)
  \/ Accept(t) \/ Refuse(t) \/ Fail(t) \/ FailHard(t)
  \/ OpenCircuit(t) \/ Fallback(t) \/ Return(t)

Next == Tick \/ \E t \in Threads : Analyze(t) \/ Progress(t)

Spec == Init /\ [][Next]_vars

(* A thread that runs goes on, a request ends by its timeout at the latest,  *)
(* and time passes. Nobody has to call the advisor.                          *)
FairSpec == Spec /\ WF_vars(Tick) /\ \A t \in Threads : WF_vars(Progress(t))
=============================================================================
