---------------------------- MODULE AIAdvisorInv ----------------------------
(* What the advisor must keep, and the invariant that carries the proofs.    *)
EXTENDS AIAdvisor

Recommendations ==
  [engine : {"gemini", "rules"}, type : VALID_TYPES, title : Nat,
   confidenceScore : Int \union {NaN}, risk : {"LOW", "MEDIUM", "HIGH", None},
   needsClientConfirmation : BOOLEAN]

(* Type invariant: a deadline only exists while it is being assigned, and no *)
(* cooldown is longer than GEMINI_COOLDOWN_SECONDS.                          *)
TypeOK ==
  /\ key \in BOOLEAN
  /\ left \in 0..Cooldown
  /\ unanswered \in Int
  /\ pc \in [Threads -> PCs]
  /\ tx \in [Threads -> Transactions \union {None}]
  /\ result \in [Threads -> Recommendations \union {None}]
  /\ deadline \in [Threads -> 0..Cooldown]
  /\ age \in 0..Cooldown
  /\ late \in [Threads -> Nat]
  /\ \A t \in Threads : /\ deadline[t] > 0 => pc[t] = "opening"
                        /\ pc[t] = "idle" <=> tx[t] = None
                        /\ pc[t] = "done" <=> result[t] # None

(* "tras un 429, timeout o 5xx no se vuelve a llamar a Gemini" (line 55), as *)
(* far as threads that were past the check allow: while the circuit is open  *)
(* each thread sends at most the request it was about to send and its one    *)
(* retry, however many analyses it runs.                                     *)
FewLateRequests == left > 0 => \A t \in Threads : late[t] <= 2

(* ... "durante GEMINI_COOLDOWN_SECONDS": the circuit is never open longer   *)
(* than the cooldown after the last failure any thread has seen, whatever    *)
(* the order in which deadlines are computed and assigned.                   *)
NoLongerThanCooldown == left > 0 => left + age <= Cooldown

(* A cooldown ends although analyses keep coming and Gemini keeps failing    *)
(* (a skipped call is no failure).                                           *)
CircuitCloses == []<>(left = 0)

(* What /health and /model-info count: every analysis that was started is    *)
(* counted as a success or a fallback once, when it has its result.          *)
CountersAddUp ==
  unanswered = Cardinality({t \in Threads : pc[t] \notin {"idle", "done"}})

(* Every recommendation is one the backend and its table accept: a type of   *)
(* the enum and a title that is not empty and fits its column.               *)
MeetsContract ==
  \A t \in Threads : result[t] # None =>
    /\ result[t].type \in VALID_TYPES
    /\ result[t].title \in 1..MAX_TITLE_LENGTH

(* "confidenceScore en [0,1]" (docstring of _validate_gemini_result).        *)
ConfidenceInRange ==
  \A t \in Threads : result[t] # None => result[t].confidenceScore \in 0..10

Alarm(risk) == IF risk = "HIGH" THEN 2 ELSE IF risk = "MEDIUM" THEN 1 ELSE 0

(* "primero la regla de mayor riesgo" (line 280): of two amounts taken from  *)
(* the same balance, the rules give the larger no smaller alarm.             *)
LargerIsNoSafer ==
  \A t \in Threads : pc[t] = "done" /\ result[t].engine = "rules" =>
    \A x \in Transactions :
      Before(x) = Before(tx[t]) /\ x.amount >= tx[t].amount =>
        Alarm(Rule(x).risk) >= Alarm(result[t].risk)

-----------------------------------------------------------------------------
(* Where a result comes from.                                                *)
ResultsMade ==
  \A t \in Threads : pc[t] = "done" =>
    \/ result[t] = Rule(tx[t])
    \/ \E answer \in GeminiAnswers : Acceptable(answer) /\ result[t] = Validated(answer)

(* The inductive invariant: a thread that passed the check before the        *)
(* circuit opened has two requests left, one that waits has one; a deadline  *)
(* not yet assigned is no later than the last failure allows.                *)
IInv ==
  /\ TypeOK
  /\ ResultsMade
  /\ left > 0 => left + age <= Cooldown
  /\ \A t \in Threads : deadline[t] > 0 => deadline[t] + age <= Cooldown
  /\ left > 0 => \A t \in Threads :
                   /\ late[t] <= 2
                   /\ pc[t] = "call" => late[t] = 0
                   /\ pc[t] = "sent" => late[t] <= 1

-----------------------------------------------------------------------------
(* What a thread that is past the check still owes: its request, the one     *)
(* without thinkingConfig, and a deadline.                                   *)
Due(t) ==
  IF pc[t] = "call" THEN 4 ELSE IF pc[t] = "sent" THEN 3 ELSE
  IF pc[t] = "resent" THEN 2 ELSE IF pc[t] = "opening" THEN 1 ELSE 0

(* Why a cooldown ends: while the circuit is open nobody passes the check,   *)
(* so nothing new is owed, and the cooldown is only ever prolonged by a      *)
(* thread that has then less to do.                                          *)
ProlongedByOldRequests ==
  [][left > 0 => /\ \A t \in Threads : Due(t)' <= Due(t)
                 /\ left' > left => \E t \in Threads : Due(t)' < Due(t)]_vars
=============================================================================
