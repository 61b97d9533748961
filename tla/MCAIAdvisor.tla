---------------------------- MODULE MCAIAdvisor -----------------------------
(* Small instances of AIAdvisor. *)
EXTENDS AIAdvisorInv, TLC

CONSTANTS t1, t2

Of(amount, category, before) ==
  [amount |-> amount, category |-> category, currentBalance |-> before - amount]

(* Every alarm, and two amounts that are both high, of which only one takes  *)
(* three tenths of the balance.                                              *)
FourTransactions ==
  {Of(100, "FOOD", 20000), Of(3000, "SALARY", 10000),
   Of(5500, "OTHER", 20000), Of(7000, "OTHER", 20000)}

Says(type, message, title, score) ==
  [type |-> type, message |-> message, title |-> title, confidenceScore |-> score]

(* No confidence, too sure, NaN, no title, too long a title, one of full     *)
(* length; of no known type, and with a blank message.                       *)
OddAnswers ==
  {Says("SPENDING_ALERT", TRUE, 0, NoConfidence), Says("SAVINGS_ADVICE", TRUE, 151, 15),
   Says("FRAUD_WARNING", TRUE, 150, NaN),
   Says("unknown", TRUE, 10, 8), Says("FRAUD_WARNING", FALSE, 10, 8)}
=============================================================================
