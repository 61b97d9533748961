----------------------------- MODULE MCTransfers ----------------------------
(* Small instances of Transfers: accounts 1 and 2 are ordinary, 3 is        *)
(* blocked, 4 is in another currency, 9 has no row.                         *)
EXTENDS TransfersInv, TLC

MCAccounts   == {1, 2}
MCOpening    == [a \in MCAccounts |-> 100]
MCCurrencyOf == [a \in MCAccounts |-> "USD"]

Ask(s, d, m, k) == [src |-> s, dst |-> d, amt |-> m, cur |-> NoCurrency, key |-> k, ai |-> TRUE]

(* Three accounts, each paying the next; the first payment has no key, is   *)
(* synthetic and could be made twice, the second is funded only by the      *)
(* first, and the third uses the key of the second.                         *)
RingAccounts   == {1, 2, 3}
RingOpening    == [a \in RingAccounts |-> 100]
RingCurrencyOf == [a \in RingAccounts |-> "USD"]
ContendedRing ==
  {[Ask(1, 2, 40, NoKey) EXCEPT !.ai = FALSE], Ask(2, 3, 130, "k"), Ask(3, 1, 40, "k")}

(* One payment under one key, for more than half of what the source has.    *)
LargeRace == {Ask(1, 2, 60, "k")}

AllAccounts   == {1, 2, 3, 4}
OrdinaryAccounts == {1, 2, 4}
AllOpening    == [a \in AllAccounts |-> 100]
AllCurrencyOf == [a \in AllAccounts |-> IF a = 4 THEN "EUR" ELSE "USD"]
RefusedOrders ==
  {Ask(1, 1, 10, NoKey), Ask(1, 9, 10, "k"), Ask(9, 1, 10, NoKey), Ask(3, 1, 10, NoKey),
   Ask(1, 3, 10, NoKey), Ask(1, 4, 10, NoKey), [Ask(1, 2, 10, NoKey) EXCEPT !.cur = "EUR"],
   Ask(1, 2, 110, NoKey), Ask(1, 2, 10, "k")}

Symmetry == Permutations(Requests)
=============================================================================
