----------------------------- MODULE MCFrontend -----------------------------
EXTENDS FrontendInv, TLC

TwoAccounts == {1, 2}
Funded == [a \in TwoAccounts |-> 100]

(* Two orders the form sends, and two that it rejects itself.                *)
Drafted == {[src |-> 1, dst |-> 2, amt |-> 10], [src |-> 1, dst |-> 2, amt |-> 20],
            [src |-> 1, dst |-> 1, amt |-> 10],
            [src |-> 1, dst |-> 2, amt |-> Malformed]}
=============================================================================
