----------------------------- MODULE MCPipeline -----------------------------
(* A payment, its retry under the same key, a payment without a key and a   *)
(* transfer of a load test; the source can pay for one of them.             *)
EXTENDS PipelineInv

MCOpening == [a \in Accounts |-> 30]
Ask(s, d, k, asks) == [src |-> s, dst |-> d, amt |-> 20, key |-> k, ai |-> asks]
PaymentsAndLoad == {Ask(1, 2, "k", TRUE), Ask(1, 2, NoKey, TRUE), Ask(2, 1, NoKey, FALSE)}
=============================================================================
