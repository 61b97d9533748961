---------------------------- MODULE FrontendInv -----------------------------
(* What the browser must keep, and the invariant that carries the proofs.    *)
EXTENDS Frontend

Form(r) == post[r].from

(* Type invariant.  A spinner belongs to an open dialog, a POST to an opening *)
(* that took place, and the answer that a success came from is a 201.         *)
TypeOK ==
  /\ order \in [Requests -> Orders \union {NoOrder}]
  /\ balance \in [Accounts -> Int]
  /\ \A t \in txs : t.by \in Requests
  /\ answer \in [Requests -> [code : {0, 201, 500}, paid : SUBSET txs]]
  /\ forms \in 0..MaxForms
  /\ isOpen \in BOOLEAN /\ isLoading \in BOOLEAN
  /\ isOpen => forms # 0
  /\ isLoading => isOpen
  /\ post \in [Requests -> [from : 0..MaxForms, sees : Accounts \union {NoAccount}]]
  /\ \A r \in Requests : Form(r) <= forms
  /\ waiting \subseteq {r \in Requests : Form(r) # 0}
  /\ succeeded \subseteq {r \in Requests : answer[r].code = 201}
  /\ ready \in BOOLEAN
  /\ selected \in Accounts \union {NoAccount}
  /\ shown \subseteq txs
  /\ load \in [Loads -> [stage : {"idle", "asked", "read"}, sees : Accounts \union {NoAccount},
                         read : SUBSET txs]]
  /\ failures \in 0..MaxFailures

(* "un doble clic o un reintento de red con la misma clave no genera un       *)
(* segundo debito" (api.ts:52): however often the user tries again, with the  *)
(* old order still under way or with other data, one opening of the dialog    *)
(* pays once.                                                                 *)
OnePaymentPerOpening == \A t, u \in txs : Form(t.by) = Form(u.by) => t = u

(* A success is about this opening: the order that was submitted has been     *)
(* paid, and by a POST of the same opening, never by an earlier intention of  *)
(* the user that looked the same.                                             *)
SuccessIsItsOwn ==
  \A r \in succeeded : \E t \in txs : t.order = order[r] /\ Form(t.by) = Form(r)

(* The button is disabled exactly while the open dialog waits for an answer   *)
(* to its own POST, whatever becomes of the POSTs of dialogs that were closed *)
(* in the meantime.                                                           *)
LoadingMeansWaiting ==
  isLoading <=> isOpen /\ \E r \in waiting : Form(r) = forms

(* The screen catches up with the ledger, although loads overlap, overtake    *)
(* each other and fail, and although a payment may be made by an order whose  *)
(* answer never arrived.                                                      *)
CatchesUp == []<>(shown = txs)

(* "Selecciona una cuenta para auditar movimientos o emitir pagos"            *)
(* (AccountOverview.tsx:45): once there is a selection, the user changes it.  *)
SelectionIsTheUsers ==
  [][(selected # NoAccount /\ selected' # selected) => \E a \in Clicked : Select(a)]_vars

(* A dialog, open or closed, waits for one POST at a time.                    *)
OneWaiting == \A q, r \in waiting : Form(q) = Form(r) => q = r

(* Where orders, payments and answers come from.                              *)
Sent ==
  \A r \in Requests : /\ Form(r) = 0 <=> order[r] = NoOrder
                      /\ Form(r) # 0 => order[r].key = Form(r)

PaymentsKnown == \A t \in txs : t.order = order[t.by] /\ order[t.by] # NoOrder

KeysPayOnce == \A t, u \in txs : t.order.key = u.order.key => t = u

SuccessPaid ==
  \A r \in Requests : answer[r].code = 201 =>
    /\ order[r] # NoOrder
    /\ \E t \in txs : t.order = order[r]

IInv ==
  /\ TypeOK
  /\ LoadingMeansWaiting
  /\ OneWaiting
  /\ Sent
  /\ PaymentsKnown
  /\ KeysPayOnce
  /\ SuccessPaid
=============================================================================
