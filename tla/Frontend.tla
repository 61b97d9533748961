------------------------------ MODULE Frontend ------------------------------
(***************************************************************************)
(* The browser: App.tsx with its poll and its selected account, the dialog *)
(* TransferModal.tsx and api.ts, as clients of the transfer endpoint.  The *)
(* endpoint is what IdempotentPayments promises, which Transfers keeps.    *)
(*                                                                         *)
(* The dialog's content is mounted anew each time it is opened: opening    *)
(* number n has the Idempotency-Key n.  Request r is the r-th POST.        *)
(***************************************************************************)
EXTENDS Integers, FiniteSets

CONSTANTS
  Accounts,      \* account numbers that the API returns, in order
  Active,        \* those a transfer may use
  Opening,       \* opening balances, in cents
  Drafts,        \* what the user may have in the form: [src, dst, amt]
  Malformed,     \* an amount that AMOUNT_PATTERN does not accept
  Clicked,       \* bound: the accounts that the user selects
  NoAccount,     \* nothing is selected
  NoKey, NoOrder,
  MaxForms,      \* bound: times the dialog is opened
  MaxPosts,      \* bound: POSTs sent
  Loads,         \* bound: calls of loadData under way at a time
  MaxFailures    \* bound: fetches that the network fails

VARIABLES
  order, balance, txs, answer,  \* the endpoint, see IdempotentPayments
  forms,         \* times the dialog was opened; the last is the current key
  isOpen,        \* isTransferModalOpen
  isLoading,     \* of the open dialog: its button is disabled
  post,          \* the opening a POST comes from, and App's state it has captured
  waiting,       \* POSTs whose answer the browser waits for
  succeeded,     \* POSTs whose answer became a successResult
  ready,         \* App has finished or failed a first loadData
  selected,      \* selectedAccount
  shown,         \* the transactions on the screen
  load,          \* calls of loadData
  failures

api      == <<order, balance, txs, answer>>
dialog   == <<forms, isOpen, isLoading>>
requests == <<post, waiting, succeeded>>
screen   == <<ready, selected, shown>>
vars     == <<api, dialog, requests, screen, load, failures>>

Requests    == 1..MaxPosts
MaxAttempts == 1

(* What handleSubmit checks before it sends anything.                        *)
Valid(draft) == draft.amt # Malformed /\ draft.amt > 0 /\ draft.src # draft.dst

Body(draft, k) == [src |-> draft.src, dst |-> draft.dst, amt |-> draft.amt, key |-> k]
Orders == {Body(d, k) : d \in {x \in Drafts : Valid(x)}, k \in 1..MaxForms}

Payments == INSTANCE IdempotentPayments

ASSUME FrontendAssumption ==
  /\ Accounts \subseteq Nat /\ Accounts # {} /\ Active \subseteq Accounts
  /\ Opening \in [Accounts -> Nat]
  /\ \A d \in Drafts : d.amt \in Nat \union {Malformed}
  /\ Clicked \subseteq Accounts
  /\ NoAccount \notin Accounts /\ NoKey \notin Nat /\ NoOrder \notin Orders
  /\ MaxForms \in Nat /\ MaxPosts \in Nat /\ MaxFailures \in Nat

(* The first account in the order of findAll().                             *)
FirstAccount == CHOOSE a \in Accounts : \A b \in Accounts : a <= b

Idle == [stage |-> "idle", sees |-> NoAccount, read |-> {}]
Asked(account) == [stage |-> "asked", sees |-> account, read |-> {}]

Init ==
  /\ Payments!Init
  /\ forms = 0 /\ isOpen = FALSE /\ isLoading = FALSE
  /\ post = [r \in Requests |-> [from |-> 0, sees |-> NoAccount]]
  /\ waiting = {} /\ succeeded = {}
  /\ ready = FALSE /\ selected = NoAccount /\ shown = {}
  /\ load = [l \in Loads |-> Idle]
  /\ failures = 0

-----------------------------------------------------------------------------
(* App: loadData and the selection *)

(* A call of loadData by a render in which selectedAccount was `account`.    *)
StartLoad(account) ==
  \E l \in Loads : /\ load[l] = Idle
                   /\ load' = [load EXCEPT ![l] = Asked(account)]

PollOnce ==  \* mutant: no interval
  /\ ~ready
  /\ StartLoad(NoAccount)
  /\ UNCHANGED <<api, dialog, requests, screen, failures>>

(* useEffect and its interval: the loadData of the first render, in which    *)
(* nothing was selected.                                                     *)
Poll == StartLoad(NoAccount) /\ UNCHANGED <<api, dialog, requests, screen, failures>>

(* "Actualizar": the loadData of the current render.                         *)
Refresh ==
  /\ ready
  /\ StartLoad(selected)
  /\ UNCHANGED <<api, dialog, requests, screen, failures>>

(* The backend reads the tables, at a time of its own.                       *)
Read(l) ==
  /\ load[l].stage = "asked"
  /\ load' = [load EXCEPT ![l] = [@ EXCEPT !.stage = "read", !.read = txs]]
  /\ UNCHANGED <<api, dialog, requests, screen, failures>>

LoadEnds(l) ==
  /\ load[l].stage = "read"
  /\ selected' = IF load[l].sees = NoAccount THEN FirstAccount ELSE load[l].sees
  /\ shown' = load[l].read
  /\ ready' = TRUE
  /\ load' = [load EXCEPT ![l] = Idle]
  /\ UNCHANGED <<api, dialog, requests, failures>>

LoadFails(l) ==
  /\ load[l] # Idle
  /\ failures < MaxFailures
  /\ failures' = failures + 1
  /\ ready' = TRUE
  /\ load' = [load EXCEPT ![l] = Idle]
  /\ UNCHANGED <<api, dialog, requests, selected, shown>>

Select(account) ==
  /\ selected # NoAccount
  /\ selected' = account
  /\ UNCHANGED <<api, dialog, requests, ready, shown, load, failures>>

-----------------------------------------------------------------------------
(* TransferModal *)

OpenForm ==
  /\ ready /\ ~isOpen
  /\ forms < MaxForms
  /\ forms' = forms + 1
  /\ isOpen' = TRUE /\ isLoading' = FALSE
  /\ UNCHANGED <<api, requests, screen, load, failures>>

KeyPerPost == 1 + Cardinality({r \in Requests : post[r].from # 0})  \* mutant: a key for each try

KeyPerApp == 1  \* mutant: one key for all openings

(* One key for each opening, used again when the user tries again.           *)
Key == forms

(* The form offers accounts once some load has brought them.                 *)
Submit(r) ==
  /\ isOpen /\ ~isLoading
  /\ selected # NoAccount
  /\ post[r].from = 0 /\ \A q \in 1..(r - 1) : post[q].from # 0
  /\ \E draft \in Drafts :
       /\ Valid(draft)
       /\ order' = [order EXCEPT ![r] = Body(draft, Key)]
  /\ post' = [post EXCEPT ![r] = [from |-> forms, sees |-> selected]]
  /\ waiting' = waiting \union {r}
  /\ isLoading' = TRUE
  /\ UNCHANGED <<balance, txs, answer, forms, isOpen, succeeded, screen, load, failures>>

Unmount == isOpen' = FALSE /\ isLoading' = FALSE

CloseForm ==
  /\ isOpen
  /\ Unmount
  /\ UNCHANGED <<api, forms, requests, screen, load, failures>>

(* setSuccessResult and onSuccess: the dialog that is open now closes,       *)
(* whichever opening the answer belongs to.                                  *)
Success(r) ==
  /\ r \in waiting
  /\ answer[r].code = 201
  /\ waiting' = waiting \ {r}
  /\ succeeded' = succeeded \union {r}
  /\ Unmount
  /\ StartLoad(post[r].sees)
  /\ UNCHANGED <<api, forms, post, screen, failures>>

FailWithoutFinally(r) ==  \* mutant: setIsLoading(false) only on success
  /\ waiting' = waiting \ {r}
  /\ UNCHANGED <<api, forms, isOpen, isLoading, post, succeeded, screen, load>>

(* The catch block and finally: the message is shown and the button works    *)
(* again, if the content that has sent r is still mounted.                   *)
Fail(r) ==
  /\ waiting' = waiting \ {r}
  /\ isLoading' = (isLoading /\ post[r].from # forms)
  /\ UNCHANGED <<api, forms, isOpen, post, succeeded, screen, load>>

ErrorAnswer(r) ==
  /\ r \in waiting
  /\ answer[r].code \notin {Payments!Pending, 201}
  /\ Fail(r)
  /\ UNCHANGED failures

(* fetch rejects; the backend may still be working on the order, or be done. *)
FetchFails(r) ==
  /\ r \in waiting
  /\ failures < MaxFailures
  /\ failures' = failures + 1
  /\ Fail(r)

-----------------------------------------------------------------------------
(* The endpoint.  The dialog treats every error alike: one code stands for   *)
(* the refusals, and 500 for an order that may have been paid.               *)
Serve(r) ==
  /\ Payments!Pay(r) \/ (Payments!Reply(r) /\ answer'[r].code \in {201, 500})
  /\ UNCHANGED <<dialog, requests, screen, load, failures>>

Loading(l) == Read(l) \/ LoadEnds(l) \/ LoadFails(l)
Posting(r) == Submit(r) \/ Success(r) \/ ErrorAnswer(r) \/ FetchFails(r) \/ Serve(r)

Next ==
  \/ Poll \/ Refresh \/ OpenForm \/ CloseForm
  \/ \E account \in Clicked : Select(account)
  \/ \E l \in Loads : Loading(l)
  \/ \E r \in Requests : Posting(r)

Spec == Init /\ [][Next]_vars

(* The interval fires and every load that it starts is served; the endpoint  *)
(* answers and the browser passes the answer on.                             *)
Fairness ==
  /\ WF_vars(Poll)
  /\ \A l \in Loads : WF_vars(Read(l)) /\ WF_vars(LoadEnds(l))
  /\ \A r \in Requests : WF_vars(Serve(r)) /\ WF_vars(Success(r)) /\ WF_vars(ErrorAnswer(r))

FairSpec == Spec /\ Fairness
=============================================================================
