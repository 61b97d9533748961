--------------------------- MODULE FrontendProofs ---------------------------
(* Proofs about the browser, for any number of openings, POSTs, loads and    *)
(* network failures, any accounts and whatever the user types.               *)
EXTENDS FrontendInv, WellFoundedInduction, TLAPS

(* An order that the form sends is typed and has a key.                      *)
LEMMA OrdersType ==
  ASSUME NEW o \in Orders
  PROVE  /\ o = [src |-> o.src, dst |-> o.dst, amt |-> o.amt, key |-> o.key]
         /\ o.amt \in Nat /\ o.key \in 1..MaxForms /\ o.key # NoKey
<1>1. PICK d \in {x \in Drafts : Valid(x)}, k \in 1..MaxForms : o = Body(d, k)
  BY DEF Orders
<1>2. d.amt \in Nat
  BY <1>1, FrontendAssumption DEF Valid
<1>3. k # NoKey
  BY FrontendAssumption
<1> QED BY <1>1, <1>2, <1>3 DEF Body

(* There is a first account.                                                 *)
LEMMA FirstAccountType == FirstAccount \in Accounts
<1>1. \E a \in Accounts : \A b \in Accounts : a <= b
  <2>1. Accounts \subseteq Nat /\ Accounts # {}
    BY FrontendAssumption
  <2>2. PICK a \in Accounts : \A b \in Accounts : ~ (<<b, a>> \in OpToRel(<, Nat))
    BY <2>1, WFMin, NatLessThanWellFounded
  <2>3. \A b \in Accounts : ~ (b < a)
    BY <2>1, <2>2 DEF OpToRel
  <2> QED BY <2>1, <2>3
<1> QED BY <1>1 DEF FirstAccount

(* The initial state.                                                        *)
LEMMA Start == Init => IInv
<1> SUFFICES ASSUME Init PROVE IInv
  OBVIOUS
<1>1. /\ order = [r \in Requests |-> NoOrder] /\ balance = Opening /\ txs = {}
      /\ answer = [r \in Requests |-> [code |-> 0, paid |-> {}]]
  BY DEF Init, Payments!Init, Payments!NoAnswer, Payments!Pending
<1>2. /\ forms = 0 /\ isOpen = FALSE /\ isLoading = FALSE /\ waiting = {} /\ succeeded = {}
      /\ post = [r \in Requests |-> [from |-> 0, sees |-> NoAccount]]
      /\ ready = FALSE /\ selected = NoAccount /\ shown = {} /\ failures = 0
      /\ load = [l \in Loads |-> Idle]
  BY DEF Init
<1>3. TypeOK
  <2>1. balance \in [Accounts -> Int] /\ MaxForms \in Nat /\ MaxFailures \in Nat
    BY <1>1, FrontendAssumption
  <2>2. load \in [Loads -> [stage : {"idle", "asked", "read"}, sees : Accounts \union {NoAccount},
                            read : SUBSET txs]]
    BY <1>1, <1>2 DEF Idle
  <2>3. answer \in [Requests -> [code : {0, 201, 500}, paid : SUBSET txs]]
    BY <1>1
  <2>4. post \in [Requests -> [from : 0..MaxForms, sees : Accounts \union {NoAccount}]]
    BY <1>2, <2>1
  <2>5. \A r \in Requests : Form(r) = 0
    BY <1>2 DEF Form
  <2>6. order \in [Requests -> Orders \union {NoOrder}]
    BY <1>1
  <2>7. forms \in 0..MaxForms /\ failures \in 0..MaxFailures /\ \A r \in Requests : Form(r) <= forms
    BY <1>2, <2>1, <2>5
  <2>8. /\ isOpen \in BOOLEAN /\ isLoading \in BOOLEAN /\ ready \in BOOLEAN
        /\ isOpen => forms # 0
        /\ isLoading => isOpen
    BY <1>2
  <2>9. /\ waiting = {} /\ succeeded = {} /\ shown = {} /\ txs = {} /\ selected = NoAccount
    BY <1>1, <1>2
  <2> QED BY <2>1, <2>2, <2>3, <2>4, <2>6, <2>7, <2>8, <2>9, Zenon DEF TypeOK
<1>4. LoadingMeansWaiting /\ OneWaiting /\ Sent /\ PaymentsKnown /\ KeysPayOnce /\ SuccessPaid
  BY <1>1, <1>2 DEF LoadingMeansWaiting, OneWaiting, Sent, PaymentsKnown, KeysPayOnce, SuccessPaid, Form
<1> QED BY <1>3, <1>4 DEF IInv

(* Starting a load keeps the table of loads typed.                           *)
LEMMA StartLoadType ==
  ASSUME TypeOK, NEW account \in Accounts \union {NoAccount}, StartLoad(account)
  PROVE  load' \in [Loads -> [stage : {"idle", "asked", "read"},
                              sees : Accounts \union {NoAccount}, read : SUBSET txs]]
<1>1. Asked(account) \in [stage : {"idle", "asked", "read"},
                          sees : Accounts \union {NoAccount}, read : SUBSET txs]
  BY DEF Asked
<1> QED BY <1>1 DEF TypeOK, StartLoad

(* A step of App alone touches neither the endpoint nor the dialog.          *)
LEMMA AppStep ==
  ASSUME IInv, UNCHANGED <<api, dialog, requests>>,
         ready' \in BOOLEAN, selected' \in Accounts \union {NoAccount}, shown' \subseteq txs,
         load' \in [Loads -> [stage : {"idle", "asked", "read"},
                              sees : Accounts \union {NoAccount}, read : SUBSET txs]],
         failures' \in 0..MaxFailures
  PROVE  IInv'
<1>1. UNCHANGED <<order, balance, txs, answer, forms, isOpen, isLoading, post, waiting, succeeded>>
  BY DEF api, dialog, requests
<1>2. TypeOK'
  BY <1>1 DEF IInv, TypeOK, Form
<1>3. LoadingMeansWaiting' /\ OneWaiting' /\ Sent' /\ PaymentsKnown' /\ KeysPayOnce' /\ SuccessPaid'
  BY <1>1 DEF IInv, LoadingMeansWaiting, OneWaiting, Sent, PaymentsKnown, KeysPayOnce, SuccessPaid, Form
<1> QED BY <1>2, <1>3 DEF IInv

LEMMA AppSteps ==
  ASSUME IInv,
         \/ Poll \/ Refresh
         \/ \E account \in Clicked : Select(account)
         \/ \E l \in Loads : Loading(l)
  PROVE  IInv'
<1>0. /\ TypeOK
      /\ load \in [Loads -> [stage : {"idle", "asked", "read"},
                             sees : Accounts \union {NoAccount}, read : SUBSET txs]]
      /\ ready \in BOOLEAN /\ selected \in Accounts \union {NoAccount} /\ shown \subseteq txs
      /\ failures \in 0..MaxFailures
  BY DEF IInv, TypeOK
<1>i. Idle \in [stage : {"idle", "asked", "read"},
                sees : Accounts \union {NoAccount}, read : SUBSET txs]
  BY DEF Idle
<1>1. CASE Poll
  BY <1>0, <1>1, StartLoadType, AppStep DEF Poll, screen
<1>2. CASE Refresh
  BY <1>0, <1>2, StartLoadType, AppStep DEF Refresh, screen
<1>3. ASSUME NEW account \in Clicked, Select(account) PROVE IInv'
  <2>1. account \in Accounts
    BY FrontendAssumption
  <2> QED BY <1>0, <1>3, <2>1, AppStep DEF Select
<1>4. ASSUME NEW l \in Loads, Read(l) PROVE IInv'
  BY <1>0, <1>4, AppStep DEF Read, screen
<1>5. ASSUME NEW l \in Loads, LoadEnds(l) PROVE IInv'
  <2>1. load[l].sees \in Accounts \union {NoAccount} /\ load[l].read \subseteq txs
    BY <1>0
  <2>2. selected' \in Accounts
    BY <1>5, <2>1, FirstAccountType DEF LoadEnds
  <2> QED BY <1>0, <1>i, <1>5, <2>1, <2>2, AppStep DEF LoadEnds
<1>6. ASSUME NEW l \in Loads, LoadFails(l) PROVE IInv'
  <2>1. failures' \in 0..MaxFailures
    BY <1>0, <1>6, FrontendAssumption DEF LoadFails
  <2> QED BY <1>0, <1>i, <1>6, <2>1, AppStep DEF LoadFails
<1> QED BY <1>1, <1>2, <1>3, <1>4, <1>5, <1>6 DEF Loading

(* Opening and closing the dialog.                                           *)
LEMMA DialogSteps ==
  ASSUME IInv, OpenForm \/ CloseForm
  PROVE  IInv'
<1>0. /\ UNCHANGED <<order, balance, txs, answer, post, waiting, succeeded, ready, selected,
                       shown, load, failures>>
      /\ isLoading' = FALSE
  BY DEF OpenForm, CloseForm, Unmount, api, requests, screen
<1>1. /\ forms \in 0..MaxForms /\ waiting \subseteq Requests
      /\ \A r \in Requests : Form(r) \in 0..MaxForms /\ Form(r) <= forms
  BY DEF IInv, TypeOK, Form
<1>2. /\ forms' \in 0..MaxForms /\ forms' >= forms /\ isOpen' \in BOOLEAN
      /\ isOpen' => forms' > forms
  <2>1. CASE OpenForm
    <3>1. forms < MaxForms /\ forms' = forms + 1 /\ isOpen' = TRUE
      BY <2>1 DEF OpenForm
    <3>2. forms' \in 0..MaxForms /\ forms' >= forms /\ forms' > forms
      BY <1>1, <3>1, FrontendAssumption
    <3> QED BY <3>1, <3>2
  <2>2. CASE CloseForm
    <3>1. forms' = forms /\ isOpen' = FALSE
      BY <2>2 DEF CloseForm, Unmount
    <3>2. forms' \in 0..MaxForms /\ forms' >= forms
      BY <1>1, <3>1, FrontendAssumption
    <3> QED BY <3>1, <3>2
  <2> QED BY <2>1, <2>2
<1>3. TypeOK'
  <2>1. \A r \in Requests : Form(r)' <= forms'
    BY <1>0, <1>1, <1>2, FrontendAssumption DEF Form
  <2>2. /\ isOpen' => forms' # 0
        /\ isLoading' => isOpen'
    BY <1>0, <1>1, <1>2, FrontendAssumption
  <2>3. waiting' \subseteq {r \in Requests : Form(r)' # 0} /\ \A t \in txs' : t.by \in Requests
    BY <1>0 DEF IInv, TypeOK, Form
  <2>4. isLoading' \in BOOLEAN
    BY <1>0
  <2> QED BY <1>0, <1>2, <2>1, <2>2, <2>3, <2>4 DEF IInv, TypeOK
<1>4. LoadingMeansWaiting'
  <2>1. \A r \in waiting : Form(r)' <= forms /\ Form(r)' \in Int
    BY <1>0, <1>1 DEF Form
  <2>2. isOpen' => \A r \in waiting : Form(r)' # forms'
    BY <1>1, <1>2, <2>1, FrontendAssumption
  <2> QED BY <1>0, <2>2 DEF LoadingMeansWaiting
<1>5. OneWaiting' /\ Sent' /\ PaymentsKnown' /\ KeysPayOnce' /\ SuccessPaid'
  BY <1>0 DEF IInv, OneWaiting, Sent, PaymentsKnown, KeysPayOnce, SuccessPaid, Form
<1> QED BY <1>3, <1>4, <1>5 DEF IInv

(* Sending an order.                                                         *)
LEMMA SubmitStep ==
  ASSUME IInv, NEW r \in Requests, Submit(r)
  PROVE  IInv' /\ order[r] = NoOrder /\ order'[r] \in Orders
<1>0. /\ UNCHANGED <<balance, txs, answer, forms, isOpen, succeeded, ready, selected, shown,
                       load, failures>>
      /\ isOpen /\ ~isLoading /\ isLoading' /\ Form(r) = 0
      /\ waiting' = waiting \union {r}
      /\ post' = [post EXCEPT ![r] = [from |-> forms, sees |-> selected]]
  BY DEF Submit, screen, Form
<1>1. PICK draft \in Drafts : Valid(draft) /\ order' = [order EXCEPT ![r] = Body(draft, forms)]
  BY DEF Submit, Key
<1>2. /\ forms \in 1..MaxForms /\ selected \in Accounts \union {NoAccount}
      /\ order \in [Requests -> Orders \union {NoOrder}]
      /\ post \in [Requests -> [from : 0..MaxForms, sees : Accounts \union {NoAccount}]]
      /\ waiting \subseteq {q \in Requests : Form(q) # 0}
      /\ \A q \in Requests : Form(q) <= forms
  <2>1. forms \in 0..MaxForms /\ forms # 0
    BY <1>0 DEF IInv, TypeOK
  <2>2. forms \in 1..MaxForms
    BY <2>1, FrontendAssumption
  <2> QED BY <2>2 DEF IInv, TypeOK
<1>3. Body(draft, forms) \in Orders
  BY <1>1, <1>2 DEF Orders
<1>4. /\ order'[r] = Body(draft, forms) /\ Form(r)' = forms
      /\ \A q \in Requests \ {r} : order'[q] = order[q] /\ Form(q)' = Form(q)
  BY <1>0, <1>1, <1>2 DEF Form
<1>5. order[r] = NoOrder
  BY <1>0 DEF IInv, Sent
<1>6. Body(draft, forms).key = forms /\ Body(draft, forms) # NoOrder
  BY <1>3, FrontendAssumption DEF Body
<1>7. forms # 0 /\ forms <= forms /\ forms \in 0..MaxForms
  BY <1>2, FrontendAssumption
<1>8. TypeOK'
  <2>1. order' \in [Requests -> Orders \union {NoOrder}]
    BY <1>1, <1>2, <1>3
  <2>2. post' \in [Requests -> [from : 0..MaxForms, sees : Accounts \union {NoAccount}]]
    BY <1>0, <1>2, <1>7
  <2>3. waiting' \subseteq {q \in Requests : Form(q)' # 0}
    BY <1>0, <1>2, <1>4, <1>7
  <2>4. \A q \in Requests : Form(q)' <= forms'
    BY <1>0, <1>2, <1>4, <1>7
  <2>5. isLoading' \in BOOLEAN /\ (isLoading' => isOpen')
    BY <1>0 DEF Submit
  <2>6. \A t \in txs' : t.by \in Requests
    BY <1>0 DEF IInv, TypeOK
  <2> QED BY <1>0, <2>1, <2>2, <2>3, <2>4, <2>5, <2>6 DEF IInv, TypeOK
<1>9. LoadingMeansWaiting'
  BY <1>0, <1>4 DEF LoadingMeansWaiting
<1>10. OneWaiting'
  <2>1. \A q \in waiting : Form(q) # forms /\ q # r
    BY <1>0, <1>2 DEF IInv, LoadingMeansWaiting
  <2>2. \A q \in waiting : Form(q)' = Form(q)
    BY <1>2, <1>4, <2>1
  <2> QED BY <1>0, <1>4, <2>1, <2>2 DEF IInv, OneWaiting
<1>11. Sent'
  BY <1>4, <1>6, <1>7 DEF IInv, Sent
<1>12. PaymentsKnown'
  <2> SUFFICES ASSUME NEW t \in txs PROVE t.order = order'[t.by] /\ order'[t.by] # NoOrder
    BY <1>0 DEF PaymentsKnown
  <2>1. t.by \in Requests \ {r}
    BY <1>5 DEF IInv, TypeOK, PaymentsKnown
  <2> QED BY <1>4, <2>1 DEF IInv, PaymentsKnown
<1>13. KeysPayOnce'
  BY <1>0 DEF IInv, KeysPayOnce
<1>14. SuccessPaid'
  <2> SUFFICES ASSUME NEW q \in Requests, answer[q].code = 201
               PROVE  order'[q] # NoOrder /\ \E t \in txs : t.order = order'[q]
    BY <1>0 DEF SuccessPaid
  <2>1. q # r
    BY <1>5 DEF IInv, SuccessPaid
  <2> QED BY <1>4, <2>1 DEF IInv, SuccessPaid
<1> QED BY <1>3, <1>4, <1>5, <1>8, <1>9, <1>10, <1>11, <1>12, <1>13, <1>14 DEF IInv

(* An answer or an error of a POST.                                          *)
LEMMA AnswerSteps ==
  ASSUME IInv, NEW r \in Requests, Success(r) \/ ErrorAnswer(r) \/ FetchFails(r)
  PROVE  IInv'
<1>0. /\ UNCHANGED <<order, balance, txs, answer, forms, post, ready, selected, shown>>
      /\ waiting' = waiting \ {r}
  BY DEF Success, ErrorAnswer, FetchFails, Fail, api, screen
<1>1. r \in waiting
  BY DEF Success, ErrorAnswer, FetchFails
<1>2. OneWaiting' /\ Sent' /\ PaymentsKnown' /\ KeysPayOnce' /\ SuccessPaid'
  BY <1>0 DEF IInv, OneWaiting, Sent, PaymentsKnown, KeysPayOnce, SuccessPaid, Form
<1>3. /\ waiting' \subseteq {q \in Requests : Form(q)' # 0}
      /\ \A q \in Requests : Form(q)' <= forms'
      /\ \A t \in txs' : t.by \in Requests
  BY <1>0 DEF IInv, TypeOK, Form
<1>4. CASE Success(r)
  <2>1. isOpen' = FALSE /\ isLoading' = FALSE /\ UNCHANGED failures
    BY <1>4 DEF Success, Unmount
  <2>2. load' \in [Loads -> [stage : {"idle", "asked", "read"},
                             sees : Accounts \union {NoAccount}, read : SUBSET txs]]
    <3>1. TypeOK /\ post[r].sees \in Accounts \union {NoAccount}
      BY DEF IInv, TypeOK
    <3> QED BY <1>4, <3>1, StartLoadType DEF Success
  <2>3. succeeded' \subseteq {q \in Requests : answer'[q].code = 201}
    BY <1>0, <1>4 DEF Success, IInv, TypeOK
  <2>4. TypeOK'
    BY <1>0, <1>3, <2>1, <2>2, <2>3 DEF IInv, TypeOK
  <2>5. LoadingMeansWaiting'
    BY <2>1 DEF LoadingMeansWaiting
  <2> QED BY <1>2, <2>4, <2>5 DEF IInv
<1>5. CASE ErrorAnswer(r) \/ FetchFails(r)
  <2>1. /\ UNCHANGED <<isOpen, succeeded, load>>
        /\ isLoading' = (isLoading /\ Form(r) # forms)
    BY <1>5 DEF ErrorAnswer, FetchFails, Fail, Form
  <2>2. failures' \in 0..MaxFailures
    <3>1. failures \in 0..MaxFailures
      BY DEF IInv, TypeOK
    <3>2. CASE ErrorAnswer(r)
      BY <3>1, <3>2 DEF ErrorAnswer
    <3>3. CASE FetchFails(r)
      BY <3>1, <3>3, FrontendAssumption DEF FetchFails
    <3> QED BY <1>5, <3>2, <3>3
  <2>3. isLoading' \in BOOLEAN /\ (isLoading' => isOpen')
    BY <2>1 DEF IInv, TypeOK
  <2>4. TypeOK'
    BY <1>0, <1>3, <2>1, <2>2, <2>3 DEF IInv, TypeOK
  <2>5. LoadingMeansWaiting'
    <3>1. \A q \in waiting : q # r => Form(q) # Form(r)
      BY <1>1 DEF IInv, OneWaiting
    <3>2. isLoading <=> isOpen /\ \E q \in waiting : Form(q) = forms
      BY DEF IInv, LoadingMeansWaiting
    <3>3. CASE Form(r) = forms
      BY <1>0, <2>1, <3>1, <3>3 DEF LoadingMeansWaiting, Form
    <3>4. CASE Form(r) # forms
      BY <1>0, <2>1, <3>2, <3>4 DEF LoadingMeansWaiting, Form
    <3> QED BY <3>3, <3>4
  <2> QED BY <1>2, <2>4, <2>5 DEF IInv
<1> QED BY <1>4, <1>5

(* A step of the endpoint.                                                   *)
LEMMA ServeStep ==
  ASSUME IInv, NEW r \in Requests, Serve(r)
  PROVE  IInv'
<1>0. UNCHANGED <<order, forms, isOpen, isLoading, post, waiting, succeeded, ready, selected,
                  shown, load, failures>>
  BY DEF Serve, dialog, requests, screen, Payments!Pay, Payments!Reply
<1>1. LoadingMeansWaiting' /\ OneWaiting' /\ Sent'
  BY <1>0 DEF IInv, LoadingMeansWaiting, OneWaiting, Sent, Form
<1>2. /\ answer \in [Requests -> [code : {0, 201, 500}, paid : SUBSET txs]]
      /\ order \in [Requests -> Orders \union {NoOrder}]
      /\ \A t \in txs : t.by \in Requests /\ t.order = order[t.by] /\ t.order \in Orders
  BY DEF IInv, TypeOK, PaymentsKnown
<1>3. order[r] # NoOrder /\ answer[r].code = 0
  BY DEF Serve, Payments!Pay, Payments!Reply, Payments!NoAnswer, Payments!Pending
<1>4. order[r] \in Orders
  BY <1>2, <1>3
<1>5. CASE Payments!Pay(r)
  <2>1. PICK n \in 1..MaxAttempts :
          txs' = txs \union {[by |-> r, n |-> n, order |-> order[r]]}
    BY <1>5 DEF Payments!Pay
  <2> DEFINE new == [by |-> r, n |-> n, order |-> order[r]]
  <2>2. new.by = r /\ new.order = order[r] /\ txs' = txs \union {new}
    BY <2>1
  <2> HIDE DEF new
  <2>3. answer' = answer /\ \A t \in txs : t.order.key # order[r].key
    BY <1>4, <1>5, OrdersType DEF Payments!Pay
  <2>4. balance' \in [Accounts -> Int]
    <3>1. /\ order[r].src \in Accounts /\ order[r].dst \in Accounts /\ order[r].amt \in Nat
          /\ balance \in [Accounts -> Int]
      BY <1>4, <1>5, OrdersType, FrontendAssumption DEF Payments!Pay, IInv, TypeOK
    <3>2. balance' = [balance EXCEPT ![order[r].src] = @ - order[r].amt,
                                     ![order[r].dst] = @ + order[r].amt]
      BY <1>5 DEF Payments!Pay
    <3> QED BY <3>1, <3>2
  <2>5. TypeOK'
    <3>1. answer' \in [Requests -> [code : {0, 201, 500}, paid : SUBSET txs']]
      BY <1>2, <2>2, <2>3
    <3>2. load' \in [Loads -> [stage : {"idle", "asked", "read"},
                               sees : Accounts \union {NoAccount}, read : SUBSET txs']]
      BY <1>0, <2>2 DEF IInv, TypeOK
    <3>3. \A t \in txs' : t.by \in Requests
      BY <1>2, <2>2
    <3>4. shown' \subseteq txs'
      BY <1>0, <2>2 DEF IInv, TypeOK
    <3> QED BY <1>0, <2>3, <2>4, <3>1, <3>2, <3>3, <3>4 DEF IInv, TypeOK, Form
  <2>6. PaymentsKnown'
    BY <1>0, <1>3, <2>2 DEF IInv, PaymentsKnown
  <2>7. KeysPayOnce'
    BY <2>2, <2>3 DEF IInv, KeysPayOnce
  <2>8. SuccessPaid'
    BY <1>0, <2>2, <2>3 DEF IInv, SuccessPaid
  <2> QED BY <1>1, <2>5, <2>6, <2>7, <2>8 DEF IInv
<1>6. CASE Payments!Reply(r) /\ answer'[r].code \in {201, 500}
  <2>1. UNCHANGED <<balance, txs>>
    BY <1>6 DEF Payments!Reply
  <2>2. \/ \E t \in txs : Payments!Covers(t, r) /\ answer' = [answer EXCEPT ![r] = [code |-> 201, paid |-> {t}]]
        \/ answer' = [answer EXCEPT ![r] = [code |-> 500, paid |-> {}]]
    <3>1. CASE \E c \in Payments!Refusals :
                 Payments!PaidBy(r) = {} /\ answer' = [answer EXCEPT ![r] = Payments!Told(c, {})]
      BY <1>2, <1>6, <3>1 DEF Payments!Refusals, Payments!Told
    <3> QED BY <1>6, <3>1 DEF Payments!Reply, Payments!Told
  <2>3. answer' \in [Requests -> [code : {0, 201, 500}, paid : SUBSET txs]]
    BY <1>2, <2>2
  <2>4. \A q \in Requests \ {r} : answer'[q] = answer[q]
    BY <1>2, <2>2
  <2>5. r \notin succeeded
    BY <1>3 DEF IInv, TypeOK
  <2>6. succeeded' \subseteq {q \in Requests : answer'[q].code = 201}
    BY <1>0, <2>4, <2>5 DEF IInv, TypeOK
  <2>7. TypeOK'
    BY <1>0, <2>1, <2>3, <2>6 DEF IInv, TypeOK, Form
  <2>8. PaymentsKnown' /\ KeysPayOnce'
    BY <1>0, <2>1 DEF IInv, PaymentsKnown, KeysPayOnce
  <2>9. answer'[r].code = 201 => \E t \in txs : t.order = order[r]
    <3> SUFFICES ASSUME answer'[r].code = 201
                 PROVE  \E t \in txs : t.order = order[r]
      OBVIOUS
    <3>1. PICK t \in txs : Payments!Covers(t, r)
      BY <1>2, <2>2
    <3>2. CASE t.by = r
      BY <1>2, <3>2
    <3>3. CASE t.order.key = order[r].key
      BY <1>2, <1>4, <3>1, <3>3, OrdersType DEF Payments!Covers
    <3> QED BY <3>1, <3>2, <3>3 DEF Payments!Covers
  <2>10. SuccessPaid'
    BY <1>0, <1>3, <2>1, <2>4, <2>9 DEF IInv, SuccessPaid
  <2> QED BY <1>1, <2>7, <2>8, <2>10 DEF IInv
<1> QED BY <1>5, <1>6 DEF Serve

(* Every step keeps the invariant.                                           *)
LEMMA Step == IInv /\ [Next]_vars => IInv'
<1> SUFFICES ASSUME IInv, [Next]_vars PROVE IInv'
  OBVIOUS
<1>1. CASE UNCHANGED vars
  <2>1. UNCHANGED <<api, dialog, requests>> /\ UNCHANGED <<ready, selected, shown, load, failures>>
    BY <1>1 DEF vars, screen
  <2> QED BY <2>1, AppStep DEF IInv, TypeOK
<1>2. CASE Poll \/ Refresh \/ (\E account \in Clicked : Select(account)) \/ (\E l \in Loads : Loading(l))
  BY <1>2, AppSteps
<1>3. CASE OpenForm \/ CloseForm
  BY <1>3, DialogSteps
<1>4. ASSUME NEW r \in Requests, Posting(r) PROVE IInv'
  BY <1>4, SubmitStep, AnswerSteps, ServeStep DEF Posting
<1> QED BY <1>1, <1>2, <1>3, <1>4 DEF Next

(* The invariant holds in every reachable state.                             *)
THEOREM Invariance == Spec => []IInv
BY Start, Step, PTL DEF Spec

(* Typing (App.tsx, TransferModal.tsx).                                      *)
THEOREM Typing == Spec => []TypeOK
<1>1. IInv => TypeOK
  BY DEF IInv
<1> QED BY <1>1, Invariance, PTL

(* The button is disabled exactly while the open dialog waits for an answer   *)
(* to its own POST (TransferModal.tsx:68, 89, 236).                           *)
THEOREM ButtonTellsTheTruth == Spec => []LoadingMeansWaiting
<1>1. IInv => LoadingMeansWaiting
  BY DEF IInv
<1> QED BY <1>1, Invariance, PTL

(* One opening of the dialog pays once, however often the user tries again    *)
(* (TransferModal.tsx:42, api.ts:52).                                         *)
THEOREM RetriesPayOnce == Spec => []OnePaymentPerOpening
<1>1. IInv => OnePaymentPerOpening
  <2> SUFFICES ASSUME IInv, NEW t \in txs, NEW u \in txs, Form(t.by) = Form(u.by)
               PROVE  t = u
    BY DEF OnePaymentPerOpening
  <2>1. \A x \in txs : x.by \in Requests /\ x.order = order[x.by] /\ order[x.by] # NoOrder
    BY DEF IInv, TypeOK, PaymentsKnown
  <2>2. \A x \in txs : x.order.key = Form(x.by)
    BY <2>1 DEF IInv, Sent
  <2> QED BY <2>2 DEF IInv, KeysPayOnce
<1> QED BY <1>1, Invariance, PTL

(* A success is about a payment of the same opening, for the order that was   *)
(* submitted (TransferModal.tsx:77).                                          *)
THEOREM SuccessIsTrue == Spec => []SuccessIsItsOwn
<1>1. IInv => SuccessIsItsOwn
  <2> SUFFICES ASSUME IInv, NEW r \in succeeded
               PROVE  \E t \in txs : t.order = order[r] /\ Form(t.by) = Form(r)
    BY DEF SuccessIsItsOwn
  <2>1. r \in Requests /\ answer[r].code = 201
    BY DEF IInv, TypeOK
  <2>2. order[r] # NoOrder
    BY <2>1 DEF IInv, SuccessPaid
  <2>3. PICK t \in txs : t.order = order[r]
    BY <2>1 DEF IInv, SuccessPaid
  <2>4. t.by \in Requests /\ t.order = order[t.by] /\ order[t.by] # NoOrder
    BY DEF IInv, TypeOK, PaymentsKnown
  <2>5. order[r].key = Form(r) /\ order[t.by].key = Form(t.by)
    BY <2>1, <2>2, <2>4 DEF IInv, Sent
  <2> QED BY <2>3, <2>4, <2>5
<1> QED BY <1>1, Invariance, PTL

(* The browser is a client that the endpoint's promise is made for: whatever  *)
(* the user does, its POSTs, with the endpoint's steps, are a behaviour of    *)
(* IdempotentPayments, so that what Transfers proves about orders applies.    *)
THEOREM Composition == Spec => Payments!Spec
<1>1. Init => Payments!Init
  BY DEF Init
<1>2. IInv /\ [Next]_vars => [Payments!Next]_(Payments!vars)
  <2> SUFFICES ASSUME IInv, [Next]_vars, ~ UNCHANGED Payments!vars
               PROVE  Payments!Next
    OBVIOUS
  <2>1. ~ UNCHANGED <<order, balance, txs, answer>>
    BY DEF Payments!vars
  <2>2. PICK r \in Requests : Submit(r) \/ Serve(r)
    BY <2>1 DEF Next, vars, api, Poll, Refresh, OpenForm, CloseForm, Select, Loading, Read,
                LoadEnds, LoadFails, Posting, Success, ErrorAnswer, FetchFails, Fail
  <2>3. CASE Submit(r)
    <3>1. order[r] = NoOrder /\ order'[r] \in Orders
      BY <2>3, SubmitStep
    <3>2. order' = [order EXCEPT ![r] = order'[r]] /\ UNCHANGED <<balance, txs, answer>>
      <4>1. order \in [Requests -> Orders \union {NoOrder}]
        BY DEF IInv, TypeOK
      <4> QED BY <2>3, <4>1 DEF Submit
    <3>3. Payments!Submit(r)
      BY <3>1, <3>2 DEF Payments!Submit
    <3> QED BY <3>3 DEF Payments!Next
  <2>4. CASE Serve(r)
    BY <2>4 DEF Serve, Payments!Next
  <2> QED BY <2>2, <2>3, <2>4
<1> QED BY <1>1, <1>2, Invariance, PTL DEF Spec, Payments!Spec
=============================================================================
