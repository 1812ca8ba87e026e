--------------------------- MODULE TopUpTheorems ---------------------------
(***************************************************************************)
(* Theorems about TopUp, for every number of sessions, workers and faults: *)
(* a top-up is credited once, a session that can be paid has its row, and  *)
(* Stripe is told 200 only for money that is on the balance.               *)
(***************************************************************************)
EXTENDS TopUp, AmountsTheorems

\* How far a top-up has come at each of its places: the request that creates it,
\* Stripe, the row of transaction and the row of webhook_event.
InStep(s) ==
    /\ checkout[s] = "start" => session[s] = "none"
    /\ checkout[s] \in {"start", "created"} => tx[s] = "none"
    /\ checkout[s] = "recorded" \/ s \in secret => tx[s] # "none"
    /\ tx[s] = "completed" => IsComplete(s)
    /\ s \in acked \/ event[s] = "completed" => tx[s] = "completed"

\* A worker handles the event of a session that is complete, and past the credit
\* the deposit is completed, whoever completed it.
OnComplete(w) ==
    worker[w].at # "idle" =>
        /\ worker[w].session \in Sessions
        /\ IsComplete(worker[w].session)
        /\ At(w, "handled") \/ At(w, "done") => tx[worker[w].session] = "completed"

TopUpsInStep == (\A s \in Sessions : InStep(s)) /\ (\A w \in Workers : OnComplete(w))

Credited == {s \in Sessions : tx[s] = "completed"}

BalanceMatches == current_balance + spent = Total(Amount, Credited)

IInv == TypeOK /\ TopUpsInStep /\ BalanceMatches

-----------------------------------------------------------------------------
(* Types.                                                                  *)

\* The initial tables, requests and workers.
LEMMA InitType == Init => TypeOK
BY BoundsAssumption DEF Init, TypeOK, IdleWorker

\* What the request that creates a session does to the types.
LEMMA CheckoutType ==
    ASSUME TypeOK, NEW s \in Sessions,
           CreateSession(s) \/ RecordDeposit(s) \/ ReturnSecret(s) \/ CheckoutDies(s)
    PROVE  TypeOK'
<1>1. CASE CreateSession(s)
  BY <1>1 DEF CreateSession, CheckoutStep, CheckoutSteps, TypeOK, rows, money
<1>2. CASE RecordDeposit(s)
  BY <1>2 DEF RecordDeposit, CheckoutStep, CheckoutSteps, TypeOK, stripe, money
<1>3. CASE ReturnSecret(s)
  BY <1>3 DEF ReturnSecret, CheckoutStep, CheckoutSteps, TypeOK, rows, money
<1>4. CASE CheckoutDies(s)
  BY <1>4, BoundsAssumption DEF CheckoutDies, Fault, TypeOK, stripe, rows, money
<1> QED BY <1>1, <1>2, <1>3, <1>4

\* What Stripe and the customer do to the types.
LEMMA StripeType ==
    ASSUME TypeOK, NEW s \in Sessions,
           \/ Complete(s) \/ PaymentArrives(s) \/ Expire(s)
           \/ \E w \in Workers : Deliver(w, s)
    PROVE  TypeOK'
<1>1. CASE Complete(s) \/ PaymentArrives(s) \/ Expire(s)
  BY <1>1 DEF Complete, PaymentArrives, Expire, TypeOK, rows, money
<1>2. ASSUME NEW w \in Workers, Deliver(w, s) PROVE TypeOK'
  BY <1>2 DEF Deliver, TypeOK, stripe, rows, money
<1> QED BY <1>1, <1>2

\* A worker that goes on, or back to idle.
LEMMA WorkerType ==
    ASSUME TypeOK, NEW w \in Workers,
           \/ Answer(w)
           \/ \E place \in {"received", "new", "processing", "handled", "failed", "done"} :
                 Goto(w, place)
    PROVE  worker' \in [Workers -> [at : {"idle", "received", "new", "processing", "handled",
                                         "failed", "done"},
                                   session : Sessions \cup {NoSession}]]
BY DEF Answer, Goto, IdleWorker, TypeOK

\* A worker that is at work has the event of a session.
LEMMA WorksOnSession ==
    ASSUME TopUpsInStep, NEW w \in Workers, worker[w].at # "idle"
    PROVE  /\ worker[w].session \in Sessions
           /\ IsComplete(worker[w].session)
           /\ InStep(worker[w].session)
BY DEF TopUpsInStep, OnComplete

\* What the other operations of the wallet do to the types.
LEMMA SpendType == ASSUME TypeOK, SpendOrDeposit PROVE TypeOK'
<1>1. PICK balance \in 0..MaxBalance : /\ current_balance' = balance
                                       /\ spent' = spent + current_balance - balance
  BY DEF SpendOrDeposit
<1>2. current_balance' \in 0..MaxBalance /\ spent' \in Int
  BY <1>1, BoundsAssumption DEF TypeOK
<1> QED BY <1>2 DEF SpendOrDeposit, TypeOK, stripe

\* What a worker does to the types.
LEMMA HandleType ==
    ASSUME TypeOK, TopUpsInStep, NEW w \in Workers,
           Handle(w) \/ HandlerRaises(w) \/ WorkerDies(w)
    PROVE  TypeOK'
<1> DEFINE s == worker[w].session
<1>1. CASE GetEvent(w)
  BY <1>1, WorkerType DEF GetEvent, TypeOK, stripe, money
<1>2. CASE MarkProcessing(w)
  BY <1>2, WorkerType DEF MarkProcessing, TypeOK, stripe, money
<1>3. CASE HandleSession(w)
  <2>1. s \in Sessions
    BY <1>3, WorksOnSession DEF HandleSession, At
  <2>2. Amount[s] \in Nat
    BY <2>1, AmountAssumption
  <2>3. /\ tx' \in [Sessions -> {"none", "pending", "completed"}]
        /\ current_balance' \in 0..MaxBalance
    BY <1>3, <2>2, BoundsAssumption DEF HandleSession, Credit, Fits, TypeOK
  <2>4. \E place \in {"failed", "handled"} : Goto(w, place)
    BY <1>3 DEF HandleSession
  <2> QED BY <1>3, <2>3, <2>4, WorkerType DEF HandleSession, TypeOK, stripe
<1>4. CASE MarkCompleted(w)
  BY <1>4, WorkerType DEF MarkCompleted, TypeOK, stripe, money
<1>5. CASE MarkFailed(w)
  BY <1>5, WorkerType DEF MarkFailed, TypeOK, stripe, money
<1>6. CASE AnswerOK(w)
  <2>1. worker[w].session \in Sessions
    BY <1>6, WorksOnSession DEF AnswerOK, At
  <2> QED BY <1>6, <2>1, WorkerType DEF AnswerOK, TypeOK, rows, money
<1>7. CASE HandlerRaises(w)
  BY <1>7, WorkerType, BoundsAssumption DEF HandlerRaises, Fault, TypeOK, stripe, rows, money
<1>8. CASE WorkerDies(w)
  BY <1>8, WorkerType, BoundsAssumption DEF WorkerDies, Fault, TypeOK, stripe, rows, money
<1> QED BY <1>1, <1>2, <1>3, <1>4, <1>5, <1>6, <1>7, <1>8 DEF Handle

-----------------------------------------------------------------------------
(* Order.                                                                  *)

\* Steps of the checkout, of the customer and of Stripe.
LEMMA OutsideInStep ==
    ASSUME TypeOK, TopUpsInStep, NEW s \in Sessions,
           \/ CreateSession(s) \/ RecordDeposit(s) \/ ReturnSecret(s) \/ CheckoutDies(s)
           \/ Complete(s) \/ PaymentArrives(s) \/ Expire(s)
    PROVE  TopUpsInStep'
<1>1. InStep(s) /\ worker' = worker
  BY DEF TopUpsInStep, CreateSession, RecordDeposit, ReturnSecret, CheckoutDies, Complete,
         PaymentArrives, Expire
<1>2. ASSUME NEW r \in Sessions PROVE InStep(r)'
  <2>1. InStep(r)
    BY DEF TopUpsInStep
  <2>2. CASE CreateSession(s)
    BY <1>1, <2>1, <2>2 DEF CreateSession, CheckoutStep, CheckoutSteps, TypeOK, InStep,
                  IsComplete, rows
  <2>3. CASE RecordDeposit(s)
    BY <1>1, <2>1, <2>3 DEF RecordDeposit, CheckoutStep, CheckoutSteps, TypeOK, InStep,
                  IsComplete, stripe
  <2>4. CASE ReturnSecret(s)
    BY <1>1, <2>1, <2>4 DEF ReturnSecret, CheckoutStep, CheckoutSteps, TypeOK, InStep,
                  IsComplete, rows
  <2>5. CASE CheckoutDies(s)
    BY <1>1, <2>1, <2>5 DEF CheckoutDies, TypeOK, InStep, IsComplete, stripe, rows
  <2>6. CASE Complete(s) \/ PaymentArrives(s) \/ Expire(s)
    BY <1>1, <2>1, <2>6 DEF Complete, PaymentArrives, Expire, TypeOK, InStep,
                  IsComplete, rows
  <2> QED BY <2>2, <2>3, <2>4, <2>5, <2>6
<1>3. \A r \in Sessions : /\ IsComplete(r) => IsComplete(r)'
                          /\ tx[r] = "completed" => tx'[r] = "completed"
  <2>1. CASE CreateSession(s)
    BY <1>1, <2>1 DEF CreateSession, CheckoutStep, CheckoutSteps, TypeOK, InStep,
                  IsComplete, rows
  <2>2. CASE RecordDeposit(s)
    BY <1>1, <2>2 DEF RecordDeposit, CheckoutStep, CheckoutSteps, TypeOK, InStep,
                  IsComplete, stripe
  <2>3. CASE ReturnSecret(s) \/ CheckoutDies(s)
    BY <2>3 DEF ReturnSecret, CheckoutDies, IsComplete, stripe, rows
  <2>4. CASE Complete(s) \/ PaymentArrives(s) \/ Expire(s)
    BY <2>4 DEF Complete, PaymentArrives, Expire, IsComplete, TypeOK, rows
  <2> QED BY <2>1, <2>2, <2>3, <2>4
<1>4. ASSUME NEW w \in Workers PROVE OnComplete(w)'
  BY <1>1, <1>3 DEF TopUpsInStep, OnComplete, At
<1> QED BY <1>2, <1>4 DEF TopUpsInStep

\* What a delivery and the steps of a worker leave alone: nothing they do takes a
\* payment or a completed deposit back, and no other worker is touched.
LEMMA HandlingKeeps ==
    ASSUME TypeOK, TopUpsInStep, NEW w \in Workers,
           \/ \E s \in Sessions : Deliver(w, s)
           \/ Handle(w) \/ HandlerRaises(w) \/ WorkerDies(w)
    PROVE  /\ checkout' = checkout /\ session' = session /\ secret' = secret
           /\ \A s \in Sessions : tx[s] = "completed" => tx'[s] = "completed"
           /\ \A x \in Workers \ {w} : worker'[x] = worker[x]
<1>1. ASSUME NEW s \in Sessions, Deliver(w, s)
      PROVE  /\ UNCHANGED <<checkout, session, secret, tx>>
             /\ \A x \in Workers \ {w} : worker'[x] = worker[x]
  BY <1>1 DEF Deliver, TypeOK, stripe, rows
<1>2. CASE Handle(w)
  <2>1. UNCHANGED <<checkout, session, secret>>
    BY <1>2 DEF Handle, GetEvent, MarkProcessing, HandleSession, MarkCompleted, MarkFailed,
                AnswerOK, stripe, rows
  <2>2. \A s \in Sessions : tx[s] = "completed" => tx'[s] = "completed"
    BY <1>2 DEF Handle, GetEvent, MarkProcessing, HandleSession, Credit, MarkCompleted, MarkFailed,
                AnswerOK, TypeOK, stripe, rows
  <2>3. \A x \in Workers \ {w} : worker'[x] = worker[x]
    BY <1>2 DEF Handle, GetEvent, MarkProcessing, HandleSession, MarkCompleted, MarkFailed,
                AnswerOK, Goto, Answer, TypeOK
  <2> QED BY <2>1, <2>2, <2>3
<1>3. CASE HandlerRaises(w) \/ WorkerDies(w)
  BY <1>3 DEF HandlerRaises, WorkerDies, Goto, Answer, TypeOK, stripe, rows
<1> QED BY <1>1, <1>2, <1>3

\* A worker at its next place.
LEMMA MovesOn ==
    ASSUME TypeOK, NEW w \in Workers, NEW place, Goto(w, place)
    PROVE  worker'[w].at = place /\ worker'[w].session = worker[w].session
BY DEF TypeOK, Goto

\* Deliveries and the steps of a worker.
LEMMA HandlingInStep ==
    ASSUME TypeOK, TopUpsInStep, NEW w \in Workers,
           \/ \E s \in Sessions : Deliver(w, s)
           \/ Handle(w) \/ HandlerRaises(w) \/ WorkerDies(w)
    PROVE  TopUpsInStep'
<1> DEFINE t == worker[w].session
<1>1. ASSUME NEW x \in Workers \ {w} PROVE OnComplete(x)'
  BY HandlingKeeps DEF TopUpsInStep, OnComplete, At, IsComplete
<1>2. ASSUME UNCHANGED <<tx, event, acked>> PROVE \A s \in Sessions : InStep(s)'
  BY <1>2, HandlingKeeps DEF TopUpsInStep, InStep, IsComplete
<1>3. ASSUME worker'[w] = IdleWorker PROVE OnComplete(w)'
  BY <1>3 DEF OnComplete, IdleWorker
<1>4. ASSUME worker[w].at # "idle", worker'[w].session = t,
             At(w, "handled")' \/ At(w, "done")' => tx'[t] = "completed"
      PROVE  OnComplete(w)'
  BY <1>4, WorksOnSession, HandlingKeeps DEF OnComplete, At, IsComplete
<1>5. ASSUME NEW s \in Sessions, Deliver(w, s) PROVE TopUpsInStep'
  <2>1. /\ UNCHANGED <<tx, event, acked>> /\ IsComplete(s)
        /\ worker'[w].at = "received" /\ worker'[w].session = s
    BY <1>5 DEF Deliver, TypeOK, stripe, rows
  <2>2. OnComplete(w)'
    BY <2>1, HandlingKeeps DEF OnComplete, At, IsComplete
  <2> QED BY <1>1, <1>2, <2>1, <2>2 DEF TopUpsInStep
<1>6. CASE GetEvent(w)
  <2>1. t \in Sessions /\ InStep(t) /\ worker[w].at # "idle"
    BY <1>6, WorksOnSession DEF GetEvent, At
  <2>2. /\ UNCHANGED <<tx, acked>>
        /\ event' = [event EXCEPT ![t] = IF @ = "none" THEN "pending" ELSE @]
    BY <1>6 DEF GetEvent, stripe
  <2>3. ASSUME NEW s \in Sessions PROVE InStep(s)'
    BY <2>2, HandlingKeeps DEF TopUpsInStep, InStep, TypeOK, IsComplete
  <2>4. CASE event[t] = "completed"
    <3>1. worker'[w].at = "done" /\ worker'[w].session = t
      BY <1>6, <2>4, MovesOn DEF GetEvent
    <3> QED BY <1>1, <1>4, <2>1, <2>2, <2>3, <2>4, <3>1 DEF InStep, TopUpsInStep
  <2>5. CASE event[t] # "completed"
    <3>1. worker'[w].at = "new" /\ worker'[w].session = t
      BY <1>6, <2>5, MovesOn DEF GetEvent
    <3> QED BY <1>1, <1>4, <2>1, <2>3, <3>1 DEF At, TopUpsInStep
  <2> QED BY <2>4, <2>5
<1>7. CASE MarkProcessing(w)
  <2>1. t \in Sessions /\ worker[w].at # "idle"
    BY <1>7, WorksOnSession DEF MarkProcessing, At
  <2>2. /\ UNCHANGED <<tx, acked>> /\ event' = [event EXCEPT ![t] = "processing"]
        /\ worker'[w].at = "processing" /\ worker'[w].session = t
    BY <1>7, MovesOn DEF MarkProcessing, stripe
  <2>3. ASSUME NEW s \in Sessions PROVE InStep(s)'
    BY <2>2, HandlingKeeps DEF TopUpsInStep, InStep, TypeOK, IsComplete
  <2> QED BY <1>1, <1>4, <2>1, <2>2, <2>3 DEF At, TopUpsInStep
<1>8. CASE HandleSession(w)
  <2>1. t \in Sessions /\ IsComplete(t) /\ InStep(t) /\ worker[w].at # "idle"
    BY <1>8, WorksOnSession DEF HandleSession, At
  <2>2. UNCHANGED <<event, acked>> /\ worker'[w].session = t
    BY <1>8, MovesOn DEF HandleSession, stripe
  <2>3. CASE tx[t] = "none" \/ (tx[t] = "pending" /\ ~Fits(t))
    <3>1. UNCHANGED tx /\ worker'[w].at = "failed"
      BY <1>8, <2>3, MovesOn DEF HandleSession, Credit
    <3> QED BY <1>1, <1>2, <1>4, <2>1, <2>2, <3>1 DEF At, TopUpsInStep
  <2>4. CASE tx[t] = "completed" \/ (tx[t] = "pending" /\ Fits(t))
    <3>1. tx' = [tx EXCEPT ![t] = "completed"]
      BY <1>8, <2>1, <2>4 DEF HandleSession, Credit, TypeOK
    <3>2. ASSUME NEW s \in Sessions PROVE InStep(s)'
      BY <2>1, <2>2, <2>4, <3>1, HandlingKeeps DEF TopUpsInStep, InStep, TypeOK, IsComplete
    <3>3. tx'[t] = "completed"
      BY <2>1, <3>1 DEF TypeOK
    <3> QED BY <1>1, <1>4, <2>1, <2>2, <3>2, <3>3 DEF TopUpsInStep
  <2> QED BY <2>1, <2>3, <2>4 DEF TypeOK
<1>9. CASE MarkCompleted(w)
  <2>1. t \in Sessions /\ worker[w].at # "idle" /\ tx[t] = "completed"
    BY <1>9, WorksOnSession DEF MarkCompleted, At, TopUpsInStep, OnComplete
  <2>2. /\ UNCHANGED <<tx, acked>> /\ event' = [event EXCEPT ![t] = "completed"]
        /\ worker'[w].session = t
    BY <1>9, MovesOn DEF MarkCompleted, stripe
  <2>3. ASSUME NEW s \in Sessions PROVE InStep(s)'
    BY <2>1, <2>2, HandlingKeeps DEF TopUpsInStep, InStep, TypeOK, IsComplete
  <2> QED BY <1>1, <1>4, <2>1, <2>2, <2>3 DEF TopUpsInStep
<1>10. CASE MarkFailed(w)
  <2>1. /\ UNCHANGED <<tx, acked>> /\ event' = [event EXCEPT ![t] = "failed"]
        /\ worker'[w] = IdleWorker
    BY <1>10 DEF MarkFailed, Answer, TypeOK, stripe
  <2>2. ASSUME NEW s \in Sessions PROVE InStep(s)'
    BY <2>1, HandlingKeeps DEF TopUpsInStep, InStep, TypeOK, IsComplete
  <2> QED BY <1>1, <1>3, <2>1, <2>2 DEF TopUpsInStep
<1>11. CASE AnswerOK(w)
  <2>1. t \in Sessions /\ tx[t] = "completed"
    BY <1>11, WorksOnSession DEF AnswerOK, At, TopUpsInStep, OnComplete
  <2>2. UNCHANGED <<tx, event>> /\ acked' = acked \cup {t} /\ worker'[w] = IdleWorker
    BY <1>11 DEF AnswerOK, Answer, TypeOK, rows
  <2>3. ASSUME NEW s \in Sessions PROVE InStep(s)'
    BY <2>1, <2>2, HandlingKeeps DEF TopUpsInStep, InStep, TypeOK, IsComplete
  <2> QED BY <1>1, <1>3, <2>2, <2>3 DEF TopUpsInStep
<1>12. CASE HandlerRaises(w)
  <2>1. /\ UNCHANGED <<tx, event, acked>> /\ worker[w].at # "idle"
        /\ worker'[w].at = "failed" /\ worker'[w].session = t
    BY <1>12, MovesOn DEF HandlerRaises, At, stripe, rows
  <2> QED BY <1>1, <1>2, <1>4, <2>1 DEF At, TopUpsInStep
<1>13. CASE WorkerDies(w)
  <2>1. UNCHANGED <<tx, event, acked>> /\ worker'[w] = IdleWorker
    BY <1>13 DEF WorkerDies, Answer, TypeOK, stripe, rows
  <2> QED BY <1>1, <1>2, <1>3, <2>1 DEF TopUpsInStep
<1> QED
  BY <1>5, <1>6, <1>7, <1>8, <1>9, <1>10, <1>11, <1>12, <1>13 DEF Handle

-----------------------------------------------------------------------------
(* Money.                                                                  *)

\* A step that neither completes a deposit nor moves the balance.
LEMMA NothingCredited ==
    ASSUME BalanceMatches, UNCHANGED money, Credited' = Credited
    PROVE  BalanceMatches'
BY DEF BalanceMatches, money

\* The credit moves the balance by the amount of the deposit it completes.
LEMMA CreditMatches ==
    ASSUME TypeOK, TopUpsInStep, BalanceMatches, NEW w \in Workers, HandleSession(w)
    PROVE  BalanceMatches'
<1> DEFINE t == worker[w].session
<1>1. t \in Sessions
  BY WorksOnSession DEF HandleSession, At
<1>2. CASE UNCHANGED <<tx, current_balance>>
  BY <1>2, NothingCredited DEF HandleSession, Credited, money
<1>3. CASE ~UNCHANGED <<tx, current_balance>>
  <2>1. /\ tx[t] = "pending" /\ tx' = [tx EXCEPT ![t] = "completed"]
        /\ current_balance' = current_balance + Amount[t] /\ spent' = spent
    BY <1>3 DEF HandleSession, Credit
  <2>2. t \notin Credited /\ Credited' = Credited \cup {t}
    BY <1>1, <2>1 DEF Credited, TypeOK
  <2>3. IsFiniteSet(Credited) /\ \A s \in Credited \cup {t} : Amount[s] \in Nat
    BY <1>1, SessionsAssumption, AmountAssumption, FS_Subset DEF Credited
  <2>4. Total(Amount, Credited \cup {t}) = Total(Amount, Credited) + Amount[t]
    BY <2>2, <2>3, TotalAdd
  <2>5. current_balance \in Int /\ spent \in Int /\ Amount[t] \in Int
    BY <1>1, BoundsAssumption, AmountAssumption DEF TypeOK
  <2>6. current_balance' + spent' = Total(Amount, Credited) + Amount[t]
    BY <2>1, <2>5 DEF BalanceMatches
  <2> QED BY <2>2, <2>4, <2>6 DEF BalanceMatches
<1> QED BY <1>2, <1>3

\* Whatever the other operations take or add is accounted for.
LEMMA SpendMatches == ASSUME TypeOK, BalanceMatches, SpendOrDeposit PROVE BalanceMatches'
<1>1. PICK balance \in 0..MaxBalance : /\ current_balance' = balance
                                       /\ spent' = spent + current_balance - balance
  BY DEF SpendOrDeposit
<1>2. current_balance \in Int /\ spent \in Int /\ balance \in Int
  BY <1>1, BoundsAssumption DEF TypeOK
<1>3. current_balance' + spent' = current_balance + spent
  BY <1>1, <1>2
<1>4. Credited' = Credited
  BY DEF SpendOrDeposit, Credited
<1> QED BY <1>3, <1>4 DEF BalanceMatches

\* A row of a pending deposit is not a completed one.
LEMMA RecordCreditsNothing ==
    ASSUME TypeOK, TopUpsInStep, BalanceMatches, NEW s \in Sessions, RecordDeposit(s)
    PROVE  BalanceMatches'
<1>1. tx[s] = "none" /\ tx' = [tx EXCEPT ![s] = "pending"] /\ UNCHANGED money
  BY DEF TopUpsInStep, InStep, RecordDeposit, CheckoutStep, CheckoutSteps
<1>2. Credited' = Credited
  BY <1>1 DEF Credited, TypeOK
<1> QED BY <1>1, <1>2, NothingCredited

-----------------------------------------------------------------------------

\* The initial state has nothing to credit.
LEMMA InvInit == Init => IInv
<1> SUFFICES ASSUME Init PROVE IInv
  OBVIOUS
<1>1. TypeOK
  BY InitType
<1>2. TopUpsInStep
  BY DEF Init, TopUpsInStep, InStep, OnComplete, IdleWorker
<1>3. Credited = {} /\ current_balance = 0 /\ spent = 0
  BY DEF Init, Credited
<1> QED BY <1>1, <1>2, <1>3, TotalEmpty DEF IInv, BalanceMatches

\* Every step keeps types, order and money.
LEMMA InvStep == IInv /\ [Next]_vars => IInv'
<1> SUFFICES ASSUME IInv, [Next]_vars PROVE IInv'
  OBVIOUS
<1> USE DEF IInv
<1>1. ASSUME NEW s \in Sessions,
             \/ CreateSession(s) \/ RecordDeposit(s) \/ ReturnSecret(s) \/ CheckoutDies(s)
             \/ Complete(s) \/ PaymentArrives(s) \/ Expire(s)
      PROVE  IInv'
  <2>1. TypeOK' /\ TopUpsInStep'
    BY <1>1, CheckoutType, StripeType, OutsideInStep
  <2>2. CASE RecordDeposit(s)
    BY <2>1, <2>2, RecordCreditsNothing
  <2>3. CASE ~RecordDeposit(s)
    <3>1. UNCHANGED <<tx, money>>
      BY <1>1, <2>3 DEF CreateSession, ReturnSecret, CheckoutDies, Complete, PaymentArrives,
                        Expire, rows
    <3> QED BY <2>1, <3>1, NothingCredited DEF Credited
  <2> QED BY <2>2, <2>3
<1>2. ASSUME NEW w \in Workers,
             \/ \E s \in Sessions : Deliver(w, s)
             \/ Handle(w) \/ HandlerRaises(w) \/ WorkerDies(w)
      PROVE  IInv'
  <2>1. TypeOK' /\ TopUpsInStep'
    BY <1>2, StripeType, HandleType, HandlingInStep
  <2>2. CASE HandleSession(w)
    BY <2>1, <2>2, CreditMatches
  <2>3. CASE ~HandleSession(w)
    <3>1. UNCHANGED <<tx, money>>
      BY <1>2, <2>3 DEF Deliver, Handle, GetEvent, MarkProcessing, MarkCompleted, MarkFailed,
                        AnswerOK, HandlerRaises, WorkerDies, rows
    <3> QED BY <2>1, <3>1, NothingCredited DEF Credited
  <2> QED BY <2>2, <2>3
<1>3. CASE SpendOrDeposit
  <2>1. UNCHANGED <<checkout, stripe, tx, event, worker>>
    BY <1>3 DEF SpendOrDeposit
  <2>2. TopUpsInStep'
    BY <2>1 DEF stripe, TopUpsInStep, InStep, OnComplete, IsComplete, At
  <2> QED BY <1>3, <2>2, SpendType, SpendMatches
<1>4. CASE UNCHANGED vars
  BY <1>4 DEF vars, stripe, rows, money, TypeOK, TopUpsInStep, InStep, OnComplete, IsComplete,
              At, BalanceMatches, Credited
<1> QED BY <1>1, <1>2, <1>3, <1>4 DEF Next

\* What every state of a top-up has.
LEMMA InvHolds == Spec => []IInv
BY InvInit, InvStep, PTL DEF Spec

\* For every number of sessions, workers, deliveries and faults: a session is
\* credited once, and only when the customer completed its checkout.
THEOREM TopUpsAreCreditedOnce == Spec => []CreditedOnce
<1>1. IInv => CreditedOnce
  BY DEF IInv, BalanceMatches, Credited, TopUpsInStep, InStep, CreditedOnce
<1> QED BY <1>1, InvHolds, PTL

\* For the same: a session that can be paid has its row, wherever the checkout died.
THEOREM PayableSessionsHaveRows == Spec => []PayableIsRecorded
<1>1. IInv => PayableIsRecorded
  BY DEF IInv, TopUpsInStep, InStep, PayableIsRecorded
<1> QED BY <1>1, InvHolds, PTL

\* For the same: Stripe stops posting an event only when its money is credited.
THEOREM AnswersMeanCredit == Spec => []AnsweredMeansCredited
<1>1. IInv => AnsweredMeansCredited
  BY DEF IInv, TopUpsInStep, InStep, AnsweredMeansCredited
<1> QED BY <1>1, InvHolds, PTL
=============================================================================
