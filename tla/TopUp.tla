------------------------------- MODULE TopUp -------------------------------
(***************************************************************************)
(* Card top-ups from end to end: a checkout creates a session at Stripe    *)
(* and then a pending DEPOSIT; the customer pays with the secret the       *)
(* checkout returns; Stripe posts the event until it is answered with 200; *)
(* a webhook worker credits the balance.  Stripe and the customer are      *)
(* external.  An event may be posted again at any time, to several workers *)
(* at once, and workers die between any two steps.                         *)
(*                                                                         *)
(* The credit itself is one database transaction (Wallet!CompleteTopUp,    *)
(* WalletRequests for its locks); the rows of webhook_event are read and   *)
(* written outside it, each statement a transaction of its own.            *)
(***************************************************************************)
EXTENDS Integers, Amounts

CONSTANTS
    Sessions,   \* checkout sessions; each has one completed event, same name
    Workers,    \* webhook workers
    NoSession,  \* what an idle worker works on
    Amount,     \* of each session
    MaxBalance, \* largest value of numeric(10,2)
    MaxFaults   \* bound on errors and dead workers

ASSUME SessionsAssumption == IsFiniteSet(Sessions) /\ NoSession \notin Sessions
ASSUME AmountAssumption == Amount \in [Sessions -> Nat \ {0}]
ASSUME BoundsAssumption == MaxBalance \in Nat /\ MaxFaults \in Nat

VARIABLES
    checkout,         \* where the request that creates a session is
    session,          \* the session at Stripe
    secret,           \* sessions whose client_secret the customer has
    acked,            \* events Stripe got a 200 for
    tx,               \* the row of transaction of a session
    event,            \* the row of webhook_event of a session's event
    current_balance,  \* of the one customer
    spent,            \* what the other operations of Wallet took from it, net
    worker,           \* what each webhook worker is doing
    faults            \* how many faults there were

stripe == <<session, secret, acked>>
money == <<current_balance, spent>>
rows == <<tx, event, money>>
vars == <<checkout, stripe, rows, worker, faults>>

IdleWorker == [at |-> "idle", session |-> NoSession]

Init ==
    /\ checkout = [s \in Sessions |-> "start"]
    /\ session = [s \in Sessions |-> "none"]
    /\ secret = {}
    /\ acked = {}
    /\ tx = [s \in Sessions |-> "none"]
    /\ event = [s \in Sessions |-> "none"]
    /\ current_balance = 0
    /\ spent = 0
    /\ worker = [w \in Workers |-> IdleWorker]
    /\ faults = 0

Fault == faults < MaxFaults /\ faults' = faults + 1

-----------------------------------------------------------------------------
(* create_checkout_session.                                                *)

\* The steps of the request, in the order the code takes them.
CheckoutSteps == <<"start", "created", "recorded", "answered">>

CheckoutStep(s, n) ==
    /\ checkout[s] = CheckoutSteps[n]
    /\ checkout' = [checkout EXCEPT ![s] = CheckoutSteps[n + 1]]

CreateSession(s) ==
    /\ CheckoutStep(s, 1)
    /\ session' = [session EXCEPT ![s] = "open"]
    /\ UNCHANGED <<secret, acked, rows, worker, faults>>

RecordDeposit(s) ==
    /\ CheckoutStep(s, 2)
    /\ tx' = [tx EXCEPT ![s] = "pending"]
    /\ UNCHANGED <<stripe, event, money, worker, faults>>

\* Mutant of ReturnSecret: answers before the DEPOSIT is recorded.
ReturnSecretFirst(s) ==
    /\ checkout[s] \in {"created", "recorded"}
    /\ secret' = secret \cup {s}
    /\ UNCHANGED <<checkout, session, acked, rows, worker, faults>>

ReturnSecret(s) ==
    /\ CheckoutStep(s, 3)
    /\ secret' = secret \cup {s}
    /\ UNCHANGED <<session, acked, rows, worker, faults>>

\* The request dies half way: the session stays at Stripe, with or without a row.
CheckoutDies(s) ==
    /\ checkout[s] \in {"created", "recorded"}
    /\ Fault
    /\ checkout' = [checkout EXCEPT ![s] = "dead"]
    /\ UNCHANGED <<stripe, rows, worker>>

-----------------------------------------------------------------------------
(* The customer and Stripe.                                                *)

\* The customer completes the checkout.  Session.create does not say with which
\* methods: with a delayed one the session is complete and not paid yet.
Complete(s) ==
    /\ s \in secret /\ session[s] = "open"
    /\ \E payment \in {"paid", "unpaid"} : session' = [session EXCEPT ![s] = payment]
    /\ UNCHANGED <<checkout, secret, acked, rows, worker, faults>>

\* A delayed payment arrives.  It need not.
PaymentArrives(s) ==
    /\ session[s] = "unpaid"
    /\ session' = [session EXCEPT ![s] = "paid"]
    /\ UNCHANGED <<checkout, secret, acked, rows, worker, faults>>

Expire(s) ==
    /\ session[s] = "open"
    /\ session' = [session EXCEPT ![s] = "expired"]
    /\ UNCHANGED <<checkout, secret, acked, rows, worker, faults>>

IsComplete(s) == session[s] \in {"paid", "unpaid"}

\* checkout.session.completed is posted for a complete session, paid or not.
Deliver(w, s) ==
    /\ IsComplete(s)
    /\ worker[w] = IdleWorker
    /\ worker' = [worker EXCEPT ![w] = [at |-> "received", session |-> s]]
    /\ UNCHANGED <<checkout, stripe, rows, faults>>

\* Meanwhile captures take money from the balance, refunds and staff's deposits
\* add some (Wallet): it may be full when a payment is to be credited.
SpendOrDeposit ==
    /\ \E balance \in 0..MaxBalance :
          /\ current_balance' = balance
          /\ spent' = spent + current_balance - balance
    /\ UNCHANGED <<checkout, stripe, tx, event, worker, faults>>

-----------------------------------------------------------------------------
(* StripeWebhookHandler.handle_event, one step per statement.              *)

At(w, place) == worker[w].at = place

Goto(w, place) == worker' = [worker EXCEPT ![w].at = place]

\* Mutant of GetEvent: an event somebody is processing counts as done.
GetEventInProgress(w) ==
    LET s == worker[w].session IN
    /\ At(w, "received")
    /\ event' = [event EXCEPT ![s] = IF @ = "none" THEN "pending" ELSE @]
    /\ IF event[s] \in {"processing", "completed"} THEN Goto(w, "done") ELSE Goto(w, "new")
    /\ UNCHANGED <<checkout, stripe, tx, money, faults>>

\* get_or_create, and the check of the status it read.
GetEvent(w) ==
    LET s == worker[w].session IN
    /\ At(w, "received")
    /\ event' = [event EXCEPT ![s] = IF @ = "none" THEN "pending" ELSE @]
    /\ IF event[s] = "completed" THEN Goto(w, "done") ELSE Goto(w, "new")
    /\ UNCHANGED <<checkout, stripe, tx, money, faults>>

MarkProcessing(w) ==
    /\ At(w, "new")
    /\ event' = [event EXCEPT ![worker[w].session] = "processing"]
    /\ Goto(w, "processing")
    /\ UNCHANGED <<checkout, stripe, tx, money, faults>>

Fits(s) == current_balance + Amount[s] <= MaxBalance

Credit(s) ==
    /\ Fits(s)
    /\ tx' = [tx EXCEPT ![s] = "completed"]
    /\ current_balance' = current_balance + Amount[s]

\* Mutant of HandleSession: credits a session that was credited before.
HandleSessionAgain(w) ==
    LET s == worker[w].session IN
    /\ At(w, "processing")
    /\ \/ tx[s] # "none" /\ Credit(s) /\ Goto(w, "handled")
       \/ /\ tx[s] = "none" \/ ~Fits(s)
          /\ Goto(w, "failed") /\ UNCHANGED <<tx, current_balance>>
    /\ UNCHANGED <<checkout, stripe, event, spent, faults>>

\* _handle_checkout_session_completed, atomic and under the row's lock.  It does
\* not look at payment_status.  An UPDATE beyond numeric(10,2) is refused, and
\* the status that was saved before it is rolled back.
HandleSession(w) ==
    LET s == worker[w].session IN
    /\ At(w, "processing")
    /\ \/ tx[s] = "pending" /\ Credit(s) /\ Goto(w, "handled")
       \/ /\ tx[s] = "completed"
          /\ Goto(w, "handled") /\ UNCHANGED <<tx, current_balance>>
       \/ /\ tx[s] = "none" \/ (tx[s] = "pending" /\ ~Fits(s))
          /\ Goto(w, "failed") /\ UNCHANGED <<tx, current_balance>>
    /\ UNCHANGED <<checkout, stripe, event, spent, faults>>

MarkCompleted(w) ==
    /\ At(w, "handled")
    /\ event' = [event EXCEPT ![worker[w].session] = "completed"]
    /\ Goto(w, "done")
    /\ UNCHANGED <<checkout, stripe, tx, money, faults>>

\* An exception inside the try block: before the credit committed, or after it,
\* in the statement that marks the event COMPLETED.
HandlerRaises(w) ==
    /\ At(w, "processing") \/ At(w, "handled")
    /\ Fault
    /\ Goto(w, "failed")
    /\ UNCHANGED <<checkout, stripe, rows>>

Answer(w) == worker' = [worker EXCEPT ![w] = IdleWorker]

\* Mutant of MarkFailed: the exception is swallowed and Stripe gets a 200.
MarkFailedAnswersOK(w) ==
    /\ At(w, "failed")
    /\ event' = [event EXCEPT ![worker[w].session] = "failed"]
    /\ acked' = acked \cup {worker[w].session}
    /\ Answer(w)
    /\ UNCHANGED <<checkout, session, secret, tx, money, faults>>

\* FAILED is saved over whatever the event holds by now; the answer is 500.
MarkFailed(w) ==
    /\ At(w, "failed")
    /\ event' = [event EXCEPT ![worker[w].session] = "failed"]
    /\ Answer(w)
    /\ UNCHANGED <<checkout, stripe, tx, money, faults>>

AnswerOK(w) ==
    /\ At(w, "done")
    /\ acked' = acked \cup {worker[w].session}
    /\ Answer(w)
    /\ UNCHANGED <<checkout, session, secret, rows, faults>>

\* The worker dies, or its answer is lost: to Stripe the same.
WorkerDies(w) ==
    /\ worker[w] # IdleWorker
    /\ Fault
    /\ Answer(w)
    /\ UNCHANGED <<checkout, stripe, rows>>

Handle(w) ==
    \/ GetEvent(w) \/ MarkProcessing(w) \/ HandleSession(w)
    \/ MarkCompleted(w) \/ MarkFailed(w) \/ AnswerOK(w)

Next ==
    \/ \E s \in Sessions :
          \/ CreateSession(s) \/ RecordDeposit(s) \/ ReturnSecret(s) \/ CheckoutDies(s)
          \/ Complete(s) \/ PaymentArrives(s) \/ Expire(s)
          \/ \E w \in Workers : Deliver(w, s)
    \/ \E w \in Workers : Handle(w) \/ HandlerRaises(w) \/ WorkerDies(w)
    \/ SpendOrDeposit

Spec == Init /\ [][Next]_vars

\* A worker that lives goes on; Stripe posts an event again until it gets a 200
\* (views.py answers 500 "so Stripe will retry").  Customers owe nothing, and
\* nobody has to make room on the balance.
Fairness ==
    /\ \A w \in Workers : WF_vars(Handle(w))
    /\ \A s \in Sessions : SF_vars(s \notin acked /\ \E w \in Workers : Deliver(w, s))

LiveSpec == Spec /\ Fairness

-----------------------------------------------------------------------------
(* Properties.                                                             *)

TypeOK ==
    /\ checkout \in [Sessions -> {"start", "created", "recorded", "answered", "dead"}]
    /\ session \in [Sessions -> {"none", "open", "unpaid", "paid", "expired"}]
    /\ secret \subseteq Sessions /\ acked \subseteq Sessions
    /\ tx \in [Sessions -> {"none", "pending", "completed"}]
    /\ event \in [Sessions -> {"none", "pending", "processing", "completed", "failed"}]
    /\ current_balance \in 0..MaxBalance /\ spent \in Int
    /\ worker \in [Workers -> [at : {"idle", "received", "new", "processing", "handled",
                                     "failed", "done"},
                               session : Sessions \cup {NoSession}]]
    /\ faults \in 0..MaxFaults

\* However often an event is posted, and however many workers handle it at once,
\* are refused by the column or die half way, its session is credited once: the
\* balance and what was spent are the sum of the completed deposits.  Only
\* completed checkouts have one; that they were paid is not checked (handlers.py:95).
CreditedOnce ==
    /\ current_balance + spent = Total(Amount, {s \in Sessions : tx[s] = "completed"})
    /\ \A s \in Sessions : tx[s] = "completed" => IsComplete(s)

\* The secret leaves only after the row is committed, so whatever dies, a session
\* that can be paid has its row, and the webhook finds it (handlers.py:112).
PayableIsRecorded == \A s \in Sessions : s \in secret => tx[s] # "none"

\* Stripe is told 200, and stops posting, only when the money is on the balance;
\* and an event is COMPLETED only then.
AnsweredMeansCredited ==
    \A s \in Sessions : s \in acked \/ event[s] = "completed" => tx[s] = "completed"

\* A customer who paid gets the money, whatever errors and deaths delay it, or the
\* balance is again and again too full for it: a refusal fails the event, and a
\* later delivery credits it once there is room for good.
PaidIsCredited ==
    \A s \in Sessions : (session[s] = "paid") ~> (tx[s] = "completed" \/ ~Fits(s))
=============================================================================
