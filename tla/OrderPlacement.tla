--------------------------- MODULE OrderPlacement ---------------------------
(***************************************************************************)
(* Placing an order, from the first check to the commit.  The serializers  *)
(* check the lines' stock one by one, then the menu and the funds, each    *)
(* with reads of its own and no lock; create() then prices and inserts the *)
(* lines and holds the funds in one transaction, which checks the funds    *)
(* again and nothing else.  Several workers place orders at the same time, *)
(* while staff edits stock and prices in the admin pages.                  *)
(*                                                                         *)
(* A line's price comes from two rows read at two times: override_price    *)
(* from the menu item as it was when the line was checked, base_price from *)
(* the item as it is when the line is inserted.  validate() reads both     *)
(* anew for its own sum.                                                   *)
(*                                                                         *)
(* The orders' later life (capture, refund, cancel, the kitchen's edits)   *)
(* is Wallet's; here it is what it does to the stock and to the funds.     *)
(***************************************************************************)
EXTENDS Integers, Sequences, Amounts

CONSTANTS
    Users, Items, Orders, Workers,
    NoUser,       \* the user of a row that is not inserted yet
    NoPrice,      \* NULL in menu_item.override_price
    Offer,        \* the row of each item as the menu is published
    Quantities,   \* menu_item.quantity as staff may edit it
    Overrides,    \* menu_item.override_price, too
    BasePrices,   \* item.base_price, too
    Funds,        \* what each user has to begin with
    MaxQuantity,  \* bound on the quantity of a line
    MaxLines,     \* bound on the lines of an order
    MaxEdits      \* bound on the edits of items

ASSUME FiniteAssumption == IsFiniteSet(Orders) /\ IsFiniteSet(Workers)
ASSUME UsersAssumption == NoUser \notin Users
ASSUME PricesAssumption ==
    /\ Quantities \subseteq Nat /\ BasePrices \subseteq Nat
    /\ Overrides \subseteq Nat \cup {NoPrice} /\ NoPrice \notin Nat

ItemRow == [quantity : Quantities, override_price : Overrides, base_price : BasePrices]

ASSUME TablesAssumption == Offer \in [Items -> ItemRow] /\ Funds \in [Users -> Nat]
ASSUME LimitsAssumption ==
    MaxQuantity \in Nat \ {0} /\ MaxLines \in Nat /\ MaxEdits \in Nat

VARIABLES
    items,      \* per item, the row of menu_item with its item's base_price
    orders,     \* status, user, lines and total of each order, and whether it
                \* was inserted after the menu had started
    available,  \* current_balance - on_hold of each user
    phase,      \* where the clock is for the menu: open, late, started
    req,        \* what each worker is doing
    edits       \* number of edits of items so far

vars == <<items, orders, available, phase, req, edits>>

OrderStatus ==
    {"pending", "preparing", "confirmed", "paid", "completed", "cancelled"}
Active == OrderStatus \ {"cancelled"}

Line == [item : Items, quantity : 1..MaxQuantity]
Baskets == UNION {[1..n -> Line] : n \in 0..MaxLines}
Absent == [status |-> "absent", user |-> NoUser, lines |-> <<>>, total_amount |-> 0,
           belated |-> FALSE]

\* Python's override_price or base_price: 0 is not a price to override with.
UnitPrice(override_price, base_price) ==
    IF override_price \in {NoPrice, 0} THEN base_price ELSE override_price

PriceNow(i) == UnitPrice(items[i].override_price, items[i].base_price)

\* A request: its lines, how many were checked, what each line costs (first the
\* override_price it was loaded with, then its unit_price), and what happened to
\* the items meanwhile: the prices that were in force and the columns edited.
Request(u, lines) ==
    [at |-> "validating", user |-> u, lines |-> lines, checked |-> 0, prices |-> <<>>,
     offered |-> {<<i, PriceNow(i)>> : i \in {lines[n].item : n \in DOMAIN lines}},
     edited |-> {}]

Idle == [at |-> "idle", user |-> NoUser, lines |-> <<>>, checked |-> 0, prices |-> <<>>,
         offered |-> {}, edited |-> {}]

Init ==
    /\ items = Offer
    /\ orders = [o \in Orders |-> Absent]
    /\ available = Funds
    /\ phase = "open"
    /\ req = [w \in Workers |-> Idle]
    /\ edits = 0

\* Sum of the quantities of an item over the orders in some statuses.
Reserved(i, statuses) ==
    Total([x \in Orders \X (1..MaxLines) |-> orders[x[1]].lines[x[2]].quantity],
          {x \in Orders \X (1..MaxLines) :
              /\ orders[x[1]].status \in statuses
              /\ x[2] \in DOMAIN orders[x[1]].lines
              /\ orders[x[1]].lines[x[2]].item = i})

Remaining(i) == items[i].quantity - Reserved(i, Active)

\* What the menu shows, counted over two statuses by name.
RemainingQuantity(i) == items[i].quantity - Reserved(i, {"pending", "confirmed"})

Sum(lines, prices) ==
    Total([n \in DOMAIN lines |-> prices[n] * lines[n].quantity], DOMAIN lines)

\* What validate() computes, and what create() does.
CostNow(w) ==
    LET lines == req[w].lines
    IN  Sum(lines, [n \in DOMAIN lines |-> PriceNow(lines[n].item)])

Cost(w) == Sum(req[w].lines, req[w].prices)

Finish(w) == req' = [req EXCEPT ![w] = Idle]

-----------------------------------------------------------------------------
(* OrderCreateSerializer.                                                  *)

Receive(w) ==
    /\ req[w] = Idle
    /\ \E u \in Users, lines \in Baskets : req' = [req EXCEPT ![w] = Request(u, lines)]
    /\ UNCHANGED <<items, orders, available, phase, edits>>

\* The next line, if it asks for no more than remains; else the request is refused.
CheckAgainst(w, remaining) ==
    LET n == req[w].checked + 1
        i == req[w].lines[n].item
    IN  /\ req[w].at = "validating" /\ n \in DOMAIN req[w].lines
        /\ IF req[w].lines[n].quantity <= remaining[i]
           THEN req' = [req EXCEPT ![w].checked = n,
                                   ![w].prices = Append(@, items[i].override_price)]
           ELSE Finish(w)
        /\ UNCHANGED <<items, orders, available, phase, edits>>

\* Mutant of CheckLine: compares with what the menu shows as remaining.
CheckLineAsShown(w) == CheckAgainst(w, [i \in Items |-> RemainingQuantity(i)])

\* OrderItemCreateSerializer.validate, for the next line: the menu item is
\* loaded, and the line alone is compared with what is left of it, whatever the
\* lines before it asked for.
CheckLine(w) == CheckAgainst(w, [i \in Items |-> Remaining(i)])

\* Mutant of CheckMenuAndFunds: lets an order in for a menu that has started.
CheckFundsOnly(w) ==
    /\ req[w].at = "validating" /\ req[w].checked = Len(req[w].lines)
    /\ IF CostNow(w) <= available[req[w].user]
       THEN req' = [req EXCEPT ![w].at = "creating"]
       ELSE Finish(w)
    /\ UNCHANGED <<items, orders, available, phase, edits>>

\* OrderCreateSerializer.validate: the menu has not started, the funds suffice.
CheckMenuAndFunds(w) ==
    /\ req[w].at = "validating" /\ req[w].checked = Len(req[w].lines)
    /\ IF phase # "started" /\ CostNow(w) <= available[req[w].user]
       THEN req' = [req EXCEPT ![w].at = "creating"]
       ELSE Finish(w)
    /\ UNCHANGED <<items, orders, available, phase, edits>>

Priced(w, prices) ==
    /\ req[w].at = "creating"
    /\ req' = [req EXCEPT ![w].at = "holding", ![w].prices = prices]
    /\ UNCHANGED <<items, orders, available, phase, edits>>

\* Mutant of InsertLines: takes an override_price of 0 for a price.
InsertAtZero(w) ==
    LET lines == req[w].lines
    IN  Priced(w, [n \in DOMAIN lines |->
                      IF req[w].prices[n] = NoPrice THEN items[lines[n].item].base_price
                                                    ELSE req[w].prices[n]])

\* create(), up to place_hold: the lines are priced and inserted, not yet
\* committed.  menu_item is the object of the check, its item is loaded here.
InsertLines(w) ==
    LET lines == req[w].lines
    IN  Priced(w, [n \in DOMAIN lines |->
                      UnitPrice(req[w].prices[n], items[lines[n].item].base_price)])

\* Mutant of FundsSuffice: trusts the check validate() made.
FundsTrusted(w) == TRUE

FundsSuffice(w) == available[req[w].user] >= Cost(w)

\* place_hold, and the commit of order, lines and hold together.
Create(w) ==
    /\ req[w].at = "holding" /\ FundsSuffice(w)
    /\ \E o \in Orders :
          /\ orders[o] = Absent
          /\ orders' = [orders EXCEPT ![o] =
                [status |-> "confirmed", user |-> req[w].user, lines |-> req[w].lines,
                 total_amount |-> Cost(w), belated |-> phase = "started"]]
    /\ available' = [available EXCEPT ![req[w].user] = @ - Cost(w)]
    /\ Finish(w)
    /\ UNCHANGED <<items, phase, edits>>

\* place_hold raises: the rows inserted before it are rolled back.
RollBack(w) ==
    /\ req[w].at = "holding" /\ ~FundsSuffice(w)
    /\ Finish(w)
    /\ UNCHANGED <<items, orders, available, phase, edits>>

WorkerDies(w) ==
    /\ req[w] # Idle
    /\ Finish(w)
    /\ UNCHANGED <<items, orders, available, phase, edits>>

-----------------------------------------------------------------------------
(* The admin pages of items and menu items.  A save writes the form's row, *)
(* whatever the orders have reserved by then.                              *)

\* The new row of item i, and what the requests in flight will remember of it.
Edit(i, row, column) ==
    /\ edits < MaxEdits
    /\ row # items[i]
    /\ items' = [items EXCEPT ![i] = row]
    /\ req' = [w \in Workers |->
                 IF \A n \in DOMAIN req[w].lines : req[w].lines[n].item # i
                 THEN req[w]
                 ELSE [req[w] EXCEPT
                         !.offered = @ \cup {<<i, UnitPrice(row.override_price,
                                                            row.base_price)>>},
                         !.edited = @ \cup {<<i, column>>}]]
    /\ edits' = edits + 1
    /\ UNCHANGED <<orders, available, phase>>

EditMenuItem(i) ==
    \E q \in Quantities, p \in Overrides :
        Edit(i, [items[i] EXCEPT !.quantity = q, !.override_price = p], "override_price")

EditItem(i) == \E p \in BasePrices : Edit(i, [items[i] EXCEPT !.base_price = p], "base_price")

-----------------------------------------------------------------------------
(* The orders' later life, and the clock.                                  *)

GiveBack(o) ==
    /\ orders' = [orders EXCEPT ![o].status = "cancelled"]
    /\ available' = [available EXCEPT ![orders[o].user] = @ + orders[o].total_amount]
    /\ UNCHANGED <<items, phase, req, edits>>

Cancel(o) ==
    /\ orders[o].status \in {"confirmed", "preparing"} /\ phase = "open"
    /\ GiveBack(o)

\* Mutant of Refund: accepts an order that was refunded before.
RefundAgain(o) == orders[o].status \in {"paid", "completed", "cancelled"} /\ GiveBack(o)

Refund(o) == orders[o].status \in {"paid", "completed"} /\ GiveBack(o)

\* The kitchen starts the meal, staff captures it, the kitchen hands it over.
Advance(o) ==
    /\ \E step \in {<<"confirmed", "preparing">>, <<"confirmed", "paid">>,
                    <<"preparing", "paid">>, <<"paid", "completed">>} :
          /\ orders[o].status = step[1]
          /\ orders' = [orders EXCEPT ![o].status = step[2]]
    /\ UNCHANGED <<items, available, phase, req, edits>>

TimePasses ==
    /\ \/ phase = "open" /\ phase' = "late"
       \/ phase = "late" /\ phase' = "started"
    /\ UNCHANGED <<items, orders, available, req, edits>>

Next ==
    \/ \E w \in Workers :
          \/ Receive(w) \/ CheckLine(w) \/ CheckMenuAndFunds(w)
          \/ InsertLines(w) \/ Create(w) \/ RollBack(w) \/ WorkerDies(w)
    \/ \E i \in Items : EditMenuItem(i) \/ EditItem(i)
    \/ \E o \in Orders : Cancel(o) \/ Refund(o) \/ Advance(o)
    \/ TimePasses

Spec == Init /\ [][Next]_vars

-----------------------------------------------------------------------------
(* Properties.                                                             *)

\* However many requests of a user were validated against the same funds, the
\* check in place_hold keeps the available funds from going below zero, also
\* when the prices went up since.
NeverOverdrawn == \A u \in Users : available[u] >= 0

\* What a user had is what is available and what the user's orders cost when
\* they were placed: a request that fails half way keeps nothing, and an order
\* gives back what it took, whatever its items cost by then.
FundsAccounted ==
    \A u \in Users :
        Funds[u] = available[u]
                   + Total([o \in Orders |-> orders[o].total_amount],
                           {o \in Orders : orders[o].user = u /\ orders[o].status \in Active})

\* What the stock check does guarantee: only lines that were checked against the
\* same stock add up, so at most all lines in flight but one are sold beyond
\* what the item's quantity ever was.
OversoldAtMost ==
    \A i \in Items : \E most \in Quantities :
        Reserved(i, Active) <= most + (Cardinality(Workers) * MaxLines - 1) * MaxQuantity

\* A line is sold at a price that was in force while its request was served.
\* Only if both columns it is made of were edited meanwhile may it be neither
\* the old price nor the new one (serializers.py:143).
SoldAtOfferedPrice ==
    \A w \in Workers : req[w].at = "holding" =>
        \A n \in DOMAIN req[w].lines :
            LET i == req[w].lines[n].item IN
            \/ <<i, req[w].prices[n]>> \in req[w].offered
            \/ {<<i, "override_price">>, <<i, "base_price">>} \subseteq req[w].edited

\* The start of the menu is compared with the clock once, in validate(): only
\* requests in flight at that moment place an order later, one per worker.
BelatedAtMost == Cardinality({o \in Orders : orders[o].belated}) <= Cardinality(Workers)

\* What the error message of the stock check says: only the remaining pieces are
\* available, so as long as staff edits no item, active orders never reserve
\* more than there is.
NeverOversold == edits = 0 => \A i \in Items : Remaining(i) >= 0
=============================================================================
