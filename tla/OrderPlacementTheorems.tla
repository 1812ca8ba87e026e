----------------------- MODULE OrderPlacementTheorems -----------------------
(***************************************************************************)
(* Theorems about OrderPlacement, for every value of its constants: users  *)
(* never overdraw, their accounts add up, lines are sold at prices that    *)
(* were in force, and late orders and overselling are bounded.             *)
(***************************************************************************)
EXTENDS OrderPlacement, AmountsTheorems, SequenceTheorems

Columns == {"override_price", "base_price"}
Places == {"idle", "validating", "creating", "holding"}
Phases == {"open", "late", "started"}

OrderRow ==
    [status : OrderStatus \cup {"absent"}, user : Users \cup {NoUser}, lines : Seq(Line),
     total_amount : Nat, belated : BOOLEAN]

PriceLists == Seq(Nat \cup {NoPrice})
PricesOfItems == SUBSET (Items \X Nat)
ColumnsOfItems == SUBSET (Items \X Columns)

RequestRow ==
    [at : Places, user : Users \cup {NoUser}, lines : Seq(Line), checked : Nat,
     prices : PriceLists, offered : PricesOfItems, edited : ColumnsOfItems]

TypeOK ==
    /\ items \in [Items -> ItemRow]
    /\ orders \in [Orders -> OrderRow]
    /\ available \in [Users -> Int]
    /\ phase \in Phases
    /\ req \in [Workers -> RequestRow]
    /\ edits \in Nat

\* What a request that is being served has: a user, an override_price per line
\* that was checked, and a unit price per line once the lines are inserted.
InOrder(r) ==
    /\ r.at # "idle" => r.user \in Users
    /\ r.at = "validating" => Len(r.prices) = r.checked /\ r.checked <= Len(r.lines)
    /\ r.at = "creating" => Len(r.prices) = Len(r.lines)
    /\ r.at = "holding" => r.prices \in Seq(Nat) /\ Len(r.prices) = Len(r.lines)

RequestsInOrder == \A w \in Workers : InOrder(req[w])

\* Active orders have a user.
OrdersOwned == \A o \in Orders : orders[o].status \in Active => orders[o].user \in Users

-----------------------------------------------------------------------------
(* Types.                                                                  *)

\* The price of an item is an amount, whichever column it is taken from.
LEMMA UnitPriceType ==
    \A override_price \in Nat \cup {NoPrice}, base_price \in Nat :
        UnitPrice(override_price, base_price) \in Nat
BY DEF UnitPrice

\* The columns a price is read from.
LEMMA ItemColumns ==
    ASSUME TypeOK, NEW i \in Items
    PROVE  /\ items[i].override_price \in Nat \cup {NoPrice}
           /\ items[i].base_price \in Nat
           /\ PriceNow(i) \in Nat
<1>1. items[i] \in ItemRow
  BY DEF TypeOK
<1>2. items[i].override_price \in Nat \cup {NoPrice} /\ items[i].base_price \in Nat
  BY <1>1, PricesAssumption DEF ItemRow
<1> QED BY <1>2, UnitPriceType DEF PriceNow

\* The lines of an order.
LEMMA LinesOf ==
    ASSUME NEW lines \in Seq(Line)
    PROVE  /\ Len(lines) \in Nat /\ DOMAIN lines = 1..Len(lines)
           /\ \A n \in DOMAIN lines : lines[n].item \in Items /\ lines[n].quantity \in Nat
<1>1. Len(lines) \in Nat /\ DOMAIN lines = 1..Len(lines)
  BY LenProperties
<1>2. \A n \in DOMAIN lines : lines[n] \in Line
  BY <1>1, ElementOfSeq
<1>3. \A x \in Line : x.item \in Items /\ x.quantity \in Nat
  BY LimitsAssumption DEF Line
<1> QED BY <1>1, <1>2, <1>3

\* What a sum of lines comes to is an amount.
LEMMA SumType ==
    ASSUME NEW lines \in Seq(Line), NEW prices, \A n \in DOMAIN lines : prices[n] \in Nat
    PROVE  Sum(lines, prices) \in Nat
<1> DEFINE f == [n \in DOMAIN lines |-> prices[n] * lines[n].quantity]
<1>1. \A n \in DOMAIN lines : lines[n].quantity \in Nat
  BY LinesOf
<1>2. \A n \in DOMAIN lines : f[n] \in Nat
  BY <1>1
<1>3. IsFiniteSet(DOMAIN lines)
  BY LinesOf, CoinsOfOne
<1> HIDE DEF f
<1>4. Total(f, DOMAIN lines) \in Nat
  BY <1>2, <1>3, TotalType
<1> QED BY <1>4 DEF Sum, f

\* What a request charges is an amount.
LEMMA CostType ==
    ASSUME TypeOK, RequestsInOrder, NEW w \in Workers, req[w].at = "holding"
    PROVE  Cost(w) \in Nat /\ req[w].user \in Users /\ req[w].lines \in Seq(Line)
<1>1. /\ req[w].lines \in Seq(Line) /\ req[w].prices \in Seq(Nat)
      /\ Len(req[w].prices) = Len(req[w].lines) /\ req[w].user \in Users
  BY DEF TypeOK, RequestRow, PriceLists, RequestsInOrder, InOrder
<1>2. DOMAIN req[w].lines = DOMAIN req[w].prices
  BY <1>1, LenProperties
<1>3. \A n \in DOMAIN req[w].lines : req[w].prices[n] \in Nat
  BY <1>1, <1>2, LenProperties, ElementOfSeq
<1> QED BY <1>1, <1>3, SumType DEF Cost

-----------------------------------------------------------------------------
(* Requests.                                                               *)

\* The lists of a request are finite.
LEMMA BasketType == Baskets \subseteq Seq(Line)
<1> SUFFICES ASSUME NEW n \in 0..MaxLines, NEW lines \in [1..n -> Line]
             PROVE  lines \in Seq(Line)
  BY DEF Baskets
<1> QED BY LimitsAssumption, SeqDef

\* A worker without a request, and one that has just been given one.
LEMMA RowsOfRequests ==
    ASSUME TypeOK
    PROVE  /\ Idle \in RequestRow /\ InOrder(Idle)
           /\ \A u \in Users, lines \in Baskets :
                 Request(u, lines) \in RequestRow /\ InOrder(Request(u, lines))
<1>1. <<>> \in Seq(Line) /\ <<>> \in Seq(Nat \cup {NoPrice}) /\ Len(<<>>) = 0
  BY EmptySeq
<1>2. Idle \in RequestRow /\ InOrder(Idle)
  BY <1>1 DEF Idle, RequestRow, InOrder, Places, PriceLists, PricesOfItems, ColumnsOfItems
<1>3. ASSUME NEW u \in Users, NEW lines \in Baskets
      PROVE  Request(u, lines) \in RequestRow /\ InOrder(Request(u, lines))
  <2>1. lines \in Seq(Line) /\ Len(lines) \in Nat
    BY BasketType, LenProperties
  <2>2. \A n \in DOMAIN lines : lines[n].item \in Items
    BY <2>1, LinesOf
  <2> DEFINE now == {<<i, PriceNow(i)>> : i \in {lines[n].item : n \in DOMAIN lines}}
  <2>3. now \subseteq Items \X Nat
    BY <2>2, ItemColumns
  <2> HIDE DEF now
  <2>4. Request(u, lines) = [at |-> "validating", user |-> u, lines |-> lines, checked |-> 0,
                             prices |-> <<>>, offered |-> now, edited |-> {}]
    BY DEF Request, now
  <2> QED BY <1>1, <2>1, <2>3, <2>4
    DEF RequestRow, InOrder, Places, PriceLists, PricesOfItems, ColumnsOfItems
<1> QED BY <1>2, <1>3

\* One request moves on, the others stay.
LEMMA RequestMoves ==
    ASSUME TypeOK, RequestsInOrder, NEW w \in Workers, NEW row \in RequestRow, InOrder(row),
           req' = [req EXCEPT ![w] = row]
    PROVE  req' \in [Workers -> RequestRow] /\ RequestsInOrder'
BY DEF TypeOK, RequestsInOrder

\* Writing columns of a request keeps it a request.
LEMMA CheckedRow ==
    ASSUME NEW r \in RequestRow, NEW n \in Nat, NEW prices \in PriceLists
    PROVE  [r EXCEPT !.checked = n, !.prices = prices] \in RequestRow
BY DEF RequestRow

\* The request once its lines have unit prices.
LEMMA PricedRow ==
    ASSUME NEW r \in RequestRow, NEW at \in Places, NEW prices \in PriceLists
    PROVE  [r EXCEPT !.at = at, !.prices = prices] \in RequestRow
BY DEF RequestRow

\* The request at another place.
LEMMA MovedRow ==
    ASSUME NEW r \in RequestRow, NEW at \in Places
    PROVE  [r EXCEPT !.at = at] \in RequestRow
BY DEF RequestRow

\* The request after an item of its was edited.
LEMMA RememberingRow ==
    ASSUME NEW r \in RequestRow, NEW offered \in PricesOfItems, NEW edited \in ColumnsOfItems
    PROVE  [r EXCEPT !.offered = offered, !.edited = edited] \in RequestRow
BY DEF RequestRow

\* The request after its next line was found available.
LEMMA LineChecked ==
    ASSUME TypeOK, RequestsInOrder, NEW w \in Workers, req[w].at = "validating",
           req[w].checked + 1 \in DOMAIN req[w].lines
    PROVE  LET i == req[w].lines[req[w].checked + 1].item
               row == [req[w] EXCEPT !.checked = req[w].checked + 1,
                                     !.prices = Append(req[w].prices, items[i].override_price)]
           IN  i \in Items /\ row \in RequestRow /\ InOrder(row)
<1> DEFINE n == req[w].checked + 1
           i == req[w].lines[n].item
           p == items[i].override_price
<1>1. /\ req[w] \in RequestRow /\ req[w].lines \in Seq(Line)
      /\ req[w].prices \in Seq(Nat \cup {NoPrice}) /\ Len(req[w].prices) = req[w].checked
      /\ req[w].user \in Users /\ req[w].checked \in Nat
  BY DEF TypeOK, RequestRow, PriceLists, RequestsInOrder, InOrder
<1>2. i \in Items /\ n <= Len(req[w].lines)
  BY <1>1, LinesOf
<1>3. p \in Nat \cup {NoPrice}
  BY <1>2, ItemColumns
<1> HIDE DEF i, p
<1>4. /\ Append(req[w].prices, p) \in Seq(Nat \cup {NoPrice})
      /\ Len(Append(req[w].prices, p)) = n
  BY <1>1, <1>3, AppendProperties
<1>5. [req[w] EXCEPT !.checked = n, !.prices = Append(req[w].prices, p)] \in RequestRow
  <2>1. n \in Nat /\ Append(req[w].prices, p) \in PriceLists
    BY <1>1, <1>4 DEF PriceLists
  <2> HIDE DEF n
  <2> QED BY <1>1, <2>1, CheckedRow, Zenon
<1>6. InOrder([req[w] EXCEPT !.checked = n, !.prices = Append(req[w].prices, p)])
  BY <1>1, <1>2, <1>4 DEF RequestRow, InOrder
<1> QED BY <1>2, <1>5, <1>6 DEF i, p

\* The unit price of each line when it is inserted.
InsertedAt(w) ==
    [n \in DOMAIN req[w].lines |->
        UnitPrice(req[w].prices[n], items[req[w].lines[n].item].base_price)]

\* The request after create() has priced its lines.
LEMMA LinesInserted ==
    ASSUME TypeOK, RequestsInOrder, NEW w \in Workers, req[w].at = "creating"
    PROVE  /\ InsertedAt(w) \in Seq(Nat) /\ Len(InsertedAt(w)) = Len(req[w].lines)
           /\ DOMAIN req[w].prices = DOMAIN req[w].lines
           /\ \A n \in DOMAIN req[w].lines :
                 /\ req[w].lines[n].item \in Items
                 /\ req[w].prices[n] \in Nat \cup {NoPrice}
<1>1. /\ req[w].lines \in Seq(Line) /\ req[w].prices \in Seq(Nat \cup {NoPrice})
      /\ Len(req[w].prices) = Len(req[w].lines)
  BY DEF TypeOK, RequestRow, PriceLists, RequestsInOrder, InOrder
<1>2. /\ DOMAIN req[w].prices = DOMAIN req[w].lines
      /\ DOMAIN req[w].lines = 1..Len(req[w].lines) /\ Len(req[w].lines) \in Nat
  BY <1>1, LenProperties
<1>3. \A n \in DOMAIN req[w].lines :
         req[w].lines[n].item \in Items /\ req[w].prices[n] \in Nat \cup {NoPrice}
  BY <1>1, <1>2, LinesOf, ElementOfSeq
<1>4. \A n \in DOMAIN req[w].lines : InsertedAt(w)[n] \in Nat
  BY <1>3, ItemColumns, UnitPriceType DEF InsertedAt
<1>5. InsertedAt(w) \in [1..Len(req[w].lines) -> Nat]
  BY <1>2, <1>4 DEF InsertedAt
<1>6. InsertedAt(w) \in Seq(Nat) /\ Len(InsertedAt(w)) = Len(req[w].lines)
  BY <1>2, <1>5, SeqDef, LenProperties
<1> QED BY <1>2, <1>3, <1>6

-----------------------------------------------------------------------------
(* Every step keeps the tables and the requests well formed.               *)

WellFormed == TypeOK /\ RequestsInOrder /\ OrdersOwned

\* What a worker does to its request before the order is placed.
LEMMA ServingStep ==
    ASSUME WellFormed, NEW w \in Workers,
           Receive(w) \/ CheckLine(w) \/ CheckMenuAndFunds(w) \/ InsertLines(w)
    PROVE  req' \in [Workers -> RequestRow] /\ RequestsInOrder'
<1> USE DEF WellFormed
<1>1. Idle \in RequestRow /\ InOrder(Idle)
  BY RowsOfRequests
<1>2. ASSUME NEW row \in RequestRow, InOrder(row), req' = [req EXCEPT ![w] = row]
      PROVE  req' \in [Workers -> RequestRow] /\ RequestsInOrder'
  BY <1>2, RequestMoves
<1>3. ASSUME Finish(w) PROVE req' \in [Workers -> RequestRow] /\ RequestsInOrder'
  BY <1>1, <1>2, <1>3 DEF Finish
<1>4. /\ req[w] \in RequestRow /\ InOrder(req[w])
      /\ req[w].at \in Places /\ req[w].checked \in Nat
  BY DEF TypeOK, RequestsInOrder, RequestRow
<1>5. CASE Receive(w)
  BY <1>2, <1>5, RowsOfRequests DEF Receive
<1>6. CASE CheckLine(w)
  <2>1. CASE Finish(w)
    BY <1>3, <2>1
  <2>2. CASE ~Finish(w)
    <3> DEFINE row == [req[w] EXCEPT !.checked = req[w].checked + 1,
                                     !.prices = Append(req[w].prices,
                                        items[req[w].lines[req[w].checked + 1].item].override_price)]
    <3>1. req' = [req EXCEPT ![w] = row]
      BY <1>6, <2>2 DEF CheckLine, CheckAgainst
    <3>2. row \in RequestRow /\ InOrder(row)
      BY <1>6, LineChecked DEF CheckLine, CheckAgainst
    <3> QED BY <1>2, <3>1, <3>2
  <2> QED BY <2>1, <2>2
<1>7. CASE CheckMenuAndFunds(w)
  <2>1. CASE Finish(w)
    BY <1>3, <2>1
  <2>2. CASE ~Finish(w)
    <3> DEFINE row == [req[w] EXCEPT !.at = "creating"]
    <3>1. req' = [req EXCEPT ![w] = row]
      BY <1>7, <2>2 DEF CheckMenuAndFunds
    <3>2. row \in RequestRow
      BY <1>4, MovedRow DEF Places
    <3>3. InOrder(row)
      BY <1>4, <1>7 DEF CheckMenuAndFunds, InOrder, RequestRow
    <3> QED BY <1>2, <3>1, <3>2, <3>3
  <2> QED BY <2>1, <2>2
<1>8. CASE InsertLines(w)
  <2> DEFINE ps == InsertedAt(w)
             row == [req[w] EXCEPT !.at = "holding", !.prices = ps]
  <2>1. req' = [req EXCEPT ![w] = row]
    BY <1>8 DEF InsertLines, Priced, InsertedAt
  <2>2. ps \in Seq(Nat) /\ Len(ps) = Len(req[w].lines) /\ req[w].at = "creating"
    BY <1>8, LinesInserted DEF InsertLines, Priced
  <2>3. ps \in PriceLists /\ "holding" \in Places
    BY <2>2 DEF PriceLists, Places
  <2> HIDE DEF ps
  <2>4. row \in RequestRow
    BY <1>4, <2>3, PricedRow, Zenon
  <2>5. InOrder(row)
    BY <1>4, <2>2 DEF InOrder, RequestRow
  <2> QED BY <1>2, <2>1, <2>4, <2>5
<1> QED BY <1>5, <1>6, <1>7, <1>8

\* What staff may save are rows of the table.
LEMMA EditedRow ==
    ASSUME TypeOK, NEW i \in Items
    PROVE  /\ EditMenuItem(i) => \E row \in ItemRow :
                 /\ Edit(i, row, "override_price")
                 /\ row.base_price = items[i].base_price
           /\ EditItem(i) => \E row \in ItemRow :
                 /\ Edit(i, row, "base_price")
                 /\ row.override_price = items[i].override_price
<1>1. items[i] \in ItemRow
  BY DEF TypeOK
<1>2. ASSUME NEW q \in Quantities, NEW p \in Overrides
      PROVE  LET row == [items[i] EXCEPT !.quantity = q, !.override_price = p]
             IN  row \in ItemRow /\ row.base_price = items[i].base_price
  BY <1>1 DEF ItemRow
<1>3. ASSUME NEW p \in BasePrices
      PROVE  LET row == [items[i] EXCEPT !.base_price = p]
             IN  row \in ItemRow /\ row.override_price = items[i].override_price
  BY <1>1 DEF ItemRow
<1> QED BY <1>2, <1>3 DEF EditMenuItem, EditItem

\* The request with one more price and one more edited column to remember.
Remembering(r, i, price, column) ==
    [r EXCEPT !.offered = r.offered \cup {<<i, price>>},
              !.edited = r.edited \cup {<<i, column>>}]

\* What an edit writes into a request about the item, and that no other column of
\* the request changes.
LEMMA EditEffect ==
    ASSUME TypeOK, NEW i \in Items, NEW row \in ItemRow, NEW column \in Columns,
           Edit(i, row, column), NEW w \in Workers
    PROVE  /\ items' = [items EXCEPT ![i] = row]
           /\ UnitPrice(row.override_price, row.base_price) \in Nat
           /\ \/ /\ req'[w] = req[w]
                 /\ \A n \in DOMAIN req[w].lines : req[w].lines[n].item # i
              \/ req'[w] = Remembering(req[w], i,
                                        UnitPrice(row.override_price, row.base_price), column)
<1>1. UnitPrice(row.override_price, row.base_price) \in Nat
  BY PricesAssumption, UnitPriceType DEF ItemRow
<1> QED BY <1>1 DEF Edit, Remembering

\* An edit keeps the items, and every request, well formed.
LEMMA EditStep ==
    ASSUME TypeOK, RequestsInOrder, NEW i \in Items, NEW row \in ItemRow,
           NEW column \in Columns, Edit(i, row, column)
    PROVE  /\ items' \in [Items -> ItemRow]
           /\ req' \in [Workers -> RequestRow] /\ RequestsInOrder'
<1> DEFINE price == UnitPrice(row.override_price, row.base_price)
<1>1. items' \in [Items -> ItemRow]
  BY DEF TypeOK, Edit
<1>2. ASSUME NEW w \in Workers PROVE req'[w] \in RequestRow /\ InOrder(req'[w])
  <2>1. req[w] \in RequestRow /\ InOrder(req[w])
    BY DEF TypeOK, RequestsInOrder
  <2> DEFINE offered == req[w].offered \cup {<<i, price>>}
             edited == req[w].edited \cup {<<i, column>>}
  <2>2. CASE req'[w] = req[w]
    BY <2>1, <2>2
  <2>3. CASE req'[w] = Remembering(req[w], i, price, column)
    <3>1. req'[w] = [req[w] EXCEPT !.offered = offered, !.edited = edited]
      BY <2>3 DEF Remembering
    <3>2. price \in Nat
      BY EditEffect
    <3> HIDE DEF price
    <3>3. offered \in PricesOfItems /\ edited \in ColumnsOfItems
      BY <2>1, <3>2 DEF RequestRow, PricesOfItems, ColumnsOfItems
    <3> HIDE DEF offered, edited
    <3>4. req'[w] \in RequestRow
      <4>1. [req[w] EXCEPT !.offered = offered, !.edited = edited] \in RequestRow
        BY <2>1, <3>3, RememberingRow, Zenon
      <4> QED BY <3>1, <4>1
    <3>5. InOrder(req'[w])
      BY <2>1, <3>1 DEF InOrder, RequestRow
    <3> QED BY <3>4, <3>5
  <2>4. \/ req'[w] = req[w]
        \/ req'[w] = Remembering(req[w], i, price, column)
    BY EditEffect
  <2> QED BY <2>2, <2>3, <2>4
<1>3. req' = [w \in Workers |-> req'[w]]
  BY DEF Edit
<1>4. req' \in [Workers -> RequestRow]
  BY <1>2, <1>3
<1>5. RequestsInOrder'
  BY <1>2 DEF RequestsInOrder
<1> QED BY <1>1, <1>4, <1>5

\* An order that goes on: its user, its lines and its total stay what they are.
LEMMA OrderMoves ==
    ASSUME TypeOK, OrdersOwned, NEW o \in Orders, NEW s \in OrderStatus,
           orders[o].status \in Active, orders' = [orders EXCEPT ![o].status = s]
    PROVE  /\ orders' \in [Orders -> OrderRow] /\ OrdersOwned'
           /\ orders[o].user \in Users
           /\ orders'[o].status = s
           /\ orders'[o].user = orders[o].user
           /\ orders'[o].total_amount = orders[o].total_amount
           /\ orders'[o].belated = orders[o].belated
           /\ \A x \in Orders \ {o} : orders'[x] = orders[x]
<1>1. orders[o] \in OrderRow /\ orders[o].user \in Users
  BY DEF TypeOK, OrdersOwned
<1>2. orders' = [orders EXCEPT ![o] = [orders[o] EXCEPT !.status = s]]
  BY DEF TypeOK
<1>3. [orders[o] EXCEPT !.status = s] \in OrderRow
  BY <1>1 DEF OrderRow
<1>4. orders' \in [Orders -> OrderRow]
  BY <1>2, <1>3 DEF TypeOK
<1>5. orders'[o] = [orders[o] EXCEPT !.status = s] /\ \A x \in Orders \ {o} : orders'[x] = orders[x]
  BY <1>2 DEF TypeOK
<1>6. /\ orders'[o].status = s
      /\ orders'[o].user = orders[o].user
      /\ orders'[o].total_amount = orders[o].total_amount
      /\ orders'[o].belated = orders[o].belated
  BY <1>1, <1>5 DEF OrderRow
<1>7. OrdersOwned'
  BY <1>1, <1>5, <1>6 DEF OrdersOwned
<1> QED BY <1>1, <1>4, <1>5, <1>6, <1>7

\* A new order: who pays, and how much.
LEMMA OrderPlaced ==
    ASSUME WellFormed, NEW w \in Workers, Create(w)
    PROVE  \E o \in Orders :
              /\ orders[o] = Absent
              /\ orders' \in [Orders -> OrderRow] /\ OrdersOwned'
              /\ orders'[o].status = "confirmed" /\ orders'[o].lines = req[w].lines
              /\ orders'[o].user = req[w].user /\ req[w].user \in Users
              /\ orders'[o].total_amount = Cost(w) /\ Cost(w) \in Nat
              /\ orders'[o].belated = (phase = "started")
              /\ \A x \in Orders \ {o} : orders'[x] = orders[x]
<1> USE DEF WellFormed
<1>1. Cost(w) \in Nat /\ req[w].user \in Users /\ req[w].lines \in Seq(Line)
  BY CostType DEF Create
<1> DEFINE row == [status |-> "confirmed", user |-> req[w].user, lines |-> req[w].lines,
                   total_amount |-> Cost(w), belated |-> phase = "started"]
<1>2. PICK o \in Orders : orders[o] = Absent /\ orders' = [orders EXCEPT ![o] = row]
  BY DEF Create
<1>3. row \in OrderRow
  BY <1>1 DEF OrderRow, OrderStatus
<1>4. /\ row.status = "confirmed" /\ row.lines = req[w].lines /\ row.user = req[w].user
      /\ row.total_amount = Cost(w) /\ row.belated = (phase = "started")
  OBVIOUS
<1> HIDE DEF row
<1>5. /\ orders' \in [Orders -> OrderRow] /\ orders'[o] = row
      /\ \A x \in Orders \ {o} : orders'[x] = orders[x]
  BY <1>2, <1>3 DEF TypeOK
<1>6. OrdersOwned'
  BY <1>1, <1>4, <1>5 DEF OrdersOwned
<1> QED BY <1>1, <1>2, <1>4, <1>5, <1>6

\* The kitchen and the capture leave an order active.
LEMMA AdvanceEffect ==
    ASSUME NEW o \in Orders, Advance(o)
    PROVE  \E s \in Active : /\ orders[o].status \in Active
                             /\ orders' = [orders EXCEPT ![o].status = s]
<1>1. PICK step \in {<<"confirmed", "preparing">>, <<"confirmed", "paid">>,
                    <<"preparing", "paid">>, <<"paid", "completed">>} :
         orders[o].status = step[1] /\ orders' = [orders EXCEPT ![o].status = step[2]]
  BY DEF Advance
<1>2. step[1] \in Active /\ step[2] \in Active
  BY <1>1 DEF Active, OrderStatus
<1> QED BY <1>1, <1>2

\* Every step keeps tables and requests well formed.
LEMMA WellFormedStep == WellFormed /\ [Next]_vars => WellFormed'
<1> SUFFICES ASSUME WellFormed, [Next]_vars PROVE WellFormed'
  OBVIOUS
<1> USE DEF WellFormed
<1>1. ASSUME NEW w \in Workers, Finish(w) PROVE req' \in [Workers -> RequestRow] /\ RequestsInOrder'
  BY <1>1, RowsOfRequests, RequestMoves DEF Finish
<1>2. ASSUME NEW w \in Workers,
             Receive(w) \/ CheckLine(w) \/ CheckMenuAndFunds(w) \/ InsertLines(w)
      PROVE  WellFormed'
  <2>1. req' \in [Workers -> RequestRow] /\ RequestsInOrder'
    BY <1>2, ServingStep
  <2>2. UNCHANGED <<items, orders, available, phase, edits>>
    BY <1>2 DEF Receive, CheckLine, CheckAgainst, CheckMenuAndFunds, InsertLines, Priced
  <2> QED BY <2>1, <2>2 DEF TypeOK, OrdersOwned
<1>3. ASSUME NEW w \in Workers, Create(w) PROVE WellFormed'
  <2>1. orders' \in [Orders -> OrderRow] /\ OrdersOwned'
    BY <1>3, OrderPlaced
  <2>2. Cost(w) \in Nat /\ req[w].user \in Users
    BY <1>3, CostType DEF Create
  <2>3. available' \in [Users -> Int]
    BY <1>3, <2>2 DEF Create, TypeOK
  <2>4. req' \in [Workers -> RequestRow] /\ RequestsInOrder' /\ UNCHANGED <<items, phase, edits>>
    BY <1>1, <1>3 DEF Create
  <2> QED BY <2>1, <2>3, <2>4 DEF TypeOK
<1>4. ASSUME NEW w \in Workers, RollBack(w) \/ WorkerDies(w) PROVE WellFormed'
  BY <1>1, <1>4 DEF RollBack, WorkerDies, TypeOK, OrdersOwned
<1>5. ASSUME NEW i \in Items, EditMenuItem(i) \/ EditItem(i) PROVE WellFormed'
  <2>1. PICK row \in ItemRow, column \in Columns : Edit(i, row, column)
    BY <1>5, EditedRow DEF Columns
  <2>2. UNCHANGED <<orders, available, phase>> /\ edits' = edits + 1
    BY <2>1 DEF Edit
  <2>3. edits' \in Nat
    BY <2>2 DEF TypeOK
  <2> QED BY <2>1, <2>2, <2>3, EditStep DEF TypeOK, OrdersOwned
<1>6. ASSUME NEW o \in Orders, NEW s \in OrderStatus, orders[o].status \in Active,
             orders' = [orders EXCEPT ![o].status = s], UNCHANGED <<items, phase, req, edits>>,
             available' \in [Users -> Int]
      PROVE  WellFormed'
  BY <1>6, OrderMoves DEF TypeOK, RequestsInOrder
<1>7. ASSUME NEW o \in Orders, Cancel(o) \/ Refund(o) PROVE WellFormed'
  <2>1. orders[o].status \in Active /\ GiveBack(o) /\ "cancelled" \in OrderStatus
    BY <1>7 DEF Cancel, Refund, Active, OrderStatus
  <2>2. orders[o].user \in Users /\ orders[o].total_amount \in Nat
    BY <2>1 DEF OrdersOwned, TypeOK, OrderRow
  <2>3. available' \in [Users -> Int]
    BY <2>1, <2>2 DEF GiveBack, TypeOK
  <2> QED BY <1>6, <2>1, <2>3 DEF GiveBack
<1>8. ASSUME NEW o \in Orders, Advance(o) PROVE WellFormed'
  <2>1. PICK s \in Active :
           orders[o].status \in Active /\ orders' = [orders EXCEPT ![o].status = s]
    BY <1>8, AdvanceEffect
  <2>2. UNCHANGED <<items, phase, req, edits, available>>
    BY <1>8 DEF Advance
  <2> QED BY <1>6, <2>1, <2>2 DEF TypeOK, Active
<1>9. CASE TimePasses
  BY <1>9 DEF TimePasses, TypeOK, RequestsInOrder, OrdersOwned, Phases
<1>10. CASE UNCHANGED vars
  BY <1>10 DEF vars, TypeOK, RequestsInOrder, OrdersOwned
<1> QED
  BY <1>2, <1>3, <1>4, <1>5, <1>7, <1>8, <1>9, <1>10 DEF Next

\* The tables and requests of the initial state.
LEMMA WellFormedInit == Init => WellFormed
<1> SUFFICES ASSUME Init PROVE WellFormed
  OBVIOUS
<1>1. Absent \in OrderRow /\ Absent.status \notin Active
  BY EmptySeq DEF Absent, OrderRow, Active, OrderStatus
<1>2. TypeOK
  <2>1. Idle \in RequestRow
    BY EmptySeq
    DEF Idle, RequestRow, Places, PriceLists, PricesOfItems, ColumnsOfItems
  <2> QED BY <1>1, <2>1, TablesAssumption DEF Init, TypeOK, Phases
<1>3. RequestsInOrder
  BY DEF Init, RequestsInOrder, InOrder, Idle
<1>4. OrdersOwned
  BY <1>1 DEF Init, OrdersOwned
<1> QED BY <1>2, <1>3, <1>4 DEF WellFormed

-----------------------------------------------------------------------------
(* The funds.                                                              *)

TotalAmounts == [o \in Orders |-> orders[o].total_amount]

ActiveOrders(u) == {o \in Orders : orders[o].user = u /\ orders[o].status \in Active}

\* When one order changes, what a user's active orders cost changes by it alone.
LEMMA ChargeChanges ==
    ASSUME TypeOK, TypeOK', NEW u \in Users, NEW o \in Orders,
           \A x \in Orders \ {o} : orders'[x] = orders[x]
    PROVE  /\ Total(TotalAmounts, ActiveOrders(u)) \in Nat
           /\ Total(TotalAmounts, ActiveOrders(u))' =
                 Total(TotalAmounts, ActiveOrders(u))
                 - (IF o \in ActiveOrders(u) THEN orders[o].total_amount ELSE 0)
                 + (IF o \in ActiveOrders(u)' THEN orders'[o].total_amount ELSE 0)
<1> DEFINE f == TotalAmounts
           f2 == TotalAmounts'
           S == ActiveOrders(u)
           S2 == ActiveOrders(u)'
<1>1. IsFiniteSet(S) /\ IsFiniteSet(S2)
  <2>1. S \subseteq Orders /\ S2 \subseteq Orders
    BY DEF ActiveOrders
  <2> QED BY <2>1, FiniteAssumption, FS_Subset
<1>2. \A y \in S : f[y] \in Nat
  BY DEF TypeOK, OrderRow, TotalAmounts, ActiveOrders
<1>3. \A y \in S2 : f2[y] \in Nat
  BY DEF TypeOK, OrderRow, TotalAmounts, ActiveOrders
<1>4. S2 \ {o} = S \ {o}
  BY DEF ActiveOrders
<1>5. \A y \in S \ {o} : f2[y] = f[y]
  BY DEF ActiveOrders, TotalAmounts
<1>6. f[o] = orders[o].total_amount /\ f2[o] = orders'[o].total_amount
  BY DEF TotalAmounts
<1> HIDE DEF f, f2, S, S2
<1>7. Total(f, S) \in Nat
  BY <1>1, <1>2, TotalType
<1>8. Total(f2, S2) = Total(f, S) - Part(f, S, o) + Part(f2, S2, o)
  BY <1>1, <1>2, <1>3, <1>4, <1>5, TotalRewrite
<1> QED BY <1>6, <1>7, <1>8 DEF Part, f, f2, S, S2, Total, Coins

\* A step that leaves the orders alone leaves what they cost alone.
LEMMA ChargeStays ==
    ASSUME UNCHANGED orders, NEW u \in Users
    PROVE  Total(TotalAmounts, ActiveOrders(u))' = Total(TotalAmounts, ActiveOrders(u))
BY DEF TotalAmounts, ActiveOrders, Total, Coins

FundsMatch ==
    \A u \in Users : /\ available[u] >= 0
                     /\ Funds[u] = available[u] + Total(TotalAmounts, ActiveOrders(u))

\* Every step keeps each user's account: what is available and what active orders
\* took add up to what the user had, and nothing is below zero.
LEMMA FundsStep == WellFormed /\ FundsMatch /\ [Next]_vars => FundsMatch'
<1> SUFFICES ASSUME WellFormed, FundsMatch, [Next]_vars PROVE FundsMatch'
  OBVIOUS
<1>1. TypeOK /\ TypeOK' /\ OrdersOwned
  BY WellFormedStep DEF WellFormed
<1>2. \A u \in Users : available[u] \in Int
  BY <1>1 DEF TypeOK
<1>3. ASSUME NEW w \in Workers, Create(w) PROVE FundsMatch'
  <2>1. PICK o \in Orders :
           /\ orders[o] = Absent
           /\ orders'[o].status = "confirmed" /\ orders'[o].user = req[w].user
           /\ req[w].user \in Users
           /\ orders'[o].total_amount = Cost(w) /\ Cost(w) \in Nat
           /\ \A x \in Orders \ {o} : orders'[x] = orders[x]
    BY <1>3, OrderPlaced
  <2>2. \A u \in Users : o \notin ActiveOrders(u)
    BY <2>1 DEF ActiveOrders, Absent, Active, OrderStatus
  <2>3. \A u \in Users : o \in ActiveOrders(u)' <=> u = req[w].user
    BY <2>1 DEF ActiveOrders, Active, OrderStatus
  <2>4. /\ available[req[w].user] >= Cost(w)
        /\ available' = [available EXCEPT ![req[w].user] = @ - Cost(w)]
    BY <1>3 DEF Create, FundsSuffice
  <2>5. ASSUME NEW u \in Users
        PROVE  /\ available'[u] >= 0
               /\ Funds[u] = available'[u] + Total(TotalAmounts, ActiveOrders(u))'
    <3> DEFINE t == Total(TotalAmounts, ActiveOrders(u))
               t2 == Total(TotalAmounts, ActiveOrders(u))'
    <3>1. t \in Nat /\ t2 = t + (IF u = req[w].user THEN Cost(w) ELSE 0)
      BY <1>1, <2>1, <2>2, <2>3, ChargeChanges
    <3>2. available'[u] = IF u = req[w].user THEN available[u] - Cost(w) ELSE available[u]
      BY <1>1, <2>4 DEF TypeOK
    <3>3. available[u] >= 0 /\ Funds[u] = available[u] + t
      BY DEF FundsMatch
    <3> HIDE DEF t, t2
    <3>4. available'[u] >= 0 /\ Funds[u] = available'[u] + t2
      BY <1>2, <2>1, <2>4, <3>1, <3>2, <3>3
    <3> QED BY <3>4 DEF t2
  <2> QED BY <2>5 DEF FundsMatch
<1>4. ASSUME NEW o \in Orders, Cancel(o) \/ Refund(o) PROVE FundsMatch'
  <2>1. orders[o].status \in Active /\ GiveBack(o) /\ "cancelled" \in OrderStatus
    BY <1>4 DEF Cancel, Refund, Active, OrderStatus
  <2>2. /\ orders'[o].status = "cancelled"
        /\ \A x \in Orders \ {o} : orders'[x] = orders[x]
        /\ orders[o].user \in Users
    BY <1>1, <2>1, OrderMoves DEF GiveBack
  <2>3. orders[o].total_amount \in Nat
    BY <1>1 DEF TypeOK, OrderRow
  <2>4. \A u \in Users : /\ o \notin ActiveOrders(u)'
                         /\ o \in ActiveOrders(u) <=> u = orders[o].user
    BY <2>1, <2>2 DEF ActiveOrders, Active
  <2>5. available' = [available EXCEPT ![orders[o].user] = @ + orders[o].total_amount]
    BY <2>1 DEF GiveBack
  <2>6. ASSUME NEW u \in Users
        PROVE  /\ available'[u] >= 0
               /\ Funds[u] = available'[u] + Total(TotalAmounts, ActiveOrders(u))'
    <3> DEFINE t == Total(TotalAmounts, ActiveOrders(u))
               t2 == Total(TotalAmounts, ActiveOrders(u))'
               a == orders[o].total_amount
    <3>1. t \in Nat /\ t2 = t - (IF u = orders[o].user THEN a ELSE 0)
      BY <1>1, <2>2, <2>3, <2>4, ChargeChanges
    <3>2. available'[u] = IF u = orders[o].user THEN available[u] + a ELSE available[u]
      BY <1>1, <2>5 DEF TypeOK
    <3>3. available[u] >= 0 /\ Funds[u] = available[u] + t
      BY DEF FundsMatch
    <3>4. a \in Nat
      BY <2>3
    <3> HIDE DEF t, t2, a
    <3>5. available'[u] >= 0 /\ Funds[u] = available'[u] + t2
      BY <1>2, <3>1, <3>2, <3>3, <3>4
    <3> QED BY <3>5 DEF t2
  <2> QED BY <2>6 DEF FundsMatch
<1>5. ASSUME NEW o \in Orders, Advance(o) PROVE FundsMatch'
  <2>1. PICK s \in Active : orders[o].status \in Active /\ orders' = [orders EXCEPT ![o].status = s]
    BY <1>5, AdvanceEffect
  <2>2. /\ orders'[o].status = s /\ orders'[o].user = orders[o].user
        /\ orders'[o].total_amount = orders[o].total_amount
        /\ \A x \in Orders \ {o} : orders'[x] = orders[x]
    BY <1>1, <2>1, OrderMoves DEF Active
  <2>3. \A u \in Users : Total(TotalAmounts, ActiveOrders(u))' = Total(TotalAmounts, ActiveOrders(u))
    <3>1. \A u \in Users : ActiveOrders(u)' = ActiveOrders(u)
      BY <2>1, <2>2 DEF ActiveOrders
    <3>2. TotalAmounts' = TotalAmounts
      BY <2>2 DEF TotalAmounts
    <3> QED BY <3>1, <3>2 DEF Total, Coins
  <2>4. UNCHANGED available
    BY <1>5 DEF Advance
  <2> QED BY <2>3, <2>4 DEF FundsMatch
<1>6. CASE UNCHANGED <<orders, available>>
  BY <1>6, ChargeStays DEF FundsMatch
<1> QED
  BY <1>3, <1>4, <1>5, <1>6
  DEF Next, vars, Receive, CheckLine, CheckAgainst, CheckMenuAndFunds, InsertLines, Priced,
      RollBack, WorkerDies, EditMenuItem, EditItem, Edit, TimePasses

\* Before the first order everything is available.
LEMMA FundsInit == Init => FundsMatch
<1> SUFFICES ASSUME Init, NEW u \in Users
             PROVE  /\ available[u] >= 0
                    /\ Funds[u] = available[u] + Total(TotalAmounts, ActiveOrders(u))
  BY DEF FundsMatch
<1>1. ActiveOrders(u) = {}
  BY DEF Init, ActiveOrders, Absent, Active, OrderStatus
<1>2. Total(TotalAmounts, ActiveOrders(u)) = 0
  BY <1>1, TotalEmpty
<1>3. available[u] = Funds[u] /\ Funds[u] \in Nat
  BY TablesAssumption DEF Init
<1> QED BY <1>2, <1>3

\* For every number of users, workers and orders, all prices and edits: no user
\* overdraws, although validate() reads the funds without a lock.
THEOREM FundsAreNeverOverdrawn == Spec => []NeverOverdrawn
<1>1. FundsMatch => NeverOverdrawn
  BY DEF FundsMatch, NeverOverdrawn
<1>2. Init => WellFormed /\ FundsMatch
  BY WellFormedInit, FundsInit
<1>3. WellFormed /\ FundsMatch /\ [Next]_vars => WellFormed' /\ FundsMatch'
  BY WellFormedStep, FundsStep
<1> QED BY <1>1, <1>2, <1>3, PTL DEF Spec

\* For the same, what a user had is what is available and what the user's active
\* orders took.
THEOREM FundsAreAccounted == Spec => []FundsAccounted
<1>1. FundsMatch => FundsAccounted
  BY DEF FundsMatch, FundsAccounted, TotalAmounts, ActiveOrders
<1>2. Init => WellFormed /\ FundsMatch
  BY WellFormedInit, FundsInit
<1>3. WellFormed /\ FundsMatch /\ [Next]_vars => WellFormed' /\ FundsMatch'
  BY WellFormedStep, FundsStep
<1> QED BY <1>1, <1>2, <1>3, PTL DEF Spec

-----------------------------------------------------------------------------
(* The prices.                                                             *)

\* A request remembers the price that is in force of each of its items.
Remembers(w) ==
    \A n \in DOMAIN req[w].lines :
        <<req[w].lines[n].item, PriceNow(req[w].lines[n].item)>> \in req[w].offered

\* Of each line that was checked, it has the override_price of now, unless that was
\* edited since; with the base_price of now it makes a price that was in force,
\* unless that was edited since.
Explains(w) ==
    req[w].at \in {"validating", "creating"} =>
        \A n \in DOMAIN req[w].lines \cap DOMAIN req[w].prices :
            LET i == req[w].lines[n].item IN
            /\ \/ req[w].prices[n] = items[i].override_price
               \/ <<i, "override_price">> \in req[w].edited
            /\ \/ <<i, UnitPrice(req[w].prices[n], items[i].base_price)>> \in req[w].offered
               \/ <<i, "base_price">> \in req[w].edited

\* What SoldAtOfferedPrice says of one request.
Sells(w) ==
    req[w].at = "holding" =>
        \A n \in DOMAIN req[w].lines :
            LET i == req[w].lines[n].item IN
            \/ <<i, req[w].prices[n]>> \in req[w].offered
            \/ {<<i, "override_price">>, <<i, "base_price">>} \subseteq req[w].edited

Prices(w) == Remembers(w) /\ Explains(w) /\ Sells(w)

\* A worker that ends a request has nothing to account for.
LEMMA IdlePrices ==
    ASSUME TypeOK, NEW w \in Workers, Finish(w)
    PROVE  Prices(w)'
<1>1. req'[w] = Idle
  BY DEF Finish, TypeOK
<1>2. req'[w].at = "idle" /\ DOMAIN req'[w].lines = {}
  BY <1>1 DEF Idle
<1> QED BY <1>2 DEF Prices, Remembers, Explains, Sells

\* A line that was checked has the override_price its menu item has at that moment.
LEMMA CheckedPrices ==
    ASSUME WellFormed, NEW w \in Workers, Prices(w), CheckLine(w)
    PROVE  Prices(w)'
<1> USE DEF WellFormed
<1>1. CASE Finish(w)
  BY <1>1, IdlePrices
<1>2. CASE ~Finish(w)
  <2> DEFINE m == req[w].checked + 1
             p == items[req[w].lines[m].item].override_price
             ps == Append(req[w].prices, p)
  <2>1. req' = [req EXCEPT ![w] = [req[w] EXCEPT !.checked = m, !.prices = ps]] /\ UNCHANGED items
    BY <1>2 DEF CheckLine, CheckAgainst
  <2>2. /\ req[w] \in RequestRow /\ req[w].prices \in PriceLists
        /\ Len(req[w].prices) = req[w].checked /\ req[w].at = "validating"
        /\ m \in DOMAIN req[w].lines
    BY DEF CheckLine, CheckAgainst, TypeOK, RequestRow, RequestsInOrder, InOrder
  <2>3. p \in Nat \cup {NoPrice}
    BY LineChecked, LinesOf, ItemColumns, <2>2 DEF TypeOK, RequestRow
  <2> HIDE DEF p
  <2>4. /\ DOMAIN ps = 1..m /\ DOMAIN req[w].prices = 1..(m - 1) /\ m \in Nat
        /\ ps[m] = p /\ \A n \in 1..(m - 1) : ps[n] = req[w].prices[n]
    BY <2>2, <2>3, AppendProperties, LenProperties DEF PriceLists, RequestRow
  <2> HIDE DEF ps, m
  <2>5. /\ req'[w].at = "validating" /\ req'[w].lines = req[w].lines /\ req'[w].prices = ps
        /\ req'[w].offered = req[w].offered /\ req'[w].edited = req[w].edited
    BY <2>1, <2>2 DEF TypeOK, RequestRow
  <2>6. Remembers(w)'
    BY <2>1, <2>5 DEF Prices, Remembers, PriceNow
  <2>7. Sells(w)'
    BY <2>5 DEF Sells
  <2>8. ASSUME NEW n \in DOMAIN req[w].lines \cap DOMAIN ps
        PROVE  LET i == req[w].lines[n].item IN
               /\ ps[n] = items[i].override_price \/ <<i, "override_price">> \in req[w].edited
               /\ \/ <<i, UnitPrice(ps[n], items[i].base_price)>> \in req[w].offered
                  \/ <<i, "base_price">> \in req[w].edited
    <3>1. CASE n = m
      BY <2>4, <3>1 DEF Prices, Remembers, PriceNow, p
    <3>2. CASE n # m
      <4>1. n \in DOMAIN req[w].prices /\ ps[n] = req[w].prices[n]
        BY <2>4, <3>2
      <4> QED BY <2>2, <2>8, <4>1 DEF Prices, Explains
    <3> QED BY <3>1, <3>2
  <2>9. Explains(w)'
    BY <2>1, <2>5, <2>8 DEF Explains
  <2> QED BY <2>6, <2>7, <2>9 DEF Prices
<1> QED BY <1>1, <1>2

\* A line that is priced has a price that was offered, unless both columns were
\* edited since it was checked.
LEMMA InsertedPrices ==
    ASSUME WellFormed, NEW w \in Workers, Prices(w), InsertLines(w)
    PROVE  Prices(w)'
<1> USE DEF WellFormed
<1>1. /\ req' = [req EXCEPT ![w] = [req[w] EXCEPT !.at = "holding", !.prices = InsertedAt(w)]]
      /\ UNCHANGED items /\ req[w].at = "creating"
  BY DEF InsertLines, Priced, InsertedAt
<1>2. req[w] \in RequestRow /\ DOMAIN req[w].prices = DOMAIN req[w].lines
  BY <1>1, LinesInserted DEF TypeOK
<1>3. /\ req'[w].at = "holding" /\ req'[w].lines = req[w].lines
      /\ req'[w].prices = InsertedAt(w)
      /\ req'[w].offered = req[w].offered /\ req'[w].edited = req[w].edited
  BY <1>1, <1>2 DEF TypeOK, RequestRow
<1>4. ASSUME NEW n \in DOMAIN req[w].lines
      PROVE  LET i == req[w].lines[n].item IN
             \/ <<i, InsertedAt(w)[n]>> \in req[w].offered
             \/ {<<i, "override_price">>, <<i, "base_price">>} \subseteq req[w].edited
  <2> DEFINE i == req[w].lines[n].item
  <2>1. InsertedAt(w)[n] = UnitPrice(req[w].prices[n], items[i].base_price)
    BY DEF InsertedAt
  <2>2. <<i, PriceNow(i)>> \in req[w].offered
    BY DEF Prices, Remembers
  <2>3. /\ req[w].prices[n] = items[i].override_price \/ <<i, "override_price">> \in req[w].edited
        /\ \/ <<i, UnitPrice(req[w].prices[n], items[i].base_price)>> \in req[w].offered
           \/ <<i, "base_price">> \in req[w].edited
    BY <1>1, <1>2 DEF Prices, Explains
  <2> QED BY <2>1, <2>2, <2>3 DEF PriceNow
<1>5. Sells(w)'
  BY <1>3, <1>4 DEF Sells
<1>6. Remembers(w)'
  BY <1>1, <1>3 DEF Prices, Remembers, PriceNow
<1>7. Explains(w)'
  BY <1>3 DEF Explains
<1> QED BY <1>5, <1>6, <1>7 DEF Prices

\* An edit of one column adds the new price to what was offered, and the column to
\* what was edited.
LEMMA EditedPrices ==
    ASSUME WellFormed, NEW i \in Items, NEW row \in ItemRow, NEW column \in Columns,
           Edit(i, row, column), NEW w \in Workers, Prices(w),
           column = "override_price" => row.base_price = items[i].base_price,
           column = "base_price" => row.override_price = items[i].override_price
    PROVE  Prices(w)'
<1> USE DEF WellFormed
<1> DEFINE price == UnitPrice(row.override_price, row.base_price)
<1>1. /\ items'[i] = row /\ \A j \in Items \ {i} : items'[j] = items[j]
  <2>1. items' = [items EXCEPT ![i] = row]
    BY DEF Edit
  <2> QED BY <2>1 DEF TypeOK
<1>2. /\ req[w] \in RequestRow
      /\ \A n \in DOMAIN req[w].lines : req[w].lines[n].item \in Items
  BY LinesOf DEF TypeOK, RequestRow
<1>3. CASE req'[w] = req[w] /\ \A n \in DOMAIN req[w].lines : req[w].lines[n].item # i
  <2>1. \A n \in DOMAIN req[w].lines :
           items'[req[w].lines[n].item] = items[req[w].lines[n].item]
    BY <1>1, <1>2, <1>3
  <2> QED BY <1>3, <2>1 DEF Prices, Remembers, Explains, Sells, PriceNow
<1>4. CASE req'[w] = Remembering(req[w], i, price, column)
  <2>1. /\ req'[w].at = req[w].at /\ req'[w].lines = req[w].lines
        /\ req'[w].prices = req[w].prices
        /\ req'[w].offered = req[w].offered \cup {<<i, price>>}
        /\ req'[w].edited = req[w].edited \cup {<<i, column>>}
    BY <1>2, <1>4 DEF RequestRow, Remembering
  <2>2. Remembers(w)'
    <3> SUFFICES ASSUME NEW n \in DOMAIN req[w].lines
                 PROVE  LET j == req[w].lines[n].item
                        IN  <<j, UnitPrice(items'[j].override_price, items'[j].base_price)>>
                                \in req'[w].offered
      BY <2>1 DEF Remembers, PriceNow
    <3> QED BY <1>1, <1>2, <2>1 DEF Prices, Remembers, PriceNow
  <2>3. Sells(w)'
    BY <2>1 DEF Prices, Sells
  <2>4. Explains(w)'
    <3> SUFFICES ASSUME req[w].at \in {"validating", "creating"},
                        NEW n \in DOMAIN req[w].lines \cap DOMAIN req[w].prices
                 PROVE  LET j == req[w].lines[n].item IN
                        /\ \/ req[w].prices[n] = items'[j].override_price
                           \/ <<j, "override_price">> \in req'[w].edited
                        /\ \/ <<j, UnitPrice(req[w].prices[n], items'[j].base_price)>>
                                 \in req'[w].offered
                           \/ <<j, "base_price">> \in req'[w].edited
      BY <2>1 DEF Explains
    <3> DEFINE j == req[w].lines[n].item
    <3>1. /\ req[w].prices[n] = items[j].override_price \/ <<j, "override_price">> \in req[w].edited
          /\ \/ <<j, UnitPrice(req[w].prices[n], items[j].base_price)>> \in req[w].offered
             \/ <<j, "base_price">> \in req[w].edited
      BY DEF Prices, Explains
    <3>2. CASE j # i
      BY <1>1, <1>2, <2>1, <3>1, <3>2
    <3>3. CASE j = i /\ column = "override_price"
      BY <1>1, <2>1, <3>1, <3>3
    <3>4. CASE j = i /\ column = "base_price"
      BY <1>1, <2>1, <3>1, <3>4
    <3> QED BY <3>2, <3>3, <3>4 DEF Columns
  <2> QED BY <2>2, <2>3, <2>4 DEF Prices
<1>5. \/ req'[w] = req[w] /\ \A n \in DOMAIN req[w].lines : req[w].lines[n].item # i
      \/ req'[w] = Remembering(req[w], i, price, column)
  BY EditEffect
<1> HIDE DEF price
<1> QED BY <1>3, <1>4, <1>5

\* Every step keeps what is known of the prices of every request.
LEMMA PricesStep ==
    WellFormed /\ (\A w \in Workers : Prices(w)) /\ [Next]_vars => (\A w \in Workers : Prices(w))'
<1> SUFFICES ASSUME WellFormed, \A w \in Workers : Prices(w), [Next]_vars
             PROVE  (\A w \in Workers : Prices(w))'
  OBVIOUS
<1> USE DEF WellFormed
<1>1. ASSUME NEW w \in Workers, UNCHANGED items, Prices(w)',
             \A x \in Workers \ {w} : req'[x] = req[x]
      PROVE  (\A x \in Workers : Prices(x))'
  <2> SUFFICES ASSUME NEW x \in Workers \ {w} PROVE Prices(x)'
    BY <1>1
  <2>1. Prices(x) /\ req'[x] = req[x] /\ items' = items
    BY <1>1
  <2> QED BY <2>1 DEF Prices, Remembers, Explains, Sells, PriceNow
<1>2. ASSUME NEW w \in Workers, Finish(w), UNCHANGED items
      PROVE  (\A x \in Workers : Prices(x))'
  BY <1>1, <1>2, IdlePrices DEF Finish, TypeOK
<1>3. ASSUME NEW w \in Workers, Receive(w) PROVE (\A x \in Workers : Prices(x))'
  <2>1. PICK u \in Users, lines \in Baskets : req' = [req EXCEPT ![w] = Request(u, lines)]
    BY <1>3 DEF Receive
  <2>2. UNCHANGED items
    BY <1>3 DEF Receive
  <2>3. /\ req'[w].at = "validating" /\ req'[w].lines = lines /\ req'[w].prices = <<>>
        /\ req'[w].offered = {<<i, PriceNow(i)>> : i \in {lines[n].item : n \in DOMAIN lines}}
    BY <2>1 DEF TypeOK, Request
  <2>4. Remembers(w)'
    BY <2>2, <2>3 DEF Remembers, PriceNow
  <2>5. Explains(w)' /\ Sells(w)'
    <3>1. DOMAIN req'[w].prices = {}
      BY <2>3
    <3> QED BY <2>3, <3>1 DEF Explains, Sells
  <2>6. \A x \in Workers \ {w} : req'[x] = req[x]
    BY <2>1 DEF TypeOK
  <2> QED BY <1>1, <2>2, <2>4, <2>5, <2>6 DEF Prices
<1>4. ASSUME NEW w \in Workers, CheckLine(w) PROVE (\A x \in Workers : Prices(x))'
  BY <1>1, <1>4, CheckedPrices DEF CheckLine, CheckAgainst, Finish, TypeOK
<1>5. ASSUME NEW w \in Workers, CheckMenuAndFunds(w) PROVE (\A x \in Workers : Prices(x))'
  <2>1. CASE Finish(w)
    BY <1>2, <1>5, <2>1 DEF CheckMenuAndFunds
  <2>2. CASE ~Finish(w)
    <3>1. /\ req' = [req EXCEPT ![w] = [req[w] EXCEPT !.at = "creating"]]
          /\ UNCHANGED items /\ req[w].at = "validating"
      BY <1>5, <2>2 DEF CheckMenuAndFunds
    <3>2. /\ req'[w].at = "creating" /\ req'[w].lines = req[w].lines
          /\ req'[w].prices = req[w].prices
          /\ req'[w].offered = req[w].offered /\ req'[w].edited = req[w].edited
          /\ \A x \in Workers \ {w} : req'[x] = req[x]
      BY <3>1 DEF TypeOK, RequestRow
    <3>3. Prices(w)'
      BY <3>1, <3>2 DEF Prices, Remembers, Explains, Sells, PriceNow
    <3> QED BY <1>1, <3>1, <3>2, <3>3
  <2> QED BY <2>1, <2>2
<1>6. ASSUME NEW w \in Workers, InsertLines(w) PROVE (\A x \in Workers : Prices(x))'
  BY <1>1, <1>6, InsertedPrices DEF InsertLines, Priced, TypeOK
<1>7. ASSUME NEW w \in Workers, Create(w) \/ RollBack(w) \/ WorkerDies(w)
      PROVE  (\A x \in Workers : Prices(x))'
  BY <1>2, <1>7 DEF Create, RollBack, WorkerDies
<1>8. ASSUME NEW i \in Items, EditMenuItem(i) \/ EditItem(i) PROVE (\A x \in Workers : Prices(x))'
  <2>1. PICK row \in ItemRow, column \in Columns :
           /\ Edit(i, row, column)
           /\ column = "override_price" => row.base_price = items[i].base_price
           /\ column = "base_price" => row.override_price = items[i].override_price
    BY <1>8, EditedRow DEF Columns
  <2> QED BY <2>1, EditedPrices
<1>9. CASE UNCHANGED <<items, req>>
  BY <1>9 DEF Prices, Remembers, Explains, Sells, PriceNow
<1> QED
  BY <1>3, <1>4, <1>5, <1>6, <1>7, <1>8, <1>9
  DEF Next, vars, Cancel, Refund, GiveBack, Advance, TimePasses

\* For all prices and edits: a line is sold at a price that was in force while its
\* request was served, unless both columns of its price were edited meanwhile.
THEOREM PricesWereOffered == Spec => []SoldAtOfferedPrice
<1> DEFINE PInv == \A w \in Workers : Prices(w)
<1>1. PInv => SoldAtOfferedPrice
  BY DEF Prices, Sells, SoldAtOfferedPrice
<1>2. Init => WellFormed /\ PInv
  <2>1. Init => PInv
    BY DEF Init, Idle, Prices, Remembers, Explains, Sells
  <2> QED BY <2>1, WellFormedInit
<1>3. WellFormed /\ PInv /\ [Next]_vars => WellFormed' /\ PInv'
  BY WellFormedStep, PricesStep
<1> HIDE DEF PInv
<1> QED BY <1>1, <1>2, <1>3, PTL DEF Spec

-----------------------------------------------------------------------------
(* Orders placed after the menu has started.                               *)

Belated == {o \in Orders : orders[o].belated}

\* The workers that have the answer of validate() and still act on it.
InFlight == {w \in Workers : req[w].at \in {"creating", "holding"}}

LateOrdersMatch ==
    IF phase = "started"
    THEN Cardinality(Belated) + Cardinality(InFlight) <= Cardinality(Workers)
    ELSE Belated = {}

\* Both sets are finite.
LEMMA LateIsFinite ==
    ASSUME TypeOK
    PROVE  /\ IsFiniteSet(Belated) /\ Cardinality(Belated) \in Nat
           /\ IsFiniteSet(InFlight) /\ Cardinality(InFlight) \in Nat
           /\ Cardinality(InFlight) <= Cardinality(Workers)
           /\ Cardinality(Workers) \in Nat
<1>1. Belated \subseteq Orders /\ InFlight \subseteq Workers
  BY DEF Belated, InFlight
<1> QED BY <1>1, FiniteAssumption, FS_Subset, FS_CardinalityType

\* A step that places no order and lets no request pass the check of the menu.
LEMMA NoneLater ==
    ASSUME TypeOK, LateOrdersMatch, phase' = phase,
           Belated' = Belated, InFlight' \subseteq InFlight
    PROVE  LateOrdersMatch'
<1>1. Cardinality(InFlight') \in Nat /\ Cardinality(InFlight') <= Cardinality(InFlight)
  BY LateIsFinite, FS_Subset, FS_CardinalityType
<1> QED BY <1>1, LateIsFinite DEF LateOrdersMatch

\* While the menu has not started, nothing that is placed is late.
LEMMA NoneYet ==
    ASSUME LateOrdersMatch, phase # "started", phase' = phase, Belated' = Belated
    PROVE  LateOrdersMatch'
BY DEF LateOrdersMatch

\* An order that is placed uses up the request that placed it.
LEMMA PlacedLate ==
    ASSUME TypeOK, LateOrdersMatch, NEW w \in Workers, Create(w)
    PROVE  LateOrdersMatch'
<1>1. PICK o \in Orders :
         /\ orders[o] = Absent
         /\ orders' = [orders EXCEPT ![o] =
               [status |-> "confirmed", user |-> req[w].user, lines |-> req[w].lines,
                total_amount |-> Cost(w), belated |-> phase = "started"]]
  BY DEF Create
<1>2. phase' = phase /\ req' = [req EXCEPT ![w] = Idle] /\ w \in InFlight
  BY DEF Create, Finish, InFlight
<1>3. InFlight' = InFlight \ {w}
  BY <1>2 DEF TypeOK, InFlight, Idle
<1>4. o \notin Belated
  BY <1>1 DEF Belated, Absent
<1>5. CASE phase # "started"
  <2>1. Belated' = Belated
    BY <1>1, <1>4, <1>5 DEF TypeOK, Belated
  <2> QED BY <1>2, <1>5, <2>1, NoneYet
<1>6. CASE phase = "started"
  <2>1. Belated' = Belated \cup {o}
    BY <1>1, <1>6 DEF TypeOK, Belated
  <2>2. Cardinality(Belated') = Cardinality(Belated) + 1
    BY <1>4, <2>1, LateIsFinite, FS_AddElement
  <2>3. Cardinality(InFlight') = Cardinality(InFlight) - 1
    BY <1>2, <1>3, LateIsFinite, FS_RemoveElement
  <2> QED BY <1>2, <1>6, <2>2, <2>3, LateIsFinite DEF LateOrdersMatch
<1> QED BY <1>5, <1>6

\* Every step keeps late orders and requests in flight within the workers.
LEMMA LateOrdersStep == WellFormed /\ LateOrdersMatch /\ [Next]_vars => LateOrdersMatch'
<1> SUFFICES ASSUME WellFormed, LateOrdersMatch, [Next]_vars PROVE LateOrdersMatch'
  OBVIOUS
<1> USE DEF WellFormed
<1>1. ASSUME NEW w \in Workers, Receive(w) PROVE LateOrdersMatch'
  <2>1. Belated' = Belated /\ phase' = phase
    BY <1>1 DEF Receive, Belated
  <2>2. InFlight' \subseteq InFlight
    BY <1>1 DEF Receive, Request, InFlight, TypeOK
  <2> QED BY <2>1, <2>2, NoneLater
<1>2. ASSUME NEW w \in Workers, CheckLine(w) PROVE LateOrdersMatch'
  <2>1. Belated' = Belated /\ phase' = phase
    BY <1>2 DEF CheckLine, CheckAgainst, Belated
  <2>2. InFlight' \subseteq InFlight
    <3>1. CASE Finish(w)
      BY <3>1 DEF Finish, Idle, InFlight, TypeOK
    <3>2. CASE ~Finish(w)
      <4> DEFINE n == req[w].checked + 1
                 prices == Append(req[w].prices, items[req[w].lines[n].item].override_price)
      <4>1. req' = [req EXCEPT ![w] = [req[w] EXCEPT !.checked = n, !.prices = prices]]
        BY <1>2, <3>2 DEF CheckLine, CheckAgainst
      <4> HIDE DEF n, prices
      <4>2. \A x \in Workers : req'[x].at = req[x].at
        BY <4>1 DEF TypeOK, RequestRow
      <4> QED BY <4>2 DEF InFlight
    <3> QED BY <3>1, <3>2
  <2> QED BY <2>1, <2>2, NoneLater
<1>3. ASSUME NEW w \in Workers, CheckMenuAndFunds(w) PROVE LateOrdersMatch'
  <2>1. Belated' = Belated /\ phase' = phase
    BY <1>3 DEF CheckMenuAndFunds, Belated
  <2>2. CASE phase # "started"
    BY <2>1, <2>2, NoneYet
  <2>3. CASE phase = "started"
    <3>1. InFlight' \subseteq InFlight
      BY <1>3, <2>3 DEF CheckMenuAndFunds, Finish, Idle, InFlight, TypeOK
    <3> QED BY <2>1, <3>1, NoneLater
  <2> QED BY <2>2, <2>3
<1>4. ASSUME NEW w \in Workers, InsertLines(w) PROVE LateOrdersMatch'
  <2>1. Belated' = Belated /\ phase' = phase
    BY <1>4 DEF InsertLines, Priced, Belated
  <2>2. w \in InFlight /\ \A x \in Workers \ {w} : req'[x] = req[x]
    BY <1>4 DEF InsertLines, Priced, InFlight, TypeOK
  <2> QED BY <2>1, <2>2, NoneLater DEF InFlight
<1>5. ASSUME NEW w \in Workers, RollBack(w) \/ WorkerDies(w) PROVE LateOrdersMatch'
  <2>1. UNCHANGED <<orders, phase>> /\ Finish(w)
    BY <1>5 DEF RollBack, WorkerDies
  <2>2. Belated' = Belated
    BY <2>1 DEF Belated
  <2>3. InFlight' \subseteq InFlight
    BY <2>1 DEF Finish, Idle, InFlight, TypeOK
  <2> QED BY <2>1, <2>2, <2>3, NoneLater
<1>6. ASSUME NEW i \in Items, EditMenuItem(i) \/ EditItem(i) PROVE LateOrdersMatch'
  <2>1. PICK row \in ItemRow, column \in Columns : Edit(i, row, column)
    BY <1>6, EditedRow DEF Columns
  <2>2. Belated' = Belated /\ phase' = phase
    BY <2>1 DEF Edit, Belated
  <2>3. ASSUME NEW w \in Workers PROVE req'[w].at = req[w].at
    <3>1. \/ req'[w] = req[w]
          \/ req'[w] = Remembering(req[w], i,
                                   UnitPrice(row.override_price, row.base_price), column)
      BY <2>1, EditEffect
    <3> QED BY <3>1 DEF Remembering, TypeOK, RequestRow
  <2> QED BY <2>2, <2>3, NoneLater DEF InFlight
<1>7. ASSUME NEW o \in Orders, NEW status,
             orders' = [orders EXCEPT ![o].status = status], UNCHANGED <<phase, req>>
      PROVE  LateOrdersMatch'
  <2>1. \A x \in Orders : orders'[x].belated = orders[x].belated
    BY <1>7 DEF TypeOK, OrderRow
  <2>2. Belated' = Belated /\ InFlight' = InFlight
    BY <1>7, <2>1 DEF Belated, InFlight
  <2> QED BY <1>7, <2>2, NoneLater
<1>8. ASSUME NEW o \in Orders, Cancel(o) \/ Refund(o) \/ Advance(o) PROVE LateOrdersMatch'
  BY <1>7, <1>8 DEF Cancel, Refund, GiveBack, Advance
<1>9. CASE TimePasses
  <2>1. Belated' = Belated /\ InFlight' = InFlight /\ Belated = {} /\ phase # "started"
    BY <1>9 DEF TimePasses, LateOrdersMatch, Belated, InFlight
  <2>2. Cardinality(Belated) = 0
    BY <2>1, FS_EmptySet
  <2> QED BY <2>1, <2>2, LateIsFinite DEF LateOrdersMatch
<1>10. CASE UNCHANGED vars
  BY <1>10, NoneLater DEF vars, Belated, InFlight
<1> QED
  BY <1>1, <1>2, <1>3, <1>4, <1>5, <1>6, <1>8, <1>9, <1>10, PlacedLate DEF Next

\* For every number of workers and orders: once the menu has started, at most one
\* order per worker is still placed, the ones whose check was done before.
THEOREM LateOrdersAreBounded == Spec => []BelatedAtMost
<1>1. WellFormed /\ LateOrdersMatch => BelatedAtMost
  <2> SUFFICES ASSUME TypeOK, LateOrdersMatch
               PROVE  Cardinality(Belated) <= Cardinality(Workers)
    BY DEF WellFormed, BelatedAtMost, Belated
  <2>1. CASE phase = "started"
    BY <2>1, LateIsFinite DEF LateOrdersMatch
  <2>2. CASE phase # "started"
    BY <2>2, LateIsFinite, FS_EmptySet DEF LateOrdersMatch
  <2> QED BY <2>1, <2>2
<1>2. Init => WellFormed /\ LateOrdersMatch
  <2>1. Init => LateOrdersMatch
    BY DEF Init, Absent, LateOrdersMatch, Belated
  <2> QED BY <2>1, WellFormedInit
<1>3. WellFormed /\ LateOrdersMatch /\ [Next]_vars => WellFormed' /\ LateOrdersMatch'
  BY WellFormedStep, LateOrdersStep
<1> QED BY <1>1, <1>2, <1>3, PTL DEF Spec

-----------------------------------------------------------------------------
(* Stock.                                                                  *)

OrderSlots == Orders \X (1..MaxLines)
RequestSlots == Workers \X (1..MaxLines)

OrderQuantities == [x \in OrderSlots |-> orders[x[1]].lines[x[2]].quantity]
RequestQuantities == [x \in RequestSlots |-> req[x[1]].lines[x[2]].quantity]

\* The lines of active orders that ask for an item.
ReservedLines(i) ==
    {x \in OrderSlots : /\ orders[x[1]].status \in Active
                        /\ x[2] \in DOMAIN orders[x[1]].lines
                        /\ orders[x[1]].lines[x[2]].item = i}

\* The lines in flight that ask for an item and passed the check of its stock:
\* the ones that have a price.
CheckedLines(i) ==
    {x \in RequestSlots : /\ x[2] \in DOMAIN req[x[1]].prices
                          /\ x[2] \in DOMAIN req[x[1]].lines
                          /\ req[x[1]].lines[x[2]].item = i}

\* How much of an item the lines in flight were told they can have.
Promised(i) == Total(RequestQuantities, CheckedLines(i))

\* All lines in flight but one.
Excess == (Cardinality(Workers) * MaxLines - 1) * MaxQuantity

\* What is reserved and what is in flight for an item.
StockBounded ==
    \A i \in Items : \E most \in Quantities : Reserved(i, Active) + Promised(i) <= most + Excess

\* The amounts both sums are made of.
LEMMA SlotsOfLines ==
    ASSUME TypeOK
    PROVE  /\ IsFiniteSet(OrderSlots) /\ IsFiniteSet(RequestSlots)
           /\ Cardinality(RequestSlots) = Cardinality(Workers) * MaxLines
           /\ Cardinality(Workers) \in Nat
           /\ \A i \in Items :
                 /\ ReservedLines(i) \subseteq OrderSlots
                 /\ CheckedLines(i) \subseteq RequestSlots
                 /\ \A x \in ReservedLines(i) : OrderQuantities[x] \in 0..MaxQuantity
                 /\ \A x \in CheckedLines(i) : RequestQuantities[x] \in 0..MaxQuantity
<1>1. IsFiniteSet(1..MaxLines) /\ Cardinality(1..MaxLines) = MaxLines
  BY LimitsAssumption, CoinsOfOne
<1>2. /\ IsFiniteSet(OrderSlots) /\ IsFiniteSet(RequestSlots)
      /\ Cardinality(RequestSlots) = Cardinality(Workers) * MaxLines
  BY <1>1, FiniteAssumption, FS_Product DEF OrderSlots, RequestSlots
<1>3. Cardinality(Workers) \in Nat
  BY FiniteAssumption, FS_CardinalityType
<1>4. ASSUME NEW lines \in Seq(Line), NEW n \in DOMAIN lines
      PROVE  lines[n].quantity \in 0..MaxQuantity
  <2>1. lines[n] \in Line
    BY <1>4, LenProperties, ElementOfSeq
  <2>2. lines[n].quantity \in 1..MaxQuantity
    BY <2>1 DEF Line
  <2> QED BY <2>2, LimitsAssumption
<1>5. ASSUME NEW i \in Items, NEW x \in ReservedLines(i)
      PROVE  OrderQuantities[x] \in 0..MaxQuantity
  <2>1. x \in OrderSlots /\ x[1] \in Orders /\ x[2] \in DOMAIN orders[x[1]].lines
    BY <1>5 DEF ReservedLines, OrderSlots
  <2>2. orders[x[1]].lines \in Seq(Line)
    BY <2>1 DEF TypeOK, OrderRow
  <2> QED BY <1>4, <2>1, <2>2 DEF OrderQuantities
<1>6. ASSUME NEW i \in Items, NEW x \in CheckedLines(i)
      PROVE  RequestQuantities[x] \in 0..MaxQuantity
  <2>1. x \in RequestSlots /\ x[1] \in Workers /\ x[2] \in DOMAIN req[x[1]].lines
    BY <1>6 DEF CheckedLines, RequestSlots
  <2>2. req[x[1]].lines \in Seq(Line)
    BY <2>1 DEF TypeOK, RequestRow
  <2> QED BY <1>4, <2>1, <2>2 DEF RequestQuantities
<1> QED BY <1>2, <1>3, <1>5, <1>6 DEF ReservedLines, CheckedLines

\* Both sums are amounts.
StockTyped ==
    \A i \in Items :
       /\ Reserved(i, Active) = Total(OrderQuantities, ReservedLines(i))
       /\ Reserved(i, Active) \in Nat /\ Promised(i) \in Nat
       /\ IsFiniteSet(ReservedLines(i)) /\ IsFiniteSet(CheckedLines(i))
       /\ \A x \in ReservedLines(i) : OrderQuantities[x] \in Nat
       /\ \A x \in CheckedLines(i) : RequestQuantities[x] \in Nat
       /\ CheckedLines(i) \subseteq RequestSlots
       /\ \A x \in CheckedLines(i) : RequestQuantities[x] \in 0..MaxQuantity

\* The tables' types make them so.
LEMMA StockTypes == TypeOK => StockTyped
<1> SUFFICES ASSUME TypeOK PROVE StockTyped
  OBVIOUS
<1>1. ASSUME NEW i \in Items
      PROVE  Reserved(i, Active) = Total(OrderQuantities, ReservedLines(i))
  BY DEF Reserved, OrderQuantities, ReservedLines, OrderSlots
<1>2. ASSUME NEW i \in Items
      PROVE  IsFiniteSet(ReservedLines(i)) /\ IsFiniteSet(CheckedLines(i))
  BY SlotsOfLines, FS_Subset
<1>3. ASSUME NEW i \in Items
      PROVE  /\ \A x \in ReservedLines(i) : OrderQuantities[x] \in Nat
             /\ \A x \in CheckedLines(i) : RequestQuantities[x] \in Nat
  BY SlotsOfLines, LimitsAssumption
<1>4. ASSUME NEW i \in Items
      PROVE  Total(OrderQuantities, ReservedLines(i)) \in Nat /\ Promised(i) \in Nat
  BY <1>2, <1>3, TotalType DEF Promised
<1> QED BY <1>1, <1>2, <1>3, <1>4, SlotsOfLines DEF StockTyped

\* The bound is a number, the same in every state.
LEMMA ExcessType == Excess \in Int /\ Excess' = Excess
<1>1. Cardinality(Workers) \in Nat
  BY FiniteAssumption, FS_CardinalityType
<1> QED BY <1>1, LimitsAssumption DEF Excess

\* Orders that become active are the only way to reserve more.
LEMMA ReservedShrinks ==
    ASSUME TypeOK, TypeOK',
           \A o \in Orders : orders'[o].status \in Active =>
               orders[o].status \in Active /\ orders'[o].lines = orders[o].lines,
           NEW i \in Items
    PROVE  Reserved(i, Active)' <= Reserved(i, Active)
<1>1. ReservedLines(i)' \in SUBSET ReservedLines(i)
  BY DEF ReservedLines, OrderSlots
<1>2. \A x \in ReservedLines(i)' : OrderQuantities'[x] = OrderQuantities[x]
  BY DEF ReservedLines, OrderSlots, OrderQuantities
<1>3. Reserved(i, Active)' = Total(OrderQuantities', ReservedLines(i)')
  <2>1. StockTyped'
    BY StockTypes, PTL
  <2> QED BY <2>1 DEF StockTyped
<1>4. Total(OrderQuantities', ReservedLines(i)') = Total(OrderQuantities, ReservedLines(i)')
  BY <1>2, TotalCong
<1>5. Total(OrderQuantities, ReservedLines(i)') <= Total(OrderQuantities, ReservedLines(i))
  BY <1>1, StockTypes, TotalOfFewer DEF StockTyped
<1> QED BY <1>3, <1>4, <1>5, StockTypes DEF StockTyped

\* A line that passes its check is the only way to promise more.
LEMMA PromisedShrinks ==
    ASSUME TypeOK, TypeOK',
           \A w \in Workers : \/ req'[w].prices = <<>>
                              \/ /\ req'[w].lines = req[w].lines
                                 /\ DOMAIN req'[w].prices = DOMAIN req[w].prices,
           NEW i \in Items
    PROVE  Promised(i)' <= Promised(i)
<1>1. ASSUME NEW x \in CheckedLines(i)'
      PROVE  x \in CheckedLines(i) /\ RequestQuantities'[x] = RequestQuantities[x]
  <2>1. /\ x \in RequestSlots /\ x[1] \in Workers /\ x[2] \in DOMAIN req'[x[1]].prices
        /\ x[2] \in DOMAIN req'[x[1]].lines /\ req'[x[1]].lines[x[2]].item = i
    BY <1>1 DEF CheckedLines, RequestSlots
  <2>2. req'[x[1]].prices # <<>>
    BY <2>1
  <2>3. /\ req'[x[1]].lines = req[x[1]].lines
        /\ DOMAIN req'[x[1]].prices = DOMAIN req[x[1]].prices
    BY <2>1, <2>2
  <2> QED BY <2>1, <2>3 DEF CheckedLines, RequestQuantities, RequestSlots
<1>2. CheckedLines(i)' \in SUBSET CheckedLines(i)
  BY <1>1
<1>3. Total(RequestQuantities', CheckedLines(i)') = Total(RequestQuantities, CheckedLines(i)')
  BY <1>1, TotalCong
<1>4. Total(RequestQuantities, CheckedLines(i)') <= Total(RequestQuantities, CheckedLines(i))
  BY <1>2, StockTypes, TotalOfFewer DEF StockTyped
<1> QED BY <1>3, <1>4 DEF Promised

\* A step that reserves no more and promises no more keeps the bound, whatever it
\* does to the stock.
LEMMA StockShrinks ==
    ASSUME TypeOK, TypeOK', StockBounded,
           \A o \in Orders : orders'[o].status \in Active =>
               orders[o].status \in Active /\ orders'[o].lines = orders[o].lines,
           \A w \in Workers : \/ req'[w].prices = <<>>
                              \/ /\ req'[w].lines = req[w].lines
                                 /\ DOMAIN req'[w].prices = DOMAIN req[w].prices
    PROVE  StockBounded'
<1> SUFFICES ASSUME NEW i \in Items
             PROVE  \E most \in Quantities :
                       Reserved(i, Active)' + Promised(i)' <= most + Excess'
  BY DEF StockBounded
<1>1. PICK most \in Quantities : Reserved(i, Active) + Promised(i) <= most + Excess
  BY DEF StockBounded
<1>2. Reserved(i, Active)' <= Reserved(i, Active) /\ Promised(i)' <= Promised(i)
  BY ReservedShrinks, PromisedShrinks
<1>3. /\ Reserved(i, Active) \in Nat /\ Promised(i) \in Nat
      /\ Reserved(i, Active)' \in Nat /\ Promised(i)' \in Nat
  <2>1. StockTyped /\ StockTyped'
    BY StockTypes, PTL
  <2> QED BY <2>1 DEF StockTyped
<1>4. Excess' = Excess /\ Excess \in Int /\ most \in Nat
  BY PricesAssumption, ExcessType
<1> QED BY <1>1, <1>2, <1>3, <1>4

\* A product grows with its first factor.
LEMMA ProductGrows == \A a, b \in Int, m \in Nat : a <= b => a * m <= b * m
<1> SUFFICES ASSUME NEW a \in Int, NEW b \in Int, NEW m \in Nat, a <= b PROVE a * m <= b * m
  OBVIOUS
<1>1. b * m = a * m + (b - a) * m
  OBVIOUS
<1>2. (b - a) \in Nat
  OBVIOUS
<1>3. (b - a) * m \in Nat
  BY <1>2
<1> QED BY <1>1, <1>3

\* A line that was found available adds up with all other lines in flight at most.
LEMMA LineWithin ==
    ASSUME TypeOK, TypeOK', NEW w \in Workers, NEW n \in Nat, NEW i \in Items,
           UNCHANGED <<items, orders>>, <<w, n>> \in CheckedLines(i)',
           req'[w].lines[n].quantity <= Remaining(i)
    PROVE  Reserved(i, Active)' + Promised(i)' <= items[i].quantity + Excess
<1> DEFINE x == <<w, n>>
           others == CheckedLines(i)' \ {x}
           q == req'[w].lines[n].quantity
<1>1. /\ IsFiniteSet(RequestSlots) /\ CheckedLines(i)' \subseteq RequestSlots
      /\ Cardinality(RequestSlots) = Cardinality(Workers) * MaxLines
      /\ \A y \in CheckedLines(i)' : RequestQuantities'[y] \in 0..MaxQuantity
  <2>1. StockTyped'
    BY StockTypes, PTL
  <2>2. RequestSlots' = RequestSlots
    BY DEF RequestSlots
  <2> QED BY <2>1, <2>2, SlotsOfLines DEF StockTyped
<1>2. StockTyped /\ StockTyped'
  BY StockTypes, PTL
<1>3. Promised(i)' = Total(RequestQuantities', CheckedLines(i)')
  BY DEF Promised
<1>4. x \in RequestSlots /\ RequestQuantities'[x] = q
  BY <1>1 DEF RequestQuantities, RequestSlots
<1>5. /\ IsFiniteSet(CheckedLines(i)')
      /\ \A y \in CheckedLines(i)' : RequestQuantities'[y] \in Nat
  BY <1>2 DEF StockTyped
<1>6. Total(RequestQuantities', others) = Total(RequestQuantities', CheckedLines(i)') - q
  <2>1. x \in CheckedLines(i)'
    OBVIOUS
  <2> HIDE DEF x, q
  <2> QED BY <1>4, <1>5, <2>1, TotalRemove
<1>7. IsFiniteSet(others) /\ Cardinality(others) \in Nat
      /\ Cardinality(others) <= Cardinality(Workers) * MaxLines - 1
  <2>1. /\ IsFiniteSet(RequestSlots \ {x})
        /\ Cardinality(RequestSlots \ {x}) = Cardinality(RequestSlots) - 1
    BY <1>1, <1>4, FS_RemoveElement
  <2>2. others \in SUBSET (RequestSlots \ {x})
    BY <1>1
  <2> QED BY <1>1, <2>1, <2>2, FS_Subset, FS_CardinalityType
<1>8. Total(RequestQuantities', others) <= Cardinality(others) * MaxQuantity
  BY <1>1, <1>7, LimitsAssumption, TotalWithin
<1>9. Cardinality(others) * MaxQuantity <= Excess
  <2>1. Cardinality(Workers) * MaxLines - 1 \in Int
    BY SlotsOfLines, LimitsAssumption
  <2> HIDE DEF others
  <2> QED BY <1>7, <2>1, ProductGrows, LimitsAssumption DEF Excess
<1>10. Reserved(i, Active)' = Reserved(i, Active)
  BY DEF Reserved
<1>11. q <= items[i].quantity - Reserved(i, Active) /\ items[i].quantity \in Nat
  BY PricesAssumption DEF Remaining, TypeOK, ItemRow
<1>12. Reserved(i, Active) \in Nat /\ Promised(i)' \in Nat
  BY <1>2 DEF StockTyped
<1>13. q \in Nat /\ Total(RequestQuantities', others) \in Nat
  <2>1. \A y \in others : RequestQuantities'[y] \in Nat
    BY <1>5
  <2> QED BY <1>4, <1>5, <1>7, <2>1, TotalType
<1>14. Cardinality(others) * MaxQuantity \in Int
  BY <1>7, LimitsAssumption
<1> HIDE DEF others, q
<1> QED BY <1>3, <1>6, <1>8, <1>9, <1>10, <1>11, <1>12, <1>13, <1>14, ExcessType

\* The lines of a worker's request become those of an order: what was promised is
\* reserved.
LEMMA StockMoves ==
    ASSUME WellFormed, TypeOK', NEW w \in Workers, Create(w), NEW i \in Items
    PROVE  Reserved(i, Active)' + Promised(i)' = Reserved(i, Active) + Promised(i)
<1> USE DEF WellFormed
<1>1. PICK o \in Orders :
         /\ orders[o] = Absent /\ orders'[o].status = "confirmed"
         /\ orders'[o].lines = req[w].lines
         /\ \A x \in Orders \ {o} : orders'[x] = orders[x]
  BY OrderPlaced
<1>2. req' = [req EXCEPT ![w] = Idle] /\ req[w].at = "holding"
  BY DEF Create, Finish
<1>3. req'[w].prices = <<>> /\ \A x \in Workers \ {w} : req'[x] = req[x]
  BY <1>2 DEF TypeOK, Idle
<1> DEFINE lines == req[w].lines
           N == {n \in 1..MaxLines : n \in DOMAIN lines /\ lines[n].item = i}
           placed == {<<o, n>> : n \in N}
           served == {<<w, n>> : n \in N}
           key == [x \in served |-> <<o, x[2]>>]
           S == ReservedLines(i)
           U == CheckedLines(i)'
<1>4. DOMAIN req[w].prices = DOMAIN lines
  BY <1>2, LenProperties DEF RequestsInOrder, InOrder, TypeOK, RequestRow
<1>5. ReservedLines(i)' = S \cup placed /\ S \cap placed = {}
  <2>1. "confirmed" \in Active /\ "absent" \notin Active
    BY DEF Active, OrderStatus
  <2>2. orders[o].status = "absent"
    BY <1>1 DEF Absent
  <2>3. \A x \in S : x[1] # o
    BY <2>1, <2>2 DEF ReservedLines
  <2>4. \A x \in ReservedLines(i)' : x \in S \cup placed
    <3> SUFFICES ASSUME NEW x \in ReservedLines(i)' PROVE x \in S \cup placed
      OBVIOUS
    <3>1. /\ x \in OrderSlots /\ orders'[x[1]].status \in Active
          /\ x[2] \in DOMAIN orders'[x[1]].lines /\ orders'[x[1]].lines[x[2]].item = i
      BY DEF ReservedLines, OrderSlots
    <3>2. x[1] \in Orders /\ x[2] \in 1..MaxLines /\ x = <<x[1], x[2]>>
      BY <3>1 DEF OrderSlots
    <3>3. CASE x[1] = o
      <4>1. x[2] \in N
        BY <1>1, <3>1, <3>2, <3>3
      <4> QED BY <3>2, <3>3, <4>1
    <3>4. CASE x[1] # o
      BY <1>1, <3>1, <3>2, <3>4 DEF ReservedLines
    <3> QED BY <3>3, <3>4
  <2>5. \A x \in S : x \in ReservedLines(i)'
    BY <1>1, <2>3 DEF ReservedLines, OrderSlots
  <2>6. \A x \in placed : x \in ReservedLines(i)'
    BY <1>1, <2>1 DEF ReservedLines, OrderSlots
  <2>7. \A x \in placed : x[1] = o
    OBVIOUS
  <2> QED BY <2>3, <2>4, <2>5, <2>6, <2>7
<1>6. CheckedLines(i) = U \cup served /\ U \cap served = {}
  <2>1. \A x \in U : x[1] # w
    BY <1>3 DEF CheckedLines
  <2>2. \A x \in CheckedLines(i) : x \in U \cup served
    <3> SUFFICES ASSUME NEW x \in CheckedLines(i) PROVE x \in U \cup served
      OBVIOUS
    <3>1. /\ x \in RequestSlots /\ x[2] \in DOMAIN req[x[1]].prices
          /\ x[2] \in DOMAIN req[x[1]].lines /\ req[x[1]].lines[x[2]].item = i
      BY DEF CheckedLines
    <3>2. x[1] \in Workers /\ x[2] \in 1..MaxLines /\ x = <<x[1], x[2]>>
      BY <3>1 DEF RequestSlots
    <3>3. CASE x[1] = w
      <4>1. x[2] \in N
        BY <3>1, <3>2, <3>3
      <4> QED BY <3>2, <3>3, <4>1
    <3>4. CASE x[1] # w
      BY <1>3, <3>1, <3>2, <3>4 DEF CheckedLines, RequestSlots
    <3> QED BY <3>3, <3>4
  <2>3. \A x \in U : x \in CheckedLines(i)
    <3> SUFFICES ASSUME NEW x \in U PROVE x \in CheckedLines(i)
      OBVIOUS
    <3>1. x \in RequestSlots /\ x[1] \in Workers \ {w}
      BY <2>1 DEF CheckedLines, RequestSlots
    <3>2. req'[x[1]] = req[x[1]]
      BY <1>3, <3>1
    <3> QED BY <3>1, <3>2 DEF CheckedLines, RequestSlots
  <2>4. \A x \in served : x \in CheckedLines(i)
    BY <1>4 DEF CheckedLines, RequestSlots
  <2>5. \A x \in served : x[1] = w
    OBVIOUS
  <2> QED BY <2>1, <2>2, <2>3, <2>4, <2>5
<1>7. StockTyped /\ StockTyped'
  BY StockTypes, PTL
<1>8. key \in Bijection(served, placed)
  <2>1. \A x \in served : \E n \in N : x = <<w, n>> /\ key[x] = <<o, n>>
    OBVIOUS
  <2>2. \A n \in N : <<w, n>> \in served /\ key[<<w, n>>] = <<o, n>>
    OBVIOUS
  <2>3. key \in [served -> placed]
    OBVIOUS
  <2>4. \A x, y \in served : key[x] = key[y] => x = y
    <3> SUFFICES ASSUME NEW n \in N, NEW m \in N, key[<<w, n>>] = key[<<w, m>>]
                 PROVE  <<w, n>> = <<w, m>>
      OBVIOUS
    <3>1. <<o, n>> = <<o, m>>
      BY <2>2
    <3> QED BY <3>1
  <2>5. \A z \in placed : \E x \in served : key[x] = z
    BY <2>2
  <2> HIDE DEF key, placed, served
  <2> QED BY <2>3, <2>4, <2>5 DEF Bijection, Injection, IsInjective, Surjection
<1>9. \A x \in served : OrderQuantities'[key[x]] = RequestQuantities[x]
  <2> SUFFICES ASSUME NEW n \in N
               PROVE  OrderQuantities'[<<o, n>>] = RequestQuantities[<<w, n>>]
    OBVIOUS
  <2> QED BY <1>1 DEF OrderQuantities, RequestQuantities, OrderSlots, RequestSlots
<1>10. \A x \in S : OrderQuantities'[x] = OrderQuantities[x]
  <2>1. "absent" \notin Active /\ orders[o].status = "absent"
    BY <1>1 DEF Active, OrderStatus, Absent
  <2> QED BY <1>1, <2>1 DEF ReservedLines, OrderQuantities, OrderSlots
<1>11. \A x \in U : RequestQuantities'[x] = RequestQuantities[x]
  BY <1>3 DEF CheckedLines, RequestQuantities, RequestSlots
<1> HIDE DEF N, placed, served, key, S, U
<1>12. /\ IsFiniteSet(S) /\ IsFiniteSet(ReservedLines(i)') /\ IsFiniteSet(U)
       /\ IsFiniteSet(CheckedLines(i))
       /\ \A x \in ReservedLines(i)' : OrderQuantities'[x] \in Nat
       /\ \A x \in CheckedLines(i) : RequestQuantities[x] \in Nat
       /\ Reserved(i, Active) = Total(OrderQuantities, S)
       /\ Reserved(i, Active)' = Total(OrderQuantities', ReservedLines(i)')
  BY <1>7 DEF StockTyped, S, U
<1>13. IsFiniteSet(placed) /\ IsFiniteSet(served)
  BY <1>5, <1>6, <1>12, FS_Subset
<1>14. Total(OrderQuantities', ReservedLines(i)') = Total(OrderQuantities, S) + Total(RequestQuantities, served)
  <2>1. Total(OrderQuantities', S \cup placed)
            = Total(OrderQuantities', S) + Total(OrderQuantities', placed)
    BY <1>5, <1>12, <1>13, TotalUnion
  <2>2. Total(OrderQuantities', S) = Total(OrderQuantities, S)
    BY <1>10, TotalCong
  <2>3. Total(OrderQuantities', placed) = Total(RequestQuantities, served)
    BY <1>6, <1>8, <1>9, <1>12, <1>13, TotalRenamed
  <2> QED BY <1>5, <2>1, <2>2, <2>3
<1>15. Promised(i) = Promised(i)' + Total(RequestQuantities, served)
  <2>1. Total(RequestQuantities, U \cup served)
            = Total(RequestQuantities, U) + Total(RequestQuantities, served)
    BY <1>6, <1>12, <1>13, TotalUnion
  <2>2. Total(RequestQuantities', U) = Total(RequestQuantities, U)
    BY <1>11, TotalCong
  <2> QED BY <1>6, <2>1, <2>2 DEF Promised, U
<1>16. /\ Reserved(i, Active) \in Nat /\ Promised(i)' \in Nat
       /\ Total(RequestQuantities, served) \in Nat
  BY <1>6, <1>7, <1>12, <1>13, TotalType DEF StockTyped
<1> QED BY <1>12, <1>14, <1>15, <1>16

\* The check of a line lets it in only where it adds up to the bound.
LEMMA StockChecked ==
    ASSUME WellFormed, TypeOK', StockBounded, NEW w \in Workers, CheckLine(w), ~Finish(w)
    PROVE  StockBounded'
<1> USE DEF WellFormed
<1> DEFINE n == req[w].checked + 1
           prices == Append(req[w].prices, items[req[w].lines[n].item].override_price)
<1>1. /\ req[w].at = "validating" /\ n \in DOMAIN req[w].lines
      /\ req[w].lines[n].quantity
             <= [i \in Items |-> Remaining(i)][req[w].lines[n].item]
      /\ req' = [req EXCEPT ![w] = [req[w] EXCEPT !.checked = n, !.prices = prices]]
      /\ UNCHANGED <<items, orders>>
  BY DEF CheckLine, CheckAgainst
<1>2. /\ req[w].lines \in Seq(Line) /\ req[w].prices \in Seq(Nat \cup {NoPrice})
      /\ Len(req[w].prices) = req[w].checked /\ req[w].checked \in Nat
      /\ req[w] \in RequestRow
  BY <1>1 DEF TypeOK, RequestRow, PriceLists, RequestsInOrder, InOrder
<1>3. req[w].lines[n].item \in Items /\ n \in Nat \ {0}
  BY <1>1, <1>2, LinesOf
<1>4. DOMAIN prices = DOMAIN req[w].prices \cup {n}
  <2>1. items[req[w].lines[n].item].override_price \in Nat \cup {NoPrice}
    BY <1>3, ItemColumns
  <2>2. Len(prices) = Len(req[w].prices) + 1 /\ prices \in Seq(Nat \cup {NoPrice})
    <3> DEFINE price == items[req[w].lines[n].item].override_price
    <3>1. price \in Nat \cup {NoPrice} /\ prices = Append(req[w].prices, price)
      BY <2>1
    <3> HIDE DEF price, prices
    <3> QED BY <1>2, <3>1, AppendProperties
  <2>3. DOMAIN prices = 1..n /\ DOMAIN req[w].prices = 1..req[w].checked
    BY <1>2, <2>2, LenProperties
  <2> HIDE DEF prices
  <2> QED BY <1>2, <2>3
<1>5. req[w].lines[n].quantity <= Remaining(req[w].lines[n].item)
  BY <1>1, <1>3
<1> HIDE DEF n, prices
<1>6. /\ req'[w].lines = req[w].lines /\ req'[w].prices = prices
      /\ \A x \in Workers \ {w} : req'[x] = req[x]
  BY <1>1, <1>2 DEF TypeOK, RequestRow
<1> SUFFICES ASSUME NEW i \in Items
             PROVE  \E most \in Quantities :
                       Reserved(i, Active)' + Promised(i)' <= most + Excess
  BY ExcessType DEF StockBounded
<1>7. CASE <<w, n>> \in CheckedLines(i)'
  <2>1. req'[w].lines[n].item = i
    BY <1>7 DEF CheckedLines
  <2>2. req'[w].lines[n].quantity <= Remaining(i)
    BY <1>5, <1>6, <2>1
  <2>3. Reserved(i, Active)' + Promised(i)' <= items[i].quantity + Excess
    BY <1>1, <1>3, <1>7, <2>2, LineWithin
  <2>4. items[i].quantity \in Quantities
    BY DEF TypeOK, ItemRow
  <2> QED BY <2>3, <2>4
<1>8. CASE <<w, n>> \notin CheckedLines(i)'
  <2>1. PICK most \in Quantities : Reserved(i, Active) + Promised(i) <= most + Excess
    BY DEF StockBounded
  <2>2. ASSUME NEW x \in CheckedLines(i)'
        PROVE  x \in CheckedLines(i) /\ RequestQuantities'[x] = RequestQuantities[x]
    <3>1. /\ x \in RequestSlots /\ x[1] \in Workers /\ x[2] \in DOMAIN req'[x[1]].prices
          /\ x[2] \in DOMAIN req'[x[1]].lines /\ req'[x[1]].lines[x[2]].item = i
          /\ x = <<x[1], x[2]>>
      BY <2>2 DEF CheckedLines, RequestSlots
    <3>2. req'[x[1]].lines = req[x[1]].lines
      BY <1>6, <3>1
    <3>3. x[2] \in DOMAIN req[x[1]].prices
      <4>1. CASE x[1] = w
        <5>1. x[2] # n
          BY <1>8, <2>2, <3>1, <4>1
        <5> QED BY <1>4, <1>6, <3>1, <4>1, <5>1
      <4>2. CASE x[1] # w
        BY <1>6, <3>1, <4>2
      <4> QED BY <4>1, <4>2
    <3> QED BY <3>1, <3>2, <3>3 DEF CheckedLines, RequestQuantities, RequestSlots
  <2>3. StockTyped /\ StockTyped'
    BY StockTypes, PTL
  <2>4. Promised(i)' <= Promised(i)
    <3>1. Total(RequestQuantities', CheckedLines(i)') = Total(RequestQuantities, CheckedLines(i)')
      BY <2>2, TotalCong
    <3>2. CheckedLines(i)' \in SUBSET CheckedLines(i)
      BY <2>2
    <3>3. Total(RequestQuantities, CheckedLines(i)') <= Total(RequestQuantities, CheckedLines(i))
      BY <2>3, <3>2, TotalOfFewer DEF StockTyped
    <3> QED BY <3>1, <3>3 DEF Promised
  <2>5. Reserved(i, Active)' = Reserved(i, Active)
    BY <1>1 DEF Reserved
  <2>6. /\ Reserved(i, Active) \in Nat /\ Promised(i) \in Nat /\ Promised(i)' \in Nat
        /\ most \in Nat
    BY <2>3, PricesAssumption DEF StockTyped
  <2> QED BY <2>1, <2>4, <2>5, <2>6, ExcessType
<1> QED BY <1>7, <1>8

\* Every step keeps what is reserved and promised within the bound.
LEMMA StockStep == WellFormed /\ WellFormed' /\ StockBounded /\ [Next]_vars => StockBounded'
<1> SUFFICES ASSUME WellFormed, WellFormed', StockBounded, [Next]_vars PROVE StockBounded'
  OBVIOUS
<1> USE DEF WellFormed
<1>1. ASSUME NEW w \in Workers, UNCHANGED orders,
             \A x \in Workers \ {w} : req'[x] = req[x],
             \/ req'[w].prices = <<>>
             \/ req'[w].lines = req[w].lines /\ DOMAIN req'[w].prices = DOMAIN req[w].prices
      PROVE  StockBounded'
  <2>1. \A x \in Workers : \/ req'[x].prices = <<>>
                           \/ /\ req'[x].lines = req[x].lines
                              /\ DOMAIN req'[x].prices = DOMAIN req[x].prices
    BY <1>1
  <2> QED BY <1>1, <2>1, StockShrinks
<1>2. ASSUME NEW w \in Workers, Finish(w), UNCHANGED orders PROVE StockBounded'
  <2>1. req'[w].prices = <<>> /\ \A x \in Workers \ {w} : req'[x] = req[x]
    BY <1>2 DEF Finish, Idle, TypeOK
  <2> QED BY <1>1, <1>2, <2>1
<1>3. ASSUME NEW w \in Workers, Receive(w) PROVE StockBounded'
  <2>1. req'[w].prices = <<>> /\ \A x \in Workers \ {w} : req'[x] = req[x]
    BY <1>3 DEF Receive, Request, TypeOK
  <2> QED BY <1>1, <1>3, <2>1 DEF Receive
<1>4. ASSUME NEW w \in Workers, CheckLine(w) PROVE StockBounded'
  BY <1>2, <1>4, StockChecked DEF CheckLine, CheckAgainst
<1>5. ASSUME NEW w \in Workers, CheckMenuAndFunds(w) PROVE StockBounded'
  <2>1. CASE Finish(w)
    BY <1>2, <1>5, <2>1 DEF CheckMenuAndFunds
  <2>2. CASE ~Finish(w)
    <3>1. req' = [req EXCEPT ![w] = [req[w] EXCEPT !.at = "creating"]] /\ UNCHANGED orders
      BY <1>5, <2>2 DEF CheckMenuAndFunds
    <3>2. /\ req'[w].lines = req[w].lines /\ req'[w].prices = req[w].prices
          /\ \A x \in Workers \ {w} : req'[x] = req[x]
      BY <3>1 DEF TypeOK, RequestRow
    <3> QED BY <1>1, <3>1, <3>2
  <2> QED BY <2>1, <2>2
<1>6. ASSUME NEW w \in Workers, InsertLines(w) PROVE StockBounded'
  <2> DEFINE prices == [n \in DOMAIN req[w].lines |->
                           UnitPrice(req[w].prices[n],
                                     items[req[w].lines[n].item].base_price)]
  <2>1. /\ req' = [req EXCEPT ![w] = [req[w] EXCEPT !.at = "holding", !.prices = prices]]
        /\ DOMAIN prices = DOMAIN req[w].lines
        /\ req[w].at = "creating" /\ UNCHANGED orders
    BY <1>6 DEF InsertLines, Priced
  <2> HIDE DEF prices
  <2>2. /\ req'[w].lines = req[w].lines /\ req'[w].prices = prices
        /\ \A x \in Workers \ {w} : req'[x] = req[x]
    BY <2>1 DEF TypeOK, RequestRow
  <2>3. DOMAIN req[w].prices = DOMAIN req[w].lines
    BY <2>1, LenProperties DEF TypeOK, RequestRow, PriceLists, RequestsInOrder, InOrder
  <2> QED BY <1>1, <2>1, <2>2, <2>3
<1>7. ASSUME NEW w \in Workers, Create(w) PROVE StockBounded'
  <2>1. ASSUME NEW i \in Items
        PROVE  Reserved(i, Active)' + Promised(i)' = Reserved(i, Active) + Promised(i)
    BY <1>7, StockMoves
  <2> QED BY <2>1, ExcessType DEF StockBounded
<1>8. ASSUME NEW w \in Workers, RollBack(w) \/ WorkerDies(w) PROVE StockBounded'
  BY <1>2, <1>8 DEF RollBack, WorkerDies
<1>9. ASSUME NEW i \in Items, EditMenuItem(i) \/ EditItem(i) PROVE StockBounded'
  <2>1. PICK row \in ItemRow, column \in Columns : Edit(i, row, column)
    BY <1>9, EditedRow DEF Columns
  <2>2. ASSUME NEW w \in Workers
        PROVE  req'[w].lines = req[w].lines /\ req'[w].prices = req[w].prices
    <3>1. \/ req'[w] = req[w]
          \/ req'[w] = Remembering(req[w], i,
                                   UnitPrice(row.override_price, row.base_price), column)
      BY <2>1, EditEffect
    <3> QED BY <3>1 DEF Remembering, TypeOK, RequestRow
  <2>3. UNCHANGED orders
    BY <2>1 DEF Edit
  <2> QED BY <2>2, <2>3, StockShrinks
<1>10. ASSUME NEW o \in Orders, NEW status,
              orders' = [orders EXCEPT ![o].status = status], UNCHANGED req,
              status \in Active => orders[o].status \in Active
       PROVE  StockBounded'
  <2>1. \A x \in Orders : orders'[x].status \in Active =>
            orders[x].status \in Active /\ orders'[x].lines = orders[x].lines
    BY <1>10 DEF TypeOK, OrderRow
  <2> QED BY <1>10, <2>1, StockShrinks
<1>11. ASSUME NEW o \in Orders, Cancel(o) \/ Refund(o) PROVE StockBounded'
  <2>1. "cancelled" \notin Active
    BY DEF Active
  <2> QED BY <1>10, <1>11, <2>1 DEF Cancel, Refund, GiveBack
<1>12. ASSUME NEW o \in Orders, Advance(o) PROVE StockBounded'
  <2>1. PICK s \in Active : /\ orders[o].status \in Active
                            /\ orders' = [orders EXCEPT ![o].status = s]
    BY <1>12, AdvanceEffect
  <2>2. UNCHANGED req
    BY <1>12 DEF Advance
  <2> QED BY <1>10, <2>1, <2>2
<1>13. CASE UNCHANGED <<orders, req>>
  BY <1>13, StockShrinks
<1> QED
  BY <1>3, <1>4, <1>5, <1>6, <1>7, <1>8, <1>9, <1>11, <1>12, <1>13
  DEF Next, vars, TimePasses

\* As soon as there is a worker, and an order has a line, the bound is no less than
\* the stock the menu was published with.
LEMMA StockInit ==
    ASSUME Workers # {}, MaxLines # 0
    PROVE  Init => StockBounded
<1> SUFFICES ASSUME Init, NEW i \in Items
             PROVE  \E most \in Quantities :
                       Reserved(i, Active) + Promised(i) <= most + Excess
  BY DEF StockBounded
<1>1. Reserved(i, Active) = 0
  <2>1. "absent" \notin Active
    BY DEF Active, OrderStatus
  <2>2. {x \in Orders \X (1..MaxLines) :
            /\ orders[x[1]].status \in Active
            /\ x[2] \in DOMAIN orders[x[1]].lines
            /\ orders[x[1]].lines[x[2]].item = i} = {}
    BY <2>1 DEF Init, Absent
  <2> QED BY <2>2, TotalEmpty DEF Reserved
<1>2. Promised(i) = 0
  <2>1. CheckedLines(i) = {}
    BY DEF Init, Idle, CheckedLines, RequestSlots
  <2> QED BY <2>1, TotalEmpty DEF Promised
<1>3. Excess \in Nat
  <2>1. Cardinality(Workers) \in Nat /\ Cardinality(Workers) # 0
    BY FiniteAssumption, FS_CardinalityType, FS_EmptySet
  <2>2. Cardinality(Workers) * MaxLines >= 1
    <3>1. 1 * MaxLines <= Cardinality(Workers) * MaxLines
      BY <2>1, ProductGrows, LimitsAssumption
    <3> QED BY <2>1, <3>1, LimitsAssumption
  <2>3. Cardinality(Workers) * MaxLines - 1 \in Nat
    BY <2>1, <2>2, LimitsAssumption
  <2> QED BY <2>3, LimitsAssumption DEF Excess
<1>4. items[i].quantity \in Quantities /\ items[i].quantity \in Nat
  BY TablesAssumption, PricesAssumption DEF Init, ItemRow
<1> QED BY <1>1, <1>2, <1>3, <1>4

\* For all numbers of workers, lines and edits: the check of the lines, one by one
\* and without a lock, oversells an item by no more than all lines in flight but
\* one, whatever the orders, the edits of the stock and the other requests do.
THEOREM OversellingIsBounded ==
    ASSUME Workers # {}, MaxLines # 0
    PROVE  Spec => []OversoldAtMost
<1>1. WellFormed /\ StockBounded => OversoldAtMost
  <2> SUFFICES ASSUME WellFormed, StockBounded, NEW i \in Items
               PROVE  \E most \in Quantities : Reserved(i, Active) <= most + Excess
    BY DEF OversoldAtMost, Excess
  <2>1. PICK most \in Quantities : Reserved(i, Active) + Promised(i) <= most + Excess
    BY DEF StockBounded
  <2>2. Reserved(i, Active) \in Nat /\ Promised(i) \in Nat /\ most \in Nat
    BY StockTypes, PricesAssumption DEF StockTyped, WellFormed
  <2> QED BY <2>1, <2>2, ExcessType
<1>2. Init => WellFormed /\ StockBounded
  BY WellFormedInit, StockInit
<1>3. WellFormed /\ StockBounded /\ [Next]_vars => WellFormed' /\ StockBounded'
  BY WellFormedStep, StockStep
<1> QED BY <1>1, <1>2, <1>3, PTL DEF Spec
=============================================================================
