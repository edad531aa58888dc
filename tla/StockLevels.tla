----------------------------- MODULE StockLevels -----------------------------
(***************************************************************************)
(* modules/inventory/inventory.service.ts and its controller: the stock of *)
(* one item, the state derived from it, the alerts that state raises, the  *)
(* reorder requests of Purchasing and the reservations.                    *)
(*                                                                         *)
(* One request at a time: an action is a request with everything it calls. *)
(* Lots and the decisions on held units are in Quarantine; here the number *)
(* of held units is what the guards see of them.                           *)
(***************************************************************************)
EXTENDS Integers, Functions

CONSTANTS
  Locations,                \* stock locations of the item
  Levels,                   \* minimum and maximum levels an item may be given
  NoMax,                    \* an item without a maximum
  Quantities,               \* quantities asked for
  AllowNegativeAllocation,  \* the company's reservation rule
  MaxUnits,                 \* bound on the units, or promises, at a location
  MaxPending,               \* bound on the pending reorder requests
  MaxIgnored                \* bound on the requests ignored in one shortage

ASSUME LevelsAssumption == Levels \subseteq Nat /\ NoMax \notin Levels
ASSUME QuantitiesAssumption == Quantities \subseteq Nat \ {0}
ASSUME BoundsAssumption == MaxUnits \in Nat /\ MaxPending \in Nat /\ MaxIgnored \in Nat

VARIABLES
  stock,    \* the units on hand of each row of inventory_stock
  promise,  \* what is reserved of each, and whether that is long ago
  item,     \* the row of inventory_items: state, active, levels
  held,     \* units on quarantine hold
  alerts,   \* types of which an alert is open
  pending,  \* reorder requests that are neither sent nor ignored
  told,     \* history: types an alert of which was open since the state it is about began
  orders,   \* history: orders placed in the present shortage
  ignored   \* history: requests ignored in the present shortage

vars == <<stock, promise, item, held, alerts, pending, told, orders, ignored>>

AlertTypes == {"below_min", "overstock"}
Purchasing == {"reorder_pending", "on_order"}
Short == {"below_min"} \cup Purchasing
States == Short \cup {"in_stock", "overstock", "inactive"}

Promise == [allocated : 0..MaxUnits, old : BOOLEAN]
Item == [state : States, active : BOOLEAN, min : Levels, max : Levels \cup {NoMax}]

TypeOK ==
  /\ stock \in [Locations -> 0..MaxUnits]
  /\ promise \in [Locations -> Promise]
  /\ item \in Item
  /\ held \in Nat
  /\ alerts \subseteq AlertTypes
  /\ pending \in 0..MaxPending
  /\ told \subseteq AlertTypes
  /\ orders \in Nat
  /\ ignored \in Nat

OnHand(s) == FoldFunction(+, 0, s)
Usable == OnHand(stock) - OnHand([l \in Locations |-> promise[l].allocated]) - held

-----------------------------------------------------------------------------
(* recomputeState. *)

Over(i, s) == i.max # NoMax /\ OnHand(s) >= i.max
Under(i, s) == ~Over(i, s) /\ OnHand(s) <= i.min

(* A purchasing decision in flight outlives a stock check.                 *)
Settled(i, s) ==
  CASE ~i.active -> "inactive"
    [] i.active /\ Over(i, s) -> "overstock"
    [] i.active /\ Under(i, s) -> IF i.state \in Purchasing THEN i.state ELSE "below_min"
    [] OTHER -> "in_stock"

(* A state there is an alert for raises it unless one is open; any other   *)
(* state acknowledges the alerts of the state that was left.               *)
(* Mutant: alerts are raised when the stock was fine before.               *)
AlertsFromStock(from, to) ==
  IF from = "in_stock" /\ to \in AlertTypes THEN alerts \cup {to}
  ELSE IF from # to /\ to \notin AlertTypes THEN alerts \ {from} ELSE alerts
Alerts(from, to) ==
  IF from = to THEN alerts
  ELSE IF to \in AlertTypes THEN alerts \cup {to} ELSE alerts \ {from}

\* The states an alert of a type is about.
About(t) == IF t = "below_min" THEN Short ELSE {"overstock"}

\* What the histories make of a step after which the item is in a state.
Remember(to, placed, setAside) ==
  /\ told' = {t \in told : to \in About(t)} \cup alerts'
  /\ orders' = IF to \in Short THEN orders + placed ELSE 0
  /\ ignored' = IF to \in Short THEN ignored + setAside ELSE 0

Recompute(i, s, setAside) ==
  /\ item' = [i EXCEPT !.state = Settled(i, s)]
  /\ alerts' = Alerts(i.state, Settled(i, s))
  /\ Remember(Settled(i, s), 0, setAside)

Created(low, high) == [state |-> "in_stock", active |-> TRUE, min |-> low, max |-> high]

(* createItemHandler: an item starts without stock.                        *)
Init ==
  /\ stock = [l \in Locations |-> 0]
  /\ promise = [l \in Locations |-> [allocated |-> 0, old |-> FALSE]]
  /\ held = 0 /\ pending = 0
  /\ \E low \in Levels, high \in Levels \cup {NoMax} :
       item = [Created(low, high) EXCEPT !.state = Settled(Created(low, high), stock)]
  /\ alerts = {item.state} \cap AlertTypes
  /\ told = alerts /\ orders = 0 /\ ignored = 0

-----------------------------------------------------------------------------
(* Movements: applyMovement. *)

Moved(s) == stock' = s /\ Recompute(item, s, 0) /\ UNCHANGED <<promise, held, pending>>

With(l, d) == [stock EXCEPT ![l] = @ + d]

(* receive and produce *)
Receive(l, q) ==
  /\ stock[l] + q <= MaxUnits
  /\ Moved(With(l, q))

NotHeld(q) == held > 0 => OnHand(stock) - q >= held

(* consume, scrap and return *)
Issue(l, q) ==
  /\ NotHeld(q) /\ stock[l] >= q
  /\ Moved(With(l, -q))

(* The row of the destination is read after the source was written.        *)
Transfer(from, to, q) ==
  /\ stock[from] >= q
  /\ from # to => stock[to] + q <= MaxUnits
  /\ Moved([With(from, -q) EXCEPT ![to] = @ + q])

(* A signed correction; held units are no obstacle.                        *)
Adjust(l, d) ==
  /\ stock[l] + d \in 0..MaxUnits
  /\ Moved(With(l, d))

-----------------------------------------------------------------------------
(* The item and its alerts. *)

Keep == UNCHANGED <<stock, promise, held, pending>>

(* Mutant: updateItemHandler leaves the state for the next movement.       *)
PatchedOnly(i) ==
  item' = i /\ alerts' = alerts /\ Remember(i.state, 0, 0)
Patched(i) == Recompute(i, stock, 0)

UpdateItem(low, high, active) ==
  /\ Patched([item EXCEPT !.min = low, !.max = high, !.active = active])
  /\ Keep

CheckMinMax == Recompute(item, stock, 0) /\ Keep

Acknowledge(t) ==
  /\ t \in alerts
  /\ alerts' = alerts \ {t}
  /\ Remember(item.state, 0, 0)
  /\ Keep /\ UNCHANGED item

-----------------------------------------------------------------------------
(* Purchasing. *)

SetState(to, placed) ==
  /\ item' = [item EXCEPT !.state = to]
  /\ UNCHANGED <<stock, promise, held, alerts>>
  /\ Remember(to, placed, 0)

MarkReorderPending ==
  /\ item.state = "below_min" /\ pending < MaxPending
  /\ SetState("reorder_pending", 0)
  /\ pending' = pending + 1

(* Mutant: an item that is on order may be ordered.                        *)
MayOrderAgain == item.state \in Purchasing
MayOrder == item.state = "reorder_pending"

(* mark-on-order leaves the request of the item pending.                   *)
MarkOnOrder ==
  /\ MayOrder
  /\ SetState("on_order", 1)
  /\ UNCHANGED pending

Send ==
  /\ pending > 0 /\ MayOrder
  /\ SetState("on_order", 1)
  /\ pending' = pending - 1

(* Whatever state the item is in, a shortage that is no longer being dealt *)
(* with is what the recomputation starts from.                             *)
Ignore ==
  /\ pending > 0 /\ ignored < MaxIgnored
  /\ Recompute([item EXCEPT !.state = "below_min"], stock, 1)
  /\ pending' = pending - 1
  /\ UNCHANGED <<stock, promise, held>>

-----------------------------------------------------------------------------
(* Reservations. *)

Reserved(l, n) == promise' = [promise EXCEPT ![l] = [allocated |-> n, old |-> FALSE]]
ItemStays == UNCHANGED <<stock, item, held, alerts, pending, told, orders, ignored>>

MayReserve(l, q) ==
  /\ AllowNegativeAllocation \/ q <= stock[l] - promise[l].allocated
  /\ held > 0 => q <= Usable

Reserve(l, q) ==
  /\ MayReserve(l, q) /\ promise[l].allocated + q <= MaxUnits
  /\ Reserved(l, promise[l].allocated + q)
  /\ ItemStays

(* Mutant: more may be given back than was reserved.                       *)
Difference(n, q) == n - q
Less(n, q) == IF q > n THEN 0 ELSE n - q

Release(l, q) ==
  /\ Reserved(l, Less(promise[l].allocated, q))
  /\ ItemStays

(* Days pass.                                                              *)
Ages(l) ==
  /\ promise[l].allocated > 0
  /\ promise' = [promise EXCEPT ![l].old = TRUE]
  /\ ItemStays

(* applyReservationAutoRelease, when somebody looks at the item.           *)
View ==
  /\ promise' = [l \in Locations |->
                   IF promise[l].old THEN [allocated |-> 0, old |-> FALSE] ELSE promise[l]]
  /\ ItemStays

(* Holds come and go: Quarantine.                                          *)
Hold ==
  /\ \/ held < OnHand(stock) /\ held' = held + 1
     \/ held > 0 /\ held' = held - 1
  /\ UNCHANGED <<stock, promise, item, alerts, pending, told, orders, ignored>>

-----------------------------------------------------------------------------

Next ==
  \/ \E l \in Locations, q \in Quantities :
       \/ Receive(l, q) \/ Issue(l, q) \/ Adjust(l, q) \/ Adjust(l, -q)
       \/ Reserve(l, q) \/ Release(l, q)
       \/ \E to \in Locations : Transfer(l, to, q)
  \/ \E low \in Levels, high \in Levels \cup {NoMax}, active \in BOOLEAN : UpdateItem(low, high, active)
  \/ \E t \in AlertTypes : Acknowledge(t)
  \/ \E l \in Locations : Ages(l)
  \/ CheckMinMax \/ MarkReorderPending \/ MarkOnOrder \/ Send \/ Ignore \/ View \/ Hold

Spec == Init /\ [][Next]_vars

-----------------------------------------------------------------------------
(* Properties. *)

(* "derived from stock vs. thresholds": whatever moved the stock, edited   *)
(* the levels, switched the item off or withdrew an order, the saved state *)
(* that lists, the dashboard and the alerts read agrees with the stock.    *)
StateTellsTheTruth ==
  /\ item.state = "inactive" <=> ~item.active
  /\ item.state = "overstock" <=> item.active /\ Over(item, stock)
  /\ item.state \in Short <=> item.active /\ Under(item, stock)

(* Nobody runs out unannounced: as long as an item is short or overfull,   *)
(* an alert about it is open, or one was since it got there and a person   *)
(* acknowledged it.  recomputeState acknowledges by itself what it takes   *)
(* for resolved, and Ignore resets the state it goes by.                   *)
ShortageIsAnnounced ==
  \A t \in AlertTypes : item.state \in About(t) => t \in told

(* One shortage is ordered once, and once more for every request that was  *)
(* ignored, though a request may stay pending after its item was marked on *)
(* order and be sent or ignored in a later shortage.                       *)
OrderedOncePerShortage == orders <= 1 + ignored
=============================================================================
