-------------------------- MODULE StockLevelsProofs --------------------------
(* Why the state of an item tells the truth, every shortage is announced   *)
(* and ordered once, for any locations, levels, quantities and bounds.     *)
EXTENDS StockLevels, TLAPS

-----------------------------------------------------------------------------
(* The inductive invariant. *)

\* An open alert counts as told, which is what a state that was raised has.
OpenIsTold == alerts \subseteq told

\* The order that is out is one more than those that were set aside.
OrdersPaid == orders <= ignored + (IF item.state = "on_order" THEN 1 ELSE 0)

\* An item that waits to be ordered has a request to send.
RequestPending == item.state = "reorder_pending" => pending > 0

IInv ==
  /\ TypeOK
  /\ StateTellsTheTruth
  /\ ShortageIsAnnounced
  /\ OpenIsTold
  /\ OrdersPaid
  /\ RequestPending

-----------------------------------------------------------------------------
(* recomputeState *)

\* The new state of an item agrees with its stock and levels.
LEMMA SettledTruth ==
  ASSUME NEW i \in Item, NEW s
  PROVE  LET to == Settled(i, s) IN
         /\ to \in States
         /\ to = "inactive" <=> ~i.active
         /\ to = "overstock" <=> i.active /\ Over(i, s)
         /\ to \in Short <=> i.active /\ Under(i, s)
         /\ to \in Purchasing => to = i.state
<1>. DEFINE to == Settled(i, s)
<1>0. i.state \in States /\ i.active \in BOOLEAN
  BY DEF Item
<1>1. CASE ~i.active
  <2>1. to = "inactive"
    BY <1>1 DEF Settled
  <2>. QED BY <1>1, <2>1 DEF States, Short, Purchasing
<1>2. CASE i.active /\ Over(i, s)
  <2>1. to = "overstock"
    BY <1>2 DEF Settled, Under
  <2>. QED BY <1>2, <2>1 DEF States, Short, Purchasing, Under
<1>3. CASE i.active /\ Under(i, s)
  <2>1. to = IF i.state \in Purchasing THEN i.state ELSE "below_min"
    BY <1>3 DEF Settled, Under
  <2>. QED BY <1>3, <2>1 DEF States, Short, Purchasing, Under
<1>4. CASE i.active /\ ~Over(i, s) /\ ~Under(i, s)
  <2>1. to = "in_stock"
    BY <1>4 DEF Settled
  <2>. QED BY <1>4, <2>1 DEF States, Short, Purchasing
<1>. QED BY <1>0, <1>1, <1>2, <1>3, <1>4

\* A recomputation, of the item or of one Ignore has reset, keeps the
\* invariant, whatever became of the stock and the levels.
LEMMA RecomputeKeeps ==
  ASSUME IInv,
         NEW i \in Item, NEW setAside \in {0, 1},
         \/ setAside = 0 /\ i.state = item.state
         \/ setAside = 1 /\ i = [item EXCEPT !.state = "below_min"] /\ stock' = stock,
         Recompute(i, stock', setAside),
         stock' \in [Locations -> 0..MaxUnits],
         promise' = promise,
         held' \in Nat,
         pending' \in 0..MaxPending,
         setAside = 0 => pending' = pending
  PROVE  IInv'
<1>. DEFINE to == Settled(i, stock')
<1>1. /\ to \in States
      /\ to = "inactive" <=> ~i.active
      /\ to = "overstock" <=> i.active /\ Over(i, stock')
      /\ to \in Short <=> i.active /\ Under(i, stock')
      /\ to \in Purchasing => to = i.state
  BY SettledTruth
<1>2. /\ item' = [i EXCEPT !.state = to]
      /\ alerts' = Alerts(i.state, to)
      /\ Remember(to, 0, setAside)
  BY DEF Recompute
<1>. HIDE DEF to
<1>3. item' \in Item /\ item'.state = to
  BY <1>1, <1>2 DEF Item
<1>4. item'.active = i.active /\ item'.min = i.min /\ item'.max = i.max
  BY <1>2 DEF Item
<1>5. alerts' \subseteq AlertTypes
  BY <1>2 DEF Alerts, IInv, TypeOK
<1>6. told' \subseteq AlertTypes /\ orders' \in Nat /\ ignored' \in Nat
  BY <1>2, <1>5 DEF Remember, IInv, TypeOK
<1>7. TypeOK'
  BY <1>3, <1>5, <1>6 DEF IInv, TypeOK
<1>8. StateTellsTheTruth'
  <2>1. Over(item, stock)' <=> Over(i, stock')
    BY <1>4 DEF Over
  <2>2. Under(item, stock)' <=> Under(i, stock')
    BY <1>4, <2>1 DEF Under
  <2>. QED BY <1>1, <1>3, <1>4, <2>1, <2>2 DEF StateTellsTheTruth
<1>9. ShortageIsAnnounced'
  <2>. SUFFICES ASSUME NEW t \in AlertTypes, to \in About(t)
       PROVE  t \in told'
    BY <1>3 DEF ShortageIsAnnounced
  <2>1. CASE item.state \in About(t)
    BY <2>1, <1>2 DEF Remember, IInv, ShortageIsAnnounced
  <2>2. CASE item.state \notin About(t) /\ setAside = 0
    <3>1. i.state \notin About(t)
      BY <2>2
    <3>2. to = t
      BY <1>1, <3>1 DEF About, Short, Purchasing, AlertTypes
    <3>3. t \in About(t)
      BY DEF About, Short, AlertTypes
    <3>. QED BY <1>2, <3>1, <3>2, <3>3 DEF Alerts, Remember
  <2>3. CASE item.state \notin About(t) /\ setAside = 1
    <3>1. i.state = "below_min" /\ i.active = item.active /\ i.min = item.min /\ i.max = item.max
      BY <2>3 DEF IInv, TypeOK, Item
    <3>2. stock' = stock
      BY <2>3
    <3>3. (Over(i, stock') <=> Over(item, stock)) /\ (Under(i, stock') <=> Under(item, stock))
      BY <3>1, <3>2 DEF Over, Under
    <3>4. (to \in Short <=> item.state \in Short) /\ (to = "overstock" <=> item.state = "overstock")
      BY <1>1, <3>1, <3>3 DEF IInv, StateTellsTheTruth
    <3>. QED BY <2>3, <3>4 DEF About, AlertTypes
  <2>. QED BY <2>1, <2>2, <2>3
<1>10. OpenIsTold'
  BY <1>2 DEF Remember, OpenIsTold
<1>11. OrdersPaid'
  <2>1. CASE to \notin Short
    BY <1>2, <1>3, <2>1 DEF Remember, OrdersPaid, Short, Purchasing
  <2>2. CASE to \in Short /\ setAside = 0
    <3>1. orders' = orders /\ ignored' = ignored
      BY <1>2, <2>2 DEF Remember, IInv, TypeOK
    <3>2. item.state = "on_order" => orders <= ignored + 1
      BY DEF IInv, OrdersPaid
    <3>3. item.state # "on_order" => orders <= ignored
      BY DEF IInv, OrdersPaid, TypeOK
    <3>4. CASE item.state # "on_order"
      BY <3>1, <3>3, <3>4 DEF OrdersPaid, IInv, TypeOK
    <3>5. CASE item.state = "on_order"
      <4>1. i.state \in Purchasing /\ i.active /\ Under(i, stock')
        BY <1>1, <2>2, <3>5 DEF Purchasing
      <4>2. to = i.state
        BY <4>1 DEF to, Settled, Under
      <4>. QED BY <1>3, <2>2, <3>1, <3>2, <3>5, <4>2 DEF OrdersPaid
    <3>. QED BY <3>4, <3>5
  <2>3. CASE to \in Short /\ setAside = 1
    <3>1. orders' = orders /\ ignored' = ignored + 1
      BY <1>2, <2>3 DEF Remember, IInv, TypeOK
    <3>2. orders <= ignored + 1
      BY DEF IInv, OrdersPaid, TypeOK
    <3>. QED BY <3>1, <3>2 DEF OrdersPaid, IInv, TypeOK
  <2>. QED BY <2>1, <2>2, <2>3
<1>12. RequestPending'
  <2>. SUFFICES ASSUME to = "reorder_pending"
       PROVE  pending' > 0
    BY <1>3 DEF RequestPending
  <2>1. i.state = "reorder_pending"
    BY <1>1 DEF Purchasing
  <2>2. setAside = 0 /\ item.state = "reorder_pending"
    BY <2>1 DEF IInv, TypeOK, Item
  <2>. QED BY <2>2 DEF IInv, RequestPending
<1>. QED BY <1>7, <1>8, <1>9, <1>10, <1>11, <1>12 DEF IInv

-----------------------------------------------------------------------------
(* The other steps *)

\* A movement that leaves the quantities well typed.
LEMMA MovedKeeps ==
  ASSUME IInv, NEW s \in [Locations -> 0..MaxUnits], Moved(s)
  PROVE  IInv'
<1>1. /\ stock' = s /\ promise' = promise /\ held' = held /\ pending' = pending
      /\ Recompute(item, stock', 0)
  BY DEF Moved
<1>2. item \in Item /\ held' \in Nat /\ pending' \in 0..MaxPending
  BY <1>1 DEF IInv, TypeOK
<1>. QED BY <1>1, <1>2, RecomputeKeeps

\* Receipts, issues, transfers and corrections keep the invariant.
LEMMA MovementStep ==
  ASSUME IInv, NEW l \in Locations, NEW q \in Quantities,
         \/ Receive(l, q) \/ Issue(l, q) \/ Adjust(l, q) \/ Adjust(l, -q)
         \/ \E to \in Locations : Transfer(l, to, q)
  PROVE  IInv'
<1>0. /\ stock \in [Locations -> 0..MaxUnits] /\ MaxUnits \in Nat
      /\ q \in Nat \ {0} /\ -q \in Int
  BY QuantitiesAssumption, BoundsAssumption DEF IInv, TypeOK
<1>1. CASE Receive(l, q)
  <2>1. With(l, q) \in [Locations -> 0..MaxUnits]
    BY <1>0, <1>1 DEF Receive, With
  <2>. QED BY <1>1, <2>1, MovedKeeps DEF Receive
<1>2. CASE Issue(l, q)
  <2>1. With(l, -q) \in [Locations -> 0..MaxUnits]
    BY <1>0, <1>2 DEF Issue, With
  <2>. QED BY <1>2, <2>1, MovedKeeps DEF Issue
<1>3. ASSUME NEW d \in Int, Adjust(l, d)
      PROVE  IInv'
  <2>1. With(l, d) \in [Locations -> 0..MaxUnits]
    BY <1>0, <1>3 DEF Adjust, With
  <2>. QED BY <1>3, <2>1, MovedKeeps DEF Adjust
<1>4. ASSUME NEW to \in Locations, Transfer(l, to, q)
      PROVE  IInv'
  <2>. DEFINE s == [With(l, -q) EXCEPT ![to] = @ + q]
  <2>1. s \in [Locations -> 0..MaxUnits]
    BY <1>0, <1>4 DEF Transfer, With
  <2>2. Moved(s)
    BY <1>4 DEF Transfer
  <2>. QED BY <2>1, <2>2, MovedKeeps
<1>. QED BY <1>0, <1>1, <1>2, <1>3, <1>4

\* Editing the item, a check of all items and ignoring a request keep it.
LEMMA RecomputeStep ==
  ASSUME IInv,
         \/ \E low \in Levels, high \in Levels \cup {NoMax}, active \in BOOLEAN :
              UpdateItem(low, high, active)
         \/ CheckMinMax \/ Ignore
  PROVE  IInv'
<1>0. TypeOK /\ MaxPending \in Nat
  BY BoundsAssumption DEF IInv
<1>1. ASSUME NEW low \in Levels, NEW high \in Levels \cup {NoMax}, NEW active \in BOOLEAN,
             UpdateItem(low, high, active)
      PROVE  IInv'
  <2>. DEFINE i == [item EXCEPT !.min = low, !.max = high, !.active = active]
  <2>1. i \in Item /\ i.state = item.state
    BY <1>0 DEF TypeOK, Item
  <2>2. stock' = stock /\ promise' = promise /\ held' = held /\ pending' = pending
    BY <1>1 DEF UpdateItem, Keep
  <2>3. Recompute(i, stock', 0)
    BY <1>1, <2>2 DEF UpdateItem, Patched
  <2>. HIDE DEF i
  <2>. QED BY <1>0, <2>1, <2>2, <2>3, RecomputeKeeps DEF TypeOK
<1>2. CASE CheckMinMax
  <2>1. stock' = stock /\ promise' = promise /\ held' = held /\ pending' = pending
    BY <1>2 DEF CheckMinMax, Keep
  <2>2. Recompute(item, stock', 0)
    BY <1>2, <2>1 DEF CheckMinMax
  <2>. QED BY <1>0, <2>1, <2>2, RecomputeKeeps DEF TypeOK
<1>3. CASE Ignore
  <2>. DEFINE i == [item EXCEPT !.state = "below_min"]
  <2>1. i \in Item
    BY <1>0 DEF TypeOK, Item, States, Short
  <2>2. stock' = stock /\ promise' = promise /\ held' = held /\ pending' \in 0..MaxPending
    BY <1>0, <1>3 DEF Ignore, TypeOK
  <2>3. Recompute(i, stock', 1)
    BY <1>3, <2>2 DEF Ignore
  <2>. QED BY <1>0, <2>1, <2>2, <2>3, RecomputeKeeps DEF TypeOK
<1>. QED BY <1>1, <1>2, <1>3

\* Purchasing's own changes of state stay within the shortage.
LEMMA PurchasingStep ==
  ASSUME IInv, MarkReorderPending \/ MarkOnOrder \/ Send
  PROVE  IInv'
<1>0. TypeOK /\ MaxPending \in Nat
  BY BoundsAssumption DEF IInv
<1>1. PICK to \in Purchasing, placed \in {0, 1} :
        /\ SetState(to, placed)
        /\ item.state \in Short
        /\ placed = (IF to = "on_order" THEN 1 ELSE 0)
        /\ item.state # "on_order"
        /\ pending' \in 0..MaxPending
        /\ to = "reorder_pending" => pending' > 0
  <2>1. CASE MarkReorderPending
    <3>1. /\ SetState("reorder_pending", 0)
          /\ item.state \in Short /\ item.state # "on_order"
          /\ pending' \in 0..MaxPending /\ pending' > 0
      BY <1>0, <2>1 DEF MarkReorderPending, Short, TypeOK
    <3>. QED BY <3>1 DEF Purchasing
  <2>2. CASE MarkOnOrder \/ Send
    <3>1. /\ SetState("on_order", 1)
          /\ item.state \in Short /\ item.state # "on_order"
          /\ pending' \in 0..MaxPending
      BY <1>0, <2>2 DEF MarkOnOrder, Send, MayOrder, Short, Purchasing, TypeOK
    <3>. QED BY <3>1 DEF Purchasing
  <2>. QED BY <2>1, <2>2
<1>2. /\ item' = [item EXCEPT !.state = to]
      /\ stock' = stock /\ promise' = promise /\ held' = held /\ alerts' = alerts
      /\ Remember(to, placed, 0)
  BY <1>1 DEF SetState
<1>3. to \in Short /\ to \in States /\ to # "overstock" /\ to # "inactive"
  BY DEF Purchasing, Short, States
<1>4. item' \in Item /\ item'.state = to
  BY <1>0, <1>2, <1>3 DEF TypeOK, Item
<1>5. item'.active = item.active /\ item'.min = item.min /\ item'.max = item.max
  BY <1>0, <1>2 DEF TypeOK, Item
<1>6. /\ orders' = orders + placed /\ ignored' = ignored
      /\ told' = {t \in told : to \in About(t)} \cup alerts
  BY <1>0, <1>2, <1>3 DEF Remember, TypeOK
<1>7. TypeOK'
  BY <1>0, <1>1, <1>2, <1>4, <1>6 DEF TypeOK
<1>8. StateTellsTheTruth'
  <2>1. (Over(item, stock)' <=> Over(item, stock)) /\ (Under(item, stock)' <=> Under(item, stock))
    BY <1>2, <1>5 DEF Over, Under
  <2>2. item.active /\ Under(item, stock)
    BY <1>1 DEF IInv, StateTellsTheTruth
  <2>3. ~Over(item, stock)
    BY <2>2 DEF Under
  <2>. QED BY <1>3, <1>4, <1>5, <2>1, <2>2, <2>3 DEF StateTellsTheTruth
<1>9. ShortageIsAnnounced'
  <2>1. "below_min" \in told
    BY <1>1 DEF IInv, ShortageIsAnnounced, About, AlertTypes
  <2>2. "below_min" \in told'
    BY <1>3, <1>6, <2>1 DEF About
  <2>3. ASSUME NEW t \in AlertTypes, item'.state \in About(t)
        PROVE  t = "below_min"
    BY <1>3, <1>4, <2>3 DEF About, AlertTypes
  <2>. QED BY <2>2, <2>3 DEF ShortageIsAnnounced
<1>10. OpenIsTold'
  BY <1>2, <1>6 DEF OpenIsTold
<1>11. OrdersPaid'
  <2>1. orders <= ignored
    BY <1>0, <1>1 DEF IInv, OrdersPaid, TypeOK
  <2>. QED BY <1>0, <1>1, <1>4, <1>6, <2>1 DEF OrdersPaid, TypeOK
<1>12. RequestPending'
  BY <1>1, <1>4 DEF RequestPending
<1>. QED BY <1>7, <1>8, <1>9, <1>10, <1>11, <1>12 DEF IInv

\* Acknowledging an alert by hand leaves it among those that were told.
LEMMA AcknowledgeStep ==
  ASSUME IInv, NEW t \in AlertTypes, Acknowledge(t)
  PROVE  IInv'
<1>0. TypeOK
  BY DEF IInv
<1>1. /\ alerts' = alerts \ {t} /\ Remember(item.state, 0, 0)
      /\ stock' = stock /\ promise' = promise /\ held' = held
      /\ pending' = pending /\ item' = item
  BY DEF Acknowledge, Keep
<1>2. told' = {u \in told : item.state \in About(u)} \cup alerts'
  BY <1>1 DEF Remember
<1>3. TypeOK'
  BY <1>0, <1>1 DEF Remember, TypeOK
<1>4. StateTellsTheTruth'
  BY <1>1 DEF IInv, StateTellsTheTruth, Over, Under
<1>5. ShortageIsAnnounced'
  BY <1>1, <1>2 DEF IInv, ShortageIsAnnounced
<1>6. OpenIsTold'
  BY <1>2 DEF OpenIsTold
<1>7. OrdersPaid'
  <2>1. CASE item.state \in Short
    BY <1>0, <1>1, <2>1 DEF Remember, IInv, OrdersPaid, TypeOK
  <2>2. CASE item.state \notin Short
    BY <1>1, <2>2 DEF Remember, OrdersPaid, Short, Purchasing
  <2>. QED BY <2>1, <2>2
<1>8. RequestPending'
  BY <1>1 DEF IInv, RequestPending
<1>. QED BY <1>3, <1>4, <1>5, <1>6, <1>7, <1>8 DEF IInv

\* Reservations and holds touch nothing the state is derived from.
LEMMA ReservationStep ==
  ASSUME IInv,
         \/ \E l \in Locations, q \in Quantities : Reserve(l, q) \/ Release(l, q)
         \/ \E l \in Locations : Ages(l)
         \/ View \/ Hold
  PROVE  IInv'
<1>0. TypeOK /\ MaxUnits \in Nat
  BY BoundsAssumption DEF IInv
<1>1. /\ stock' = stock /\ item' = item /\ alerts' = alerts /\ pending' = pending
      /\ told' = told /\ orders' = orders /\ ignored' = ignored
  BY DEF Reserve, Release, Ages, View, Hold, ItemStays
<1>2. held' \in Nat
  BY <1>0 DEF Reserve, Release, Ages, View, Hold, ItemStays, TypeOK
<1>3. promise' \in [Locations -> Promise]
  <2>1. ASSUME NEW l \in Locations, NEW q \in Quantities, Reserve(l, q) \/ Release(l, q)
        PROVE  promise' \in [Locations -> Promise]
    <3>1. PICK n \in 0..MaxUnits : Reserved(l, n)
      BY <1>0, <2>1, QuantitiesAssumption DEF Reserve, Release, Less, TypeOK, Promise
    <3>. QED BY <1>0, <3>1 DEF Reserved, TypeOK, Promise
  <2>2. ASSUME NEW l \in Locations, Ages(l)
        PROVE  promise' \in [Locations -> Promise]
    BY <1>0, <2>2 DEF Ages, TypeOK, Promise
  <2>3. CASE View
    <3>1. [allocated |-> 0, old |-> FALSE] \in Promise
      BY <1>0 DEF Promise
    <3>. QED BY <1>0, <2>3, <3>1 DEF View, TypeOK
  <2>4. CASE Hold
    BY <1>0, <2>4 DEF Hold, TypeOK
  <2>. QED BY <2>1, <2>2, <2>3, <2>4
<1>4. TypeOK'
  BY <1>0, <1>1, <1>2, <1>3 DEF TypeOK
<1>. QED BY <1>1, <1>4 DEF IInv, StateTellsTheTruth, Over, Under,
           ShortageIsAnnounced, OpenIsTold, OrdersPaid, RequestPending

-----------------------------------------------------------------------------
(* The invariant, and what follows from it *)

\* The item createItemHandler returns satisfies the invariant.
LEMMA InitEstablishes == Init => IInv
<1>. SUFFICES ASSUME Init
     PROVE  IInv
  OBVIOUS
<1>1. PICK low \in Levels, high \in Levels \cup {NoMax} :
        item = [Created(low, high) EXCEPT !.state = Settled(Created(low, high), stock)]
  BY DEF Init
<1>. DEFINE i == Created(low, high)
            to == Settled(i, stock)
<1>2. i \in Item /\ i.state = "in_stock" /\ i.active = TRUE
  BY DEF Created, Item, States
<1>3. /\ to \in States
      /\ to = "inactive" <=> ~i.active
      /\ to = "overstock" <=> i.active /\ Over(i, stock)
      /\ to \in Short <=> i.active /\ Under(i, stock)
      /\ to \in Purchasing => to = i.state
  BY <1>2, SettledTruth
<1>4. /\ item = [i EXCEPT !.state = to]
      /\ alerts = {item.state} \cap AlertTypes /\ told = alerts
      /\ orders = 0 /\ ignored = 0 /\ pending = 0 /\ held = 0
  BY <1>1 DEF Init
<1>. HIDE DEF i, to
<1>5. item \in Item /\ item.state = to
      /\ item.active = i.active /\ item.min = i.min /\ item.max = i.max
  BY <1>2, <1>3, <1>4 DEF Item
<1>6. TypeOK
  <2>1. stock \in [Locations -> 0..MaxUnits] /\ promise \in [Locations -> Promise]
    BY BoundsAssumption DEF Init, Promise
  <2>. QED BY <1>4, <1>5, <2>1, BoundsAssumption DEF TypeOK
<1>7. StateTellsTheTruth
  BY <1>3, <1>5 DEF StateTellsTheTruth, Over, Under
<1>8. item.state \notin Purchasing
  BY <1>2, <1>3, <1>5 DEF Purchasing
<1>9. ShortageIsAnnounced
  <2>1. ASSUME NEW t \in AlertTypes, item.state \in About(t)
        PROVE  item.state = t
    BY <1>8, <2>1 DEF About, Short, AlertTypes
  <2>. QED BY <1>4, <2>1 DEF ShortageIsAnnounced
<1>10. OpenIsTold /\ OrdersPaid /\ RequestPending
  BY <1>4, <1>8 DEF OpenIsTold, OrdersPaid, RequestPending, Purchasing
<1>. QED BY <1>6, <1>7, <1>9, <1>10 DEF IInv

\* Every step keeps the invariant.
LEMMA StepKeeps == IInv /\ [Next]_vars => IInv'
<1>. SUFFICES ASSUME IInv, [Next]_vars
     PROVE  IInv'
  OBVIOUS
<1>1. ASSUME NEW l \in Locations, NEW q \in Quantities,
             \/ Receive(l, q) \/ Issue(l, q) \/ Adjust(l, q) \/ Adjust(l, -q)
             \/ Reserve(l, q) \/ Release(l, q)
             \/ \E to \in Locations : Transfer(l, to, q)
      PROVE  IInv'
  BY <1>1, MovementStep, ReservationStep
<1>2. ASSUME NEW low \in Levels, NEW high \in Levels \cup {NoMax}, NEW active \in BOOLEAN,
             UpdateItem(low, high, active)
      PROVE  IInv'
  BY <1>2, RecomputeStep
<1>3. ASSUME NEW t \in AlertTypes, Acknowledge(t)
      PROVE  IInv'
  BY <1>3, AcknowledgeStep
<1>4. CASE CheckMinMax \/ Ignore
  BY <1>4, RecomputeStep
<1>5. CASE MarkReorderPending \/ MarkOnOrder \/ Send
  BY <1>5, PurchasingStep
<1>6. CASE (\E l \in Locations : Ages(l)) \/ View \/ Hold
  BY <1>6, ReservationStep
<1>7. CASE UNCHANGED vars
  BY <1>7 DEF vars, IInv, TypeOK, StateTellsTheTruth, Over, Under,
     ShortageIsAnnounced, OpenIsTold, OrdersPaid, RequestPending
<1>. QED BY <1>1, <1>2, <1>3, <1>4, <1>5, <1>6, <1>7 DEF Next

\* The invariant holds of every behaviour.
THEOREM AlwaysIInv == Spec => []IInv
BY InitEstablishes, StepKeeps, PTL DEF Spec

\* Every variable keeps its type; nothing on hand or reserved gets negative.
THEOREM TypeCorrect == Spec => []TypeOK
<1>1. IInv => TypeOK
  BY DEF IInv
<1>. QED BY <1>1, AlwaysIInv, PTL

\* The saved state agrees with the stock, the levels and the switch.
THEOREM StateIsTrue == Spec => []StateTellsTheTruth
<1>1. IInv => StateTellsTheTruth
  BY DEF IInv
<1>. QED BY <1>1, AlwaysIInv, PTL

\* No shortage and no overstock goes by without an alert.
THEOREM EveryShortageAnnounced == Spec => []ShortageIsAnnounced
<1>1. IInv => ShortageIsAnnounced
  BY DEF IInv
<1>. QED BY <1>1, AlwaysIInv, PTL

\* A shortage is ordered once, and once more per request that was ignored.
THEOREM OneOrderPerShortage == Spec => []OrderedOncePerShortage
<1>1. IInv => OrderedOncePerShortage
  BY DEF IInv, TypeOK, OrdersPaid, OrderedOncePerShortage
<1>. QED BY <1>1, AlwaysIInv, PTL

\* An item that waits to be ordered always has a request Purchasing can send
\* or ignore, though requests outlive the shortage they were made in.
THEOREM ReorderCanGoOn == Spec => [](item.state = "reorder_pending" => pending > 0)
<1>1. IInv => (item.state = "reorder_pending" => pending > 0)
  BY DEF IInv, RequestPending
<1>. QED BY <1>1, AlwaysIInv, PTL
=============================================================================
