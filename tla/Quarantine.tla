----------------------------- MODULE Quarantine -----------------------------
(***************************************************************************)
(* Quarantine holds and the stock they protect: quarantine.service.ts,     *)
(* inventoryHolds.service.ts, inventoryHoldGuard.ts and the movements of   *)
(* inventory.service.ts and inventoryLots.service.ts, for one inventory    *)
(* item and one lot of it.                                                 *)
(*                                                                         *)
(* A request is a READ COMMITTED transaction of up to three steps: what it *)
(* reads of the quarantine records, what it reads of the inventory         *)
(* counters, and its writes with the COMMIT.  Every quantity is read, then *)
(* computed, then written back as a value.                                 *)
(*                                                                         *)
(* The item is kept at one location, so its stock rows are one number and  *)
(* a transfer changes nothing.  Who acts is left out: of two people with   *)
(* the permission one may always decide on the hold of the other.          *)
(***************************************************************************)
EXTENDS Naturals, FiniteSets, FiniteSetsExt

CONSTANTS
  Requests,    \* the requests that may be in flight at the same time
  Places,      \* where held material can be kept
  Nowhere,     \* no place at all
  Ncrs,        \* nonconformance reports
  NoNcr,       \* null in ncr_id
  MaxRecords,  \* bound on the quarantine records ever opened
  MaxUnits     \* bound on the units of the item in stock

ASSUME PlacesAssumption == Places # {} /\ IsFiniteSet(Places) /\ Nowhere \notin Places
ASSUME NcrAssumption == NoNcr \notin Ncrs
ASSUME BoundsAssumption == MaxRecords \in Nat \ {0} /\ MaxUnits \in Nat \ {0}

VARIABLES
  records,  \* quarantine_records: id -> row
  rows,     \* quarantine_inventory: id -> place -> quantity, 0 for no row
  nextId,   \* the sequence that numbers records
  decided,  \* quarantine_resolutions: id -> units released, units destroyed
  inv,      \* inventory_stock.on_hand, inventory_items.held_qty and the lot's columns
  req       \* what each request in flight has read so far

vars == <<records, nextId, rows, decided, inv, req>>

-----------------------------------------------------------------------------
Ids == 1 .. MaxRecords
Units == 1 .. MaxUnits

Record == [status : {"absent", "quarantined", "released", "destroyed"},
           kind : {"lot", "item", "other"},           \* other: a record only
           quantity : Nat,
           original : Nat,
           ncr : Ncrs \cup {NoNcr},
           onHold : BOOLEAN]   \* metadata.pendingDisposition is "on_hold"

NoRecord == [status |-> "absent", kind |-> "other", quantity |-> 0, original |-> 0,
             ncr |-> NoNcr, onHold |-> FALSE]

Inventory == [onHand : Nat, held : Nat, lot : Nat, lotHeld : Nat]

Empty == [p \in Places |-> 0]
Undecided == [release |-> 0, destroy |-> 0]

Present == {i \in Ids : records[i].status # "absent"}
Held == {i \in Ids : records[i].status = "quarantined"}
HeldFor(n) == {i \in Held : records[i].ncr = n}

\* ncrQuarantineIsOnHold
NcrOnHold(n) == \E i \in HeldFor(n) : records[i].onHold

\* The ids of records the inventory system protects, and of those that name the lot.
Enforced(ids) == {i \in ids : records[i].kind # "other"}
OfLot(ids) == {i \in ids : records[i].kind = "lot"}

Total(f, ids) == MapThenSumSet(LAMBDA i : f[i], ids)
HeldUnits(ids) == Total([i \in Ids |-> records[i].quantity], ids)

\* Math.max(a - b, 0) and Math.min
Less(a, b) == IF a > b THEN a - b ELSE 0
Least(a, b) == IF a < b THEN a ELSE b

-----------------------------------------------------------------------------
(* Requests in flight *)

Ops == {"none", "create", "addItem", "release", "destroy", "delete", "annotate", "link",
        "setDisposition", "relocate", "receive", "receiveLot", "take", "takeLot",
        "adjustUp", "adjustDown"}

ReqState == [pc : {"idle", "count", "write"},
             op : Ops,
             ids : SUBSET Ids,             \* the records it is about
             units : [Ids -> Nat],         \* how much of each it moves
             seen : [Ids -> Nat],          \* the quantity of each, as read
             rows : [Places -> Nat],       \* the places of the hold, as read
             from : Places \cup {Nowhere}, to : Places \cup {Nowhere},
             kind : {"lot", "item", "other"},
             ncr : Ncrs \cup {NoNcr},
             onHold : BOOLEAN,
             inv : Inventory]              \* the counters it will write

NoUnits == [i \in Ids |-> 0]
NoInv == [onHand |-> 0, held |-> 0, lot |-> 0, lotHeld |-> 0]

Idle == [pc |-> "idle", op |-> "none", ids |-> {}, units |-> NoUnits, seen |-> NoUnits,
         rows |-> Empty, from |-> Nowhere, to |-> Nowhere, kind |-> "other", ncr |-> NoNcr,
         onHold |-> FALSE, inv |-> NoInv]

At(r, pc) == req[r].pc = pc
Writing(r, ops) == At(r, "write") /\ req[r].op \in ops
Goes(r, q) == req' = [req EXCEPT ![r] = q]
Done(r) == Goes(r, Idle)
Reads == UNCHANGED <<records, nextId, rows, decided, inv>>

Init ==
  /\ records = [i \in Ids |-> NoRecord]
  /\ nextId = 1
  /\ rows = [i \in Ids |-> Empty]
  /\ decided = [i \in Ids |-> Undecided]
  /\ inv \in {[onHand |-> n, held |-> 0, lot |-> n, lotHeld |-> 0] : n \in 0 .. MaxUnits}
  /\ req = [r \in Requests |-> Idle]

-----------------------------------------------------------------------------
(* The inventory side: inventoryHolds, inventoryHoldGuard, applyMovement *)

\* holdableUnits
Holdable(v, kind) ==
  IF kind = "lot" THEN Least(Less(v.lot, v.lotHeld), Less(v.onHand, v.held))
  ELSE Less(v.onHand, v.held)

\* The columns a request computed from the counters it read.
Writes(v, cols) == inv' = [c \in DOMAIN inv |-> IF c \in cols THEN v[c] ELSE inv[c]]

\* bump(+n)
Placed(v, n, kind) ==
  [v EXCEPT !.held = @ + n, !.lotHeld = IF kind = "lot" THEN @ + n ELSE @]

\* bump(-n): liftHold of n units of the item, m of which are of the lot.
Lifted(v, n, m) == [v EXCEPT !.held = Less(@, n), !.lotHeld = Less(@, m)]

\* Mutant: the guard forgets the lot.
SparesItemOnly(v, n, m) == n <= v.onHand /\ (v.held > 0 => v.onHand - n >= v.held)

\* assertNotHeld, consumeFromLot and setOnHand let n units go, m of them of the lot.
Spares(v, n, m) ==
  /\ n <= v.onHand
  /\ v.held > 0 => v.onHand - n >= v.held
  /\ m > 0 /\ v.lotHeld > 0 => Less(v.lot, v.lotHeld) >= m

Taken(v, n, m) == [v EXCEPT !.onHand = Less(@, n), !.lot = Less(@, m)]

MayMove(op, v, n) ==
  \/ op \in {"receive", "receiveLot", "adjustUp"} /\ v.onHand + n <= MaxUnits
  \/ op = "take" /\ Spares(v, n, 0)
  \/ op = "takeLot" /\ Spares(v, n, n)
  \/ op = "adjustDown" /\ n <= v.onHand

Moved(op, v, n) ==
  CASE op \in {"receive", "adjustUp"} -> [v EXCEPT !.onHand = @ + n]
    [] op = "receiveLot" -> [v EXCEPT !.onHand = @ + n, !.lot = @ + n]
    [] op = "takeLot" -> Taken(v, n, n)
    [] OTHER -> Taken(v, n, 0)

ReadForMovement(r, op, n) ==
  /\ At(r, "idle")
  /\ MayMove(op, inv, n)
  /\ op = "receiveLot" => inv.lot + n <= MaxUnits
  /\ Goes(r, [Idle EXCEPT !.pc = "write", !.op = op, !.inv = Moved(op, inv, n)])
  /\ Reads

\* A movement writes on_hand, and the lot's remaining_qty when it names a lot.
Move(r) ==
  /\ \/ /\ Writing(r, {"receive", "take", "adjustUp", "adjustDown"})
        /\ Writes(req[r].inv, {"onHand"})
     \/ /\ Writing(r, {"receiveLot", "takeLot"})
        /\ Writes(req[r].inv, {"onHand", "lot"})
  /\ Done(r)
  /\ UNCHANGED <<records, nextId, rows, decided>>

-----------------------------------------------------------------------------
(* createQuarantine, addNcrQuarantineItem *)

ReadForCreate(r, op, kind, n, ncr) ==
  /\ At(r, "idle")
  /\ op = "addItem" => kind = "other" /\ ncr \in Ncrs
  /\ kind # "other" => n <= Holdable(inv, kind)
  /\ Goes(r, [Idle EXCEPT !.pc = "write", !.op = op, !.kind = kind, !.ncr = ncr,
                          !.units[1] = n, !.inv = Placed(inv, n, kind)])
  /\ Reads

\* What a hold of a kind writes: nothing for one that is only a record.
HoldColumns(kind) ==
  CASE kind = "lot" -> {"held", "lotHeld"} [] kind = "item" -> {"held"} [] OTHER -> {}

\* An item added to an NCR that is on hold is put on hold with it.
Create(r) ==
  LET q == req[r]
      n == q.units[1]
  IN /\ Writing(r, {"create", "addItem"})
     /\ nextId <= MaxRecords
     /\ records' = [records EXCEPT ![nextId] =
          [status |-> "quarantined", kind |-> q.kind, quantity |-> n, original |-> n,
           ncr |-> q.ncr,
           onHold |-> q.op = "addItem" /\ NcrOnHold(q.ncr)]]
     /\ \E p \in Places : rows' = [rows EXCEPT ![nextId][p] = n]
     /\ Writes(q.inv, HoldColumns(q.kind))
     /\ nextId' = nextId + 1
     /\ Done(r)
     /\ UNCHANGED decided

-----------------------------------------------------------------------------
(* updateQuarantine, relocate, saveNcrQuarantineDisposition *)

\* Handlers that change a record refuse one that is closed.
MayChange(i) == i \in Held

ReadForChange(r, op, i, ncr) ==
  /\ At(r, "idle")
  /\ MayChange(i)
  /\ Goes(r, [Idle EXCEPT !.pc = "write", !.op = op, !.ids = {i}, !.ncr = ncr])
  /\ Reads

\* UPDATE ... WHERE id in ids: of those that still exist.
Update(ids, new) ==
  records' = [i \in Ids |-> IF i \in ids \cap Present THEN new[i] ELSE records[i]]

\* A patch with metadata replaces what was there, all but the target of the hold.
Annotate(r) ==
  /\ Writing(r, {"annotate"})
  /\ Update(req[r].ids, [i \in Ids |-> [records[i] EXCEPT !.onHold = FALSE]])
  /\ Done(r)
  /\ UNCHANGED <<nextId, rows, decided, inv>>

Link(r) ==
  /\ Writing(r, {"link"})
  /\ Update(req[r].ids, [i \in Ids |-> [records[i] EXCEPT !.ncr = req[r].ncr]])
  /\ Done(r)
  /\ UNCHANGED <<nextId, rows, decided, inv>>

ReadForRelocate(r, i, from, to, n) ==
  /\ At(r, "idle")
  /\ MayChange(i)
  /\ from # to
  /\ n <= rows[i][from]
  /\ Goes(r, [Idle EXCEPT !.pc = "write", !.op = "relocate", !.ids = {i}, !.from = from,
                          !.to = to, !.units[i] = n, !.rows = rows[i]])
  /\ Reads

\* What relocating n units makes of the rows `now`, having read the rows `read`: it
\* deletes or updates the row it takes from, updates the row it adds to or inserts
\* one.  An UPDATE of a row that is gone changes nothing.
Relocated(now, read, from, to, n) ==
  [now EXCEPT ![from] = IF @ = 0 THEN 0 ELSE read[from] - n,
              ![to] = IF read[to] = 0 THEN @ + n ELSE IF @ = 0 THEN 0 ELSE read[to] + n]

Relocate(r) ==
  LET q == req[r]
  IN /\ Writing(r, {"relocate"})
     /\ rows' = [i \in Ids |-> IF i \in q.ids \cap Present
                                 THEN Relocated(rows[i], q.rows, q.from, q.to, q.units[i])
                                 ELSE rows[i]]
     /\ Done(r)
     /\ UNCHANGED <<records, nextId, decided, inv>>

\* Saves On Hold, or a disposition that is not.  Without an open item On Hold is
\* refused and another disposition saves nothing.
ReadForDisposition(r, n, onHold) ==
  /\ At(r, "idle")
  /\ HeldFor(n) # {}
  /\ Goes(r, [Idle EXCEPT !.pc = "write", !.op = "setDisposition", !.ids = HeldFor(n),
                          !.onHold = onHold])
  /\ Reads

SetDisposition(r) ==
  /\ Writing(r, {"setDisposition"})
  /\ Update(req[r].ids, [i \in Ids |-> [records[i] EXCEPT !.onHold = req[r].onHold]])
  /\ Done(r)
  /\ UNCHANGED <<nextId, rows, decided, inv>>

-----------------------------------------------------------------------------
(* resolveQuarantine, completeNcrDisposition, deleteQuarantineRow *)

\* Release or destroy n units of one hold.
ReadForDecision(r, op, i, n) ==
  /\ At(r, "idle")
  /\ i \in Held
  /\ records[i].ncr \in Ncrs => ~ NcrOnHold(records[i].ncr)
  /\ n <= records[i].quantity
  /\ Goes(r, [Idle EXCEPT !.pc = "count", !.op = op, !.ids = {i}, !.units[i] = n,
                          !.seen[i] = records[i].quantity])
  /\ Reads

\* Completing the disposition of an NCR decides on the whole of every open hold of it.
ReadForCompletion(r, op, n) ==
  /\ At(r, "idle")
  /\ ~ NcrOnHold(n) /\ HeldFor(n) # {}
  /\ LET seen == [i \in Ids |-> IF i \in HeldFor(n) THEN records[i].quantity ELSE 0]
     IN Goes(r, [Idle EXCEPT !.pc = "count", !.op = op, !.ids = HeldFor(n),
                             !.units = seen, !.seen = seen])
  /\ Reads

\* Mutant: only a release counts as a decision.
NoRelease(i) == decided[i].release = 0

\* No decision is on file: quarantineHasDecision, and the trigger that keeps decisions.
NoDecision(i) == decided[i] = Undecided

\* A record with a decision on file is not deleted; an open one lifts its hold.
ReadForDelete(r, i) ==
  /\ At(r, "idle")
  /\ i \in Present
  /\ NoDecision(i)
  /\ Goes(r, [Idle EXCEPT !.pc = "count", !.op = "delete", !.ids = {i},
                          !.units[i] = IF i \in Held THEN records[i].quantity ELSE 0])
  /\ Reads

\* liftHold, and for a decision to destroy removeHeldStock, on the counters as they
\* are now: the hold is lifted first, so what leaves is spared by the guard.
ReadCounters(r) ==
  LET q == req[r]
      n == Total(q.units, Enforced(q.ids))
      m == Total(q.units, OfLot(q.ids))
      lifted == Lifted(inv, n, m)
  IN /\ At(r, "count")
     /\ IF q.op = "destroy"
          THEN /\ n > 0 => Spares(lifted, n, m)
               /\ Goes(r, [q EXCEPT !.pc = "write", !.inv = Taken(lifted, n, m)])
          ELSE Goes(r, [q EXCEPT !.pc = "write", !.inv = lifted])
     /\ Reads

DecisionColumns(q) ==
  (IF Enforced(q.ids) = {} THEN {}
   ELSE IF q.op = "destroy" THEN {"held", "onHand"} ELSE {"held"})
  \cup (IF OfLot(q.ids) = {} THEN {}
        ELSE IF q.op = "destroy" THEN {"lotHeld", "lot"} ELSE {"lotHeld"})

\* Mutants: the hold keeps its places; the last decision alone names the end; the
\* end is a status outside the enumeration.
KeepsPlaces(now, n) == {now}
ClosesByLast(quantity, d, op) ==
  IF quantity > 0 THEN "quarantined" ELSE IF op = "release" THEN "released" ELSE "destroyed"

ClosesMisspelt(quantity, d, op) == IF quantity > 0 THEN "quarantined" ELSE "closed"

\* reduceInventoryRows takes n units from the places, row by row.
Reduced(now, n) ==
  {f \in [Places -> 0 .. MaxUnits] :
     /\ \A p \in Places : f[p] <= now[p]
     /\ Total(f, Places) = Less(Total(now, Places), n)}

\* The status a decision leaves behind: quantity is left, d has been decided.
Closes(quantity, d, op) ==
  IF quantity > 0 THEN "quarantined" ELSE IF d.release > 0 THEN "released" ELSE "destroyed"

\* A decision on a record that is gone breaks a foreign key and rolls back.
Decide(r) ==
  LET q == req[r]
      taken == [i \in Ids |-> [decided[i] EXCEPT ![q.op] = @ + q.units[i]]]
      left(i) == Less(q.seen[i], q.units[i])
  IN /\ Writing(r, {"release", "destroy"})
     /\ q.ids \subseteq Present
     /\ Writes(q.inv, DecisionColumns(q))
     /\ \E f \in [q.ids -> [Places -> 0 .. MaxUnits]] :
          /\ \A i \in q.ids : f[i] \in Reduced(rows[i], q.units[i])
          /\ rows' = [i \in Ids |-> IF i \in q.ids THEN f[i] ELSE rows[i]]
     /\ decided' = [i \in Ids |-> IF i \in q.ids THEN taken[i] ELSE decided[i]]
     /\ Update(q.ids, [i \in Ids |->
          [records[i] EXCEPT !.quantity = left(i), !.status = Closes(left(i), taken[i], q.op)]])
     /\ Done(r)
     /\ UNCHANGED nextId

\* Mutant: deleting a record leaves its units on hold.
KeepsHold(q) == {}
LiftColumns(q) == DecisionColumns(q)

\* A trigger keeps decisions, and with them the record they belong to.
Delete(r) ==
  LET q == req[r]
  IN /\ Writing(r, {"delete"})
     /\ \A i \in q.ids : NoDecision(i)
     /\ Writes(q.inv, LiftColumns(q))
     /\ Update(q.ids, [i \in Ids |-> NoRecord])
     /\ rows' = [i \in Ids |-> IF i \in q.ids THEN Empty ELSE rows[i]]
     /\ Done(r)
     /\ UNCHANGED <<nextId, decided>>

\* A request that fails, or whose client goes away, rolls back.
Abort(r) ==
  /\ ~ At(r, "idle")
  /\ Done(r)
  /\ Reads

-----------------------------------------------------------------------------
Next ==
  \E r \in Requests :
    \/ \E op \in {"receive", "receiveLot", "take", "takeLot", "adjustUp", "adjustDown"},
          n \in Units : ReadForMovement(r, op, n)
    \/ Move(r)
    \/ \E op \in {"create", "addItem"}, kind \in {"lot", "item", "other"}, n \in Units,
          ncr \in Ncrs \cup {NoNcr} : ReadForCreate(r, op, kind, n, ncr)
    \/ Create(r)
    \/ \E i \in Ids : ReadForChange(r, "annotate", i, NoNcr)
    \/ Annotate(r)
    \/ \E i \in Ids, ncr \in Ncrs \cup {NoNcr} : ReadForChange(r, "link", i, ncr)
    \/ Link(r)
    \/ \E i \in Ids, from, to \in Places, n \in Units : ReadForRelocate(r, i, from, to, n)
    \/ Relocate(r)
    \/ \E n \in Ncrs, onHold \in BOOLEAN : ReadForDisposition(r, n, onHold)
    \/ SetDisposition(r)
    \/ \E op \in {"release", "destroy"}, i \in Ids, n \in Units : ReadForDecision(r, op, i, n)
    \/ \E op \in {"release", "destroy"}, n \in Ncrs : ReadForCompletion(r, op, n)
    \/ \E i \in Ids : ReadForDelete(r, i)
    \/ ReadCounters(r)
    \/ Decide(r)
    \/ Delete(r)
    \/ Abort(r)

Spec == Init /\ [][Next]_vars

-----------------------------------------------------------------------------
(* Properties *)

TypeOK ==
  /\ records \in [Ids -> Record]
  /\ nextId \in 1 .. (MaxRecords + 1)
  /\ rows \in [Ids -> [Places -> Nat]]
  /\ decided \in [Ids -> [release : Nat, destroy : Nat]]
  /\ inv \in Inventory
  /\ req \in [Requests -> ReqState]

\* inventoryHolds, "the only place the two held-quantity counters change": they are
\* the units of the open holds on the item, and of those on the lot.
HeldCountsHolds ==
  /\ inv.held = HeldUnits(Enforced(Held))
  /\ inv.lotHeld = HeldUnits(OfLot(Held))

\* Held units of a lot are units the lot still has.
LotCoversHeld == inv.lotHeld <= inv.lot

\* The schema of quarantine_inventory: "The rows of one record add up to its quantity".
RowsAddUp == \A i \in Present : Total(rows[i], Places) = records[i].quantity

\* Every unit put on hold is still held or was decided on, once; a hold closes when
\* none is left, "released, or destroyed when nothing was ever released".
DecisionsAddUp ==
  \A i \in Present :
    /\ records[i].original =
         records[i].quantity + decided[i].release + decided[i].destroy
    /\ records[i].status = "quarantined" <=> records[i].quantity > 0
    /\ records[i].status = "released" =>  decided[i].release > 0
    /\ records[i].status = "destroyed" => decided[i].release = 0

\* The refusal of updateQuarantine, "A closed quarantine record can't be changed - it
\* is part of the history": a closed hold is never reopened, decided on again, moved
\* or deleted.
ClosedIsFinal ==
  [][\A i \in Present \ Held :
       /\ records'[i].status = records[i].status
       /\ records'[i].quantity = records[i].quantity
       /\ decided'[i] = decided[i]
       /\ rows'[i] = rows[i]]_vars

=============================================================================
