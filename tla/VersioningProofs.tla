-------------------------- MODULE VersioningProofs --------------------------
(* What Versioning guarantees for any number of overlapping requests. *)
EXTENDS Versioning, TLAPS

-----------------------------------------------------------------------------
(* Type correctness *)

\* The row of an id that holds nothing is a row.
LEMMA NoRowType == NoRow \in Row
BY BlankAssumption DEF NoRow, Fresh, Row

\* A request that has not begun is in a request state.
LEMMA IdleType == Idle \in ReqState
BY BlankAssumption DEF Idle, ReqState

\* Every row a request writes is a row.
LEMMA WrittenRows ==
  ASSUME NEW row \in Row, NEW c \in Contents, NEW u \in Users \cup {Nobody},
         NEW q \in ReqState
  PROVE  /\ Saved(row, c) \in Row
         /\ Voided(row) \in Row
         /\ Submitted(row, u) \in Row
         /\ Approved(row, u) \in Row
         /\ Rejected(row, u) \in Row
         /\ Superseded(row) \in Row
         /\ Published(row) \in Row
         /\ Bootstrapped(c) \in Row
         /\ NewDraft(q, c) \in Row
<1>1. Saved(row, c) \in Row
  BY DEF Row, Saved
<1>2. Voided(row) \in Row /\ Superseded(row) \in Row
  BY DEF Row, Voided, Superseded
<1>3. Submitted(row, u) \in Row
  BY DEF Row, Submitted
<1>4. Approved(row, u) \in Row /\ Rejected(row, u) \in Row
  BY DEF Row, Approved, Rejected
<1>5. Published(row) \in Row
  <2>1. row.publishes + 1 \in Nat
    BY DEF Row
  <2>2. ASSUME NEW n \in Nat
        PROVE  [row EXCEPT !.status = "published", !.publishes = n] \in Row
    BY DEF Row
  <2>. QED BY <2>1, <2>2 DEF Published
<1>6. Bootstrapped(c) \in Row
  BY DEF Row, Bootstrapped, Fresh
<1>7. NewDraft(q, c) \in Row
  BY DEF Row, ReqState, NewDraft, Fresh
<1>. QED BY <1>1, <1>2, <1>3, <1>4, <1>5, <1>6, <1>7

\* An UPDATE of one row keeps the table well typed; of no row it changes nothing.
LEMMA UpdateType ==
  ASSUME versions \in [RowIds -> Row], NEW i, NEW new, i \in RowIds => new \in Row,
         Update(i, new)
  PROVE  versions' \in [RowIds -> Row]
BY DEF Update

\* A request that goes to a request state keeps all of them well typed.
LEMMA GoesType ==
  ASSUME req \in [Requests -> ReqState], NEW r, NEW q \in ReqState, Goes(r, q)
  PROVE  req' \in [Requests -> ReqState]
BY DEF Goes

\* ensureBootstrapped sends a request on to a request state.
LEMMA BoundType ==
  ASSUME NEW op \in {"none", "view", "create", "rollback", "save", "void", "discard",
                     "submit", "approve", "reject", "publish"}
  PROVE  Bound(op) \in ReqState
<1>1. [Idle EXCEPT !.pc = "open", !.op = op] \in ReqState
  BY IdleType DEF ReqState
<1>2. [Idle EXCEPT !.pc = "target", !.op = op] \in ReqState
  BY IdleType DEF ReqState
<1>. QED
  <2>1. CASE op = "view"
    BY <2>1, IdleType DEF Bound
  <2>2. CASE op = "create"
    BY <2>2, <1>1 DEF Bound
  <2>3. CASE op \notin {"view", "create"}
    BY <2>3, <1>2 DEF Bound
  <2>. QED BY <2>1, <2>2, <2>3

\* A subject starts well typed.
LEMMA InitType == InitLegacy \/ InitNew => TypeOK
<1>1. CASE InitLegacy
  BY <1>1, NoRowType, IdleType, BoundAssumption DEF InitLegacy, TypeOK, RowIds
<1>2. CASE InitNew
  <2>1. ASSUME NEW c \in Contents PROVE Fresh(1, "draft", c, 0, FALSE) \in Row
    BY DEF Fresh, Row
  <2>2. versions \in [RowIds -> Row] /\ live \in Contents
    BY <1>2, <2>1, NoRowType DEF InitNew
  <2>3. /\ req = [r \in Requests |-> Idle]
        /\ active = FALSE /\ voidable = FALSE /\ nextId = 2
    BY <1>2, Zenon DEF InitNew
  <2>4. req \in [Requests -> ReqState]
    BY <2>3, IdleType
  <2>5. nextId \in 1 .. (MaxRows + 1)
    BY <2>3, BoundAssumption
  <2>6. active \in BOOLEAN /\ voidable \in BOOLEAN
    BY <2>3
  <2>. QED BY <2>2, <2>4, <2>5, <2>6 DEF TypeOK
<1>. QED BY <1>1, <1>2

\* Every variable keeps its type, of workflows made through the versioned flow too:
\* every row createDraft, publishVersion and the others write is a row of the table.
THEOREM TypeCorrect == Spec => []TypeOK
<1>2. TypeOK /\ [Next]_vars => TypeOK'
  <2>. SUFFICES ASSUME TypeOK, Next PROVE TypeOK'
    BY DEF TypeOK, vars
  <2>. PICK r \in Requests :
       \/ \E op \in {"view", "create", "rollback"}, u \in Users : Begin(r, op, u)
       \/ Seed(r)
       \/ \E i \in RowIds : ReadTarget(r, i)
       \/ CheckOpen(r) \/ ReadPublished(r) \/ ReadNumber(r) \/ InsertDraft(r)
       \/ \E op \in {"save", "void", "discard", "submit", "approve", "reject"},
             i \in RowIds, u \in Users : Load(r, op, i, u)
       \/ \E i \in RowIds : LoadForPublish(r, i)
       \/ ReadPrevious(r) \/ Save(r) \/ Void(r) \/ Discard(r) \/ Submit(r) \/ Review(r)
       \/ Publish(r) \/ Abort(r)
    BY Zenon DEF Next, Step
  <2>. voidable' \in BOOLEAN
    BY DEF Next, TypeOK
  <2>. /\ versions \in [RowIds -> Row] /\ nextId \in 1 .. (MaxRows + 1)
       /\ live \in Contents /\ active \in BOOLEAN /\ req \in [Requests -> ReqState]
       /\ req[r] \in ReqState
    BY DEF TypeOK
  <2>. MaxRows \in Nat /\ RowIds \subseteq Nat
    BY BoundAssumption DEF RowIds
  <2>0. ASSUME Done(r) PROVE req' \in [Requests -> ReqState]
    BY <2>0, IdleType, GoesType DEF Done
  <2>1. ASSUME NEW op \in {"view", "create", "rollback"}, NEW u \in Users, Begin(r, op, u)
        PROVE  TypeOK'
    <3>1. [Idle EXCEPT !.pc = "seed", !.op = op, !.content = live] \in ReqState
      BY IdleType DEF ReqState
    <3>2. Bound(op) \in ReqState
      BY BoundType
    <3>. QED BY <2>1, <3>1, <3>2, GoesType DEF Begin, Reads, TypeOK
  <2>2. CASE Seed(r)
    <3>1. req' \in [Requests -> ReqState]
      BY <2>2, BoundType, GoesType DEF Seed, ReqState
    <3>2. Bootstrapped(req[r].content) \in Row
      BY DEF Bootstrapped, Fresh, Row, ReqState
    <3>. QED BY <2>2, <3>1, <3>2 DEF Seed, TypeOK, RowIds
  <2>3. ASSUME NEW i \in RowIds, ReadTarget(r, i) PROVE TypeOK'
    <3>1. [req[r] EXCEPT !.pc = "open", !.base = versions[i].number,
                         !.content = versions[i].content] \in ReqState
      BY DEF ReqState, Row
    <3>. QED BY <2>3, <3>1, GoesType DEF ReadTarget, Reads, TypeOK
  <2>4. CASE CheckOpen(r)
    <3>1. [req[r] EXCEPT !.pc = IF req[r].op = "create" THEN "published" ELSE "number"]
            \in ReqState
      BY DEF ReqState
    <3>. QED BY <2>4, <3>1, <2>0, GoesType DEF CheckOpen, Reads, TypeOK
  <2>5. CASE ReadPublished(r)
    <3>1. [req[r] EXCEPT !.pc = "number"] \in ReqState
      BY DEF ReqState
    <3>2. ASSUME NEW i \in RowIds
          PROVE  [req[r] EXCEPT !.pc = "number", !.base = versions[i].number,
                                !.content = versions[i].content] \in ReqState
      BY DEF ReqState, Row
    <3>. QED BY <2>5, <3>1, <3>2, GoesType DEF ReadPublished, Reads, TypeOK, PublishedRows
  <2>6. CASE ReadNumber(r)
    <3>1. ASSUME NEW n \in 1 .. (MaxRows + 1)
          PROVE  [req[r] EXCEPT !.pc = "insert", !.number = n] \in ReqState
      <4>. n \in Nat
        OBVIOUS
      <4>. QED BY DEF ReqState
    <3>. QED BY <2>6, <3>1, GoesType DEF ReadNumber, Reads, TypeOK
  <2>7. CASE InsertDraft(r)
    <3>1. req[r].content \in Contents
      BY DEF ReqState
    <3>2. ASSUME NEW c \in Contents PROVE NewDraft(req[r], c) \in Row
      BY DEF NewDraft, Fresh, Row, ReqState
    <3>3. PICK c \in Contents :
             IF InsertAllowed(NewDraft(req[r], c))
               THEN /\ versions' = [versions EXCEPT ![nextId] = NewDraft(req[r], c)]
                    /\ nextId' = nextId + 1
               ELSE UNCHANGED <<versions, nextId>>
      BY <2>7, <3>1 DEF InsertDraft
    <3>. QED BY <2>7, <2>0, <3>2, <3>3 DEF InsertDraft, TypeOK, RowIds
  <2>8. ASSUME NEW op \in {"save", "void", "discard", "submit", "approve", "reject"},
               NEW i \in RowIds, NEW u \in Users, Load(r, op, i, u)
        PROVE  TypeOK'
    <3>1. [Idle EXCEPT !.pc = "write", !.op = op, !.id = i, !.by = u] \in ReqState
      BY IdleType DEF ReqState
    <3>. QED BY <2>8, <3>1, GoesType DEF Load, Reads, TypeOK
  <2>9. ASSUME NEW i \in RowIds, LoadForPublish(r, i) PROVE TypeOK'
    <3>1. [Idle EXCEPT !.pc = "previous", !.op = "publish", !.id = i,
                       !.content = versions[i].content] \in ReqState
      BY IdleType DEF ReqState, Row
    <3>. QED BY <2>9, <3>1, GoesType DEF LoadForPublish, Reads, TypeOK
  <2>10. CASE ReadPrevious(r)
    <3>1. [req[r] EXCEPT !.pc = "write"] \in ReqState
      BY DEF ReqState
    <3>2. ASSUME NEW i \in RowIds
          PROVE  [req[r] EXCEPT !.pc = "write", !.prev = i] \in ReqState
      BY DEF ReqState
    <3>. QED BY <2>10, <3>1, <3>2, GoesType DEF ReadPrevious, Reads, TypeOK, PublishedRows
  <2>. DEFINE i == req[r].id
              row == versions[i]
  <2>11. req[r].by \in Users \cup {Nobody} /\ (i \in RowIds => row \in Row)
    BY DEF ReqState
  <2>12. CASE Save(r)
    <3>1. PICK c \in Contents : Update(i, Saved(row, c))
      BY <2>12 DEF Save
    <3>2. i \in RowIds => Saved(row, c) \in Row
      BY <2>11, WrittenRows
    <3>. QED BY <2>12, <2>0, <3>1, <3>2, UpdateType DEF Save, TypeOK
  <2>13. CASE Void(r)
    <3>1. i \in RowIds => Voided(row) \in Row
      BY <2>11, BlankAssumption, WrittenRows
    <3>. QED BY <2>13, <2>0, <3>1, UpdateType DEF Void, TypeOK
  <2>14. CASE Discard(r)
    BY <2>14, <2>0, NoRowType DEF Discard, TypeOK
  <2>15. CASE Submit(r)
    <3>1. i \in RowIds => Submitted(row, req[r].by) \in Row
      BY <2>11, BlankAssumption, WrittenRows
    <3>. QED BY <2>15, <2>0, <3>1, UpdateType DEF Submit, TypeOK
  <2>16. CASE Review(r)
    <3>1. i \in RowIds => Approved(row, req[r].by) \in Row /\ Rejected(row, req[r].by) \in Row
      BY <2>11, BlankAssumption, WrittenRows
    <3>2. versions' \in [RowIds -> Row]
      BY <2>16, <3>1, UpdateType DEF Review
    <3>. QED BY <2>16, <2>0, <3>2 DEF Review, TypeOK
  <2>17. CASE Publish(r)
    <3>1. i \in RowIds => Published(row) \in Row
      BY <2>11, BlankAssumption, WrittenRows
    <3>2. ASSUME NEW p \in RowIds PROVE Superseded(versions[p]) \in Row
      BY BlankAssumption, WrittenRows
    <3>3. req[r].prev \in RowIds \cup {0} /\ req[r].content \in Contents
      BY DEF ReqState
    <3>4. versions' \in [RowIds -> Row]
      BY <2>17, <3>1, <3>2, <3>3 DEF Publish
    <3>5. live' \in Contents /\ active' \in BOOLEAN
      BY <2>17, <3>3 DEF Publish
    <3>. QED BY <2>17, <2>0, <3>4, <3>5 DEF Publish, TypeOK
  <2>18. CASE Abort(r)
    BY <2>18, <2>0 DEF Abort, Reads, TypeOK
  <2>. QED BY <2>1, <2>2, <2>3, <2>4, <2>5, <2>6, <2>7, <2>8, <2>9, <2>10, <2>12, <2>13,
              <2>14, <2>15, <2>16, <2>17, <2>18
<1>. QED BY <1>2, InitType, PTL DEF Spec

-----------------------------------------------------------------------------
(* One open version, one published version *)

\* Rows are numbered in order: nothing is at or above the sequence, and every
\* request is about a row below it.
IdsBelowNext ==
  /\ \A i \in RowIds : i >= nextId => versions[i].status = "absent"
  /\ \A r \in Requests : req[r].id < nextId

\* Once the subject has a version, version 1 is published or archived for good, so
\* a late ensureBootstrapped conflicts with it.
Rooted == Present # {} => \E i \in RowIds : versions[i].number = 1 /\ Frozen(versions[i])

\* A request past ensureBootstrapped works on a subject that has a version.
PastBootstrap ==
  \A r \in Requests :
    req[r].pc \in {"target", "open", "published", "number", "insert"} => Present # {}

\* While the version a request is about to publish is still open, nothing else
\* became published: the published row it read, if any, is the one it supersedes.
PreviousCurrent ==
  \A r \in Requests :
    req[r].pc = "write" /\ req[r].op = "publish" =>
      /\ req[r].id \in RowIds
      /\ req[r].prev # 0 => Frozen(versions[req[r].prev])
      /\ Open(versions[req[r].id]) => PublishedRows \subseteq {req[r].prev}

\* The row a request will act on was loaded before.
PublishLoaded ==
  \A r \in Requests :
    req[r].pc = "previous" =>
      req[r].op = "publish" /\ req[r].id \in RowIds /\ req[r].prev = 0

IInv ==
  /\ TypeOK
  /\ OneOfEach
  /\ IdsBelowNext
  /\ Rooted
  /\ PastBootstrap
  /\ PreviousCurrent
  /\ PublishLoaded

\* What a write other than an INSERT or a publish may do to a row.
Kept(j) ==
  /\ Frozen(versions[j]) => Frozen(versions'[j]) /\ versions'[j].number = versions[j].number
  /\ Open(versions'[j]) => Open(versions[j])
  /\ versions[j].status = "absent" => versions'[j].status = "absent"
  /\ versions'[j].status = "published" => versions[j].status = "published"

\* An UPDATE that publishes nothing keeps frozen rows frozen and opens none.
LEMMA UpdateKeeps ==
  ASSUME versions \in [RowIds -> Row], NEW i, NEW new, Update(i, new),
         i \in RowIds => \/ new.status = versions[i].status
                         \/ new.status = "archived"
                         \/ new.status = "draft" \/ new.status = "in_review"
  PROVE  \A j \in RowIds : Kept(j)
<1>. SUFFICES ASSUME NEW j \in RowIds PROVE Kept(j)
  OBVIOUS
<1>1. CASE versions'[j] = versions[j]
  BY <1>1 DEF Kept
<1>2. CASE versions'[j] # versions[j]
  <2>1. j = i /\ versions'[j] = new /\ versions[j].status # "absent"
        /\ TriggerAllows(versions[j], new)
    BY <1>2 DEF Update
  <2>2. versions[j].status \in {"absent", "draft", "in_review", "published", "archived"}
    BY DEF Row
  <2>. QED BY <2>1, <2>2 DEF Kept, TriggerAllows, Frozen, Open
<1>. QED BY <1>1, <1>2

\* Saving, voiding, discarding, submitting and reviewing publish nothing.
LEMMA WritesKeep ==
  ASSUME TypeOK, NEW r \in Requests,
         Save(r) \/ Void(r) \/ Discard(r) \/ Submit(r) \/ Review(r)
  PROVE  (\A j \in RowIds : Kept(j)) /\ nextId' = nextId /\ Goes(r, Idle)
<1>. DEFINE i == req[r].id
            row == versions[i]
<1>. versions \in [RowIds -> Row] /\ (i \in RowIds => row \in Row)
  BY DEF TypeOK
<1>0. nextId' = nextId /\ Goes(r, Idle)
  BY DEF Save, Void, Discard, Submit, Review, Done
<1>1. CASE Save(r)
  <2>1. PICK c \in Contents : Update(i, Saved(row, c))
    BY <1>1 DEF Save
  <2>2. i \in RowIds => Saved(row, c).status = row.status
    BY DEF Saved, Row
  <2>. QED BY <2>1, <2>2, <1>0, UpdateKeeps
<1>2. CASE Void(r)
  <2>1. i \in RowIds => Voided(row).status = "archived"
    BY DEF Voided, Row
  <2>. QED BY <1>2, <2>1, <1>0, UpdateKeeps DEF Void
<1>3. CASE Discard(r)
  <2>1. \A j \in RowIds : versions'[j] = versions[j]
                          \/ (versions'[j] = NoRow /\ ~ Frozen(versions[j]))
    BY <1>3 DEF Discard
  <2>2. NoRow.status = "absent"
    BY DEF NoRow, Fresh
  <2>. QED BY <2>1, <2>2, <1>0 DEF Kept, Open, Frozen
<1>4. CASE Submit(r)
  <2>1. i \in RowIds => Submitted(row, req[r].by).status = "in_review"
    BY DEF Submitted, Row
  <2>. QED BY <1>4, <2>1, <1>0, UpdateKeeps DEF Submit
<1>5. CASE Review(r)
  <2>1. i \in RowIds => /\ Approved(row, req[r].by).status = row.status
                        /\ Rejected(row, req[r].by).status = "draft"
    BY DEF Approved, Rejected, Row
  <2>. QED BY <1>5, <2>1, <1>0, UpdateKeeps DEF Review
<1>. QED BY <1>1, <1>2, <1>3, <1>4, <1>5

\* A step that only rewrites or deletes rows, or reads, and sends one request to a
\* state that publishes nothing, preserves the invariant.
LEMMA KeptPreserves ==
  ASSUME IInv, TypeOK', \A j \in RowIds : Kept(j), nextId' = nextId,
         NEW r \in Requests, NEW q, Goes(r, q),
         q.id < nextId,
         q.pc \in {"target", "open", "published", "number", "insert"} => Present # {},
         q.pc \in {"previous", "write"} /\ q.op = "publish" => q.id \in RowIds,
         q.pc = "previous" => q.op = "publish" /\ q.prev = 0,
         q.pc = "write" /\ q.op = "publish" /\ q.prev # 0
           => q.prev \in RowIds /\ Frozen(versions[q.prev]),
         q.pc = "write" /\ q.op = "publish" /\ Open(versions[q.id])
           => PublishedRows \subseteq {q.prev}
  PROVE  IInv'
<1>. USE DEF IInv
<1>. /\ versions \in [RowIds -> Row] /\ versions' \in [RowIds -> Row]
     /\ req \in [Requests -> ReqState]
  BY DEF TypeOK
<1>0. \A s \in Requests : req'[s] = IF s = r THEN q ELSE req[s]
  BY DEF Goes
<1>1. OpenRows' \subseteq OpenRows /\ PublishedRows' \subseteq PublishedRows
      /\ Present' \subseteq Present
  BY DEF OpenRows, PublishedRows, Present, Kept
<1>2. OneOfEach'
  BY <1>1 DEF OneOfEach
<1>3. IdsBelowNext'
  BY <1>0, <1>1 DEF IdsBelowNext, Present
<1>4. Present # {} => Present' # {} /\ Rooted'
  <2>. SUFFICES ASSUME Present # {} PROVE Present' # {} /\ Rooted'
    OBVIOUS
  <2>1. PICK i \in RowIds : versions[i].number = 1 /\ Frozen(versions[i])
    BY DEF Rooted
  <2>2. versions'[i].number = 1 /\ Frozen(versions'[i])
    BY <2>1 DEF Kept
  <2>. QED BY <2>2 DEF Rooted, Present, Frozen
<1>5. Rooted'
  BY <1>1, <1>4 DEF Rooted
<1>6. PastBootstrap'
  BY <1>0, <1>4 DEF PastBootstrap
<1>7. PublishLoaded'
  BY <1>0 DEF PublishLoaded
<1>8. PreviousCurrent'
  <2>. SUFFICES ASSUME NEW s \in Requests, req'[s].pc = "write", req'[s].op = "publish"
                PROVE  /\ req'[s].id \in RowIds
                       /\ req'[s].prev # 0 => Frozen(versions'[req'[s].prev])
                       /\ Open(versions'[req'[s].id]) => PublishedRows' \subseteq {req'[s].prev}
    BY DEF PreviousCurrent
  <2>1. CASE s = r
    BY <2>1, <1>0, <1>1 DEF Kept
  <2>2. CASE s # r
    <3>1. req[s].prev # 0 => req[s].prev \in RowIds
      BY DEF ReqState
    <3>. QED BY <2>2, <3>1, <1>0, <1>1 DEF Kept, PreviousCurrent
  <2>. QED BY <2>1, <2>2
<1>. QED BY <1>2, <1>3, <1>5, <1>6, <1>7, <1>8

\* Reading changes no row.
LEMMA ReadsKeep ==
  ASSUME Reads
  PROVE  (\A j \in RowIds : Kept(j)) /\ nextId' = nextId
BY DEF Reads, Kept

\* The steps of the requests that are not a write.
LEMMA ReadSteps ==
  ASSUME IInv, TypeOK', NEW r \in Requests,
         \/ \E op \in {"view", "create", "rollback"}, u \in Users : Begin(r, op, u)
         \/ \E i \in RowIds : ReadTarget(r, i)
         \/ CheckOpen(r) \/ ReadPublished(r) \/ ReadNumber(r)
         \/ \E op \in {"save", "void", "discard", "submit", "approve", "reject"},
               i \in RowIds, u \in Users : Load(r, op, i, u)
         \/ \E i \in RowIds : LoadForPublish(r, i)
         \/ ReadPrevious(r) \/ Abort(r)
  PROVE  IInv'
<1>. /\ versions \in [RowIds -> Row] /\ req[r] \in ReqState /\ nextId \in Nat \ {0}
     /\ RowIds \subseteq Nat
  BY BoundAssumption DEF IInv, TypeOK, RowIds
<1>. /\ req[r].id < nextId
     /\ req[r].pc \in {"target", "open", "published", "number", "insert"} => Present # {}
     /\ req[r].pc = "previous" => req[r].op = "publish" /\ req[r].id \in RowIds
  BY DEF IInv, IdsBelowNext, PastBootstrap, PublishLoaded
<1>0. ASSUME Reads, Goes(r, Idle) PROVE IInv'
  BY <1>0, ReadsKeep, KeptPreserves DEF Idle
<1>1. ASSUME NEW op \in {"view", "create", "rollback"}, NEW u \in Users, Begin(r, op, u)
      PROVE  IInv'
  <2>1. CASE Present = {}
    <3>. DEFINE q == [Idle EXCEPT !.pc = "seed", !.op = op, !.content = live]
    <3>1. q.pc = "seed" /\ q.id = 0
      BY DEF Idle
    <3>2. Goes(r, q) /\ Reads
      BY <1>1, <2>1 DEF Begin
    <3>. HIDE DEF q
    <3>. QED BY <3>1, <3>2, ReadsKeep, KeptPreserves
  <2>2. CASE Present # {}
    <3>1. Bound(op).pc \in {"idle", "open", "target"} /\ Bound(op).id = 0
      BY DEF Bound, Idle
    <3>2. Goes(r, Bound(op)) /\ Reads
      BY <1>1, <2>2 DEF Begin
    <3>. QED BY <2>2, <3>1, <3>2, ReadsKeep, KeptPreserves
  <2>. QED BY <2>1, <2>2
<1>2. ASSUME NEW i \in RowIds, ReadTarget(r, i) PROVE IInv'
  <2>. DEFINE q == [req[r] EXCEPT !.pc = "open", !.base = versions[i].number,
                                  !.content = versions[i].content]
  <2>1. q.pc = "open" /\ q.id = req[r].id
    BY DEF ReqState
  <2>2. Goes(r, q) /\ Reads /\ Present # {}
    BY <1>2 DEF ReadTarget, At
  <2>. HIDE DEF q
  <2>. QED BY <2>1, <2>2, ReadsKeep, KeptPreserves
<1>3. CASE CheckOpen(r)
  <2>. DEFINE q == [req[r] EXCEPT !.pc = IF req[r].op = "create" THEN "published" ELSE "number"]
  <2>1. q.pc \in {"published", "number"} /\ q.id = req[r].id
    BY DEF ReqState
  <2>2. (Goes(r, Idle) \/ Goes(r, q)) /\ Reads /\ Present # {}
    BY <1>3 DEF CheckOpen, At, Done
  <2>. HIDE DEF q
  <2>. QED BY <1>0, <2>1, <2>2, ReadsKeep, KeptPreserves
<1>4. CASE ReadPublished(r)
  <2>1. PICK q : Goes(r, q) /\ q.pc = "number" /\ q.id = req[r].id
    <3>. DEFINE q1 == [req[r] EXCEPT !.pc = "number"]
                q2(p) == [req[r] EXCEPT !.pc = "number", !.base = versions[p].number,
                                        !.content = versions[p].content]
    <3>1. q1.pc = "number" /\ q1.id = req[r].id
      BY DEF ReqState
    <3>2. \A p \in PublishedRows : q2(p).pc = "number" /\ q2(p).id = req[r].id
      BY DEF ReqState
    <3>3. Goes(r, q1) \/ \E p \in PublishedRows : Goes(r, q2(p))
      BY <1>4 DEF ReadPublished
    <3>. HIDE DEF q1, q2
    <3>. QED BY <3>1, <3>2, <3>3
  <2>2. Reads /\ Present # {}
    BY <1>4 DEF ReadPublished, At
  <2>. QED BY <2>1, <2>2, ReadsKeep, KeptPreserves
<1>5. CASE ReadNumber(r)
  <2>1. PICK n \in 1 .. (MaxRows + 1) : Goes(r, [req[r] EXCEPT !.pc = "insert", !.number = n])
    BY <1>5 DEF ReadNumber
  <2>. DEFINE q == [req[r] EXCEPT !.pc = "insert", !.number = n]
  <2>2. q.pc = "insert" /\ q.id = req[r].id
    BY DEF ReqState
  <2>3. Reads /\ Present # {}
    BY <1>5 DEF ReadNumber, At
  <2>4. Goes(r, q)
    BY <2>1
  <2>. HIDE DEF q
  <2>. QED BY <2>2, <2>3, <2>4, ReadsKeep, KeptPreserves
<1>6. ASSUME NEW op \in {"save", "void", "discard", "submit", "approve", "reject"},
             NEW i \in RowIds, NEW u \in Users, Load(r, op, i, u)
      PROVE  IInv'
  <2>. DEFINE q == [Idle EXCEPT !.pc = "write", !.op = op, !.id = i, !.by = u]
  <2>1. q.pc = "write" /\ q.id = i /\ q.op # "publish"
    BY DEF Idle
  <2>2. Goes(r, q) /\ Reads
    BY <1>6 DEF Load
  <2>3. versions[i].status # "absent"
    BY <1>6 DEF Load, MayAct, MaySave, MayVoid, MayDiscard, MaySubmit, MayReview, Open
  <2>4. i < nextId
    BY <2>3 DEF IInv, IdsBelowNext
  <2>. HIDE DEF q
  <2>. QED BY <2>1, <2>2, <2>4, ReadsKeep, KeptPreserves
<1>7. ASSUME NEW i \in RowIds, LoadForPublish(r, i) PROVE IInv'
  <2>. DEFINE q == [Idle EXCEPT !.pc = "previous", !.op = "publish", !.id = i,
                                !.content = versions[i].content]
  <2>1. q.pc = "previous" /\ q.id = i /\ q.op = "publish" /\ q.prev = 0
    BY DEF Idle
  <2>2. Goes(r, q) /\ Reads
    BY <1>7 DEF LoadForPublish
  <2>3. versions[i].status # "absent"
    BY <1>7 DEF LoadForPublish, MayPublish
  <2>4. i < nextId
    BY <2>3 DEF IInv, IdsBelowNext
  <2>. HIDE DEF q
  <2>. QED BY <2>1, <2>2, <2>4, ReadsKeep, KeptPreserves
<1>8. CASE ReadPrevious(r)
  <2>1. PICK q : Goes(r, q) /\ q.pc = "write" /\ q.id = req[r].id /\ q.op = req[r].op
                 /\ PublishedRows \subseteq {q.prev} /\ (q.prev # 0 => q.prev \in PublishedRows)
    <3>. DEFINE q1 == [req[r] EXCEPT !.pc = "write"]
                q2(p) == [req[r] EXCEPT !.pc = "write", !.prev = p]
    <3>1. q1.pc = "write" /\ q1.id = req[r].id /\ q1.op = req[r].op /\ q1.prev = 0
      BY <1>8 DEF ReqState, ReadPrevious, At, IInv, PublishLoaded
    <3>2. \A p \in PublishedRows : /\ q2(p).pc = "write" /\ q2(p).id = req[r].id
                                   /\ q2(p).op = req[r].op /\ q2(p).prev = p
      BY DEF ReqState
    <3>3. \/ Goes(r, q1) /\ PublishedRows = {}
          \/ \E p \in PublishedRows : Goes(r, q2(p))
      BY <1>8 DEF ReadPrevious
    <3>4. \A p \in PublishedRows : PublishedRows \subseteq {p}
      BY DEF IInv, OneOfEach
    <3>. HIDE DEF q1, q2
    <3>. QED BY <3>1, <3>2, <3>3, <3>4
  <2>2. Reads /\ req[r].op = "publish" /\ req[r].id \in RowIds
    BY <1>8 DEF ReadPrevious, At
  <2>3. q.prev # 0 => q.prev \in RowIds /\ Frozen(versions[q.prev])
    BY <2>1 DEF PublishedRows, Frozen
  <2>. QED BY <2>1, <2>2, <2>3, ReadsKeep, KeptPreserves
<1>9. CASE Abort(r)
  BY <1>0, <1>9 DEF Abort, Done
<1>. QED BY <1>1, <1>2, <1>3, <1>4, <1>5, <1>6, <1>7, <1>8, <1>9

\* Inserting a row that the unique indexes allow.
LEMMA InsertPreserves ==
  ASSUME IInv, TypeOK', NEW r \in Requests, NEW q, Goes(r, q), NEW row,
         \/ row.status = "draft" /\ Present # {}
         \/ row.status = "published" /\ row.number = 1,
         InsertAllowed(row), nextId \in RowIds,
         versions' = [versions EXCEPT ![nextId] = row], nextId' = nextId + 1,
         q.id = 0,
         q.pc \notin {"previous", "write"}
  PROVE  IInv'
<1>. USE DEF IInv
<1>. /\ versions \in [RowIds -> Row] /\ req \in [Requests -> ReqState] /\ nextId \in Nat
     /\ RowIds \subseteq Nat
  BY DEF TypeOK, RowIds
<1>0. \A s \in Requests : req'[s] = IF s = r THEN q ELSE req[s]
  BY DEF Goes
<1>. \A s \in Requests : req[s].id \in Nat /\ req[s].id < nextId
  BY DEF IdsBelowNext, ReqState, RowIds
<1>1. versions[nextId].status = "absent"
  BY DEF IdsBelowNext
<1>2. \A j \in RowIds : versions'[j] = IF j = nextId THEN row ELSE versions[j]
  OBVIOUS
<1>3. nextId \in Present'
  BY <1>2 DEF Present
<1>4. CASE row.status = "published"
  <2>1. Present = {}
    <3>1. row.number = 1 /\ 1 \notin Numbers
      BY <1>4 DEF InsertAllowed
    <3>2. ASSUME NEW i \in RowIds, versions[i].number = 1, Frozen(versions[i]) PROVE FALSE
      BY <3>1, <3>2 DEF Numbers, Present, Frozen
    <3>. QED BY <3>2 DEF Rooted
  <2>2. OpenRows' = {} /\ PublishedRows' = {nextId}
    BY <1>2, <1>4, <2>1 DEF OpenRows, PublishedRows, Open, Present
  <2>3. OneOfEach' /\ Rooted'
    BY <1>2, <1>4, <2>2 DEF OneOfEach, Rooted, Frozen
  <2>4. \A j \in RowIds : ~ Open(versions'[j]) /\ ~ Frozen(versions[j])
    BY <2>1, <2>2 DEF OpenRows, Present, Frozen
  <2>5. PreviousCurrent'
    <3>1. ASSUME NEW s \in Requests, req'[s].pc = "write", req'[s].op = "publish"
          PROVE  req'[s].id \in RowIds /\ req'[s].prev = 0
      <4>1. req'[s] = req[s]
        BY <1>0, <3>1
      <4>2. req[s].prev \in RowIds \cup {0}
        BY DEF ReqState
      <4>3. req[s].id \in RowIds /\ (req[s].prev # 0 => Frozen(versions[req[s].prev]))
        BY <3>1, <4>1 DEF PreviousCurrent
      <4>. QED BY <4>1, <4>2, <4>3, <2>4
    <3>. QED BY <3>1, <2>4 DEF PreviousCurrent
  <2>6. IdsBelowNext'
    <3>1. \A j \in RowIds : j >= nextId' => versions'[j].status = "absent"
      BY <1>2 DEF IdsBelowNext
    <3>2. \A s \in Requests : req'[s].id < nextId'
      BY <1>0
    <3>. QED BY <3>1, <3>2 DEF IdsBelowNext
  <2>7. PastBootstrap' /\ PublishLoaded'
    BY <1>0, <1>3 DEF PastBootstrap, PublishLoaded
  <2>. QED BY <2>3, <2>5, <2>6, <2>7
<1>5. CASE row.status = "draft" /\ Present # {}
  <2>1. OpenRows = {}
    BY <1>5 DEF InsertAllowed, Open
  <2>2. OpenRows' = {nextId} /\ PublishedRows' = PublishedRows
    BY <1>1, <1>2, <1>5, <2>1 DEF OpenRows, PublishedRows, Open
  <2>3. OneOfEach'
    BY <2>2 DEF OneOfEach
  <2>4. Rooted'
    <3>1. PICK i \in RowIds : versions[i].number = 1 /\ Frozen(versions[i])
      BY <1>5 DEF Rooted
    <3>2. versions'[i] = versions[i]
      BY <3>1, <1>1, <1>2 DEF Frozen
    <3>. QED BY <3>1, <3>2 DEF Rooted
  <2>5. ASSUME NEW s \in Requests, req'[s].pc = "write", req'[s].op = "publish"
        PROVE  /\ req'[s].id \in RowIds
               /\ req'[s].prev # 0 => Frozen(versions'[req'[s].prev])
               /\ Open(versions'[req'[s].id]) => PublishedRows' \subseteq {req'[s].prev}
    <3>1. s # r /\ req'[s] = req[s] /\ req[s].id < nextId
      BY <1>0, <2>5 DEF IdsBelowNext
    <3>2. req[s].id \in RowIds
      BY <3>1, <2>5 DEF PreviousCurrent
    <3>3. versions'[req[s].id] = versions[req[s].id]
      BY <3>1, <3>2, <1>2
    <3>4. req[s].prev # 0 => Frozen(versions[req[s].prev])
      BY <3>1, <2>5 DEF PreviousCurrent
    <3>5. req[s].prev # 0 => versions'[req[s].prev] = versions[req[s].prev]
      BY <3>1, <3>4, <1>1, <1>2 DEF Frozen, ReqState
    <3>. QED BY <3>1, <3>2, <3>3, <3>4, <3>5, <2>2, <2>5 DEF PreviousCurrent
  <2>6. PreviousCurrent'
    BY <2>5 DEF PreviousCurrent
  <2>7. IdsBelowNext'
    <3>1. \A j \in RowIds : j >= nextId' => versions'[j].status = "absent"
      BY <1>2 DEF IdsBelowNext
    <3>2. \A s \in Requests : req'[s].id < nextId'
      BY <1>0
    <3>. QED BY <3>1, <3>2 DEF IdsBelowNext
  <2>8. PastBootstrap' /\ PublishLoaded'
    BY <1>0, <1>3 DEF PastBootstrap, PublishLoaded
  <2>. QED BY <2>3, <2>4, <2>6, <2>7, <2>8
<1>. QED BY <1>4, <1>5

\* A request that fails on a unique violation, or conflicts with the seeded version.
LEMMA InsertSteps ==
  ASSUME IInv, TypeOK', NEW r \in Requests, Seed(r) \/ InsertDraft(r)
  PROVE  IInv'
<1>. /\ versions \in [RowIds -> Row] /\ req[r] \in ReqState /\ nextId \in 1 .. (MaxRows + 1)
     /\ MaxRows \in Nat
  BY BoundAssumption DEF IInv, TypeOK
<1>0. nextId <= MaxRows => nextId \in RowIds
  BY DEF RowIds
<1>1. Idle.id = 0 /\ Idle.pc = "idle"
  BY DEF Idle
<1>2. CASE Seed(r)
  <2>. DEFINE row == Bootstrapped(req[r].content)
              q == Bound(req[r].op)
  <2>1. row.status = "published" /\ row.number = 1
    BY DEF Bootstrapped, Fresh
  <2>2. q.id = 0 /\ q.pc \in {"idle", "open", "target"}
    BY DEF Bound, Idle
  <2>3. Goes(r, q)
    BY <1>2 DEF Seed
  <2>4. CASE InsertAllowed(row)
    <3>1. versions' = [versions EXCEPT ![nextId] = row] /\ nextId' = nextId + 1
      BY <1>2, <2>4 DEF Seed
    <3>2. nextId \in RowIds
      BY <1>2, <1>0 DEF Seed
    <3>. HIDE DEF row, q
    <3>. QED BY <2>1, <2>2, <2>3, <2>4, <3>1, <3>2, InsertPreserves
  <2>5. CASE ~ InsertAllowed(row)
    <3>1. versions' = versions /\ nextId' = nextId
      BY <1>2, <2>5 DEF Seed
    <3>2. 1 \in Numbers
      <4>1. ~ Open(row)
        BY <2>1 DEF Open
      <4>. QED BY <2>1, <2>5, <4>1 DEF InsertAllowed
    <3>3. Present # {}
      BY <3>2 DEF Numbers
    <3>4. \A j \in RowIds : Kept(j)
      BY <3>1 DEF Kept
    <3>5. q.id < nextId
      BY <2>2
    <3>. HIDE DEF row, q
    <3>. QED BY <2>2, <2>3, <3>1, <3>3, <3>4, <3>5, KeptPreserves
  <2>. QED BY <2>4, <2>5
<1>3. CASE InsertDraft(r)
  <2>1. PICK c : IF InsertAllowed(NewDraft(req[r], c))
                   THEN /\ versions' = [versions EXCEPT ![nextId] = NewDraft(req[r], c)]
                        /\ nextId' = nextId + 1
                   ELSE UNCHANGED <<versions, nextId>>
    BY <1>3 DEF InsertDraft
  <2>. DEFINE row == NewDraft(req[r], c)
  <2>2. row.status = "draft"
    BY DEF NewDraft, Fresh
  <2>3. Goes(r, Idle) /\ Present # {} /\ nextId \in RowIds
    BY <1>3, <1>0 DEF InsertDraft, Done, IInv, PastBootstrap, At
  <2>4. CASE InsertAllowed(row)
    <3>1. versions' = [versions EXCEPT ![nextId] = row] /\ nextId' = nextId + 1
      BY <2>1, <2>4
    <3>. HIDE DEF row
    <3>. QED BY <1>1, <2>2, <2>3, <2>4, <3>1, InsertPreserves
  <2>5. CASE ~ InsertAllowed(row)
    <3>1. versions' = versions /\ nextId' = nextId
      BY <2>1, <2>5
    <3>2. \A j \in RowIds : Kept(j)
      BY <3>1 DEF Kept
    <3>. QED BY <1>1, <2>3, <3>1, <3>2, KeptPreserves
  <2>. QED BY <2>4, <2>5
<1>. QED BY <1>2, <1>3

\* Publishing: the version was still open and replaces the published one, it is gone
\* and only the superseded one changes, or it is frozen and nothing does.
LEMMA PublishPreserves ==
  ASSUME IInv, TypeOK', NEW r \in Requests, Publish(r)
  PROVE  IInv'
<1>. USE DEF IInv
<1>. DEFINE q == req[r]
            row == versions[q.id]
<1>. /\ versions \in [RowIds -> Row] /\ versions' \in [RowIds -> Row]
     /\ req \in [Requests -> ReqState] /\ q \in ReqState /\ nextId \in Nat \ {0}
  BY DEF TypeOK
<1>1. /\ q.id \in RowIds
      /\ q.prev # 0 => q.prev \in RowIds /\ Frozen(versions[q.prev])
      /\ Open(row) => PublishedRows \subseteq {q.prev}
  BY DEF Publish, Writing, At, PreviousCurrent, ReqState
<1>2. Goes(r, Idle) /\ nextId' = nextId /\ Idle.id = 0 /\ Idle.pc = "idle"
  BY DEF Publish, Done, Idle
<1>3. row.status \in {"absent", "draft", "in_review", "published", "archived"}
  BY <1>1 DEF Row
<1>4. CASE Frozen(row)
  <2>1. Published(row).publishes = row.publishes + 1 /\ row.publishes \in Nat
    BY <1>1 DEF Published, Row
  <2>2. versions' = versions
    BY <1>4, <2>1 DEF Publish, TriggerAllows
  <2>. QED BY <1>2, <2>2, KeptPreserves DEF Kept
<1>5. ASSUME NEW j \in RowIds
      PROVE  /\ Superseded(versions[j]).status = "archived"
             /\ Superseded(versions[j]).number = versions[j].number
  BY DEF Superseded, Row
<1>6. CASE row.status = "absent"
  <2>1. versions' = IF q.prev = 0 THEN versions
                    ELSE [versions EXCEPT ![q.prev] = Superseded(versions[q.prev])]
    BY <1>6 DEF Publish, TriggerAllows, Frozen
  <2>2. \A j \in RowIds : Kept(j)
    BY <2>1, <1>1, <1>5 DEF Kept, Frozen, Open
  <2>. QED BY <1>2, <2>2, KeptPreserves
<1>7. CASE Open(row)
  <2>. Published(row).status = "published"
    BY <1>1 DEF Published, Row
  <2>1. versions' = [IF q.prev = 0 THEN versions
                     ELSE [versions EXCEPT ![q.prev] = Superseded(versions[q.prev])]
                       EXCEPT ![q.id] = Published(row)]
    BY <1>7 DEF Publish, TriggerAllows, Frozen, Open
  <2>2. q.id # q.prev
    BY <1>1, <1>7 DEF Frozen, Open, RowIds
  <2>3. \A j \in RowIds :
          versions'[j] = IF j = q.id THEN Published(row)
                         ELSE IF j = q.prev THEN Superseded(versions[j]) ELSE versions[j]
    BY <2>1, <2>2, <1>1 DEF RowIds
  <2>4. \A j \in RowIds : Frozen(versions[j]) =>
          Frozen(versions'[j]) /\ versions'[j].number = versions[j].number
    BY <2>3, <1>5, <1>7 DEF Frozen, Open
  <2>5. \A j \in RowIds : versions[j].status = "absent" => versions'[j].status = "absent"
    <3>1. row.status # "absent" /\ (q.prev # 0 => versions[q.prev].status # "absent")
      BY <1>1, <1>7 DEF Frozen, Open
    <3>. QED BY <3>1, <2>3 DEF RowIds
  <2>6. OpenRows = {q.id} /\ OpenRows' = {}
    <3>1. OpenRows = {q.id}
      BY <1>1, <1>7 DEF OneOfEach, OpenRows
    <3>. QED BY <3>1, <2>3, <1>5 DEF OpenRows, Open
  <2>7. PublishedRows' = {q.id}
    BY <2>3, <1>1, <1>5, <1>7 DEF PublishedRows
  <2>8. OneOfEach' /\ Present' # {}
    BY <2>6, <2>7 DEF OneOfEach, Present, PublishedRows
  <2>9. Rooted'
    <3>1. PICK i \in RowIds : versions[i].number = 1 /\ Frozen(versions[i])
      BY <1>1, <1>7 DEF Rooted, Present, Open
    <3>. QED BY <3>1, <2>4 DEF Rooted
  <2>10. \A s \in Requests : req'[s] = IF s = r THEN Idle ELSE req[s]
    BY <1>2 DEF Goes
  <2>11. IdsBelowNext' /\ PastBootstrap' /\ PublishLoaded'
    BY <2>5, <2>8, <2>10, <1>2 DEF IdsBelowNext, PastBootstrap, PublishLoaded
  <2>12. PreviousCurrent'
    <3>. SUFFICES ASSUME NEW s \in Requests, req'[s].pc = "write", req'[s].op = "publish"
                  PROVE  /\ req'[s].id \in RowIds
                         /\ req'[s].prev # 0 => Frozen(versions'[req'[s].prev])
                         /\ ~ Open(versions'[req'[s].id])
      BY DEF PreviousCurrent
    <3>1. req'[s] = req[s] /\ req[s].id \in RowIds
          /\ (req[s].prev # 0 => req[s].prev \in RowIds /\ Frozen(versions[req[s].prev]))
      BY <2>10, <1>2 DEF PreviousCurrent, ReqState
    <3>. QED BY <3>1, <2>4, <2>6 DEF OpenRows
  <2>. QED BY <2>8, <2>9, <2>11, <2>12
<1>. QED BY <1>3, <1>4, <1>6, <1>7 DEF Frozen, Open

-----------------------------------------------------------------------------
\* The invariant holds of a subject that pre-dates version control, however many
\* requests overlap.
LEMMA Invariance == LegacySpec => []IInv
<1>1. InitLegacy => IInv
  <2>. SUFFICES ASSUME InitLegacy PROVE IInv
    OBVIOUS
  <2>1. TypeOK
    BY NoRowType, IdleType, BoundAssumption DEF InitLegacy, TypeOK, RowIds
  <2>2. \A i \in RowIds : versions[i].status = "absent"
    BY DEF InitLegacy, NoRow, Fresh
  <2>3. \A r \in Requests : req[r].id = 0 /\ req[r].pc = "idle"
    BY DEF InitLegacy, Idle
  <2>4. OneOfEach /\ Rooted
    BY <2>2 DEF OneOfEach, OpenRows, PublishedRows, Open, Rooted, Present
  <2>5. IdsBelowNext /\ PastBootstrap /\ PreviousCurrent /\ PublishLoaded
    BY <2>2, <2>3 DEF InitLegacy, IdsBelowNext, PastBootstrap, PreviousCurrent, PublishLoaded
  <2>. QED BY <2>1, <2>4, <2>5 DEF IInv
<1>2. IInv /\ TypeOK' /\ [Next]_vars => IInv'
  <2>. SUFFICES ASSUME IInv, TypeOK', [Next]_vars PROVE IInv'
    OBVIOUS
  <2>1. CASE UNCHANGED vars
    BY <2>1 DEF vars, IInv, OneOfEach, OpenRows, PublishedRows, Rooted, Present, IdsBelowNext,
                PastBootstrap, PreviousCurrent, PublishLoaded
  <2>2. ASSUME NEW r \in Requests, Save(r) \/ Void(r) \/ Discard(r) \/ Submit(r) \/ Review(r)
        PROVE  IInv'
    <3>1. Idle.id = 0 /\ Idle.pc = "idle" /\ 0 < nextId
      BY BoundAssumption DEF Idle, IInv, TypeOK
    <3>. QED BY <2>2, <3>1, WritesKeep, KeptPreserves DEF IInv
  <2>3. CASE Next
    BY <2>2, <2>3, ReadSteps, InsertSteps, PublishPreserves DEF Next, Step
  <2>. QED BY <2>1, <2>3
<1>3. LegacySpec => []TypeOK
  <2>1. LegacySpec => Spec
    BY DEF LegacySpec, Spec
  <2>. QED BY <2>1, TypeCorrect, PTL
<1>. QED BY <1>1, <1>2, <1>3, PTL DEF LegacySpec

\* However many requests overlap, a subject that pre-dates version control has at most
\* one open and at most one published version.
THEOREM OneOfEachHolds == LegacySpec => []OneOfEach
<1>1. IInv => OneOfEach
  BY DEF IInv
<1>. QED BY <1>1, Invariance, PTL

-----------------------------------------------------------------------------
(* Frozen rows *)

\* What may become of a frozen row.
KeepsRecord(old, new) ==
  \E d \in {"none", "approved", "rejected"} :
    LET kept == [old EXCEPT !.decision = d] IN new \in {kept, Superseded(kept)}

\* A row that is untouched, or superseded, keeps its record.
LEMMA KeptRecord ==
  ASSUME NEW row \in Row
  PROVE  KeepsRecord(row, row) /\ KeepsRecord(row, Superseded(row))
<1>1. row.decision \in {"none", "approved", "rejected"} /\ row = [row EXCEPT !.decision = @]
  BY DEF Row
<1>. QED BY <1>1, Zenon DEF KeepsRecord

\* Of the updates of a frozen row the trigger refuses all that would change the record.
LEMMA TriggerKeeps ==
  ASSUME NEW row \in Row, NEW c, NEW u, Frozen(row)
  PROVE  /\ TriggerAllows(row, Saved(row, c)) => KeepsRecord(row, Saved(row, c))
         /\ TriggerAllows(row, Voided(row)) => KeepsRecord(row, Voided(row))
         /\ TriggerAllows(row, Approved(row, u)) => KeepsRecord(row, Approved(row, u))
         /\ ~ TriggerAllows(row, Submitted(row, u))
         /\ ~ TriggerAllows(row, Rejected(row, u))
         /\ ~ TriggerAllows(row, Published(row))
<1>1. ASSUME TriggerAllows(row, Saved(row, c)) PROVE KeepsRecord(row, Saved(row, c))
  <2>1. Saved(row, c) = row
    BY <1>1 DEF TriggerAllows, Saved, Row
  <2>. QED BY <2>1, KeptRecord
<1>2. ASSUME TriggerAllows(row, Voided(row)) PROVE KeepsRecord(row, Voided(row))
  <2>1. Voided(row) = Superseded(row)
    BY <1>2 DEF TriggerAllows, Voided, Superseded, Row
  <2>. QED BY <2>1, KeptRecord
<1>3. ASSUME TriggerAllows(row, Approved(row, u)) PROVE KeepsRecord(row, Approved(row, u))
  <2>1. Approved(row, u) = [row EXCEPT !.decision = "approved"]
    BY <1>3 DEF TriggerAllows, Approved, Row
  <2>. QED BY <2>1 DEF KeepsRecord
<1>4. ~ TriggerAllows(row, Submitted(row, u))
  BY DEF TriggerAllows, Submitted, Frozen, Row
<1>5. ~ TriggerAllows(row, Rejected(row, u))
  BY DEF TriggerAllows, Rejected, Frozen, Row
<1>6. ~ TriggerAllows(row, Published(row))
  <2>1. row.publishes \in Nat /\ Published(row).publishes = row.publishes + 1
    BY DEF Published, Row
  <2>. QED BY <2>1 DEF TriggerAllows
<1>. QED BY <1>1, <1>2, <1>3, <1>4, <1>5, <1>6

\* No overlapping of requests rewrites, reopens or removes a frozen version.
THEOREM FrozenForeverHolds == LegacySpec => FrozenForever
<1>. DEFINE Kept1 == \A i \in RowIds : Frozen(versions[i]) => KeepsRecord(versions[i], versions'[i])
<1>1. IInv /\ [Next]_vars => Kept1
  <2>. SUFFICES ASSUME IInv, [Next]_vars, NEW i \in RowIds, Frozen(versions[i])
                PROVE  KeepsRecord(versions[i], versions'[i])
    OBVIOUS
  <2>. versions \in [RowIds -> Row] /\ versions[i] \in Row /\ nextId \in Nat
    BY DEF IInv, TypeOK
  <2>1. CASE versions'[i] = versions[i]
    BY <2>1, KeptRecord
  <2>2. ASSUME NEW r \in Requests, Save(r) PROVE KeepsRecord(versions[i], versions'[i])
    BY <2>1, <2>2, TriggerKeeps DEF Save, Update
  <2>3. ASSUME NEW r \in Requests, Void(r) PROVE KeepsRecord(versions[i], versions'[i])
    BY <2>1, <2>3, TriggerKeeps DEF Void, Update
  <2>4. ASSUME NEW r \in Requests, Discard(r) PROVE KeepsRecord(versions[i], versions'[i])
    BY <2>1, <2>4 DEF Discard
  <2>5. ASSUME NEW r \in Requests, Submit(r) PROVE KeepsRecord(versions[i], versions'[i])
    BY <2>1, <2>5, TriggerKeeps DEF Submit, Update
  <2>6. ASSUME NEW r \in Requests, Review(r) PROVE KeepsRecord(versions[i], versions'[i])
    BY <2>1, <2>6, TriggerKeeps DEF Review, Update
  <2>7. ASSUME NEW r \in Requests, Publish(r) PROVE KeepsRecord(versions[i], versions'[i])
    <3>1. versions'[i] \in {versions[i], Superseded(versions[i])} \/ i = req[r].id
      BY <2>7 DEF Publish
    <3>2. CASE i = req[r].id
      <4>1. ~ TriggerAllows(versions[i], Published(versions[i]))
        BY TriggerKeeps
      <4>. QED BY <2>1, <2>7, <3>2, <4>1 DEF Publish
    <3>. QED BY <3>1, <3>2, KeptRecord
  <2>8. ASSUME NEW r \in Requests, Seed(r) \/ InsertDraft(r)
        PROVE  KeepsRecord(versions[i], versions'[i])
    <3>1. i # nextId
      BY DEF IInv, IdsBelowNext, Frozen
    <3>. QED BY <2>1, <2>8, <3>1 DEF Seed, InsertDraft
  <2>9. CASE UNCHANGED versions
    BY <2>1, <2>9
  <2>. QED BY <2>2, <2>3, <2>4, <2>5, <2>6, <2>7, <2>8, <2>9
           DEF Next, Step, vars, Reads, Begin, ReadTarget, CheckOpen, ReadPublished, ReadNumber, Load,
               LoadForPublish, ReadPrevious, Abort
<1>2. Kept1 => \A i \in RowIds : Frozen(versions[i]) =>
                 \E d \in {"none", "approved", "rejected"} :
                   LET kept == [versions[i] EXCEPT !.decision = d]
                   IN versions'[i] \in {kept, Superseded(kept)}
  BY Zenon DEF KeepsRecord
<1>. QED BY <1>1, <1>2, Invariance, PTL DEF LegacySpec, FrozenForever


-----------------------------------------------------------------------------
(* One request at a time                                                    *)
(*                                                                          *)
(* What two overlapping requests break (the runs VersioningConcurrent and   *)
(* VersioningSaveRace show how) holds when a request ends before the next   *)
(* one begins, for every subject and any number of rows and users.          *)

OneAtATime == \A r, s \in Requests : r = s

\* What a request q has read is still so.
Fits(q) ==
  LET row == versions[q.id]
  IN /\ q.pc = "seed" => Present = {} /\ q.content = live
     /\ q.pc \in {"seed", "target", "open", "published", "number", "insert"} =>
          q.op \in {"view", "create", "rollback"}
     /\ q.pc \in {"target", "open", "published", "number", "insert"} => q.op # "view"
     /\ q.pc \in {"published", "number", "insert"} => OpenRows = {}
     /\ q.pc \in {"number", "insert"} /\ q.op = "create" =>
          \A p \in PublishedRows : q.base = versions[p].number
     /\ q.pc = "previous" => q.op = "publish" /\ q.prev = 0
     /\ q.pc \in {"previous", "write"} => q.id \in RowIds
     /\ q.pc \in {"previous", "write"} /\ q.op = "publish" =>
          MayPublish(row) /\ q.content = row.content
     /\ q.pc = "write" /\ q.op = "publish" =>
          PublishedRows \subseteq {q.prev} /\ (q.prev # 0 => q.prev \in PublishedRows)
     /\ q.pc = "write" /\ q.op # "publish" => MayAct(q.op, row, q.by) /\ q.by \in Users

\* Four eyes, before a version is published already.
Reviewed(row) ==
  row.decision = "approved" =>
    /\ row.reviewedBy \in Users
    /\ row.reviewedBy = row.submittedBy => row.reviewedBy \in FullAccess

ReviewsAreProper == \A i \in OpenRows : Reviewed(versions[i])
RowsBelowNext == \A i \in RowIds : i >= nextId => versions[i].status = "absent"

Tables ==
  /\ OneOfEach /\ RowsBelowNext /\ LiveIsPublished
  /\ FourEyes /\ ReviewsAreProper /\ DraftFollowsPublished

SerialInv == TypeOK /\ Tables /\ \A r \in Requests : Fits(req[r])

\* A request that ends, or was only sent on, relies on nothing.
LEMMA NothingRead ==
  ASSUME NEW r \in Requests, NEW q, req'[r] = q,
         \/ q.pc = "idle"
         \/ q.pc \in {"open", "target"} /\ q.op \in {"create", "rollback"}
  PROVE  Fits(req[r])'
BY DEF Fits

\* What a request has read is of the types its later steps rely on.
LEMMA BoundReads ==
  ASSUME NEW op \in {"view", "create", "rollback"}
  PROVE  \/ Bound(op).pc = "idle"
         \/ Bound(op).pc \in {"open", "target"} /\ Bound(op).op \in {"create", "rollback"}
BY DEF Bound, Idle

\* A request that reads, and remembers what is so.
LEMMA ReadKeepsSerial ==
  ASSUME OneAtATime, SerialInv, TypeOK', NEW r \in Requests, NEW q, Goes(r, q), Reads, Fits(q),
         voidable' = voidable
  PROVE  SerialInv'
<1>1. req'[r] = q /\ versions' = versions /\ live' = live /\ nextId' = nextId /\ voidable' \in BOOLEAN
  BY DEF SerialInv, TypeOK, Goes, Reads
<1>2. Tables'
  BY <1>1 DEF SerialInv, Tables, OneOfEach, RowsBelowNext, LiveIsPublished, FourEyes, ReviewsAreProper,
              DraftFollowsPublished, OpenRows, PublishedRows
<1>3. Fits(req[r])'
  BY <1>1 DEF Fits, MayAct, MaySave, MayVoid, MayDiscard, MaySubmit, MayReview, MayPublish, Present, OpenRows,
              PublishedRows
<1>. QED BY <1>2, <1>3 DEF SerialInv, OneAtATime


\* The tables after one open row was rewritten or deleted.
LEMMA RewriteKeeps ==
  ASSUME TypeOK, Tables, NEW i \in OpenRows, NEW new \in Row, versions' = [versions EXCEPT ![i] = new],
         nextId' = nextId, live' = live, new.status \in {"absent", "draft", "in_review", "archived"},
         Open(new) => /\ new.basedOn = versions[i].basedOn /\ new.rollback = versions[i].rollback
                      /\ Reviewed(new)
  PROVE  /\ Tables' /\ PublishedRows' = PublishedRows
         /\ OpenRows' = IF Open(new) THEN {i} ELSE {}
<1>1. /\ i \in RowIds /\ Open(versions[i]) /\ OpenRows = {i}
      /\ versions \in [RowIds -> Row]
  BY DEF TypeOK, Tables, OneOfEach, OpenRows
<1>2. \A j \in RowIds : versions'[j] = IF j = i THEN new ELSE versions[j]
  BY <1>1
<1>3. versions[i].status # "published" /\ versions[i].status # "absent" /\ new.status # "published"
  BY <1>1 DEF Open
<1>4. PublishedRows' = PublishedRows /\ \A j \in PublishedRows : versions'[j] = versions[j]
  BY <1>2, <1>3 DEF PublishedRows
<1>5. OpenRows' = IF Open(new) THEN {i} ELSE {}
  BY <1>1, <1>2 DEF OpenRows
<1>6. OneOfEach' /\ LiveIsPublished' /\ FourEyes'
  BY <1>4, <1>5 DEF Tables, OneOfEach, LiveIsPublished, FourEyes
<1>7. RowsBelowNext'
  BY <1>1, <1>2, <1>3 DEF Tables, RowsBelowNext
<1>8. ReviewsAreProper' /\ DraftFollowsPublished'
  BY <1>1, <1>2, <1>4, <1>5 DEF Tables, ReviewsAreProper, Reviewed, DraftFollowsPublished
<1>. QED BY <1>4, <1>5, <1>6, <1>7, <1>8 DEF Tables

\* The tables after the open version was published.
LEMMA PublishKeeps ==
  ASSUME TypeOK, Tables, NEW r \in Requests, Publish(r), Fits(req[r])
  PROVE  /\ Tables' /\ PublishedRows' = {req[r].id} /\ OpenRows' = {} /\ OpenRows = {req[r].id}
         /\ live' = versions[req[r].id].content /\ MayPublish(versions[req[r].id]) /\ nextId' = nextId
<1>. DEFINE q == req[r]
            row == versions[q.id]
<1>1. /\ MayPublish(row) /\ q.content = row.content /\ q.id \in RowIds
      /\ PublishedRows \subseteq {q.prev} /\ (q.prev # 0 => q.prev \in PublishedRows)
  BY DEF Publish, Writing, At, Fits
<1>2. versions \in [RowIds -> Row] /\ row \in Row /\ Published(row) \in Row
  BY <1>1, BlankAssumption, WrittenRows DEF TypeOK
<1>3. /\ row.status = "in_review" /\ row.decision = "approved" /\ Open(row) /\ ~Frozen(row)
      /\ OpenRows = {q.id}
  BY <1>1 DEF MayPublish, Open, Frozen, OpenRows, Tables, OneOfEach
<1>4. /\ versions' = [IF q.prev = 0 THEN versions
                      ELSE [versions EXCEPT ![q.prev] = Superseded(versions[q.prev])]
                        EXCEPT ![q.id] = Published(row)]
      /\ live' = row.content /\ nextId' = nextId
  BY <1>1, <1>3 DEF Publish, TriggerAllows
<1>5. /\ Published(row).status = "published" /\ Published(row).content = row.content
      /\ Published(row).reviewedBy = row.reviewedBy /\ Published(row).submittedBy = row.submittedBy
  BY <1>2 DEF Published, Row
<1>. HIDE DEF q
<1>6. q.prev \notin RowIds => q.prev = 0
  BY <1>1 DEF PublishedRows
<1>7. \A j \in RowIds : j \in PublishedRows <=> (j = q.prev /\ q.prev # 0)
  BY <1>1 DEF PublishedRows, RowIds
<1>8. q.prev # q.id
  <2>1. q.id # 0 /\ q.id \notin PublishedRows
    BY <1>1, <1>3, BoundAssumption DEF PublishedRows, RowIds, q
  <2>. QED BY <1>1, <2>1
<1>9. ASSUME NEW j \in RowIds
      PROVE  versions'[j] = IF j = q.id THEN Published(row)
                            ELSE IF j \in PublishedRows THEN Superseded(versions[j]) ELSE versions[j]
  BY <1>1, <1>2, <1>4, <1>6, <1>7, <1>8
<1>10. \A j \in RowIds : Superseded(versions[j]).status = "archived"
  BY <1>2 DEF Superseded, Row
<1>11. PublishedRows' = {q.id}
  BY <1>1, <1>5, <1>9, <1>10 DEF PublishedRows
<1>12. OpenRows' = {}
  BY <1>3, <1>5, <1>9, <1>10 DEF OpenRows, Open
<1>13. OneOfEach' /\ ReviewsAreProper' /\ DraftFollowsPublished'
  BY <1>11, <1>12 DEF OneOfEach, ReviewsAreProper, DraftFollowsPublished
<1>14. versions'[q.id] = Published(row)
  BY <1>1, <1>9
<1>15. LiveIsPublished' /\ FourEyes'
  <2>1. Reviewed(row)
    BY <1>3 DEF Tables, ReviewsAreProper
  <2>. QED BY <2>1, <1>3, <1>4, <1>5, <1>11, <1>14 DEF LiveIsPublished, FourEyes, Reviewed
<1>16. RowsBelowNext'
  <2>1. \A j \in RowIds : j >= nextId => j # q.id /\ j \notin PublishedRows
    BY <1>3 DEF Tables, RowsBelowNext, PublishedRows
  <2>. QED BY <1>4, <1>9, <2>1 DEF Tables, RowsBelowNext
<1>. QED BY <1>1, <1>3, <1>4, <1>11, <1>12, <1>13, <1>15, <1>16 DEF Tables, q

\* The tables after a row was inserted.
LEMMA InsertKeeps ==
  ASSUME TypeOK, Tables, NEW row \in Row, InsertAllowed(row), nextId <= MaxRows,
         versions' = [versions EXCEPT ![nextId] = row], nextId' = nextId + 1, live' = live,
         \/ row.status = "draft" /\ row.decision = "none"
            /\ (~row.rollback => \A p \in PublishedRows : row.basedOn = versions[p].number)
         \/ row.status = "published" /\ row.bootstrapped /\ row.content = live /\ Present = {}
  PROVE  /\ Tables' /\ nextId \in RowIds
         /\ row.status = "draft" => PublishedRows' = PublishedRows /\ OpenRows' = {nextId} /\ OpenRows = {}
         /\ row.status = "published" => OpenRows' = {} /\ PublishedRows' = {nextId} /\ OpenRows = {}
<1>1. /\ nextId \in RowIds /\ nextId \in Nat /\ RowIds \subseteq Nat /\ versions \in [RowIds -> Row]
      /\ versions[nextId].status = "absent"
  BY BoundAssumption DEF TypeOK, RowIds, Tables, RowsBelowNext
<1>2. \A j \in RowIds : versions'[j] = IF j = nextId THEN row ELSE versions[j]
  BY <1>1
<1>3. RowsBelowNext'
  BY <1>1, <1>2 DEF Tables, RowsBelowNext
<1>4. nextId \notin PublishedRows /\ nextId \notin OpenRows
  BY <1>1 DEF PublishedRows, OpenRows, Open
<1>5. CASE /\ row.status = "draft" /\ row.decision = "none"
           /\ ~row.rollback => \A p \in PublishedRows : row.basedOn = versions[p].number
  <2>1. OpenRows = {}
    BY <1>5 DEF InsertAllowed, Open
  <2>2. PublishedRows' = PublishedRows /\ \A p \in PublishedRows : versions'[p] = versions[p]
    BY <1>2, <1>4, <1>5 DEF PublishedRows
  <2>3. OpenRows' = {nextId} /\ versions'[nextId] = row
    BY <1>1, <1>2, <1>5, <2>1 DEF OpenRows, Open
  <2>4. OneOfEach' /\ LiveIsPublished' /\ FourEyes'
    BY <2>2, <2>3 DEF Tables, OneOfEach, LiveIsPublished, FourEyes
  <2>5. ReviewsAreProper' /\ DraftFollowsPublished'
    BY <1>5, <2>2, <2>3 DEF ReviewsAreProper, Reviewed, DraftFollowsPublished
  <2>. QED BY <1>1, <1>3, <1>5, <2>1, <2>2, <2>3, <2>4, <2>5 DEF Tables
<1>6. CASE row.status = "published" /\ row.bootstrapped /\ row.content = live /\ Present = {}
  <2>1. \A j \in RowIds : versions[j].status = "absent"
    BY <1>6 DEF Present
  <2>2. PublishedRows' = {nextId} /\ OpenRows' = {} /\ OpenRows = {} /\ versions'[nextId] = row
    BY <1>1, <1>2, <1>6, <2>1 DEF PublishedRows, OpenRows, Open
  <2>3. OneOfEach' /\ LiveIsPublished' /\ FourEyes' /\ ReviewsAreProper' /\ DraftFollowsPublished'
    BY <1>6, <2>2 DEF OneOfEach, LiveIsPublished, FourEyes, ReviewsAreProper, DraftFollowsPublished
  <2>. QED BY <1>1, <1>3, <1>6, <2>2, <2>3 DEF Tables
<1>. QED BY <1>5, <1>6


-----------------------------------------------------------------------------
(* The steps, and what each is in ReleaseCycle *)

Stage(row) ==
  [content |-> row.content,
   stage |-> IF row.status = "draft" THEN "draft"
             ELSE IF row.decision = "approved" THEN "approved" ELSE "review"]

NoProposal == [stage |-> "none", content |-> Blank]

\* Nothing is proposed, or the open version is.
LEMMA ProposalIs ==
  /\ OpenRows = {} => Proposal = NoProposal
  /\ \A i : OpenRows = {i} => Proposal = Stage(versions[i])
<1>1. ASSUME NEW i, OpenRows = {i}
      PROVE  Proposal = Stage(versions[i])
  <2>1. (CHOOSE j \in OpenRows : TRUE) = i /\ OpenRows # {}
    BY <1>1
  <2>. QED BY <2>1 DEF Proposal, Stage
<1>. QED BY <1>1 DEF Proposal, NoProposal

\* The proposal after a step, from the only row that the step may have left open.
LEMMA ProposalWillBe ==
  /\ OpenRows' = {} => Proposal' = NoProposal
  /\ \A i : OpenRows' = {i} => Proposal' = Stage(versions'[i])
<1>1. ASSUME NEW i, OpenRows' = {i}
      PROVE  Proposal' = Stage(versions'[i])
  <2>1. (CHOOSE j \in OpenRows' : TRUE) = i /\ OpenRows' # {}
    BY <1>1
  <2>. QED BY <2>1 DEF Proposal, Stage
<1>. QED BY <1>1 DEF Proposal, NoProposal

\* What every step does: it keeps the tables, lets no published version go, and is a step
\* of ReleaseCycle or no change at all to what ReleaseCycle sees.
CycleStep == [Cycle!Next]_<<live, Proposal>>
Promised == SerialInv' /\ (PublishedRows # {} => PublishedRows' # {}) /\ CycleStep

\* A request ends with the tables as they should be.
LEMMA Ends ==
  ASSUME OneAtATime, SerialInv, TypeOK', NEW r \in Requests, Done(r), Tables'
  PROVE  SerialInv'
<1>1. req'[r] = Idle /\ Idle.pc = "idle"
  BY DEF Done, Goes, SerialInv, TypeOK, Idle
<1>2. Fits(req[r])'
  BY <1>1, NothingRead
<1>. QED BY <1>2 DEF SerialInv, OneAtATime

\* Reading is no step of the cycle.
LEMMA ReadsPromised ==
  ASSUME Reads, SerialInv'
  PROVE  Promised
<1>1. PublishedRows' = PublishedRows /\ live' = live /\ Proposal' = Proposal
  BY DEF Reads, PublishedRows, Proposal, OpenRows
<1>. QED BY <1>1 DEF Promised, CycleStep

\* The reading steps keep the invariant and propose nothing.
LEMMA SerialReads ==
  ASSUME OneAtATime, SerialInv, TypeOK', voidable' = voidable, NEW r \in Requests,
         \/ \E op \in {"view", "create", "rollback"}, u \in Users : Begin(r, op, u)
         \/ \E i \in RowIds : ReadTarget(r, i) \/ LoadForPublish(r, i)
         \/ \E op \in {"save", "void", "discard", "submit", "approve", "reject"},
               i \in RowIds, u \in Users : Load(r, op, i, u)
         \/ CheckOpen(r) \/ ReadPublished(r) \/ ReadNumber(r) \/ ReadPrevious(r) \/ Abort(r)
  PROVE  SerialInv' /\ Reads
<1>1. Fits(req[r]) /\ req[r] \in ReqState /\ versions \in [RowIds -> Row]
  BY DEF SerialInv, TypeOK
<1>2. ASSUME NEW q, Goes(r, q), Reads, Fits(q)
      PROVE  SerialInv' /\ Reads
  BY <1>2, ReadKeepsSerial
<1>3. ASSUME NEW op \in {"view", "create", "rollback"}, NEW u \in Users, Begin(r, op, u)
      PROVE  SerialInv' /\ Reads
  <2>1. Goes(r, IF Present = {} THEN [Idle EXCEPT !.pc = "seed", !.op = op, !.content = live]
                ELSE Bound(op)) /\ Reads
    BY <1>3 DEF Begin
  <2>2. Fits([Idle EXCEPT !.pc = "seed", !.op = op, !.content = live]) \/ Present # {}
    BY DEF Fits, Idle
  <2>3. Fits(Bound(op))
    BY BoundReads DEF Fits
  <2>. QED BY <1>2, <2>1, <2>2, <2>3
<1>4. ASSUME NEW i \in RowIds, ReadTarget(r, i)
      PROVE  SerialInv' /\ Reads
  <2>. DEFINE q == [req[r] EXCEPT !.pc = "open", !.base = versions[i].number,
                                  !.content = versions[i].content]
  <2>1. Goes(r, q) /\ Reads /\ req[r].pc = "target"
    BY <1>4 DEF ReadTarget, At
  <2>2. Fits(q)
    BY <1>1, <2>1 DEF Fits, ReqState
  <2>. QED BY <1>2, <2>1, <2>2
<1>5. ASSUME NEW i \in RowIds, LoadForPublish(r, i)
      PROVE  SerialInv' /\ Reads
  <2>. DEFINE q == [Idle EXCEPT !.pc = "previous", !.op = "publish", !.id = i,
                                !.content = versions[i].content]
  <2>1. Goes(r, q) /\ Reads /\ MayPublish(versions[i])
    BY <1>5 DEF LoadForPublish
  <2>2. Fits(q)
    BY <2>1 DEF Fits, Idle
  <2>. QED BY <1>2, <2>1, <2>2
<1>6. ASSUME NEW op \in {"save", "void", "discard", "submit", "approve", "reject"},
             NEW i \in RowIds, NEW u \in Users, Load(r, op, i, u)
      PROVE  SerialInv' /\ Reads
  <2>. DEFINE q == [Idle EXCEPT !.pc = "write", !.op = op, !.id = i, !.by = u]
  <2>1. Goes(r, q) /\ Reads /\ MayAct(op, versions[i], u)
    BY <1>6 DEF Load
  <2>2. q.pc = "write" /\ q.op = op /\ q.id = i /\ q.by = u
    BY DEF Idle
  <2>. HIDE DEF q
  <2>3. Fits(q)
    BY <2>1, <2>2 DEF Fits
  <2>. QED BY <1>2, <2>1, <2>3
<1>7. CASE CheckOpen(r)
  <2>. DEFINE q == [req[r] EXCEPT !.pc = IF req[r].op = "create" THEN "published" ELSE "number"]
  <2>1. CASE OpenRows # {}
    <3>1. Goes(r, Idle) /\ Reads /\ Fits(Idle)
      BY <1>7, <2>1 DEF CheckOpen, Done, Fits, Idle
    <3>. QED BY <1>2, <3>1
  <2>2. CASE OpenRows = {}
    <3>1. Goes(r, q) /\ Reads /\ req[r].pc = "open"
      BY <1>7, <2>2 DEF CheckOpen, At
    <3>2. /\ req[r].op = "create" => q.pc = "published"
          /\ req[r].op # "create" => q.pc = "number"
          /\ q.op = req[r].op
      BY <1>1 DEF ReqState
    <3>. HIDE DEF q
    <3>3. Fits(q)
      BY <1>1, <2>2, <3>1, <3>2 DEF Fits
    <3>. QED BY <1>2, <3>1, <3>3
  <2>. QED BY <2>1, <2>2
<1>8. CASE ReadPublished(r)
  <2>1. CASE PublishedRows = {} /\ Goes(r, [req[r] EXCEPT !.pc = "number"])
    <3>. DEFINE q == [req[r] EXCEPT !.pc = "number"]
    <3>1. q.pc = "number" /\ q.op = req[r].op /\ req[r].pc = "published" /\ Reads
      BY <1>1, <1>8 DEF ReqState, ReadPublished, At
    <3>2. Goes(r, q)
      BY <2>1
    <3>. HIDE DEF q
    <3>3. Fits(q)
      BY <1>1, <2>1, <3>1 DEF Fits
    <3>. QED BY <1>2, <3>1, <3>2, <3>3
  <2>2. ASSUME NEW p \in PublishedRows,
               Goes(r, [req[r] EXCEPT !.pc = "number", !.base = versions[p].number,
                                      !.content = versions[p].content])
        PROVE  SerialInv' /\ Reads
    <3>. DEFINE q == [req[r] EXCEPT !.pc = "number", !.base = versions[p].number,
                                    !.content = versions[p].content]
    <3>1. /\ q.pc = "number" /\ q.op = req[r].op /\ q.base = versions[p].number
          /\ req[r].pc = "published" /\ Reads
      BY <1>1, <1>8 DEF ReqState, ReadPublished, At
    <3>2. Goes(r, q)
      BY <2>2
    <3>. HIDE DEF q
    <3>3. \A i \in PublishedRows : i = p
      BY DEF SerialInv, Tables, OneOfEach
    <3>4. Fits(q)
      BY <1>1, <3>1, <3>3 DEF Fits
    <3>. QED BY <1>2, <3>1, <3>2, <3>4
  <2>. QED BY <1>8, <2>1, <2>2 DEF ReadPublished
<1>9. CASE ReadNumber(r)
  <2>1. PICK n : Goes(r, [req[r] EXCEPT !.pc = "insert", !.number = n])
    BY <1>9 DEF ReadNumber
  <2>. DEFINE q == [req[r] EXCEPT !.pc = "insert", !.number = n]
  <2>2. q.pc = "insert" /\ q.op = req[r].op /\ q.base = req[r].base /\ req[r].pc = "number" /\ Reads
    BY <1>1, <1>9 DEF ReqState, ReadNumber, At
  <2>3. Goes(r, q)
    BY <2>1
  <2>. HIDE DEF q
  <2>4. Fits(q)
    BY <1>1, <2>2 DEF Fits
  <2>. QED BY <1>2, <2>2, <2>3, <2>4
<1>10. CASE ReadPrevious(r)
  <2>1. /\ req[r].pc = "previous" /\ req[r].op = "publish" /\ req[r].prev = 0 /\ req[r].id \in RowIds
        /\ MayPublish(versions[req[r].id]) /\ req[r].content = versions[req[r].id].content /\ Reads
    BY <1>1, <1>10 DEF ReadPrevious, At, Fits
  <2>2. ASSUME NEW q, Goes(r, q), q.pc = "write", q.op = "publish", q.id = req[r].id, q.content = req[r].content,
               PublishedRows \subseteq {q.prev}, q.prev # 0 => q.prev \in PublishedRows
        PROVE  SerialInv' /\ Reads
    <3>1. Fits(q)
      BY <2>1, <2>2 DEF Fits
    <3>. QED BY <1>2, <2>1, <2>2, <3>1
  <2>3. CASE PublishedRows = {} /\ Goes(r, [req[r] EXCEPT !.pc = "write"])
    <3>. DEFINE q == [req[r] EXCEPT !.pc = "write"]
    <3>1. q.pc = "write" /\ q.op = req[r].op /\ q.id = req[r].id /\ q.content = req[r].content /\ q.prev = req[r].prev
      BY <1>1 DEF ReqState
    <3>2. Goes(r, q)
      BY <2>3
    <3>. HIDE DEF q
    <3>. QED BY <2>1, <2>2, <2>3, <3>1, <3>2
  <2>4. ASSUME NEW p \in PublishedRows, Goes(r, [req[r] EXCEPT !.pc = "write", !.prev = p])
        PROVE  SerialInv' /\ Reads
    <3>. DEFINE q == [req[r] EXCEPT !.pc = "write", !.prev = p]
    <3>1. q.pc = "write" /\ q.op = req[r].op /\ q.id = req[r].id /\ q.content = req[r].content /\ q.prev = p
      BY <1>1 DEF ReqState
    <3>2. Goes(r, q) /\ \A i \in PublishedRows : i = p
      BY <2>4 DEF SerialInv, Tables, OneOfEach
    <3>. HIDE DEF q
    <3>. QED BY <2>1, <2>2, <3>1, <3>2
  <2>. QED BY <1>10, <2>3, <2>4 DEF ReadPrevious
<1>11. CASE Abort(r)
  <2>1. Goes(r, Idle) /\ Reads /\ Fits(Idle)
    BY <1>11 DEF Abort, Done, Fits, Idle
  <2>. QED BY <1>2, <2>1
<1>. QED BY <1>3, <1>4, <1>5, <1>6, <1>7, <1>8, <1>9, <1>10, <1>11


\* A write to the open version: what it makes of it, and which step of the cycle that is.
LEMMA WritePromised ==
  ASSUME OneAtATime, SerialInv, TypeOK', NEW r \in Requests, Done(r), NEW i \in RowIds, Open(versions[i]),
         NEW new \in Row, versions' = [versions EXCEPT ![i] = new], nextId' = nextId, live' = live,
         new.status \in {"absent", "draft", "in_review", "archived"},
         Open(new) => /\ new.basedOn = versions[i].basedOn /\ new.rollback = versions[i].rollback
                      /\ Reviewed(new),
         LET old == Stage(versions[i])
         IN IF Open(new)
              THEN \/ Stage(new) = old
                   \/ old.stage = "draft" /\ Stage(new) = [old EXCEPT !.content = new.content]
                   \/ old.stage = "draft" /\ old.content # Blank /\ Stage(new) = [old EXCEPT !.stage = "review"]
                   \/ old.stage = "review" /\ Stage(new) = [old EXCEPT !.stage = "approved"]
                   \/ old.stage \in {"review", "approved"} /\ Stage(new) = [old EXCEPT !.stage = "draft"]
              ELSE TRUE
  PROVE  Promised
<1>1. TypeOK /\ Tables /\ i \in OpenRows
  BY DEF SerialInv, OpenRows
<1>2. /\ Tables' /\ PublishedRows' = PublishedRows
      /\ OpenRows' = IF Open(new) THEN {i} ELSE {}
  BY <1>1, RewriteKeeps
<1>3. SerialInv'
  BY <1>2, Ends
<1>4. OpenRows = {i} /\ versions'[i] = new
  BY <1>1 DEF TypeOK, Tables, OneOfEach
<1>5. Proposal = Stage(versions[i]) /\ Stage(versions[i]).stage \in {"draft", "review", "approved"}
  BY <1>4, ProposalIs DEF Stage
<1>6. CycleStep
  <2>1. CASE Open(new)
    <3>1. Proposal' = Stage(new)
      BY <1>2, <1>4, <2>1, ProposalWillBe
    <3>2. CASE Stage(new) = Stage(versions[i])
      BY <1>5, <3>1, <3>2 DEF CycleStep
    <3>3. new.content \in Contents
      BY DEF Row
    <3>4. \/ \E c \in Contents : Cycle!Edit(c)
          \/ Cycle!Submit \/ Cycle!Approve \/ Cycle!SendBack
          \/ Stage(new) = Stage(versions[i])
      BY <1>5, <2>1, <3>1, <3>3 DEF Cycle!Edit, Cycle!Submit, Cycle!Approve, Cycle!SendBack, Cycle!Move
    <3>. QED BY <3>2, <3>4 DEF CycleStep, Cycle!Next
  <2>2. CASE ~Open(new)
    <3>1. Proposal' = NoProposal
      BY <1>2, <2>2, ProposalWillBe
    <3>2. Cycle!Withdraw
      BY <1>5, <3>1 DEF Cycle!Withdraw, Cycle!NoProposal, NoProposal
    <3>. QED BY <3>2 DEF CycleStep, Cycle!Next
  <2>. QED BY <2>1, <2>2
<1>. QED BY <1>2, <1>3, <1>6 DEF Promised

\* Save, void, submit and review keep the invariant and step the cycle.
LEMMA SerialWrites ==
  ASSUME OneAtATime, SerialInv, TypeOK', NEW r \in Requests,
         Save(r) \/ Void(r) \/ Discard(r) \/ Submit(r) \/ Review(r)
  PROVE  Promised
<1>. DEFINE i == req[r].id
            row == versions[i]
            u == req[r].by
<1>1. /\ req[r].pc = "write" /\ req[r].op # "publish" /\ Done(r) /\ UNCHANGED <<nextId, live>>
  BY DEF Save, Void, Discard, Submit, Review, Writing, At
<1>2. i \in RowIds /\ MayAct(req[r].op, row, u) /\ u \in Users
  BY <1>1 DEF SerialInv, Fits
<1>3. row \in Row
  BY <1>2 DEF SerialInv, TypeOK
<1>4. Open(row) /\ (row.status = "draft" \/ row.status = "in_review")
  BY <1>2 DEF MayAct, MaySave, MayVoid, MayDiscard, MaySubmit, MayReview, Open
<1>5. Reviewed(row)
  BY <1>2, <1>4 DEF SerialInv, Tables, ReviewsAreProper, OpenRows
<1>6. \A new : Update(i, new) => versions' = [versions EXCEPT ![i] = new]
  BY <1>4 DEF Update, TriggerAllows, Frozen, Open
<1>. HIDE DEF i, row, u
<1>7. CASE Save(r)
  <2>1. PICK c \in Contents : Update(i, Saved(row, c))
    BY <1>7 DEF Save, i, row
  <2>. DEFINE new == Saved(row, c)
  <2>2. /\ new \in Row /\ row.status = "draft"
        /\ new.status = "draft" /\ new.content = c /\ new.decision = row.decision
        /\ new.reviewedBy = row.reviewedBy /\ new.submittedBy = row.submittedBy
        /\ new.basedOn = row.basedOn /\ new.rollback = row.rollback
    BY <1>2, <1>3, <1>7 DEF Save, Writing, MayAct, MaySave, Saved, Row
  <2>3. versions' = [versions EXCEPT ![i] = new]
    BY <1>6, <2>1
  <2>. HIDE DEF new
  <2>4. Reviewed(new)
    BY <1>5, <2>2 DEF Reviewed
  <2>5. Stage(new) = [Stage(row) EXCEPT !.content = new.content] /\ Stage(row).stage = "draft"
    BY <2>2 DEF Stage
  <2>6. new.status \in {"absent", "draft", "in_review", "archived"}
    BY <2>2
  <2>. QED BY <1>1, <1>2, <1>4, <2>2, <2>3, <2>4, <2>5, <2>6, WritePromised DEF row
<1>8. CASE Void(r)
  <2>. DEFINE new == Voided(row)
  <2>1. new \in Row /\ new.status = "archived"
    BY <1>3 DEF Voided, Row
  <2>2. versions' = [versions EXCEPT ![i] = new]
    BY <1>6, <1>8 DEF Void, i, row
  <2>. HIDE DEF new
  <2>3. ~Open(new)
    BY <2>1 DEF Open
  <2>4. new.status \in {"absent", "draft", "in_review", "archived"}
    BY <2>1
  <2>. QED BY <1>1, <1>2, <1>4, <2>1, <2>2, <2>3, <2>4, WritePromised DEF row
<1>9. CASE Discard(r)
  <2>1. NoRow \in Row /\ NoRow.status = "absent" /\ ~Open(NoRow)
    BY NoRowType DEF NoRow, Fresh, Open
  <2>2. versions' = [versions EXCEPT ![i] = NoRow]
    BY <1>4, <1>9 DEF Discard, Frozen, Open, i, row
  <2>3. NoRow.status \in {"absent", "draft", "in_review", "archived"}
    BY <2>1
  <2>. QED BY <1>1, <1>2, <1>4, <2>1, <2>2, <2>3, WritePromised DEF row
<1>10. CASE Submit(r)
  <2>. DEFINE new == Submitted(row, u)
  <2>1. /\ new \in Row /\ row.status = "draft" /\ row.content # Blank
        /\ new.status = "in_review" /\ new.content = row.content /\ new.decision = "none"
        /\ new.basedOn = row.basedOn /\ new.rollback = row.rollback
    BY <1>2, <1>3, <1>10 DEF Submit, Writing, MayAct, MaySubmit, Submitted, Row
  <2>2. versions' = [versions EXCEPT ![i] = new]
    BY <1>6, <1>10 DEF Submit, i, row, u
  <2>. HIDE DEF new
  <2>3. Reviewed(new)
    BY <2>1 DEF Reviewed
  <2>4. /\ Stage(new) = [Stage(row) EXCEPT !.stage = "review"] /\ Stage(row).stage = "draft"
        /\ Stage(row).content # Blank
    BY <2>1 DEF Stage
  <2>5. new.status \in {"absent", "draft", "in_review", "archived"}
    BY <2>1
  <2>. QED BY <1>1, <1>2, <1>4, <2>1, <2>2, <2>3, <2>4, <2>5, WritePromised DEF row
<1>11. ASSUME MayReview(row, u), Update(i, Approved(row, u))
       PROVE  Promised
  <2>. DEFINE new == Approved(row, u)
  <2>1. /\ new \in Row /\ row.status = "in_review" /\ (row.submittedBy = u => u \in FullAccess)
        /\ new.status = "in_review" /\ new.content = row.content /\ new.decision = "approved"
        /\ new.reviewedBy = u /\ new.submittedBy = row.submittedBy
        /\ new.basedOn = row.basedOn /\ new.rollback = row.rollback
    BY <1>2, <1>3, <1>11 DEF MayReview, Approved, Row
  <2>2. versions' = [versions EXCEPT ![i] = new]
    BY <1>6, <1>11
  <2>. HIDE DEF new
  <2>3. Reviewed(new)
    BY <1>2, <2>1 DEF Reviewed
  <2>4. \/ Stage(new) = Stage(row)
        \/ Stage(row).stage = "review" /\ Stage(new) = [Stage(row) EXCEPT !.stage = "approved"]
    BY <2>1 DEF Stage
  <2>5. new.status \in {"absent", "draft", "in_review", "archived"}
    BY <2>1
  <2>. QED BY <1>1, <1>2, <1>4, <2>1, <2>2, <2>3, <2>4, <2>5, WritePromised DEF row
<1>12. ASSUME MayReview(row, u), Update(i, Rejected(row, u))
       PROVE  Promised
  <2>. DEFINE new == Rejected(row, u)
  <2>1. /\ new \in Row /\ row.status = "in_review"
        /\ new.status = "draft" /\ new.content = row.content /\ new.decision = "rejected"
        /\ new.basedOn = row.basedOn /\ new.rollback = row.rollback
    BY <1>2, <1>3, <1>12 DEF MayReview, Rejected, Row
  <2>2. versions' = [versions EXCEPT ![i] = new]
    BY <1>6, <1>12
  <2>. HIDE DEF new
  <2>3. Reviewed(new)
    BY <2>1 DEF Reviewed
  <2>4. Stage(row).stage \in {"review", "approved"} /\ Stage(new) = [Stage(row) EXCEPT !.stage = "draft"]
    BY <2>1 DEF Stage
  <2>5. new.status \in {"absent", "draft", "in_review", "archived"}
    BY <2>1
  <2>. QED BY <1>1, <1>2, <1>4, <2>1, <2>2, <2>3, <2>4, <2>5, WritePromised DEF row
<1>13. CASE Review(r)
  <2>1. MayReview(row, u) /\ (Update(i, Approved(row, u)) \/ Update(i, Rejected(row, u)))
    BY <1>2, <1>13 DEF Review, Writing, MayAct, i, row, u
  <2>. QED BY <1>11, <1>12, <2>1
<1>. QED BY <1>7, <1>8, <1>9, <1>10, <1>13

\* Bootstrapping, creating and rolling back keep the invariant and step the cycle.
LEMMA SerialInserts ==
  ASSUME OneAtATime, SerialInv, TypeOK', NEW r \in Requests, Seed(r) \/ InsertDraft(r)
  PROVE  Promised
<1>1. Fits(req[r]) /\ req[r] \in ReqState /\ TypeOK /\ Tables /\ nextId <= MaxRows /\ live' = live
      /\ req \in [Requests -> ReqState]
  BY DEF SerialInv, TypeOK, Seed, InsertDraft
<1>2. ASSUME UNCHANGED <<versions, nextId>>, SerialInv'
      PROVE  Promised
  <2>1. Reads \/ (PublishedRows' = PublishedRows /\ live' = live /\ Proposal' = Proposal)
    BY <1>1, <1>2 DEF PublishedRows, Proposal, OpenRows
  <2>. QED BY <1>2, <2>1, ReadsPromised DEF Promised, CycleStep
<1>3. ASSUME UNCHANGED <<versions, nextId>>
      PROVE  Tables'
  BY <1>1, <1>3 DEF Tables, OneOfEach, RowsBelowNext, LiveIsPublished, FourEyes, ReviewsAreProper,
                    DraftFollowsPublished, OpenRows, PublishedRows
<1>4. CASE Seed(r)
  <2>. DEFINE c == req[r].content
              row == Bootstrapped(c)
  <2>1. Present = {} /\ c = live /\ req[r].op \in {"view", "create", "rollback"}
    BY <1>1, <1>4 DEF Seed, At, Fits
  <2>2. Fits(req[r])'
    <3>1. req'[r] = Bound(req[r].op)
      BY <1>1, <1>4 DEF Seed, Goes
    <3>. QED BY <2>1, <3>1, BoundReads, NothingRead
  <2>3. Tables' => SerialInv'
    BY <2>2 DEF SerialInv, OneAtATime
  <2>4. /\ row \in Row /\ row.status = "published" /\ row.bootstrapped /\ row.content = live
    <3>1. c \in Contents
      BY <1>1 DEF ReqState
    <3>. QED BY <2>1, <3>1 DEF Bootstrapped, Fresh, Row
  <2>5. CASE InsertAllowed(row)
    <3>1. versions' = [versions EXCEPT ![nextId] = row] /\ nextId' = nextId + 1
      BY <1>4, <2>5 DEF Seed
    <3>. HIDE DEF row
    <3>2. Tables' /\ OpenRows' = {} /\ PublishedRows' = {nextId} /\ OpenRows = {}
      BY <1>1, <2>1, <2>4, <2>5, <3>1, InsertKeeps
    <3>3. Proposal' = Proposal
      BY <3>2, ProposalIs, ProposalWillBe
    <3>. QED BY <1>1, <2>3, <3>2, <3>3 DEF Promised, CycleStep
  <2>6. CASE ~InsertAllowed(row)
    <3>1. UNCHANGED <<versions, nextId>>
      BY <1>4, <2>6 DEF Seed
    <3>. QED BY <1>2, <1>3, <2>3, <3>1
  <2>. QED BY <2>5, <2>6
<1>5. CASE InsertDraft(r)
  <2>1. PICK c \in Contents :
           IF InsertAllowed(NewDraft(req[r], c))
             THEN /\ versions' = [versions EXCEPT ![nextId] = NewDraft(req[r], c)]
                  /\ nextId' = nextId + 1
             ELSE UNCHANGED <<versions, nextId>>
    <3>1. req[r].content \in Contents
      BY <1>1 DEF ReqState
    <3>. QED BY <1>5, <3>1 DEF InsertDraft
  <2>. DEFINE row == NewDraft(req[r], c)
  <2>2. /\ req[r].op \in {"create", "rollback"} /\ Done(r)
        /\ req[r].op = "create" => \A p \in PublishedRows : req[r].base = versions[p].number
    BY <1>1, <1>5 DEF InsertDraft, At, Fits
  <2>3. /\ row.status = "draft" /\ row.decision = "none" /\ row.content = c
        /\ ~row.rollback => \A p \in PublishedRows : row.basedOn = versions[p].number
    BY <2>2 DEF NewDraft, Fresh
  <2>4. row \in Row
    BY <1>1 DEF NewDraft, Fresh, Row, ReqState
  <2>5. CASE InsertAllowed(row)
    <3>1. versions' = [versions EXCEPT ![nextId] = row] /\ nextId' = nextId + 1
      BY <2>1, <2>5
    <3>. HIDE DEF row
    <3>2. Tables' /\ nextId \in RowIds /\ PublishedRows' = PublishedRows /\ OpenRows' = {nextId} /\ OpenRows = {}
      BY <1>1, <2>3, <2>4, <2>5, <3>1, InsertKeeps
    <3>3. SerialInv'
      BY <2>2, <3>2, Ends
    <3>4. versions'[nextId] = row
      BY <1>1, <3>1, <3>2 DEF TypeOK
    <3>5. Proposal = NoProposal /\ Proposal' = Stage(row)
      BY <3>2, <3>4, ProposalIs, ProposalWillBe
    <3>6. Cycle!Propose(c)
      BY <1>1, <2>3, <3>5 DEF Cycle!Propose, NoProposal, Stage
    <3>. QED BY <3>2, <3>3, <3>6 DEF Promised, CycleStep, Cycle!Next
  <2>6. CASE ~InsertAllowed(row)
    <3>1. UNCHANGED <<versions, nextId>>
      BY <2>1, <2>6
    <3>. QED BY <1>2, <1>3, <2>2, <3>1, Ends
  <2>. QED BY <2>5, <2>6
<1>. QED BY <1>4, <1>5

\* Publishing keeps the invariant and releases what was approved.
LEMMA SerialPublishes ==
  ASSUME OneAtATime, SerialInv, TypeOK', NEW r \in Requests, Publish(r)
  PROVE  Promised
<1>. DEFINE i == req[r].id
<1>1. /\ Tables' /\ PublishedRows' = {i} /\ OpenRows' = {} /\ OpenRows = {i}
      /\ live' = versions[i].content /\ MayPublish(versions[i])
  BY PublishKeeps DEF SerialInv
<1>2. SerialInv'
  BY <1>1, Ends DEF Publish
<1>. HIDE DEF i
<1>3. Proposal = Stage(versions[i]) /\ Proposal' = NoProposal
  BY <1>1, ProposalIs, ProposalWillBe
<1>4. Stage(versions[i]).stage = "approved" /\ Stage(versions[i]).content = versions[i].content
  BY <1>1 DEF MayPublish, Stage
<1>5. Cycle!Release
  BY <1>1, <1>3, <1>4 DEF Cycle!Release, Cycle!NoProposal, NoProposal
<1>. QED BY <1>1, <1>2, <1>5 DEF Promised, CycleStep, Cycle!Next

\* Every step of a request keeps the invariant, a published version, and the cycle.
LEMMA SerialStep ==
  ASSUME OneAtATime, SerialInv, TypeOK', [Next]_vars
  PROVE  Promised
<1>1. CASE UNCHANGED vars
  <2>1. SerialInv'
    BY <1>1 DEF vars, SerialInv, TypeOK, Tables, OneOfEach, RowsBelowNext, LiveIsPublished, FourEyes,
                ReviewsAreProper, DraftFollowsPublished, OpenRows, PublishedRows, Fits, MayAct, MaySave,
                MayVoid, MayDiscard, MaySubmit, MayReview, MayPublish, Present
  <2>. QED BY <1>1, <2>1, ReadsPromised DEF vars, Reads
<1>2. CASE Next
  <2>1. voidable' = voidable
    BY <1>2 DEF Next
  <2>2. ASSUME NEW r \in Requests,
         \/ \E op \in {"view", "create", "rollback"}, u \in Users : Begin(r, op, u)
         \/ \E i \in RowIds : ReadTarget(r, i) \/ LoadForPublish(r, i)
         \/ \E op \in {"save", "void", "discard", "submit", "approve", "reject"},
               i \in RowIds, u \in Users : Load(r, op, i, u)
         \/ CheckOpen(r) \/ ReadPublished(r) \/ ReadNumber(r) \/ ReadPrevious(r) \/ Abort(r)
        PROVE  Promised
    BY <2>1, <2>2, SerialReads, ReadsPromised
  <2>. QED BY <1>2, <2>2, SerialWrites, SerialInserts, SerialPublishes DEF Next, Step
<1>. QED BY <1>1, <1>2


\* Both initial states satisfy the invariant and begin the cycle.
LEMMA SerialInit == InitLegacy \/ InitNew => SerialInv /\ Cycle!Init
<1>. SUFFICES ASSUME InitLegacy \/ InitNew, TypeOK
     PROVE  SerialInv /\ Cycle!Init
  <2>1. TypeOK /\ (InitLegacy \/ InitNew) => SerialInv /\ Cycle!Init
    OBVIOUS
  <2>. QED BY <2>1, InitType
<1>1. \A r \in Requests : Fits(req[r])
  <2>1. req = [r \in Requests |-> Idle]
    BY Zenon DEF InitLegacy, InitNew
  <2>2. Idle.pc = "idle"
    BY DEF Idle
  <2>. QED BY <2>1, <2>2 DEF Fits
<1>2. CASE InitLegacy
  <2>1. \A i \in RowIds : versions[i].status = "absent"
    BY <1>2 DEF InitLegacy, NoRow, Fresh
  <2>2. OpenRows = {} /\ PublishedRows = {}
    BY <2>1 DEF OpenRows, PublishedRows, Open
  <2>3. Tables
    BY <2>1, <2>2 DEF Tables, OneOfEach, RowsBelowNext, LiveIsPublished, FourEyes, ReviewsAreProper,
                      DraftFollowsPublished
  <2>4. Cycle!Init
    BY <1>2, <2>2, ProposalIs DEF InitLegacy, Cycle!Init, Cycle!NoProposal, NoProposal
  <2>. QED BY <1>1, <2>3, <2>4 DEF SerialInv
<1>3. CASE InitNew
  <2>1. PICK c \in Contents :
           /\ versions = [i \in RowIds |-> IF i = 1 THEN Fresh(1, "draft", c, 0, FALSE) ELSE NoRow]
           /\ nextId = 2 /\ live = c
    BY <1>3 DEF InitNew
  <2>2. 1 \in RowIds /\ RowIds \subseteq Nat
    BY BoundAssumption DEF RowIds
  <2>3. /\ versions[1].status = "draft" /\ versions[1].content = c /\ versions[1].decision = "none"
        /\ \A i \in RowIds : i # 1 => versions[i].status = "absent"
    BY <2>1, <2>2 DEF NoRow, Fresh
  <2>4. OpenRows = {1} /\ PublishedRows = {}
    BY <2>2, <2>3 DEF OpenRows, PublishedRows, Open
  <2>5. RowsBelowNext
    <3>1. nextId = 2
      BY <2>1
    <3>2. \A i \in RowIds : i >= 2 => i # 1
      OBVIOUS
    <3>. QED BY <2>3, <3>1, <3>2 DEF RowsBelowNext
  <2>6. OneOfEach /\ LiveIsPublished /\ FourEyes /\ DraftFollowsPublished
    BY <2>4 DEF OneOfEach, LiveIsPublished, FourEyes, DraftFollowsPublished
  <2>7. ReviewsAreProper
    BY <2>3, <2>4 DEF ReviewsAreProper, Reviewed
  <2>8. Cycle!Init
    BY <2>1, <2>3, <2>4, ProposalIs DEF Cycle!Init, Stage
  <2>. QED BY <1>1, <2>5, <2>6, <2>7, <2>8 DEF SerialInv, Tables
<1>. QED BY <1>2, <1>3

\* The invariant holds as long as no two requests overlap.
LEMMA SerialInvariant == ASSUME OneAtATime PROVE Spec => []SerialInv
<1>1. SerialInv /\ TypeOK' /\ [Next]_vars => SerialInv'
  BY SerialStep DEF Promised
<1>. QED BY <1>1, SerialInit, TypeCorrect, PTL DEF Spec

\* As long as requests do not overlap, what the rest of the system reads is the content of
\* the published version, however versions are saved, voided, discarded, rolled back to and
\* published, for every subject (the run VersioningConcurrent shows two publishers break it).
THEOREM LiveStaysPublished == ASSUME OneAtATime PROVE Spec => []LiveIsPublished
<1>1. SerialInv => LiveIsPublished
  BY DEF SerialInv, Tables
<1>. QED BY <1>1, SerialInvariant, PTL

\* "A reviewer may not review their own submission - except an admin": nothing that is in
\* force was approved by the person who submitted it, even if it was rejected, edited,
\* submitted and approved again in between.
THEOREM FourEyesHolds == ASSUME OneAtATime PROVE Spec => []FourEyes
<1>1. SerialInv => FourEyes
  BY DEF SerialInv, Tables
<1>. QED BY <1>1, SerialInvariant, PTL

\* A draft that createDraft started is based on the version it will replace.
THEOREM DraftsFollow == ASSUME OneAtATime PROVE Spec => []DraftFollowsPublished
<1>1. SerialInv => DraftFollowsPublished
  BY DEF SerialInv, Tables
<1>. QED BY <1>1, SerialInvariant, PTL

\* Publishing leaves a published version: a subject that has one keeps having one.
THEOREM PublishedIsKept == ASSUME OneAtATime PROVE Spec => KeepsPublished
<1>1. SerialInv /\ TypeOK' /\ [Next]_vars => (PublishedRows # {} => PublishedRows' # {})
  BY SerialStep DEF Promised
<1>. QED BY <1>1, SerialInvariant, TypeCorrect, PTL DEF Spec, KeepsPublished

\* The engine implements ReleaseCycle, request after request: what is in force changes only
\* by releasing, unchanged, the content a reviewer approved.
THEOREM EngineImplementsCycle == ASSUME OneAtATime PROVE Spec => ImplementsReleaseCycle
<1>1. SerialInv /\ TypeOK' /\ [Next]_vars => [Cycle!Next]_<<live, Proposal>>
  BY SerialStep DEF Promised, CycleStep
<1>. QED BY <1>1, SerialInit, SerialInvariant, TypeCorrect, PTL DEF Spec, ImplementsReleaseCycle, Cycle!Spec

=============================================================================
