----------------------------- MODULE Versioning -----------------------------
(***************************************************************************)
(* The draft -> review -> publish engine of a controlled record (a         *)
(* workflow, the management review, the context of the organization):      *)
(* services/api/src/modules/versioning/versioning.service.ts, for one      *)
(* subject.                                                                *)
(*                                                                         *)
(* Every HTTP request runs in a READ COMMITTED transaction of its own.     *)
(* Each SELECT whose result a request acts on later is one step; all the   *)
(* writes of a request are its last step, which is its COMMIT.  Two        *)
(* requests that write the same row wait for one another, so committing    *)
(* the writes together is what another request can see of them.            *)
(***************************************************************************)
EXTENDS Naturals, FiniteSets

CONSTANTS
  Users,       \* the people who work on the subject
  FullAccess,  \* those of them with a full-access role (Owner, Administrator)
  Requests,    \* the requests that may be in flight at the same time
  Contents,    \* payloads
  Blank,       \* the empty payload, the only one adapter.validate refuses
  MaxRows,     \* bound on the rows ever inserted
  Nobody       \* null in a column that names a user

ASSUME AccessAssumption == FullAccess \subseteq Users
ASSUME BlankAssumption == Blank \in Contents
ASSUME BoundAssumption == MaxRows \in Nat \ {0}
ASSUME NobodyAssumption == Nobody \notin Users

VARIABLES
  versions,  \* controlled_versions: row id -> row
  nextId,    \* the sequence that numbers rows, never reused
  live,      \* the payload of the live record, which the rest of the system reads
  active,    \* workflow_definitions.is_active
  voidable,  \* TRUE for the management review and the context, FALSE for a workflow
  req        \* what each request in flight has read so far

vars == <<versions, nextId, live, active, voidable, req>>

-----------------------------------------------------------------------------
(* Rows *)

RowIds == 1 .. MaxRows

Row == [number : Nat,
        status : {"absent", "draft", "in_review", "published", "archived"},
        content : Contents,
        decision : {"none", "approved", "rejected"},
        submittedBy : Users \cup {Nobody},
        reviewedBy : Users \cup {Nobody},
        publishes : Nat,          \* published_at: how often it was written
        basedOn : Nat,
        rollback : BOOLEAN,
        bootstrapped : BOOLEAN,   \* metadata.bootstrapped
        voided : BOOLEAN]         \* metadata.voided

\* A row as an INSERT writes it.
Fresh(number, status, content, base, rollback) ==
  [number |-> number, status |-> status, content |-> content, decision |-> "none",
   submittedBy |-> Nobody, reviewedBy |-> Nobody,
   publishes |-> IF status = "published" THEN 1 ELSE 0, basedOn |-> base,
   rollback |-> rollback, bootstrapped |-> (status = "published"), voided |-> FALSE]

\* A row that was never inserted or was deleted.
NoRow == Fresh(0, "absent", Blank, 0, FALSE)

Frozen(row) == row.status \in {"published", "archived"}
Open(row) == row.status \in {"draft", "in_review"}

Present == {i \in RowIds : versions[i].status # "absent"}
OpenRows == {i \in RowIds : Open(versions[i])}
PublishedRows == {i \in RowIds : versions[i].status = "published"}
Numbers == {versions[i].number : i \in Present}

\* nextNumber: one more than the largest number in the table.
IsNextNumber(n) ==
  /\ \A m \in Numbers : m < n
  /\ n = 1 \/ n - 1 \in Numbers

\* Mutant: the trigger forgets the payload.
TriggerForgetsContent(old, new) ==
  Frozen(old) =>
    /\ new.number = old.number
    /\ new.publishes = old.publishes
    /\ new.status = old.status \/ (old.status = "published" /\ new.status = "archived")

\* What the trigger controlled_versions_freeze lets through.
TriggerAllows(old, new) ==
  Frozen(old) =>
    /\ new.content = old.content
    /\ new.number = old.number
    /\ new.voided = old.voided
    /\ new.publishes = old.publishes
    /\ new.reviewedBy = old.reviewedBy
    /\ new.status = old.status \/ (old.status = "published" /\ new.status = "archived")

\* Mutant: no partial index on the open version.
InsertChecksNumberOnly(row) == row.number \notin Numbers

\* The unique indexes: one row per number, one open row per subject.
InsertAllowed(row) ==
  /\ row.number \notin Numbers
  /\ Open(row) => OpenRows = {}

-----------------------------------------------------------------------------
(* Requests in flight *)

ReqState == [pc : {"idle", "seed", "target", "open", "published", "number", "insert",
                   "previous", "write"},
             op : {"none", "view", "create", "rollback", "save", "void", "discard",
                   "submit", "approve", "reject", "publish"},
             by : Users \cup {Nobody},
             id : RowIds \cup {0},     \* the row the request is about
             content : Contents,       \* the payload it read
             base : Nat,               \* the version number it starts a draft from
             number : Nat,             \* nextNumber, as read
             prev : RowIds \cup {0}]   \* the published row it read; 0 if there was none

Idle == [pc |-> "idle", op |-> "none", by |-> Nobody, id |-> 0, content |-> Blank,
         base |-> 0, number |-> 0, prev |-> 0]

At(r, pc) == req[r].pc = pc

Goes(r, q) == req' = [req EXCEPT ![r] = q]
Done(r) == Goes(r, Idle)

\* A request that only reads: its later steps use what it read.
Reads == UNCHANGED <<versions, nextId, live, active>>

-----------------------------------------------------------------------------
(* Initial states *)

\* A subject that pre-dates versioning: a live record and no version of it.
InitLegacy ==
  /\ versions = [i \in RowIds |-> NoRow]
  /\ nextId = 1
  /\ live \in Contents
  /\ active = TRUE
  /\ voidable \in BOOLEAN
  /\ req = [r \in Requests |-> Idle]

\* A workflow made through the versioned flow: inactive, its content in the live
\* row and in a first draft.
InitNew ==
  \E c \in Contents :
    /\ versions = [i \in RowIds |->
                     IF i = 1 THEN Fresh(1, "draft", c, 0, FALSE) ELSE NoRow]
    /\ nextId = 2
    /\ live = c
    /\ active = FALSE
    /\ voidable = FALSE
    /\ req = [r \in Requests |-> Idle]

-----------------------------------------------------------------------------
(* ensureBootstrapped, createDraft, rollbackTo *)

\* A request once its subject has a version.
Bound(op) ==
  IF op = "view" THEN Idle
  ELSE [Idle EXCEPT !.pc = IF op = "create" THEN "open" ELSE "target", !.op = op]

\* Every read of the timeline and every new draft first asks whether the subject
\* has a version at all.  A view of a subject that has one changes nothing.
Begin(r, op, u) ==
  /\ At(r, "idle")
  /\ op = "rollback" /\ voidable => u \in FullAccess
  /\ op = "view" => Present = {}
  /\ Goes(r, IF Present = {} THEN [Idle EXCEPT !.pc = "seed", !.op = op, !.content = live]
             ELSE Bound(op))
  /\ Reads

Bootstrapped(c) == Fresh(1, "published", c, 0, FALSE)

\* INSERT ... ON CONFLICT DO NOTHING of version 1.
Seed(r) ==
  /\ At(r, "seed")
  /\ nextId <= MaxRows
  /\ IF InsertAllowed(Bootstrapped(req[r].content))
       THEN /\ versions' = [versions EXCEPT ![nextId] = Bootstrapped(req[r].content)]
            /\ nextId' = nextId + 1
       ELSE UNCHANGED <<versions, nextId>>
  /\ Goes(r, Bound(req[r].op))
  /\ UNCHANGED <<live, active>>

\* rollbackTo refuses every status but archived.
RollbackTarget(row) == row.status = "archived"

ReadTarget(r, i) ==
  /\ At(r, "target")
  /\ RollbackTarget(versions[i])
  /\ Goes(r, [req[r] EXCEPT !.pc = "open", !.base = versions[i].number,
                            !.content = versions[i].content])
  /\ Reads

CheckOpen(r) ==
  /\ At(r, "open")
  /\ IF OpenRows # {} THEN Done(r)
     ELSE Goes(r, [req[r] EXCEPT !.pc = IF req[r].op = "create" THEN "published" ELSE "number"])
  /\ Reads

\* Mutant: publishedVersion also finds archived versions.
ReadAnyReleased(r) ==
  /\ At(r, "published")
  /\ \/ /\ PublishedRows = {}
        /\ Goes(r, [req[r] EXCEPT !.pc = "number"])
     \/ \E p \in {i \in RowIds : Frozen(versions[i])} :
          Goes(r, [req[r] EXCEPT !.pc = "number", !.base = versions[p].number,
                                 !.content = versions[p].content])
  /\ Reads

ReadPublished(r) ==
  /\ At(r, "published")
  /\ \/ /\ PublishedRows = {}
        /\ Goes(r, [req[r] EXCEPT !.pc = "number"])
     \/ \E p \in PublishedRows :
          Goes(r, [req[r] EXCEPT !.pc = "number", !.base = versions[p].number,
                                 !.content = versions[p].content])
  /\ Reads

ReadNumber(r) ==
  /\ At(r, "number")
  /\ \E n \in 1 .. (MaxRows + 1) :
       IsNextNumber(n) /\ Goes(r, [req[r] EXCEPT !.pc = "insert", !.number = n])
  /\ Reads

\* The draft a request inserts: the content it was given, or the one it copies.
NewDraft(q, c) == Fresh(q.number, "draft", c, q.base, q.op = "rollback")

\* A unique violation fails the request, which rolls back.
InsertDraft(r) ==
  /\ At(r, "insert")
  /\ nextId <= MaxRows
  /\ \E c \in IF req[r].op = "create" THEN Contents ELSE {req[r].content} :
       IF InsertAllowed(NewDraft(req[r], c))
         THEN /\ versions' = [versions EXCEPT ![nextId] = NewDraft(req[r], c)]
              /\ nextId' = nextId + 1
         ELSE UNCHANGED <<versions, nextId>>
  /\ Done(r)
  /\ UNCHANGED <<live, active>>

-----------------------------------------------------------------------------
(* Requests about one version: getVersion and the checks, then the write *)

\* Mutants: an editor may save what is in review; a submitter may approve.
MaySaveOpen(row) == Open(row)
MayReviewOwn(row, u) == row.status = "in_review"

\* What each handler asks of the row it read.
MaySave(row) == row.status = "draft"
MayVoid(row) == voidable /\ Open(row)
MayDiscard(row) == row.status = "draft"
MaySubmit(row) == row.status = "draft" /\ row.content # Blank
MayReview(row, u) ==
  /\ row.status = "in_review"
  /\ row.submittedBy = u => u \in FullAccess
MayPublish(row) ==
  /\ row.status = "in_review"
  /\ row.decision = "approved"
  /\ row.content # Blank

MayAct(op, row, u) ==
  \/ op = "save" /\ MaySave(row)
  \/ op = "void" /\ MayVoid(row)
  \/ op = "discard" /\ MayDiscard(row)
  \/ op = "submit" /\ MaySubmit(row)
  \/ op \in {"approve", "reject"} /\ MayReview(row, u)

Load(r, op, i, u) ==
  /\ At(r, "idle")
  /\ MayAct(op, versions[i], u)
  /\ Goes(r, [Idle EXCEPT !.pc = "write", !.op = op, !.id = i, !.by = u])
  /\ Reads

\* Mutant: the live record's own payload is applied.
LoadLiveForPublish(r, i) ==
  /\ At(r, "idle")
  /\ MayPublish(versions[i])
  /\ Goes(r, [Idle EXCEPT !.pc = "previous", !.op = "publish", !.id = i, !.content = live])
  /\ Reads

LoadForPublish(r, i) ==
  /\ At(r, "idle")
  /\ MayPublish(versions[i])
  /\ Goes(r, [Idle EXCEPT !.pc = "previous", !.op = "publish", !.id = i,
                          !.content = versions[i].content])
  /\ Reads

ReadPrevious(r) ==
  /\ At(r, "previous")
  /\ \/ /\ PublishedRows = {}
        /\ Goes(r, [req[r] EXCEPT !.pc = "write"])
     \/ \E p \in PublishedRows : Goes(r, [req[r] EXCEPT !.pc = "write", !.prev = p])
  /\ Reads

\* Mutants: a status outside the enumeration; publishing archives.
SubmittedMisspelt(row, u) == [row EXCEPT !.status = "review", !.submittedBy = u]
PublishedAsArchived(row) == [row EXCEPT !.status = "archived", !.publishes = @ + 1]

\* The columns each UPDATE names.
Saved(row, c) == [row EXCEPT !.content = c]
Voided(row) == [row EXCEPT !.status = "archived", !.voided = TRUE]
Submitted(row, u) ==
  [row EXCEPT !.status = "in_review", !.submittedBy = u, !.decision = "none",
              !.reviewedBy = Nobody]
Approved(row, u) == [row EXCEPT !.decision = "approved", !.reviewedBy = u]
Rejected(row, u) == [row EXCEPT !.status = "draft", !.decision = "rejected", !.reviewedBy = u]
Superseded(row) == [row EXCEPT !.status = "archived"]
Published(row) == [row EXCEPT !.status = "published", !.publishes = @ + 1]

\* UPDATE ... WHERE id = i: of no row if it is gone, refused by the trigger or done.
Update(i, new) ==
  versions' = IF versions[i].status # "absent" /\ TriggerAllows(versions[i], new)
                THEN [versions EXCEPT ![i] = new]
                ELSE versions

Writing(r, op) == At(r, "write") /\ req[r].op = op

Save(r) ==
  /\ Writing(r, "save")
  /\ \E c \in Contents : Update(req[r].id, Saved(versions[req[r].id], c))
  /\ Done(r)
  /\ UNCHANGED <<nextId, live, active>>

Void(r) ==
  /\ Writing(r, "void")
  /\ Update(req[r].id, Voided(versions[req[r].id]))
  /\ Done(r)
  /\ UNCHANGED <<nextId, live, active>>

\* DELETE ... WHERE id: the trigger keeps frozen rows.
Discard(r) ==
  /\ Writing(r, "discard")
  /\ versions' = IF Frozen(versions[req[r].id]) THEN versions
                 ELSE [versions EXCEPT ![req[r].id] = NoRow]
  /\ Done(r)
  /\ UNCHANGED <<nextId, live, active>>

Submit(r) ==
  /\ Writing(r, "submit")
  /\ Update(req[r].id, Submitted(versions[req[r].id], req[r].by))
  /\ Done(r)
  /\ UNCHANGED <<nextId, live, active>>

Review(r) ==
  /\ \/ Writing(r, "approve") /\ Update(req[r].id, Approved(versions[req[r].id], req[r].by))
     \/ Writing(r, "reject") /\ Update(req[r].id, Rejected(versions[req[r].id], req[r].by))
  /\ Done(r)
  /\ UNCHANGED <<nextId, live, active>>

\* The version is gone: its UPDATE touches no row and everything else is written.
\* It was published or archived meanwhile: the trigger raises and nothing is.
Publish(r) ==
  LET q == req[r]
      row == versions[q.id]
      superseding == IF q.prev = 0 THEN versions
                     ELSE [versions EXCEPT ![q.prev] = Superseded(@)]
  IN /\ Writing(r, "publish")
     /\ IF TriggerAllows(row, Published(row))
          THEN /\ versions' = IF row.status = "absent" THEN superseding
                              ELSE [superseding EXCEPT ![q.id] = Published(row)]
               /\ live' = q.content
               /\ active' = (active \/ q.prev = 0)
          ELSE UNCHANGED <<versions, live, active>>
     /\ Done(r)
     /\ UNCHANGED nextId

\* A request that fails, or whose client goes away, rolls back.
Abort(r) ==
  /\ ~ At(r, "idle")
  /\ Done(r)
  /\ Reads

-----------------------------------------------------------------------------
Step ==
  \E r \in Requests :
    \/ \E op \in {"view", "create", "rollback"}, u \in Users : Begin(r, op, u)
    \/ Seed(r)
    \/ \E i \in RowIds : ReadTarget(r, i)
    \/ CheckOpen(r)
    \/ ReadPublished(r)
    \/ ReadNumber(r)
    \/ InsertDraft(r)
    \/ \E op \in {"save", "void", "discard", "submit", "approve", "reject"},
          i \in RowIds, u \in Users : Load(r, op, i, u)
    \/ \E i \in RowIds : LoadForPublish(r, i)
    \/ ReadPrevious(r)
    \/ Save(r)
    \/ Void(r)
    \/ Discard(r)
    \/ Submit(r)
    \/ Review(r)
    \/ Publish(r)
    \/ Abort(r)

\* What kind of record it is never changes.
Next == Step /\ UNCHANGED voidable

Spec == (InitLegacy \/ InitNew) /\ [][Next]_vars

\* The subjects that existed before version control did.
LegacySpec == InitLegacy /\ [][Next]_vars

-----------------------------------------------------------------------------
(* Properties *)

TypeOK ==
  /\ versions \in [RowIds -> Row]
  /\ nextId \in 1 .. (MaxRows + 1)
  /\ live \in Contents
  /\ active \in BOOLEAN
  /\ voidable \in BOOLEAN
  /\ req \in [Requests -> ReqState]

\* Whatever requests overlap, a subject has at most one open version and at most
\* one published one.  The first has a unique index behind it; the second has
\* none, and rests on the version a request publishes being the open one.
OneOfEach ==
  /\ \A i, j \in OpenRows : i = j
  /\ \A i, j \in PublishedRows : i = j

\* No request, however stale what it read, rewrites, reopens or removes a version
\* once it is published or archived: published may only turn into archived.  (The
\* trigger leaves review_decision out, and so does this.)
FrozenForever ==
  [][\A i \in RowIds : Frozen(versions[i]) =>
       \E d \in {"none", "approved", "rejected"} :
         LET kept == [versions[i] EXCEPT !.decision = d]
         IN versions'[i] \in {kept, Superseded(kept)}]_vars

\* The comment of publishVersion, "a failure anywhere leaves the previous version
\* live": a subject that has a published version goes on having one.
KeepsPublished == [][PublishedRows # {} => PublishedRows' # {}]_vars

\* The comment of saveDraft, "in-review and published versions are locked": the
\* content of a version does not change while it is in review.
InReviewLocked ==
  [][\A i \in RowIds :
       versions[i].status = "in_review" /\ versions'[i].status \in {"in_review", "published"}
         => versions'[i].content = versions[i].content]_vars

\* What the rest of the system reads is the content of the published version.
LiveIsPublished == \A i \in PublishedRows : live = versions[i].content

\* "A reviewer may not review their own submission - except an admin": the person
\* who approved a version that was published did not submit it.
FourEyes ==
  \A i \in PublishedRows :
    ~ versions[i].bootstrapped =>
      /\ versions[i].reviewedBy \in Users
      /\ versions[i].reviewedBy = versions[i].submittedBy => versions[i].reviewedBy \in FullAccess

\* A draft is started from the version it will replace, so publishing it loses no
\* revision in between (a rollback names the one it restores instead).
DraftFollowsPublished ==
  \A i \in OpenRows, p \in PublishedRows :
    ~ versions[i].rollback => versions[i].basedOn = versions[p].number

\* The open version as the proposal of ReleaseCycle.
Proposal ==
  IF OpenRows = {} THEN [stage |-> "none", content |-> Blank]
  ELSE LET row == versions[CHOOSE i \in OpenRows : TRUE]
       IN [content |-> row.content,
           stage |-> IF row.status = "draft" THEN "draft"
                     ELSE IF row.decision = "approved" THEN "approved" ELSE "review"]

Cycle == INSTANCE ReleaseCycle WITH inForce <- live, proposal <- Proposal

\* Without overlapping requests the engine keeps the promise of ReleaseCycle: what
\* comes into force is the very content that was approved, and nothing else is.
ImplementsReleaseCycle == Cycle!Spec

=============================================================================
