------------------------- MODULE EventDeliveryProofs -------------------------
(* Why an event starts a definition at most once, and how much a crash or a *)
(* failed statement can leave behind, for any number of requests,           *)
(* definitions, messages and faults.                                        *)
EXTENDS EventDelivery, FiniteSetTheorems, TLAPS

-----------------------------------------------------------------------------
(* The inductive invariant. *)

\* The last message the worker is done with.
Base == delivered - Len(batch)

\* The worker holds the last messages that were handed out, in order.
BatchOK ==
  /\ Len(batch) <= delivered /\ Len(batch) <= Count
  /\ \A i \in 1..Len(batch) : batch[i] = Base + i
  /\ phase # "reading" => Len(batch) > 0

\* Runs belong to messages that are finished or under way, and those of the
\* message under way are of definitions that are no longer to do.
RunsOK ==
  \A k \in 1..Len(runs) :
    /\ runs[k].msg <= Base + 1
    /\ runs[k].msg = Base + 1 => phase # "reading" /\ runs[k].def \notin todo

\* There is a run the worker is at.
CurrentOK == Working => Len(runs) > 0

IInv ==
  /\ TypeOK
  /\ BatchOK
  /\ RunsOK
  /\ CurrentOK
  /\ AtMostOneRun
  /\ StuckRunsHaveACause
  /\ StrandedByCrash

-----------------------------------------------------------------------------
(* What a step leaves alone. *)

\* Nothing of the invariant but the type speaks of the events on the way.
LEMMA BusOnly ==
  ASSUME IInv, TypeOK', UNCHANGED <<group, worker, rows, faults>>
  PROVE  IInv'
<1>1. /\ delivered' = delivered /\ pending' = pending /\ batch' = batch
      /\ todo' = todo /\ phase' = phase /\ runs' = runs
      /\ crashes' = crashes /\ errors' = errors
  BY DEF group, worker, rows, faults
<1>2. BatchOK' /\ RunsOK' /\ CurrentOK'
  BY <1>1 DEF IInv, BatchOK, RunsOK, CurrentOK, Base, Working
<1>3. AtMostOneRun' /\ StuckRunsHaveACause' /\ StrandedByCrash'
  BY <1>1 DEF IInv, AtMostOneRun, StuckRunsHaveACause, Stuck, Working, Current,
     StrandedByCrash, Stranded, Range
<1>. QED BY <1>2, <1>3 DEF IInv

\* The range of a sequence, by its indices.
LEMMA RangeOf ==
  ASSUME NEW S, NEW s \in Seq(S), NEW x
  PROVE  x \in Range(s) <=> \E i \in 1..Len(s) : x = s[i]
BY DEF Range

\* The sets that are counted are finite.
LEMMA Finite ==
  ASSUME TypeOK
  PROVE  /\ IsFiniteSet(Stuck) /\ Cardinality(Stuck) \in Nat
         /\ IsFiniteSet(Stranded) /\ Cardinality(Stranded) \in Nat
<1>1. Len(runs) \in Nat /\ DOMAIN runs = 1..Len(runs) /\ Len(stream) \in Nat
  BY DEF TypeOK
<1>2. IsFiniteSet(1..Len(runs))
  BY <1>1, FS_Interval
<1>3. IsFiniteSet(Stuck)
  BY <1>1, <1>2, FS_Subset DEF Stuck
<1>4. delivered \in Nat /\ pending \subseteq 1..delivered
  BY <1>1 DEF TypeOK
<1>5. IsFiniteSet(1..delivered)
  BY <1>4, FS_Interval
<1>6. Stranded \in SUBSET (1..delivered)
  BY <1>4 DEF Stranded
<1>7. IsFiniteSet(Stranded)
  BY <1>5, <1>6, FS_Subset
<1>. QED BY <1>3, <1>7, FS_CardinalityType

\* A set of runs that are stuck, or of entries, that gains nothing keeps its bound.
LEMMA Smaller ==
  ASSUME NEW S, IsFiniteSet(S), NEW T \in SUBSET S
  PROVE  IsFiniteSet(T) /\ Cardinality(T) <= Cardinality(S) /\ Cardinality(T) \in Nat /\ Cardinality(S) \in Nat
BY FS_Subset, FS_CardinalityType

\* One more element makes a set larger by one at most.
LEMMA OneMore ==
  ASSUME NEW S, IsFiniteSet(S), NEW x, NEW T \in SUBSET (S \cup {x})
  PROVE  Cardinality(T) <= Cardinality(S) + 1 /\ Cardinality(T) \in Nat /\ Cardinality(S) \in Nat
<1>1. IsFiniteSet(S \cup {x}) /\ Cardinality(S \cup {x}) <= Cardinality(S) + 1 /\ Cardinality(S) \in Nat
  BY FS_AddElement, FS_CardinalityType
<1>2. Cardinality(T) <= Cardinality(S \cup {x}) /\ Cardinality(T) \in Nat /\ Cardinality(S \cup {x}) \in Nat
  BY <1>1, Smaller
<1>. QED BY <1>1, <1>2

-----------------------------------------------------------------------------
(* Type correctness *)

\* Appending a run, or setting the status of the last one, keeps the rows typed.
LEMMA RowsType ==
  ASSUME TypeOK
  PROVE  /\ \A m \in Message, d \in Definitions :
              Append(runs, [msg |-> m, def |-> d, status |-> "running"]) \in Seq(Run)
         /\ \A s \in Statuses :
              Len(runs) > 0 => [runs EXCEPT ![Current].status = s] \in Seq(Run)
<1>1. runs \in Seq(Run)
  BY DEF TypeOK
<1>2. ASSUME NEW m \in Message, NEW d \in Definitions
      PROVE  Append(runs, [msg |-> m, def |-> d, status |-> "running"]) \in Seq(Run)
  <2>1. [msg |-> m, def |-> d, status |-> "running"] \in Run
    BY <1>2 DEF Run, Statuses
  <2>. QED BY <1>1, <2>1
<1>3. ASSUME NEW s \in Statuses, Len(runs) > 0
      PROVE  [runs EXCEPT ![Current].status = s] \in Seq(Run)
  <2>1. Current \in 1..Len(runs) /\ runs[Current] \in Run
    BY <1>1, <1>3 DEF Current
  <2>2. [runs[Current] EXCEPT !.status = s] \in Run
    BY <2>1, <1>3 DEF Run
  <2>. QED BY <1>1, <2>1, <2>2
<1>. QED BY <1>2, <1>3

\* Every step keeps the variables well typed.
LEMMA TypeStep ==
  ASSUME IInv, Next
  PROVE  TypeOK'
<1>0. /\ TypeOK /\ BatchOK /\ CurrentOK
      /\ stream \in Seq(Requests \cup {FollowUp}) /\ Len(stream) \in Nat /\ Len(stream) <= MaxMessages
      /\ delivered \in Nat /\ delivered <= Len(stream)
      /\ batch \in Seq(Message) /\ Len(batch) \in Nat
      /\ pending \subseteq 1..delivered
      /\ Count \in Nat \ {0} /\ MaxMessages \in Nat /\ MaxCrashes \in Nat /\ MaxErrors \in Nat
  BY CountAssumption, BoundsAssumption DEF IInv, TypeOK
<1>1. ASSUME NEW q \in Requests \cup {FollowUp}, CanAppend
      PROVE  /\ Append(stream, q) \in Seq(Requests \cup {FollowUp})
             /\ Len(Append(stream, q)) = Len(stream) + 1 /\ Len(stream) + 1 \in Nat
             /\ Len(Append(stream, q)) <= MaxMessages
  BY <1>0, <1>1 DEF CanAppend
<1>2. ASSUME NEW q \in Requests, Publish(q) \/ Arrive(q)
      PROVE  TypeOK'
  <2>1. /\ stream' \in Seq(Requests \cup {FollowUp}) /\ Len(stream') <= MaxMessages
        /\ Len(stream') \in Nat /\ Len(stream') >= Len(stream)
    <3>1. stream' = stream \/ (CanAppend /\ stream' = Append(stream, q))
      BY <1>2 DEF Publish, Arrive
    <3>. QED BY <1>0, <1>1, <3>1
  <2>2. asked' \subseteq Requests /\ late' \subseteq asked'
    BY <1>0, <1>2 DEF Publish, Arrive, TypeOK
  <2>3. UNCHANGED <<delivered, pending, up, batch, todo, phase, runs, handled, crashes, errors>>
    BY <1>2 DEF Publish, Arrive, group, worker, rows, faults
  <2>4. delivered' \in 0..Len(stream')
    BY <1>0, <2>1, <2>3
  <2>. QED BY <1>0, <2>1, <2>2, <2>3, <2>4 DEF TypeOK
<1>3. CASE Start
  BY <1>0, <1>3 DEF Start, TypeOK, bus, group, rows, faults
<1>4. CASE Crash
  <2>1. crashes' \in 0..MaxCrashes
    BY <1>0, <1>4 DEF Crash, TypeOK
  <2>2. <<>> \in Seq(Message)
    OBVIOUS
  <2>. QED BY <1>0, <1>4, <2>1, <2>2 DEF Crash, TypeOK, bus, group, rows, Phases
<1>5. CASE ReadGroup
  <2>1. /\ Taken \in Nat /\ Taken <= Len(stream) - delivered
    BY <1>0, <1>5 DEF ReadGroup, Taken, Unread
  <2>2. \A i \in 1..Taken : delivered + i \in Message
    BY <1>0, <2>1 DEF Message
  <2>3. Batch \in Seq(Message)
    BY <2>1, <2>2 DEF Batch
  <2>4. delivered' \in 0..Len(stream)
    BY <1>0, <1>5, <2>1 DEF ReadGroup
  <2>5. pending' \subseteq 1..delivered'
    BY <1>0, <1>5, <2>1 DEF ReadGroup, Handed
  <2>. QED BY <1>0, <1>5, <2>3, <2>4, <2>5 DEF ReadGroup, TypeOK, bus, rows, faults
<1>6. CASE Match
  <2>1. Head(batch) \in Message
    BY <1>0, <1>6 DEF Match
  <2>. QED BY <1>0, <1>6, <2>1 DEF Match, TypeOK, bus, group, faults, Phases
<1>7. CASE InsertRun
  <2>1. Head(batch) \in Message
    BY <1>0, <1>7 DEF InsertRun, BatchOK
  <2>2. PICK d \in todo :
          /\ runs' = Append(runs, [msg |-> Head(batch), def |-> d, status |-> "running"])
          /\ todo' = todo \ {d}
    BY <1>7 DEF InsertRun
  <2>3. d \in Definitions
    BY <1>0, <2>2 DEF TypeOK
  <2>4. runs' \in Seq(Run)
    BY <1>0, <2>1, <2>2, <2>3, RowsType
  <2>. QED BY <1>0, <1>7, <2>2, <2>4 DEF InsertRun, TypeOK, bus, group, faults, Phases
<1>8. CASE Execute
  <2>1. /\ stream' \in Seq(Requests \cup {FollowUp}) /\ Len(stream') <= MaxMessages
        /\ Len(stream') \in Nat /\ Len(stream') >= Len(stream)
    <3>1. stream' = stream \/ (CanAppend /\ stream' = Append(stream, FollowUp))
      BY <1>8 DEF Execute
    <3>2. ASSUME CanAppend
          PROVE  /\ Append(stream, FollowUp) \in Seq(Requests \cup {FollowUp})
                 /\ Len(Append(stream, FollowUp)) = Len(stream) + 1
                 /\ Len(Append(stream, FollowUp)) <= MaxMessages
      BY <1>0, <3>2 DEF CanAppend
    <3>. QED BY <1>0, <3>1, <3>2
  <2>2. delivered' \in 0..Len(stream')
    BY <1>0, <1>8, <2>1 DEF Execute, group
  <2>. QED BY <1>0, <1>8, <2>1, <2>2 DEF Execute, TypeOK, group, rows, faults, Phases
<1>9. CASE SaveResult \/ MarkFailed
  <2>1. \E s \in Statuses : SetStatus(s)
    BY <1>9 DEF SaveResult, MarkFailed, Saving, Statuses
  <2>2. Len(runs) > 0
    BY <1>0, <1>9 DEF SaveResult, MarkFailed, CurrentOK, Working
  <2>3. runs' \in Seq(Run)
    BY <1>0, <2>1, <2>2, RowsType DEF SetStatus
  <2>. QED BY <1>0, <1>9, <2>3 DEF SaveResult, MarkFailed, TypeOK, bus, group, faults, Phases
<1>10. CASE Ack
  <2>1. batch # <<>>
    BY <1>0, <1>10 DEF Ack, BatchOK
  <2>2. Tail(batch) \in Seq(Message)
    BY <1>0, <2>1
  <2>. QED BY <1>0, <1>10, <2>2 DEF Ack, TypeOK, bus, rows, faults, Phases
<1>11. CASE StatementFails
  <2>1. errors' \in 0..MaxErrors
    BY <1>0, <1>11 DEF StatementFails, TypeOK
  <2>2. todo' \subseteq Definitions /\ phase' \in Phases
    BY <1>0, <1>11 DEF StatementFails, TypeOK, Phases
  <2>3. handled' \subseteq Message
    <3>1. CASE handled' = handled
      BY <1>0, <3>1 DEF TypeOK
    <3>2. CASE handled' = handled \cup {Head(batch)} /\ batch # <<>>
      <4>1. Head(batch) \in Message
        BY <1>0, <3>2
      <4>. QED BY <1>0, <3>2, <4>1 DEF TypeOK
    <3>3. phase \in {"threw", "matching"} => batch # <<>>
      BY <1>0 DEF BatchOK
    <3>. QED BY <1>11, <3>1, <3>2, <3>3 DEF StatementFails
  <2>. QED BY <1>0, <1>11, <2>1, <2>2, <2>3 DEF StatementFails, TypeOK, bus, group
<1>. QED BY <1>2, <1>3, <1>4, <1>5, <1>6, <1>7, <1>8, <1>9, <1>10, <1>11 DEF Next, Work

-----------------------------------------------------------------------------
(* The batch and the runs *)

\* Every step keeps the order of the batch and the place of the runs in it,
\* and starts no definition a second time for a message.
LEMMA OrderStep ==
  ASSUME IInv, TypeOK', Next
  PROVE  BatchOK' /\ RunsOK' /\ CurrentOK' /\ AtMostOneRun'
<1>0. /\ TypeOK /\ BatchOK /\ RunsOK /\ CurrentOK /\ AtMostOneRun
      /\ delivered \in Nat /\ Len(batch) \in Nat /\ Len(stream) \in Nat /\ delivered <= Len(stream)
      /\ batch \in Seq(Message) /\ Base \in Nat
      /\ runs \in Seq(Run) /\ Len(runs) \in Nat /\ DOMAIN runs = 1..Len(runs)
      /\ \A k \in 1..Len(runs) : runs[k].msg \in Nat
      /\ Count \in Nat \ {0}
  <2>1. /\ delivered \in Nat /\ Len(batch) \in Nat /\ Len(stream) \in Nat /\ delivered <= Len(stream)
        /\ batch \in Seq(Message) /\ runs \in Seq(Run) /\ Len(runs) \in Nat
        /\ DOMAIN runs = 1..Len(runs)
    BY DEF IInv, TypeOK
  <2>2. Len(batch) <= delivered
    BY DEF IInv, BatchOK
  <2>3. Base \in Nat
    BY <2>1, <2>2 DEF Base
  <2>4. \A k \in 1..Len(runs) : runs[k] \in Run
    BY <2>1
  <2>5. \A k \in 1..Len(runs) : runs[k].msg \in Nat
    BY <2>4, BoundsAssumption DEF Run, Message
  <2>. QED BY <2>1, <2>3, <2>5, CountAssumption DEF IInv
<1>1. ASSUME UNCHANGED <<delivered, batch, todo, phase, runs>>
      PROVE  BatchOK' /\ RunsOK' /\ CurrentOK' /\ AtMostOneRun'
  BY <1>0, <1>1 DEF BatchOK, RunsOK, CurrentOK, Working, Base, AtMostOneRun
<1>2. CASE (\E q \in Requests : Publish(q) \/ Arrive(q)) \/ Start
  BY <1>1, <1>2 DEF Publish, Arrive, Start, group, worker, rows
<1>3. CASE Crash
  <2>1. /\ delivered' = delivered /\ runs' = runs /\ batch' = <<>> /\ Len(batch') = 0
        /\ phase' = "reading" /\ todo' = {} /\ Base' = delivered
    BY <1>0, <1>3 DEF Crash, group, rows, Base
  <2>2. \A k \in 1..Len(runs) : runs[k].msg <= delivered
    <3>. SUFFICES ASSUME NEW k \in 1..Len(runs)
         PROVE  runs[k].msg <= delivered
      OBVIOUS
    <3>1. Base <= delivered /\ (Len(batch) > 0 => Base + 1 <= delivered)
      BY <1>0 DEF Base
    <3>2. CASE runs[k].msg = Base + 1
      BY <1>0, <3>1, <3>2 DEF RunsOK, BatchOK
    <3>3. CASE runs[k].msg # Base + 1
      BY <1>0, <3>1, <3>3 DEF RunsOK
    <3>. QED BY <3>2, <3>3
  <2>3. RunsOK'
    BY <1>0, <2>1, <2>2 DEF RunsOK
  <2>. QED BY <1>0, <2>1, <2>3 DEF BatchOK, CurrentOK, Working, Saving, AtMostOneRun
<1>4. CASE ReadGroup
  <2>1. /\ phase = "reading" /\ phase' = "reading" /\ runs' = runs /\ Len(batch) = 0
        /\ Taken \in Nat /\ Taken <= Count /\ Taken <= Len(stream) - delivered
        /\ batch' = [i \in 1..Taken |-> delivered + i] /\ delivered' = delivered + Taken
    BY <1>0, <1>4 DEF ReadGroup, Taken, Unread, Batch, rows
  <2>2. Len(batch') = Taken /\ Base' = delivered /\ Base = delivered
    BY <1>0, <2>1 DEF Base
  <2>3. BatchOK'
    BY <1>0, <2>1, <2>2 DEF BatchOK
  <2>4. RunsOK'
    BY <1>0, <2>1, <2>2 DEF RunsOK
  <2>. QED BY <1>0, <2>1, <2>3, <2>4 DEF CurrentOK, Working, Saving, AtMostOneRun
<1>5. CASE Match
  <2>1. /\ phase = "reading" /\ phase' = "matching" /\ runs' = runs
        /\ batch' = batch /\ delivered' = delivered /\ Len(batch) > 0
    BY <1>0, <1>5 DEF Match, group
  <2>2. BatchOK' /\ Base' = Base
    BY <1>0, <2>1 DEF BatchOK, Base
  <2>3. RunsOK'
    BY <1>0, <2>1, <2>2 DEF RunsOK
  <2>. QED BY <1>0, <2>1, <2>2, <2>3 DEF CurrentOK, Working, Saving, AtMostOneRun
<1>6. CASE InsertRun
  <2>1. PICK d \in todo :
          /\ runs' = Append(runs, [msg |-> Head(batch), def |-> d, status |-> "running"])
          /\ todo' = todo \ {d}
    BY <1>6 DEF InsertRun
  <2>2. /\ phase = "matching" /\ phase' = "executing" /\ batch' = batch /\ delivered' = delivered
        /\ Base' = Base
    BY <1>6 DEF InsertRun, group, Base
  <2>3. Head(batch) = Base + 1
    BY <1>0, <2>2 DEF BatchOK
  <2>4. /\ Len(runs') = Len(runs) + 1 /\ DOMAIN runs' = 1..(Len(runs) + 1)
        /\ runs'[Len(runs) + 1].msg = Base + 1 /\ runs'[Len(runs) + 1].def = d
        /\ \A k \in 1..Len(runs) : runs'[k] = runs[k]
    BY <1>0, <2>1, <2>3
  <2>5. BatchOK'
    BY <1>0, <2>2 DEF BatchOK
  <2>6. RunsOK'
    <3>. SUFFICES ASSUME NEW k \in 1..(Len(runs) + 1)
         PROVE  /\ runs'[k].msg <= Base + 1
                /\ runs'[k].msg = Base + 1 => runs'[k].def \notin todo'
      BY <2>2, <2>4 DEF RunsOK
    <3>1. CASE k \in 1..Len(runs)
      BY <1>0, <2>1, <2>4, <3>1 DEF RunsOK
    <3>2. CASE k = Len(runs) + 1
      BY <1>0, <2>1, <2>4, <3>2
    <3>. QED BY <1>0, <3>1, <3>2
  <2>7. AtMostOneRun'
    <3>1. \A k \in 1..Len(runs) : runs[k].msg = Base + 1 => runs[k].def # d
      BY <1>0, <2>1 DEF RunsOK
    <3>2. \A i, j \in 1..Len(runs) :
            runs[i].msg = runs[j].msg /\ runs[i].def = runs[j].def => i = j
      BY <1>0 DEF AtMostOneRun
    <3>. SUFFICES ASSUME NEW i \in 1..(Len(runs) + 1), NEW j \in 1..(Len(runs) + 1),
                         runs'[i].msg = runs'[j].msg, runs'[i].def = runs'[j].def
         PROVE  i = j
      BY <2>4 DEF AtMostOneRun
    <3>3. CASE i \in 1..Len(runs) /\ j \in 1..Len(runs)
      BY <2>4, <3>2, <3>3
    <3>4. CASE i = Len(runs) + 1 /\ j = Len(runs) + 1
      BY <3>4
    <3>5. CASE i = Len(runs) + 1 /\ j \in 1..Len(runs)
      BY <2>4, <3>1, <3>5
    <3>6. CASE j = Len(runs) + 1 /\ i \in 1..Len(runs)
      BY <2>4, <3>1, <3>6
    <3>. QED BY <1>0, <3>3, <3>4, <3>5, <3>6
  <2>8. CurrentOK'
    BY <1>0, <2>4 DEF CurrentOK
  <2>. QED BY <2>5, <2>6, <2>7, <2>8
<1>7. CASE Execute
  <2>1. /\ phase = "executing" /\ phase' \in Saving \cup {"threw"}
        /\ UNCHANGED <<delivered, batch, todo, runs>>
    BY <1>7 DEF Execute, group, rows
  <2>2. phase' # "reading" /\ Working
    BY <2>1 DEF Saving, Working
  <2>. QED BY <1>0, <2>1, <2>2 DEF BatchOK, RunsOK, CurrentOK, Base, AtMostOneRun
<1>8. CASE SaveResult \/ MarkFailed
  <2>1. /\ phase \in Saving \cup {"threw"} /\ phase' = "matching"
        /\ UNCHANGED <<delivered, batch, todo>>
        /\ \E s \in Statuses : runs' = [runs EXCEPT ![Current].status = s]
    BY <1>8 DEF SaveResult, MarkFailed, group, SetStatus, Saving, Statuses
  <2>2. Len(runs') = Len(runs) /\ DOMAIN runs' = 1..Len(runs)
    BY <1>0, <2>1
  <2>3. \A k \in 1..Len(runs) : runs'[k].msg = runs[k].msg /\ runs'[k].def = runs[k].def
    BY <1>0, <2>1 DEF Run
  <2>4. phase # "reading" /\ ~Working'
    BY <2>1 DEF Saving, Working
  <2>5. BatchOK' /\ Base' = Base
    BY <1>0, <2>1, <2>4 DEF BatchOK, Base
  <2>6. RunsOK'
    BY <1>0, <2>1, <2>2, <2>3, <2>4, <2>5 DEF RunsOK
  <2>7. AtMostOneRun'
    BY <1>0, <2>2, <2>3 DEF AtMostOneRun
  <2>. QED BY <2>4, <2>5, <2>6, <2>7 DEF CurrentOK
<1>9. CASE Ack
  <2>1. /\ phase # "reading" /\ phase' = "reading" /\ runs' = runs /\ delivered' = delivered
        /\ batch' = Tail(batch)
    BY <1>9 DEF Ack, rows
  <2>2. Len(batch) > 0
    BY <1>0, <2>1 DEF BatchOK
  <2>3. Len(batch') = Len(batch) - 1 /\ \A i \in 1..(Len(batch) - 1) : batch'[i] = batch[i + 1]
    BY <1>0, <2>1, <2>2
  <2>4. Base' = Base + 1
    <3>1. Base' = delivered' - Len(batch')
      BY DEF Base
    <3>2. Len(batch') = Len(batch) - 1 /\ delivered' = delivered
      BY <2>1, <2>3
    <3>3. delivered \in Int /\ Len(batch) \in Int
      BY <1>0
    <3>. QED BY <3>1, <3>2, <3>3 DEF Base
  <2>5. BatchOK'
    BY <1>0, <2>1, <2>2, <2>3, <2>4 DEF BatchOK
  <2>6. RunsOK'
    BY <1>0, <2>1, <2>4 DEF RunsOK
  <2>. QED BY <1>0, <2>1, <2>5, <2>6 DEF CurrentOK, Working, Saving, AtMostOneRun
<1>10. CASE StatementFails
  <2>1. /\ UNCHANGED <<delivered, batch, runs>>
        /\ phase' \in {"threw", "acking"}
        /\ todo' \subseteq todo
        /\ phase = "reading" => Len(batch) > 0
        /\ phase' = "threw" => Working
        /\ phase = "reading" => \A k \in 1..Len(runs) : runs[k].msg # Base + 1
    BY <1>0, <1>10 DEF StatementFails, group, Working, Saving, RunsOK
  <2>2. Len(batch) > 0
    BY <1>0, <2>1 DEF BatchOK
  <2>3. BatchOK' /\ Base' = Base
    BY <1>0, <2>1, <2>2 DEF BatchOK, Base
  <2>4. RunsOK'
    BY <1>0, <2>1, <2>3 DEF RunsOK
  <2>5. CurrentOK'
    BY <1>0, <2>1 DEF CurrentOK, Working, Saving
  <2>. QED BY <1>0, <2>1, <2>3, <2>4, <2>5 DEF AtMostOneRun
<1>. QED BY <1>2, <1>3, <1>4, <1>5, <1>6, <1>7, <1>8, <1>9, <1>10 DEF Next, Work

-----------------------------------------------------------------------------
(* What faults leave behind *)

\* A crash or a failed statement leaves one run stuck at most, other steps none.
LEMMA StuckStep ==
  ASSUME IInv, TypeOK', Next
  PROVE  StuckRunsHaveACause'
<1>0. /\ TypeOK /\ CurrentOK /\ crashes \in Nat /\ errors \in Nat
      /\ runs \in Seq(Run) /\ Len(runs) \in Nat /\ DOMAIN runs = 1..Len(runs)
      /\ IsFiniteSet(Stuck) /\ Cardinality(Stuck) \in Nat
      /\ Cardinality(Stuck) <= crashes + errors
  <2>1. TypeOK /\ CurrentOK /\ Cardinality(Stuck) <= crashes + errors
    BY DEF IInv, StuckRunsHaveACause
  <2>2. /\ crashes \in Nat /\ errors \in Nat
        /\ runs \in Seq(Run) /\ Len(runs) \in Nat /\ DOMAIN runs = 1..Len(runs)
    BY <2>1, BoundsAssumption DEF TypeOK
  <2>. QED BY <2>1, <2>2, Finite
<1>1. ASSUME Stuck' \subseteq Stuck, crashes' = crashes, errors' = errors
      PROVE  StuckRunsHaveACause'
  <2>1. Cardinality(Stuck') <= Cardinality(Stuck) /\ Cardinality(Stuck') \in Nat
    BY <1>0, <1>1, Smaller
  <2>2. Cardinality(Stuck') <= crashes' + errors'
    BY <1>0, <1>1, <2>1
  <2>. QED BY <2>2 DEF StuckRunsHaveACause
<1>2. ASSUME Stuck' \subseteq Stuck \cup {Current}, crashes' + errors' = crashes + errors + 1
      PROVE  StuckRunsHaveACause'
  <2>1. Cardinality(Stuck') <= Cardinality(Stuck) + 1 /\ Cardinality(Stuck') \in Nat
    BY <1>0, <1>2, OneMore
  <2>. QED BY <1>0, <1>2, <2>1 DEF StuckRunsHaveACause
<1>3. ASSUME UNCHANGED <<runs, crashes, errors>>, Working => Working'
      PROVE  StuckRunsHaveACause'
  <2>1. Stuck' \subseteq Stuck
    BY <1>3 DEF Stuck, Current
  <2>. QED BY <1>0, <1>1, <1>3, <2>1
<1>4. CASE (\E q \in Requests : Publish(q) \/ Arrive(q)) \/ Start
  BY <1>3, <1>4 DEF Publish, Arrive, Start, worker, rows, faults, Working
<1>5. CASE Crash
  <2>1. runs' = runs /\ crashes' = crashes + 1 /\ errors' = errors
    BY <1>5 DEF Crash, rows
  <2>2. Stuck' \subseteq Stuck \cup {Current}
    BY <2>1 DEF Stuck, Current
  <2>. QED BY <1>0, <1>2, <2>1, <2>2
<1>6. CASE ReadGroup \/ Match \/ Ack
  BY <1>3, <1>6 DEF ReadGroup, Match, Ack, rows, faults, Working, Saving
<1>7. CASE Execute
  BY <1>3, <1>7 DEF Execute, rows, faults, Working, Saving
<1>8. CASE InsertRun
  <2>1. PICK d \in todo :
          runs' = Append(runs, [msg |-> Head(batch), def |-> d, status |-> "running"])
    BY <1>8 DEF InsertRun
  <2>2. /\ Len(runs') = Len(runs) + 1 /\ DOMAIN runs' = 1..(Len(runs) + 1)
        /\ \A k \in 1..Len(runs) : runs'[k] = runs[k]
    BY <1>0, <2>1
  <2>3. phase = "matching" /\ Working' /\ ~Working /\ UNCHANGED <<crashes, errors>>
    BY <1>8 DEF InsertRun, faults, Working, Saving
  <2>4. Stuck' \subseteq Stuck
    BY <1>0, <2>2, <2>3 DEF Stuck, Current
  <2>. QED BY <1>0, <1>1, <2>3, <2>4
<1>9. CASE SaveResult \/ MarkFailed
  <2>1. PICK s \in {"completed", "waiting_approval", "failed"} :
          runs' = [runs EXCEPT ![Current].status = s]
    BY <1>9 DEF SaveResult, MarkFailed, SetStatus, Saving
  <2>2. Working /\ ~Working' /\ UNCHANGED <<crashes, errors>>
    BY <1>9 DEF SaveResult, MarkFailed, faults, Working, Saving
  <2>3. Len(runs) > 0 /\ Current \in 1..Len(runs) /\ runs[Current] \in Run
    BY <1>0, <2>2 DEF CurrentOK, Current
  <2>4. DOMAIN runs' = 1..Len(runs) /\ runs'[Current].status = s
    BY <1>0, <2>1, <2>3 DEF Run
  <2>5. \A k \in 1..Len(runs) : k # Current => runs'[k] = runs[k]
    BY <1>0, <2>1
  <2>6. Stuck' \subseteq Stuck
    BY <1>0, <2>2, <2>4, <2>5 DEF Stuck
  <2>. QED BY <1>0, <1>1, <2>2, <2>6
<1>10. CASE StatementFails
  <2>1. runs' = runs /\ crashes' = crashes /\ errors' = errors + 1
    BY <1>10 DEF StatementFails
  <2>2. Stuck' \subseteq Stuck \cup {Current}
    BY <2>1 DEF Stuck, Current
  <2>. QED BY <1>0, <1>2, <2>1, <2>2
<1>. QED BY <1>4, <1>5, <1>6, <1>7, <1>8, <1>9, <1>10 DEF Next, Work

\* A crash strands no more than a batch, other steps nothing.
LEMMA StrandedStep ==
  ASSUME IInv, TypeOK', Next
  PROVE  StrandedByCrash'
<1>0. /\ TypeOK /\ BatchOK /\ crashes \in Nat /\ delivered \in Nat /\ Count \in Nat
      /\ batch \in Seq(Message) /\ Len(batch) \in Nat /\ pending \subseteq 1..delivered
      /\ IsFiniteSet(Stranded) /\ Cardinality(Stranded) \in Nat
      /\ Cardinality(Stranded) <= Count * crashes
  <2>1. TypeOK /\ BatchOK /\ Cardinality(Stranded) <= Count * crashes
    BY DEF IInv, StrandedByCrash
  <2>2. crashes \in Nat /\ delivered \in Nat /\ pending \subseteq 1..delivered
    BY <2>1, BoundsAssumption DEF TypeOK
  <2>3. batch \in Seq(Message) /\ Len(batch) \in Nat
    BY <2>1 DEF TypeOK
  <2>4. Count \in Nat
    BY CountAssumption
  <2>. QED BY <2>1, <2>2, <2>3, <2>4, Finite
<1>1. ASSUME Stranded' \subseteq Stranded, crashes' = crashes
      PROVE  StrandedByCrash'
  <2>1. Cardinality(Stranded') <= Cardinality(Stranded) /\ Cardinality(Stranded') \in Nat
    BY <1>0, <1>1, Smaller
  <2>2. Count * crashes \in Nat
    BY <1>0
  <2>. QED BY <1>0, <1>1, <2>1, <2>2 DEF StrandedByCrash
<1>2. CASE UNCHANGED <<pending, batch, crashes>>
  BY <1>1, <1>2 DEF Stranded, Range
<1>3. CASE \/ \E q \in Requests : Publish(q) \/ Arrive(q)
           \/ Start \/ Match \/ InsertRun \/ Execute \/ SaveResult \/ MarkFailed \/ StatementFails
  BY <1>2, <1>3 DEF Publish, Arrive, Start, Match, InsertRun, Execute, SaveResult, MarkFailed,
     StatementFails, group, worker, faults
<1>4. CASE Crash
  <2>1. pending' = pending /\ crashes' = crashes + 1
    BY <1>4 DEF Crash, group
  <2>. DEFINE T == (delivered - Len(batch) + 1)..delivered
  <2>2. IsFiniteSet(T) /\ Cardinality(T) = Len(batch)
    <3>1. delivered - Len(batch) + 1 \in Int /\ delivered \in Int
      BY <1>0
    <3>2. /\ IsFiniteSet(T)
          /\ Cardinality(T) = IF delivered - Len(batch) + 1 > delivered THEN 0
                              ELSE delivered - (delivered - Len(batch) + 1) + 1
      BY <3>1, FS_Interval
    <3>. QED BY <1>0, <3>2
  <2>3. Range(batch) \subseteq T
    <3>. SUFFICES ASSUME NEW i \in 1..Len(batch)
         PROVE  batch[i] \in T
      BY <1>0, RangeOf
    <3>1. batch[i] = delivered - Len(batch) + i
      BY <1>0 DEF BatchOK, Base
    <3>. QED BY <1>0, <3>1
  <2>4. Stranded' \subseteq Stranded \cup T
    BY <2>1, <2>3 DEF Stranded
  <2>. HIDE DEF T
  <2>5. /\ IsFiniteSet(Stranded \cup T)
        /\ Cardinality(Stranded \cup T) <= Cardinality(Stranded) + Len(batch)
        /\ Cardinality(Stranded \cup T) \in Nat
    <3>1. /\ IsFiniteSet(Stranded \cup T)
          /\ Cardinality(Stranded \cup T)
               = Cardinality(Stranded) + Cardinality(T) - Cardinality(Stranded \cap T)
      BY <1>0, <2>2, FS_Union
    <3>2. Cardinality(Stranded \cap T) \in Nat /\ Cardinality(Stranded \cup T) \in Nat
      BY <1>0, <3>1, Smaller
    <3>. QED BY <1>0, <2>2, <3>1, <3>2
  <2>6. Cardinality(Stranded') <= Cardinality(Stranded \cup T) /\ Cardinality(Stranded') \in Nat
    BY <2>4, <2>5, Smaller
  <2>7. Len(batch) <= Count
    BY <1>0 DEF BatchOK
  <2>8. Count * (crashes + 1) = Count * crashes + Count /\ Count * crashes \in Nat
    BY <1>0
  <2>. QED BY <1>0, <2>1, <2>5, <2>6, <2>7, <2>8 DEF StrandedByCrash
<1>5. CASE ReadGroup
  <2>1. /\ Taken \in Nat /\ batch' = Batch /\ pending' = pending \cup Handed /\ crashes' = crashes
        /\ batch = <<>>
    BY <1>0, <1>5 DEF ReadGroup, Taken, Unread, faults, TypeOK
  <2>2. ASSUME NEW m \in Handed
        PROVE  m \in Range(batch')
    <3>1. m - delivered \in 1..Taken /\ delivered + (m - delivered) = m
      BY <1>0, <2>1, <2>2 DEF Handed
    <3>2. batch'[m - delivered] = m /\ DOMAIN batch' = 1..Taken
      BY <2>1, <3>1 DEF Batch
    <3>. QED BY <3>1, <3>2 DEF Range
  <2>3. Range(batch) = {}
    BY <2>1 DEF Range
  <2>4. Stranded' \subseteq Stranded
    BY <2>1, <2>2, <2>3 DEF Stranded
  <2>. QED BY <1>1, <2>1, <2>4
<1>6. CASE Ack
  <2>1. /\ pending' = pending \ {Head(batch)} /\ batch' = Tail(batch) /\ crashes' = crashes
        /\ Len(batch) > 0
    BY <1>0, <1>6 DEF Ack, Acked, faults, BatchOK
  <2>2. ASSUME NEW x \in Range(batch), x # Head(batch)
        PROVE  x \in Range(batch')
    <3>1. PICK i \in 1..Len(batch) : x = batch[i]
      BY <1>0, <2>2, RangeOf
    <3>2. i # 1 /\ i - 1 \in 1..(Len(batch) - 1)
      BY <1>0, <2>1, <2>2, <3>1
    <3>3. DOMAIN batch' = 1..(Len(batch) - 1) /\ batch'[i - 1] = batch[i]
      BY <1>0, <2>1, <3>2
    <3>. QED BY <3>1, <3>2, <3>3 DEF Range
  <2>3. Stranded' \subseteq Stranded
    BY <2>1, <2>2 DEF Stranded
  <2>. QED BY <1>1, <2>1, <2>3
<1>. QED BY <1>3, <1>4, <1>5, <1>6 DEF Next, Work

-----------------------------------------------------------------------------
(* The invariant, and what follows from it *)

\* Nothing has happened yet.
LEMMA InitEstablishes == Init => IInv
<1>. SUFFICES ASSUME Init
     PROVE  IInv
  OBVIOUS
<1>1. TypeOK
  <2>1. /\ stream \in Seq(Requests \cup {FollowUp}) /\ Len(stream) = 0
        /\ batch \in Seq(Message) /\ runs \in Seq(Run)
    BY DEF Init
  <2>2. /\ Len(stream) <= MaxMessages /\ delivered \in 0..Len(stream)
        /\ crashes \in 0..MaxCrashes /\ errors \in 0..MaxErrors
    BY <2>1, BoundsAssumption DEF Init
  <2>3. pending \subseteq 1..delivered /\ asked \subseteq Requests /\ late \subseteq asked
    BY DEF Init
  <2>. QED BY <2>1, <2>2, <2>3 DEF Init, TypeOK, Phases
<1>2. BatchOK /\ RunsOK /\ CurrentOK /\ AtMostOneRun
  BY CountAssumption DEF Init, BatchOK, RunsOK, CurrentOK, Working, Saving, AtMostOneRun
<1>3. Stuck = {} /\ Stranded = {}
  BY DEF Init, Stuck, Stranded
<1>4. Cardinality({}) = 0
  BY FS_EmptySet
<1>5. StuckRunsHaveACause /\ StrandedByCrash
  BY <1>3, <1>4, CountAssumption DEF Init, StuckRunsHaveACause, StrandedByCrash
<1>. QED BY <1>1, <1>2, <1>5 DEF IInv

\* Every step keeps the invariant.
LEMMA StepKeeps == IInv /\ [Next]_vars => IInv'
<1>1. ASSUME IInv, Next
      PROVE  IInv'
  BY <1>1, TypeStep, OrderStep, StuckStep, StrandedStep DEF IInv
<1>2. ASSUME IInv, UNCHANGED vars
      PROVE  IInv'
  <2>1. TypeOK'
    BY <1>2 DEF IInv, TypeOK, vars
  <2>2. UNCHANGED <<group, worker, rows, faults>>
    BY <1>2 DEF vars, group, worker, rows, faults
  <2>. QED BY <1>2, <2>1, <2>2, BusOnly
<1>. QED BY <1>1, <1>2

\* The invariant holds of every behaviour, fair or not.
THEOREM AlwaysIInv == Spec => []IInv
BY InitEstablishes, StepKeeps, PTL DEF Spec

\* Every variable keeps its type; what is pending was handed out.
THEOREM TypeCorrect == Spec => []TypeOK
<1>1. IInv => TypeOK
  BY DEF IInv
<1>. QED BY <1>1, AlwaysIInv, PTL

\* However often the worker or its connection dies, and wherever, no event
\* starts the same definition a second time.
THEOREM StartedAtMostOnce == Spec => []AtMostOneRun
<1>1. IInv => AtMostOneRun
  BY DEF IInv
<1>. QED BY <1>1, AlwaysIInv, PTL

\* No more runs stay "running" for good than there were crashes and errors.
THEOREM StuckRunsAreCounted == Spec => []StuckRunsHaveACause
<1>1. IInv => StuckRunsHaveACause
  BY DEF IInv
<1>. QED BY <1>1, AlwaysIInv, PTL

\* No more entries are stranded than a batch per crash.
THEOREM StrandedAreCounted == Spec => []StrandedByCrash
<1>1. IInv => StrandedByCrash
  BY DEF IInv
<1>. QED BY <1>1, AlwaysIInv, PTL
=============================================================================
