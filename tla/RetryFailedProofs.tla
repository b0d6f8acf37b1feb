------------------------- MODULE RetryFailedProofs --------------------------
(***************************************************************************)
(* Proofs about RetryFailed, for any number of processes, rows, events,    *)
(* incidents and balances, any batch size, and processes that end between  *)
(* any two statements.                                                     *)
(***************************************************************************)
EXTENDS RetryFailed, FiniteSetTheorems, TLAPS

-----------------------------------------------------------------------------
(* The invariant behind the types *)

Statements == {"idle", "before", "fetch", "retry", "record", "close", "save",
               "drain", "load", "send", "mark", "after", "leftover", "announce"}

\* What the code relies on of its locals: a row at hand where it is written,
\* a balance where one is saved, an incident where its event is added, an
\* existing event where one is delivered.
Locals(p) ==
    /\ pc[p] \in {"record", "close", "save"} => job[p].item \in Items
    /\ pc[p] = "save" => job[p].balance > 0
    /\ pc[p] = "announce" => job[p].item \in Incidents /\ job[p].balance = Outage
    /\ pc[p] \in {"load", "send", "mark"} => job[p].event \in 1 .. nEvents
    /\ job[p].drain \subseteq 1 .. nEvents

\* The processes that are about to add an event have room for it.
Reserved == nEvents + Cardinality(Announcing \cup Saving) <= NEvents

IInv == TypeOK /\ Reserved /\ \A p \in Procs : Locals(p)

-----------------------------------------------------------------------------
(* Operators *)

(* The LIMIT query returns rows of the table.                              *)
LEMMA LowestSubset ==
    ASSUME NEW S, NEW n
    PROVE  Lowest(S, n) \subseteq S
  BY DEF Lowest

(* The number of open rows is one that before can hold.                    *)
LEMMA OpenCount == Cardinality(Open) \in 0 .. NItems
  <1>1. IsFiniteSet(Items) /\ Cardinality(Items) = NItems
    BY FS_Interval, SizesAssumption DEF Items
  <1>2. Open \in SUBSET Items
    BY DEF Open
  <1>3. Cardinality(Open) \in Nat /\ Cardinality(Open) <= NItems
    BY <1>1, <1>2, FS_Subset, FS_CardinalityType
  <1> QED
    BY <1>3, SizesAssumption

(* The empty locals have their types.                                      *)
LEMMA NoJobType == NoJob \in Jobs
  BY SizesAssumption DEF NoJob, Jobs, Subjects

(* The processes about to add an event are finitely many.                  *)
LEMMA FiniteAdders == IsFiniteSet(Announcing \cup Saving)
  <1>1. (Announcing \cup Saving) \in SUBSET Procs
    BY DEF Announcing, Saving
  <1> QED
    BY <1>1, FS_Subset, ProcsAssumption

(* The room that is reserved stays so if nobody new is about to add.       *)
LEMMA ReserveLess ==
    ASSUME TypeOK, Reserved, nEvents' = nEvents,
           (Announcing \cup Saving)' \subseteq Announcing \cup Saving
    PROVE  Reserved'
  <1> DEFINE S == Announcing \cup Saving
  <1>1. IsFiniteSet(S) /\ S' \subseteq S
    BY FiniteAdders
  <1>2. Cardinality(S') <= Cardinality(S) /\ Cardinality(S') \in Nat /\ Cardinality(S) \in Nat
    BY <1>1, FS_Subset, FS_CardinalityType
  <1> QED
    BY <1>2, SizesAssumption DEF Reserved, TypeOK

(* Where RoomForEvent holds one more process may reserve.                  *)
LEMMA ReserveMore ==
    ASSUME TypeOK, RoomForEvent, nEvents' = nEvents, NEW p,
           (Announcing \cup Saving)' \subseteq (Announcing \cup Saving) \cup {p}
    PROVE  Reserved'
  <1> DEFINE S == Announcing \cup Saving
  <1>1. IsFiniteSet(S) /\ S' \subseteq S \cup {p}
    BY FiniteAdders
  <1>2. IsFiniteSet(S \cup {p}) /\ Cardinality(S \cup {p}) <= Cardinality(S) + 1
    <2>1. Cardinality(S) \in Nat
      BY <1>1, FS_CardinalityType
    <2>2. /\ IsFiniteSet(S \cup {p})
          /\ Cardinality(S \cup {p}) = IF p \in S THEN Cardinality(S) ELSE Cardinality(S) + 1
      BY <1>1, FS_AddElement
    <2> HIDE DEF S
    <2> QED
      BY <2>1, <2>2
  <1>3. /\ Cardinality(S') <= Cardinality(S \cup {p})
        /\ Cardinality(S') \in Nat /\ Cardinality(S) \in Nat /\ Cardinality(S \cup {p}) \in Nat
    BY <1>1, <1>2, FS_Subset, FS_CardinalityType
  <1> QED
    BY <1>2, <1>3, SizesAssumption DEF Reserved, RoomForEvent, TypeOK

(* A process that had reserved adds its event.                             *)
LEMMA ReserveUse ==
    ASSUME TypeOK, Reserved, NEW p \in Announcing \cup Saving,
           nEvents' = nEvents \/ nEvents' = nEvents + 1,
           (Announcing \cup Saving)' \subseteq (Announcing \cup Saving) \ {p}
    PROVE  Reserved' /\ nEvents + 1 \in Events
  <1> DEFINE S == Announcing \cup Saving
  <1>1. IsFiniteSet(S) /\ S' \subseteq S \ {p} /\ p \in S
    BY FiniteAdders
  <1>2. IsFiniteSet(S \ {p}) /\ Cardinality(S \ {p}) = Cardinality(S) - 1
    BY <1>1, FS_RemoveElement
  <1>3. /\ Cardinality(S') <= Cardinality(S \ {p})
        /\ Cardinality(S') \in Nat /\ Cardinality(S) \in Nat /\ Cardinality(S \ {p}) \in Nat
    BY <1>1, <1>2, FS_Subset, FS_CardinalityType
  <1> QED
    BY <1>2, <1>3, SizesAssumption DEF Reserved, TypeOK, Events

-----------------------------------------------------------------------------
(* The types are preserved *)

(* A step that leaves the tables alone and changes only the locals of p    *)
(* preserves the types, if the new locals are as the code relies on.       *)
LEMMA LocalStep ==
    ASSUME IInv, NEW p \in Procs, UNCHANGED <<tables, reopened, told, owed>>,
           lost' \subseteq Subjects \X (Balances \cup {0}),
           NEW s \in Statements, NEW j \in Jobs,
           pc' = [pc EXCEPT ![p] = s], job' = [job EXCEPT ![p] = j],
           s \in {"record", "close", "save"} => j.item \in Items,
           s = "save" => j.balance > 0,
           s \in {"load", "send", "mark"} => j.event \in 1 .. nEvents,
           j.drain \subseteq 1 .. nEvents,
           s \in {"close", "save"} /\ j.balance > 0 => RoomForEvent \/ p \in Saving,
           s # "announce"
    PROVE  IInv'
  <1>1. TypeOK'
    BY DEF IInv, TypeOK, tables, Statements
  <1>2. Reserved'
    <2>1. (Announcing \cup Saving)' \subseteq (Announcing \cup Saving) \cup {p}
      BY DEF Announcing, Saving, IInv, TypeOK
    <2>2. CASE RoomForEvent
      BY <2>1, <2>2, ReserveMore DEF IInv, tables
    <2>3. CASE ~RoomForEvent
      <3>1. (Announcing \cup Saving)' \subseteq Announcing \cup Saving
        BY <2>3 DEF Announcing, Saving, IInv, TypeOK
      <3> QED
        BY <3>1, ReserveLess DEF IInv, tables
    <2> QED
      BY <2>2, <2>3
  <1>3. ASSUME NEW q \in Procs PROVE Locals(q)'
    <2>1. CASE q = p
      BY <2>1 DEF IInv, TypeOK, Locals, tables
    <2>2. CASE q # p
      BY <2>2 DEF IInv, TypeOK, Locals, tables
    <2> QED
      BY <2>1, <2>2
  <1> QED
    BY <1>1, <1>2, <1>3 DEF IInv

(* The locals after a delivery.                                            *)
LEMMA DeliveredJob ==
    ASSUME job \in [Procs -> Jobs], NEW p \in Procs, Delivered(p)
    PROVE  \E j \in Jobs :
             /\ job' = [job EXCEPT ![p] = j]
             /\ j.drain = job[p].drain /\ j.item = job[p].item /\ j.balance = job[p].balance
  <1> DEFINE back == IF job[p].back = "idle" THEN "retry" ELSE job[p].back
             j == [job[p] EXCEPT !.event = 0, !.ok = FALSE, !.back = back]
  <1>1. job' = [job EXCEPT ![p] = j]
    BY DEF Delivered
  <1>2. back \in {"retry", "drain", "idle"}
    BY DEF Jobs
  <1>3. 0 \in 0 .. NEvents
    BY SizesAssumption
  <1> HIDE DEF back
  <1>4. /\ j \in Jobs
        /\ j.drain = job[p].drain /\ j.item = job[p].item /\ j.balance = job[p].balance
    BY <1>2, <1>3 DEF Jobs
  <1> HIDE DEF j
  <1> QED
    BY <1>1, <1>4

(* The steps of the command and of a scan that leave the tables alone.     *)
LEMMA LocalSteps ==
    ASSUME IInv, NEW p \in Procs,
           \/ Start(p) \/ ReadBefore(p) \/ ReadAfter(p) \/ Leftover(p) \/ NextRetries(p)
           \/ QuerySucceeds(p) \/ QueryFails(p) \/ SaveConflict(p) \/ PendingNotificationIDs(p)
           \/ ReadFails(p) \/ Drain(p) \/ LoadNotification(p) \/ LoadFails(p) \/ MarkFails(p)
           \/ Crash(p)
    PROVE  IInv'
  <1> USE DEF Goto, Return, Statements, history
  <1>0. /\ job[p] \in Jobs /\ job = [job EXCEPT ![p] = job[p]] /\ Locals(p) /\ job \in [Procs -> Jobs]
        /\ lost \subseteq Subjects \X (Balances \cup {0})
    BY DEF IInv, TypeOK
  <1>1. NoJob \in Jobs /\ NoJob.drain = {}
    BY NoJobType DEF NoJob
  <1>2. CASE Start(p)
    BY <1>0, <1>2, LocalStep DEF Start, Locals
  <1>3. CASE ReadBefore(p) /\ Open = {}
    BY <1>0, <1>1, <1>3, LocalStep DEF ReadBefore
  <1>4. CASE ReadBefore(p) /\ Open # {}
    <2> DEFINE j == [job[p] EXCEPT !.before = Cardinality(Open)]
    <2>1. j \in Jobs /\ j.drain = job[p].drain
      BY <1>0, OpenCount DEF Jobs
    <2>2. job' = [job EXCEPT ![p] = j] /\ pc' = [pc EXCEPT ![p] = "fetch"]
      BY <1>4 DEF ReadBefore
    <2> HIDE DEF j
    <2> QED
      BY <1>0, <1>4, <2>1, <2>2, LocalStep DEF ReadBefore, Locals
  <1>5. CASE ReadAfter(p)
    BY <1>0, <1>1, <1>5, LocalStep DEF ReadAfter
  <1>6. CASE Leftover(p)
    BY <1>0, <1>1, <1>6, LocalStep DEF Leftover
  <1>7. CASE NextRetries(p)
    <2> DEFINE j == [job[p] EXCEPT !.todo = Lowest(Ready, BatchSize)]
    <2>1. j \in Jobs /\ j.drain = job[p].drain
      BY <1>0, LowestSubset DEF Jobs, Ready
    <2>2. job' = [job EXCEPT ![p] = j] /\ pc' = [pc EXCEPT ![p] = "retry"]
      BY <1>7 DEF NextRetries
    <2> HIDE DEF j
    <2> QED
      BY <1>0, <1>7, <2>1, <2>2, LocalStep DEF NextRetries, Locals
  <1>8. CASE QuerySucceeds(p)
    <2>1. PICK i \in job[p].todo, b \in Balances \cup {0} :
            /\ b > 0 => RoomForEvent
            /\ job' = [job EXCEPT ![p].todo = @ \ {i}, ![p].item = i, ![p].balance = b]
      BY <1>8 DEF QuerySucceeds
    <2> DEFINE j == [job[p] EXCEPT !.todo = @ \ {i}, !.item = i, !.balance = b]
    <2>2. j \in Jobs /\ j.drain = job[p].drain /\ j.item = i /\ i \in Items /\ j.balance = b
      <3>1. i \in Items /\ i \in Subjects
        BY <1>0, SizesAssumption DEF Jobs, Items, Subjects
      <3>2. job[p].todo \ {i} \in SUBSET Items
        BY <1>0 DEF Jobs
      <3> QED
        BY <1>0, <3>1, <3>2 DEF Jobs
    <2>3. job' = [job EXCEPT ![p] = j] /\ pc' = [pc EXCEPT ![p] = "close"]
      BY <1>0, <1>8, <2>1 DEF QuerySucceeds
    <2> HIDE DEF j
    <2> QED
      BY <1>0, <1>8, <2>1, <2>2, <2>3, LocalStep DEF QuerySucceeds, Locals
  <1>9. CASE QueryFails(p)
    <2>1. PICK i \in job[p].todo : job' = [job EXCEPT ![p].todo = @ \ {i}, ![p].item = i]
      BY <1>9 DEF QueryFails
    <2> DEFINE j == [job[p] EXCEPT !.todo = @ \ {i}, !.item = i]
    <2>2. j \in Jobs /\ j.drain = job[p].drain /\ j.item = i /\ i \in Items
      <3>1. i \in Items /\ i \in Subjects
        BY <1>0, SizesAssumption DEF Jobs, Items, Subjects
      <3>2. job[p].todo \ {i} \in SUBSET Items
        BY <1>0 DEF Jobs
      <3> QED
        BY <1>0, <3>1, <3>2 DEF Jobs
    <2>3. job' = [job EXCEPT ![p] = j] /\ pc' = [pc EXCEPT ![p] = "record"]
      BY <1>0, <1>9, <2>1 DEF QueryFails
    <2> HIDE DEF j
    <2> QED
      BY <1>0, <1>9, <2>2, <2>3, LocalStep DEF QueryFails, Locals
  <1>10. CASE SaveConflict(p) \/ Crash(p)
    <2>1. lost' \subseteq Subjects \X (Balances \cup {0})
      BY <1>0, <1>10 DEF SaveConflict, Crash, Abandon, Jobs
    <2> QED
      BY <1>1, <1>10, <2>1, LocalStep DEF SaveConflict, Crash
  <1>11. CASE PendingNotificationIDs(p)
    <2> DEFINE j == [job[p] EXCEPT !.drain = Lowest(Deliverable, BatchSize), !.back = "drain"]
    <2>1. Lowest(Deliverable, BatchSize) \subseteq 1 .. nEvents /\ 1 .. nEvents \subseteq Events
      BY LowestSubset, SizesAssumption DEF Deliverable, IInv, TypeOK, Events
    <2>2. j \in Jobs /\ j.drain \subseteq 1 .. nEvents
      BY <1>0, <2>1 DEF Jobs
    <2>3. job' = [job EXCEPT ![p] = j] /\ pc' = [pc EXCEPT ![p] = "drain"]
      BY <1>11 DEF PendingNotificationIDs
    <2> HIDE DEF j
    <2> QED
      BY <1>0, <1>11, <2>2, <2>3, LocalStep DEF PendingNotificationIDs
  <1>12. CASE ReadFails(p)
    BY <1>0, <1>12, LocalStep DEF ReadFails, Locals
  <1>13. CASE Drain(p) /\ job[p].drain # {}
    <2>1. PICK e \in job[p].drain : job' = [job EXCEPT ![p].drain = @ \ {e}, ![p].event = e]
      BY <1>13 DEF Drain
    <2> DEFINE j == [job[p] EXCEPT !.drain = @ \ {e}, !.event = e]
    <2>2. e \in 1 .. nEvents /\ e \in 0 .. NEvents
      BY <1>0, SizesAssumption DEF Locals, IInv, TypeOK, Jobs, Events
    <2>3. j \in Jobs /\ j.drain \subseteq job[p].drain /\ j.event = e
      BY <1>0, <2>2 DEF Jobs
    <2>4. job' = [job EXCEPT ![p] = j] /\ pc' = [pc EXCEPT ![p] = "load"]
      BY <1>0, <1>13, <2>1 DEF Drain
    <2> HIDE DEF j
    <2> QED
      BY <1>0, <1>13, <2>2, <2>3, <2>4, LocalStep DEF Drain, Locals
  <1>14. CASE Drain(p) /\ job[p].drain = {}
    BY <1>0, <1>14, LocalStep DEF Drain, Locals
  <1>15. CASE LoadNotification(p)
    <2> DEFINE i == events[job[p].event].item
               m == IF i \in Items THEN finding[i] ELSE Outage
               j == [job[p] EXCEPT !.message = m]
    <2>1. job[p].event \in Events
      BY <1>0, <1>15, SizesAssumption DEF LoadNotification, Locals, IInv, TypeOK, Events
    <2>2. m \in Balances \cup {0}
      BY <2>1 DEF IInv, TypeOK, Outage
    <2>3. job' = [job EXCEPT ![p] = [job[p] EXCEPT !.message = m]] /\ pc' = [pc EXCEPT ![p] = "send"]
      BY <1>15 DEF LoadNotification
    <2> HIDE DEF m
    <2>4. j \in Jobs /\ j.drain = job[p].drain /\ j.event = job[p].event
      BY <1>0, <2>2 DEF Jobs
    <2> QED
      BY <1>0, <1>15, <2>3, <2>4, LocalStep DEF LoadNotification, Locals
  <1>16. CASE LoadFails(p)
    <2> DEFINE j == [job[p] EXCEPT !.ok = FALSE]
    <2>1. j \in Jobs /\ j.drain = job[p].drain /\ j.event = job[p].event
      BY <1>0 DEF Jobs
    <2>2. job' = [job EXCEPT ![p] = j] /\ pc' = [pc EXCEPT ![p] = "mark"]
      BY <1>16 DEF LoadFails
    <2> HIDE DEF j
    <2> QED
      BY <1>0, <1>16, <2>1, <2>2, LocalStep DEF LoadFails, Locals
  <1>17. CASE MarkFails(p)
    <2>1. PICK j \in Jobs : job' = [job EXCEPT ![p] = j] /\ j.drain = job[p].drain
      BY <1>0, <1>17, DeliveredJob DEF MarkFails
    <2>2. pc' = [pc EXCEPT ![p] = job[p].back] /\ job[p].back \in {"retry", "drain", "idle"}
      BY <1>0, <1>17 DEF MarkFails, Delivered, Jobs
    <2> QED
      BY <1>0, <1>17, <2>1, <2>2, LocalStep DEF MarkFails, Locals
  <1> QED
    BY <1>2, <1>3, <1>4, <1>5, <1>6, <1>7, <1>8, <1>9, <1>10, <1>11, <1>12, <1>13, <1>14,
       <1>15, <1>16, <1>17

(* The locals after the loop body for a row.                               *)
LEMMA NextRowJob ==
    ASSUME job \in [Procs -> Jobs], NEW p \in Procs, NextRow(p)
    PROVE  \E j \in Jobs : job' = [job EXCEPT ![p] = j] /\ j.drain = job[p].drain
  <1> DEFINE j == [job[p] EXCEPT !.item = 0, !.balance = 0]
  <1>1. job' = [job EXCEPT ![p] = j]
    BY DEF NextRow
  <1>2. 0 \in Subjects
    BY SizesAssumption DEF Subjects
  <1>3. j \in Jobs /\ j.drain = job[p].drain
    BY <1>2 DEF Jobs
  <1> HIDE DEF j
  <1> QED
    BY <1>1, <1>3

(* The steps on retry_queue.                                               *)
LEMMA QueueSteps ==
    ASSUME IInv, NEW p \in Procs, RecordRetry(p) \/ CloseRetry(p)
    PROVE  IInv'
  <1> USE DEF Goto
  <1>0. job[p].item \in Items /\ Locals(p) /\ job[p] \in Jobs
    BY DEF IInv, TypeOK, RecordRetry, CloseRetry, Locals
  <1>1. \E s \in {"retry", "save"}, j \in Jobs :
           /\ pc' = [pc EXCEPT ![p] = s] /\ job' = [job EXCEPT ![p] = j]
           /\ j.drain = job[p].drain
           /\ s = "save" => pc[p] = "close" /\ j = job[p] /\ job[p].balance > 0
    <2>1. CASE RecordRetry(p) \/ (CloseRetry(p) /\ ~Positive(job[p].balance))
      <3>1. NextRow(p)
        BY <2>1 DEF RecordRetry, CloseRetry
      <3> QED
        BY <3>1, NextRowJob DEF NextRow, IInv, TypeOK
    <2>2. CASE CloseRetry(p) /\ Positive(job[p].balance)
      <3>1. job' = [job EXCEPT ![p] = job[p]]
        BY <2>2 DEF CloseRetry, IInv, TypeOK
      <3> QED
        BY <1>0, <2>2, <3>1 DEF CloseRetry, Positive
    <2> QED
      BY <2>1, <2>2
  <1>2. PICK s \in {"retry", "save"}, j \in Jobs :
           /\ pc' = [pc EXCEPT ![p] = s] /\ job' = [job EXCEPT ![p] = j]
           /\ j.drain = job[p].drain
           /\ s = "save" => pc[p] = "close" /\ j = job[p] /\ job[p].balance > 0
    BY <1>1
  <1>3. nEvents' = nEvents
    BY DEF RecordRetry, CloseRetry
  <1>4. TypeOK'
    <2>1. CASE RecordRetry(p)
      BY <1>0, <1>2, <2>1 DEF RecordRetry, IInv, TypeOK, history
    <2>2. CASE CloseRetry(p)
      <3>1. Missing(finding[job[p].item], job[p].balance) \in Balances \cup {0}
        BY <1>0 DEF Missing, Jobs
      <3>2. /\ owed' \in [Items -> Balances \cup {0}]
            /\ lost' \subseteq Subjects \X (Balances \cup {0})
        BY <1>0, <2>2, <3>1 DEF CloseRetry, IInv, TypeOK
      <3> QED
        BY <1>0, <1>2, <2>2, <3>2 DEF CloseRetry, IInv, TypeOK
    <2> QED
      BY <2>1, <2>2
  <1>5. Reserved'
    <2>1. (Announcing \cup Saving)' \subseteq Announcing \cup Saving
      BY <1>2 DEF Announcing, Saving, IInv, TypeOK
    <2> QED
      BY <1>3, <2>1, ReserveLess DEF IInv
  <1>6. ASSUME NEW q \in Procs PROVE Locals(q)'
    <2>1. CASE q = p
      BY <1>0, <1>2, <1>3, <2>1 DEF IInv, TypeOK, Locals
    <2>2. CASE q # p
      BY <1>2, <1>3, <2>2 DEF IInv, TypeOK, Locals
    <2> QED
      BY <2>1, <2>2
  <1> QED
    BY <1>4, <1>5, <1>6 DEF IInv

(* A finding is saved by a process that has room for the event.            *)
LEMMA SaveFindingType ==
    ASSUME TypeOK, NEW i \in Items, NEW b \in Balances, nEvents + 1 \in Events,
           SaveFinding(i, b)
    PROVE  /\ finding' \in [Items -> Balances \cup {0}]
           /\ owed' \in [Items -> Balances \cup {0}]
           /\ nEvents' \in 0 .. NEvents /\ (nEvents' = nEvents \/ nEvents' = nEvents + 1)
           /\ events' \in [Events -> [item : Subjects,
                              status : {"absent", "pending", "failed", "sent"}, due : BOOLEAN]]
  <1>1. i \in Subjects
    BY SizesAssumption DEF Items, Subjects
  <1>2. /\ finding' \in [Items -> Balances \cup {0}]
        /\ owed' \in [Items -> Balances \cup {0}]
    BY DEF SaveFinding, Missing, TypeOK
  <1>3. nEvents' \in 0 .. NEvents /\ (nEvents' = nEvents \/ nEvents' = nEvents + 1)
    BY SizesAssumption DEF SaveFinding, AddEvent, TypeOK, Events
  <1>4. CASE UNCHANGED events
    BY <1>2, <1>3, <1>4 DEF TypeOK
  <1>5. CASE AddEvent(i)
    BY <1>1, <1>2, <1>3, <1>5 DEF AddEvent, TypeOK
  <1> QED
    BY <1>4, <1>5 DEF SaveFinding

(* The steps that save a balance.                                          *)
LEMMA SavePositiveStep ==
    ASSUME IInv, NEW p \in Procs, SavePositiveFindings(p)
    PROVE  IInv'
  <1> USE DEF Goto
  <1> DEFINE i == job[p].item
             b == job[p].balance
  <1>1. i \in Items /\ b \in Balances /\ b > 0 /\ job[p] \in Jobs
    BY ValuesAssumption DEF IInv, SavePositiveFindings, Locals, TypeOK, Jobs
  <1>2. p \in Announcing \cup Saving
    BY <1>1 DEF SavePositiveFindings, Saving
  <1>3. nEvents' = nEvents \/ nEvents' = nEvents + 1
    BY DEF SavePositiveFindings, SaveFinding, AddEvent
  <1>4. \E s \in {"retry", "load"} : pc' = [pc EXCEPT ![p] = s]
    BY DEF SavePositiveFindings, NextRow
  <1>5. /\ \A q \in Procs \ {p} : job'[q] = job[q] /\ pc'[q] = pc[q]
        /\ job'[p].drain = job[p].drain
        /\ pc'[p] \in {"retry", "load"}
        /\ pc'[p] = "load" => job'[p].event = nEvents + 1 /\ nEvents' = nEvents + 1
    BY <1>1, <1>3 DEF SavePositiveFindings, NextRow, IInv, TypeOK, Jobs
  <1>6. (Announcing \cup Saving)' \subseteq (Announcing \cup Saving) \ {p}
    BY <1>5 DEF Announcing, Saving
  <1>7. Reserved' /\ nEvents + 1 \in Events
    BY <1>2, <1>3, <1>6, ReserveUse DEF IInv
  <1>8. /\ finding' \in [Items -> Balances \cup {0}] /\ owed' \in [Items -> Balances \cup {0}]
        /\ nEvents' \in 0 .. NEvents
        /\ events' \in [Events -> [item : Subjects,
                              status : {"absent", "pending", "failed", "sent"}, due : BOOLEAN]]
    BY <1>1, <1>7, SaveFindingType DEF SavePositiveFindings, IInv
  <1>9. job' \in [Procs -> Jobs]
    <2>1. nEvents + 1 \in 0 .. NEvents
      BY <1>7 DEF Events
    <2>2. 0 \in Subjects
      BY SizesAssumption DEF Subjects
    <2> DEFINE j == [job[p] EXCEPT !.item = 0, !.balance = 0, !.event = nEvents + 1]
    <2>3. j \in Jobs
      BY <1>1, <2>1, <2>2 DEF Jobs
    <2>4. NextRow(p) \/ job' = [job EXCEPT ![p] = j]
      BY DEF SavePositiveFindings
    <2> HIDE DEF j
    <2> QED
      BY <2>3, <2>4, NextRowJob DEF IInv, TypeOK
  <1>10. TypeOK'
    BY <1>4, <1>8, <1>9 DEF SavePositiveFindings, IInv, TypeOK
  <1>11. ASSUME NEW q \in Procs PROVE Locals(q)'
    BY <1>3, <1>5, SizesAssumption DEF IInv, TypeOK, Locals, Events
  <1> QED
    BY <1>7, <1>10, <1>11 DEF IInv

(* A scan that saves a finding keeps the invariant.                        *)
LEMMA ScanSavesStep ==
    ASSUME IInv, NEW p \in Procs, NEW i \in Items, NEW b \in Balances, ScanSaves(p, i, b)
    PROVE  IInv'
  <1> USE DEF Goto
  <1>1. job[p] \in Jobs /\ pc[p] = "idle"
    BY DEF IInv, TypeOK, ScanSaves
  <1>2. nEvents + 1 \in Events
    <2>1. Cardinality(Announcing \cup Saving) \in Nat
      BY FiniteAdders, FS_CardinalityType
    <2> QED
      BY <2>1, SizesAssumption DEF ScanSaves, RoomForEvent, IInv, TypeOK, Events
  <1>3. nEvents' = nEvents \/ nEvents' = nEvents + 1
    BY DEF ScanSaves, SaveFinding, AddEvent
  <1>4. \E s \in {"idle", "load"} : pc' = [pc EXCEPT ![p] = s]
    BY <1>1 DEF ScanSaves, IInv, TypeOK
  <1>5. /\ \A q \in Procs \ {p} : job'[q] = job[q] /\ pc'[q] = pc[q]
        /\ job'[p].drain = job[p].drain
        /\ pc'[p] \in {"idle", "load"}
        /\ pc'[p] = "load" => job'[p].event = nEvents + 1 /\ nEvents' = nEvents + 1
    BY <1>1, <1>3 DEF ScanSaves, IInv, TypeOK, Jobs
  <1>6. Reserved'
    <2> DEFINE S == Announcing \cup Saving
    <2>1. IsFiniteSet(S) /\ S' \subseteq S
      BY <1>5, FiniteAdders DEF Announcing, Saving
    <2>2. Cardinality(S') <= Cardinality(S) /\ Cardinality(S') \in Nat /\ Cardinality(S) \in Nat
      BY <2>1, FS_Subset, FS_CardinalityType
    <2> QED
      BY <1>3, <2>2, SizesAssumption DEF Reserved, ScanSaves, RoomForEvent, IInv, TypeOK
  <1>7. /\ finding' \in [Items -> Balances \cup {0}] /\ owed' \in [Items -> Balances \cup {0}]
        /\ nEvents' \in 0 .. NEvents
        /\ events' \in [Events -> [item : Subjects,
                              status : {"absent", "pending", "failed", "sent"}, due : BOOLEAN]]
    BY <1>2, SaveFindingType DEF ScanSaves, IInv
  <1>8. job' \in [Procs -> Jobs]
    <2> DEFINE j == [job[p] EXCEPT !.event = nEvents + 1, !.back = "idle"]
    <2>1. nEvents + 1 \in 0 .. NEvents
      BY <1>2 DEF Events
    <2>2. j \in Jobs
      BY <1>1, <2>1 DEF Jobs
    <2>3. job' = job \/ job' = [job EXCEPT ![p] = j]
      BY DEF ScanSaves, IInv, TypeOK
    <2> HIDE DEF j
    <2> QED
      BY <2>2, <2>3 DEF IInv, TypeOK
  <1>9. TypeOK'
    BY <1>4, <1>7, <1>8 DEF ScanSaves, IInv, TypeOK
  <1>10. ASSUME NEW q \in Procs PROVE Locals(q)'
    BY <1>3, <1>5, SizesAssumption DEF IInv, TypeOK, Locals, Events
  <1> QED
    BY <1>6, <1>9, <1>10 DEF IInv

(* The steps of a delivery that reach the webhook or the table.            *)
LEMMA DeliverySteps ==
    ASSUME IInv, NEW p \in Procs, SendSucceeds(p) \/ SendFails(p) \/ MarkNotification(p)
    PROVE  IInv'
  <1> USE DEF Goto
  <1>0. /\ Locals(p) /\ job \in [Procs -> Jobs] /\ job[p] \in Jobs
        /\ job[p].event \in Events /\ events[job[p].event].item \in Subjects
    BY SizesAssumption DEF IInv, TypeOK, Locals, SendSucceeds, SendFails, MarkNotification,
                           Events
  <1>1. CASE SendSucceeds(p) \/ SendFails(p)
    <2>1. PICK o \in BOOLEAN :
            job' = [job EXCEPT ![p] = [job[p] EXCEPT !.message = 0, !.ok = o]]
      BY <1>1 DEF SendSucceeds, SendFails
    <2> DEFINE j == [job[p] EXCEPT !.message = 0, !.ok = o]
    <2>2. /\ j \in Jobs /\ j.drain = job[p].drain /\ j.event = job[p].event
          /\ job' = [job EXCEPT ![p] = j] /\ pc' = [pc EXCEPT ![p] = "mark"]
      BY <1>0, <1>1, <2>1 DEF Jobs, SendSucceeds, SendFails
    <2> HIDE DEF j
    <2>3. told' \in [Subjects -> SUBSET (Balances \cup {Outage})]
      <3>1. job[p].message \in Balances \cup {Outage}
        BY <1>0 DEF Jobs, Outage
      <3>2. told' = told \/ Taken(p)
        BY <1>1 DEF SendSucceeds, SendFails
      <3> QED
        BY <1>0, <3>1, <3>2 DEF Taken, IInv, TypeOK
    <2>4. TypeOK'
      BY <1>1, <2>2, <2>3 DEF SendSucceeds, SendFails, IInv, TypeOK, tables
    <2>5. Reserved'
      <3>1. (Announcing \cup Saving)' \subseteq Announcing \cup Saving
        BY <2>2 DEF Announcing, Saving, IInv, TypeOK
      <3> QED
        BY <1>1, <3>1, ReserveLess DEF IInv, SendSucceeds, SendFails, tables
    <2>6. ASSUME NEW q \in Procs PROVE Locals(q)'
      <3>1. nEvents' = nEvents /\ pc[p] = "send"
        BY <1>1 DEF SendSucceeds, SendFails, tables
      <3> QED
        BY <1>0, <2>2, <3>1 DEF IInv, TypeOK, Locals
    <2> QED
      BY <2>4, <2>5, <2>6 DEF IInv
  <1>2. CASE MarkNotification(p)
    <2>1. PICK j \in Jobs : job' = [job EXCEPT ![p] = j] /\ j.drain = job[p].drain
      BY <1>0, <1>2, DeliveredJob DEF MarkNotification
    <2>2. /\ pc' = [pc EXCEPT ![p] = job[p].back]
          /\ job[p].back \in {"retry", "drain", "idle"} /\ job[p].ok \in BOOLEAN
      BY <1>0, <1>2 DEF MarkNotification, Delivered, Jobs
    <2>3. events' \in [Events -> [item : Subjects,
                              status : {"absent", "pending", "failed", "sent"}, due : BOOLEAN]]
      <3>1. DeliveryStatus(p) \in {"failed", "sent"}
        BY DEF DeliveryStatus
      <3> HIDE DEF DeliveryStatus
      <3> QED
        BY <1>0, <1>2, <2>2, <3>1 DEF MarkNotification, IInv, TypeOK
    <2>4. TypeOK'
      BY <1>2, <2>1, <2>2, <2>3 DEF MarkNotification, IInv, TypeOK, history
    <2>5. Reserved'
      <3>1. (Announcing \cup Saving)' \subseteq Announcing \cup Saving
        BY <2>1, <2>2 DEF Announcing, Saving, IInv, TypeOK
      <3> QED
        BY <1>2, <3>1, ReserveLess DEF IInv, MarkNotification
    <2>6. ASSUME NEW q \in Procs PROVE Locals(q)'
      <3>1. nEvents' = nEvents
        BY <1>2 DEF MarkNotification
      <3> QED
        BY <1>0, <2>1, <2>2, <3>1 DEF IInv, TypeOK, Locals
    <2> QED
      BY <2>4, <2>5, <2>6 DEF IInv
  <1> QED
    BY <1>1, <1>2

(* An incident and, in a second statement, its event.                      *)
LEMMA IncidentSteps ==
    ASSUME IInv, NEW p \in Procs, CreateNodeIncident(p) \/ CreateNodeNotificationEvent(p)
    PROVE  IInv'
  <1> USE DEF Goto
  <1>0. Locals(p) /\ job \in [Procs -> Jobs] /\ job[p] \in Jobs
    BY DEF IInv, TypeOK
  <1>1. CASE CreateNodeIncident(p)
    <2> DEFINE n == NItems + incidents + 1
               j == [job[p] EXCEPT !.item = n, !.balance = Outage]
    <2>1. n \in Incidents /\ n \in Subjects
      BY <1>1, SizesAssumption DEF CreateNodeIncident, IInv, TypeOK, Incidents, Subjects
    <2> HIDE DEF n
    <2>2. j \in Jobs /\ j.drain = job[p].drain /\ j.item = n /\ j.balance = Outage
      BY <1>0, <2>1 DEF Jobs, Outage
    <2>3. /\ job' = [job EXCEPT ![p] = j] /\ pc' = [pc EXCEPT ![p] = "announce"]
          /\ nEvents' = nEvents
      BY <1>1 DEF CreateNodeIncident, n
    <2> HIDE DEF j
    <2>4. TypeOK'
      <3>1. incidents' \in 0 .. NIncidents
        BY <1>1, SizesAssumption DEF CreateNodeIncident, IInv, TypeOK
      <3>2. UNCHANGED <<queue, finding, nEvents, events, reopened, told, owed, lost>>
        BY <1>1 DEF CreateNodeIncident, history
      <3> QED
        BY <2>2, <2>3, <3>1, <3>2 DEF IInv, TypeOK
    <2>5. (Announcing \cup Saving)' \subseteq (Announcing \cup Saving) \cup {p}
      BY <2>3 DEF Announcing, Saving, IInv, TypeOK
    <2>6. Reserved'
      BY <1>1, <2>5, ReserveMore DEF CreateNodeIncident, IInv
    <2>7. ASSUME NEW q \in Procs PROVE Locals(q)'
      <3>1. CASE q = p
        BY <1>0, <2>1, <2>2, <2>3, <3>1 DEF IInv, TypeOK, Locals
      <3>2. CASE q # p
        BY <2>3, <3>2 DEF IInv, TypeOK, Locals
      <3> QED
        BY <3>1, <3>2
    <2> QED
      BY <2>4, <2>6, <2>7 DEF IInv
  <1>2. CASE CreateNodeNotificationEvent(p)
    <2>1. p \in Announcing \cup Saving
      BY <1>2 DEF CreateNodeNotificationEvent, Announcing
    <2>2. (Announcing \cup Saving)' \subseteq (Announcing \cup Saving) \ {p}
      BY <1>2 DEF CreateNodeNotificationEvent, Announcing, Saving, IInv, TypeOK
    <2>3. Reserved' /\ nEvents + 1 \in Events /\ nEvents' = nEvents + 1
      BY <1>2, <2>1, <2>2, ReserveUse DEF CreateNodeNotificationEvent, AddEvent, IInv
    <2> DEFINE j == [job[p] EXCEPT !.item = 0, !.event = nEvents + 1, !.back = "idle"]
    <2>4. /\ j \in Jobs /\ j.drain = job[p].drain /\ j.event = nEvents + 1
          /\ job' = [job EXCEPT ![p] = j] /\ pc' = [pc EXCEPT ![p] = "load"]
      <3>1. nEvents + 1 \in 0 .. NEvents /\ 0 \in Subjects
        BY <2>3, SizesAssumption DEF Events, Subjects
      <3>2. j \in Jobs /\ j.drain = job[p].drain /\ j.event = nEvents + 1
        BY <1>0, <3>1 DEF Jobs
      <3>3. job' = [job EXCEPT ![p] = j] /\ pc' = [pc EXCEPT ![p] = "load"]
        BY <1>0, <1>2 DEF CreateNodeNotificationEvent
      <3> QED
        BY <3>2, <3>3
    <2> HIDE DEF j
    <2>5. /\ nEvents' \in 0 .. NEvents
          /\ events' \in [Events -> [item : Subjects,
                              status : {"absent", "pending", "failed", "sent"}, due : BOOLEAN]]
      <3>1. job[p].item \in Subjects /\ nEvents + 1 \in 0 .. NEvents
        BY <1>0, <2>3, SizesAssumption DEF Events, Jobs
      <3> QED
        BY <1>2, <2>3, <3>1 DEF CreateNodeNotificationEvent, AddEvent, IInv, TypeOK
    <2>6. TypeOK'
      <3>1. UNCHANGED <<queue, finding, incidents, reopened, told, owed, lost>>
        BY <1>2 DEF CreateNodeNotificationEvent, history
      <3> QED
        BY <2>4, <2>5, <3>1 DEF IInv, TypeOK
    <2>7. ASSUME NEW q \in Procs PROVE Locals(q)'
      BY <1>0, <2>3, <2>4, SizesAssumption DEF IInv, TypeOK, Locals, Events
    <2> QED
      BY <2>3, <2>6, <2>7 DEF IInv
  <1> QED
    BY <1>1, <1>2

(* Time, and a scan that adds a failure.                                   *)
LEMMA OtherSteps ==
    ASSUME IInv,
           \/ \E i \in Items : RetryDue(i) \/ ScanRecordsRetry(i)
           \/ \E e \in Events : EventDue(e)
    PROVE  IInv'
  <1>1. nEvents' = nEvents /\ UNCHANGED <<pc, job>>
    BY DEF RetryDue, ScanRecordsRetry, EventDue
  <1>2. CASE \E i \in Items : RetryDue(i) \/ ScanRecordsRetry(i)
    BY <1>1, <1>2, SizesAssumption
    DEF RetryDue, ScanRecordsRetry, IInv, TypeOK, history, Reserved, Announcing, Saving, Locals
  <1>3. CASE \E e \in Events : EventDue(e)
    <2>1. TypeOK'
      <3>1. PICK e \in Events : EventDue(e)
        BY <1>3
      <3>2. events' = [events EXCEPT ![e] = [events[e] EXCEPT !.due = TRUE]]
        BY <3>1 DEF EventDue
      <3>3. [events[e] EXCEPT !.due = TRUE] \in [item : Subjects,
               status : {"absent", "pending", "failed", "sent"}, due : BOOLEAN]
        BY DEF IInv, TypeOK
      <3> QED
        BY <3>1, <3>2, <3>3 DEF EventDue, IInv, TypeOK, history
    <2> QED
      BY <1>1, <2>1 DEF IInv, Reserved, Announcing, Saving, Locals
  <1> QED
    BY <1>2, <1>3

(* The invariant holds of the initial tables.                              *)
LEMMA IInvInit == Init => IInv
  <1> SUFFICES ASSUME Init PROVE IInv
    OBVIOUS
  <1>1. TypeOK
    BY SizesAssumption, NoJobType DEF Init, TypeOK, NoEvent, Subjects
  <1>2. Announcing \cup Saving = {}
    BY DEF Init, Announcing, Saving
  <1>3. Reserved
    BY <1>2, FS_EmptySet, SizesAssumption DEF Init, Reserved
  <1>4. \A p \in Procs : Locals(p)
    BY DEF Init, Locals, NoJob
  <1> QED
    BY <1>1, <1>3, <1>4 DEF IInv

(* Every statement of every process keeps the invariant.                   *)
LEMMA IInvNext == IInv /\ [Next]_vars => IInv'
  <1> SUFFICES ASSUME IInv, [Next]_vars PROVE IInv'
    OBVIOUS
  <1>1. CASE UNCHANGED vars
    BY <1>1 DEF vars, tables, history, IInv, TypeOK, Reserved, Announcing, Saving, Locals
  <1>2. ASSUME NEW p \in Procs, Start(p) \/ Step(p) \/ Crash(p) \/ CreateNodeIncident(p)
        PROVE  IInv'
    BY <1>2, LocalSteps, QueueSteps, SavePositiveStep, DeliverySteps, IncidentSteps DEF Step
  <1>3. ASSUME NEW p \in Procs, NEW i \in Items, NEW b \in Balances, ScanSaves(p, i, b)
        PROVE  IInv'
    BY <1>3, ScanSavesStep
  <1> QED
    BY <1>1, <1>2, <1>3, OtherSteps DEF Next

(* The invariant holds in every reachable state.                           *)
LEMMA Invariant == Spec => []IInv
  BY IInvInit, IInvNext, PTL DEF Spec

(* Rows and locals hold values of their types, whatever processes run and  *)
(* wherever they crash: TypeOK.                                            *)
THEOREM TypesHold == Spec => []TypeOK
  <1>1. IInv => TypeOK
    BY DEF IInv
  <1> QED
    BY <1>1, Invariant, PTL

-----------------------------------------------------------------------------
(* The invariants behind the properties *)

Latest(i, e) == e \in EventsOf(i) /\ \A f \in EventsOf(i) : f <= e

\* The latest event of an item speaks for its balance: it exists once there is
\* a balance; whoever sends it sends that balance, and it is marked sent only
\* when that balance has reached the webhook.
LatestSpeaks ==
    \A i \in Items :
        /\ finding[i] # 0 => \E e \in 1 .. nEvents : Latest(i, e)
        /\ \A e \in 1 .. nEvents : Latest(i, e) =>
              /\ events[e].status = "sent" => finding[i] \in told[i]
              /\ \A p \in Procs :
                    /\ pc[p] = "send" /\ job[p].event = e => job[p].message = finding[i]
                    /\ pc[p] = "mark" /\ job[p].ok /\ job[p].event = e => finding[i] \in told[i]

\* Rows not yet inserted are not sent; neither is the event at hand, nor the
\* others that are still to be delivered.
NotSentYet(p) ==
    /\ \A e \in Events : e > nEvents => events[e].status = "absent"
    /\ \A e \in job[p].drain : events[e].status # "sent"
    /\ pc[p] \in {"load", "send", "mark"} =>
          events[job[p].event].status # "sent" /\ job[p].event \notin job[p].drain

-----------------------------------------------------------------------------
(* What steps do to deliveries *)

\* The content of the tables that events are about does not change, nobody gets
\* a message, and who is about to send or to mark an event was so before or
\* has just read the balance.
Quiet ==
    /\ UNCHANGED <<finding, nEvents, told>>
    /\ \A e \in 1 .. nEvents :
          events'[e].item = events[e].item /\ events'[e].status = events[e].status
    /\ \A q \in Procs :
          /\ pc'[q] = "send" => \/ pc[q] = "send" /\ job'[q] = job[q]
                                \/ LET i == events[job'[q].event].item
                                   IN  job'[q].message = IF i \in Items THEN finding[i] ELSE Outage
          /\ pc'[q] = "mark" /\ job'[q].ok => pc[q] = "mark" /\ job'[q] = job[q]

\* An event is added; who adds it is about to load it.
Adds(i) ==
    /\ AddEvent(i) /\ UNCHANGED told
    /\ \A q \in Procs : pc'[q] \in {"send", "mark"} => pc'[q] = pc[q] /\ job'[q] = job[q]

Sends(p) ==
    /\ UNCHANGED <<finding, nEvents, events>>
    /\ pc[p] = "send" /\ pc'[p] = "mark" /\ job'[p].event = job[p].event
    /\ \/ Taken(p)
       \/ UNCHANGED told /\ ~job'[p].ok
    /\ \A q \in Procs \ {p} : pc'[q] = pc[q] /\ job'[q] = job[q]

Marks(p) ==
    /\ UNCHANGED <<finding, nEvents, told>> /\ pc[p] = "mark" /\ pc'[p] \notin {"send", "mark"}
    /\ events' = [events EXCEPT ![job[p].event].status = DeliveryStatus(p),
                                ![job[p].event].due = job[p].ok]
    /\ \A q \in Procs \ {p} : pc'[q] = pc[q] /\ job'[q] = job[q]

(* The statements that touch neither findings, events nor messages.        *)
LEMMA QuietSteps ==
    ASSUME IInv, NEW p \in Procs,
           \/ Start(p) \/ ReadBefore(p) \/ ReadAfter(p) \/ Leftover(p) \/ NextRetries(p)
           \/ QuerySucceeds(p) \/ QueryFails(p) \/ RecordRetry(p) \/ CloseRetry(p)
           \/ SaveConflict(p) \/ PendingNotificationIDs(p)
           \/ ReadFails(p) \/ Drain(p) \/ LoadNotification(p) \/ LoadFails(p) \/ MarkFails(p)
           \/ Crash(p) \/ CreateNodeIncident(p)
    PROVE  Quiet
  <1> USE DEF Goto, Return, NextRow
  <1>0. /\ pc \in [Procs -> Statements] /\ job \in [Procs -> Jobs]
        /\ job[p].back \in {"retry", "drain", "idle"}
    BY DEF IInv, TypeOK, Statements, Jobs
  <1>1. UNCHANGED <<finding, nEvents, events, told>>
    BY DEF Start, ReadBefore, ReadAfter, Leftover, NextRetries, QuerySucceeds, QueryFails,
           RecordRetry, CloseRetry, SaveConflict, PendingNotificationIDs, ReadFails, Drain,
           LoadNotification, LoadFails, MarkFails, Crash, CreateNodeIncident, tables, history
  <1>2. \A q \in Procs \ {p} : pc'[q] = pc[q] /\ job'[q] = job[q]
    BY <1>0
    DEF Start, ReadBefore, ReadAfter, Leftover, NextRetries, QuerySucceeds, QueryFails,
        RecordRetry, CloseRetry, SaveConflict, PendingNotificationIDs, ReadFails, Drain,
        LoadNotification, LoadFails, MarkFails, Delivered, Crash, CreateNodeIncident
  <1>3. CASE LoadNotification(p)
    <2>1. pc'[p] = "send" /\ job'[p].event = job[p].event
      BY <1>0, <1>3 DEF LoadNotification, Jobs
    <2>2. LET i == events[job[p].event].item
          IN  job'[p].message = IF i \in Items THEN finding[i] ELSE Outage
      BY <1>0, <1>3 DEF LoadNotification, Jobs
    <2> QED
      BY <1>1, <1>2, <2>1, <2>2 DEF Quiet
  <1>4. CASE LoadFails(p)
    <2>1. pc'[p] = "mark" /\ ~job'[p].ok
      BY <1>0, <1>4 DEF LoadFails, Jobs
    <2> QED
      BY <1>1, <1>2, <2>1 DEF Quiet
  <1>5. CASE ~LoadNotification(p) /\ ~LoadFails(p)
    <2>1. pc'[p] \notin {"send", "mark"} 
      BY <1>0, <1>5
      DEF Start, ReadBefore, ReadAfter, Leftover, NextRetries, QuerySucceeds, QueryFails,
          RecordRetry, CloseRetry, SaveConflict, PendingNotificationIDs, ReadFails, Drain,
          MarkFails, Delivered, Crash, CreateNodeIncident
    <2> QED
      BY <1>1, <1>2, <2>1 DEF Quiet
  <1> QED
    BY <1>3, <1>4, <1>5

(* Every step is quiet, or saves a balance, announces an outage, sends or  *)
(* marks an event.                                                         *)
LEMMA Effects ==
    ASSUME IInv, [Next]_vars
    PROVE  \/ Quiet
           \/ \E i \in Items, b \in Balances :
                 /\ Adds(i) /\ finding' = [finding EXCEPT ![i] = b]
           \/ \E p \in Procs :
                 CreateNodeNotificationEvent(p) /\ Adds(job[p].item) /\ UNCHANGED finding
           \/ \E p \in Procs : Sends(p) \/ Marks(p)
  <1> USE DEF Goto, NextRow
  <1>0. pc \in [Procs -> Statements] /\ job \in [Procs -> Jobs]
    BY DEF IInv, TypeOK, Statements
  <1>1. CASE UNCHANGED vars
    BY <1>1 DEF vars, tables, history, Quiet
  <1>2. ASSUME NEW p \in Procs, Start(p) \/ Step(p) \/ Crash(p) \/ CreateNodeIncident(p)
        PROVE  \/ Quiet
               \/ SavePositiveFindings(p) \/ SendSucceeds(p) \/ SendFails(p)
               \/ MarkNotification(p) \/ CreateNodeNotificationEvent(p)
    BY <1>2, QuietSteps DEF Step
  <1>3. ASSUME NEW p \in Procs, SendSucceeds(p) \/ SendFails(p) PROVE Sends(p)
    <2>1. PICK o \in BOOLEAN : /\ job' = [job EXCEPT ![p].message = 0, ![p].ok = o]
                               /\ o => Taken(p)
      BY <1>3 DEF SendSucceeds, SendFails
    <2>2. /\ job'[p].event = job[p].event /\ job'[p].ok = o
          /\ \A q \in Procs \ {p} : job'[q] = job[q]
      BY <1>0, <2>1 DEF Jobs
    <2> QED
      BY <1>0, <1>3, <2>1, <2>2 DEF SendSucceeds, SendFails, Sends, tables
  <1>4. ASSUME NEW p \in Procs, MarkNotification(p) PROVE Marks(p)
    <2>1. job[p].back \in {"retry", "drain", "idle"}
      BY <1>0 DEF Jobs
    <2>2. \A q \in Procs \ {p} : pc'[q] = pc[q] /\ job'[q] = job[q]
      BY <1>0, <1>4 DEF MarkNotification, Delivered
    <2> QED
      BY <1>0, <1>4, <2>1, <2>2 DEF MarkNotification, Delivered, Marks, history
  <1>5. ASSUME NEW p \in Procs, CreateNodeNotificationEvent(p)
        PROVE  Adds(job[p].item) /\ UNCHANGED finding
    BY <1>0, <1>5 DEF CreateNodeNotificationEvent, Adds, history
  <1>6. ASSUME NEW p \in Procs, NEW i \in Items, NEW b \in Balances, SaveFinding(i, b), told' = told,
               pc'[p] \notin {"send", "mark"},
               \A q \in Procs \ {p} : pc'[q] = pc[q] /\ job'[q] = job[q]
        PROVE  Quiet \/ (Adds(i) /\ finding' = [finding EXCEPT ![i] = b])
    <2>1. CASE Changed(finding[i], b)
      BY <1>6, <2>1 DEF SaveFinding, Adds
    <2>2. CASE ~Changed(finding[i], b)
      <3>1. finding' = finding
        BY <1>6, <2>2 DEF SaveFinding, Changed, IInv, TypeOK
      <3> QED
        BY <1>6, <2>2, <3>1 DEF SaveFinding, Quiet
    <2> QED
      BY <2>1, <2>2
  <1>7. ASSUME NEW p \in Procs, SavePositiveFindings(p)
        PROVE  Quiet \/ \E i \in Items, b \in Balances : Adds(i) /\ finding' = [finding EXCEPT ![i] = b]
    <2>1. job[p].item \in Items /\ job[p].balance \in Balances
      BY <1>7, ValuesAssumption DEF IInv, SavePositiveFindings, Locals, TypeOK, Jobs
    <2>2. /\ SaveFinding(job[p].item, job[p].balance) /\ told' = told
          /\ pc'[p] \notin {"send", "mark"}
          /\ \A q \in Procs \ {p} : pc'[q] = pc[q] /\ job'[q] = job[q]
      BY <1>0, <1>7 DEF SavePositiveFindings, history
    <2> QED
      BY <1>6, <2>1, <2>2
  <1>8. ASSUME NEW p \in Procs, NEW i \in Items, NEW b \in Balances, ScanSaves(p, i, b)
        PROVE  Quiet \/ (Adds(i) /\ finding' = [finding EXCEPT ![i] = b])
    <2>1. /\ SaveFinding(i, b) /\ told' = told /\ pc'[p] \notin {"send", "mark"}
          /\ \A q \in Procs \ {p} : pc'[q] = pc[q] /\ job'[q] = job[q]
      BY <1>0, <1>8 DEF ScanSaves, history
    <2> QED
      BY <1>6, <2>1
  <1>9. ASSUME NEW i \in Items, RetryDue(i) \/ ScanRecordsRetry(i) PROVE Quiet
    BY <1>9 DEF RetryDue, ScanRecordsRetry, Quiet, history
  <1>10. ASSUME NEW e \in Events, EventDue(e) PROVE Quiet
    <2>1. \A f \in Events : events'[f].item = events[f].item /\ events'[f].status = events[f].status
      BY <1>10 DEF EventDue, IInv, TypeOK
    <2>2. 1 .. nEvents \subseteq Events
      BY SizesAssumption DEF Events, IInv, TypeOK
    <2> QED
      BY <1>10, <2>1, <2>2 DEF EventDue, Quiet, history
  <1> QED
    BY <1>1, <1>2, <1>3, <1>4, <1>5, <1>7, <1>8, <1>9, <1>10 DEF Next

-----------------------------------------------------------------------------
(* The latest balance is announced *)

(* The rows of an item after an event is added.                            *)
LEMMA AddedEvents ==
    ASSUME IInv, NEW i, AddEvent(i), nEvents' \in 0 .. NEvents, NEW k
    PROVE  /\ EventsOf(k)' = IF k = i THEN EventsOf(k) \cup {nEvents + 1} ELSE EventsOf(k)
           /\ nEvents' = nEvents + 1 /\ nEvents + 1 \in Events
           /\ events'[nEvents + 1].status = "pending" /\ events'[nEvents + 1].item = i
           /\ \A e \in 1 .. nEvents : events'[e] = events[e]
  <1>1. nEvents' = nEvents + 1 /\ nEvents \in Nat /\ nEvents + 1 \in Events /\ 1 .. nEvents \subseteq Events
    BY SizesAssumption DEF AddEvent, IInv, TypeOK, Events
  <1>2. /\ events'[nEvents + 1].status = "pending" /\ events'[nEvents + 1].item = i
        /\ \A e \in 1 .. nEvents : events'[e] = events[e]
    BY <1>1 DEF AddEvent, IInv, TypeOK
  <1>3. (1 .. nEvents)' = (1 .. nEvents) \cup {nEvents + 1}
    BY <1>1
  <1> QED
    BY <1>1, <1>2, <1>3 DEF EventsOf

(* A step that leaves findings and events alone keeps LatestSpeaks.        *)
LEMMA LatestSpeaksQuiet ==
    ASSUME IInv, LatestSpeaks, Quiet
    PROVE  LatestSpeaks'
  <1>1. \A i : EventsOf(i)' = EventsOf(i)
    BY DEF Quiet, EventsOf
  <1>2. \A i, e : Latest(i, e)' = Latest(i, e)
    BY <1>1 DEF Latest
  <1> SUFFICES ASSUME NEW i \in Items
               PROVE  /\ finding'[i] # 0 => \E e \in 1 .. nEvents' : Latest(i, e)'
                      /\ \A e \in 1 .. nEvents' : Latest(i, e)' =>
                           /\ events'[e].status = "sent" => finding'[i] \in told'[i]
                           /\ \A p \in Procs :
                                /\ pc'[p] = "send" /\ job'[p].event = e => job'[p].message = finding'[i]
                                /\ pc'[p] = "mark" /\ job'[p].ok /\ job'[p].event = e =>
                                     finding'[i] \in told'[i]
    BY DEF LatestSpeaks
  <1>3. UNCHANGED <<finding, nEvents, told>>
    BY DEF Quiet
  <1>4. finding'[i] # 0 => \E e \in 1 .. nEvents' : Latest(i, e)'
    BY <1>2, <1>3 DEF LatestSpeaks
  <1>5. ASSUME NEW e \in 1 .. nEvents, Latest(i, e), NEW p \in Procs
        PROVE  /\ events'[e].status = "sent" => finding[i] \in told[i]
               /\ pc'[p] = "send" /\ job'[p].event = e => job'[p].message = finding[i]
               /\ pc'[p] = "mark" /\ job'[p].ok /\ job'[p].event = e => finding[i] \in told[i]
    <2>1. events[e].item = i
      BY <1>5 DEF Latest, EventsOf
    <2> QED
      BY <1>5, <2>1 DEF Quiet, LatestSpeaks
  <1>6. ASSUME NEW e \in 1 .. nEvents, Latest(i, e)
        PROVE  events'[e].status = "sent" => finding[i] \in told[i]
    BY <1>6 DEF Quiet, LatestSpeaks
  <1> QED
    BY <1>2, <1>3, <1>4, <1>5, <1>6

(* A new event keeps LatestSpeaks: it is not marked sent yet.              *)
LEMMA LatestSpeaksAdds ==
    ASSUME IInv, IInv', LatestSpeaks, NEW k \in Subjects, Adds(k),
           \A i \in Items : i # k => finding'[i] = finding[i]
    PROVE  LatestSpeaks'
  <1>0. nEvents' \in 0 .. NEvents /\ nEvents \in Nat
    BY SizesAssumption DEF IInv, TypeOK
  <1>1. /\ nEvents' = nEvents + 1
        /\ events'[nEvents + 1].status = "pending"
        /\ \A e \in 1 .. nEvents : events'[e] = events[e]
    BY <1>0, AddedEvents DEF Adds
  <1>2. \A i : EventsOf(i)' = IF i = k THEN EventsOf(i) \cup {nEvents + 1} ELSE EventsOf(i)
    BY <1>0, AddedEvents DEF Adds
  <1>3. \A i : EventsOf(i) \subseteq 1 .. nEvents
    BY DEF EventsOf
  <1>4. \A q \in Procs : pc'[q] \in {"send", "mark"} =>
          pc'[q] = pc[q] /\ job'[q] = job[q] /\ job[q].event \in 1 .. nEvents
    BY DEF Adds, IInv, Locals
  <1>5. told' = told
    BY DEF Adds
  <1> SUFFICES ASSUME NEW i \in Items
               PROVE  /\ finding'[i] # 0 => \E e \in 1 .. nEvents' : Latest(i, e)'
                      /\ \A e \in 1 .. nEvents' : Latest(i, e)' =>
                           /\ events'[e].status = "sent" => finding'[i] \in told'[i]
                           /\ \A p \in Procs :
                                /\ pc'[p] = "send" /\ job'[p].event = e => job'[p].message = finding'[i]
                                /\ pc'[p] = "mark" /\ job'[p].ok /\ job'[p].event = e =>
                                     finding'[i] \in told'[i]
    BY DEF LatestSpeaks
  <1>6. CASE i = k
    <2>1. Latest(i, nEvents)' /\ nEvents' \in 1 .. nEvents'
      BY <1>0, <1>1, <1>2, <1>3, <1>6 DEF Latest
    <2>2. ASSUME NEW e \in 1 .. nEvents', Latest(i, e)' PROVE e = nEvents + 1
      BY <1>0, <1>1, <1>2, <1>3, <1>6, <2>2 DEF Latest
    <2>3. \A q \in Procs : pc'[q] \in {"send", "mark"} => job'[q].event # nEvents + 1
      BY <1>0, <1>4
    <2> QED
      BY <1>1, <2>1, <2>2, <2>3
  <1>7. CASE i # k
    <2>1. finding'[i] = finding[i] /\ EventsOf(i)' = EventsOf(i)
      BY <1>2, <1>7
    <2>2. \A e : Latest(i, e)' = Latest(i, e)
      BY <2>1 DEF Latest
    <2>3. \A e : Latest(i, e) => e \in 1 .. nEvents
      BY <1>3 DEF Latest
    <2>4. 1 .. nEvents \subseteq 1 .. nEvents'
      BY <1>0, <1>1
    <2>5. finding'[i] # 0 => \E e \in 1 .. nEvents' : Latest(i, e)'
      BY <2>1, <2>2, <2>4 DEF LatestSpeaks
    <2>6. ASSUME NEW e \in 1 .. nEvents, Latest(i, e)
          PROVE  /\ events'[e].status = "sent" => finding[i] \in told[i]
                 /\ \A p \in Procs :
                      /\ pc'[p] = "send" /\ job'[p].event = e => job'[p].message = finding[i]
                      /\ pc'[p] = "mark" /\ job'[p].ok /\ job'[p].event = e => finding[i] \in told[i]
      BY <1>1, <1>4, <2>6 DEF LatestSpeaks
    <2> QED
      BY <1>5, <2>1, <2>2, <2>3, <2>5, <2>6
  <1> QED
    BY <1>6, <1>7

(* A message that reaches the webhook keeps LatestSpeaks.                  *)
LEMMA LatestSpeaksSends ==
    ASSUME IInv, LatestSpeaks, NEW p \in Procs, Sends(p)
    PROVE  LatestSpeaks'
  <1>0. UNCHANGED <<finding, nEvents, events>>
    BY DEF Sends
  <1>1. \A i, e : Latest(i, e)' = Latest(i, e)
    BY <1>0 DEF Latest, EventsOf
  <1>2. job[p].event \in Events /\ events[job[p].event].item \in Subjects
    BY SizesAssumption DEF IInv, TypeOK, Locals, Sends, Events
  <1>3. \A i \in Items : told[i] \subseteq told'[i]
    <2>1. Items \subseteq Subjects
      BY SizesAssumption DEF Items, Subjects
    <2> QED
      BY <1>2, <2>1 DEF Sends, Taken, IInv, TypeOK
  <1>4. job'[p].ok => job[p].message \in told'[events[job[p].event].item]
    BY <1>2 DEF Sends, Taken, IInv, TypeOK
  <1>5. ASSUME NEW i \in Items, NEW e \in 1 .. nEvents, Latest(i, e)
        PROVE  /\ events[e].status = "sent" => finding[i] \in told'[i]
               /\ \A q \in Procs :
                    /\ pc'[q] = "send" /\ job'[q].event = e => job'[q].message = finding[i]
                    /\ pc'[q] = "mark" /\ job'[q].ok /\ job'[q].event = e => finding[i] \in told'[i]
    <2>0. events[e].item = i
      BY <1>5 DEF Latest, EventsOf
    <2>1. events[e].status = "sent" => finding[i] \in told'[i]
      BY <1>3, <1>5 DEF LatestSpeaks
    <2>2. ASSUME NEW q \in Procs, q # p
          PROVE  /\ pc'[q] = "send" /\ job'[q].event = e => job'[q].message = finding[i]
                 /\ pc'[q] = "mark" /\ job'[q].ok /\ job'[q].event = e => finding[i] \in told'[i]
      BY <1>3, <1>5, <2>2 DEF LatestSpeaks, Sends
    <2>3. job'[p].ok /\ job'[p].event = e => finding[i] \in told'[i]
      <3>1. pc[p] = "send" /\ job'[p].event = job[p].event
        BY DEF Sends
      <3>2. job[p].event = e => job[p].message = finding[i]
        BY <1>5, <3>1 DEF LatestSpeaks
      <3> QED
        BY <1>4, <2>0, <3>1, <3>2
    <2>4. pc'[p] = "mark"
      BY DEF Sends
    <2> QED
      BY <2>1, <2>2, <2>3, <2>4
  <1> QED
    BY <1>0, <1>1, <1>5 DEF LatestSpeaks

(* Marking the event whose message was sent keeps LatestSpeaks.            *)
LEMMA LatestSpeaksMarks ==
    ASSUME IInv, LatestSpeaks, NEW p \in Procs, Marks(p)
    PROVE  LatestSpeaks'
  <1>0. UNCHANGED <<finding, nEvents, told>> /\ job[p].event \in 1 .. nEvents /\ 1 .. nEvents \subseteq Events
    BY SizesAssumption DEF Marks, IInv, TypeOK, Locals, Events
  <1>1. \A e \in Events :
          /\ events'[e].item = events[e].item
          /\ events'[e].status = IF e = job[p].event THEN DeliveryStatus(p) ELSE events[e].status
    BY <1>0 DEF Marks, IInv, TypeOK
  <1>2. \A i, e : Latest(i, e)' = Latest(i, e)
    <2>1. \A i : EventsOf(i)' = EventsOf(i)
      BY <1>0, <1>1 DEF EventsOf
    <2> QED
      BY <2>1 DEF Latest
  <1>3. ASSUME NEW i \in Items, NEW e \in 1 .. nEvents, Latest(i, e)
        PROVE  /\ events'[e].status = "sent" => finding[i] \in told[i]
               /\ \A q \in Procs :
                    /\ pc'[q] = "send" /\ job'[q].event = e => job'[q].message = finding[i]
                    /\ pc'[q] = "mark" /\ job'[q].ok /\ job'[q].event = e => finding[i] \in told[i]
    <2>1. events'[e].status = "sent" => finding[i] \in told[i]
      BY <1>0, <1>1, <1>3 DEF LatestSpeaks, DeliveryStatus, Marks
    <2> QED
      BY <1>3, <2>1 DEF LatestSpeaks, Marks
  <1> QED
    BY <1>0, <1>2, <1>3 DEF LatestSpeaks

(* Once every event of an address is marked sent, a message with its       *)
(* present balance has reached the webhook (NotifiedOfLatest), for any     *)
(* number of commands and scans that deliver the same events, and with     *)
(* crashes between any two statements.                                     *)
THEOREM LatestIsAnnounced == Spec => []NotifiedOfLatest
  <1>1. Init => LatestSpeaks
    BY DEF Init, LatestSpeaks
  <1>2. LatestSpeaks /\ IInv /\ IInv' /\ [Next]_vars => LatestSpeaks'
    <2> SUFFICES ASSUME LatestSpeaks, IInv, IInv', [Next]_vars PROVE LatestSpeaks'
      OBVIOUS
    <2>1. ASSUME NEW i \in Items, NEW b \in Balances, Adds(i), finding' = [finding EXCEPT ![i] = b]
          PROVE  LatestSpeaks'
      <3>1. \A k \in Items : k # i => finding'[k] = finding[k]
        BY <2>1 DEF IInv, TypeOK
      <3> QED
        BY <2>1, <3>1, LatestSpeaksAdds, SizesAssumption DEF Items, Subjects
    <2>2. ASSUME NEW p \in Procs, CreateNodeNotificationEvent(p), Adds(job[p].item), UNCHANGED finding
          PROVE  LatestSpeaks'
      <3>1. job[p].item \in Subjects
        BY DEF IInv, TypeOK, Jobs
      <3> QED
        BY <2>2, <3>1, LatestSpeaksAdds
    <2> QED
      BY <2>1, <2>2, Effects, LatestSpeaksQuiet, LatestSpeaksSends, LatestSpeaksMarks
  <1>3. LatestSpeaks => NotifiedOfLatest
    <2> SUFFICES ASSUME LatestSpeaks, NEW i \in Items, finding[i] # 0,
                        \A e \in EventsOf(i) : events[e].status = "sent"
                 PROVE  finding[i] \in told[i]
      BY DEF NotifiedOfLatest
    <2>1. PICK e \in 1 .. nEvents : Latest(i, e)
      BY DEF LatestSpeaks
    <2> QED
      BY <2>1 DEF LatestSpeaks, Latest
  <1> QED
    BY <1>1, <1>2, <1>3, Invariant, PTL DEF Spec

-----------------------------------------------------------------------------
(* Outages are reported *)

\* Whoever delivers the event of an incident sends a message about it, and the
\* event is marked sent only when that message has reached the webhook.
OutagesTold ==
    \A n \in Incidents :
        /\ \A e \in EventsOf(n) : events[e].status = "sent" => Outage \in told[n]
        /\ \A p \in Procs : events[job[p].event].item = n =>
              /\ pc[p] = "send" => job[p].message = Outage
              /\ pc[p] = "mark" /\ job[p].ok => Outage \in told[n]

Recorded == NItems + 1 .. NItems + incidents

\* An incident is on record before anything else is about it; at most one
\* process is about to add its event, and then it has none yet; it is lost
\* exactly if it has no event and no process will add one.
OutagesKnown ==
    /\ \A n \in Incidents : EventsOf(n) # {} \/ <<n, Outage>> \in lost => n \in Recorded
    /\ \A p \in Announcing, n \in Incidents :
          job[p].item = n => n \in Recorded /\ EventsOf(n) = {}
    /\ \A p, q \in Announcing : job[p].item = job[q].item => p = q
    /\ \A n \in Recorded :
          <<n, Outage>> \in lost <=> EventsOf(n) = {} /\ \A p \in Announcing : job[p].item # n

(* Items and incidents are numbered apart.                                 *)
LEMMA Apart == \A n \in Incidents : n \notin Items /\ n \in Subjects
  BY SizesAssumption DEF Incidents, Items, Subjects

(* Every process and crash included, a mark "sent" on the event of an      *)
(* incident comes after a message about that incident.                     *)
LEMMA OutagesToldHolds == Spec => []OutagesTold
  <1>1. Init => OutagesTold
    BY SizesAssumption DEF Init, OutagesTold, EventsOf
  <1>2. OutagesTold /\ IInv /\ IInv' /\ [Next]_vars => OutagesTold'
    <2> SUFFICES ASSUME OutagesTold, IInv, IInv', [Next]_vars, NEW n \in Incidents
                 PROVE  /\ \A e \in EventsOf(n)' : events'[e].status = "sent" => Outage \in told'[n]
                        /\ \A p \in Procs : events'[job'[p].event].item = n =>
                              /\ pc'[p] = "send" => job'[p].message = Outage
                              /\ pc'[p] = "mark" /\ job'[p].ok => Outage \in told'[n]
      BY DEF OutagesTold
    <2>0. /\ 1 .. nEvents \subseteq Events /\ nEvents \in Nat /\ nEvents' \in 0 .. NEvents
          /\ \A q \in Procs : pc[q] \in {"send", "mark"} => job[q].event \in 1 .. nEvents
          /\ \A q \in Procs : pc'[q] \in {"send", "mark"} => job'[q].event \in 1 .. nEvents'
      BY SizesAssumption DEF IInv, TypeOK, Events, Locals
    <2>00. EventsOf(n) \subseteq 1 .. nEvents /\ n \notin Items /\ n \in Subjects
      BY Apart DEF EventsOf
    <2>1. CASE Quiet
      <3>1. EventsOf(n)' = EventsOf(n) /\ UNCHANGED <<told, nEvents>>
        BY <2>1 DEF Quiet, EventsOf
      <3>2. \A e \in 1 .. nEvents :
              events'[e].item = events[e].item /\ events'[e].status = events[e].status
        BY <2>1 DEF Quiet
      <3>3. \A e \in EventsOf(n)' : events'[e].status = "sent" => Outage \in told'[n]
        BY <2>00, <3>1, <3>2 DEF OutagesTold
      <3>4. ASSUME NEW p \in Procs, events'[job'[p].event].item = n
            PROVE  /\ pc'[p] = "send" => job'[p].message = Outage
                   /\ pc'[p] = "mark" /\ job'[p].ok => Outage \in told'[n]
        <4>1. pc'[p] \in {"send", "mark"} => events[job'[p].event].item = n
          BY <2>0, <3>1, <3>2, <3>4
        <4>2. pc'[p] = "send" => job'[p].message = Outage
          BY <2>1, <2>00, <4>1 DEF Quiet, OutagesTold
        <4>3. pc'[p] = "mark" /\ job'[p].ok => Outage \in told'[n]
          BY <2>1, <3>1, <4>1 DEF Quiet, OutagesTold
        <4> QED
          BY <4>2, <4>3
      <3> QED
        BY <3>3, <3>4
    <2>2. ASSUME NEW k, Adds(k)
          PROVE  /\ \A e \in EventsOf(n)' : events'[e].status = "sent" => Outage \in told'[n]
                 /\ \A p \in Procs : events'[job'[p].event].item = n =>
                       /\ pc'[p] = "send" => job'[p].message = Outage
                       /\ pc'[p] = "mark" /\ job'[p].ok => Outage \in told'[n]
      <3>1. /\ \A e \in 1 .. nEvents : events'[e] = events[e]
            /\ EventsOf(n)' \subseteq EventsOf(n) \cup {nEvents + 1}
            /\ events'[nEvents + 1].status = "pending"
        BY <2>0, <2>2, AddedEvents DEF Adds
      <3> QED
        BY <2>0, <2>00, <2>2, <3>1 DEF Adds, OutagesTold
    <2>3. ASSUME NEW p \in Procs, Sends(p)
          PROVE  /\ \A e \in EventsOf(n)' : events'[e].status = "sent" => Outage \in told'[n]
                 /\ \A q \in Procs : events'[job'[q].event].item = n =>
                       /\ pc'[q] = "send" => job'[q].message = Outage
                       /\ pc'[q] = "mark" /\ job'[q].ok => Outage \in told'[n]
      <3>1. UNCHANGED events /\ EventsOf(n)' = EventsOf(n)
        BY <2>3 DEF Sends, EventsOf
      <3>2. job[p].event \in Events /\ events[job[p].event].item \in Subjects
        BY <2>3, SizesAssumption DEF IInv, TypeOK, Locals, Sends, Events
      <3>3. told[n] \subseteq told'[n]
        BY <2>3, <2>00, <3>2 DEF Sends, Taken, IInv, TypeOK
      <3>4. job'[p].ok => job[p].message \in told'[events[job[p].event].item]
        BY <2>3, <3>2 DEF Sends, Taken, IInv, TypeOK
      <3>5. /\ pc[p] = "send" /\ pc'[p] = "mark" /\ job'[p].event = job[p].event
            /\ \A q \in Procs \ {p} : pc'[q] = pc[q] /\ job'[q] = job[q]
        BY <2>3 DEF Sends
      <3> QED
        BY <3>1, <3>3, <3>4, <3>5 DEF OutagesTold
    <2>4. ASSUME NEW p \in Procs, Marks(p)
          PROVE  /\ \A e \in EventsOf(n)' : events'[e].status = "sent" => Outage \in told'[n]
                 /\ \A q \in Procs : events'[job'[q].event].item = n =>
                       /\ pc'[q] = "send" => job'[q].message = Outage
                       /\ pc'[q] = "mark" /\ job'[q].ok => Outage \in told'[n]
      <3>1. \A e \in Events :
              /\ events'[e].item = events[e].item
              /\ events'[e].status = IF e = job[p].event THEN DeliveryStatus(p) ELSE events[e].status
        BY <2>0, <2>4 DEF Marks, IInv, TypeOK
      <3>2. /\ nEvents' = nEvents /\ told' = told /\ pc[p] = "mark" /\ pc'[p] \notin {"send", "mark"}
            /\ \A q \in Procs \ {p} : pc'[q] = pc[q] /\ job'[q] = job[q]
        BY <2>4 DEF Marks
      <3>3. EventsOf(n)' = EventsOf(n) /\ \A e \in EventsOf(n) : events[e].item = n /\ e \in Events
        BY <2>0, <3>1, <3>2 DEF EventsOf
      <3>4. DeliveryStatus(p) = "sent" => job[p].ok
        BY DEF DeliveryStatus
      <3>5. \A e \in EventsOf(n) : events'[e].status = "sent" => Outage \in told[n]
        BY <3>1, <3>2, <3>3, <3>4 DEF OutagesTold
      <3> QED
        BY <2>0, <3>1, <3>2, <3>3, <3>5 DEF OutagesTold
    <2> QED
      BY <2>1, <2>2, <2>3, <2>4, Effects
  <1> QED
    BY <1>1, <1>2, Invariant, PTL DEF Spec

(* Only the two statements about an outage, and a crash between them,      *)
(* concern the record of incidents.                                        *)
LEMMA OtherStatements ==
    ASSUME IInv, IInv', [Next]_vars,
           \A p \in Procs : /\ ~CreateNodeIncident(p) /\ ~CreateNodeNotificationEvent(p)
                            /\ ~(Crash(p) /\ pc[p] = "announce")
    PROVE  /\ UNCHANGED incidents /\ Announcing' = Announcing
           /\ \A p \in Announcing : job'[p] = job[p]
           /\ \A n \in Incidents : /\ EventsOf(n)' = EventsOf(n)
                                   /\ <<n, Outage>> \in lost' <=> <<n, Outage>> \in lost
  <1> USE DEF Goto, Return, NextRow
  <1>0. pc \in [Procs -> Statements] /\ job \in [Procs -> Jobs]
    BY DEF IInv, TypeOK, Statements
  <1> DEFINE Untouched == /\ UNCHANGED incidents /\ Announcing' = Announcing
                          /\ \A p \in Announcing : job'[p] = job[p]
                          /\ \A n \in Incidents : <<n, Outage>> \in lost' <=> <<n, Outage>> \in lost
  <1>1. Untouched
    <2>1. CASE UNCHANGED vars
      BY <2>1 DEF vars, tables, history, Announcing
    <2>2. ASSUME NEW p \in Procs, Start(p) \/ Step(p) \/ Crash(p)
          PROVE  Untouched
      <3>1. UNCHANGED incidents
        BY <2>2 DEF Step, Start, ReadBefore, ReadAfter, Leftover, NextRetries, QuerySucceeds,
           QueryFails, RecordRetry, CloseRetry, SavePositiveFindings, SaveConflict,
           PendingNotificationIDs, ReadFails, Drain, LoadNotification, LoadFails, SendSucceeds,
           SendFails, MarkNotification, MarkFails, Crash, tables
      <3>2. job[p].back \in {"retry", "drain", "idle"}
        BY <1>0 DEF Jobs
      <3>3. pc[p] # "announce" /\ pc'[p] # "announce"
        BY <1>0, <2>2, <3>2 DEF Step, Start, ReadBefore, ReadAfter, Leftover, NextRetries,
           QuerySucceeds, QueryFails, RecordRetry, CloseRetry, SavePositiveFindings, SaveConflict,
           PendingNotificationIDs, ReadFails, Drain, LoadNotification, LoadFails, SendSucceeds,
           SendFails, MarkNotification, MarkFails, Delivered, Crash
      <3>4. \A q \in Procs \ {p} : pc'[q] = pc[q] /\ job'[q] = job[q]
        BY <1>0, <2>2 DEF Step, Start, ReadBefore, ReadAfter, Leftover, NextRetries,
           QuerySucceeds, QueryFails, RecordRetry, CloseRetry, SavePositiveFindings, SaveConflict,
           PendingNotificationIDs, ReadFails, Drain, LoadNotification, LoadFails, SendSucceeds,
           SendFails, MarkNotification, MarkFails, Delivered, Crash
      <3>5. \A n \in Incidents : <<n, Outage>> \in lost' <=> <<n, Outage>> \in lost
        <4>1. CASE CloseRetry(p)
          <5>1. job[p].item \in Items /\ lost' = {l \in lost : l[1] # job[p].item}
            BY <4>1 DEF CloseRetry, IInv, Locals
          <5> QED
            BY <5>1, Apart
        <4>2. CASE SaveConflict(p) \/ Crash(p)
          <5>1. lost' = lost \/ (job[p].item \in Items /\ lost' = lost \cup {<<job[p].item, job[p].balance>>})
            BY <3>3, <4>2 DEF SaveConflict, Crash, Abandon, IInv, Locals
          <5> QED
            BY <5>1, Apart
        <4>3. CASE ~CloseRetry(p) /\ ~SaveConflict(p) /\ ~Crash(p)
          <5>1. UNCHANGED lost
            BY <2>2, <4>3 DEF Step, Start, ReadBefore, ReadAfter, Leftover, NextRetries,
               QuerySucceeds, QueryFails, RecordRetry, SavePositiveFindings,
               PendingNotificationIDs, ReadFails, Drain, LoadNotification, LoadFails, SendSucceeds,
               SendFails, MarkNotification, MarkFails, history
          <5> QED
            BY <5>1
        <4> QED
          BY <4>1, <4>2, <4>3
      <3> QED
        BY <3>1, <3>3, <3>4, <3>5 DEF Announcing
    <2>3. ASSUME NEW p \in Procs, NEW i \in Items, NEW b \in Balances, ScanSaves(p, i, b)
          PROVE  Untouched
      <3>1. UNCHANGED <<incidents, lost>> /\ pc[p] = "idle" /\ pc'[p] # "announce"
        BY <1>0, <2>3 DEF ScanSaves
      <3>2. \A q \in Procs \ {p} : pc'[q] = pc[q] /\ job'[q] = job[q]
        BY <1>0, <2>3 DEF ScanSaves
      <3> QED
        BY <3>1, <3>2 DEF Announcing
    <2>4. CASE \E i \in Items : RetryDue(i) \/ ScanRecordsRetry(i)
      BY <2>4 DEF RetryDue, ScanRecordsRetry, Announcing, history
    <2>5. CASE \E e \in Events : EventDue(e)
      BY <2>5 DEF EventDue, Announcing, history
    <2> QED
      BY <2>1, <2>2, <2>3, <2>4, <2>5 DEF Next
  <1>2. ASSUME NEW n \in Incidents PROVE EventsOf(n)' = EventsOf(n)
    <2>1. CASE Quiet
      BY <2>1 DEF Quiet, EventsOf
    <2>2. ASSUME NEW i \in Items, Adds(i) PROVE EventsOf(n)' = EventsOf(n)
      <3>1. nEvents' \in 0 .. NEvents /\ i # n
        BY Apart DEF IInv, TypeOK
      <3> QED
        BY <2>2, <3>1, AddedEvents DEF Adds
    <2>3. ASSUME NEW p \in Procs, Sends(p) PROVE EventsOf(n)' = EventsOf(n)
      BY <2>3 DEF Sends, EventsOf
    <2>4. ASSUME NEW p \in Procs, Marks(p) PROVE EventsOf(n)' = EventsOf(n)
      <3>1. \A e \in Events : events'[e].item = events[e].item
        BY <2>4 DEF Marks, IInv, TypeOK
      <3>2. nEvents' = nEvents /\ 1 .. nEvents \subseteq Events
        BY <2>4, SizesAssumption DEF Marks, IInv, TypeOK, Events
      <3> QED
        BY <3>1, <3>2 DEF EventsOf
    <2> QED
      BY <2>1, <2>2, <2>3, <2>4, Effects
  <1> QED
    BY <1>1, <1>2

(* The record of incidents stays as OutagesKnown says.                     *)
LEMMA OutagesKnownNext ==
    ASSUME OutagesKnown, IInv, IInv', [Next]_vars
    PROVE  OutagesKnown'
  <1> USE DEF Goto, Return
  <1>0. /\ pc \in [Procs -> Statements] /\ job \in [Procs -> Jobs]
        /\ Recorded \subseteq Incidents /\ incidents \in Nat /\ nEvents \in Nat
    BY SizesAssumption DEF IInv, TypeOK, Statements, Recorded, Incidents
  <1>00. \A p \in Announcing : job[p].item \in Incidents /\ job[p].item \in Recorded
    BY DEF Announcing, IInv, Locals, OutagesKnown
  <1>1. CASE \A p \in Procs : /\ ~CreateNodeIncident(p) /\ ~CreateNodeNotificationEvent(p)
                              /\ ~(Crash(p) /\ pc[p] = "announce")
    <2>1. /\ Recorded' = Recorded /\ Announcing' = Announcing
          /\ \A p \in Announcing : job'[p] = job[p]
          /\ \A n \in Incidents : /\ EventsOf(n)' = EventsOf(n)
                                  /\ <<n, Outage>> \in lost' <=> <<n, Outage>> \in lost
      BY <1>1, OtherStatements DEF Recorded
    <2>3. \A n \in Incidents : (EventsOf(n) # {} \/ <<n, Outage>> \in lost => n \in Recorded)'
      BY <2>1 DEF OutagesKnown
    <2>4. \A p \in Announcing', n \in Incidents :
            job'[p].item = n => n \in Recorded' /\ EventsOf(n)' = {}
      BY <2>1 DEF OutagesKnown
    <2>5. \A p, q \in Announcing' : job'[p].item = job'[q].item => p = q
      BY <2>1 DEF OutagesKnown
    <2>6. ASSUME NEW n \in Recorded'
          PROVE  <<n, Outage>> \in lost' <=>
                    EventsOf(n)' = {} /\ \A p \in Announcing' : job'[p].item # n
      BY <1>0, <2>1 DEF OutagesKnown
    <2> QED
      BY <2>3, <2>4, <2>5, <2>6 DEF OutagesKnown
  <1>2. ASSUME NEW p \in Procs, CreateNodeIncident(p) PROVE OutagesKnown'
    <2> DEFINE m == NItems + incidents + 1
    <2>1. /\ p \notin Announcing /\ Announcing' = Announcing \cup {p}
          /\ job'[p].item = m /\ \A q \in Announcing : job'[q] = job[q]
      BY <1>0, <1>2 DEF CreateNodeIncident, Announcing, Jobs
    <2>2. /\ Recorded' = Recorded \cup {m} /\ m \notin Recorded
          /\ m \in Incidents
      BY <1>0, <1>2, SizesAssumption DEF CreateNodeIncident, Recorded, Incidents
    <2>3. lost' = lost /\ \A n : EventsOf(n)' = EventsOf(n)
      BY <1>2 DEF CreateNodeIncident, EventsOf, history
    <2>4. EventsOf(m) = {} /\ <<m, Outage>> \notin lost
      BY <2>2 DEF OutagesKnown
    <2>5. \A q \in Announcing : job[q].item \in Recorded /\ job[q].item # m
      BY <1>00, <2>2
    <2> HIDE DEF m
    <2>6. \A n \in Incidents : (EventsOf(n) # {} \/ <<n, Outage>> \in lost => n \in Recorded)'
      BY <2>2, <2>3 DEF OutagesKnown
    <2>7. \A q \in Announcing', n \in Incidents :
            job'[q].item = n => n \in Recorded' /\ EventsOf(n)' = {}
      BY <2>1, <2>2, <2>3, <2>4 DEF OutagesKnown
    <2>8. \A q, k \in Announcing' : job'[q].item = job'[k].item => q = k
      BY <2>1, <2>5 DEF OutagesKnown
    <2>9. ASSUME NEW n \in Recorded'
          PROVE  <<n, Outage>> \in lost' <=>
                    EventsOf(n)' = {} /\ \A q \in Announcing' : job'[q].item # n
      <3>1. CASE n = m
        BY <2>1, <2>3, <2>4, <3>1
      <3>2. CASE n # m
        BY <2>1, <2>2, <2>3, <3>2 DEF OutagesKnown
      <3> QED
        BY <3>1, <3>2
    <2> QED
      BY <2>6, <2>7, <2>8, <2>9 DEF OutagesKnown
  <1>3. ASSUME NEW p \in Procs, CreateNodeNotificationEvent(p) PROVE OutagesKnown'
    <2> DEFINE m == job[p].item
    <2>1. /\ p \in Announcing /\ Announcing' = Announcing \ {p}
          /\ \A q \in Announcing' : job'[q] = job[q]
      BY <1>0, <1>3 DEF CreateNodeNotificationEvent, Announcing
    <2>2. lost' = lost /\ Recorded' = Recorded
      BY <1>3 DEF CreateNodeNotificationEvent, Recorded, history
    <2>3. m \in Recorded /\ EventsOf(m) = {} /\ <<m, Outage>> \notin lost
      BY <1>00, <2>1 DEF OutagesKnown
    <2>4. \A n : EventsOf(n)' = IF n = m THEN EventsOf(n) \cup {nEvents + 1} ELSE EventsOf(n)
      BY <1>3, AddedEvents DEF CreateNodeNotificationEvent, IInv, TypeOK
    <2>5. \A q \in Announcing' : job[q].item # m
      BY <2>1 DEF OutagesKnown
    <2> HIDE DEF m
    <2>6. \A n \in Incidents : (EventsOf(n) # {} \/ <<n, Outage>> \in lost => n \in Recorded)'
      BY <2>2, <2>3, <2>4 DEF OutagesKnown
    <2>7. \A q \in Announcing', n \in Incidents :
            job'[q].item = n => n \in Recorded' /\ EventsOf(n)' = {}
      BY <2>1, <2>2, <2>4, <2>5 DEF OutagesKnown
    <2>8. \A q, k \in Announcing' : job'[q].item = job'[k].item => q = k
      BY <2>1 DEF OutagesKnown
    <2>9. ASSUME NEW n \in Recorded'
          PROVE  <<n, Outage>> \in lost' <=>
                    EventsOf(n)' = {} /\ \A q \in Announcing' : job'[q].item # n
      <3>1. CASE n = m
        BY <2>2, <2>3, <2>4, <3>1
      <3>2. CASE n # m
        BY <2>1, <2>2, <2>4, <3>2 DEF OutagesKnown, m
      <3> QED
        BY <3>1, <3>2
    <2> QED
      BY <2>6, <2>7, <2>8, <2>9 DEF OutagesKnown
  <1>4. ASSUME NEW p \in Procs, Crash(p), pc[p] = "announce" PROVE OutagesKnown'
    <2> DEFINE m == job[p].item
    <2>1. /\ p \in Announcing /\ Announcing' = Announcing \ {p}
          /\ \A q \in Announcing' : job'[q] = job[q]
      BY <1>0, <1>4 DEF Crash, Announcing
    <2>2. lost' = lost \cup {<<m, Outage>>}
      BY <1>4 DEF Crash, Abandon, IInv, Locals
    <2>3. Recorded' = Recorded /\ \A n : EventsOf(n)' = EventsOf(n)
      BY <1>4 DEF Crash, Recorded, EventsOf, tables
    <2>4. m \in Recorded /\ EventsOf(m) = {}
      BY <1>00, <2>1 DEF OutagesKnown
    <2>5. \A q \in Announcing' : job[q].item # m
      BY <2>1 DEF OutagesKnown
    <2> HIDE DEF m
    <2>6. \A n \in Incidents : (EventsOf(n) # {} \/ <<n, Outage>> \in lost => n \in Recorded)'
      BY <2>2, <2>3, <2>4 DEF OutagesKnown
    <2>7. \A q \in Announcing', n \in Incidents :
            job'[q].item = n => n \in Recorded' /\ EventsOf(n)' = {}
      BY <2>1, <2>3 DEF OutagesKnown
    <2>8. \A q, k \in Announcing' : job'[q].item = job'[k].item => q = k
      BY <2>1 DEF OutagesKnown
    <2>9. ASSUME NEW n \in Recorded'
          PROVE  <<n, Outage>> \in lost' <=>
                    EventsOf(n)' = {} /\ \A q \in Announcing' : job'[q].item # n
      <3>1. CASE n = m
        BY <2>1, <2>2, <2>3, <2>4, <2>5, <3>1
      <3>2. CASE n # m
        BY <2>1, <2>2, <2>3, <3>2 DEF OutagesKnown, m
      <3> QED
        BY <3>1, <3>2
    <2> QED
      BY <2>6, <2>7, <2>8, <2>9 DEF OutagesKnown
  <1> QED
    BY <1>1, <1>2, <1>3, <1>4

(* Every outage on record has an event of its own or is about to get it,   *)
(* except exactly those whose process ended between the two INSERTs, and   *)
(* an event is marked sent only after a message about that very incident   *)
(* (OutagesReported): for any number of processes, ended anywhere.         *)
THEOREM OutagesAreReported == Spec => []OutagesReported
  <1>1. Init => OutagesKnown
    <2> SUFFICES ASSUME Init PROVE OutagesKnown
      OBVIOUS
    <2>1. (\A n : EventsOf(n) = {}) /\ Announcing = {} /\ lost = {} /\ Recorded = {}
      BY SizesAssumption DEF Init, EventsOf, Announcing, Recorded
    <2> QED
      BY <2>1 DEF OutagesKnown
  <1>2. OutagesKnown /\ IInv /\ IInv' /\ [Next]_vars => OutagesKnown'
    BY OutagesKnownNext
  <1>3. IInv /\ OutagesKnown /\ OutagesTold => OutagesReported
    <2>1. IInv => Recorded \subseteq Incidents
      BY SizesAssumption DEF IInv, TypeOK, Recorded, Incidents
    <2> QED
      BY <2>1 DEF OutagesKnown, OutagesTold, OutagesReported, Recorded
  <1> QED
    BY <1>1, <1>2, <1>3, Invariant, OutagesToldHolds, PTL DEF Spec

-----------------------------------------------------------------------------
(* Balances of closed retries *)

(* A process that neither closes a row, nor saves, nor ends leaves what is *)
(* owed and who is about to save it as they are.                           *)
LEMMA OwedStays ==
    ASSUME IInv, NEW p \in Procs, Start(p) \/ Step(p) \/ CreateNodeIncident(p),
           ~CloseRetry(p), ~SavePositiveFindings(p), ~SaveConflict(p)
    PROVE  /\ UNCHANGED <<owed, lost>>
           /\ \A i \in Items : queue'[i] = "resolved" => queue[i] = "resolved"
           /\ \A q \in Procs : pc[q] = "save" => pc'[q] = "save" /\ job'[q] = job[q]
  <1> USE DEF Goto, Return, NextRow
  <1>0. pc \in [Procs -> Statements] /\ job \in [Procs -> Jobs]
    BY DEF IInv, TypeOK, Statements
  <1>1. UNCHANGED <<owed, lost>>
    BY DEF Start, Step, CreateNodeIncident, ReadBefore, ReadAfter, Leftover, NextRetries,
       QuerySucceeds, QueryFails, RecordRetry, PendingNotificationIDs, ReadFails,
       Drain, LoadNotification, LoadFails, SendSucceeds, SendFails, MarkNotification,
       MarkFails, CreateNodeNotificationEvent, history
  <1>2. \A i \in Items : queue'[i] = "resolved" => queue[i] = "resolved"
    BY DEF Start, Step, CreateNodeIncident, ReadBefore, ReadAfter, Leftover, NextRetries,
       QuerySucceeds, QueryFails, RecordRetry, PendingNotificationIDs, ReadFails,
       Drain, LoadNotification, LoadFails, SendSucceeds, SendFails, MarkNotification,
       MarkFails, CreateNodeNotificationEvent, tables, IInv, TypeOK
  <1>3. pc[p] # "save"
    BY DEF Start, Step, CreateNodeIncident, ReadBefore, ReadAfter, Leftover, NextRetries,
       QuerySucceeds, QueryFails, RecordRetry, PendingNotificationIDs, ReadFails,
       Drain, LoadNotification, LoadFails, SendSucceeds, SendFails, MarkNotification,
       MarkFails, CreateNodeNotificationEvent
  <1>4. \A q \in Procs \ {p} : pc'[q] = pc[q] /\ job'[q] = job[q]
    BY <1>0 DEF Start, Step, CreateNodeIncident, ReadBefore, ReadAfter, Leftover, NextRetries,
       QuerySucceeds, QueryFails, RecordRetry, PendingNotificationIDs, ReadFails,
       Drain, LoadNotification, LoadFails, SendSucceeds, SendFails, MarkNotification,
       MarkFails, CreateNodeNotificationEvent, Delivered
  <1> QED
    BY <1>1, <1>2, <1>3, <1>4

(* A balance with which a retry closed its row is in positive_findings     *)
(* since, or about to be saved, unless a process that held that balance    *)
(* ended in between (OnlyAbandonedLost): for any number of processes that  *)
(* retry, reopen, save and end at the same time.                           *)
THEOREM OnlyAbandonedAreLost == Spec => []OnlyAbandonedLost
  <1>1. Init => OnlyAbandonedLost
    BY DEF Init, OnlyAbandonedLost
  <1>2. OnlyAbandonedLost /\ IInv /\ IInv' /\ [Next]_vars => OnlyAbandonedLost'
    <2> SUFFICES ASSUME OnlyAbandonedLost, IInv, IInv', [Next]_vars,
                        NEW i \in Items, owed'[i] # 0, queue'[i] = "resolved"
                 PROVE  Holds(i, owed[i])' \/ <<i, owed'[i]>> \in lost'
      BY DEF OnlyAbandonedLost
    <2> USE DEF Goto, Return, NextRow
    <2>0. pc \in [Procs -> Statements] /\ job \in [Procs -> Jobs]
      BY DEF IInv, TypeOK, Statements
    <2>1. ASSUME owed'[i] = owed[i], queue[i] = "resolved", <<i, owed[i]>> \in lost => <<i, owed[i]>> \in lost',
                 \A q \in Procs : pc[q] = "save" /\ job[q].item = i /\ job[q].balance = owed[i] =>
                    (pc'[q] = "save" /\ job'[q] = job[q]) \/ <<i, owed[i]>> \in lost'
          PROVE  Holds(i, owed[i])' \/ <<i, owed'[i]>> \in lost'
      BY <2>1 DEF OnlyAbandonedLost, Holds
    <2>2. CASE UNCHANGED vars
      BY <2>1, <2>2 DEF vars, tables, history
    <2>3. ASSUME NEW p \in Procs, Start(p) \/ Step(p) \/ CreateNodeIncident(p),
                 ~CloseRetry(p), ~SavePositiveFindings(p), ~SaveConflict(p)
          PROVE  Holds(i, owed[i])' \/ <<i, owed'[i]>> \in lost'
      BY <2>1, <2>3, OwedStays
    <2>4. ASSUME NEW p \in Procs, SaveConflict(p) \/ Crash(p)
          PROVE  Holds(i, owed[i])' \/ <<i, owed'[i]>> \in lost'
      <3>1. owed' = owed /\ queue' = queue /\ \A q \in Procs \ {p} : pc'[q] = pc[q] /\ job'[q] = job[q]
        BY <2>0, <2>4 DEF SaveConflict, Crash, tables
      <3>2. lost \subseteq lost' /\ (pc[p] = "save" => <<job[p].item, job[p].balance>> \in lost')
        BY <2>4 DEF SaveConflict, Crash, Abandon
      <3> QED
        BY <2>1, <3>1, <3>2
    <2>5. ASSUME NEW p \in Procs, CloseRetry(p)
          PROVE  Holds(i, owed[i])' \/ <<i, owed'[i]>> \in lost'
      <3>0. job[p].item \in Items /\ job[p].balance \in Balances \cup {0} /\ pc[p] = "close"
        BY <2>5 DEF CloseRetry, IInv, Locals, TypeOK, Jobs
      <3>1. CASE job[p].item = i
        <4>1. owed'[i] = Missing(finding[i], job[p].balance)
          BY <2>5, <3>1 DEF CloseRetry, IInv, TypeOK
        <4>2. owed'[i] = job[p].balance /\ Positive(job[p].balance)
          <5>1. owed'[i] = job[p].balance /\ job[p].balance # 0
            BY <4>1 DEF Missing
          <5>2. job[p].balance \in Nat \ {0}
            BY <3>0, <5>1, ValuesAssumption
          <5> QED
            BY <5>1, <5>2 DEF Positive
        <4>3. pc'[p] = "save" /\ job' = job
          BY <2>0, <2>5, <4>2 DEF CloseRetry
        <4> QED
          BY <3>1, <4>2, <4>3 DEF Holds
      <3>2. CASE job[p].item # i
        <4>1. owed'[i] = owed[i] /\ queue[i] = "resolved"
          BY <2>5, <3>0, <3>2 DEF CloseRetry, IInv, TypeOK
        <4>2. <<i, owed[i]>> \in lost => <<i, owed[i]>> \in lost'
          BY <2>5, <3>2 DEF CloseRetry
        <4>3. \A q \in Procs \ {p} : pc'[q] = pc[q] /\ job'[q] = job[q]
          BY <2>0, <2>5 DEF CloseRetry
        <4> QED
          BY <2>1, <3>0, <4>1, <4>2, <4>3
      <3> QED
        BY <3>1, <3>2
    <2>6. ASSUME NEW k \in Items, NEW b \in Balances \cup {0}, SaveFinding(k, b), lost' = lost, queue' = queue,
                 \A q \in Procs : pc[q] = "save" =>
                    (pc'[q] = "save" /\ job'[q] = job[q]) \/ (job[q].item = k /\ job[q].balance = b)
          PROVE  Holds(i, owed[i])' \/ <<i, owed'[i]>> \in lost'
      <3>1. /\ owed'[i] = owed[i]
            /\ ~(k = i /\ b = owed[i])
        BY <2>6 DEF SaveFinding, Missing, IInv, TypeOK
      <3> QED
        BY <2>1, <2>6, <3>1
    <2>7. ASSUME NEW p \in Procs, SavePositiveFindings(p)
          PROVE  Holds(i, owed[i])' \/ <<i, owed'[i]>> \in lost'
      <3>1. job[p].item \in Items /\ job[p].balance \in Balances \cup {0}
        BY <2>7 DEF SavePositiveFindings, IInv, Locals, TypeOK, Jobs
      <3>2. /\ SaveFinding(job[p].item, job[p].balance) /\ lost' = lost /\ queue' = queue
            /\ \A q \in Procs \ {p} : pc'[q] = pc[q] /\ job'[q] = job[q]
        BY <2>0, <2>7 DEF SavePositiveFindings
      <3> QED
        BY <2>6, <3>1, <3>2
    <2>8. ASSUME NEW p \in Procs, NEW k \in Items, NEW b \in Balances, ScanSaves(p, k, b)
          PROVE  Holds(i, owed[i])' \/ <<i, owed'[i]>> \in lost'
      <3>1. /\ SaveFinding(k, b) /\ lost' = lost /\ queue' = queue /\ pc[p] = "idle"
            /\ \A q \in Procs \ {p} : pc'[q] = pc[q] /\ job'[q] = job[q]
        BY <2>0, <2>8 DEF ScanSaves
      <3>2. \A q \in Procs : pc[q] = "save" => pc'[q] = "save" /\ job'[q] = job[q]
        BY <3>1
      <3> QED
        BY <2>6, <3>1, <3>2
    <2>9. ASSUME NEW k \in Items, RetryDue(k) \/ ScanRecordsRetry(k)
          PROVE  Holds(i, owed[i])' \/ <<i, owed'[i]>> \in lost'
      <3>1. queue[i] = "resolved" /\ UNCHANGED <<pc, job, owed, lost>>
        BY <2>9 DEF RetryDue, ScanRecordsRetry, history, IInv, TypeOK
      <3> QED
        BY <2>1, <3>1
    <2>10. ASSUME NEW e \in Events, EventDue(e)
           PROVE  Holds(i, owed[i])' \/ <<i, owed'[i]>> \in lost'
      BY <2>1, <2>10 DEF EventDue, history
    <2> QED
      BY <2>2, <2>3, <2>4, <2>5, <2>7, <2>8, <2>9, <2>10 DEF Next, Step
  <1> QED
    BY <1>1, <1>2, Invariant, PTL DEF Spec

-----------------------------------------------------------------------------
(* What is sent stays sent *)

(* The locals of the only process after a step that leaves events alone.   *)
LEMMA StillNotSent ==
    ASSUME IInv, NEW p \in Procs, NotSentYet(p), UNCHANGED <<nEvents, events>>,
           \/ UNCHANGED <<pc, job>>
           \/ Start(p) \/ ReadBefore(p) \/ ReadAfter(p) \/ Leftover(p) \/ NextRetries(p)
           \/ QuerySucceeds(p) \/ QueryFails(p) \/ RecordRetry(p) \/ CloseRetry(p)
           \/ SaveConflict(p) \/ PendingNotificationIDs(p) \/ ReadFails(p) \/ Drain(p)
           \/ LoadNotification(p) \/ LoadFails(p) \/ SendSucceeds(p) \/ SendFails(p)
           \/ MarkFails(p) \/ Crash(p) \/ CreateNodeIncident(p)
    PROVE  NotSentYet(p)'
  <1> USE DEF Goto, Return, NextRow
  <1>0. /\ pc \in [Procs -> Statements] /\ job \in [Procs -> Jobs] /\ job[p] \in Jobs
        /\ job[p].back \in {"retry", "drain", "idle"}
    BY DEF IInv, TypeOK, Statements, Jobs
  <1>1. ASSUME /\ job'[p].drain \subseteq job[p].drain
               /\ pc'[p] \in {"load", "send", "mark"} =>
                    /\ pc[p] \in {"load", "send", "mark"}
                    /\ job'[p].event = job[p].event /\ job'[p].drain = job[p].drain
        PROVE  NotSentYet(p)'
    BY <1>1 DEF NotSentYet
  <1>2. CASE UNCHANGED <<pc, job>>
    BY <1>1, <1>2
  <1>3. CASE Start(p) \/ RecordRetry(p) \/ CloseRetry(p) \/ ReadFails(p) \/ CreateNodeIncident(p)
    <2>1. job'[p].drain = job[p].drain
      BY <1>0, <1>3 DEF Start, RecordRetry, CloseRetry, ReadFails, CreateNodeIncident, Jobs
    <2>2. pc'[p] \notin {"load", "send", "mark"}
      BY <1>0, <1>3 DEF Start, RecordRetry, CloseRetry, ReadFails, CreateNodeIncident
    <2> QED
      BY <1>1, <2>1, <2>2
  <1>4. CASE ReadBefore(p) /\ Open # {}
    BY <1>0, <1>1, <1>4 DEF ReadBefore, Jobs
  <1>5. CASE NextRetries(p)
    BY <1>0, <1>1, <1>5 DEF NextRetries, Jobs
  <1>6. CASE QuerySucceeds(p)
    <2>1. PICK i \in job[p].todo, b \in Balances \cup {0} :
            job' = [job EXCEPT ![p].todo = @ \ {i}, ![p].item = i, ![p].balance = b]
      BY <1>6 DEF QuerySucceeds
    <2>2. job'[p].drain = job[p].drain
      BY <1>0, <2>1 DEF Jobs
    <2> QED
      BY <1>0, <1>1, <1>6, <2>2 DEF QuerySucceeds
  <1>7. CASE QueryFails(p)
    <2>1. PICK i \in job[p].todo : job' = [job EXCEPT ![p].todo = @ \ {i}, ![p].item = i]
      BY <1>7 DEF QueryFails
    <2>2. job'[p].drain = job[p].drain
      BY <1>0, <2>1 DEF Jobs
    <2> QED
      BY <1>0, <1>1, <1>7, <2>2 DEF QueryFails
  <1>8. CASE LoadNotification(p)
    BY <1>0, <1>1, <1>8 DEF LoadNotification, Jobs
  <1>9. CASE LoadFails(p) \/ SendSucceeds(p) \/ SendFails(p)
    BY <1>0, <1>1, <1>9 DEF LoadFails, SendSucceeds, SendFails, Jobs
  <1>10. CASE MarkFails(p)
    <2>1. job'[p].drain = job[p].drain
      BY <1>0, <1>10, DeliveredJob DEF MarkFails
    <2> QED
      BY <1>0, <1>1, <1>10, <2>1 DEF MarkFails, Delivered
  <1>11. CASE (ReadBefore(p) /\ Open = {}) \/ ReadAfter(p) \/ Leftover(p) \/ SaveConflict(p) \/ Crash(p)
    <2>1. job'[p] = NoJob /\ pc'[p] \in {"idle", "before", "leftover"}
      BY <1>0, <1>11 DEF ReadBefore, ReadAfter, Leftover, SaveConflict, Crash
    <2> QED
      BY <1>1, <2>1 DEF NoJob
  <1>12. CASE PendingNotificationIDs(p)
    <2>1. job'[p].drain = Lowest(Deliverable, BatchSize) /\ pc'[p] = "drain"
      BY <1>0, <1>12 DEF PendingNotificationIDs, Jobs
    <2>2. \A e \in job'[p].drain : events[e].status # "sent"
      BY <2>1, LowestSubset DEF Deliverable
    <2> QED
      BY <2>1, <2>2 DEF NotSentYet
  <1>13. CASE Drain(p) /\ job[p].drain # {}
    <2>1. PICK e \in job[p].drain : job' = [job EXCEPT ![p].drain = @ \ {e}, ![p].event = e]
      BY <1>13 DEF Drain
    <2>2. job'[p].drain = job[p].drain \ {e} /\ job'[p].event = e
      BY <1>0, <2>1 DEF Jobs
    <2> QED
      BY <2>2 DEF NotSentYet
  <1>14. CASE Drain(p) /\ job[p].drain = {}
    BY <1>0, <1>1, <1>14 DEF Drain
  <1> QED
    BY <1>2, <1>3, <1>4, <1>5, <1>6, <1>7, <1>8, <1>9, <1>10, <1>11, <1>12, <1>13, <1>14

(* After the process has added an event, or left the table as it was.      *)
LEMMA AddedNotSent ==
    ASSUME IInv, IInv', NEW p \in Procs, NotSentYet(p), job'[p].drain = job[p].drain,
           \/ \E i : AddEvent(i) /\ job'[p].event = nEvents + 1
           \/ UNCHANGED <<nEvents, events>> /\ pc'[p] \notin {"load", "send", "mark"}
    PROVE  NotSentYet(p)' /\ \A e \in Events : events[e].status = "sent" => events'[e].status = "sent"
  <1>1. CASE UNCHANGED <<nEvents, events>> /\ pc'[p] \notin {"load", "send", "mark"}
    BY <1>1 DEF NotSentYet
  <1>2. ASSUME NEW i, AddEvent(i), job'[p].event = nEvents + 1
        PROVE  NotSentYet(p)' /\ \A e \in Events : events[e].status = "sent" => events'[e].status = "sent"
    <2>1. nEvents \in Nat /\ nEvents' = nEvents + 1 /\ nEvents + 1 \in Events /\ 1 .. nEvents \subseteq Events
      BY <1>2, SizesAssumption DEF AddEvent, IInv, TypeOK, Events
    <2>2. /\ \A e \in Events : e # nEvents + 1 => events'[e] = events[e]
          /\ events'[nEvents + 1].status = "pending"
      BY <1>2, <2>1 DEF AddEvent, IInv, TypeOK
    <2>3. job[p].drain \subseteq 1 .. nEvents
      BY DEF IInv, Locals
    <2>4. nEvents + 1 \notin job[p].drain /\ \A e \in job[p].drain : e \in Events /\ e # nEvents + 1
      BY <2>1, <2>3
    <2>5. \A e \in Events : e > nEvents' => e > nEvents /\ e # nEvents + 1
      BY <2>1 DEF Events
    <2>6. events[nEvents + 1].status = "absent"
      BY <2>1 DEF NotSentYet
    <2>7. NotSentYet(p)'
      BY <1>2, <2>1, <2>2, <2>4, <2>5 DEF NotSentYet
    <2> QED
      BY <2>2, <2>6, <2>7
  <1> QED
    BY <1>1, <1>2

(* With one process at a time no event that is marked sent is delivered    *)
(* and marked again (SentIsFinal), crashes included: its own Drain and its *)
(* own Deliver never meet.                                                 *)
THEOREM SentStaysSent == (\E p : Procs = {p}) => (Spec => SentIsFinal)
  <1> DEFINE Kept == \A e \in Events : events[e].status = "sent" => events'[e].status = "sent"
  <1> SUFFICES ASSUME NEW p, Procs = {p} PROVE Spec => SentIsFinal
    OBVIOUS
  <1>1. Init => NotSentYet(p)
    BY DEF Init, NotSentYet, NoJob, NoEvent
  <1>2. NotSentYet(p) /\ IInv /\ IInv' /\ [Next]_vars => NotSentYet(p)' /\ Kept
    <2> SUFFICES ASSUME NotSentYet(p), IInv, IInv', [Next]_vars PROVE NotSentYet(p)' /\ Kept
      OBVIOUS
    <2> USE DEF Goto, NextRow
    <2>0. pc \in [Procs -> Statements] /\ job \in [Procs -> Jobs] /\ job[p] \in Jobs /\ p \in Procs
      BY DEF IInv, TypeOK, Statements
    <2>1. CASE UNCHANGED vars
      BY <2>0, <2>1, StillNotSent DEF vars, tables
    <2>2. CASE SavePositiveFindings(p)
      <3>1. job'[p].drain = job[p].drain
        BY <2>0, <2>2 DEF SavePositiveFindings, NextRow, Jobs
      <3>2. CASE nEvents' = nEvents
        <4>1. UNCHANGED <<nEvents, events>> /\ pc'[p] = "retry"
          BY <2>0, <2>2, <3>2, SizesAssumption
          DEF SavePositiveFindings, SaveFinding, AddEvent, IInv, TypeOK
        <4> QED
          BY <2>0, <3>1, <4>1, AddedNotSent
      <3>3. CASE nEvents' # nEvents
        <4>1. AddEvent(job[p].item) /\ job'[p].event = nEvents + 1
          BY <2>0, <2>2, <3>3 DEF SavePositiveFindings, SaveFinding, Jobs
        <4> QED
          BY <2>0, <3>1, <4>1, AddedNotSent
      <3> QED
        BY <3>2, <3>3
    <2>3. ASSUME NEW i \in Items, NEW b \in Balances, ScanSaves(p, i, b)
          PROVE  NotSentYet(p)' /\ Kept
      <3>1. job'[p].drain = job[p].drain
        BY <2>0, <2>3 DEF ScanSaves, Jobs
      <3>2. CASE nEvents' = nEvents
        <4>1. UNCHANGED <<nEvents, events>> /\ pc'[p] = "idle"
          BY <2>0, <2>3, <3>2, SizesAssumption DEF ScanSaves, SaveFinding, AddEvent, IInv, TypeOK
        <4> QED
          BY <2>0, <3>1, <4>1, AddedNotSent
      <3>3. CASE nEvents' # nEvents
        <4>1. AddEvent(i) /\ job'[p].event = nEvents + 1
          BY <2>0, <2>3, <3>3 DEF ScanSaves, SaveFinding, Jobs
        <4> QED
          BY <2>0, <3>1, <4>1, AddedNotSent
      <3> QED
        BY <3>2, <3>3
    <2>4. CASE CreateNodeNotificationEvent(p)
      <3>1. job'[p].drain = job[p].drain /\ AddEvent(job[p].item) /\ job'[p].event = nEvents + 1
        BY <2>0, <2>4 DEF CreateNodeNotificationEvent, Jobs
      <3> QED
        BY <2>0, <3>1, AddedNotSent
    <2>5. CASE MarkNotification(p)
      <3>1. /\ job'[p].drain = job[p].drain /\ pc'[p] \notin {"load", "send", "mark"}
            /\ nEvents' = nEvents
        <4>1. job[p].back \in {"retry", "drain", "idle"}
          BY <2>0 DEF Jobs
        <4> QED
          BY <2>0, <2>5, <4>1, DeliveredJob DEF MarkNotification, Delivered
      <3>2. job[p].event \in 1 .. nEvents /\ nEvents \in Nat /\ job[p].drain \subseteq Events
        BY <2>0, <2>5, SizesAssumption DEF MarkNotification, IInv, Locals, TypeOK, Jobs
      <3>3. \A e \in Events : e # job[p].event => events'[e] = events[e]
        BY <2>5 DEF MarkNotification, IInv, TypeOK
      <3>4. events[job[p].event].status # "sent" /\ job[p].event \notin job[p].drain
        BY <2>5 DEF MarkNotification, NotSentYet
      <3>5. \A e \in Events : e > nEvents => e # job[p].event
        BY <3>2 DEF Events
      <3>6. NotSentYet(p)'
        BY <3>1, <3>2, <3>3, <3>4, <3>5 DEF NotSentYet
      <3>7. Kept
        BY <3>3, <3>4
      <3> QED
        BY <3>6, <3>7
    <2>6. ASSUME NEW e \in Events, EventDue(e) PROVE NotSentYet(p)' /\ Kept
      <3>1. \A f \in Events : events'[f].status = events[f].status
        BY <2>6 DEF EventDue, IInv, TypeOK
      <3>2. UNCHANGED <<pc, job, nEvents>>
        BY <2>6 DEF EventDue
      <3>3. job[p].drain \subseteq Events /\ (pc[p] \in {"load", "send", "mark"} => job[p].event \in Events)
        BY <2>0, SizesAssumption DEF IInv, Locals, TypeOK, Jobs, Events
      <3> QED
        BY <3>1, <3>2, <3>3 DEF NotSentYet
    <2>7. ASSUME NEW i \in Items, RetryDue(i) \/ ScanRecordsRetry(i) PROVE NotSentYet(p)' /\ Kept
      <3>1. UNCHANGED <<pc, job, nEvents, events>>
        BY <2>7 DEF RetryDue, ScanRecordsRetry
      <3> QED
        BY <2>0, <3>1, StillNotSent
    <2>8. CASE \/ Start(p) \/ ReadBefore(p) \/ ReadAfter(p) \/ Leftover(p) \/ NextRetries(p)
               \/ QuerySucceeds(p) \/ QueryFails(p) \/ RecordRetry(p) \/ CloseRetry(p)
               \/ SaveConflict(p) \/ PendingNotificationIDs(p) \/ ReadFails(p) \/ Drain(p)
               \/ LoadNotification(p) \/ LoadFails(p) \/ SendSucceeds(p) \/ SendFails(p)
               \/ MarkFails(p) \/ Crash(p) \/ CreateNodeIncident(p)
      <3>1. UNCHANGED <<nEvents, events>>
        BY <2>8
        DEF Start, ReadBefore, ReadAfter, Leftover, NextRetries, QuerySucceeds, QueryFails,
            RecordRetry, CloseRetry, SaveConflict, PendingNotificationIDs, ReadFails, Drain,
            LoadNotification, LoadFails, SendSucceeds, SendFails, MarkFails, Crash,
            CreateNodeIncident, tables
      <3> QED
        BY <2>0, <2>8, <3>1, StillNotSent
    <2> QED
      BY <2>1, <2>2, <2>3, <2>4, <2>5, <2>6, <2>7, <2>8 DEF Next, Step
  <1>3. Spec => [](NotSentYet(p) /\ IInv)
    BY <1>1, <1>2, Invariant, PTL DEF Spec
  <1>4. NotSentYet(p) /\ IInv /\ IInv' /\ [Next]_vars => [Kept]_vars
    BY <1>2
  <1> QED
    BY <1>3, <1>4, PTL DEF Spec, SentIsFinal
=============================================================================
