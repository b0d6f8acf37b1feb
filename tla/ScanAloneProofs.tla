-------------------------- MODULE ScanAloneProofs --------------------------
(***************************************************************************)
(* Proofs about a scan that has the database to itself: at most one        *)
(* `wallet-scan scan` at a time, started, crashed, paused and resumed any  *)
(* number of times.  The code takes no lock that would keep a second one   *)
(* out, so this is a condition on how it is operated.                      *)
(***************************************************************************)
EXTENDS ScanRunsProofs

\* At most one `wallet-scan scan` runs at a time.
OneScan == \A p, q \in Procs : p = q

-----------------------------------------------------------------------------
(* The inductive invariant of a scan that is alone: only the newest run is *)
(* not completed, the runs are one behind the other, and what the process  *)
(* holds in memory is what is in its row.                                  *)

\* Rows of scan_runs are in the order of their ranges.
RunsInOrder ==
    \A s \in 1 .. nRuns :
        /\ runs[s].status # "absent"
        /\ \A r \in 1 .. nRuns :
             r < s => runs[r].status = "completed" /\ runs[r].end < runs[s].start

\* A run that is not completed still has its last address: the cleanup only
\* deletes addresses of completed runs.
AloneRun(r) ==
    /\ r \in Active => runs[r].end \in addresses
    /\ r \in Completed => runs[r].cursor = runs[r].end
    /\ runs[r].old => r \in Completed

AloneProc(p) ==
    LET run == runs[job[p].run]
    IN  /\ pc[p] \in {"lastEnd", "range", "create"} => Active = {}
        /\ pc[p] = "range" => \A r \in Completed : runs[r].end <= job[p].lastEnd
        /\ pc[p] = "create" =>
             job[p].hi \in addresses /\ \A r \in Completed : runs[r].end < job[p].lo
        /\ pc[p] \in InRun =>
             /\ run.cursor = job[p].cursor
             /\ run.status = IF pc[p] = "resume" THEN "paused" ELSE "running"
        /\ pc[p] \in {"batch", "persist", "close"} => job[p].cursor < job[p].last
        /\ pc[p] = "complete" => run.cursor = run.end

AloneInv ==
    /\ RunsInOrder
    /\ \A r \in RunIds : AloneRun(r)
    /\ \A p \in Procs : AloneProc(p)

\* The addresses a run has behind its cursor, and those of the current batch.
Behind(r) == {a \in addresses : runs[r].start <= a /\ a <= runs[r].cursor}
Batch(p) == {a \in addresses : job[p].cursor < a /\ a <= job[p].last}

\* What is counted are those addresses; until the checkpoint the batch has
\* its own tally.
CountInv ==
    /\ \A r \in RunIds :
         runs[r].status # "absent" /\ ~runs[r].old =>
             runs[r].counts.processed = Cardinality(Behind(r))
    /\ \A p \in Procs :
         pc[p] \in {"batch", "persist", "close"} =>
             /\ job[p].todo \subseteq Batch(p)
             /\ job[p].tally.processed = Cardinality(Batch(p) \ job[p].todo)

-----------------------------------------------------------------------------
(* Frames *)

(* A step that writes neither to scan_runs nor to wallet_addresses keeps   *)
(* the invariant if it keeps it for the process that takes it.             *)
LEMMA AloneLocal ==
    ASSUME OneScan, AloneInv, UNCHANGED <<addresses, nRuns, runs>>,
           NEW p \in Procs, AloneProc(p)'
    PROVE  AloneInv'
  <1>1. RunsInOrder'
    BY DEF AloneInv, RunsInOrder
  <1>2. \A r \in RunIds : AloneRun(r)'
    BY DEF AloneInv, AloneRun, Active, Completed
  <1>3. \A q \in Procs : AloneProc(q)'
    BY DEF OneScan
  <1> QED
    BY <1>1, <1>2, <1>3 DEF AloneInv

(* A process that has returned promises nothing.                           *)
LEMMA AloneReturn ==
    ASSUME TypeOK, NEW p \in Procs, Return(p)
    PROVE  AloneProc(p)'
  <1>1. pc'[p] = "idle"
    BY ReturnType
  <1> QED
    BY <1>1 DEF AloneProc, InRun

(* The ranges of two runs, one of them completed, have no id in common.    *)
LEMMA RangesApart ==
    ASSUME IInv, RunsInOrder, NEW r \in Completed, NEW s \in RunIds, r # s,
           runs[s].status # "absent"
    PROVE  runs[r].end < runs[s].start \/ runs[s].end < runs[r].start
  <1>1. r \in RunIds /\ r \in Int /\ s \in Int /\ nRuns \in Int
    BY Numbers DEF Completed, IInv
  <1>2. r <= nRuns /\ s <= nRuns
    BY <1>1 DEF IInv, RunOK, Completed
  <1>3. r \in 1 .. nRuns /\ s \in 1 .. nRuns
    BY <1>1, <1>2, BoundsAssumption DEF RunIds
  <1>4. CASE r < s
    BY <1>3, <1>4 DEF RunsInOrder
  <1>5. CASE s < r
    BY <1>3, <1>5 DEF RunsInOrder
  <1> QED
    BY <1>1, <1>4, <1>5

(* While no run is active, every row of scan_runs is completed.            *)
LEMMA NoneActive ==
    ASSUME TypeOK, RunsInOrder, Active = {}, NEW r \in 1 .. nRuns
    PROVE  r \in Completed
  <1>1. r \in RunIds
    BY BoundsAssumption DEF TypeOK, RunIds
  <1>2. runs[r] \in RunRows
    BY <1>1 DEF TypeOK
  <1>3. runs[r].status \in {"absent", "running", "paused", "completed"}
    BY <1>2 DEF RunRows
  <1> QED
    BY <1>1, <1>3 DEF Active, Completed, RunsInOrder

(* An id the cleanup deletes is in the range of an old completed run, so   *)
(* in the range of no other one.                                           *)
LEMMA DeletedIsOld ==
    ASSUME IInv, CleanupRun, NEW a \in addresses \ addresses'
    PROVE  \E r \in Completed : runs[r].old /\ runs[r].start <= a /\ a <= runs[r].end
  <1>1. a \in Candidates
    BY DEF CleanupRun, Lowest
  <1> QED
    BY <1>1 DEF Candidates, InOldRun

-----------------------------------------------------------------------------
(* The imports and the cleanup keep the invariant. *)

(* An import only adds addresses.                                          *)
LEMMA AloneImport ==
    ASSUME AloneInv, NEW i \in Imports, ImportInsert(i) \/ ImportCommit(i) \/ ImportRollback(i)
    PROVE  AloneInv'
  <1>1. addresses \subseteq addresses' /\ UNCHANGED <<nRuns, runs, pc, job>>
    BY DEF ImportInsert, ImportCommit, ImportRollback, procState
  <1>2. RunsInOrder'
    BY <1>1 DEF AloneInv, RunsInOrder
  <1>3. \A r \in RunIds : AloneRun(r)'
    BY <1>1 DEF AloneInv, AloneRun, Active, Completed
  <1>4. \A p \in Procs : AloneProc(p)'
    BY <1>1 DEF AloneInv, AloneProc, Active, Completed
  <1> QED
    BY <1>2, <1>3, <1>4 DEF AloneInv

(* The age of a completed run does not matter to a scan.                   *)
LEMMA AloneRetention ==
    ASSUME IInv, AloneInv, NEW s \in RunIds, RetentionElapses(s)
    PROVE  AloneInv'
  <1>1. UNCHANGED <<addresses, nRuns, pc, job>> /\ s \in Completed
    BY DEF RetentionElapses, procState
  <1>2. \A r \in RunIds : /\ runs'[r].start = runs[r].start /\ runs'[r].end = runs[r].end
                          /\ runs'[r].cursor = runs[r].cursor /\ runs'[r].status = runs[r].status
                          /\ r # s => runs'[r] = runs[r]
    <2>1. \A r \in RunIds : runs[r] \in RunRows
      BY DEF IInv, TypeOK
    <2> QED
      BY <2>1 DEF RetentionElapses, IInv, TypeOK, RunRows
  <1>3. 1 .. nRuns \subseteq RunIds
    BY BoundsAssumption DEF IInv, TypeOK, RunIds
  <1>4. RunsInOrder'
    BY <1>1, <1>2, <1>3 DEF AloneInv, RunsInOrder
  <1>5. Active' = Active /\ Completed' = Completed
    BY <1>2 DEF Active, Completed
  <1>6. \A r \in RunIds : AloneRun(r)'
    BY <1>1, <1>2, <1>5 DEF AloneInv, AloneRun
  <1>7. \A p \in Procs : AloneProc(p)'
    <2> SUFFICES ASSUME NEW p \in Procs PROVE AloneProc(p)'
      OBVIOUS
    <2>1. AloneProc(p)
      BY DEF AloneInv
    <2>2. pc[p] \in InRun => job[p].run \in RunIds
      BY RunOfProcess DEF IInv
    <2>3. pc[p] = "complete" => pc[p] \in InRun
      BY DEF InRun
    <2>4. \A r \in Completed : runs'[r].end = runs[r].end
      BY <1>2 DEF Completed
    <2> QED
      BY <1>1, <1>2, <1>5, <2>1, <2>2, <2>3, <2>4 DEF AloneProc
  <1> QED
    BY <1>4, <1>6, <1>7 DEF AloneInv

(* The cleanup leaves the addresses of the run that is under way, and of   *)
(* the one that is about to be created.                                    *)
LEMMA AloneCleanup ==
    ASSUME IInv, AloneInv, CleanupRun
    PROVE  AloneInv'
  <1>1. UNCHANGED <<nRuns, runs, pc, job>>
    BY DEF CleanupRun, procState
  <1>2. RunsInOrder'
    BY <1>1 DEF AloneInv, RunsInOrder
  <1>3. \A r \in RunIds : AloneRun(r)'
    <2> SUFFICES ASSUME NEW r \in RunIds PROVE AloneRun(r)'
      OBVIOUS
    <2>1. ASSUME r \in Active PROVE runs[r].end \in addresses'
      <3> SUFFICES ASSUME runs[r].end \notin addresses' PROVE FALSE
        OBVIOUS
      <3>1. runs[r].end \in addresses
        BY <2>1 DEF AloneInv, AloneRun
      <3>2. PICK s \in Completed : /\ runs[s].start <= runs[r].end
                                   /\ runs[r].end <= runs[s].end
        BY <3>1, DeletedIsOld
      <3>3. r # s /\ runs[r].status # "absent" /\ s \in RunIds
        BY <2>1, <3>2 DEF Active, Completed
      <3>4. runs[s].end < runs[r].start \/ runs[r].end < runs[s].start
        BY <3>3, RangesApart DEF AloneInv
      <3>5. runs[r].start <= runs[r].end
        BY <3>3 DEF IInv, RunOK
      <3>6. /\ runs[r].start \in Int /\ runs[r].end \in Int
            /\ runs[s].start \in Int /\ runs[s].end \in Int
        BY <3>3, Numbers DEF IInv
      <3> QED
        BY <3>2, <3>4, <3>5, <3>6
    <2>2. AloneRun(r)
      BY DEF AloneInv
    <2> QED
      BY <1>1, <2>1, <2>2 DEF AloneRun, Active, Completed
  <1>4. \A p \in Procs : AloneProc(p)'
    <2> SUFFICES ASSUME NEW p \in Procs PROVE AloneProc(p)'
      OBVIOUS
    <2>1. AloneProc(p)
      BY DEF AloneInv
    <2>2. ASSUME pc[p] = "create" PROVE job[p].hi \in addresses'
      <3> SUFFICES ASSUME job[p].hi \notin addresses' PROVE FALSE
        OBVIOUS
      <3>1. job[p].hi \in addresses /\ \A r \in Completed : runs[r].end < job[p].lo
        BY <2>1, <2>2 DEF AloneProc
      <3>2. PICK s \in Completed : job[p].hi <= runs[s].end
        BY <3>1, DeletedIsOld
      <3>3. job[p].lo <= job[p].hi
        BY <2>2 DEF IInv, ProcOK
      <3>4. job[p].lo \in Int /\ job[p].hi \in Int /\ runs[s].end \in Int
        BY Numbers DEF IInv, Completed
      <3> QED
        BY <3>1, <3>2, <3>3, <3>4
    <2> QED
      BY <1>1, <2>1, <2>2 DEF AloneProc, Active, Completed
  <1> QED
    BY <1>2, <1>3, <1>4 DEF AloneInv

-----------------------------------------------------------------------------
(* The statements of the scan keep the invariant. *)

(* The statements of RunOnce that only read: after ActiveScan the process  *)
(* knows the cursor of its run or that no run is active, and UnscannedRange*)
(* yields a range behind every completed run.                              *)
LEMMA AloneRead ==
    ASSUME OneScan, IInv, AloneInv, NEW p \in Procs,
           ActiveScan(p) \/ ReadLastEnd(p) \/ ReadRange(p)
    PROVE  AloneInv'
  <1>0. /\ UNCHANGED <<addresses, nRuns, runs>> /\ AloneProc(p) /\ job[p] \in Jobs
        /\ Active' = Active /\ Completed' = Completed
    BY DEF ActiveScan, ReadLastEnd, ReadRange, tables, AloneInv, Active, Completed, IInv, TypeOK
  <1>1. CASE ActiveScan(p) /\ Active = {} /\ Goto(p, "lastEnd")
    <2>1. pc'[p] = "lastEnd"
      BY <1>1 DEF Goto, IInv, TypeOK
    <2>2. AloneProc(p)'
      BY <1>0, <1>1, <2>1 DEF AloneProc, InRun
    <2> QED
      BY <1>0, <2>2, AloneLocal
  <1>2. ASSUME NEW r \in Active,
               Goto(p, IF runs[r].status = "paused" THEN "resume" ELSE "next"),
               job' = [job EXCEPT ![p].run = r, ![p].cursor = ResumeCursor(r)]
        PROVE  AloneInv'
    <2>1. pc'[p] = IF runs[r].status = "paused" THEN "resume" ELSE "next"
      BY <1>2 DEF Goto, IInv, TypeOK
    <2>2. job'[p].run = r /\ job'[p].cursor = runs[r].cursor
      BY <1>0, <1>2 DEF IInv, TypeOK, Jobs, ResumeCursor
    <2>3. runs[r].status \in {"running", "paused"}
      BY DEF Active
    <2>4. AloneProc(p)'
      BY <1>0, <2>1, <2>2, <2>3 DEF AloneProc, InRun
    <2> QED
      BY <1>0, <2>4, AloneLocal
  <1>3. CASE ReadLastEnd(p)
    <2>1. PICK e \in CompletedEnds : /\ \A f \in CompletedEnds : f <= e
                                     /\ job' = [job EXCEPT ![p].lastEnd = e]
      BY <1>3 DEF ReadLastEnd
    <2>2. pc[p] = "lastEnd" /\ pc'[p] = "range"
      BY <1>3 DEF ReadLastEnd, Goto, IInv, TypeOK
    <2>3. job'[p].lastEnd = e
      BY <1>0, <2>1 DEF IInv, TypeOK, Jobs
    <2>4. \A r \in Completed : runs[r].end <= e
      BY <2>1 DEF CompletedEnds
    <2>5. AloneProc(p)'
      BY <1>0, <2>2, <2>3, <2>4 DEF AloneProc, InRun
    <2> QED
      BY <1>0, <2>5, AloneLocal
  <1>4. CASE Return(p)
    BY <1>0, <1>4, AloneReturn, AloneLocal DEF IInv
  <1>5. ASSUME pc[p] = "range", NEW lo \in addresses, NEW hi \in addresses, lo > job[p].lastEnd,
               job' = [job EXCEPT ![p].lo = lo, ![p].hi = hi], Goto(p, "create")
        PROVE  AloneInv'
    <2>1. pc'[p] = "create"
      BY <1>5 DEF Goto, IInv, TypeOK
    <2>2. job'[p].lo = lo /\ job'[p].hi = hi
      BY <1>0, <1>5 DEF IInv, TypeOK, Jobs
    <2>3. \A r \in Completed : runs[r].end < lo
      <3>1. \A r \in Completed : runs[r].end <= job[p].lastEnd /\ runs[r].end \in Int
        BY <1>0, <1>5, Numbers DEF AloneProc, Completed, IInv
      <3>2. job[p].lastEnd \in Int /\ lo \in Int
        BY Numbers DEF IInv
      <3> QED
        BY <1>5, <3>1, <3>2
    <2>5. Active = {} /\ hi \in addresses
      BY <1>0, <1>5 DEF AloneProc
    <2>4. AloneProc(p)'
      BY <1>0, <2>1, <2>2, <2>3, <2>5 DEF AloneProc, InRun
    <2> QED
      BY <1>0, <2>4, AloneLocal
  <1> QED
    BY <1>1, <1>2, <1>3, <1>4, <1>5 DEF ActiveScan, ReadRange

(* A new run is behind all the others, which are completed.                *)
LEMMA AloneCreate ==
    ASSUME OneScan, IInv, AloneInv, NEW p \in Procs, CreateScan(p)
    PROVE  AloneInv'
  <1>1. AloneProc(p) /\ pc[p] = "create" /\ addresses' = addresses /\ nRuns' = nRuns + 1
    BY DEF CreateScan, AloneInv
  <1>2. /\ Active = {} /\ job[p].hi \in addresses
        /\ \A r \in Completed : runs[r].end < job[p].lo
    BY <1>1 DEF AloneProc
  <1>3. /\ job[p].lo \in Int /\ nRuns \in Int /\ nRuns >= 0
    BY Numbers DEF IInv, TypeOK
  <1>4. PICK n \in RunIds : n = nRuns + 1
    BY <1>3, BoundsAssumption DEF CreateScan, IInv, TypeOK, RunIds
  <1>5. /\ runs'[n].start = job[p].lo /\ runs'[n].end = job[p].hi
        /\ runs'[n].cursor = job[p].lo - 1 /\ runs'[n].status = "running"
        /\ runs'[n].old = FALSE
        /\ \A r \in RunIds : r # n => runs'[r] = runs[r]
    BY <1>4 DEF CreateScan, IInv, TypeOK, NoRun, StartCursor
  <1>6. \A r \in 1 .. nRuns : r \in Completed /\ r \in RunIds /\ r # n /\ r \in Int
    BY <1>2, <1>3, <1>4, NoneActive DEF Completed, AloneInv, IInv
  <1>7. \A r \in 1 .. nRuns : runs[r].status = "completed" /\ runs[r].end < job[p].lo
    BY <1>2, <1>6 DEF Completed
  <1>8. RunsInOrder'
    <2>1. \A r \in 1 .. nRuns' : r \in 1 .. nRuns \/ r = n
      BY <1>1, <1>3, <1>4
    <2>2. \A r \in 1 .. nRuns' : r < n => r \in 1 .. nRuns
      BY <1>1, <1>3, <1>4
    <2>3. \A r \in 1 .. nRuns : ~(n < r)
      BY <1>3, <1>4
    <2>4. ASSUME NEW s \in 1 .. nRuns', NEW r \in 1 .. nRuns', r < s
          PROVE  runs'[r].status = "completed" /\ runs'[r].end < runs'[s].start
      <3>1. r \in 1 .. nRuns
        BY <1>1, <1>3, <1>4, <2>4
      <3>2. CASE s = n
        BY <1>5, <1>6, <1>7, <3>1, <3>2
      <3>3. CASE s \in 1 .. nRuns
        BY <1>5, <1>6, <2>4, <3>1, <3>3 DEF AloneInv, RunsInOrder
      <3> QED
        BY <2>1, <3>2, <3>3
    <2>5. \A s \in 1 .. nRuns' : runs'[s].status # "absent"
      BY <1>5, <1>6, <1>7, <2>1
    <2> QED
      BY <2>4, <2>5 DEF RunsInOrder
  <1>9. \A r \in RunIds : AloneRun(r)'
    <2>1. AloneRun(n)'
      BY <1>1, <1>2, <1>5 DEF AloneRun, Active, Completed
    <2>2. ASSUME NEW r \in RunIds, r # n PROVE AloneRun(r)'
      BY <1>1, <1>5, <2>2 DEF AloneInv, AloneRun, Active, Completed
    <2> QED
      BY <2>1, <2>2
  <1>10. AloneProc(p)'
    <2>1. pc'[p] = "next"
      BY DEF CreateScan, Goto, IInv, TypeOK
    <2>2. job'[p].run = n /\ job'[p].cursor = job[p].lo - 1
      BY <1>4 DEF CreateScan, IInv, TypeOK, NoJob, StartCursor
    <2> QED
      BY <1>5, <2>1, <2>2 DEF AloneProc, InRun
  <1> QED
    BY <1>8, <1>9, <1>10 DEF AloneInv, OneScan

(* A page of the run ends behind its cursor, and no page left means that   *)
(* the cursor is at the end, whose address is still there.                 *)
LEMMA AloneNextAddresses ==
    ASSUME OneScan, IInv, AloneInv, NEW p \in Procs, NextAddresses(p)
    PROVE  AloneInv'
  <1> DEFINE run == runs[job[p].run]
  <1> DEFINE page == Lowest(Pending(p), BatchSize)
  <1>1. UNCHANGED <<addresses, nRuns, runs>> /\ pc[p] = "next" /\ AloneProc(p)
    BY DEF NextAddresses, tables, AloneInv
  <1>2. run.cursor = job[p].cursor /\ run.status = "running" /\ job[p].run \in RunIds
    BY <1>1, RunOfProcess DEF AloneProc, InRun, IInv
  <1>3. run.end \in Int /\ job[p].cursor \in Int /\ addresses \subseteq Int
    BY <1>2, Numbers DEF IInv
  <1>4. job[p].cursor <= run.end
    BY <1>1 DEF IInv, ProcOK
  <1>5. CASE Pending(p) = {} /\ Goto(p, "complete") /\ UNCHANGED job
    <2>1. pc'[p] = "complete"
      BY <1>5 DEF Goto, IInv, TypeOK
    <2>2. run.end \in addresses
      BY <1>2 DEF AloneInv, AloneRun, Active
    <2>3. run.end = job[p].cursor
      BY <1>3, <1>4, <1>5, <2>2 DEF Pending
    <2>4. AloneProc(p)'
      BY <1>1, <1>2, <1>5, <2>1, <2>3 DEF AloneProc, InRun
    <2> QED
      BY <1>1, <2>4, AloneLocal
  <1>6. ASSUME NEW m \in page, Goto(p, "batch"),
               job' = [job EXCEPT ![p].todo = page, ![p].last = m,
                                  ![p].pause = FALSE, ![p].tally = NoCounts]
        PROVE  AloneInv'
    <2>1. pc'[p] = "batch"
      BY <1>6 DEF Goto, IInv, TypeOK
    <2>2. m > job[p].cursor
      BY <1>6 DEF Lowest, Pending
    <2> HIDE DEF page
    <2>3. job'[p].run = job[p].run /\ job'[p].cursor = job[p].cursor /\ job'[p].last = m
      <3>1. job[p] \in Jobs
        BY DEF IInv, TypeOK
      <3> QED
        BY <1>6, <3>1 DEF IInv, TypeOK, Jobs
    <2>4. m \in Int
      BY <1>3, <1>6 DEF page, Lowest, Pending
    <2>5. AloneProc(p)'
      BY <1>1, <1>2, <1>3, <2>1, <2>2, <2>3, <2>4 DEF AloneProc, InRun
    <2> QED
      BY <1>1, <2>5, AloneLocal
  <1> QED
    BY <1>5, <1>6 DEF NextAddresses

(* A result is taken off the batch and counted as one processed address.   *)
LEMMA ResultTaken ==
    ASSUME IInv, NEW p \in Procs, TakeResult(p)
    PROVE  \E a \in job[p].todo :
             /\ job'[p].run = job[p].run /\ job'[p].cursor = job[p].cursor
             /\ job'[p].last = job[p].last /\ job'[p].todo = job[p].todo \ {a}
             /\ job'[p].tally.processed = Saturate(job[p].tally.processed + 1)
  <1>1. PICK a \in job[p].todo, pause \in BOOLEAN :
          \E answer \in [Chain(a) -> Answers] : TakeAnswer(p, a, pause, answer)
    BY DEF TakeResult
  <1>2. PICK answer \in [Chain(a) -> Answers] : TakeAnswer(p, a, pause, answer)
    BY <1>1
  <1> DEFINE counts == ResultCounts(Failed(a, answer), Answered(a, answer, "positive"))
  <1> DEFINE tally == AddCounts(job[p].tally, counts)
  <1>3. tally.processed = Saturate(job[p].tally.processed + 1)
    BY DEF AddCounts, ResultCounts
  <1>4. job' = [job EXCEPT ![p].todo = @ \ {a}, ![p].tally = tally]
    BY <1>2 DEF TakeAnswer
  <1> HIDE DEF tally
  <1>5. job[p] \in Jobs
    BY DEF IInv, TypeOK
  <1>6. /\ job'[p].run = job[p].run /\ job'[p].cursor = job[p].cursor
        /\ job'[p].last = job[p].last /\ job'[p].todo = job[p].todo \ {a}
        /\ job'[p].tally = tally
    BY <1>4, <1>5 DEF IInv, TypeOK, Jobs
  <1> QED
    BY <1>3, <1>6

(* The statements that persist a result change neither the run nor what    *)
(* the process holds of it.                                                *)
LEMMA AlonePersist ==
    ASSUME OneScan, IInv, AloneInv, NEW p \in Procs,
           TakeResult(p) \/ RecordRetry(p) \/ CloseRetry(p) \/ SavePositiveFindings(p)
    PROVE  AloneInv'
  <1>1. UNCHANGED <<addresses, nRuns, runs>> /\ AloneProc(p)
    BY DEF TakeResult, RecordRetry, CloseRetry, SavePositiveFindings, tables, AloneInv
  <1>2. pc[p] \in {"batch", "persist", "close"} /\ pc'[p] \in {"batch", "persist", "close"}
    BY DEF TakeResult, RecordRetry, CloseRetry, SavePositiveFindings, Goto, IInv, TypeOK
  <1>3. job'[p].run = job[p].run /\ job'[p].cursor = job[p].cursor /\ job'[p].last = job[p].last
    <2>1. job[p] \in Jobs
      BY DEF IInv, TypeOK
    <2>2. CASE TakeResult(p)
      BY <2>2, ResultTaken
    <2>3. CASE RecordRetry(p) \/ CloseRetry(p)
      BY <2>3 DEF RecordRetry, CloseRetry
    <2>4. CASE SavePositiveFindings(p)
      BY <2>1, <2>4 DEF SavePositiveFindings, IInv, TypeOK, Jobs
    <2> QED
      BY <2>2, <2>3, <2>4
  <1>4. AloneProc(p)'
    BY <1>1, <1>2, <1>3 DEF AloneProc, InRun
  <1> QED
    BY <1>1, <1>4, AloneLocal

(* A change of status of the run the process is in: completed runs stay    *)
(* completed, and only a run whose cursor is at its end becomes one.       *)
LEMMA AloneStatus ==
    ASSUME OneScan, IInv, AloneInv, NEW p \in Procs, NEW s \in RunIds, NEW old, NEW new,
           SetStatus(s, old, new), old \in {"running", "paused"},
           new \in {"running", "paused", "completed"}, runs[s].status = old,
           new = "completed" => runs[s].cursor = runs[s].end,
           UNCHANGED <<addresses, nRuns>>
    PROVE  /\ RunsInOrder'
           /\ \A r \in RunIds : AloneRun(r)'
           /\ \A r \in RunIds : /\ runs'[r].start = runs[r].start /\ runs'[r].end = runs[r].end
                                /\ runs'[r].cursor = runs[r].cursor /\ runs'[r].old = runs[r].old
                                /\ runs'[r].counts = runs[r].counts
                                /\ r # s => runs'[r].status = runs[r].status
           /\ runs'[s].status = new
  <1>0. s \in Active
    BY DEF Active
  <1>1. /\ \A r \in RunIds : /\ runs'[r].start = runs[r].start /\ runs'[r].end = runs[r].end
                             /\ runs'[r].cursor = runs[r].cursor /\ runs'[r].old = runs[r].old
                             /\ runs'[r].counts = runs[r].counts
                             /\ r # s => runs'[r].status = runs[r].status
        /\ runs'[s].status = new
    <2>1. \A r \in RunIds : runs[r] \in RunRows
      BY DEF IInv, TypeOK
    <2> QED
      BY <2>1 DEF SetStatus, IInv, TypeOK, RunRows
  <1>2. 1 .. nRuns \subseteq RunIds
    BY BoundsAssumption DEF IInv, TypeOK, RunIds
  <1>3. RunsInOrder'
    <2>1. \A r \in RunIds : runs[r].status = "completed" => runs'[r].status = "completed"
      BY <1>1
    <2>2. \A r \in RunIds : runs[r].status # "absent" => runs'[r].status # "absent"
      BY <1>1
    <2> QED
      BY <1>1, <1>2, <2>1, <2>2 DEF AloneInv, RunsInOrder
  <1>4. \A r \in RunIds : AloneRun(r)'
    <2> SUFFICES ASSUME NEW r \in RunIds PROVE AloneRun(r)'
      OBVIOUS
    <2>1. AloneRun(r)
      BY DEF AloneInv
    <2>2. CASE r = s
      BY <1>0, <1>1, <2>1, <2>2 DEF AloneRun, Active, Completed
    <2>3. CASE r # s
      BY <1>1, <2>1, <2>3 DEF AloneRun, Active, Completed
    <2> QED
      BY <2>2, <2>3
  <1> QED
    BY <1>1, <1>3, <1>4

(* ResumeScan, PauseScan and CompleteScan keep the invariant.              *)
LEMMA AloneStatusSteps ==
    ASSUME OneScan, IInv, AloneInv, NEW p \in Procs,
           ResumeScan(p) \/ PauseScan(p) \/ CompleteScan(p)
    PROVE  AloneInv'
  <1> DEFINE s == job[p].run
  <1>1. /\ UNCHANGED <<addresses, nRuns>> /\ AloneProc(p)
        /\ pc[p] \in {"resume", "batch", "complete"}
    BY DEF ResumeScan, PauseScan, CompleteScan, AloneInv
  <1>2. s \in RunIds
    BY <1>1, RunOfProcess DEF InRun, IInv
  <1>3. CASE ResumeScan(p)
    <2>1. SetStatus(s, "paused", "running") /\ job' = job /\ pc[p] = "resume"
      BY <1>3 DEF ResumeScan
    <2>2. runs[s].status = "paused" /\ runs[s].cursor = job[p].cursor
      BY <1>1, <2>1 DEF AloneProc, InRun
    <2>3. /\ RunsInOrder' /\ \A r \in RunIds : AloneRun(r)'
          /\ runs'[s].status = "running" /\ runs'[s].cursor = runs[s].cursor
      BY <1>1, <1>2, <2>1, <2>2, AloneStatus
    <2>4. pc'[p] = "next"
      BY <1>3 DEF ResumeScan, Goto, IInv, TypeOK
    <2>5. AloneProc(p)'
      BY <2>1, <2>2, <2>3, <2>4 DEF AloneProc, InRun
    <2> QED
      BY <2>3, <2>5 DEF AloneInv, OneScan
  <1>4. CASE PauseScan(p)
    <2>1. SetStatus(s, "running", "paused") /\ Return(p) /\ pc[p] = "batch"
      BY <1>4 DEF PauseScan
    <2>2. runs[s].status = "running"
      BY <1>1, <2>1 DEF AloneProc, InRun
    <2>3. RunsInOrder' /\ \A r \in RunIds : AloneRun(r)'
      BY <1>1, <1>2, <2>1, <2>2, AloneStatus
    <2>4. AloneProc(p)'
      BY <2>1, AloneReturn DEF IInv
    <2> QED
      BY <2>3, <2>4 DEF AloneInv, OneScan
  <1>5. CASE CompleteScan(p)
    <2>1. SetStatus(s, "running", "completed") /\ Return(p) /\ pc[p] = "complete"
      BY <1>5 DEF CompleteScan
    <2>2. runs[s].status = "running" /\ runs[s].cursor = runs[s].end
      BY <1>1, <2>1 DEF AloneProc, InRun
    <2>3. RunsInOrder' /\ \A r \in RunIds : AloneRun(r)'
      BY <1>1, <1>2, <2>1, <2>2, AloneStatus
    <2>4. AloneProc(p)'
      BY <2>1, AloneReturn DEF IInv
    <2> QED
      BY <2>3, <2>4 DEF AloneInv, OneScan
  <1> QED
    BY <1>3, <1>4, <1>5

(* What the checkpoint of a scan that is alone writes.                     *)
LEMMA AloneCheckpoint ==
    ASSUME IInv, AloneInv, NEW p \in Procs, AdvanceScan(p)
    PROVE  /\ job[p].run \in RunIds /\ runs[job[p].run].status = "running"
           /\ runs[job[p].run].cursor = job[p].cursor /\ job[p].cursor < job[p].last
           /\ runs'[job[p].run].cursor = job[p].last
           /\ runs'[job[p].run].counts = AddCounts(runs[job[p].run].counts, job[p].tally)
           /\ \A r \in RunIds : /\ runs'[r].start = runs[r].start /\ runs'[r].end = runs[r].end
                                /\ runs'[r].status = runs[r].status /\ runs'[r].old = runs[r].old
                                /\ r # job[p].run => runs'[r] = runs[r]
           /\ UNCHANGED <<addresses, nRuns>>
           /\ pc'[p] = "next" /\ job'[p].run = job[p].run /\ job'[p].cursor = job[p].last
  <1>1. pc[p] = "batch" /\ AloneProc(p) /\ UNCHANGED <<addresses, nRuns>>
    BY DEF AdvanceScan, AloneInv
  <1>2. /\ job[p].run \in RunIds /\ runs[job[p].run].status = "running"
        /\ runs[job[p].run].cursor = job[p].cursor /\ job[p].cursor < job[p].last
    BY <1>1, RunOfProcess DEF AloneProc, InRun, IInv
  <1>3. PICK s \in RunIds : s = job[p].run
    BY <1>2
  <1>4. runs' = [runs EXCEPT ![s].cursor = job[p].last, ![s].counts = AddCounts(@, job[p].tally)]
    BY <1>2, <1>3 DEF AdvanceScan, BatchCursor
  <1>5. /\ runs'[s].cursor = job[p].last
        /\ runs'[s].counts = AddCounts(runs[s].counts, job[p].tally)
        /\ \A r \in RunIds : /\ runs'[r].start = runs[r].start /\ runs'[r].end = runs[r].end
                             /\ runs'[r].status = runs[r].status /\ runs'[r].old = runs[r].old
                             /\ r # s => runs'[r] = runs[r]
    <2>1. \A r \in RunIds : runs[r] \in RunRows
      BY DEF IInv, TypeOK
    <2> QED
      BY <1>4, <2>1 DEF IInv, TypeOK, RunRows
  <1>6. pc'[p] = "next" /\ job'[p].run = job[p].run /\ job'[p].cursor = job[p].last
    BY DEF AdvanceScan, Goto, IInv, TypeOK, NoJob, NextCursor, BatchCursor
  <1> QED
    BY <1>1, <1>2, <1>3, <1>5, <1>6

(* AdvanceScan keeps the invariant.                                        *)
LEMMA AloneAdvance ==
    ASSUME OneScan, IInv, AloneInv, NEW p \in Procs, AdvanceScan(p)
    PROVE  AloneInv'
  <1>1. 1 .. nRuns \subseteq RunIds
    BY BoundsAssumption DEF IInv, TypeOK, RunIds
  <1>2. RunsInOrder'
    BY <1>1, AloneCheckpoint DEF AloneInv, RunsInOrder
  <1>3. \A r \in RunIds : AloneRun(r)'
    <2> SUFFICES ASSUME NEW r \in RunIds PROVE AloneRun(r)'
      OBVIOUS
    <2>1. AloneRun(r)
      BY DEF AloneInv
    <2>2. r \in Completed => runs'[r] = runs[r]
      BY AloneCheckpoint DEF Completed
    <2>3. Active' = Active /\ Completed' = Completed
      BY AloneCheckpoint DEF Active, Completed
    <2>4. runs'[r].end = runs[r].end /\ runs'[r].old = runs[r].old /\ addresses' = addresses
      BY AloneCheckpoint
    <2> QED
      BY <2>1, <2>2, <2>3, <2>4 DEF AloneRun
  <1>4. AloneProc(p)'
    BY AloneCheckpoint DEF AloneProc, InRun
  <1> QED
    BY <1>2, <1>3, <1>4 DEF AloneInv, OneScan

-----------------------------------------------------------------------------
(* The checkpoint of a scan that is alone *)

(* Every step keeps the invariant.                                         *)
LEMMA AloneNext ==
    ASSUME OneScan, IInv, AloneInv, [Next]_vars
    PROVE  AloneInv'
  <1>1. ASSUME NEW i \in Imports, ImportInsert(i) \/ ImportCommit(i) \/ ImportRollback(i)
        PROVE  AloneInv'
    BY <1>1, AloneImport
  <1>2. ASSUME NEW p \in Procs, ActiveScan(p) PROVE AloneInv'
    BY <1>2, AloneRead
  <1>3. ASSUME NEW p \in Procs, Step(p) \/ Crash(p) PROVE AloneInv'
    <2>1. CASE ForeignKeyError(p) \/ Crash(p)
      <3>1. Return(p) /\ UNCHANGED <<addresses, nRuns, runs>>
        BY <2>1 DEF ForeignKeyError, Crash, tables
      <3> QED
        BY <3>1, AloneReturn, AloneLocal DEF IInv
    <2> QED
      BY <1>3, <2>1, AloneRead, AloneCreate, AloneStatusSteps, AloneNextAddresses, AlonePersist,
         AloneAdvance DEF Step
  <1>4. ASSUME NEW r \in RunIds, RetentionElapses(r) PROVE AloneInv'
    BY <1>4, AloneRetention
  <1>5. CASE CleanupRun
    BY <1>5, AloneCleanup
  <1>6. CASE UNCHANGED vars
    <2>1. UNCHANGED <<addresses, nRuns, runs, pc, job>>
      BY <1>6 DEF vars, tables, procState
    <2> QED
      BY <2>1 DEF AloneInv, RunsInOrder, AloneRun, AloneProc, Active, Completed
  <1> QED
    BY <1>1, <1>2, <1>3, <1>4, <1>5, <1>6 DEF Next

(* The invariant holds in every state reached with one scan at a time.     *)
LEMMA AloneInvariance ==
    ASSUME OneScan
    PROVE  Spec => []AloneInv
  <1>1. Init => AloneInv
    <2> SUFFICES ASSUME Init PROVE AloneInv
      OBVIOUS
    <2>1. RunsInOrder
      BY DEF Init, RunsInOrder
    <2>2. \A r \in RunIds : AloneRun(r)
      BY DEF Init, AloneRun, Active, Completed, NoRun
    <2>3. \A p \in Procs : AloneProc(p)
      BY DEF Init, AloneProc, InRun
    <2> QED
      BY <2>1, <2>2, <2>3 DEF AloneInv
  <1>2. IInv /\ AloneInv /\ [Next]_vars => AloneInv'
    BY AloneNext
  <1> QED
    BY <1>1, <1>2, Invariance, PTL DEF Spec

(* The comment on CompleteScan, "after its cursor reaches the end": with   *)
(* one scan at a time a completed run has its cursor at its end, however   *)
(* often the scan crashed, paused and resumed and whatever imports and     *)
(* cleanups did in the meantime.                                           *)
THEOREM CompletedRunsReachedEnd == OneScan => (Spec => []CompletedAtEnd)
  <1> SUFFICES ASSUME OneScan PROVE Spec => []CompletedAtEnd
    OBVIOUS
  <1>1. AloneInv => CompletedAtEnd
    BY DEF AloneInv, AloneRun, CompletedAtEnd, Completed
  <1> QED
    BY <1>1, AloneInvariance, PTL

\* What a step may do to the row of a run.
RunsAdvance ==
    \A r \in 1 .. nRuns :
        /\ runs[r].cursor <= runs'[r].cursor
        /\ runs[r].start = runs'[r].start /\ runs[r].end = runs'[r].end
        /\ runs[r].status = "completed" => runs'[r].status = "completed"

(* A step moves the cursor of a run forward or not at all.                 *)
LEMMA AdvanceOnly ==
    ASSUME OneScan, IInv, AloneInv, [Next]_vars
    PROVE  RunsAdvance
  <1>1. \A r \in 1 .. nRuns : r \in RunIds /\ runs[r] \in RunRows /\ runs[r].cursor \in Int
    BY Numbers, BoundsAssumption DEF IInv, TypeOK, RunIds
  <1>2. CASE UNCHANGED runs
    BY <1>1, <1>2 DEF RunsAdvance
  <1>3. ASSUME NEW p \in Procs, CreateScan(p) PROVE RunsAdvance
    <2>1. nRuns \in Int
      BY Numbers DEF IInv
    <2>2. \A r \in 1 .. nRuns : runs'[r] = runs[r]
      BY <1>1, <1>3, <2>1 DEF CreateScan, IInv, TypeOK
    <2> QED
      BY <1>1, <2>2 DEF RunsAdvance
  <1>4. ASSUME NEW s \in RunIds, NEW old, NEW new, old # "completed", SetStatus(s, old, new)
        PROVE  RunsAdvance
    <2>1. \A r \in 1 .. nRuns :
            /\ runs'[r].cursor = runs[r].cursor
            /\ runs'[r].start = runs[r].start /\ runs'[r].end = runs[r].end
            /\ runs[r].status = "completed" => runs'[r].status = "completed"
      BY <1>1, <1>4 DEF SetStatus, IInv, TypeOK, RunRows
    <2> QED
      BY <1>1, <2>1 DEF RunsAdvance
  <1>5. ASSUME NEW p \in Procs, ResumeScan(p) \/ PauseScan(p) \/ CompleteScan(p) PROVE RunsAdvance
    <2>1. job[p].run \in RunIds
      BY <1>5, RunOfProcess DEF ResumeScan, PauseScan, CompleteScan, InRun, IInv
    <2> QED
      BY <1>4, <1>5, <2>1 DEF ResumeScan, PauseScan, CompleteScan
  <1>6. ASSUME NEW p \in Procs, AdvanceScan(p) PROVE RunsAdvance
    <2>1. job[p].last \in Int /\ job[p].cursor \in Int
      BY Numbers DEF IInv
    <2> QED
      BY <1>1, <1>6, <2>1, AloneCheckpoint DEF RunsAdvance
  <1>7. ASSUME NEW s \in RunIds, RetentionElapses(s) PROVE RunsAdvance
    <2>1. \A r \in 1 .. nRuns :
            /\ runs'[r].cursor = runs[r].cursor
            /\ runs'[r].start = runs[r].start /\ runs'[r].end = runs[r].end
            /\ runs'[r].status = runs[r].status
      BY <1>1, <1>7 DEF RetentionElapses, IInv, TypeOK, RunRows
    <2> QED
      BY <1>1, <2>1 DEF RunsAdvance
  <1> QED
    BY <1>2, <1>3, <1>5, <1>6, <1>7 DEF Next, Step, vars, tables, ImportInsert, ImportCommit,
       ImportRollback, ActiveScan, ReadLastEnd, ReadRange, NextAddresses, TakeResult, RecordRetry,
       CloseRetry, SavePositiveFindings, ForeignKeyError, Crash, CleanupRun

(* The checkpoint of a run never moves back with one scan at a time, a     *)
(* completed run stays completed and no run changes its range: what a      *)
(* restart resumes from is never behind what was done.                     *)
THEOREM CheckpointsAdvance == OneScan => (Spec => CheckpointMonotonic)
  <1> SUFFICES ASSUME OneScan PROVE Spec => CheckpointMonotonic
    OBVIOUS
  <1>1. IInv /\ AloneInv /\ [Next]_vars => [RunsAdvance]_vars
    BY AdvanceOnly
  <1>2. CheckpointMonotonic <=> [][RunsAdvance]_vars
    BY PTL DEF CheckpointMonotonic, RunsAdvance
  <1> QED
    BY <1>1, <1>2, Invariance, AloneInvariance, PTL DEF Spec

-----------------------------------------------------------------------------
(* Each address is counted once.  MaxCount caps the counters of the model  *)
(* only, so it is taken large enough never to matter.                      *)

CountsFit == MaxCount >= MaxId

(* A set of addresses is finite and no larger than the counters reach.     *)
LEMMA AddressesFit ==
    ASSUME TypeOK, CountsFit, NEW S \in SUBSET addresses
    PROVE  IsFiniteSet(S) /\ Cardinality(S) \in Nat /\ Cardinality(S) <= MaxCount
  <1>1. IsFiniteSet(Ids) /\ Cardinality(Ids) = MaxId
    BY FS_Interval, BoundsAssumption DEF Ids
  <1>2. S \subseteq Ids
    BY DEF TypeOK
  <1>3. IsFiniteSet(S) /\ Cardinality(S) <= Cardinality(Ids) /\ Cardinality(S) \in Nat
    BY <1>1, <1>2, FS_Subset, FS_CardinalityType
  <1> QED
    BY <1>1, <1>3, BoundsAssumption DEF CountsFit

(* A step that adds or deletes no address between the start of a run and   *)
(* its cursor, or in the batch, and leaves the counters alone.             *)
LEMMA CountFrame ==
    ASSUME CountInv,
           \A r \in RunIds :
             runs'[r].status # "absent" /\ ~runs'[r].old =>
               /\ runs[r].status # "absent" /\ ~runs[r].old
               /\ runs'[r].counts = runs[r].counts /\ Behind(r)' = Behind(r),
           \A p \in Procs :
             pc'[p] \in {"batch", "persist", "close"} =>
               /\ pc[p] \in {"batch", "persist", "close"} /\ Batch(p)' = Batch(p)
               /\ job'[p].todo = job[p].todo /\ job'[p].tally = job[p].tally
    PROVE  CountInv'
  BY DEF CountInv

(* A step that changes neither the addresses nor the runs.                 *)
LEMMA CountLocal ==
    ASSUME OneScan, CountInv, UNCHANGED <<addresses, runs>>, NEW p \in Procs,
           pc'[p] \in {"batch", "persist", "close"} =>
             /\ job'[p].todo \subseteq Batch(p)'
             /\ job'[p].tally.processed = Cardinality(Batch(p)' \ job'[p].todo)
    PROVE  CountInv'
  <1>1. \A r \in RunIds : Behind(r)' = Behind(r)
    BY DEF Behind
  <1> QED
    BY <1>1 DEF CountInv, OneScan

(* What an import commits lies behind every run; the cleanup deletes only  *)
(* what lies within an old run.                                            *)
LEMMA CountTables ==
    ASSUME IInv, AloneInv, SerialInv, CountInv,
           \/ \E i \in Imports : ImportInsert(i) \/ ImportCommit(i) \/ ImportRollback(i)
           \/ CleanupRun
    PROVE  CountInv'
  <1>1. UNCHANGED <<runs, pc, job>>
    BY DEF ImportInsert, ImportCommit, ImportRollback, CleanupRun, procState
  <1>2. addresses' \subseteq Int /\ addresses \subseteq Int /\ high \in Int
    <2>1. TypeOK /\ TypeOK'
      BY TypeNext DEF IInv, Next
    <2> QED
      BY <2>1, BoundsAssumption DEF TypeOK, Ids
  <1>3. \A a \in addresses' \ addresses : a > high
    BY DEF ImportInsert, ImportCommit, ImportRollback, CleanupRun, SerialInv
  <1>4. \A a \in addresses \ addresses' :
          \E s \in Completed : runs[s].old /\ runs[s].start <= a /\ a <= runs[s].end
    <2>1. CASE CleanupRun
      BY <2>1, DeletedIsOld
    <2>2. CASE \E i \in Imports : ImportInsert(i) \/ ImportCommit(i) \/ ImportRollback(i)
      BY <2>2 DEF ImportInsert, ImportCommit, ImportRollback
    <2> QED
      BY <2>1, <2>2
  <1>5. ASSUME NEW r \in RunIds, runs[r].status # "absent", ~runs[r].old, NEW a \in Int,
               runs[r].start <= a, a <= runs[r].end
        PROVE  a \in addresses' <=> a \in addresses
    <2>1. runs[r].end \in Int /\ runs[r].start \in Int /\ runs[r].end <= high
      BY <1>5, Numbers DEF IInv, RunOK
    <2>2. CASE a \in addresses' \ addresses
      BY <1>2, <1>3, <1>5, <2>1, <2>2
    <2>3. CASE a \in addresses \ addresses'
      <3>1. PICK s \in Completed : runs[s].old /\ runs[s].start <= a /\ a <= runs[s].end
        BY <1>4, <2>3
      <3>2. s # r /\ s \in RunIds
        BY <1>5, <3>1 DEF Completed
      <3>3. runs[s].end < runs[r].start \/ runs[r].end < runs[s].start
        BY <1>5, <3>2, RangesApart DEF AloneInv
      <3>4. runs[s].end \in Int /\ runs[s].start \in Int
        BY <3>2, Numbers DEF IInv
      <3> QED
        BY <1>5, <2>1, <3>1, <3>3, <3>4
    <2> QED
      BY <2>2, <2>3
  <1>6. ASSUME NEW r \in RunIds, runs[r].status # "absent", ~runs[r].old
        PROVE  Behind(r)' = Behind(r)
    <2>1. runs[r].cursor <= runs[r].end /\ runs[r].cursor \in Int /\ runs[r].end \in Int
      BY Numbers DEF IInv, RunOK
    <2>2. \A a \in Int : runs[r].start <= a /\ a <= runs[r].cursor =>
            (a \in addresses' <=> a \in addresses)
      BY <1>5, <1>6, <2>1
    <2> QED
      BY <1>1, <1>2, <2>2 DEF Behind
  <1>7. ASSUME NEW p \in Procs, pc[p] \in {"batch", "persist", "close"}
        PROVE  Batch(p)' = Batch(p)
    <2>1. PICK s \in RunIds : s = job[p].run /\ runs[s].status = "running"
      BY <1>7, RunOfProcess DEF AloneInv, AloneProc, InRun, IInv
    <2>2. ~runs[s].old
      BY <2>1 DEF AloneInv, AloneRun, Completed
    <2>3. runs[s].start <= job[p].cursor + 1 /\ job[p].last <= runs[s].end
      BY <1>7, <2>1 DEF IInv, ProcOK
    <2>4. /\ runs[s].start \in Int /\ runs[s].end \in Int
          /\ job[p].cursor \in Int /\ job[p].last \in Int
      BY Numbers DEF IInv
    <2>5. \A a \in Int : job[p].cursor < a /\ a <= job[p].last =>
            runs[s].start <= a /\ a <= runs[s].end
      BY <2>3, <2>4
    <2>6. \A a \in Int : job[p].cursor < a /\ a <= job[p].last =>
            (a \in addresses' <=> a \in addresses)
      BY <1>5, <2>1, <2>2, <2>5
    <2> QED
      BY <1>1, <1>2, <2>6 DEF Batch
  <1> QED
    BY <1>1, <1>6, <1>7, CountFrame

(* A new page: nothing of it is counted yet.                               *)
LEMMA CountNextAddresses ==
    ASSUME OneScan, IInv, AloneInv, CountInv, NEW p \in Procs, NextAddresses(p)
    PROVE  CountInv'
  <1> DEFINE page == Lowest(Pending(p), BatchSize)
  <1>1. UNCHANGED <<addresses, runs>> /\ pc[p] = "next"
    BY DEF NextAddresses, tables
  <1>2. CASE Goto(p, "complete")
    <2>1. pc'[p] = "complete"
      BY <1>2 DEF Goto, IInv, TypeOK
    <2> QED
      BY <1>1, <2>1, CountLocal
  <1>3. ASSUME NEW m \in page, \A a \in page : a <= m, Goto(p, "batch"),
               job' = [job EXCEPT ![p].todo = page, ![p].last = m,
                                  ![p].pause = FALSE, ![p].tally = NoCounts]
        PROVE  CountInv'
    <2>1. /\ page \subseteq Pending(p)
          /\ \A a \in page, b \in Pending(p) : b <= a => b \in page
      BY LowestIsPrefix, BoundsAssumption DEF Pending, IInv, TypeOK
    <2> HIDE DEF page
    <2>2. /\ job'[p].cursor = job[p].cursor /\ job'[p].last = m /\ job'[p].todo = page
          /\ job'[p].tally = NoCounts
      <3>1. job[p] \in Jobs
        BY DEF IInv, TypeOK
      <3> QED
        BY <1>3, <3>1 DEF IInv, TypeOK, Jobs
    <2>3. runs[job[p].run].end \in Int /\ addresses \subseteq Int
      BY <1>1, RunOfProcess, Numbers DEF IInv, InRun
    <2>4. m \in addresses /\ m \in Int /\ m <= runs[job[p].run].end
      BY <1>3, <2>1, <2>3 DEF Pending
    <2>5. page = {a \in addresses : job[p].cursor < a /\ a <= m}
      <3>1. \A a \in page : a \in addresses /\ job[p].cursor < a /\ a <= m
        <4>1. job[p].cursor \in Int
          BY Numbers DEF IInv
        <4> QED
          BY <1>3, <2>1, <2>3, <4>1 DEF Pending
      <3>2. ASSUME NEW a \in addresses, job[p].cursor < a, a <= m PROVE a \in page
        <4>1. a \in Int /\ job[p].cursor \in Int
          BY <2>3, Numbers DEF IInv
        <4>2. a \in Pending(p)
          BY <2>3, <2>4, <3>2, <4>1 DEF Pending
        <4> QED
          BY <1>3, <2>1, <3>2, <4>2
      <3> QED
        BY <3>1, <3>2
    <2>6. Batch(p)' = page
      BY <1>1, <2>2, <2>5 DEF Batch
    <2>7. job'[p].tally.processed = 0 /\ Cardinality(Batch(p)' \ job'[p].todo) = 0
      <3>1. Batch(p)' \ job'[p].todo = {}
        BY <2>2, <2>6
      <3> QED
        BY <2>2, <3>1, FS_EmptySet DEF NoCounts
    <2> QED
      BY <1>1, <2>2, <2>6, <2>7, CountLocal
  <1> QED
    BY <1>2, <1>3 DEF NextAddresses

(* A result moves from what is to be done to what is counted.              *)
LEMMA CountTakeResult ==
    ASSUME OneScan, CountsFit, IInv, AloneInv, CountInv, NEW p \in Procs, TakeResult(p)
    PROVE  CountInv'
  <1> DEFINE done == Batch(p) \ job[p].todo
  <1>1. UNCHANGED <<addresses, runs>> /\ pc[p] = "batch"
    BY DEF TakeResult, tables
  <1>2. PICK a \in job[p].todo :
             /\ job'[p].run = job[p].run /\ job'[p].cursor = job[p].cursor
             /\ job'[p].last = job[p].last /\ job'[p].todo = job[p].todo \ {a}
             /\ job'[p].tally.processed = Saturate(job[p].tally.processed + 1)
    BY ResultTaken
  <1>3. job[p].todo \subseteq Batch(p) /\ job[p].tally.processed = Cardinality(done)
    BY <1>1 DEF CountInv
  <1>4. Batch(p)' = Batch(p)
    BY <1>1, <1>2 DEF Batch
  <1>5. Batch(p) \ job'[p].todo = done \cup {a} /\ a \notin done
    BY <1>2, <1>3
  <1>6. done \subseteq addresses /\ done \cup {a} \subseteq addresses
    BY <1>3 DEF Batch
  <1> HIDE DEF done
  <1>7. IsFiniteSet(done) /\ Cardinality(done) \in Nat
        /\ Cardinality(done \cup {a}) \in Nat /\ Cardinality(done \cup {a}) <= MaxCount
    BY <1>6, AddressesFit DEF IInv
  <1>8. Cardinality(done \cup {a}) = Cardinality(done) + 1
    BY <1>5, <1>7, FS_AddElement
  <1>9. job'[p].tally.processed = Cardinality(Batch(p)' \ job'[p].todo)
    BY <1>2, <1>3, <1>4, <1>5, <1>7, <1>8, BoundsAssumption DEF Saturate
  <1>10. job'[p].todo \subseteq Batch(p)'
    BY <1>2, <1>3, <1>4
  <1> QED
    BY <1>1, <1>9, <1>10, CountLocal

(* The checkpoint adds the batch to the run, and nothing of it twice.      *)
LEMMA CountAdvance ==
    ASSUME OneScan, CountsFit, IInv, AloneInv, CountInv, NEW p \in Procs, AdvanceScan(p)
    PROVE  CountInv'
  <1>1. PICK s \in RunIds : s = job[p].run
    BY AloneCheckpoint
  <1>2. /\ runs[s].status = "running" /\ runs[s].cursor = job[p].cursor
        /\ job[p].cursor < job[p].last /\ runs'[s].cursor = job[p].last
        /\ runs'[s].start = runs[s].start
        /\ runs'[s].counts = AddCounts(runs[s].counts, job[p].tally)
        /\ addresses' = addresses /\ pc'[p] = "next"
    BY <1>1, AloneCheckpoint
  <1>3. \A r \in RunIds : r # s => runs'[r] = runs[r]
    BY <1>1, AloneCheckpoint
  <1>4. ~runs[s].old
    BY <1>2 DEF AloneInv, AloneRun, Completed
  <1>5. /\ runs[s].counts.processed = Cardinality(Behind(s))
        /\ job[p].tally.processed = Cardinality(Batch(p))
    <2>1. pc[p] = "batch" /\ job[p].todo = {}
      BY DEF AdvanceScan
    <2>2. Batch(p) \ job[p].todo = Batch(p)
      BY <2>1
    <2> QED
      BY <1>2, <1>4, <2>1, <2>2 DEF CountInv
  <1>6. /\ job[p].cursor \in Int /\ job[p].last \in Int /\ runs[s].start \in Int
        /\ addresses \subseteq Int
    BY Numbers DEF IInv
  <1>7. runs[s].start <= job[p].cursor + 1
    BY <1>1 DEF AdvanceScan, IInv, ProcOK
  <1>8. Behind(s)' = Behind(s) \cup Batch(p)
    <2>1. \A a \in addresses : runs[s].start <= a /\ a <= job[p].last <=>
            \/ runs[s].start <= a /\ a <= job[p].cursor
            \/ job[p].cursor < a /\ a <= job[p].last
      <3>1. \A a \in Int : runs[s].start <= a /\ a <= job[p].last <=>
              \/ runs[s].start <= a /\ a <= job[p].cursor
              \/ job[p].cursor < a /\ a <= job[p].last
        BY <1>2, <1>6, <1>7
      <3> QED
        BY <1>6, <3>1
    <2> QED
      BY <1>2, <2>1 DEF Behind, Batch
  <1>9. Behind(s) \cap Batch(p) = {}
    <2>1. \A a \in Int : ~(a <= job[p].cursor /\ job[p].cursor < a)
      BY <1>6
    <2>2. \A a \in addresses : ~(a <= job[p].cursor /\ job[p].cursor < a)
      BY <1>6, <2>1
    <2> QED
      BY <1>2, <2>2 DEF Behind, Batch
  <1>10. Behind(s) \subseteq addresses /\ Batch(p) \subseteq addresses
    BY DEF Behind, Batch
  <1>11. /\ IsFiniteSet(Behind(s)) /\ IsFiniteSet(Batch(p))
         /\ Cardinality(Behind(s)) \in Nat /\ Cardinality(Batch(p)) \in Nat
         /\ Cardinality(Behind(s) \cup Batch(p)) <= MaxCount
    BY <1>10, AddressesFit DEF IInv
  <1>12. Cardinality(Behind(s) \cup Batch(p)) = Cardinality(Behind(s)) + Cardinality(Batch(p))
    <2>1. Cardinality(Behind(s) \cup Batch(p)) =
            Cardinality(Behind(s)) + Cardinality(Batch(p)) - Cardinality(Behind(s) \cap Batch(p))
      BY <1>11, FS_Union
    <2>2. Cardinality(Behind(s) \cap Batch(p)) = 0
      BY <1>9, FS_EmptySet
    <2> QED
      BY <1>11, <2>1, <2>2
  <1>13. runs'[s].counts.processed = Cardinality(Behind(s)')
    <2>1. runs'[s].counts.processed =
            Saturate(runs[s].counts.processed + job[p].tally.processed)
      BY <1>2 DEF AddCounts
    <2> QED
      BY <1>5, <1>8, <1>11, <1>12, <2>1, BoundsAssumption DEF Saturate
  <1>14. ASSUME NEW r \in RunIds, r # s PROVE Behind(r)' = Behind(r)
    BY <1>2, <1>3, <1>14 DEF Behind
  <1>15. \A r \in RunIds : runs'[r].status # "absent" /\ ~runs'[r].old =>
            runs'[r].counts.processed = Cardinality(Behind(r)')
    BY <1>3, <1>13, <1>14 DEF CountInv
  <1>16. \A q \in Procs : pc'[q] \notin {"batch", "persist", "close"}
    BY <1>2 DEF OneScan
  <1> QED
    BY <1>15, <1>16 DEF CountInv

(* A new run has counted nothing and has nothing behind its cursor.        *)
LEMMA CountCreate ==
    ASSUME OneScan, IInv, AloneInv, CountInv, NEW p \in Procs, CreateScan(p)
    PROVE  CountInv'
  <1>1. addresses' = addresses /\ pc'[p] = "next"
    BY DEF CreateScan, Goto, IInv, TypeOK
  <1>2. job[p].lo \in Int /\ addresses \subseteq Int
    BY Numbers DEF IInv
  <1>3. PICK n \in RunIds : n = nRuns + 1
    BY BoundsAssumption DEF CreateScan, IInv, TypeOK, RunIds
  <1>4. /\ runs'[n].start = job[p].lo /\ runs'[n].cursor = job[p].lo - 1
        /\ runs'[n].counts = NoCounts
        /\ \A r \in RunIds : r # n => runs'[r] = runs[r]
    BY <1>3 DEF CreateScan, IInv, TypeOK, NoRun, StartCursor
  <1>5. Behind(n)' = {}
    <2>1. \A a \in Int : ~(job[p].lo <= a /\ a <= job[p].lo - 1)
      BY <1>2
    <2>2. \A a \in addresses : ~(job[p].lo <= a /\ a <= job[p].lo - 1)
      BY <1>2, <2>1
    <2> QED
      BY <1>1, <1>4, <2>2 DEF Behind
  <1>6. runs'[n].counts.processed = Cardinality(Behind(n)')
    BY <1>4, <1>5, FS_EmptySet DEF NoCounts
  <1>7. \A r \in RunIds : r # n => Behind(r)' = Behind(r)
    BY <1>1, <1>4 DEF Behind
  <1>8. \A r \in RunIds : runs'[r].status # "absent" /\ ~runs'[r].old =>
            runs'[r].counts.processed = Cardinality(Behind(r)')
    BY <1>4, <1>6, <1>7 DEF CountInv
  <1>9. \A q \in Procs : pc'[q] \notin {"batch", "persist", "close"}
    BY <1>1 DEF OneScan
  <1> QED
    BY <1>8, <1>9 DEF CountInv

(* A change of status, or of the age of a run, does not touch its counters.*)
LEMMA CountStatus ==
    ASSUME OneScan, IInv, AloneInv, CountInv,
           \/ \E p \in Procs : ResumeScan(p) \/ PauseScan(p) \/ CompleteScan(p)
           \/ \E s \in RunIds : RetentionElapses(s)
    PROVE  CountInv'
  <1>1. \A r \in RunIds : runs[r] \in RunRows
    BY DEF IInv, TypeOK
  <1>2. CASE \E p \in Procs : ResumeScan(p) \/ PauseScan(p) \/ CompleteScan(p)
    <2>1. PICK p \in Procs : ResumeScan(p) \/ PauseScan(p) \/ CompleteScan(p)
      BY <1>2
    <2>2. addresses' = addresses /\ pc'[p] \in {"next", "idle"} /\ job[p].run \in RunIds
      BY <2>1, RunOfProcess DEF ResumeScan, PauseScan, CompleteScan, Goto, Return, IInv, TypeOK, InRun
    <2>3. \E old \in {"running", "paused"}, new \in {"running", "paused", "completed"} :
            SetStatus(job[p].run, old, new)
      BY <2>1 DEF ResumeScan, PauseScan, CompleteScan
    <2>4. PICK old \in {"running", "paused"}, new \in {"running", "paused", "completed"} :
            SetStatus(job[p].run, old, new)
      BY <2>3
    <2>5. \A r \in RunIds : /\ runs'[r].start = runs[r].start /\ runs'[r].cursor = runs[r].cursor
                            /\ runs'[r].counts = runs[r].counts /\ runs'[r].old = runs[r].old
                            /\ runs[r].status = "absent" => runs'[r].status = "absent"
      BY <1>1, <2>2, <2>4 DEF SetStatus, IInv, TypeOK, RunRows
    <2>6. \A r \in RunIds : Behind(r)' = Behind(r)
      BY <2>2, <2>5 DEF Behind
    <2>7. \A q \in Procs : pc'[q] \notin {"batch", "persist", "close"}
      BY <2>2 DEF OneScan
    <2> QED
      BY <2>5, <2>6, <2>7 DEF CountInv
  <1>3. CASE \E s \in RunIds : RetentionElapses(s)
    <2>1. PICK s \in RunIds : RetentionElapses(s)
      BY <1>3
    <2>2. UNCHANGED <<addresses, pc, job>>
      BY <2>1 DEF RetentionElapses, procState
    <2>3. /\ \A r \in RunIds : /\ runs'[r].start = runs[r].start /\ runs'[r].cursor = runs[r].cursor
                               /\ runs'[r].counts = runs[r].counts /\ runs'[r].status = runs[r].status
          /\ \A r \in RunIds : runs[r].old => runs'[r].old
      BY <1>1, <2>1 DEF RetentionElapses, IInv, TypeOK, RunRows
    <2>4. \A r \in RunIds : Behind(r)' = Behind(r)
      BY <2>2, <2>3 DEF Behind
    <2>5. \A p \in Procs : Batch(p)' = Batch(p)
      BY <2>2 DEF Batch
    <2> QED
      BY <2>2, <2>3, <2>4, <2>5 DEF CountInv
  <1> QED
    BY <1>2, <1>3

(* Every step keeps the counters right.                                    *)
LEMMA CountNext ==
    ASSUME OneScan, CountsFit, IInv, AloneInv, SerialInv, CountInv, [Next]_vars
    PROVE  CountInv'
  <1>1. ASSUME NEW p \in Procs, ActiveScan(p) \/ ReadLastEnd(p) \/ ReadRange(p) PROVE CountInv'
    <2>1. UNCHANGED <<addresses, runs>>
      BY <1>1 DEF ActiveScan, ReadLastEnd, ReadRange, tables
    <2>2. pc'[p] \notin {"batch", "persist", "close"}
      BY <1>1 DEF ActiveScan, ReadLastEnd, ReadRange, Goto, Return, IInv, TypeOK
    <2> QED
      BY <2>1, <2>2, CountLocal
  <1>2. ASSUME NEW p \in Procs, ForeignKeyError(p) \/ Crash(p) PROVE CountInv'
    <2>1. UNCHANGED <<addresses, runs>> /\ pc'[p] = "idle"
      BY <1>2 DEF ForeignKeyError, Crash, tables, Return, IInv, TypeOK
    <2> QED
      BY <2>1, CountLocal
  <1>3. ASSUME NEW p \in Procs, RecordRetry(p) \/ CloseRetry(p) \/ SavePositiveFindings(p)
        PROVE  CountInv'
    <2>1. UNCHANGED <<addresses, runs>> /\ pc[p] \in {"persist", "close"}
      BY <1>3 DEF RecordRetry, CloseRetry, SavePositiveFindings
    <2>2. /\ job'[p].cursor = job[p].cursor /\ job'[p].last = job[p].last
          /\ job'[p].todo = job[p].todo /\ job'[p].tally = job[p].tally
      <3>1. job[p] \in Jobs
        BY DEF IInv, TypeOK
      <3>2. CASE RecordRetry(p) \/ CloseRetry(p)
        BY <3>2 DEF RecordRetry, CloseRetry
      <3>3. CASE SavePositiveFindings(p)
        BY <3>1, <3>3 DEF SavePositiveFindings, IInv, TypeOK, Jobs
      <3> QED
        BY <1>3, <3>2, <3>3
    <2>3. Batch(p)' = Batch(p)
      BY <2>1, <2>2 DEF Batch
    <2>4. /\ job[p].todo \subseteq Batch(p)
          /\ job[p].tally.processed = Cardinality(Batch(p) \ job[p].todo)
      BY <2>1 DEF CountInv
    <2> QED
      BY <2>1, <2>2, <2>3, <2>4, CountLocal
  <1>4. CASE UNCHANGED vars
    <2>1. UNCHANGED <<addresses, runs, pc, job>>
      BY <1>4 DEF vars, tables, procState
    <2> QED
      BY <2>1 DEF CountInv, Behind, Batch
  <1> QED
    BY <1>1, <1>2, <1>3, <1>4, CountTables, CountNextAddresses, CountTakeResult, CountAdvance,
       CountCreate, CountStatus DEF Next, Step

(* With one scan and one import at a time processed_count is, at every     *)
(* moment, the number of addresses of the run up to its cursor: a batch    *)
(* that a crash or a pause made the scan repeat is not counted twice, and  *)
(* none is left out.                                                       *)
THEOREM EachAddressCountedOnce ==
    OneScan /\ SerialImports /\ CountsFit => (Spec => []CountedOnce)
  <1> SUFFICES ASSUME OneScan, SerialImports, CountsFit PROVE Spec => []CountedOnce
    OBVIOUS
  <1>1. Init => CountInv
    BY DEF Init, CountInv, NoRun
  <1>2. IInv /\ AloneInv /\ SerialInv /\ CountInv /\ [Next]_vars => CountInv'
    BY CountNext
  <1>3. CountInv => CountedOnce
    BY DEF CountInv, CountedOnce, Behind
  <1> QED
    BY <1>1, <1>2, <1>3, Invariance, AloneInvariance, SerialInvariance, PTL DEF Spec
=============================================================================
