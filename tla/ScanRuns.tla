------------------------------ MODULE ScanRuns ------------------------------
(***************************************************************************)
(* The durable scan: `wallet-scan scan` processes that checkpoint a run in *)
(* PostgreSQL (internal/scanner/scanner.go RunOnce and run, with the       *)
(* queries of internal/db/store.go), address imports whose transactions    *)
(* commit while scans are under way, and the cleanup of old empty          *)
(* addresses (internal/maintenance/cleanup.go).                            *)
(*                                                                         *)
(* One action is one SQL statement or one transaction of a process: the    *)
(* grain at which processes interleave and at which a crash can strike.    *)
(* The tables written here are wallet_addresses, scan_runs, retry_queue    *)
(* and positive_findings.  The rows the same loop adds to node_incidents   *)
(* and notification_events never feed back into a scan: no query of this   *)
(* loop or of the cleanup reads them.                                      *)
(***************************************************************************)
EXTENDS Domain, FiniteSets

CONSTANTS
    Procs,      \* processes that may run `wallet-scan scan`
    Imports,    \* connections that may import addresses
    MaxId,      \* bound on the BIGSERIAL sequence of wallet_addresses.id
    MaxRuns,    \* bound on the rows of scan_runs
    BatchSize,  \* SCAN_BATCH_SIZE, the LIMIT of a scan page and of a cleanup
    MaxCount,   \* the counters of a run saturate here
    Answers,    \* what a query of one chain can come back with
    TypeOf      \* the address type of the row each id is given to

Ids == 1 .. MaxId
RunIds == 1 .. MaxRuns      \* rows of scan_runs, numbered by started_at
Pairs == Ids \X Chains

ASSUME BoundsAssumption ==
    /\ MaxId \in Nat /\ MaxRuns \in Nat /\ MaxCount \in Nat
    /\ BatchSize \in Nat \ {0}
ASSUME AnswersAssumption == Answers \subseteq {"zero", "positive", "error", "invalid_address"}
ASSUME TypeOfAssumption == TypeOf \in [Ids -> AddressTypes]

VARIABLES
    addresses,  \* ids of the committed rows of wallet_addresses
    nextId,     \* the id the sequence hands out next
    rows,       \* rows[i]: ids inserted by import i, not yet committed
    nRuns,      \* number of rows of scan_runs
    runs,       \* runs[r]: the row of scan_runs
    retry,      \* retry[<<a, c>>]: the row of retry_queue, if any
    findings,   \* <<a, c>> with a row in positive_findings
    pc,         \* pc[p]: the statement process p executes next
    job,        \* job[p]: the local variables of RunOnce and run
    res,        \* res[p]: the addressResult being persisted
    high,       \* history: the highest id ever visible to a query
    late,       \* history: ids that became visible when a higher one had been
    zeros       \* history: <<a, c>> some provider answered "0" for

tables == <<addresses, nextId, rows, nRuns, runs, retry, findings>>
procState == <<pc, job, res>>
history == <<high, late, zeros>>
vars == <<tables, procState, history>>

-----------------------------------------------------------------------------
(* State *)

Chain(a) == chainsFor(TypeOf[a])

Counters == [processed : 0 .. MaxCount, empty : 0 .. MaxCount,
             positive : 0 .. MaxCount, failures : 0 .. MaxCount]
NoCounts == [processed |-> 0, empty |-> 0, positive |-> 0, failures |-> 0]

Saturate(n) == IF n <= MaxCount THEN n ELSE MaxCount

\* Componentwise sum of two records of counters.
AddCounts(x, y) == [processed |-> Saturate(x.processed + y.processed),
                    empty |-> Saturate(x.empty + y.empty),
                    positive |-> Saturate(x.positive + y.positive),
                    failures |-> Saturate(x.failures + y.failures)]

NoRun == [start |-> 0, end |-> 0, cursor |-> 0, status |-> "absent",
          old |-> FALSE, counts |-> NoCounts]

\* The locals of a scan: the run row it read (its id and cursor), the two
\* answers of UnscannedRange, and the batch: ids not yet persisted, the id
\* of the last one, the pause flag and the four counters.
NoJob == [run |-> 0, cursor |-> 0, lastEnd |-> 0, lo |-> 0, hi |-> 0,
          todo |-> {}, last |-> 0, pause |-> FALSE, tally |-> NoCounts]

NoResult == [id |-> 0, errs |-> {}, invalid |-> {}, finds |-> {}, pause |-> FALSE]

Statements == {"idle", "lastEnd", "range", "create", "resume", "next",
               "batch", "persist", "close", "complete"}

Init ==
    /\ addresses = {} /\ nextId = 1 /\ rows = [i \in Imports |-> {}]
    /\ nRuns = 0 /\ runs = [r \in RunIds |-> NoRun]
    /\ retry = [x \in Pairs |-> "none"] /\ findings = {}
    /\ pc = [p \in Procs |-> "idle"]
    /\ job = [p \in Procs |-> NoJob]
    /\ res = [p \in Procs |-> NoResult]
    /\ high = 0 /\ late = {} /\ zeros = {}

-----------------------------------------------------------------------------
(* Imports: one transaction that inserts row by row and then commits.      *)

\* INSERT ... ON CONFLICT DO NOTHING.  A row takes the next id when it is
\* inserted, not when it commits; a conflict with a row the transaction can
\* see inserts nothing but has used up an id all the same.
ImportInsert(i) ==
    /\ nextId <= MaxId
    /\ nextId' = nextId + 1
    /\ \/ rows' = [rows EXCEPT ![i] = @ \cup {nextId}]
       \/ addresses \cup rows[i] # {} /\ UNCHANGED rows
    /\ UNCHANGED <<addresses, nRuns, runs, retry, findings, procState, history>>

\* COMMIT: the rows become visible together, whatever other transactions
\* have committed in the meantime.
ImportCommit(i) ==
    /\ rows[i] # {}
    /\ addresses' = addresses \cup rows[i]
    /\ rows' = [rows EXCEPT ![i] = {}]
    /\ late' = late \cup {a \in rows[i] : a <= high}
    /\ high' \in rows[i] \cup {high}
    /\ \A a \in rows[i] \cup {high} : a <= high'
    /\ UNCHANGED <<nextId, nRuns, runs, retry, findings, procState, zeros>>

\* An error or a crash of the importer: the ids are lost, no row appears.
ImportRollback(i) ==
    /\ rows[i] # {}
    /\ rows' = [rows EXCEPT ![i] = {}]
    /\ UNCHANGED <<addresses, nextId, nRuns, runs, retry, findings, procState, history>>

-----------------------------------------------------------------------------
(* The scan process *)

\* RunOnce or run returns: the process ends and its locals are gone.
Return(p) ==
    /\ pc' = [pc EXCEPT ![p] = "idle"]
    /\ job' = [job EXCEPT ![p] = NoJob]
    /\ res' = [res EXCEPT ![p] = NoResult]

Goto(p, statement) == pc' = [pc EXCEPT ![p] = statement]

Active == {r \in RunIds : runs[r].status \in {"running", "paused"}}

\* Mutant: a resumed run starts over from its first id.
ResumeFromStart(r) == runs[r].start - 1
\* cursor_id as ActiveScan reads it.
ResumeCursor(r) == runs[r].cursor

\* The process starts; ActiveScan returns the oldest active run, if any.
ActiveScan(p) ==
    /\ pc[p] = "idle"
    /\ \/ /\ Active = {}
          /\ Goto(p, "lastEnd") /\ UNCHANGED job
       \/ \E r \in Active :
            /\ \A s \in Active : r <= s
            /\ Goto(p, IF runs[r].status = "paused" THEN "resume" ELSE "next")
            /\ job' = [job EXCEPT ![p].run = r, ![p].cursor = ResumeCursor(r)]
    /\ UNCHANGED <<tables, res, history>>

Completed == {r \in RunIds : runs[r].status = "completed"}

\* Mutant: the ends of all runs, completed or not.
AllEnds == {runs[r].end : r \in RunIds} \cup {0}
\* What max(end_id) ranges over; COALESCE makes it 0 for no run.
CompletedEnds == {runs[r].end : r \in Completed} \cup {0}

\* UnscannedRange, first statement.
ReadLastEnd(p) ==
    /\ pc[p] = "lastEnd"
    /\ \E e \in CompletedEnds :
         /\ \A f \in CompletedEnds : f <= e
         /\ job' = [job EXCEPT ![p].lastEnd = e]
    /\ Goto(p, "range")
    /\ UNCHANGED <<tables, res, history>>

\* UnscannedRange, second statement: min(id) and max(id) beyond lastEnd.
ReadRange(p) ==
    LET beyond == {a \in addresses : a > job[p].lastEnd}
    IN  /\ pc[p] = "range"
        /\ \/ beyond = {} /\ Return(p)
           \/ \E lo \in beyond, hi \in beyond :
                /\ \A a \in beyond : lo <= a /\ a <= hi
                /\ job' = [job EXCEPT ![p].lo = lo, ![p].hi = hi]
                /\ Goto(p, "create")
                /\ UNCHANGED res
        /\ UNCHANGED <<tables, history>>

\* The cursor of a new run: the id before its first one.
StartCursor(lo) == lo - 1

CreateScan(p) ==
    /\ pc[p] = "create"
    /\ nRuns < MaxRuns
    /\ nRuns' = nRuns + 1
    /\ runs' = [runs EXCEPT ![nRuns + 1] =
                  [NoRun EXCEPT !.start = job[p].lo, !.end = job[p].hi,
                                !.cursor = StartCursor(job[p].lo), !.status = "running"]]
    /\ job' = [job EXCEPT ![p] = [NoJob EXCEPT !.run = nRuns + 1, !.cursor = StartCursor(job[p].lo)]]
    /\ Goto(p, "next")
    /\ UNCHANGED <<addresses, nextId, rows, retry, findings, res, history>>

\* UPDATE ... SET status = new WHERE id = r AND status = old: no row, no effect.
SetStatus(r, old, new) ==
    runs' = [runs EXCEPT ![r].status = IF @ = old THEN new ELSE @]

ResumeScan(p) ==
    /\ pc[p] = "resume"
    /\ SetStatus(job[p].run, "paused", "running")
    /\ Goto(p, "next")
    /\ UNCHANGED <<addresses, nextId, rows, nRuns, retry, findings, job, res, history>>

\* The n lowest members of S: ORDER BY id LIMIT n.
Lowest(S, n) == {a \in S : Cardinality({b \in S : b < a}) < n}

\* Mutants: the range without its last id; the range without its end.
PendingBeforeEnd(p) == {a \in addresses : a > job[p].cursor /\ a < runs[job[p].run].end}
PendingUnbounded(p) == {a \in addresses : a > job[p].cursor}

\* WHERE id > cursor_id AND id <= end_id
Pending(p) == {a \in addresses : a > job[p].cursor /\ a <= runs[job[p].run].end}

\* The next page of the run by the cursor held in memory; the counters and
\* the pause flag of a batch start afresh.
NextAddresses(p) ==
    LET page == Lowest(Pending(p), BatchSize)
    IN  /\ pc[p] = "next"
        /\ \/ Pending(p) = {} /\ Goto(p, "complete") /\ UNCHANGED job
           \/ \E m \in page :
                /\ \A a \in page : a <= m
                /\ job' = [job EXCEPT ![p].todo = page, ![p].last = m,
                                      ![p].pause = FALSE, ![p].tally = NoCounts]
                /\ Goto(p, "batch")
        /\ UNCHANGED <<tables, res, history>>

Answered(a, answer, what) == {c \in Chain(a) : answer[c] = what}
Failed(a, answer) == Answered(a, answer, "error") \cup Answered(a, answer, "invalid_address")

\* What one result adds to the four counters of its batch.
ResultCounts(errs, finds) ==
    [processed |-> 1, empty |-> IF errs = {} /\ finds = {} THEN 1 ELSE 0,
     positive |-> Cardinality(finds), failures |-> Cardinality(errs)]

\* The result for address a, whose chains were answered as in answer.
TakeAnswer(p, a, pause, answer) ==
    LET errs == Failed(a, answer)
        finds == Answered(a, answer, "positive")
    IN  /\ pause => errs # {}
        /\ res' = [res EXCEPT ![p] =
             [id |-> a, errs |-> errs, finds |-> finds, pause |-> pause,
              invalid |-> Answered(a, answer, "invalid_address")]]
        /\ zeros' = zeros \cup ({a} \X Answered(a, answer, "zero"))
        /\ job' = [job EXCEPT ![p].todo = @ \ {a},
                              ![p].tally = AddCounts(@, ResultCounts(errs, finds))]

\* The loop takes the next addressResult (they arrive in the order in which
\* the workers finish).  Each chain was answered zero or positive, or its
\* failure is in Errors; a result can ask for a pause only with a failure.
TakeResult(p) ==
    /\ pc[p] = "batch"
    /\ \E a \in job[p].todo, pause \in BOOLEAN :
         \E answer \in [Chain(a) -> Answers] : TakeAnswer(p, a, pause, answer)
    /\ Goto(p, "persist")
    /\ UNCHANGED <<tables, high, late>>

\* Mutant: only the first failure of an address is recorded.
NoMoreErrors(p, c) == {}
\* The failures left once the one on chain c has been recorded.
OtherErrors(p, c) == res[p].errs \ {c}

\* The upsert for the first failure left; the foreign key needs the address.
RecordRetry(p) ==
    /\ pc[p] = "persist"
    /\ res[p].id \in addresses
    /\ \E c \in res[p].errs :
         /\ IsFirstChain(c, res[p].errs)
         /\ retry' = [retry EXCEPT ![<<res[p].id, c>>] = "open"]
         /\ IF c \in res[p].invalid
              THEN Goto(p, "close") /\ UNCHANGED res
              ELSE res' = [res EXCEPT ![p].errs = OtherErrors(p, c)] /\ UNCHANGED pc
    /\ UNCHANGED <<addresses, nextId, rows, nRuns, runs, findings, job, history>>

\* An invalid address is not worth retrying: UPDATE of the row, if it exists.
CloseRetry(p) ==
    /\ pc[p] = "close"
    /\ \E c \in res[p].errs :
         /\ IsFirstChain(c, res[p].errs)
         /\ retry' = [retry EXCEPT ![<<res[p].id, c>>] = IF @ = "none" THEN @ ELSE "resolved"]
         /\ res' = [res EXCEPT ![p].errs = OtherErrors(p, c)]
    /\ Goto(p, "persist")
    /\ UNCHANGED <<addresses, nextId, rows, nRuns, runs, findings, job, history>>

\* All positive chains of the address in one transaction, none if there are
\* none; then the next result.
SavePositiveFindings(p) ==
    /\ pc[p] = "persist"
    /\ res[p].errs = {}
    /\ res[p].finds # {} => res[p].id \in addresses
    /\ findings' = findings \cup ({res[p].id} \X res[p].finds)
    /\ job' = [job EXCEPT ![p].pause = @ \/ res[p].pause]
    /\ res' = [res EXCEPT ![p] = NoResult]
    /\ Goto(p, "batch")
    /\ UNCHANGED <<addresses, nextId, rows, nRuns, runs, retry, history>>

\* A cleanup deleted the address in the meantime: the insert breaks the
\* foreign key and run returns the error, leaving the run as it is.
ForeignKeyError(p) ==
    /\ pc[p] = "persist"
    /\ res[p].errs \cup res[p].finds # {}
    /\ res[p].id \notin addresses
    /\ Return(p)
    /\ UNCHANGED <<tables, history>>

PauseScan(p) ==
    /\ pc[p] = "batch" /\ job[p].todo = {} /\ job[p].pause
    /\ SetStatus(job[p].run, "running", "paused")
    /\ Return(p)
    /\ UNCHANGED <<addresses, nextId, rows, nRuns, retry, findings, history>>

\* Mutant: the checkpoint passes the last id of the batch.
CursorPastBatch(p) == job[p].last + 1
\* The new cursor_id: the id of the last address of the batch.
BatchCursor(p) == job[p].last

\* Mutant: the process does not move its own cursor.
KeptCursor(p) == job[p].cursor
\* run.CursorID = cursor
NextCursor(p) == BatchCursor(p)

\* The checkpoint: cursor and counters in one UPDATE, without effect unless
\* the run is running.  The process moves its own cursor in any case.
AdvanceScan(p) ==
    /\ pc[p] = "batch" /\ job[p].todo = {} /\ ~job[p].pause
    /\ IF runs[job[p].run].status = "running"
         THEN runs' = [runs EXCEPT ![job[p].run].cursor = BatchCursor(p),
                                   ![job[p].run].counts = AddCounts(@, job[p].tally)]
         ELSE UNCHANGED runs
    /\ job' = [job EXCEPT ![p] = [NoJob EXCEPT !.run = job[p].run, !.cursor = NextCursor(p)]]
    /\ Goto(p, "next")
    /\ UNCHANGED <<addresses, nextId, rows, nRuns, retry, findings, res, history>>

CompleteScan(p) ==
    /\ pc[p] = "complete"
    /\ SetStatus(job[p].run, "running", "completed")
    /\ Return(p)
    /\ UNCHANGED <<addresses, nextId, rows, nRuns, retry, findings, history>>

\* A statement fails (the database is gone, the context is cancelled) or the
\* process is killed: every error path of RunOnce and run returns.
Crash(p) ==
    /\ pc[p] # "idle"
    /\ Return(p)
    /\ UNCHANGED <<tables, history>>

-----------------------------------------------------------------------------
(* Retention and cleanup *)

\* The completion time of r falls behind the cutoff of later cleanups.
RetentionElapses(r) ==
    /\ r \in Completed /\ ~runs[r].old
    /\ runs' = [runs EXCEPT ![r].old = TRUE]
    /\ UNCHANGED <<addresses, nextId, rows, nRuns, retry, findings, procState, history>>

InOldRun(a) == \E r \in Completed : runs[r].old /\ runs[r].start <= a /\ a <= runs[r].end

\* Mutants: addresses with a retry row are taken for empty; any run that
\* covers the address will do.
CandidatesWithRetries ==
    {a \in addresses : InOldRun(a) /\ \A c \in Chains : <<a, c>> \notin findings}
CandidatesOfAnyRun ==
    {a \in addresses :
        /\ \E r \in RunIds : runs[r].start <= a /\ a <= runs[r].end
        /\ \A c \in Chains : <<a, c>> \notin findings /\ retry[<<a, c>>] = "none"}

Candidates ==
    {a \in addresses :
        InOldRun(a) /\ \A c \in Chains : <<a, c>> \notin findings /\ retry[<<a, c>>] = "none"}

\* One DELETE of the cleanup loop.
CleanupRun ==
    /\ Candidates # {}
    /\ addresses' = addresses \ Lowest(Candidates, BatchSize)
    /\ UNCHANGED <<nextId, rows, nRuns, runs, retry, findings, procState, history>>

-----------------------------------------------------------------------------
(* What a process does once started; it does not start by itself. *)
Step(p) ==
    \/ ReadLastEnd(p) \/ ReadRange(p) \/ CreateScan(p) \/ ResumeScan(p)
    \/ NextAddresses(p) \/ TakeResult(p) \/ RecordRetry(p) \/ CloseRetry(p)
    \/ SavePositiveFindings(p) \/ ForeignKeyError(p)
    \/ PauseScan(p) \/ AdvanceScan(p) \/ CompleteScan(p)

Next ==
    \/ \E i \in Imports : ImportInsert(i) \/ ImportCommit(i) \/ ImportRollback(i)
    \/ \E p \in Procs : ActiveScan(p) \/ Step(p) \/ Crash(p)
    \/ \E r \in RunIds : RetentionElapses(r)
    \/ CleanupRun

Spec == Init /\ [][Next]_vars

\* A started process keeps executing its statements until it returns: the
\* loop of run has no wait of its own, and each database call and provider
\* query ends (REQUEST_TIMEOUT, a bounded number of attempts).
FairSpec == Spec /\ \A p \in Procs : WF_vars(Step(p))

-----------------------------------------------------------------------------
(* Properties *)

RunRows == [start : 0 .. MaxId, end : 0 .. MaxId, cursor : 0 .. MaxId,
            status : {"absent", "running", "paused", "completed"},
            old : BOOLEAN, counts : Counters]
Jobs == [run : 0 .. MaxRuns, cursor : 0 .. MaxId, lastEnd : 0 .. MaxId,
         lo : 0 .. MaxId, hi : 0 .. MaxId, todo : SUBSET Ids,
         last : 0 .. MaxId, pause : BOOLEAN, tally : Counters]
Results == [id : 0 .. MaxId, errs : SUBSET Chains, invalid : SUBSET Chains,
            finds : SUBSET Chains, pause : BOOLEAN]

\* A process past RunOnce has a run, a range starts at an id, and a result
\* belongs to an address.
LocalsOK(p) ==
    /\ pc[p] \in {"resume", "next", "batch", "persist", "close", "complete"} =>
         job[p].run >= 1
    /\ pc[p] = "create" => job[p].lo >= 1
    /\ pc[p] \in {"persist", "close"} => res[p].id >= 1

(* Every variable holds a value the tables and the locals can hold. *)
TypeOK ==
    /\ addresses \subseteq Ids
    /\ nextId \in 1 .. MaxId + 1
    /\ rows \in [Imports -> SUBSET Ids]
    /\ nRuns \in 0 .. MaxRuns
    /\ runs \in [RunIds -> RunRows]
    /\ retry \in [Pairs -> {"none", "open", "resolved"}]
    /\ findings \subseteq Pairs
    /\ pc \in [Procs -> Statements]
    /\ job \in [Procs -> Jobs]
    /\ res \in [Procs -> Results]
    /\ high \in 0 .. MaxId /\ late \subseteq Ids /\ zeros \subseteq Pairs
    /\ \A p \in Procs : LocalsOK(p)

\* The outcome of every chain of a is on record: a zero answer, a positive
\* finding, or a row of the retry queue.
PairSettled(a, c) == \/ <<a, c>> \in zeros \cup findings
                     \/ retry[<<a, c>>] # "none"
Settled(a) == \A c \in Chain(a) : PairSettled(a, c)

(* README "scans each imported address once": whatever is at or before the *)
(* end of a completed run has an outcome on record.  Later scans start     *)
(* after that end, so an address this misses is never queried again.       *)
CompletedRunsSettled ==
    \A r \in Completed, a \in addresses : a <= runs[r].end => Settled(a)

(* The same for the addresses that became visible in the order of their    *)
(* ids: several scans may share a run, create overlapping runs, pause,     *)
(* crash and move the cursor back without leaving one of them out.         *)
OnTimeAddressesSettled ==
    \A r \in Completed, a \in addresses \ late : a <= runs[r].end => Settled(a)

(* The comment on Cleaner, "removes only confirmed-empty addresses": a     *)
(* cleanup deletes an address only if every chain of it answered zero.     *)
CleanupOnlyConfirmedEmpty ==
    [][\A a \in addresses \ addresses' : {a} \X Chain(a) \subseteq zeros]_vars

(* The same for the addresses that became visible in the order of ids.     *)
CleanupSparesUnscanned ==
    [][\A a \in (addresses \ addresses') \ late : {a} \X Chain(a) \subseteq zeros]_vars

(* Each address is counted once, whatever batches a crash or a pause made  *)
(* the scan repeat: processed_count is the number of addresses of the run  *)
(* up to its cursor (until the cleanup may delete some of them).           *)
CountedOnce ==
    \A r \in RunIds :
        runs[r].status # "absent" /\ ~runs[r].old =>
            runs[r].counts.processed =
                Cardinality({a \in addresses : runs[r].start <= a /\ a <= runs[r].cursor})

(* A checkpoint never moves back, a completed run stays completed, and the *)
(* range of a run never changes.                                           *)
CheckpointMonotonic ==
    [][\A r \in 1 .. nRuns :
          /\ runs[r].cursor <= runs'[r].cursor
          /\ runs[r].start = runs'[r].start /\ runs[r].end = runs'[r].end
          /\ runs[r].status = "completed" => runs'[r].status = "completed"]_vars

(* The comment on CompleteScan: a run is marked completed "after its       *)
(* cursor reaches the end".                                                *)
CompletedAtEnd == \A r \in Completed : runs[r].cursor = runs[r].end

(* The CHECK constraints of scan_runs (001_initial.sql) never reject one   *)
(* of the writes: start_id >= 1, end_id >= start_id, cursor_id <= end_id.  *)
SchemaChecksHold ==
    \A r \in RunIds : runs[r].status # "absent" =>
        /\ 1 <= runs[r].start /\ runs[r].start <= runs[r].end
        /\ runs[r].start <= runs[r].cursor + 1 /\ runs[r].cursor <= runs[r].end

(* Every invocation of `wallet-scan scan` comes to an end, even while      *)
(* imports commit and other scans move the shared cursor.                  *)
ScanReturns == \A p \in Procs : pc[p] # "idle" ~> pc[p] = "idle"
=============================================================================
