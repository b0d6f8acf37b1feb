--------------------------- MODULE ScanRunsProofs ---------------------------
(***************************************************************************)
(* Proofs about ScanRuns, for any number of scans and imports, any number  *)
(* of addresses and runs, and any batch size.                              *)
(***************************************************************************)
EXTENDS ScanRuns, FiniteSetTheorems, TLAPS

-----------------------------------------------------------------------------
(* The operators the model is built from *)

(* The sum of two records of counters stays below the cap (AdvanceScan's   *)
(* processed_count + $3 and so on, saturated for the model).               *)
LEMMA AddCountsType ==
    ASSUME NEW x, x \in [processed : Nat, empty : Nat, positive : Nat, failures : Nat],
           NEW y, y \in [processed : Nat, empty : Nat, positive : Nat, failures : Nat]
    PROVE  AddCounts(x, y) \in Counters
  BY BoundsAssumption DEF AddCounts, Counters, Saturate

(* chainsFor yields some of the six chains, finitely many.                 *)
LEMMA ChainType ==
    ASSUME NEW a \in Ids
    PROVE  Chain(a) \subseteq Chains
  BY TypeOfAssumption DEF Chain, chainsFor, Chains, AddressTypes, Ids

(* There are finitely many chains.                                         *)
LEMMA FiniteChains == IsFiniteSet(Chains)
  <1>1. IsFiniteSet({ChainBTC})
    BY FS_Singleton
  <1>2. IsFiniteSet({ChainBTC} \cup {ChainEthereum})
    BY <1>1, FS_Singleton, FS_Union
  <1>3. IsFiniteSet(({ChainBTC} \cup {ChainEthereum}) \cup {ChainArbitrum})
    BY <1>2, FS_Singleton, FS_Union
  <1>4. IsFiniteSet((({ChainBTC} \cup {ChainEthereum}) \cup {ChainArbitrum}) \cup {ChainBSC})
    BY <1>3, FS_Singleton, FS_Union
  <1>5. IsFiniteSet(((({ChainBTC} \cup {ChainEthereum}) \cup {ChainArbitrum}) \cup {ChainBSC})
                      \cup {ChainSolana})
    BY <1>4, FS_Singleton, FS_Union
  <1>6. IsFiniteSet((((({ChainBTC} \cup {ChainEthereum}) \cup {ChainArbitrum}) \cup {ChainBSC})
                      \cup {ChainSolana}) \cup {ChainTRON})
    BY <1>5, FS_Singleton, FS_Union
  <1>7. Chains = (((({ChainBTC} \cup {ChainEthereum}) \cup {ChainArbitrum}) \cup {ChainBSC})
                      \cup {ChainSolana}) \cup {ChainTRON}
    BY DEF Chains
  <1> QED
    BY <1>6, <1>7

(* The number of failures or findings of one result is a number (what run  *)
(* adds to its counters).                                                  *)
LEMMA ChainCardinality ==
    ASSUME NEW S \in SUBSET Chains
    PROVE  Cardinality(S) \in Nat
  BY FiniteChains, FS_Subset, FS_CardinalityType

(* The LIMIT query returns rows of the table, and every row with a smaller *)
(* id than a row it returns.                                               *)
LEMMA LowestIsPrefix ==
    ASSUME NEW S \in SUBSET Ids, NEW n \in Nat
    PROVE  /\ Lowest(S, n) \subseteq S
           /\ \A a \in Lowest(S, n), b \in S : b <= a => b \in Lowest(S, n)
  <1>0. IsFiniteSet(Ids)
    BY FS_Interval, BoundsAssumption DEF Ids
  <1>1. IsFiniteSet(S)
    BY <1>0, FS_Subset
  <1>2. ASSUME NEW a \in Lowest(S, n), NEW b \in S, b <= a
        PROVE  b \in Lowest(S, n)
    <2> DEFINE A == {x \in S : x < a}
    <2> DEFINE B == {x \in S : x < b}
    <2>0. a \in S /\ S \subseteq Int
      BY <1>2, BoundsAssumption DEF Lowest, Ids
    <2>1. B \subseteq A
      <3>1. ASSUME NEW x \in S, x < b PROVE x < a
        BY <1>2, <2>0, <3>1
      <3> QED
        BY <3>1
    <2>2. IsFiniteSet(A) /\ IsFiniteSet(B)
      BY <1>1, FS_Subset
    <2>3. Cardinality(A) \in Nat /\ Cardinality(B) \in Nat /\ Cardinality(B) <= Cardinality(A)
      BY <2>1, <2>2, FS_Subset, FS_CardinalityType
    <2>4. Cardinality(A) < n
      BY <1>2 DEF Lowest
    <2> QED
      BY <2>3, <2>4 DEF Lowest
  <1> QED
    BY <1>2 DEF Lowest

-----------------------------------------------------------------------------
(* Types *)

(* The rows and locals before anything is written have their types.        *)
LEMMA ZeroTypes ==
    /\ NoCounts \in Counters
    /\ NoRun \in RunRows
    /\ NoJob \in Jobs
    /\ NoResult \in Results
  <1>1. NoCounts \in Counters
    BY BoundsAssumption DEF NoCounts, Counters
  <1> QED
    BY <1>1, BoundsAssumption DEF NoRun, RunRows, NoJob, Jobs, NoResult, Results

(* What updating a function at one point does.                             *)
LEMMA FunUpdate ==
    ASSUME NEW S, NEW T, NEW f \in [S -> T], NEW x \in S, NEW v \in T
    PROVE  /\ [f EXCEPT ![x] = v] \in [S -> T]
           /\ [f EXCEPT ![x] = v][x] = v
           /\ \A y \in S : y # x => [f EXCEPT ![x] = v][y] = f[y]
  OBVIOUS

\* A step of process p leaves the locals of the others alone.
OthersKeep(p) == \A q \in Procs : q # p => pc'[q] = pc[q] /\ job'[q] = job[q] /\ res'[q] = res[q]

(* A step of p that keeps the locals of the other processes keeps LocalsOK *)
(* for all.                                                                *)
LEMMA LocalsFrame ==
    ASSUME TypeOK, NEW p \in Procs, OthersKeep(p), LocalsOK(p)'
    PROVE  \A q \in Procs : LocalsOK(q)'
  BY BoundsAssumption DEF TypeOK, LocalsOK, OthersKeep

(* A statement's control transfer. *)
LEMMA GotoType ==
    ASSUME TypeOK, NEW p \in Procs, NEW s \in Statements, Goto(p, s)
    PROVE  /\ pc' \in [Procs -> Statements] /\ pc'[p] = s
           /\ \A q \in Procs : q # p => pc'[q] = pc[q]
  BY DEF TypeOK, Goto

(* A return of RunOnce or run clears the locals of its own process only.   *)
LEMMA ReturnType ==
    ASSUME TypeOK, NEW p \in Procs, Return(p)
    PROVE  /\ pc' \in [Procs -> Statements] /\ job' \in [Procs -> Jobs] /\ res' \in [Procs -> Results]
           /\ pc'[p] = "idle" /\ OthersKeep(p) /\ LocalsOK(p)'
  <1>1. "idle" \in Statements
    BY DEF Statements
  <1> QED
    BY <1>1, ZeroTypes, FunUpdate DEF TypeOK, Return, OthersKeep, LocalsOK

(* Assigning the locals of one process keeps the types.                    *)
LEMMA JobType ==
    ASSUME TypeOK, NEW p \in Procs, NEW j \in Jobs, job' = [job EXCEPT ![p] = j]
    PROVE  /\ job' \in [Procs -> Jobs] /\ job'[p] = j
           /\ \A q \in Procs : q # p => job'[q] = job[q]
  BY DEF TypeOK

(* Assigning the current result of one process keeps the types.            *)
LEMMA ResType ==
    ASSUME TypeOK, NEW p \in Procs, NEW w \in Results, res' = [res EXCEPT ![p] = w]
    PROVE  /\ res' \in [Procs -> Results] /\ res'[p] = w
           /\ \A q \in Procs : q # p => res'[q] = res[q]
  BY DEF TypeOK

(* An UPDATE or INSERT of one row of scan_runs keeps the types.            *)
LEMMA RunType ==
    ASSUME TypeOK, NEW r \in RunIds, NEW w \in RunRows, runs' = [runs EXCEPT ![r] = w]
    PROVE  /\ runs' \in [RunIds -> RunRows] /\ runs'[r] = w
           /\ \A s \in RunIds : s # r => runs'[s] = runs[s]
  BY DEF TypeOK

(* Init and every step of the model keep the types.                        *)
LEMMA TypeInit == Init => TypeOK
  BY ZeroTypes, BoundsAssumption DEF Init, TypeOK, LocalsOK, Statements, Pairs

(* Every statement of every process, import and cleanup keeps the types.   *)
LEMMA TypeNext == TypeOK /\ [Next]_vars => TypeOK'
  <1> SUFFICES ASSUME TypeOK, [Next]_vars PROVE TypeOK'
    OBVIOUS
  <1> USE BoundsAssumption
  <1>0. \A p \in Procs : job[p] \in Jobs /\ res[p] \in Results
    BY DEF TypeOK
  <1>1. ASSUME NEW i \in Imports, ImportInsert(i) PROVE TypeOK'
    BY <1>1 DEF ImportInsert, TypeOK, LocalsOK, procState, history, Ids
  <1>2. ASSUME NEW i \in Imports, ImportCommit(i) PROVE TypeOK'
    <2>1. rows' \in [Imports -> SUBSET Ids]
      BY <1>2 DEF ImportCommit, TypeOK
    <2>2. high' \in 0 .. MaxId
      BY <1>2 DEF ImportCommit, TypeOK, Ids
    <2> QED
      BY <1>2, <2>1, <2>2 DEF ImportCommit, TypeOK, LocalsOK, procState
  <1>3. ASSUME NEW i \in Imports, ImportRollback(i) PROVE TypeOK'
    BY <1>3 DEF ImportRollback, TypeOK, LocalsOK, procState, history
  <1>4. ASSUME NEW p \in Procs, ActiveScan(p) PROVE TypeOK'
    <2>1. CASE Active = {} /\ Goto(p, "lastEnd") /\ UNCHANGED job
      <3>1. pc' \in [Procs -> Statements] /\ pc'[p] = "lastEnd"
            /\ \A q \in Procs : q # p => pc'[q] = pc[q]
        BY <2>1, GotoType DEF Statements
      <3>2. OthersKeep(p) /\ LocalsOK(p)'
        BY <1>4, <2>1, <3>1 DEF ActiveScan, OthersKeep, LocalsOK
      <3> QED
        BY <1>4, <2>1, <3>1, <3>2, LocalsFrame DEF ActiveScan, TypeOK, tables, history
    <2>2. ASSUME NEW r \in Active,
                 Goto(p, IF runs[r].status = "paused" THEN "resume" ELSE "next"),
                 job' = [job EXCEPT ![p].run = r, ![p].cursor = ResumeCursor(r)]
          PROVE  TypeOK'
      <3>0. r \in RunIds /\ runs[r] \in RunRows
        BY <2>2 DEF TypeOK, Active
      <3>1. r \in 0 .. MaxRuns /\ r >= 1 /\ ResumeCursor(r) \in 0 .. MaxId
        BY <3>0 DEF ResumeCursor, RunIds, RunRows
      <3> DEFINE j == [job[p] EXCEPT !.run = r, !.cursor = ResumeCursor(r)]
      <3>7. job' = [job EXCEPT ![p] = j]
        BY <2>2
      <3>2. j \in Jobs /\ j.run = r
        BY <1>0, <3>1 DEF Jobs
      <3> HIDE DEF j
      <3>3. job' \in [Procs -> Jobs] /\ job'[p] = j
            /\ \A q \in Procs : q # p => job'[q] = job[q]
        BY <3>2, <3>7, JobType
      <3>4. PICK s \in {"resume", "next"} : Goto(p, s)
        BY <2>2
      <3>5. pc' \in [Procs -> Statements] /\ pc'[p] \in {"resume", "next"}
            /\ \A q \in Procs : q # p => pc'[q] = pc[q]
        BY <3>4, GotoType DEF Statements
      <3>6. OthersKeep(p) /\ LocalsOK(p)'
        BY <1>4, <3>1, <3>2, <3>3, <3>5 DEF ActiveScan, OthersKeep, LocalsOK
      <3> QED
        BY <1>4, <3>3, <3>5, <3>6, LocalsFrame DEF ActiveScan, TypeOK, tables, history
    <2> QED
      BY <1>4, <2>1, <2>2 DEF ActiveScan
  <1>5. ASSUME NEW p \in Procs, ReadLastEnd(p) PROVE TypeOK'
    <2>1. PICK e \in CompletedEnds : job' = [job EXCEPT ![p].lastEnd = e]
      BY <1>5 DEF ReadLastEnd
    <2>2. e \in 0 .. MaxId
      <3>1. \A r \in Completed : runs[r] \in RunRows
        BY DEF TypeOK, Completed
      <3> QED
        BY <2>1, <3>1 DEF CompletedEnds, RunRows
    <2>3. [job[p] EXCEPT !.lastEnd = e] \in Jobs
      BY <1>0, <2>2 DEF Jobs
    <2>4. job' \in [Procs -> Jobs] /\ \A q \in Procs : q # p => job'[q] = job[q]
      BY <2>1, <2>3, JobType
    <2>5. pc' \in [Procs -> Statements] /\ pc'[p] = "range"
          /\ \A q \in Procs : q # p => pc'[q] = pc[q]
      BY <1>5, GotoType DEF ReadLastEnd, Statements
    <2>6. OthersKeep(p) /\ LocalsOK(p)'
      BY <1>5, <2>4, <2>5 DEF ReadLastEnd, OthersKeep, LocalsOK
    <2> QED
      BY <1>5, <2>4, <2>5, <2>6, LocalsFrame DEF ReadLastEnd, TypeOK, tables, history
  <1>6. ASSUME NEW p \in Procs, ReadRange(p) PROVE TypeOK'
    <2>1. CASE Return(p)
      BY <1>6, <2>1, ReturnType, LocalsFrame DEF ReadRange, TypeOK, tables, history
    <2>2. ASSUME NEW lo \in addresses, NEW hi \in addresses,
                 job' = [job EXCEPT ![p].lo = lo, ![p].hi = hi],
                 Goto(p, "create"), UNCHANGED res
          PROVE  TypeOK'
      <3>1. lo \in 0 .. MaxId /\ lo >= 1 /\ hi \in 0 .. MaxId
        BY <2>2 DEF TypeOK, Ids
      <3> DEFINE j == [job[p] EXCEPT !.lo = lo, !.hi = hi]
      <3>7. job' = [job EXCEPT ![p] = j]
        BY <2>2
      <3>2. j \in Jobs /\ j.lo = lo
        BY <1>0, <3>1 DEF Jobs
      <3> HIDE DEF j
      <3>3. job' \in [Procs -> Jobs] /\ job'[p] = j
            /\ \A q \in Procs : q # p => job'[q] = job[q]
        BY <3>2, <3>7, JobType
      <3>5. pc' \in [Procs -> Statements] /\ pc'[p] = "create"
            /\ \A q \in Procs : q # p => pc'[q] = pc[q]
        BY <2>2, GotoType DEF Statements
      <3>6. OthersKeep(p) /\ LocalsOK(p)'
        BY <2>2, <3>1, <3>2, <3>3, <3>5 DEF OthersKeep, LocalsOK
      <3> QED
        BY <1>6, <2>2, <3>3, <3>5, <3>6, LocalsFrame DEF ReadRange, TypeOK, tables, history
    <2> QED
      BY <1>6, <2>1, <2>2 DEF ReadRange
  <1>7. ASSUME NEW p \in Procs, CreateScan(p) PROVE TypeOK'
    <2> DEFINE c == StartCursor(job[p].lo)
    <2>1. /\ job[p] \in Jobs /\ job[p].lo \in 0 .. MaxId /\ job[p].hi \in 0 .. MaxId
          /\ c \in 0 .. MaxId
          /\ nRuns + 1 \in RunIds /\ nRuns + 1 \in 0 .. MaxRuns /\ nRuns + 1 >= 1
      BY <1>7 DEF CreateScan, TypeOK, LocalsOK, Jobs, StartCursor, RunIds
    <2> DEFINE w == [NoRun EXCEPT !.start = job[p].lo, !.end = job[p].hi,
                                  !.cursor = c, !.status = "running"]
    <2>2. w \in RunRows
      BY <2>1, ZeroTypes DEF RunRows, NoRun
    <2> DEFINE j == [NoJob EXCEPT !.run = nRuns + 1, !.cursor = c]
    <2>3. j \in Jobs /\ j.run = nRuns + 1
      BY <2>1, ZeroTypes DEF Jobs, NoJob
    <2> HIDE DEF w, j
    <2>4. runs' \in [RunIds -> RunRows]
      BY <1>7, <2>1, <2>2, RunType DEF CreateScan, w
    <2>5. job' \in [Procs -> Jobs] /\ job'[p] = j
          /\ \A q \in Procs : q # p => job'[q] = job[q]
      BY <1>7, <2>3, JobType DEF CreateScan, j
    <2>6. pc' \in [Procs -> Statements] /\ pc'[p] = "next"
          /\ \A q \in Procs : q # p => pc'[q] = pc[q]
      BY <1>7, GotoType DEF CreateScan, Statements
    <2>7. OthersKeep(p) /\ LocalsOK(p)'
      BY <1>7, <2>1, <2>3, <2>5, <2>6 DEF CreateScan, OthersKeep, LocalsOK
    <2> QED
      BY <1>7, <2>1, <2>4, <2>5, <2>6, <2>7, LocalsFrame DEF CreateScan, TypeOK, history
  <1>8. ASSUME NEW r \in RunIds, NEW old, NEW new \in {"running", "paused", "completed"},
               SetStatus(r, old, new)
        PROVE  runs' \in [RunIds -> RunRows]
    <2>1. runs[r] \in RunRows
      BY DEF TypeOK
    <2> DEFINE s == IF runs[r].status = old THEN new ELSE runs[r].status
    <2>2. s \in {"absent", "running", "paused", "completed"}
      BY <1>8, <2>1 DEF RunRows
    <2> HIDE DEF s
    <2>3. [runs[r] EXCEPT !.status = s] \in RunRows
      BY <2>1, <2>2 DEF RunRows
    <2>4. runs' = [runs EXCEPT ![r] = [runs[r] EXCEPT !.status = s]]
      BY <1>8 DEF SetStatus, s
    <2> QED
      BY <2>3, <2>4, RunType
  <1>9. ASSUME NEW p \in Procs, ResumeScan(p) PROVE TypeOK'
    <2>1. job[p].run \in RunIds
      BY <1>0, <1>9 DEF ResumeScan, TypeOK, LocalsOK, Jobs, RunIds
    <2>2. runs' \in [RunIds -> RunRows]
      BY <1>8, <1>9, <2>1 DEF ResumeScan
    <2>3. pc' \in [Procs -> Statements] /\ pc'[p] = "next"
          /\ \A q \in Procs : q # p => pc'[q] = pc[q]
      BY <1>9, GotoType DEF ResumeScan, Statements
    <2>4. OthersKeep(p) /\ LocalsOK(p)'
      BY <1>9, <2>3 DEF ResumeScan, OthersKeep, LocalsOK, TypeOK
    <2> QED
      BY <1>9, <2>2, <2>3, <2>4, LocalsFrame DEF ResumeScan, TypeOK, history
  <1>10. ASSUME NEW p \in Procs, NextAddresses(p) PROVE TypeOK'
    <2>1. CASE Goto(p, "complete") /\ UNCHANGED job
      <3>1. pc' \in [Procs -> Statements] /\ pc'[p] = "complete"
            /\ \A q \in Procs : q # p => pc'[q] = pc[q]
        BY <2>1, GotoType DEF Statements
      <3>2. OthersKeep(p) /\ LocalsOK(p)'
        BY <1>10, <2>1, <3>1 DEF NextAddresses, OthersKeep, LocalsOK, TypeOK
      <3> QED
        BY <1>10, <2>1, <3>1, <3>2, LocalsFrame DEF NextAddresses, TypeOK, tables, history
    <2> DEFINE page == Lowest(Pending(p), BatchSize)
    <2>2. page \subseteq Ids
      BY LowestIsPrefix DEF Pending, TypeOK
    <2> HIDE DEF page
    <2>3. ASSUME NEW m \in page, Goto(p, "batch"),
                 job' = [job EXCEPT ![p].todo = page, ![p].last = m,
                                    ![p].pause = FALSE, ![p].tally = NoCounts]
          PROVE  TypeOK'
      <3>1. m \in 0 .. MaxId
        BY <2>2, <2>3 DEF Ids
      <3> DEFINE j == [job[p] EXCEPT !.todo = page, !.last = m,
                                     !.pause = FALSE, !.tally = NoCounts]
      <3>7. job' = [job EXCEPT ![p] = j]
        BY <2>3
      <3>2. j \in Jobs /\ j.run = job[p].run
        BY <1>0, <2>2, <3>1, ZeroTypes DEF Jobs
      <3> HIDE DEF j
      <3>3. job' \in [Procs -> Jobs] /\ job'[p] = j
            /\ \A q \in Procs : q # p => job'[q] = job[q]
        BY <3>2, <3>7, JobType
      <3>4. pc' \in [Procs -> Statements] /\ pc'[p] = "batch"
            /\ \A q \in Procs : q # p => pc'[q] = pc[q]
        BY <2>3, GotoType DEF Statements
      <3>5. OthersKeep(p) /\ LocalsOK(p)'
        BY <1>10, <3>2, <3>3, <3>4 DEF NextAddresses, OthersKeep, LocalsOK, TypeOK
      <3> QED
        BY <1>10, <3>3, <3>4, <3>5, LocalsFrame DEF NextAddresses, TypeOK, tables, history
    <2> QED
      BY <1>10, <2>1, <2>3 DEF NextAddresses, page
  <1>11. ASSUME NEW p \in Procs, TakeResult(p) PROVE TypeOK'
    <2>0. PICK a \in job[p].todo, pause \in BOOLEAN :
            \E answer \in [Chain(a) -> Answers] : TakeAnswer(p, a, pause, answer)
      BY <1>11 DEF TakeResult
    <2>1. PICK answer \in [Chain(a) -> Answers] : TakeAnswer(p, a, pause, answer)
      BY <2>0
    <2> DEFINE errs == Failed(a, answer)
    <2> DEFINE finds == Answered(a, answer, "positive")
    <2> DEFINE empty == Answered(a, answer, "zero")
    <2>2. a \in Ids /\ a \in 0 .. MaxId /\ a >= 1
      BY <1>0, <2>0 DEF Jobs, Ids
    <2>3. errs \subseteq Chains /\ finds \subseteq Chains /\ empty \subseteq Chains
      BY <2>2, ChainType DEF Failed, Answered
    <2>4. zeros' \subseteq Pairs
      BY <2>1, <2>2, <2>3 DEF TakeAnswer, TypeOK, Pairs
    <2> DEFINE w == [id |-> a, errs |-> errs, finds |-> finds, pause |-> pause,
                     invalid |-> Answered(a, answer, "invalid_address")]
    <2>5. w \in Results /\ w.id = a
      BY <2>0, <2>2, <2>3, ChainType DEF Results, Answered
    <2>6. res' \in [Procs -> Results] /\ res'[p] = w
          /\ \A q \in Procs : q # p => res'[q] = res[q]
      BY <2>1, <2>5, ResType DEF TakeAnswer
    <2> DEFINE t == AddCounts(job[p].tally, ResultCounts(errs, finds))
    <2>7. t \in Counters
      <3>1. job[p].tally \in [processed : Nat, empty : Nat, positive : Nat, failures : Nat]
        BY <1>0 DEF Jobs, Counters
      <3>2. Cardinality(errs) \in Nat /\ Cardinality(finds) \in Nat
        BY <2>3, ChainCardinality
      <3>3. ResultCounts(errs, finds) \in [processed : Nat, empty : Nat, positive : Nat, failures : Nat]
        BY <3>2 DEF ResultCounts
      <3> QED
        BY <3>1, <3>3, AddCountsType
    <2> DEFINE j == [job[p] EXCEPT !.todo = @ \ {a}, !.tally = t]
    <2>8. j \in Jobs /\ j.run = job[p].run
      BY <1>0, <2>7 DEF Jobs
    <2>12. job' = [job EXCEPT ![p] = j]
      BY <2>1 DEF TakeAnswer
    <2> HIDE DEF w, t, j
    <2>9. job' \in [Procs -> Jobs] /\ job'[p] = j
          /\ \A q \in Procs : q # p => job'[q] = job[q]
      BY <2>8, <2>12, JobType
    <2>10. pc' \in [Procs -> Statements] /\ pc'[p] = "persist"
           /\ \A q \in Procs : q # p => pc'[q] = pc[q]
      BY <1>11, GotoType DEF TakeResult, Statements
    <2>11. OthersKeep(p) /\ LocalsOK(p)'
      BY <1>11, <2>2, <2>5, <2>6, <2>8, <2>9, <2>10 DEF TakeResult, OthersKeep, LocalsOK, TypeOK
    <2> QED
      BY <1>11, <2>4, <2>6, <2>9, <2>10, <2>11, LocalsFrame DEF TakeResult, TypeOK, tables
  <1>12. ASSUME NEW p \in Procs, NEW c \in res[p].errs,
                res' = [res EXCEPT ![p].errs = OtherErrors(p, c)]
         PROVE  /\ res' \in [Procs -> Results] /\ res'[p].id = res[p].id
                /\ \A q \in Procs : q # p => res'[q] = res[q]
    <2> DEFINE w == [res[p] EXCEPT !.errs = OtherErrors(p, c)]
    <2>1. res' = [res EXCEPT ![p] = w]
      BY <1>12
    <2>2. w \in Results /\ w.id = res[p].id
      BY <1>0 DEF Results, OtherErrors
    <2> HIDE DEF w
    <2> QED
      BY <2>1, <2>2, ResType
  <1>13. ASSUME NEW p \in Procs, NEW c \in res[p].errs, pc[p] \in {"persist", "close"}
         PROVE  <<res[p].id, c>> \in Pairs
    BY <1>0, <1>13 DEF Results, Pairs, Ids, TypeOK, LocalsOK
  <1>14. ASSUME NEW p \in Procs, RecordRetry(p) PROVE TypeOK'
    <2>1. PICK c \in res[p].errs :
            /\ retry' = [retry EXCEPT ![<<res[p].id, c>>] = "open"]
            /\ IF c \in res[p].invalid
                 THEN Goto(p, "close") /\ UNCHANGED res
                 ELSE res' = [res EXCEPT ![p].errs = OtherErrors(p, c)] /\ UNCHANGED pc
      BY <1>14 DEF RecordRetry
    <2>2. retry' \in [Pairs -> {"none", "open", "resolved"}]
      BY <1>13, <1>14, <2>1, FunUpdate DEF RecordRetry, TypeOK
    <2>3. /\ res' \in [Procs -> Results] /\ res'[p].id = res[p].id
          /\ \A q \in Procs : q # p => res'[q] = res[q]
      BY <1>12, <2>1 DEF TypeOK
    <2>4. /\ pc' \in [Procs -> Statements] /\ pc'[p] \in {"persist", "close"}
          /\ \A q \in Procs : q # p => pc'[q] = pc[q]
      <3>1. CASE c \in res[p].invalid
        BY <2>1, <3>1, GotoType DEF Statements
      <3>2. CASE c \notin res[p].invalid
        BY <1>14, <2>1, <3>2 DEF RecordRetry, TypeOK
      <3> QED
        BY <3>1, <3>2
    <2>5. OthersKeep(p) /\ LocalsOK(p)'
      BY <1>14, <2>3, <2>4 DEF RecordRetry, OthersKeep, LocalsOK, TypeOK
    <2> QED
      BY <1>14, <2>2, <2>3, <2>4, <2>5, LocalsFrame DEF RecordRetry, TypeOK, history
  <1>15. ASSUME NEW p \in Procs, CloseRetry(p) PROVE TypeOK'
    <2>1. PICK c \in res[p].errs :
            /\ retry' = [retry EXCEPT ![<<res[p].id, c>>] = IF @ = "none" THEN @ ELSE "resolved"]
            /\ res' = [res EXCEPT ![p].errs = OtherErrors(p, c)]
      BY <1>15 DEF CloseRetry
    <2>2. retry' \in [Pairs -> {"none", "open", "resolved"}]
      <3>1. <<res[p].id, c>> \in Pairs
        BY <1>13, <1>15, <2>1 DEF CloseRetry
      <3> QED
        BY <2>1, <3>1, FunUpdate DEF TypeOK
    <2>3. /\ res' \in [Procs -> Results] /\ res'[p].id = res[p].id
          /\ \A q \in Procs : q # p => res'[q] = res[q]
      BY <1>12, <2>1
    <2>4. /\ pc' \in [Procs -> Statements] /\ pc'[p] = "persist"
          /\ \A q \in Procs : q # p => pc'[q] = pc[q]
      BY <1>15, GotoType DEF CloseRetry, Statements
    <2>5. OthersKeep(p) /\ LocalsOK(p)'
      BY <1>15, <2>3, <2>4 DEF CloseRetry, OthersKeep, LocalsOK, TypeOK
    <2> QED
      BY <1>15, <2>2, <2>3, <2>4, <2>5, LocalsFrame DEF CloseRetry, TypeOK, history
  <1>16. ASSUME NEW p \in Procs, SavePositiveFindings(p) PROVE TypeOK'
    <2>1. findings' \subseteq Pairs
      BY <1>0, <1>16 DEF SavePositiveFindings, TypeOK, LocalsOK, Results, Pairs, Ids
    <2> DEFINE j == [job[p] EXCEPT !.pause = @ \/ res[p].pause]
    <2>2. j \in Jobs /\ j.run = job[p].run
      BY <1>0 DEF Jobs, Results
    <2>3. job' = [job EXCEPT ![p] = j]
      BY <1>16 DEF SavePositiveFindings
    <2> HIDE DEF j
    <2>4. job' \in [Procs -> Jobs] /\ job'[p] = j
          /\ \A q \in Procs : q # p => job'[q] = job[q]
      BY <2>2, <2>3, JobType
    <2>5. /\ res' \in [Procs -> Results]
          /\ \A q \in Procs : q # p => res'[q] = res[q]
      BY <1>16, ZeroTypes, ResType DEF SavePositiveFindings
    <2>6. /\ pc' \in [Procs -> Statements] /\ pc'[p] = "batch"
          /\ \A q \in Procs : q # p => pc'[q] = pc[q]
      BY <1>16, GotoType DEF SavePositiveFindings, Statements
    <2>7. OthersKeep(p) /\ LocalsOK(p)'
      BY <1>16, <2>2, <2>4, <2>5, <2>6 DEF SavePositiveFindings, OthersKeep, LocalsOK, TypeOK
    <2> QED
      BY <1>16, <2>1, <2>4, <2>5, <2>6, <2>7, LocalsFrame DEF SavePositiveFindings, TypeOK, history
  <1>17. ASSUME NEW p \in Procs, ForeignKeyError(p) \/ Crash(p) PROVE TypeOK'
    BY <1>17, ReturnType, LocalsFrame DEF ForeignKeyError, Crash, TypeOK, tables, history
  <1>18. ASSUME NEW p \in Procs, PauseScan(p) \/ CompleteScan(p) PROVE TypeOK'
    <2>1. job[p].run \in RunIds
      BY <1>0, <1>18 DEF PauseScan, CompleteScan, TypeOK, LocalsOK, Jobs, RunIds
    <2>2. runs' \in [RunIds -> RunRows]
      BY <1>8, <1>18, <2>1 DEF PauseScan, CompleteScan
    <2>3. Return(p)
      BY <1>18 DEF PauseScan, CompleteScan
    <2> QED
      BY <1>18, <2>2, <2>3, ReturnType, LocalsFrame DEF PauseScan, CompleteScan, TypeOK, history
  <1>19. ASSUME NEW p \in Procs, AdvanceScan(p) PROVE TypeOK'
    <2>1. job[p].run \in RunIds /\ job[p].run >= 1 /\ job[p].run \in 0 .. MaxRuns
          /\ BatchCursor(p) \in 0 .. MaxId
      BY <1>0, <1>19 DEF AdvanceScan, TypeOK, LocalsOK, Jobs, RunIds, BatchCursor
    <2> DEFINE t == AddCounts(runs[job[p].run].counts, job[p].tally)
    <2>2. runs' \in [RunIds -> RunRows]
      <3>1. runs[job[p].run] \in RunRows
        BY <2>1 DEF TypeOK
      <3>2. t \in Counters
        BY <1>0, <3>1, AddCountsType DEF Jobs, RunRows, Counters
      <3> DEFINE w == [runs[job[p].run] EXCEPT !.cursor = BatchCursor(p), !.counts = t]
      <3>3. w \in RunRows
        <4> HIDE DEF t
        <4> QED
          BY <2>1, <3>1, <3>2 DEF RunRows
      <3>4. CASE runs[job[p].run].status = "running"
        <4>1. runs' = [runs EXCEPT ![job[p].run] = w]
          BY <1>19, <3>4 DEF AdvanceScan
        <4> HIDE DEF w
        <4> QED
          BY <2>1, <3>3, <4>1, RunType
      <3> QED
        BY <1>19, <3>4 DEF AdvanceScan, TypeOK
    <2> DEFINE j == [NoJob EXCEPT !.run = job[p].run, !.cursor = NextCursor(p)]
    <2>3. j \in Jobs /\ j.run = job[p].run
      BY <2>1, ZeroTypes DEF Jobs, NoJob, NextCursor
    <2> HIDE DEF j
    <2>4. job' \in [Procs -> Jobs] /\ job'[p] = j
          /\ \A q \in Procs : q # p => job'[q] = job[q]
      BY <1>19, <2>3, JobType DEF AdvanceScan, j
    <2>5. /\ pc' \in [Procs -> Statements] /\ pc'[p] = "next"
          /\ \A q \in Procs : q # p => pc'[q] = pc[q]
      BY <1>19, GotoType DEF AdvanceScan, Statements
    <2>6. OthersKeep(p) /\ LocalsOK(p)'
      BY <1>19, <2>1, <2>3, <2>4, <2>5 DEF AdvanceScan, OthersKeep, LocalsOK
    <2> QED
      BY <1>19, <2>2, <2>4, <2>5, <2>6, LocalsFrame DEF AdvanceScan, TypeOK, history
  <1>20. ASSUME NEW r \in RunIds, RetentionElapses(r) PROVE TypeOK'
    <2>1. runs[r] \in RunRows
      BY DEF TypeOK
    <2>2. [runs[r] EXCEPT !.old = TRUE] \in RunRows
      BY <2>1 DEF RunRows
    <2>3. runs' \in [RunIds -> RunRows]
      BY <1>20, <2>2, RunType DEF RetentionElapses
    <2> QED
      BY <1>20, <2>3 DEF RetentionElapses, TypeOK, LocalsOK, procState, history
  <1>21. CASE CleanupRun
    BY <1>21 DEF CleanupRun, TypeOK, LocalsOK, procState, history
  <1>22. CASE UNCHANGED vars
    BY <1>22 DEF TypeOK, LocalsOK, vars, tables, procState, history
  <1> QED
    BY <1>1, <1>2, <1>3, <1>4, <1>5, <1>6, <1>7, <1>9, <1>10, <1>11, <1>14, <1>15, <1>16,
       <1>17, <1>18, <1>19, <1>20, <1>21, <1>22 DEF Next, Step

(* Every reachable state of every instance has the types of TypeOK.        *)
THEOREM TypeCorrect == Spec => []TypeOK
  BY TypeInit, TypeNext, PTL DEF Spec

-----------------------------------------------------------------------------
(* The inductive invariant.  The cursor of a run, the last id a process    *)
(* remembers and the end of a completed run are all of one kind: a mark    *)
(* below which every on-time address is settled.  A mark never exceeds     *)
(* high, and an address that commits later is above high or late, so a     *)
(* mark stays one whatever the other processes do.                         *)

Covered(n) == \A a \in addresses \ late : a <= n => Settled(a)

IdsOK ==
    /\ high < nextId
    /\ \A a \in addresses : a <= high
    /\ \A i \in Imports : \A a \in rows[i] : a < nextId

RunOK(r) ==
    /\ runs[r].cursor <= runs[r].end /\ runs[r].end <= high
    /\ Covered(runs[r].cursor)
    /\ runs[r].status = "completed" => Covered(runs[r].end)
    /\ runs[r].status # "absent" =>
         r <= nRuns /\ 1 <= runs[r].start /\ runs[r].start <= runs[r].end
           /\ runs[r].start <= runs[r].cursor + 1

\* Every address up to the last one of the batch is settled, or its result
\* is still to come, or it is the one being persisted.
BatchCovered(p) ==
    \A a \in addresses \ late :
        a <= job[p].last => \/ Settled(a) \/ a \in job[p].todo
                            \/ pc[p] # "batch" /\ a = res[p].id

\* The outcome of a chain of the address being persisted is on record, or
\* is one the process has still to write.
ResultCovered(p) ==
    /\ res[p].errs \subseteq Chain(res[p].id)
    /\ \A c \in Chain(res[p].id) : PairSettled(res[p].id, c) \/ c \in res[p].errs \cup res[p].finds

ProcOK(p) ==
    LET run == runs[job[p].run]
    IN  /\ pc[p] = "range" => job[p].lastEnd <= high /\ Covered(job[p].lastEnd)
        /\ pc[p] = "create" =>
             job[p].lo <= job[p].hi /\ job[p].hi <= high /\ Covered(job[p].lo - 1)
        /\ pc[p] \in {"resume", "next", "batch", "persist", "close", "complete"} =>
             job[p].run <= nRuns /\ run.start <= job[p].cursor + 1 /\ job[p].cursor <= run.end
               /\ Covered(job[p].cursor)
        /\ pc[p] = "complete" => Covered(run.end)
        /\ pc[p] \in {"batch", "persist", "close"} =>
             run.start <= job[p].last + 1 /\ job[p].last <= run.end /\ BatchCovered(p)
        /\ pc[p] \in {"persist", "close"} => ResultCovered(p)
        /\ pc[p] = "close" =>
             \A c \in res[p].errs : IsFirstChain(c, res[p].errs) => retry[<<res[p].id, c>>] # "none"

IInv ==
    /\ TypeOK
    /\ IdsOK
    /\ \A r \in RunIds : RunOK(r)
    /\ \A p \in Procs : ProcOK(p)

-----------------------------------------------------------------------------
(* What every step does to the tables, whoever takes it: outcomes on       *)
(* record stay on record, what becomes visible is late or above high, and  *)
(* the range of a run does not change.                                     *)
Grows ==
    /\ \A x \in Pairs : retry[x] # "none" => retry'[x] # "none"
    /\ findings \subseteq findings' /\ zeros \subseteq zeros'
    /\ \A a \in addresses' \ late' : a \in addresses \ late \/ a > high
    /\ high <= high' /\ nRuns <= nRuns'
    /\ \A r \in 1 .. nRuns : runs'[r].start = runs[r].start /\ runs'[r].end = runs[r].end

(* The numbers the marks are made of are numbers. *)
LEMMA Numbers ==
    ASSUME TypeOK
    PROVE  /\ high \in Int /\ nRuns \in Int /\ nextId \in Int /\ addresses \subseteq Int /\ Ids \subseteq Int
           /\ \A r \in RunIds : /\ r \in Int /\ runs[r].start \in Int
                                /\ runs[r].end \in Int /\ runs[r].cursor \in Int
           /\ \A p \in Procs : /\ job[p].run \in Int /\ job[p].cursor \in Int /\ job[p].last \in Int
                               /\ job[p].lastEnd \in Int /\ job[p].lo \in Int /\ job[p].hi \in Int
                               /\ job[p].todo \subseteq Ids
                               /\ res[p].errs \subseteq Chains /\ res[p].finds \subseteq Chains
  <1> USE BoundsAssumption
  <1>1. /\ high \in Int /\ nRuns \in Int /\ nextId \in Int /\ addresses \subseteq Int /\ Ids \subseteq Int
    BY DEF TypeOK, Ids
  <1>2. \A r \in RunIds : r \in Int /\ runs[r] \in RunRows
    BY DEF TypeOK, RunIds
  <1>3. \A p \in Procs : job[p] \in Jobs /\ res[p] \in Results
    BY DEF TypeOK
  <1>4. \A r \in RunIds : /\ r \in Int /\ runs[r].start \in Int
                          /\ runs[r].end \in Int /\ runs[r].cursor \in Int
    BY <1>2 DEF RunRows
  <1>5. \A p \in Procs : /\ job[p].run \in Int /\ job[p].cursor \in Int /\ job[p].last \in Int
                         /\ job[p].lastEnd \in Int /\ job[p].lo \in Int /\ job[p].hi \in Int
                         /\ job[p].todo \subseteq Ids
                         /\ res[p].errs \subseteq Chains /\ res[p].finds \subseteq Chains
    BY <1>3 DEF Jobs, Results
  <1> QED
    BY <1>1, <1>4, <1>5

\* Statements after which a process has a run.
InRun == {"resume", "next", "batch", "persist", "close", "complete"}

(* A process inside run refers to an existing row number of scan_runs.     *)
LEMMA RunOfProcess ==
    ASSUME TypeOK, NEW p \in Procs, pc[p] \in InRun
    PROVE  job[p].run \in RunIds
  <1>1. job[p] \in Jobs
    BY DEF TypeOK
  <1> QED
    BY <1>1, BoundsAssumption DEF TypeOK, LocalsOK, InRun, Jobs, RunIds

(* An outcome on record for a pair stays on record while the tables grow.  *)
LEMMA PairSettledGrows ==
    ASSUME TypeOK, Grows, NEW a \in Ids, NEW c \in Chains, PairSettled(a, c)
    PROVE  PairSettled(a, c)'
  BY DEF PairSettled, Grows, Pairs

(* So does the outcome of every chain of an address.                       *)
LEMMA SettledGrows ==
    ASSUME TypeOK, Grows, NEW a \in Ids, Settled(a)
    PROVE  Settled(a)'
  BY ChainType, PairSettledGrows DEF Settled

(* What was covered up to a cursor stays covered.                          *)
LEMMA CoveredGrows ==
    ASSUME TypeOK, TypeOK', Grows, NEW n \in Int, n <= high, Covered(n)
    PROVE  Covered(n)'
  <1> SUFFICES ASSUME NEW a \in addresses' \ late', a <= n PROVE Settled(a)'
    BY DEF Covered
  <1>1. a \in Ids /\ a \in Int /\ high \in Int
    BY BoundsAssumption DEF TypeOK, Ids
  <1>2. a \in addresses \ late
    BY <1>1 DEF Grows
  <1>3. Settled(a)
    BY <1>2 DEF Covered
  <1> QED
    BY <1>1, <1>3, SettledGrows

(* A step that leaves a row of scan_runs alone keeps what the invariant    *)
(* says of it.                                                             *)
LEMMA RunFrame ==
    ASSUME TypeOK, TypeOK', Grows, NEW r \in RunIds, RunOK(r), runs'[r] = runs[r]
    PROVE  RunOK(r)'
  <1>1. /\ runs[r].cursor \in Int /\ runs[r].end \in Int /\ high \in Int /\ high' \in Int
        /\ r \in Int /\ nRuns \in Int /\ nRuns' \in Int
    BY Numbers, BoundsAssumption DEF TypeOK
  <1>2. Covered(runs[r].cursor)'
    BY <1>1, CoveredGrows DEF RunOK
  <1>3. runs[r].status = "completed" => Covered(runs[r].end)'
    BY <1>1, CoveredGrows DEF RunOK
  <1> QED
    BY <1>1, <1>2, <1>3 DEF RunOK, Grows

(* A step of another process, or of none, keeps what the invariant says of *)
(* a process.                                                              *)
LEMMA ProcFrame ==
    ASSUME TypeOK, TypeOK', Grows, \A r \in RunIds : RunOK(r), NEW q \in Procs, ProcOK(q),
           pc'[q] = pc[q], job'[q] = job[q], res'[q] = res[q]
    PROVE  ProcOK(q)'
  <1> DEFINE run == runs[job[q].run]
  <1>1. /\ high \in Int /\ high' \in Int /\ nRuns \in Int /\ nRuns' \in Int
        /\ job[q].run \in Int /\ job[q].cursor \in Int /\ job[q].last \in Int /\ job[q].lastEnd \in Int
        /\ job[q].lo \in Int /\ job[q].hi \in Int
    BY Numbers, BoundsAssumption DEF TypeOK
  <1>2. ASSUME pc[q] \in InRun
        PROVE  /\ run.start \in Int /\ run.end \in Int /\ run.end <= high
               /\ runs'[job[q].run].start = run.start /\ runs'[job[q].run].end = run.end
    <2>1. job[q].run \in RunIds /\ job[q].run \in 1 .. nRuns
      BY <1>1, <1>2, RunOfProcess DEF ProcOK, InRun, RunIds
    <2> QED
      BY <2>1, Numbers DEF RunOK, Grows
  <1>3. pc[q] = "range" => Covered(job[q].lastEnd)'
    BY <1>1, CoveredGrows DEF ProcOK
  <1>4. pc[q] = "create" => Covered(job[q].lo - 1)'
    BY <1>1, CoveredGrows DEF ProcOK
  <1>5. pc[q] \in InRun => Covered(job[q].cursor)'
    BY <1>1, <1>2, CoveredGrows DEF ProcOK, InRun
  <1>6. pc[q] = "complete" => Covered(runs[job[q].run].end)'
    BY <1>1, <1>2, CoveredGrows DEF ProcOK, InRun
  <1>7. ASSUME pc[q] \in {"batch", "persist", "close"}
        PROVE  BatchCovered(q)'
    <2> SUFFICES ASSUME NEW a \in addresses' \ late', a <= job[q].last
                 PROVE  Settled(a)' \/ a \in job[q].todo \/ (pc[q] # "batch" /\ a = res[q].id)
      BY DEF BatchCovered
    <2>1. a \in Ids /\ a \in Int /\ job[q].last <= high
      BY <1>1, <1>2, <1>7, Numbers DEF ProcOK, InRun, TypeOK
    <2>2. a \in addresses \ late
      BY <1>1, <2>1 DEF Grows
    <2>3. Settled(a) \/ a \in job[q].todo \/ (pc[q] # "batch" /\ a = res[q].id)
      BY <1>7, <2>2 DEF ProcOK, BatchCovered
    <2> QED
      BY <2>1, <2>3, SettledGrows
  <1>8. ASSUME pc[q] \in {"persist", "close"}
        PROVE  ResultCovered(q)'
    <2>1. res[q].id \in Ids
      BY <1>8, BoundsAssumption DEF TypeOK, LocalsOK, Results, Ids
    <2>2. Chain(res[q].id) \subseteq Chains
      BY <2>1, ChainType
    <2>3. ResultCovered(q)
      BY <1>8 DEF ProcOK
    <2> QED
      BY <2>1, <2>2, <2>3, PairSettledGrows DEF ResultCovered
  <1>9. ASSUME pc[q] = "close", NEW c \in res[q].errs, IsFirstChain(c, res[q].errs)
        PROVE  retry'[<<res[q].id, c>>] # "none"
    <2>1. <<res[q].id, c>> \in Pairs
      <3>1. res[q] \in Results /\ res[q].id >= 1
        BY <1>9 DEF TypeOK, LocalsOK
      <3> QED
        BY <1>9, <3>1, BoundsAssumption DEF Results, Pairs, Ids
    <2> QED
      BY <1>9, <2>1 DEF ProcOK, Grows
  <1> QED
    BY <1>1, <1>2, <1>3, <1>4, <1>5, <1>6, <1>7, <1>8, <1>9 DEF ProcOK, InRun, Grows

(* A step that leaves the processes and the ranges of the runs alone. *)
LEMMA TableStep ==
    ASSUME IInv, TypeOK', Grows, IdsOK', UNCHANGED procState, \A r \in RunIds : RunOK(r)'
    PROVE  IInv'
  <1>1. \A q \in Procs : ProcOK(q)'
    BY ProcFrame DEF IInv, procState
  <1> QED
    BY <1>1 DEF IInv

(* A step of process p. *)
LEMMA ProcStep ==
    ASSUME IInv, TypeOK', Grows, IdsOK', NEW p \in Procs, OthersKeep(p), ProcOK(p)',
           \A r \in RunIds : RunOK(r)'
    PROVE  IInv'
  <1>1. \A q \in Procs : ProcOK(q)'
    BY ProcFrame DEF IInv, OthersKeep
  <1> QED
    BY <1>1 DEF IInv

(* A step of a process that writes to no table. *)
LEMMA LocalStep ==
    ASSUME IInv, TypeOK', NEW p \in Procs, OthersKeep(p), UNCHANGED <<tables, high, late>>,
           zeros \subseteq zeros', ProcOK(p)'
    PROVE  IInv'
  <1>1. Grows
    BY Numbers DEF Grows, IInv, tables
  <1>2. IdsOK'
    BY DEF IInv, IdsOK, tables
  <1>3. \A r \in RunIds : RunOK(r)'
    BY <1>1, RunFrame DEF IInv, tables
  <1> QED
    BY <1>1, <1>2, <1>3, ProcStep

(* A statement of process p leaves the locals of the other processes alone.*)
LEMMA StepOthers ==
    ASSUME TypeOK, NEW p \in Procs, ActiveScan(p) \/ Step(p) \/ Crash(p)
    PROVE  OthersKeep(p)
  <1>1. CASE ActiveScan(p)
    BY <1>1 DEF ActiveScan, Goto, OthersKeep, TypeOK
  <1>2. CASE ReadLastEnd(p)
    BY <1>2 DEF ReadLastEnd, Goto, OthersKeep, TypeOK
  <1>3. CASE ReadRange(p)
    BY <1>3 DEF ReadRange, Return, Goto, OthersKeep, TypeOK
  <1>4. CASE CreateScan(p)
    BY <1>4 DEF CreateScan, Goto, OthersKeep, TypeOK
  <1>5. CASE ResumeScan(p)
    BY <1>5 DEF ResumeScan, Goto, OthersKeep, TypeOK
  <1>6. CASE NextAddresses(p)
    BY <1>6 DEF NextAddresses, Goto, OthersKeep, TypeOK
  <1>7. CASE TakeResult(p)
    BY <1>7 DEF TakeResult, TakeAnswer, Goto, OthersKeep, TypeOK
  <1>8. CASE RecordRetry(p) \/ CloseRetry(p)
    BY <1>8 DEF RecordRetry, CloseRetry, Goto, OthersKeep, TypeOK
  <1>9. CASE SavePositiveFindings(p)
    BY <1>9 DEF SavePositiveFindings, Goto, OthersKeep, TypeOK
  <1>10. CASE ForeignKeyError(p) \/ PauseScan(p) \/ CompleteScan(p) \/ Crash(p)
    BY <1>10 DEF ForeignKeyError, PauseScan, CompleteScan, Crash, Return, OthersKeep, TypeOK
  <1>11. CASE AdvanceScan(p)
    BY <1>11 DEF AdvanceScan, Goto, OthersKeep, TypeOK
  <1> QED
    BY <1>1, <1>2, <1>3, <1>4, <1>5, <1>6, <1>7, <1>8, <1>9, <1>10, <1>11 DEF Step

(* The invariant holds of the empty database.                              *)
LEMMA InvInit == Init => IInv
  <1> SUFFICES ASSUME Init PROVE IInv
    OBVIOUS
  <1>1. TypeOK
    BY TypeInit
  <1>2. IdsOK
    BY DEF Init, IdsOK
  <1>3. \A r \in RunIds : RunOK(r)
    BY DEF Init, RunOK, NoRun, Covered
  <1>4. \A p \in Procs : ProcOK(p)
    BY DEF Init, ProcOK
  <1> QED
    BY <1>1, <1>2, <1>3, <1>4 DEF IInv

-----------------------------------------------------------------------------
(* Imports and the cleanup keep the invariant. *)

(* The three statements of an import keep the invariant.                   *)
LEMMA ImportInv ==
    ASSUME IInv, TypeOK', NEW i \in Imports, ImportInsert(i) \/ ImportCommit(i) \/ ImportRollback(i)
    PROVE  IInv'
  <1>1. /\ high \in Int /\ high' \in Int /\ nextId \in Int /\ nRuns \in Int
        /\ rows[i] \subseteq Int /\ addresses \subseteq Int
    BY Numbers, BoundsAssumption DEF IInv, TypeOK, Ids
  <1>2. /\ \A a \in addresses' \ late' : a \in addresses \ late \/ a > high
        /\ high <= high'
    <2>1. CASE ImportCommit(i)
      BY <1>1, <2>1 DEF ImportCommit
    <2>2. CASE ImportInsert(i) \/ ImportRollback(i)
      BY <1>1, <2>2 DEF ImportInsert, ImportRollback, history
    <2> QED
      BY <2>1, <2>2
  <1>3. UNCHANGED <<nRuns, runs, retry, findings, procState, zeros>>
    BY DEF ImportInsert, ImportCommit, ImportRollback, history
  <1>4. Grows
    BY <1>1, <1>2, <1>3 DEF Grows
  <1>5. IdsOK'
    <2>1. CASE ImportInsert(i)
      <3>1. \A j \in Imports : \A a \in rows'[j] : a \in rows[j] \/ a = nextId
        BY <2>1 DEF ImportInsert, IInv, TypeOK
      <3>2. \A j \in Imports : rows[j] \subseteq Int
        BY BoundsAssumption DEF IInv, TypeOK, Ids
      <3> QED
        BY <1>1, <2>1, <3>1, <3>2 DEF ImportInsert, IInv, IdsOK, history
    <2>2. CASE ImportCommit(i)
      <3>1. \A j \in Imports : rows'[j] \subseteq rows[j]
        BY <2>2 DEF ImportCommit, IInv, TypeOK
      <3> QED
        BY <1>1, <2>2, <3>1 DEF ImportCommit, IInv, IdsOK
    <2>3. CASE ImportRollback(i)
      <3>1. \A j \in Imports : rows'[j] \subseteq rows[j]
        BY <2>3 DEF ImportRollback, IInv, TypeOK
      <3> QED
        BY <1>1, <2>3, <3>1 DEF ImportRollback, IInv, IdsOK, history
    <2> QED
      BY <2>1, <2>2, <2>3
  <1>6. \A r \in RunIds : RunOK(r)'
    BY <1>3, <1>4, RunFrame DEF IInv
  <1> QED
    BY <1>3, <1>4, <1>5, <1>6, TableStep DEF procState

(* The passing of the retention time keeps the invariant.                  *)
LEMMA RetentionInv ==
    ASSUME IInv, TypeOK', NEW s \in RunIds, RetentionElapses(s)
    PROVE  IInv'
  <1>1. \A r \in RunIds : /\ runs'[r].start = runs[r].start /\ runs'[r].end = runs[r].end
                          /\ runs'[r].cursor = runs[r].cursor /\ runs'[r].status = runs[r].status
    <2>1. \A r \in RunIds : runs[r] \in RunRows
      BY DEF IInv, TypeOK
    <2> QED
      BY <2>1 DEF RetentionElapses, IInv, TypeOK, RunRows
  <1>2. Grows
    BY <1>1, Numbers, BoundsAssumption
       DEF RetentionElapses, Grows, IInv, TypeOK, RunIds, history
  <1>3. IdsOK'
    BY DEF RetentionElapses, IInv, IdsOK, history
  <1>4. ASSUME NEW r \in RunIds PROVE RunOK(r)'
    <2>1. /\ addresses' = addresses /\ late' = late /\ retry' = retry /\ findings' = findings
          /\ zeros' = zeros /\ high' = high /\ nRuns' = nRuns
      BY DEF RetentionElapses, history
    <2>2. \A n : Covered(n) => Covered(n)'
      BY <2>1 DEF Covered, Settled, PairSettled
    <2> QED
      BY <1>1, <2>1, <2>2 DEF IInv, RunOK
  <1> QED
    BY <1>2, <1>3, <1>4, TableStep DEF RetentionElapses

(* The DELETE of a cleanup keeps the invariant.                            *)
LEMMA CleanupInv ==
    ASSUME IInv, TypeOK', CleanupRun
    PROVE  IInv'
  <1>1. Grows
    BY Numbers DEF CleanupRun, Grows, IInv, history
  <1>2. IdsOK'
    BY DEF CleanupRun, IInv, IdsOK, history
  <1>3. \A r \in RunIds : RunOK(r)'
    BY <1>1, RunFrame DEF CleanupRun, IInv
  <1> QED
    BY <1>1, <1>2, <1>3, TableStep DEF CleanupRun

-----------------------------------------------------------------------------
(* The statements of RunOnce keep the invariant. *)

(* A process that has returned has nothing to show for.                    *)
LEMMA ReturnInv ==
    ASSUME TypeOK, NEW p \in Procs, Return(p)
    PROVE  ProcOK(p)'
  <1>1. pc'[p] = "idle"
    BY ReturnType
  <1> QED
    BY <1>1 DEF ProcOK

(* ActiveScan: the cursor read from an active run is covered.              *)
LEMMA ActiveScanInv ==
    ASSUME IInv, TypeOK', NEW p \in Procs, ActiveScan(p)
    PROVE  IInv'
  <1>1. OthersKeep(p) /\ UNCHANGED <<tables, high, late>> /\ zeros' = zeros
    BY StepOthers DEF IInv, ActiveScan, history
  <1>2. \A n : Covered(n) => Covered(n)'
    BY <1>1 DEF Covered, Settled, PairSettled, tables
  <1>3. ProcOK(p)'
    <2>1. CASE Goto(p, "lastEnd")
      <3>1. pc'[p] = "lastEnd"
        BY <2>1 DEF Goto, IInv, TypeOK
      <3> QED
        BY <3>1 DEF ProcOK
    <2>2. ASSUME NEW r \in Active,
                 Goto(p, IF runs[r].status = "paused" THEN "resume" ELSE "next"),
                 job' = [job EXCEPT ![p].run = r, ![p].cursor = ResumeCursor(r)]
          PROVE  ProcOK(p)'
      <3>1. pc'[p] \in {"resume", "next"}
        BY <2>2 DEF Goto, IInv, TypeOK
      <3>2. job'[p].run = r /\ job'[p].cursor = runs[r].cursor
        <4>1. job[p] \in Jobs
          BY DEF IInv, TypeOK
        <4> QED
          BY <2>2, <4>1 DEF IInv, TypeOK, Jobs, ResumeCursor
      <3>3. RunOK(r) /\ runs[r].status # "absent" /\ runs' = runs /\ nRuns' = nRuns
        BY <1>1, <2>2 DEF IInv, Active, tables
      <3> QED
        BY <1>2, <3>1, <3>2, <3>3 DEF ProcOK, RunOK
    <2> QED
      BY <2>1, <2>2 DEF ActiveScan
  <1> QED
    BY <1>1, <1>3, LocalStep

(* UnscannedRange, first statement: what it reads is the end of a completed*)
(* run.                                                                    *)
LEMMA ReadLastEndInv ==
    ASSUME IInv, TypeOK', NEW p \in Procs, ReadLastEnd(p)
    PROVE  IInv'
  <1>1. OthersKeep(p) /\ UNCHANGED <<tables, high, late>> /\ zeros' = zeros
    BY StepOthers DEF IInv, ReadLastEnd, Step, history
  <1>2. \A n : Covered(n) => Covered(n)'
    BY <1>1 DEF Covered, Settled, PairSettled, tables
  <1>3. pc'[p] = "range"
    BY DEF ReadLastEnd, Goto, IInv, TypeOK
  <1>4. PICK e \in CompletedEnds : job' = [job EXCEPT ![p].lastEnd = e]
    BY DEF ReadLastEnd
  <1>5. job'[p].lastEnd = e
    <2>1. job[p] \in Jobs
      BY DEF IInv, TypeOK
    <2> QED
      BY <1>4, <2>1 DEF IInv, TypeOK, Jobs
  <1>6. Covered(e) /\ e <= high
    <2>1. CASE e = 0
      BY <2>1, BoundsAssumption DEF Covered, IInv, TypeOK, Ids
    <2>2. ASSUME NEW r \in Completed, e = runs[r].end PROVE Covered(e) /\ e <= high
      BY <2>2 DEF Completed, IInv, RunOK
    <2> QED
      BY <1>4, <2>1, <2>2 DEF CompletedEnds
  <1>7. ProcOK(p)'
    BY <1>1, <1>2, <1>3, <1>5, <1>6 DEF ProcOK
  <1> QED
    BY <1>1, <1>7, LocalStep

(* UnscannedRange, second statement: all on-time addresses below the range *)
(* are settled.                                                            *)
LEMMA ReadRangeInv ==
    ASSUME IInv, TypeOK', NEW p \in Procs, ReadRange(p)
    PROVE  IInv'
  <1>1. OthersKeep(p) /\ UNCHANGED <<tables, high, late>> /\ zeros' = zeros
    BY StepOthers DEF IInv, ReadRange, Step, history
  <1>2. \A n : Covered(n) => Covered(n)'
    BY <1>1 DEF Covered, Settled, PairSettled, tables
  <1>3. ASSUME NEW lo \in addresses, NEW hi \in addresses, Goto(p, "create"),
               \A a \in {b \in addresses : b > job[p].lastEnd} : lo <= a /\ a <= hi,
               hi > job[p].lastEnd,
               job' = [job EXCEPT ![p].lo = lo, ![p].hi = hi]
        PROVE  ProcOK(p)'
    <2>1. pc'[p] = "create"
      BY <1>3 DEF Goto, IInv, TypeOK
    <2>2. job'[p].lo = lo /\ job'[p].hi = hi
      <3>1. job[p] \in Jobs
        BY DEF IInv, TypeOK
      <3> QED
        BY <1>3, <3>1 DEF IInv, TypeOK, Jobs
    <2>3. lo <= hi /\ hi <= high
      BY <1>3 DEF IInv, IdsOK
    <2>4. Covered(lo - 1)
      <3>1. Covered(job[p].lastEnd)
        BY DEF ReadRange, IInv, ProcOK
      <3> QED
        BY <1>3, <3>1, Numbers DEF IInv, Covered
    <2> QED
      BY <1>1, <1>2, <2>1, <2>2, <2>3, <2>4 DEF ProcOK
  <1>4. ProcOK(p)'
    BY <1>3, ReturnInv DEF ReadRange, IInv
  <1> QED
    BY <1>1, <1>4, LocalStep

(* CreateScan: the new row starts where the settled prefix ends.           *)
LEMMA CreateScanInv ==
    ASSUME IInv, TypeOK', NEW p \in Procs, CreateScan(p)
    PROVE  IInv'
  <1>1. OthersKeep(p) /\ UNCHANGED <<addresses, nextId, rows, retry, findings, high, late, zeros>>
    BY StepOthers DEF IInv, CreateScan, Step, history
  <1>2. \A m : Covered(m) => Covered(m)'
    BY <1>1 DEF Covered, Settled, PairSettled
  <1>3. /\ job[p].lo \in Int /\ job[p].hi \in Int /\ high \in Int /\ nRuns \in Int
        /\ 1 <= job[p].lo /\ job[p].lo <= job[p].hi /\ job[p].hi <= high /\ Covered(job[p].lo - 1)
    BY Numbers DEF CreateScan, IInv, TypeOK, LocalsOK, ProcOK
  <1>4. PICK n \in RunIds : n = nRuns + 1
    BY <1>3, BoundsAssumption DEF CreateScan, IInv, TypeOK, RunIds
  <1>5. /\ runs'[n].start = job[p].lo /\ runs'[n].end = job[p].hi
        /\ runs'[n].cursor = job[p].lo - 1 /\ runs'[n].status = "running"
        /\ \A r \in RunIds : r # n => runs'[r] = runs[r]
    BY <1>4 DEF CreateScan, IInv, TypeOK, NoRun, StartCursor
  <1>6. Grows
    BY <1>1, <1>3, <1>4, <1>5, BoundsAssumption DEF Grows, CreateScan, IInv, TypeOK, RunIds
  <1>7. IdsOK'
    BY <1>1 DEF IInv, IdsOK
  <1>8. \A r \in RunIds : RunOK(r)'
    <2>1. RunOK(n)'
      BY <1>1, <1>2, <1>3, <1>4, <1>5 DEF RunOK, CreateScan
    <2> QED
      BY <1>5, <1>6, <2>1, RunFrame DEF IInv
  <1>9. ProcOK(p)'
    <2>1. pc'[p] = "next"
      BY DEF CreateScan, Goto, IInv, TypeOK
    <2>2. job'[p].run = n /\ job'[p].cursor = job[p].lo - 1
      BY <1>4 DEF CreateScan, IInv, TypeOK, NoJob, StartCursor
    <2> QED
      BY <1>2, <1>3, <1>4, <1>5, <2>1, <2>2 DEF ProcOK, CreateScan
  <1> QED
    BY <1>1, <1>6, <1>7, <1>8, <1>9, ProcStep

(* A change of status keeps a run in order, if a run that becomes          *)
(* completed is covered up to its end.                                     *)
LEMMA StatusInv ==
    ASSUME IInv, TypeOK', NEW s \in RunIds, s <= nRuns, NEW old, NEW new,
           SetStatus(s, old, new), old # "absent",
           UNCHANGED <<addresses, nextId, rows, nRuns, retry, findings, high, late, zeros>>,
           new = "completed" => Covered(runs[s].end)
    PROVE  Grows /\ IdsOK' /\ \A r \in RunIds : RunOK(r)'
  <1>1. /\ \A r \in RunIds : /\ runs'[r].start = runs[r].start /\ runs'[r].end = runs[r].end
                             /\ runs'[r].cursor = runs[r].cursor
        /\ \A r \in RunIds : r # s => runs'[r] = runs[r]
        /\ runs'[s].status = IF runs[s].status = old THEN new ELSE runs[s].status
    <2>1. \A r \in RunIds : runs[r] \in RunRows
      BY DEF IInv, TypeOK
    <2> QED
      BY <2>1 DEF SetStatus, IInv, TypeOK, RunRows
  <1>2. \A n : Covered(n) => Covered(n)'
    BY DEF Covered, Settled, PairSettled
  <1>3. Grows
    BY <1>1, Numbers, BoundsAssumption DEF Grows, IInv, TypeOK, RunIds
  <1>4. IdsOK'
    BY DEF IInv, IdsOK
  <1>5. RunOK(s)'
    BY <1>1, <1>2 DEF IInv, RunOK
  <1> QED
    BY <1>1, <1>3, <1>4, <1>5, RunFrame DEF IInv

(* ResumeScan keeps the invariant.                                         *)
LEMMA ResumeScanInv ==
    ASSUME IInv, TypeOK', NEW p \in Procs, ResumeScan(p)
    PROVE  IInv'
  <1>1. OthersKeep(p)
        /\ UNCHANGED <<addresses, nextId, rows, nRuns, retry, findings, job, high, late, zeros>>
    BY StepOthers DEF IInv, ResumeScan, Step, history
  <1>2. job[p].run \in RunIds /\ job[p].run <= nRuns /\ job[p].run \in 1 .. nRuns
    BY RunOfProcess, Numbers DEF ResumeScan, IInv, InRun, ProcOK, RunIds
  <1>3. Grows /\ IdsOK' /\ \A r \in RunIds : RunOK(r)'
    BY <1>1, <1>2, StatusInv DEF ResumeScan
  <1>4. ProcOK(p)'
    <2>1. pc'[p] = "next"
      BY DEF ResumeScan, Goto, IInv, TypeOK
    <2>2. \A m : Covered(m) => Covered(m)'
      BY <1>1 DEF Covered, Settled, PairSettled
    <2>3. runs'[job[p].run].start = runs[job[p].run].start /\ runs'[job[p].run].end = runs[job[p].run].end
      BY <1>2, <1>3 DEF Grows
    <2>4. ProcOK(p) /\ pc[p] = "resume"
      BY DEF ResumeScan, IInv
    <2> QED
      BY <1>1, <2>1, <2>2, <2>3, <2>4 DEF ProcOK
  <1> QED
    BY <1>1, <1>3, <1>4, ProcStep

-----------------------------------------------------------------------------
(* The statements of run keep the invariant. *)

(* NextAddresses: a page has no gap, and no page left means the run is     *)
(* covered to its end.                                                     *)
LEMMA NextAddressesInv ==
    ASSUME IInv, TypeOK', NEW p \in Procs, NextAddresses(p)
    PROVE  IInv'
  <1> DEFINE page == Lowest(Pending(p), BatchSize)
  <1> DEFINE run == runs[job[p].run]
  <1>1. OthersKeep(p) /\ UNCHANGED <<tables, high, late>> /\ zeros' = zeros
    BY StepOthers DEF IInv, NextAddresses, Step, history
  <1>2. \A n : Covered(n) => Covered(n)'
    BY <1>1 DEF Covered, Settled, PairSettled, tables
  <1>3. /\ job[p].run <= nRuns /\ run.start <= job[p].cursor + 1 /\ job[p].cursor <= run.end
        /\ Covered(job[p].cursor)
    BY DEF NextAddresses, IInv, ProcOK
  <1>4. /\ job[p].cursor \in Int /\ run.end \in Int /\ run.start \in Int
        /\ addresses \subseteq Int
    BY RunOfProcess, Numbers DEF NextAddresses, IInv, InRun
  <1>5. runs' = runs /\ nRuns' = nRuns
    BY <1>1 DEF tables
  <1>6. CASE Pending(p) = {} /\ Goto(p, "complete") /\ UNCHANGED job
    <2>1. pc'[p] = "complete"
      BY <1>6 DEF Goto, IInv, TypeOK
    <2>2. Covered(run.end)
      BY <1>3, <1>4, <1>6 DEF Covered, Pending
    <2>3. ProcOK(p)'
      BY <1>2, <1>3, <1>5, <1>6, <2>1, <2>2 DEF ProcOK
    <2> QED
      BY <1>1, <2>3, LocalStep
  <1>7. ASSUME NEW m \in page, \A a \in page : a <= m, Goto(p, "batch"),
               job' = [job EXCEPT ![p].todo = page, ![p].last = m,
                                  ![p].pause = FALSE, ![p].tally = NoCounts]
        PROVE  IInv'
    <2>1. pc'[p] = "batch"
      BY <1>7 DEF Goto, IInv, TypeOK
    <2> HIDE DEF page
    <2>2. /\ job'[p].run = job[p].run /\ job'[p].cursor = job[p].cursor
          /\ job'[p].last = m /\ job'[p].todo = page
      <3>1. job[p] \in Jobs
        BY DEF IInv, TypeOK
      <3> QED
        BY <1>7, <3>1 DEF IInv, TypeOK, Jobs
    <2>3. /\ page \subseteq Pending(p)
          /\ \A a \in page, b \in Pending(p) : b <= a => b \in page
      BY LowestIsPrefix, BoundsAssumption DEF page, Pending, IInv, TypeOK
    <2>4. m \in Int /\ m > job[p].cursor /\ m <= run.end
      BY <1>4, <1>7, <2>3 DEF Pending
    <2>5. \A a \in addresses \ late : a <= m => Settled(a) \/ a \in page
      <3> SUFFICES ASSUME NEW a \in addresses \ late, a <= m, a \notin page PROVE Settled(a)
        OBVIOUS
      <3>1. a \notin Pending(p)
        BY <1>7, <2>3
      <3> QED
        BY <1>3, <1>4, <2>4, <3>1 DEF Pending, Covered
    <2>6. \A a : Settled(a) => Settled(a)'
      BY <1>1 DEF Settled, PairSettled, tables
    <2>7. BatchCovered(p)'
      BY <1>1, <2>1, <2>2, <2>5, <2>6 DEF BatchCovered, tables
    <2>8. ProcOK(p)'
      BY <1>2, <1>3, <1>4, <1>5, <2>1, <2>2, <2>4, <2>7 DEF ProcOK
    <2> QED
      BY <1>1, <2>8, LocalStep
  <1> QED
    BY <1>6, <1>7 DEF NextAddresses

(* Taking a result: the answered chains are settled or among the errors and*)
(* findings to persist.                                                    *)
LEMMA TakeResultInv ==
    ASSUME IInv, TypeOK', NEW p \in Procs, TakeResult(p)
    PROVE  IInv'
  <1> DEFINE run == runs[job[p].run]
  <1>1. OthersKeep(p) /\ UNCHANGED <<tables, high, late>>
    BY StepOthers DEF IInv, TakeResult, Step
  <1>2. PICK a \in job[p].todo, pause \in BOOLEAN :
          \E answer \in [Chain(a) -> Answers] : TakeAnswer(p, a, pause, answer)
    BY DEF TakeResult
  <1>3. PICK answer \in [Chain(a) -> Answers] : TakeAnswer(p, a, pause, answer)
    BY <1>2
  <1>4. zeros \subseteq zeros' /\ \A c \in Answered(a, answer, "zero") : <<a, c>> \in zeros'
    BY <1>3 DEF TakeAnswer
  <1>5. \A b : Settled(b) => Settled(b)'
    BY <1>1, <1>4 DEF Settled, PairSettled, tables
  <1>6. \A n : Covered(n) => Covered(n)'
    BY <1>1, <1>5 DEF Covered, tables
  <1>7. pc'[p] = "persist"
    BY DEF TakeResult, Goto, IInv, TypeOK
  <1>8. /\ job'[p].run = job[p].run /\ job'[p].cursor = job[p].cursor
        /\ job'[p].last = job[p].last /\ job'[p].todo = job[p].todo \ {a}
    <2>1. job[p] \in Jobs
      BY DEF IInv, TypeOK
    <2> QED
      BY <1>3, <2>1 DEF TakeAnswer, IInv, TypeOK, Jobs
  <1>9. /\ res'[p].id = a /\ res'[p].errs = Failed(a, answer)
        /\ res'[p].finds = Answered(a, answer, "positive")
    BY <1>3 DEF TakeAnswer, IInv, TypeOK
  <1>10. pc[p] = "batch" /\ ProcOK(p)
    BY DEF TakeResult, IInv
  <1>11. BatchCovered(p)'
    BY <1>1, <1>5, <1>7, <1>8, <1>9, <1>10 DEF BatchCovered, ProcOK, tables
  <1>12. ResultCovered(p)'
    <2>1. \A c \in Chain(a) : c \in Answered(a, answer, "zero") \cup Failed(a, answer)
                                      \cup Answered(a, answer, "positive")
      BY <1>3, AnswersAssumption DEF Answered, Failed
    <2>2. \A c \in Chain(a) : PairSettled(a, c)' \/ c \in Failed(a, answer) \cup Answered(a, answer, "positive")
      BY <1>4, <2>1 DEF PairSettled
    <2>3. Failed(a, answer) \subseteq Chain(a)
      BY DEF Failed, Answered
    <2> QED
      BY <1>9, <2>2, <2>3 DEF ResultCovered
  <1>13. ProcOK(p)'
    BY <1>1, <1>6, <1>7, <1>8, <1>10, <1>11, <1>12 DEF ProcOK, tables
  <1> QED
    BY <1>1, <1>4, <1>13, LocalStep

(* The chains of one address have different places in its slice.           *)
LEMMA FirstChainUnique ==
    ASSUME NEW a \in Ids, NEW S \in SUBSET Chain(a), NEW c, NEW d,
           IsFirstChain(c, S), IsFirstChain(d, S)
    PROVE  c = d
  <1>1. c \in Chain(a) /\ d \in Chain(a) /\ ChainRank(c) <= ChainRank(d) /\ ChainRank(d) <= ChainRank(c)
    BY DEF IsFirstChain
  <1>2. ChainRank(c) \in Int /\ ChainRank(d) \in Int
    BY DEF ChainRank
  <1>3. ChainRank(c) = ChainRank(d)
    BY <1>1, <1>2
  <1>4. TypeOf[a] \in AddressTypes
    BY TypeOfAssumption
  <1> QED
    BY <1>1, <1>3, <1>4 DEF Chain, chainsFor, AddressTypes, ChainRank, TypeEVM, TypeBTC, TypeSOL,
       TypeTRX, ChainBTC, ChainEthereum, ChainArbitrum, ChainBSC, ChainSolana, ChainTRON

(* What the invariant says of a process that persists a result. *)
LEMMA PersistFacts ==
    ASSUME IInv, NEW p \in Procs, pc[p] \in {"persist", "close"}
    PROVE  /\ res[p].id \in Ids /\ Chain(res[p].id) \subseteq Chains
           /\ res[p].errs \subseteq Chain(res[p].id)
           /\ \A c \in res[p].errs : <<res[p].id, c>> \in Pairs
           /\ ResultCovered(p) /\ BatchCovered(p)
           /\ job[p].run \in RunIds /\ job[p].run \in 1 .. nRuns
  <1>1. res[p].id \in Ids
    BY BoundsAssumption DEF IInv, TypeOK, LocalsOK, Results, Ids
  <1>2. Chain(res[p].id) \subseteq Chains
    BY <1>1, ChainType
  <1>3. ResultCovered(p) /\ BatchCovered(p) /\ job[p].run <= nRuns
    BY DEF IInv, ProcOK
  <1>4. job[p].run \in RunIds /\ job[p].run \in 1 .. nRuns
    BY <1>3, RunOfProcess, Numbers DEF IInv, InRun, RunIds
  <1> QED
    BY <1>1, <1>2, <1>3, <1>4 DEF ResultCovered, Pairs

(* A step that only adds outcomes for the address process p persists keeps *)
(* the marks and the batch of p.                                           *)
LEMMA PersistStep ==
    ASSUME IInv, TypeOK', NEW p \in Procs, OthersKeep(p), pc[p] \in {"persist", "close"},
           UNCHANGED <<addresses, nextId, rows, nRuns, runs, high, late, zeros>>,
           \A x \in Pairs : retry[x] # "none" => retry'[x] # "none",
           findings \subseteq findings',
           /\ job'[p].run = job[p].run /\ job'[p].cursor = job[p].cursor
           /\ job'[p].last = job[p].last /\ job'[p].todo = job[p].todo,
           pc'[p] \in {"persist", "close"} => res'[p].id = res[p].id /\ ResultCovered(p)',
           pc'[p] \in {"persist", "close", "batch"},
           NEW id \in Ids, id = res[p].id, pc'[p] = "batch" => Settled(id)',
           pc'[p] = "close" => \A c \in res'[p].errs :
                IsFirstChain(c, res'[p].errs) => retry'[<<res'[p].id, c>>] # "none"
    PROVE  IInv'
  <1>1. Grows
    BY Numbers DEF Grows, IInv
  <1>2. IdsOK'
    BY DEF IInv, IdsOK
  <1>3. \A r \in RunIds : RunOK(r)'
    BY <1>1, RunFrame DEF IInv
  <1>4. Covered(job[p].cursor)'
    <2>1. /\ job[p].cursor \in Int /\ job[p].cursor <= runs[job[p].run].end
          /\ job[p].run \in RunIds /\ Covered(job[p].cursor)
      BY PersistFacts, Numbers DEF IInv, ProcOK
    <2>2. runs[job[p].run].end <= high /\ runs[job[p].run].end \in Int /\ high \in Int
      BY <2>1, Numbers DEF IInv, RunOK
    <2>3. \A n \in Int : n <= high /\ Covered(n) => Covered(n)'
      BY <1>1, CoveredGrows DEF IInv
    <2>4. job[p].cursor <= high
      BY <2>1, <2>2
    <2> QED
      BY <2>1, <2>3, <2>4
  <1>5. BatchCovered(p)'
    <2> SUFFICES ASSUME NEW a \in addresses \ late, a <= job[p].last
                 PROVE  Settled(a)' \/ a \in job[p].todo \/ (pc'[p] # "batch" /\ a = res'[p].id)
      BY DEF BatchCovered
    <2>1. Settled(a) \/ a \in job[p].todo \/ a = res[p].id
      BY PersistFacts DEF BatchCovered
    <2>2. a \in Ids
      BY DEF IInv, TypeOK
    <2>3. Settled(a) => Settled(a)'
      BY <1>1, <2>2, SettledGrows DEF IInv
    <2> QED
      BY <2>1, <2>3
  <1>6. ProcOK(p)'
    BY <1>4, <1>5 DEF IInv, ProcOK
  <1> QED
    BY <1>1, <1>2, <1>3, <1>6, ProcStep

(* RecordRetry keeps the invariant.                                        *)
LEMMA RecordRetryInv ==
    ASSUME IInv, TypeOK', NEW p \in Procs, RecordRetry(p)
    PROVE  IInv'
  <1>0. PICK id \in Ids : id = res[p].id
    BY PersistFacts DEF RecordRetry
  <1>1. /\ OthersKeep(p) /\ pc[p] = "persist"
        /\ UNCHANGED <<addresses, nextId, rows, nRuns, runs, findings, job, high, late, zeros>>
    BY StepOthers DEF IInv, RecordRetry, Step, history
  <1>2. PICK c \in res[p].errs :
          /\ IsFirstChain(c, res[p].errs)
          /\ retry' = [retry EXCEPT ![<<res[p].id, c>>] = "open"]
          /\ IF c \in res[p].invalid
               THEN Goto(p, "close") /\ UNCHANGED res
               ELSE res' = [res EXCEPT ![p].errs = OtherErrors(p, c)] /\ UNCHANGED pc
    BY DEF RecordRetry
  <1>3. /\ \A x \in Pairs : retry[x] # "none" => retry'[x] # "none"
        /\ retry'[<<res[p].id, c>>] # "none"
    <2>1. <<res[p].id, c>> \in Pairs
      BY <1>1, <1>2, PersistFacts
    <2> QED
      BY <1>2, <2>1 DEF IInv, TypeOK
  <1>4. \A d \in Chain(id) : PairSettled(id, d) => PairSettled(id, d)'
    BY <1>0, <1>1, <1>3, PersistFacts DEF PairSettled, Pairs
  <1>5. ResultCovered(p) /\ res[p].errs \subseteq Chain(res[p].id) /\ res[p].id \in Ids
    BY <1>1, PersistFacts
  <1>6. CASE c \in res[p].invalid
    <2>1. pc'[p] = "close" /\ res' = res
      BY <1>2, <1>6 DEF Goto, IInv, TypeOK
    <2>2. ResultCovered(p)'
      BY <1>0, <1>4, <1>5, <2>1 DEF ResultCovered
    <2>3. \A d \in res[p].errs : IsFirstChain(d, res[p].errs) => d = c
      BY <1>2, <1>5, FirstChainUnique
    <2> QED
      BY <1>1, <1>3, <2>1, <2>2, <2>3, <1>0, PersistStep
  <1>7. CASE c \notin res[p].invalid
    <2>1. pc'[p] = "persist"
      BY <1>1, <1>2, <1>7
    <2>2. /\ res'[p].id = res[p].id /\ res'[p].errs = res[p].errs \ {c}
          /\ res'[p].finds = res[p].finds
      <3>1. res[p] \in Results
        BY DEF IInv, TypeOK
      <3> QED
        BY <1>2, <1>7, <3>1 DEF IInv, TypeOK, Results, OtherErrors
    <2>3. PairSettled(id, c)'
      BY <1>0, <1>3 DEF PairSettled
    <2>4. ResultCovered(p)'
      BY <1>0, <1>4, <1>5, <2>2, <2>3 DEF ResultCovered
    <2> QED
      BY <1>1, <1>3, <2>1, <2>2, <2>4, <1>0, PersistStep
  <1> QED
    BY <1>6, <1>7

(* CloseRetry keeps the invariant.                                         *)
LEMMA CloseRetryInv ==
    ASSUME IInv, TypeOK', NEW p \in Procs, CloseRetry(p)
    PROVE  IInv'
  <1>0. PICK id \in Ids : id = res[p].id
    BY PersistFacts DEF CloseRetry
  <1>1. /\ OthersKeep(p) /\ pc[p] = "close" /\ pc'[p] = "persist"
        /\ UNCHANGED <<addresses, nextId, rows, nRuns, runs, findings, job, high, late, zeros>>
    BY StepOthers DEF IInv, CloseRetry, Step, history, Goto, TypeOK
  <1>2. PICK c \in res[p].errs :
          /\ IsFirstChain(c, res[p].errs)
          /\ retry' = [retry EXCEPT ![<<res[p].id, c>>] = IF @ = "none" THEN @ ELSE "resolved"]
          /\ res' = [res EXCEPT ![p].errs = OtherErrors(p, c)]
    BY DEF CloseRetry
  <1>3. /\ \A x \in Pairs : retry[x] # "none" => retry'[x] # "none"
        /\ retry'[<<res[p].id, c>>] # "none"
    <2>1. <<res[p].id, c>> \in Pairs
      BY <1>1, <1>2, PersistFacts
    <2>2. retry[<<res[p].id, c>>] # "none"
      BY <1>1, <1>2 DEF IInv, ProcOK
    <2> QED
      BY <1>2, <2>1, <2>2 DEF IInv, TypeOK
  <1>4. \A d \in Chain(id) : PairSettled(id, d) => PairSettled(id, d)'
    BY <1>0, <1>1, <1>3, PersistFacts DEF PairSettled, Pairs
  <1>5. /\ res'[p].id = res[p].id /\ res'[p].errs = res[p].errs \ {c}
        /\ res'[p].finds = res[p].finds
    <2>1. res[p] \in Results
      BY DEF IInv, TypeOK
    <2> QED
      BY <1>2, <2>1 DEF IInv, TypeOK, Results, OtherErrors
  <1>6. ResultCovered(p)'
    <2>1. PairSettled(id, c)'
      BY <1>0, <1>3 DEF PairSettled
    <2> QED
      BY <1>0, <1>1, <1>4, <1>5, <2>1, PersistFacts DEF ResultCovered
  <1> QED
    BY <1>1, <1>3, <1>5, <1>6, <1>0, PersistStep

(* SavePositiveFindings keeps the invariant.                               *)
LEMMA SavePositiveFindingsInv ==
    ASSUME IInv, TypeOK', NEW p \in Procs, SavePositiveFindings(p)
    PROVE  IInv'
  <1>0. PICK id \in Ids : id = res[p].id
    BY PersistFacts DEF SavePositiveFindings
  <1>1. /\ OthersKeep(p) /\ pc[p] = "persist" /\ pc'[p] = "batch"
        /\ UNCHANGED <<addresses, nextId, rows, nRuns, runs, retry, high, late, zeros>>
    BY StepOthers DEF IInv, SavePositiveFindings, Step, history, Goto, TypeOK
  <1>2. /\ job'[p].run = job[p].run /\ job'[p].cursor = job[p].cursor
        /\ job'[p].last = job[p].last /\ job'[p].todo = job[p].todo
    <2>1. job[p] \in Jobs
      BY DEF IInv, TypeOK
    <2> QED
      BY <2>1 DEF SavePositiveFindings, IInv, TypeOK, Jobs
  <1>3. findings \subseteq findings' /\ \A c \in res[p].finds : <<res[p].id, c>> \in findings'
    BY DEF SavePositiveFindings
  <1>4. Settled(id)'
    <2>1. ResultCovered(p) /\ res[p].errs = {}
      BY <1>1, PersistFacts DEF SavePositiveFindings
    <2>2. \A c \in Chain(id) : PairSettled(id, c) \/ c \in res[p].finds
      BY <1>0, <2>1 DEF ResultCovered
    <2>3. \A c \in Chain(id) : PairSettled(id, c)'
      BY <1>0, <1>1, <1>3, <2>2 DEF PairSettled
    <2> QED
      BY <2>3 DEF Settled
  <1> QED
    BY <1>1, <1>2, <1>3, <1>4, <1>0, PersistStep

(* A crash or a foreign key error keeps the invariant.                     *)
LEMMA ExitInv ==
    ASSUME IInv, TypeOK', NEW p \in Procs, ForeignKeyError(p) \/ Crash(p)
    PROVE  IInv'
  <1>1. /\ OthersKeep(p) /\ Return(p) /\ UNCHANGED <<tables, high, late>> /\ zeros' = zeros
    BY StepOthers DEF IInv, ForeignKeyError, Crash, Step, history
  <1> QED
    BY <1>1, ReturnInv, LocalStep DEF IInv

(* PauseScan and CompleteScan keep the invariant.                          *)
LEMMA PauseCompleteInv ==
    ASSUME IInv, TypeOK', NEW p \in Procs, PauseScan(p) \/ CompleteScan(p)
    PROVE  IInv'
  <1>1. /\ OthersKeep(p) /\ Return(p)
        /\ UNCHANGED <<addresses, nextId, rows, nRuns, retry, findings, high, late, zeros>>
    BY StepOthers DEF IInv, PauseScan, CompleteScan, Step, history
  <1>2. job[p].run \in RunIds /\ job[p].run <= nRuns
    BY RunOfProcess DEF PauseScan, CompleteScan, IInv, InRun, ProcOK
  <1>3. Grows /\ IdsOK' /\ \A r \in RunIds : RunOK(r)'
    <2>1. CASE PauseScan(p)
      BY <1>1, <1>2, <2>1, StatusInv DEF PauseScan
    <2>2. CASE CompleteScan(p)
      <3>1. Covered(runs[job[p].run].end)
        BY <2>2 DEF CompleteScan, IInv, ProcOK
      <3> QED
        BY <1>1, <1>2, <2>2, <3>1, StatusInv DEF CompleteScan
    <2> QED
      BY <2>1, <2>2
  <1> QED
    BY <1>1, <1>3, ReturnInv, ProcStep DEF IInv

(* AdvanceScan: the new checkpoint is covered.                             *)
LEMMA AdvanceScanInv ==
    ASSUME IInv, TypeOK', NEW p \in Procs, AdvanceScan(p)
    PROVE  IInv'
  <1>1. /\ OthersKeep(p) /\ pc'[p] = "next"
        /\ UNCHANGED <<addresses, nextId, rows, nRuns, retry, findings, high, late, zeros>>
    BY StepOthers DEF IInv, AdvanceScan, Step, history, Goto, TypeOK
  <1>2. PICK s \in RunIds : s = job[p].run /\ s \in 1 .. nRuns
    BY RunOfProcess, Numbers DEF AdvanceScan, IInv, InRun, ProcOK, RunIds
  <1>3. /\ runs[s].start <= job[p].last + 1 /\ job[p].last <= runs[s].end
        /\ job[p].last \in Int /\ runs[s].start \in Int /\ runs[s].end \in Int
    BY <1>2, Numbers DEF AdvanceScan, IInv, ProcOK
  <1>4. Covered(job[p].last)
    BY DEF AdvanceScan, IInv, ProcOK, BatchCovered, Covered
  <1>5. \A n : Covered(n) => Covered(n)'
    BY <1>1 DEF Covered, Settled, PairSettled
  <1>6. /\ \A r \in RunIds : /\ runs'[r].start = runs[r].start /\ runs'[r].end = runs[r].end
                             /\ runs'[r].status = runs[r].status
        /\ \A r \in RunIds : r # s => runs'[r] = runs[r]
        /\ runs'[s].cursor \in {runs[s].cursor, job[p].last}
    <2>1. \A r \in RunIds : runs[r] \in RunRows
      BY DEF IInv, TypeOK
    <2>2. CASE runs[s].status = "running"
      BY <1>2, <2>1, <2>2 DEF AdvanceScan, IInv, TypeOK, RunRows, BatchCursor
    <2>3. CASE runs[s].status # "running"
      BY <1>2, <2>3 DEF AdvanceScan
    <2> QED
      BY <2>2, <2>3
  <1>7. Grows
    BY <1>1, <1>6, Numbers, BoundsAssumption DEF Grows, IInv, TypeOK, RunIds
  <1>8. IdsOK'
    BY <1>1 DEF IInv, IdsOK
  <1>9. RunOK(s)'
    BY <1>1, <1>3, <1>4, <1>5, <1>6 DEF IInv, RunOK
  <1>10. \A r \in RunIds : RunOK(r)'
    BY <1>6, <1>7, <1>9, RunFrame DEF IInv
  <1>11. ProcOK(p)'
    <2>1. job'[p].run = job[p].run /\ job'[p].cursor = job[p].last
      BY DEF AdvanceScan, IInv, TypeOK, NoJob, NextCursor, BatchCursor
    <2>2. nRuns' = nRuns /\ s <= nRuns
      BY <1>1, <1>2, Numbers DEF IInv
    <2> QED
      BY <1>1, <1>2, <1>3, <1>4, <1>5, <1>6, <2>1, <2>2 DEF ProcOK
  <1> QED
    BY <1>1, <1>7, <1>8, <1>10, <1>11, ProcStep

-----------------------------------------------------------------------------
(* The theorems *)

(* Every step keeps the inductive invariant.                               *)
LEMMA InvNext == IInv /\ [Next]_vars => IInv'
  <1> SUFFICES ASSUME IInv, [Next]_vars PROVE IInv'
    OBVIOUS
  <1>1. TypeOK'
    BY TypeNext DEF IInv
  <1>2. ASSUME NEW i \in Imports, ImportInsert(i) \/ ImportCommit(i) \/ ImportRollback(i) PROVE IInv'
    BY <1>1, <1>2, ImportInv
  <1>3. ASSUME NEW p \in Procs, ActiveScan(p) PROVE IInv'
    BY <1>1, <1>3, ActiveScanInv
  <1>4. ASSUME NEW p \in Procs, Step(p) PROVE IInv'
    BY <1>1, <1>4, ReadLastEndInv, ReadRangeInv, CreateScanInv, ResumeScanInv, NextAddressesInv,
       TakeResultInv, RecordRetryInv, CloseRetryInv, SavePositiveFindingsInv, ExitInv,
       PauseCompleteInv, AdvanceScanInv DEF Step
  <1>5. ASSUME NEW p \in Procs, Crash(p) PROVE IInv'
    BY <1>1, <1>5, ExitInv
  <1>6. ASSUME NEW r \in RunIds, RetentionElapses(r) PROVE IInv'
    BY <1>1, <1>6, RetentionInv
  <1>7. CASE CleanupRun
    BY <1>1, <1>7, CleanupInv
  <1>8. CASE UNCHANGED vars
    <2>1. Grows
      BY <1>8, Numbers DEF Grows, IInv, vars, tables, history
    <2>2. IdsOK'
      BY <1>8 DEF IInv, IdsOK, vars, tables, history
    <2>3. \A r \in RunIds : RunOK(r)'
      BY <1>1, <1>8, <2>1, RunFrame DEF IInv, vars, tables
    <2> QED
      BY <1>1, <1>8, <2>1, <2>2, <2>3, TableStep DEF vars
  <1> QED
    BY <1>2, <1>3, <1>4, <1>5, <1>6, <1>7, <1>8 DEF Next

(* The inductive invariant holds in every reachable state.                 *)
LEMMA Invariance == Spec => []IInv
  BY InvInit, InvNext, PTL DEF Spec

(* Whatever number of scans share runs, overlap, pause and crash, every    *)
(* address that became visible in the order of its id has its outcome on   *)
(* record when a run that ends at or after it is completed.                *)
THEOREM OnTimeSettled == Spec => []OnTimeAddressesSettled
  <1>1. IInv => OnTimeAddressesSettled
    BY DEF IInv, RunOK, Covered, OnTimeAddressesSettled, Completed
  <1> QED
    BY <1>1, Invariance, PTL

(* The cleanup deletes such an address only if every chain of it answered  *)
(* with a zero balance.                                                    *)
THEOREM CleanupSafe == Spec => CleanupSparesUnscanned
  <1>1. IInv /\ [Next]_vars =>
          [\A a \in (addresses \ addresses') \ late : {a} \X Chain(a) \subseteq zeros]_vars
    <2> SUFFICES ASSUME IInv, [Next]_vars, NEW a \in (addresses \ addresses') \ late,
                        NEW c \in Chain(a)
                 PROVE  <<a, c>> \in zeros
      OBVIOUS
    <2>1. a \in Ids /\ c \in Chains
      BY ChainType DEF IInv, TypeOK
    <2>2. CASE CleanupRun
      <3>1. a \in Candidates
        BY <2>2 DEF CleanupRun, Lowest
      <3>2. PICK r \in Completed : runs[r].start <= a /\ a <= runs[r].end
        BY <3>1 DEF Candidates, InOldRun
      <3>3. PairSettled(a, c)
        BY <3>2 DEF IInv, RunOK, Covered, Settled, Completed
      <3>4. <<a, c>> \notin findings /\ retry[<<a, c>>] = "none"
        BY <2>1, <3>1 DEF Candidates
      <3> QED
        BY <3>3, <3>4 DEF PairSettled
    <2>3. ASSUME ~CleanupRun PROVE addresses \subseteq addresses'
      BY <2>3 DEF Next, Step, vars, tables, ImportInsert, ImportCommit, ImportRollback, ActiveScan,
         ReadLastEnd, ReadRange, CreateScan, ResumeScan, NextAddresses, TakeResult, RecordRetry,
         CloseRetry, SavePositiveFindings, ForeignKeyError, PauseScan, AdvanceScan, CompleteScan,
         Crash, RetentionElapses
    <2> QED
      BY <2>2, <2>3
  <1> QED
    BY <1>1, Invariance, PTL DEF Spec, CleanupSparesUnscanned

(* The writes to scan_runs satisfy the CHECK constraints of the table.     *)
THEOREM SchemaChecks == Spec => []SchemaChecksHold
  <1>1. IInv => SchemaChecksHold
    BY DEF IInv, RunOK, SchemaChecksHold
  <1> QED
    BY <1>1, Invariance, PTL

-----------------------------------------------------------------------------
(* One import at a time.  Its ids are above every visible one when they    *)
(* are handed out and still are when they commit, so no address is late.   *)

SerialImports == \A i, j \in Imports : i = j

SerialInv ==
    /\ late = {}
    /\ \A i \in Imports : \A a \in rows[i] : a > high

(* With one import at a time no address becomes visible below a visible    *)
(* one.                                                                    *)
LEMMA SerialNext ==
    ASSUME SerialImports, IInv, SerialInv, [Next]_vars
    PROVE  SerialInv'
  <1>0. /\ high \in Int /\ nextId \in Int /\ high < nextId
        /\ \A i \in Imports : rows[i] \subseteq Int
    BY Numbers, BoundsAssumption DEF IInv, TypeOK, IdsOK, Ids
  <1>1. ASSUME NEW i \in Imports, ImportInsert(i) PROVE SerialInv'
    <2>1. \A j \in Imports : \A a \in rows'[j] : a \in rows[j] \/ a = nextId
      BY <1>1 DEF ImportInsert, IInv, TypeOK
    <2> QED
      BY <1>0, <1>1, <2>1 DEF ImportInsert, SerialInv, history
  <1>2. ASSUME NEW i \in Imports, ImportCommit(i) PROVE SerialInv'
    <2>1. \A j \in Imports : rows'[j] = {}
      BY <1>2 DEF ImportCommit, SerialImports, IInv, TypeOK
    <2>2. late' = {}
      BY <1>0, <1>2 DEF ImportCommit, SerialInv
    <2> QED
      BY <2>1, <2>2 DEF SerialInv
  <1>3. ASSUME NEW i \in Imports, ImportRollback(i) PROVE SerialInv'
    <2>1. \A j \in Imports : rows'[j] = {}
      BY <1>3 DEF ImportRollback, SerialImports, IInv, TypeOK
    <2> QED
      BY <1>3, <2>1 DEF ImportRollback, SerialInv, history
  <1>4. CASE UNCHANGED <<rows, high, late>>
    BY <1>4 DEF SerialInv
  <1> QED
    BY <1>1, <1>2, <1>3, <1>4 DEF Next, Step, vars, tables, history, ActiveScan,
       ReadLastEnd, ReadRange, CreateScan, ResumeScan, NextAddresses, TakeResult, RecordRetry,
       CloseRetry, SavePositiveFindings, ForeignKeyError, PauseScan, AdvanceScan, CompleteScan,
       Crash, RetentionElapses, CleanupRun

(* With one import at a time no address is ever late.                      *)
LEMMA SerialInvariance ==
    ASSUME SerialImports
    PROVE  Spec => []SerialInv
  <1>1. Init => SerialInv
    BY DEF Init, SerialInv
  <1>2. IInv /\ SerialInv /\ [Next]_vars => SerialInv'
    BY SerialNext
  <1> QED
    BY <1>1, <1>2, Invariance, PTL DEF Spec

(* README "scans each imported address once", under the assumption the     *)
(* code does not enforce: at most one import transaction at a time.        *)
THEOREM SerialImportsScanned == SerialImports => (Spec => []CompletedRunsSettled)
  <1> SUFFICES ASSUME SerialImports PROVE Spec => []CompletedRunsSettled
    OBVIOUS
  <1>1. IInv /\ SerialInv => CompletedRunsSettled
    BY DEF IInv, SerialInv, RunOK, Covered, CompletedRunsSettled, Completed
  <1> QED
    BY <1>1, SerialInvariance, Invariance, PTL

(* The comment on Cleaner, "removes only confirmed-empty addresses", under *)
(* the same assumption: any number of scans may race the cleanup.          *)
THEOREM SerialCleanupConfirmed == SerialImports => (Spec => CleanupOnlyConfirmedEmpty)
  <1> SUFFICES ASSUME SerialImports PROVE Spec => CleanupOnlyConfirmedEmpty
    OBVIOUS
  <1>1. SerialInv /\ [\A a \in (addresses \ addresses') \ late : {a} \X Chain(a) \subseteq zeros]_vars
          => [\A a \in addresses \ addresses' : {a} \X Chain(a) \subseteq zeros]_vars
    <2> SUFFICES ASSUME SerialInv, NEW a \in addresses \ addresses',
                        \A b \in (addresses \ addresses') \ late : {b} \X Chain(b) \subseteq zeros
                 PROVE  {a} \X Chain(a) \subseteq zeros
      OBVIOUS
    <2>1. a \in (addresses \ addresses') \ late
      BY DEF SerialInv
    <2> QED
      BY <2>1
  <1> QED
    BY <1>1, SerialInvariance, CleanupSafe, PTL DEF CleanupSparesUnscanned, CleanupOnlyConfirmedEmpty
=============================================================================
