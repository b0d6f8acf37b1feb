---------------------------- MODULE BatchWorkers ----------------------------
(***************************************************************************)
(* One batch of a scan (internal/scanner/scanner.go, processBatch and      *)
(* below): a feeder hands the addresses of the batch to worker goroutines  *)
(* over an unbuffered channel, a worker queries the chains of its address  *)
(* one after the other with retries, the queries of a chain share a        *)
(* semaphore, and all workers share the HealthTracker (health.go), whose   *)
(* methods are separate critical sections.                                 *)
(*                                                                         *)
(* The tracker lives as long as the scan process: its state is carried to  *)
(* the next batch.  What the caller does with the results is ScanRuns.     *)
(***************************************************************************)
EXTENDS Domain, FiniteSets

CONSTANTS
    Workers,        \* the worker goroutines, at most one per address
    BatchLength,    \* number of addresses of the batch
    TypeOf,         \* TypeOf[a]: the type of the a-th address
    Providers,      \* chains that have a provider
    SemaphoreSize,  \* concurrency of a chain
    MaxRetries,     \* MAX_RETRIES
    Threshold       \* NODE_FAILURE_THRESHOLD

Addresses == 1 .. BatchLength

ASSUME SizesAssumption ==
    /\ BatchLength \in Nat /\ MaxRetries \in Nat
    /\ SemaphoreSize \in Nat \ {0} /\ Threshold \in Nat \ {0}
ASSUME WorkersAssumption == IsFiniteSet(Workers) /\ Workers # {}
ASSUME AddressesAssumption == TypeOf \in [Addresses -> AddressTypes]
ASSUME ProvidersAssumption == Providers \subseteq Chains

VARIABLES
    next,       \* the address the feeder sends next
    pc,         \* pc[w]: where worker w is
    work,       \* work[w]: the locals of checkAddress and checkWithRetry
    slots,      \* slots[c]: tokens in the semaphore of chain c
    health,     \* health[c]: the state the tracker keeps for chain c
    results,    \* the results sent so far
    cancelled,  \* ctx is done
    episodes    \* history: how often each chain became unhealthy in this batch

workers == <<next, pc, work, results>>
vars == <<workers, slots, health, cancelled, episodes>>

-----------------------------------------------------------------------------
(* State *)

Healthy == [failures |-> 0, unhealthy |-> FALSE, alertSent |-> FALSE]

\* addr and its chains not yet queried, the attempt, whether the answer was
\* positive, and the addressResult under construction.
NoWork == [addr |-> 0, left |-> {}, attempt |-> 0, positive |-> FALSE,
           errs |-> {}, finds |-> {}, alerts |-> {}, pause |-> FALSE]

Result(w) == [addr |-> work[w].addr, errs |-> work[w].errs, finds |-> work[w].finds,
              alerts |-> work[w].alerts, pause |-> work[w].pause]

Init ==
    /\ next = 1
    /\ pc = [w \in Workers |-> "receive"]
    /\ work = [w \in Workers |-> NoWork]
    /\ results = {}
    /\ slots = [c \in Chains |-> 0]
    /\ health = [c \in Chains |-> Healthy]
    /\ cancelled = FALSE
    /\ episodes = [c \in Chains |-> 0]

Goto(w, where) == pc' = [pc EXCEPT ![w] = where]

\* Worker w is at chain c of its address.
At(w, c) == IsFirstChain(c, work[w].left)

-----------------------------------------------------------------------------
(* The worker loop *)

\* for address := range jobs
Receive(w) ==
    /\ pc[w] = "receive" /\ next <= BatchLength
    /\ next' = next + 1
    /\ work' = [work EXCEPT ![w] = [NoWork EXCEPT !.addr = next, !.left = chainsFor(TypeOf[next])]]
    /\ Goto(w, "chain")
    /\ UNCHANGED <<slots, health, results, cancelled, episodes>>

\* The channel is closed and empty: wait.Done().
WorkerDone(w) ==
    /\ pc[w] = "receive" /\ next > BatchLength
    /\ Goto(w, "done")
    /\ UNCHANGED <<next, work, slots, health, results, cancelled, episodes>>

\* results <- s.checkAddress(ctx, address); there is room for every result.
SendResult(w) ==
    /\ pc[w] = "chain" /\ work[w].left = {}
    /\ results' = results \cup {Result(w)}
    /\ work' = [work EXCEPT ![w] = NoWork]
    /\ Goto(w, "receive")
    /\ UNCHANGED <<next, slots, health, cancelled, episodes>>

-----------------------------------------------------------------------------
(* checkAddress and checkWithRetry *)

\* The next chain: without a provider it is a failure that says nothing of
\* the health of a node.
NextChain(w) ==
    /\ pc[w] = "chain"
    /\ \E c \in work[w].left :
         /\ At(w, c)
         /\ IF c \in Providers
              THEN Goto(w, "acquire") /\ work' = [work EXCEPT ![w].attempt = 0]
              ELSE /\ work' = [work EXCEPT ![w].errs = @ \cup {c}, ![w].left = @ \ {c}]
                   /\ UNCHANGED pc
    /\ UNCHANGED <<next, slots, health, results, cancelled, episodes>>

\* limiter <- struct{}{}
AcquireSlot(w) ==
    /\ pc[w] = "acquire"
    /\ \E c \in work[w].left :
         At(w, c) /\ slots[c] < SemaphoreSize /\ slots' = [slots EXCEPT ![c] = @ + 1]
    /\ Goto(w, "query")
    /\ UNCHANGED <<next, work, health, results, cancelled, episodes>>

\* ctx.Done() while waiting for a slot or for the next attempt: an error of
\* the query that is not recorded as a failure of the node.
ContextDone(w) ==
    /\ pc[w] \in {"acquire", "backoff"} /\ cancelled
    /\ Goto(w, "failed")
    /\ UNCHANGED <<next, work, slots, health, results, cancelled, episodes>>

\* Mutant: a slot is given back twice.
FreedTwice(c) == slots[c] - 2
\* <-limiter
SlotFreed(c) == slots[c] - 1

\* provider.Check returns a balance; the slot is given back.
QuerySucceeds(w) ==
    /\ pc[w] = "query"
    /\ \E c \in work[w].left : At(w, c) /\ slots' = [slots EXCEPT ![c] = SlotFreed(c)]
    /\ \E positive \in BOOLEAN : work' = [work EXCEPT ![w].positive = positive]
    /\ Goto(w, "success")
    /\ UNCHANGED <<next, health, results, cancelled, episodes>>

\* Mutant: the attempts are not counted.
SameAttempt(w) == work[w].attempt
\* attempt++
NextAttempt(w) == work[w].attempt + 1

\* provider.Check returns an error: the last attempt and an error that is
\* not temporary end the query, any other is tried again after a delay.
QueryFails(w) ==
    /\ pc[w] = "query"
    /\ \E c \in work[w].left : At(w, c) /\ slots' = [slots EXCEPT ![c] = SlotFreed(c)]
    /\ \E temporary \in BOOLEAN :
         Goto(w, IF ~temporary \/ work[w].attempt = MaxRetries THEN "failure" ELSE "backoff")
    /\ UNCHANGED <<next, work, health, results, cancelled, episodes>>

\* time.After(delay), then the next attempt.
Backoff(w) ==
    /\ pc[w] = "backoff"
    /\ work' = [work EXCEPT ![w].attempt = NextAttempt(w)]
    /\ Goto(w, "acquire")
    /\ UNCHANGED <<next, slots, health, results, cancelled, episodes>>

-----------------------------------------------------------------------------
(* HealthTracker: one critical section each *)

Recovered(s) == [s EXCEPT !.failures = 0, !.unhealthy = FALSE, !.alertSent = FALSE]

\* Success; checkAddress then notes a positive balance.
Success(w) ==
    /\ pc[w] = "success"
    /\ \E c \in work[w].left :
         /\ At(w, c)
         /\ health' = [health EXCEPT ![c] = Recovered(@)]
         /\ work' = [work EXCEPT ![w].left = @ \ {c},
                                 ![w].finds = IF work[w].positive THEN @ \cup {c} ELSE @]
    /\ Goto(w, "chain")
    /\ UNCHANGED <<next, slots, results, cancelled, episodes>>

\* The count saturates: only its reaching the threshold matters.
Failed(s) ==
    LET n == IF s.failures < Threshold THEN s.failures + 1 ELSE s.failures
    IN  [s EXCEPT !.failures = n, !.unhealthy = @ \/ n >= Threshold]

Failure(w) ==
    /\ pc[w] = "failure"
    /\ \E c \in work[w].left :
         /\ At(w, c)
         /\ health' = [health EXCEPT ![c] = Failed(@)]
         /\ episodes' = [episodes EXCEPT ![c] =
                           IF Failed(health[c]).unhealthy /\ ~health[c].unhealthy THEN @ + 1 ELSE @]
    /\ Goto(w, "failed")
    /\ UNCHANGED <<next, work, slots, results, cancelled>>

\* Mutants: an unhealthy chain does not pause the scan; its failure is not
\* put into the result.
PauseForgotten(w, c) == work[w].pause
ErrorDropped(w, c) == work[w].errs
\* result.Pause = true
PauseIfUnhealthy(w, c) == work[w].pause \/ health[c].unhealthy
\* result.Errors = append(result.Errors, ...)
RecordedErrors(w, c) == work[w].errs \cup {c}

\* The failure goes into the result; IsUnhealthy asks for a pause.
IsUnhealthy(w) ==
    /\ pc[w] = "failed"
    /\ \E c \in work[w].left :
         /\ At(w, c)
         /\ IF health[c].unhealthy
              THEN /\ work' = [work EXCEPT ![w].errs = RecordedErrors(w, c),
                                           ![w].pause = PauseIfUnhealthy(w, c)]
                   /\ Goto(w, "alert")
              ELSE /\ work' = [work EXCEPT ![w].errs = RecordedErrors(w, c), ![w].left = @ \ {c}]
                   /\ Goto(w, "chain")
    /\ UNCHANGED <<next, slots, health, results, cancelled, episodes>>

\* Mutant: the alert is taken by whoever asks.
AnyoneAlerts(c) == health[c].unhealthy
MayAlert(c) == health[c].unhealthy /\ ~health[c].alertSent

\* TakeAlert, in a critical section after the one of IsUnhealthy.
TakeAlert(w) ==
    /\ pc[w] = "alert"
    /\ \E c \in work[w].left :
         /\ At(w, c)
         /\ \/ /\ MayAlert(c)
               /\ health' = [health EXCEPT ![c].alertSent = TRUE]
               /\ work' = [work EXCEPT ![w].alerts = @ \cup {c}, ![w].left = @ \ {c}]
            \/ /\ ~MayAlert(c)
               /\ work' = [work EXCEPT ![w].left = @ \ {c}]
               /\ UNCHANGED health
    /\ Goto(w, "chain")
    /\ UNCHANGED <<next, slots, results, cancelled, episodes>>

-----------------------------------------------------------------------------
(* Around the batch *)

\* The results channel is closed: processBatch returns.
Returned == \A w \in Workers : pc[w] = "done"
Pause == \E r \in results : r.pause

\* processBatch sets up its channels and workers.
processBatch ==
    /\ next' = 1
    /\ pc' = [w \in Workers |-> "receive"]
    /\ work' = [w \in Workers |-> NoWork]
    /\ results' = {}
    /\ episodes' = [c \in Chains |-> 0]

\* Nobody asked for a pause: run goes on with the next batch.
NextBatch ==
    /\ Returned /\ ~Pause /\ ~cancelled
    /\ processBatch
    /\ UNCHANGED <<slots, health, cancelled>>

\* run returned; the next process starts with a Scanner of its own.
NewProcess ==
    /\ Returned
    /\ processBatch
    /\ slots' = [c \in Chains |-> 0]
    /\ health' = [c \in Chains |-> Healthy]
    /\ cancelled' = FALSE

ContextCancelled ==
    /\ ~cancelled /\ cancelled' = TRUE
    /\ UNCHANGED <<workers, slots, health, episodes>>

Step(w) ==
    \/ Receive(w) \/ WorkerDone(w) \/ SendResult(w)
    \/ NextChain(w) \/ AcquireSlot(w) \/ ContextDone(w) \/ QuerySucceeds(w)
    \/ QueryFails(w) \/ Backoff(w)
    \/ Success(w) \/ Failure(w) \/ IsUnhealthy(w) \/ TakeAlert(w)

Next == (\E w \in Workers : Step(w)) \/ NextBatch \/ NewProcess \/ ContextCancelled

Spec == Init /\ [][Next]_vars

\* Goroutines are scheduled, timers fire and a provider query ends
\* (REQUEST_TIMEOUT bounds it).
FairSpec == Spec /\ \A w \in Workers : WF_vars(Step(w))

-----------------------------------------------------------------------------
(* Properties *)

Work == [addr : 0 .. BatchLength, left : SUBSET Chains, attempt : 0 .. MaxRetries,
         positive : BOOLEAN, errs : SUBSET Chains, finds : SUBSET Chains,
         alerts : SUBSET Chains, pause : BOOLEAN]

(* The workers, the semaphores and the tracker hold values of their types; *)
(* a semaphore holds at most as many tokens as its channel has room for.   *)
TypeOK ==
    /\ next \in 1 .. BatchLength + 1
    /\ pc \in [Workers -> {"receive", "chain", "acquire", "query", "backoff", "success",
                           "failure", "failed", "alert", "done"}]
    /\ work \in [Workers -> Work]
    /\ slots \in [Chains -> 0 .. SemaphoreSize]
    /\ health \in [Chains -> [failures : 0 .. Threshold, unhealthy : BOOLEAN, alertSent : BOOLEAN]]
    /\ results \subseteq [addr : Addresses, errs : SUBSET Chains, finds : SUBSET Chains,
                          alerts : SUBSET Chains, pause : BOOLEAN]
    /\ cancelled \in BOOLEAN
    /\ episodes \in [Chains -> Nat]

(* What the loop of run relies on when the batch returns (and ScanRuns     *)
(* takes for granted): one result per address, failures and findings are   *)
(* different chains of that address, and only a failure can pause the      *)
(* scan or raise an alert.                                                 *)
BatchContract ==
    Returned =>
        /\ {r.addr : r \in results} = Addresses
        /\ \A r, q \in results : r.addr = q.addr => r = q
        /\ \A r \in results :
             /\ r.errs \cup r.finds \subseteq chainsFor(TypeOf[r.addr])
             /\ r.errs \cap r.finds = {} /\ r.alerts \subseteq r.errs
             /\ r.pause => r.errs # {}

(* A batch never leaves an unhealthy chain behind unnoticed: when it       *)
(* returns with a chain unhealthy, some result of this batch asks for the  *)
(* pause, and the alert of the episode is in the results.  Otherwise run   *)
(* would go on and query a node it holds for dead.                         *)
UnhealthyPauses ==
    Returned =>
        \A c \in Chains : health[c].unhealthy =>
            /\ Pause
            /\ \E r \in results : r.pause /\ c \in r.errs
            /\ \E r \in results : c \in r.alerts

(* Workers that see the same unhealthy chain between IsUnhealthy and       *)
(* TakeAlert do not alert twice: no more alerts than episodes.             *)
Alerts(c) == {r \in results : c \in r.alerts}
AtMostOneAlertPerEpisode ==
    \A c \in Chains : Cardinality(Alerts(c)) <= episodes[c]

(* The batch returns: no worker waits for a slot, the feeder or the        *)
(* results channel for ever.                                               *)
BatchReturns == (next = 1) ~> Returned
=============================================================================
