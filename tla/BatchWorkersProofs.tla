------------------------- MODULE BatchWorkersProofs -------------------------
(***************************************************************************)
(* Proofs about BatchWorkers, for any number of workers, addresses,        *)
(* retries and semaphore slots, any threshold and any set of providers.    *)
(***************************************************************************)
EXTENDS BatchWorkers, FiniteSetTheorems, TLAPS

-----------------------------------------------------------------------------
(* The inductive invariants *)

Active(w) == pc[w] \notin {"receive", "done"}

Querying(c) == {w \in Workers : pc[w] = "query" /\ At(w, c)}

\* A busy worker has taken an address; the chains it has left, those that
\* failed and those with a balance are different chains of that address.
\* While it asks for the alert of a chain, that chain has failed but is not
\* done with.
SoundWork(place, r, n) ==
    /\ place \in {"receive", "done"} => r = NoWork
    /\ place = "done" => n > BatchLength
    /\ place \notin {"receive", "done"} =>
         /\ r.addr \in Addresses /\ r.addr < n
         /\ r.left \subseteq chainsFor(TypeOf[r.addr])
         /\ r.errs \cup r.finds \subseteq chainsFor(TypeOf[r.addr])
         /\ r.finds \cap (r.left \cup r.errs) = {}
         /\ r.alerts \subseteq r.errs
         /\ r.pause => r.errs # {}
    /\ place \notin {"alert", "receive", "done"} => r.errs \cap r.left = {}
    /\ place = "alert" => r.pause /\ \A c \in r.left : c \in r.errs <=> IsFirstChain(c, r.left)
    /\ place = "backoff" => r.attempt < MaxRetries

WorkerInv(w) == SoundWork(pc[w], work[w], next)

\* Every token in a semaphore belongs to a query.
SlotsCounted == \A c \in Chains : slots[c] = Cardinality(Querying(c))

IInv == TypeOK /\ SlotsCounted /\ \A w \in Workers : WorkerInv(w)

\* Every address handed out is with one worker or in one result.
OnceEach ==
    /\ \A w, v \in Workers : Active(w) /\ Active(v) /\ w # v => work[w].addr # work[v].addr
    /\ \A r \in results : r.addr < next /\ \A w \in Workers : Active(w) => r.addr # work[w].addr
    /\ \A r, q \in results : r.addr = q.addr => r = q
    /\ \A a \in Addresses : a < next =>
         \/ \E r \in results : r.addr = a
         \/ \E w \in Workers : Active(w) /\ work[w].addr = a

SoundResult(r) ==
    /\ r.errs \cup r.finds \subseteq chainsFor(TypeOf[r.addr])
    /\ r.errs \cap r.finds = {} /\ r.alerts \subseteq r.errs
    /\ r.pause => r.errs # {}

\* Worker w will report, or ask for the alert of, the failed chain c; it has
\* noted that c is unhealthy; it has taken the alert.
WillAsk(w, c) == pc[w] \in {"failed", "alert"} /\ At(w, c)
Tells(w, c) == (pc[w] = "failed" /\ At(w, c)) \/ (work[w].pause /\ c \in work[w].errs)
Bears(w, c) == c \in work[w].alerts

\* Somebody has noticed that chain c is unhealthy or is about to, and somebody
\* has taken its alert or is about to.
Noticed(c) ==
    /\ \/ \E r \in results : r.pause /\ c \in r.errs
       \/ \E w \in Workers : Tells(w, c)
    /\ IF health[c].alertSent
         THEN (\E r \in results : c \in r.alerts) \/ (\E w \in Workers : Bears(w, c))
         ELSE \E w \in Workers : WillAsk(w, c)

Watched ==
    \A c \in Chains : /\ health[c].unhealthy => Noticed(c)
                      /\ health[c].alertSent => health[c].unhealthy

\* The alerts in the results, those with the workers and the one that may
\* still be taken are no more than the episodes.
Bearers(c) == {w \in Workers : Bears(w, c)}
Due(c) == IF MayAlert(c) THEN 1 ELSE 0
AlertsCounted ==
    \A c \in Chains : Cardinality(Alerts(c)) + Cardinality(Bearers(c)) + Due(c) <= episodes[c]

-----------------------------------------------------------------------------
(* Chains *)

(* An address is queried on known chains.                                  *)
LEMMA ChainsForType ==
    ASSUME NEW t \in AddressTypes
    PROVE  chainsFor(t) \subseteq Chains
  BY DEF AddressTypes, chainsFor, Chains, TypeEVM, TypeBTC, TypeSOL, TypeTRX, ChainBTC,
         ChainEthereum, ChainArbitrum, ChainBSC, ChainSolana, ChainTRON

(* The chains of an address are in a strict order.                         *)
LEMMA FirstIsUnique ==
    ASSUME NEW t \in AddressTypes, NEW cs \in SUBSET chainsFor(t), NEW c, NEW d,
           IsFirstChain(c, cs), IsFirstChain(d, cs)
    PROVE  c = d
  <1>1. c \in chainsFor(t) /\ d \in chainsFor(t) /\ ChainRank(c) <= ChainRank(d) /\ ChainRank(d) <= ChainRank(c)
    BY DEF IsFirstChain
  <1>2. CASE t = TypeEVM
    BY <1>1, <1>2 DEF chainsFor, ChainRank, TypeEVM, TypeBTC, TypeSOL, TypeTRX, ChainBTC,
         ChainEthereum, ChainArbitrum, ChainBSC, ChainSolana, ChainTRON
  <1>3. CASE t # TypeEVM
    BY <1>1, <1>3 DEF AddressTypes, chainsFor, TypeEVM, TypeBTC, TypeSOL, TypeTRX
  <1> QED
    BY <1>2, <1>3

(* A worker is at one chain at most.                                       *)
LEMMA AtOneChain ==
    ASSUME IInv, NEW w \in Workers, Active(w), NEW c, NEW d, At(w, c), At(w, d)
    PROVE  c = d /\ c \in Chains
  <1>1. /\ work[w].addr \in Addresses
        /\ work[w].left \in SUBSET chainsFor(TypeOf[work[w].addr])
    BY DEF IInv, WorkerInv, SoundWork, Active
  <1>2. TypeOf[work[w].addr] \in AddressTypes
    BY <1>1, AddressesAssumption
  <1> QED
    BY <1>1, <1>2, FirstIsUnique, ChainsForType DEF At, IsFirstChain

-----------------------------------------------------------------------------
(* Types and slots *)

Places == {"receive", "chain", "acquire", "query", "backoff", "success",
           "failure", "failed", "alert", "done"}
HealthStates == [failures : 0 .. Threshold, unhealthy : BOOLEAN, alertSent : BOOLEAN]
Results == [addr : Addresses, errs : SUBSET Chains, finds : SUBSET Chains,
            alerts : SUBSET Chains, pause : BOOLEAN]

(* A worker that has no address has locals of the right type.              *)
LEMMA NoWorkType == NoWork \in Work
  BY SizesAssumption DEF NoWork, Work

(* A step of a worker outside of a query, that leaves the semaphores.      *)
LEMMA WorkerStep ==
    ASSUME IInv, NEW w \in Workers, NEW place \in Places, NEW r \in Work,
           pc[w] # "query", place # "query",
           pc' = [pc EXCEPT ![w] = place], work' = [work EXCEPT ![w] = r],
           SoundWork(place, r, next'), slots' = slots,
           next' \in 1 .. BatchLength + 1, next' = next \/ next' = next + 1,
           health' \in [Chains -> HealthStates], results' \subseteq Results,
           cancelled' \in BOOLEAN, episodes' \in [Chains -> Nat]
    PROVE  IInv'
  <1>1. TypeOK'
    BY DEF IInv, TypeOK, Places, HealthStates, Results
  <1>2. \A v \in Workers \ {w} : pc'[v] = pc[v] /\ work'[v] = work[v]
    BY DEF IInv, TypeOK
  <1>3. pc'[w] = place /\ work'[w] = r
    BY DEF IInv, TypeOK
  <1>4. \A c \in Chains : Querying(c)' = Querying(c)
    BY <1>2, <1>3 DEF Querying, At
  <1>5. ASSUME NEW v \in Workers PROVE WorkerInv(v)'
    <2>1. CASE v = w
      BY <1>3, <2>1 DEF WorkerInv
    <2>2. CASE v # w
      <3>1. SoundWork(pc[v], work[v], next)
        BY DEF IInv, WorkerInv
      <3>2. next \in Nat /\ next' \in Nat /\ work[v].addr \in Nat
        BY SizesAssumption DEF IInv, TypeOK, Work
      <3>3. SoundWork(pc[v], work[v], next')
        BY <3>1, <3>2, SizesAssumption DEF SoundWork
      <3> QED
        BY <1>2, <2>2, <3>3 DEF WorkerInv
    <2> QED
      BY <2>1, <2>2
  <1> QED
    BY <1>1, <1>4, <1>5 DEF IInv, SlotsCounted

(* The loop of a worker.                                                   *)
LEMMA LoopSteps ==
    ASSUME IInv, NEW w \in Workers, Receive(w) \/ WorkerDone(w) \/ SendResult(w)
    PROVE  IInv'
  <1> USE DEF Goto, Places
  <1>0. /\ work \in [Workers -> Work] /\ work[w] \in Work /\ work = [work EXCEPT ![w] = work[w]]
        /\ next \in 1 .. BatchLength + 1 /\ next \in Nat /\ WorkerInv(w)
        /\ health \in [Chains -> HealthStates] /\ results \subseteq Results
        /\ cancelled \in BOOLEAN /\ episodes \in [Chains -> Nat]
    BY SizesAssumption DEF IInv, TypeOK, HealthStates, Results
  <1>1. CASE Receive(w)
    <2> DEFINE r == [NoWork EXCEPT !.addr = next, !.left = chainsFor(TypeOf[next])]
    <2>1. next \in Addresses /\ next' = next + 1 /\ next' \in 1 .. BatchLength + 1
      BY <1>0, <1>1, SizesAssumption DEF Receive, Addresses
    <2>2. TypeOf[next] \in AddressTypes
      BY <2>1, AddressesAssumption
    <2>3. chainsFor(TypeOf[next]) \subseteq Chains
      BY <2>2, ChainsForType
    <2>4. /\ r.addr = next /\ r.left = chainsFor(TypeOf[next]) /\ r.errs = {} /\ r.finds = {}
          /\ r.alerts = {} /\ r.pause = FALSE
      BY DEF NoWork
    <2>5. r \in Work
      <3>1. next \in 0 .. BatchLength /\ 0 \in 0 .. MaxRetries
        BY <2>1, SizesAssumption DEF Addresses
      <3> QED
        BY <2>3, <3>1 DEF Work, NoWork
    <2>6. pc' = [pc EXCEPT ![w] = "chain"] /\ work' = [work EXCEPT ![w] = r] /\ pc[w] # "query"
      BY <1>1 DEF Receive
    <2> HIDE DEF r
    <2>7. SoundWork("chain", r, next')
      BY <1>0, <2>1, <2>4 DEF SoundWork
    <2> QED
      BY <1>0, <1>1, <2>1, <2>5, <2>6, <2>7, WorkerStep DEF Receive
  <1>2. CASE WorkerDone(w)
    <2>1. SoundWork("done", work[w], next)
      BY <1>0, <1>2 DEF WorkerDone, WorkerInv, SoundWork
    <2> QED
      BY <1>0, <1>2, <2>1, WorkerStep DEF WorkerDone
  <1>3. CASE SendResult(w)
    <2>1. Result(w) \in Results
      BY <1>0, <1>3 DEF SendResult, WorkerInv, SoundWork, Result, Results, Work
    <2>2. SoundWork("receive", NoWork, next)
      BY DEF SoundWork
    <2> QED
      BY <1>0, <1>3, <2>1, <2>2, NoWorkType, WorkerStep DEF SendResult
  <1> QED
    BY <1>1, <1>2, <1>3

(* checkAddress and checkWithRetry, outside of a query.                    *)
LEMMA CheckSteps ==
    ASSUME IInv, NEW w \in Workers, NextChain(w) \/ ContextDone(w) \/ Backoff(w)
    PROVE  IInv'
  <1> USE DEF Goto, Places
  <1>0. /\ work \in [Workers -> Work] /\ work[w] \in Work /\ work = [work EXCEPT ![w] = work[w]]
        /\ pc = [pc EXCEPT ![w] = pc[w]]
        /\ next \in 1 .. BatchLength + 1 /\ next \in Nat /\ WorkerInv(w)
        /\ health \in [Chains -> HealthStates] /\ results \subseteq Results
        /\ cancelled \in BOOLEAN /\ episodes \in [Chains -> Nat]
    BY SizesAssumption DEF IInv, TypeOK, HealthStates, Results
  <1>1. CASE NextChain(w)
    <2>1. PICK c \in work[w].left :
            /\ At(w, c)
            /\ IF c \in Providers
                 THEN Goto(w, "acquire") /\ work' = [work EXCEPT ![w].attempt = 0]
                 ELSE /\ work' = [work EXCEPT ![w].errs = @ \cup {c}, ![w].left = @ \ {c}]
                      /\ UNCHANGED pc
      BY <1>1 DEF NextChain
    <2>2. pc[w] = "chain" /\ SoundWork("chain", work[w], next)
      BY <1>0, <1>1 DEF NextChain, WorkerInv
    <2>3. CASE c \in Providers
      <3> DEFINE r == [work[w] EXCEPT !.attempt = 0]
      <3>1. /\ r \in Work /\ r.addr = work[w].addr /\ r.left = work[w].left /\ r.errs = work[w].errs
            /\ r.finds = work[w].finds /\ r.alerts = work[w].alerts /\ r.pause = work[w].pause
        BY <1>0, SizesAssumption DEF Work
      <3>2. pc' = [pc EXCEPT ![w] = "acquire"] /\ work' = [work EXCEPT ![w] = r]
        BY <2>1, <2>3
      <3> HIDE DEF r
      <3>3. SoundWork("acquire", r, next)
        BY <2>2, <3>1 DEF SoundWork
      <3> QED
        BY <1>0, <1>1, <2>2, <3>1, <3>2, <3>3, WorkerStep DEF NextChain
    <2>4. CASE c \notin Providers
      <3> DEFINE r == [work[w] EXCEPT !.errs = @ \cup {c}, !.left = @ \ {c}]
      <3>1. c \in Chains
        BY <1>0 DEF Work
      <3>2. /\ r \in Work /\ r.addr = work[w].addr /\ r.left = work[w].left \ {c}
            /\ r.errs = work[w].errs \cup {c}
            /\ r.finds = work[w].finds /\ r.alerts = work[w].alerts /\ r.pause = work[w].pause
        BY <1>0, <3>1 DEF Work
      <3>3. pc' = [pc EXCEPT ![w] = "chain"] /\ work' = [work EXCEPT ![w] = r]
        BY <1>0, <2>1, <2>2, <2>4
      <3> HIDE DEF r
      <3>4. SoundWork("chain", r, next)
        BY <2>2, <3>2 DEF SoundWork
      <3> QED
        BY <1>0, <1>1, <2>2, <3>2, <3>3, <3>4, WorkerStep DEF NextChain
    <2> QED
      BY <2>3, <2>4
  <1>2. CASE ContextDone(w)
    <2>1. SoundWork("failed", work[w], next)
      BY <1>0, <1>2 DEF ContextDone, WorkerInv, SoundWork
    <2> QED
      BY <1>0, <1>2, <2>1, WorkerStep DEF ContextDone
  <1>3. CASE Backoff(w)
    <2> DEFINE r == [work[w] EXCEPT !.attempt = NextAttempt(w)]
    <2>1. pc[w] = "backoff" /\ SoundWork("backoff", work[w], next)
      BY <1>0, <1>3 DEF Backoff, WorkerInv
    <2>2. NextAttempt(w) \in 0 .. MaxRetries
      BY <1>0, <2>1, SizesAssumption DEF SoundWork, NextAttempt, Work
    <2>3. pc' = [pc EXCEPT ![w] = "acquire"] /\ work' = [work EXCEPT ![w] = r]
      BY <1>3 DEF Backoff
    <2>4. /\ r \in Work /\ r.addr = work[w].addr /\ r.left = work[w].left /\ r.errs = work[w].errs
          /\ r.finds = work[w].finds /\ r.alerts = work[w].alerts /\ r.pause = work[w].pause
      BY <1>0, <2>2 DEF Work
    <2> HIDE DEF r
    <2>5. SoundWork("acquire", r, next)
      BY <2>1, <2>4 DEF SoundWork
    <2> QED
      BY <1>0, <1>3, <2>1, <2>3, <2>4, <2>5, WorkerStep DEF Backoff
  <1> QED
    BY <1>1, <1>2, <1>3

(* The critical sections of the tracker.                                   *)
LEMMA TrackerSteps ==
    ASSUME IInv, NEW w \in Workers, Success(w) \/ Failure(w) \/ IsUnhealthy(w) \/ TakeAlert(w)
    PROVE  IInv'
  <1> USE DEF Goto, Places
  <1>0. /\ work \in [Workers -> Work] /\ work[w] \in Work /\ work = [work EXCEPT ![w] = work[w]]
        /\ next \in 1 .. BatchLength + 1 /\ next \in Nat /\ WorkerInv(w)
        /\ health \in [Chains -> HealthStates] /\ results \subseteq Results
        /\ cancelled \in BOOLEAN /\ episodes \in [Chains -> Nat]
        /\ work[w].left \subseteq Chains
    BY SizesAssumption DEF IInv, TypeOK, HealthStates, Results, Work
  <1>1. CASE Success(w)
    <2>1. PICK c \in work[w].left :
            /\ health' = [health EXCEPT ![c] = Recovered(@)]
            /\ work' = [work EXCEPT ![w].left = @ \ {c},
                                    ![w].finds = IF work[w].positive THEN @ \cup {c} ELSE @]
      BY <1>1 DEF Success
    <2>2. pc[w] = "success" /\ SoundWork("success", work[w], next)
      BY <1>0, <1>1 DEF Success, WorkerInv
    <2>3. health' \in [Chains -> HealthStates]
      <3>1. 0 \in 0 .. Threshold /\ health[c] \in HealthStates
        BY <1>0, SizesAssumption
      <3>2. Recovered(health[c]) \in HealthStates
        BY <3>1 DEF Recovered, HealthStates
      <3> QED
        BY <1>0, <2>1, <3>2
    <2> DEFINE finds == IF work[w].positive THEN work[w].finds \cup {c} ELSE work[w].finds
               r == [work[w] EXCEPT !.left = @ \ {c}, !.finds = finds]
    <2>4. pc' = [pc EXCEPT ![w] = "chain"] /\ work' = [work EXCEPT ![w] = r]
      BY <1>0, <1>1, <2>1 DEF Success
    <2>5. finds \subseteq Chains /\ finds \subseteq work[w].finds \cup {c}
      BY <1>0 DEF Work
    <2> HIDE DEF finds
    <2>6. /\ r \in Work /\ r.addr = work[w].addr /\ r.left = work[w].left \ {c} /\ r.errs = work[w].errs
          /\ r.finds = finds /\ r.alerts = work[w].alerts /\ r.pause = work[w].pause
      BY <1>0, <2>5 DEF Work
    <2> HIDE DEF r
    <2>7. SoundWork("chain", r, next)
      BY <2>2, <2>5, <2>6 DEF SoundWork
    <2> QED
      BY <1>0, <1>1, <2>2, <2>3, <2>4, <2>6, <2>7, WorkerStep DEF Success
  <1>2. CASE Failure(w)
    <2>1. PICK c \in work[w].left :
            /\ health' = [health EXCEPT ![c] = Failed(@)]
            /\ episodes' = [episodes EXCEPT ![c] =
                              IF Failed(health[c]).unhealthy /\ ~health[c].unhealthy THEN @ + 1 ELSE @]
      BY <1>2 DEF Failure
    <2>2. Failed(health[c]) \in HealthStates
      <3> DEFINE n == IF health[c].failures < Threshold THEN health[c].failures + 1 ELSE health[c].failures
      <3>1. health[c] \in HealthStates
        BY <1>0
      <3>2. n \in 0 .. Threshold
        BY <3>1, SizesAssumption DEF HealthStates
      <3>3. (health[c].unhealthy \/ n >= Threshold) \in BOOLEAN
        BY <3>1 DEF HealthStates
      <3> HIDE DEF n
      <3>4. [health[c] EXCEPT !.failures = n, !.unhealthy = health[c].unhealthy \/ n >= Threshold] \in HealthStates
        BY <3>1, <3>2, <3>3 DEF HealthStates
      <3> QED
        BY <3>4 DEF Failed, n
    <2>3. health' \in [Chains -> HealthStates] /\ episodes' \in [Chains -> Nat]
      BY <1>0, <2>1, <2>2
    <2>4. pc[w] # "query" /\ SoundWork("failed", work[w], next)
      BY <1>0, <1>2 DEF Failure, WorkerInv, SoundWork
    <2> QED
      BY <1>0, <1>2, <2>3, <2>4, WorkerStep DEF Failure
  <1>3. CASE IsUnhealthy(w)
    <2>1. PICK c \in work[w].left :
            /\ At(w, c)
            /\ IF health[c].unhealthy
                 THEN /\ work' = [work EXCEPT ![w].errs = RecordedErrors(w, c),
                                              ![w].pause = PauseIfUnhealthy(w, c)]
                      /\ Goto(w, "alert")
                 ELSE /\ work' = [work EXCEPT ![w].errs = RecordedErrors(w, c), ![w].left = @ \ {c}]
                      /\ Goto(w, "chain")
      BY <1>3 DEF IsUnhealthy
    <2>2. pc[w] = "failed" /\ SoundWork("failed", work[w], next)
      BY <1>0, <1>3 DEF IsUnhealthy, WorkerInv
    <2>3. RecordedErrors(w, c) = work[w].errs \cup {c} /\ RecordedErrors(w, c) \subseteq Chains
      BY <1>0 DEF RecordedErrors, Work
    <2>4. CASE health[c].unhealthy
      <3> DEFINE r == [work[w] EXCEPT !.errs = RecordedErrors(w, c), !.pause = PauseIfUnhealthy(w, c)]
      <3>1. PauseIfUnhealthy(w, c) = TRUE
        BY <1>0, <2>4 DEF PauseIfUnhealthy
      <3>2. /\ r \in Work /\ r.addr = work[w].addr /\ r.left = work[w].left
            /\ r.errs = work[w].errs \cup {c}
            /\ r.finds = work[w].finds /\ r.alerts = work[w].alerts /\ r.pause
        BY <1>0, <2>3, <3>1 DEF Work
      <3>3. pc' = [pc EXCEPT ![w] = "alert"] /\ work' = [work EXCEPT ![w] = r]
        BY <1>0, <2>1, <2>4
      <3> HIDE DEF r
      <3>4. \A d \in r.left : d \in r.errs <=> IsFirstChain(d, r.left)
        <4>1. ASSUME NEW d \in work[w].left, IsFirstChain(d, work[w].left) PROVE d = c
          BY <2>1, <2>2, <4>1, AtOneChain DEF At, Active
        <4>2. work[w].errs \cap work[w].left = {}
          BY <2>2 DEF SoundWork
        <4> QED
          BY <2>1, <3>2, <4>1, <4>2 DEF At
      <3>5. SoundWork("alert", r, next)
        BY <2>2, <3>2, <3>4 DEF SoundWork
      <3> QED
        BY <1>0, <1>3, <2>2, <3>2, <3>3, <3>5, WorkerStep DEF IsUnhealthy
    <2>5. CASE ~health[c].unhealthy
      <3> DEFINE r == [work[w] EXCEPT !.errs = RecordedErrors(w, c), !.left = @ \ {c}]
      <3>1. /\ r \in Work /\ r.addr = work[w].addr /\ r.left = work[w].left \ {c}
            /\ r.errs = work[w].errs \cup {c}
            /\ r.finds = work[w].finds /\ r.alerts = work[w].alerts /\ r.pause = work[w].pause
        BY <1>0, <2>3 DEF Work
      <3>2. pc' = [pc EXCEPT ![w] = "chain"] /\ work' = [work EXCEPT ![w] = r]
        BY <1>0, <2>1, <2>5
      <3> HIDE DEF r
      <3>3. SoundWork("chain", r, next)
        BY <2>2, <3>1 DEF SoundWork
      <3> QED
        BY <1>0, <1>3, <2>2, <3>1, <3>2, <3>3, WorkerStep DEF IsUnhealthy
    <2> QED
      BY <2>4, <2>5
  <1>4. CASE TakeAlert(w)
    <2>1. PICK c \in work[w].left :
            /\ At(w, c)
            /\ \/ /\ health' = [health EXCEPT ![c].alertSent = TRUE]
                  /\ work' = [work EXCEPT ![w].alerts = @ \cup {c}, ![w].left = @ \ {c}]
               \/ /\ work' = [work EXCEPT ![w].left = @ \ {c}]
                  /\ UNCHANGED health
      BY <1>4 DEF TakeAlert
    <2>2. pc[w] = "alert" /\ SoundWork("alert", work[w], next)
      BY <1>0, <1>4 DEF TakeAlert, WorkerInv
    <2>3. PICK alerts \in {work[w].alerts, work[w].alerts \cup {c}} :
            work' = [work EXCEPT ![w] = [work[w] EXCEPT !.alerts = alerts, !.left = @ \ {c}]]
      <3>1. CASE work' = [work EXCEPT ![w].left = @ \ {c}]
        <4>1. work' = [work EXCEPT ![w] = [work[w] EXCEPT !.alerts = work[w].alerts, !.left = @ \ {c}]]
          BY <1>0, <3>1 DEF Work
        <4> QED
          BY <4>1
      <3>2. CASE work' = [work EXCEPT ![w].alerts = @ \cup {c}, ![w].left = @ \ {c}]
        <4>1. work' = [work EXCEPT ![w] = [work[w] EXCEPT !.alerts = work[w].alerts \cup {c}, !.left = @ \ {c}]]
          BY <1>0, <3>2
        <4> QED
          BY <4>1
      <3> QED
        BY <2>1, <3>1, <3>2
    <2> DEFINE r == [work[w] EXCEPT !.alerts = alerts, !.left = @ \ {c}]
    <2>4. health' \in [Chains -> HealthStates]
      <3>1. [health[c] EXCEPT !.alertSent = TRUE] \in HealthStates
        BY <1>0 DEF HealthStates
      <3> QED
        BY <1>0, <2>1, <3>1
    <2>5. alerts \subseteq Chains
      BY <1>0 DEF Work
    <2>6. /\ r \in Work /\ r.addr = work[w].addr /\ r.left = work[w].left \ {c}
          /\ r.errs = work[w].errs
          /\ r.finds = work[w].finds /\ r.alerts = alerts /\ r.pause = work[w].pause
      BY <1>0, <2>5 DEF Work
    <2>7. pc' = [pc EXCEPT ![w] = "chain"] /\ work' = [work EXCEPT ![w] = r]
      BY <1>4, <2>3 DEF TakeAlert
    <2> HIDE DEF r
    <2>8. c \in work[w].errs /\ \A d \in work[w].left : d \in work[w].errs => d = c
      <3>1. ASSUME NEW d \in work[w].left, d \in work[w].errs PROVE d = c
        BY <2>1, <2>2, <3>1, AtOneChain DEF At, Active, SoundWork
      <3> QED
        BY <2>1, <2>2, <3>1 DEF At, SoundWork
    <2>9. SoundWork("chain", r, next)
      BY <2>2, <2>6, <2>8 DEF SoundWork
    <2> QED
      BY <1>0, <1>4, <2>2, <2>4, <2>6, <2>7, <2>9, WorkerStep DEF TakeAlert
  <1> QED
    BY <1>1, <1>2, <1>3, <1>4

(* Finitely many workers query a chain at a time.                          *)
LEMMA FiniteQuerying ==
    ASSUME NEW c
    PROVE  IsFiniteSet(Querying(c)) /\ Cardinality(Querying(c)) \in Nat
  <1>1. Querying(c) \in SUBSET Workers
    BY DEF Querying
  <1> QED
    BY <1>1, FS_Subset, FS_CardinalityType, WorkersAssumption

(* A query takes a slot of its chain and gives it back.                    *)
LEMMA SlotSteps ==
    ASSUME IInv, NEW w \in Workers, AcquireSlot(w) \/ QuerySucceeds(w) \/ QueryFails(w)
    PROVE  IInv'
  <1> USE DEF Goto, Places
  <1>0. /\ work \in [Workers -> Work] /\ work[w] \in Work /\ pc \in [Workers -> Places]
        /\ SoundWork(pc[w], work[w], next) /\ pc[w] \in {"acquire", "query"} /\ Active(w)
        /\ slots \in [Chains -> 0 .. SemaphoreSize]
        /\ UNCHANGED <<next, health, results, cancelled, episodes>>
    BY DEF IInv, TypeOK, WorkerInv, AcquireSlot, QuerySucceeds, QueryFails, Active
  <1>1. PICK c \in Chains :
          /\ At(w, c)
          /\ \/ AcquireSlot(w) /\ slots[c] < SemaphoreSize /\ slots' = [slots EXCEPT ![c] = @ + 1]
             \/ /\ QuerySucceeds(w) \/ QueryFails(w)
                /\ slots' = [slots EXCEPT ![c] = SlotFreed(c)]
    <2>1. work[w].left \subseteq Chains
      BY <1>0 DEF Work
    <2> QED
      BY <2>1 DEF AcquireSlot, QuerySucceeds, QueryFails
  <1>2. \A d : At(w, d) => d = c
    BY <1>0, <1>1, AtOneChain
  <1>3. /\ \A v \in Workers \ {w} : pc'[v] = pc[v] /\ work'[v] = work[v]
        /\ pc' \in [Workers -> Places] /\ work' \in [Workers -> Work]
        /\ work'[w].left = work[w].left /\ SoundWork(pc'[w], work'[w], next)
        /\ AcquireSlot(w) => pc[w] # "query" /\ pc'[w] = "query"
        /\ QuerySucceeds(w) \/ QueryFails(w) => pc[w] = "query" /\ pc'[w] # "query"
    <2>1. CASE AcquireSlot(w)
      BY <1>0, <2>1 DEF AcquireSlot, SoundWork, QuerySucceeds, QueryFails
    <2>2. CASE QuerySucceeds(w)
      <3>1. PICK positive \in BOOLEAN : work' = [work EXCEPT ![w] = [work[w] EXCEPT !.positive = positive]]
        BY <2>2 DEF QuerySucceeds
      <3> DEFINE r == [work[w] EXCEPT !.positive = positive]
      <3>2. /\ r \in Work /\ r.addr = work[w].addr /\ r.left = work[w].left /\ r.errs = work[w].errs
            /\ r.finds = work[w].finds /\ r.alerts = work[w].alerts /\ r.pause = work[w].pause
        BY <1>0 DEF Work
      <3>3. pc' = [pc EXCEPT ![w] = "success"] /\ work' = [work EXCEPT ![w] = r] /\ pc[w] = "query"
        BY <2>2, <3>1 DEF QuerySucceeds
      <3> HIDE DEF r
      <3>4. SoundWork("success", r, next)
        BY <1>0, <3>2, <3>3 DEF SoundWork
      <3>5. work'[w] = r /\ pc'[w] = "success"
        BY <1>0, <3>3
      <3> QED
        BY <1>0, <3>2, <3>3, <3>4, <3>5 DEF AcquireSlot
    <2>3. CASE QueryFails(w)
      <3>1. PICK place \in {"failure", "backoff"} :
              /\ pc' = [pc EXCEPT ![w] = place]
              /\ place = "backoff" => work[w].attempt # MaxRetries
        BY <2>3 DEF QueryFails
      <3>2. work' = work /\ pc[w] = "query"
        BY <2>3 DEF QueryFails
      <3>3. work[w].attempt # MaxRetries => work[w].attempt < MaxRetries
        BY <1>0, SizesAssumption DEF Work
      <3>4. SoundWork(place, work[w], next)
        BY <1>0, <3>1, <3>2, <3>3 DEF SoundWork
      <3> QED
        BY <1>0, <3>1, <3>2, <3>4 DEF AcquireSlot
    <2> QED
      BY <2>1, <2>2, <2>3
  <1>4. \A d \in Chains \ {c} : Querying(d)' = Querying(d) /\ slots'[d] = slots[d]
    BY <1>0, <1>1, <1>2, <1>3 DEF Querying, At
  <1>5. Cardinality(Querying(c)) = slots[c]
    BY DEF IInv, SlotsCounted
  <1>6. Cardinality(Querying(c)') = slots'[c] /\ slots'[c] \in 0 .. SemaphoreSize
    <2>1. CASE AcquireSlot(w)
      <3>1. w \notin Querying(c) /\ Querying(c)' = Querying(c) \cup {w}
        BY <1>1, <1>3, <2>1 DEF Querying, At
      <3>2. slots'[c] = slots[c] + 1 /\ slots[c] < SemaphoreSize
        BY <1>0, <1>1, <1>3, <2>1
      <3>3. Cardinality(Querying(c)') = Cardinality(Querying(c)) + 1
        BY <3>1, FiniteQuerying, FS_AddElement
      <3> QED
        BY <1>0, <1>5, <3>2, <3>3, SizesAssumption
    <2>2. CASE QuerySucceeds(w) \/ QueryFails(w)
      <3>1. w \in Querying(c) /\ Querying(c)' = Querying(c) \ {w}
        BY <1>1, <1>3, <2>2 DEF Querying, At
      <3>2. slots'[c] = slots[c] - 1
        BY <1>0, <1>1, <1>3, <2>2 DEF SlotFreed
      <3>3. Cardinality(Querying(c)') = Cardinality(Querying(c)) - 1 /\ Cardinality(Querying(c)') \in Nat
        <4>1. IsFiniteSet(Querying(c) \ {w})
          BY <3>1, FiniteQuerying, FS_RemoveElement
        <4> QED
          BY <3>1, <4>1, FiniteQuerying, FS_RemoveElement, FS_CardinalityType
      <3> QED
        BY <1>0, <1>5, <3>2, <3>3, SizesAssumption
    <2> QED
      BY <1>1, <2>1, <2>2
  <1>7. slots' \in [Chains -> 0 .. SemaphoreSize]
    <2>1. \E n : slots' = [slots EXCEPT ![c] = n]
      BY <1>1
    <2> QED
      BY <1>0, <1>6, <2>1
  <1>8. TypeOK'
    BY <1>0, <1>3, <1>7 DEF IInv, TypeOK
  <1>9. SlotsCounted'
    BY <1>4, <1>6 DEF IInv, SlotsCounted
  <1>10. \A v \in Workers : WorkerInv(v)'
    BY <1>0, <1>3 DEF IInv, WorkerInv
  <1> QED
    BY <1>8, <1>9, <1>10 DEF IInv

(* Between two batches nobody is in a query.                               *)
LEMMA NobodyQueries ==
    ASSUME pc \in [Workers -> {"receive", "done"}], NEW c
    PROVE  Cardinality(Querying(c)) = 0
  <1>1. Querying(c) = {}
    BY DEF Querying
  <1> QED
    BY <1>1, FS_EmptySet

(* A new batch, a new process and a cancelled context keep the invariant.  *)
LEMMA BatchSteps ==
    ASSUME IInv, NextBatch \/ NewProcess \/ ContextCancelled \/ UNCHANGED vars
    PROVE  IInv'
  <1>1. CASE ContextCancelled \/ UNCHANGED vars
    <2>1. UNCHANGED <<next, pc, work, results, slots, health, episodes>> /\ cancelled' \in BOOLEAN
      BY <1>1 DEF ContextCancelled, workers, vars, IInv, TypeOK
    <2> QED
      BY <2>1 DEF IInv, TypeOK, SlotsCounted, Querying, At, WorkerInv
  <1>2. CASE NextBatch \/ NewProcess
    <2>1. /\ next' = 1 /\ pc' = [w \in Workers |-> "receive"] /\ work' = [w \in Workers |-> NoWork]
          /\ results' = {} /\ episodes' = [c \in Chains |-> 0]
      BY <1>2 DEF NextBatch, NewProcess, processBatch
    <2>2. \A c : Cardinality(Querying(c)) = 0
      <3>1. pc \in [Workers -> {"receive", "done"}]
        BY <1>2 DEF NextBatch, NewProcess, Returned, IInv, TypeOK
      <3> QED
        BY <3>1, NobodyQueries
    <2>3. \A c : Cardinality(Querying(c)') = 0
      <3>1. \A c : Querying(c)' = {}
        BY <2>1 DEF Querying
      <3> QED
        BY <3>1, FS_EmptySet
    <2>4. \A c \in Chains : slots'[c] = 0
      BY <1>2, <2>2 DEF NextBatch, NewProcess, IInv, SlotsCounted
    <2>5. slots' \in [Chains -> 0 .. SemaphoreSize]
      BY <1>2, SizesAssumption DEF NextBatch, NewProcess, IInv, TypeOK
    <2>6. health' \in [Chains -> HealthStates]
      <3>1. Healthy \in HealthStates
        BY SizesAssumption DEF Healthy, HealthStates
      <3> QED
        BY <1>2, <3>1 DEF NextBatch, NewProcess, IInv, TypeOK, HealthStates
    <2>7. cancelled' \in BOOLEAN
      BY <1>2 DEF NextBatch, NewProcess, IInv, TypeOK
    <2>8. TypeOK'
      BY <2>1, <2>5, <2>6, <2>7, NoWorkType, SizesAssumption DEF TypeOK, HealthStates
    <2>9. \A w \in Workers : WorkerInv(w)'
      BY <2>1 DEF WorkerInv, SoundWork
    <2> QED
      BY <2>3, <2>4, <2>8, <2>9 DEF IInv, SlotsCounted
  <1> QED
    BY <1>1, <1>2

(* The first batch of a process starts in the invariant.                   *)
LEMMA IInvInit == Init => IInv
  <1> SUFFICES ASSUME Init PROVE IInv
    OBVIOUS
  <1>1. Healthy \in HealthStates
    BY SizesAssumption DEF Healthy, HealthStates
  <1>2. TypeOK
    <2>1. next \in 1 .. BatchLength + 1 /\ slots \in [Chains -> 0 .. SemaphoreSize]
      BY SizesAssumption DEF Init
    <2>2. health \in [Chains -> HealthStates]
      BY <1>1 DEF Init
    <2> QED
      BY <2>1, <2>2, NoWorkType DEF Init, TypeOK, HealthStates
  <1>3. pc \in [Workers -> {"receive", "done"}]
    BY DEF Init
  <1>4. SlotsCounted
    BY <1>3, NobodyQueries DEF Init, SlotsCounted
  <1>5. \A w \in Workers : WorkerInv(w)
    BY DEF Init, WorkerInv, SoundWork
  <1> QED
    BY <1>2, <1>4, <1>5 DEF IInv

(* Every step of every worker keeps the invariant.                         *)
LEMMA IInvNext == IInv /\ [Next]_vars => IInv'
  BY LoopSteps, CheckSteps, TrackerSteps, SlotSteps, BatchSteps DEF Next, Step

(* The invariant holds in every reachable state.                           *)
LEMMA Invariant == Spec => []IInv
  BY IInvInit, IInvNext, PTL DEF Spec

(* The types hold; in particular no semaphore ever holds a token too many, *)
(* or gives one back it does not hold: TypeOK.                             *)
THEOREM TypesHold == Spec => []TypeOK
  <1>1. IInv => TypeOK
    BY DEF IInv
  <1> QED
    BY <1>1, Invariant, PTL

-----------------------------------------------------------------------------
(* One result per address *)

(* The steps that neither take an address nor send a result.               *)
LEMMA KeepSteps ==
    ASSUME IInv,
           \/ ContextCancelled \/ UNCHANGED vars
           \/ \E w \in Workers : Step(w) /\ ~Receive(w) /\ ~SendResult(w)
    PROVE  /\ UNCHANGED <<next, results>>
           /\ \A v \in Workers : Active(v)' = Active(v) /\ work'[v].addr = work[v].addr
  <1> USE DEF Goto
  <1>0. work \in [Workers -> Work] /\ pc \in [Workers -> Places]
    BY DEF IInv, TypeOK, Places
  <1>1. CASE ContextCancelled \/ UNCHANGED vars
    BY <1>1 DEF ContextCancelled, vars, workers, Active
  <1>2. ASSUME NEW w \in Workers, Step(w), ~Receive(w), ~SendResult(w)
        PROVE  /\ UNCHANGED <<next, results>>
               /\ \A v \in Workers : Active(v)' = Active(v) /\ work'[v].addr = work[v].addr
    <2>1. UNCHANGED <<next, results>>
      BY <1>2 DEF Step, WorkerDone, NextChain, AcquireSlot, ContextDone, QuerySucceeds, QueryFails,
                  Backoff, Success, Failure, IsUnhealthy, TakeAlert
    <2>2. \A v \in Workers : Active(v)' = Active(v)
      BY <1>0, <1>2
      DEF Step, WorkerDone, NextChain, AcquireSlot, ContextDone, QuerySucceeds, QueryFails,
          Backoff, Success, Failure, IsUnhealthy, TakeAlert, Active
    <2>3. CASE WorkerDone(w) \/ AcquireSlot(w) \/ ContextDone(w) \/ QueryFails(w) \/ Failure(w)
      BY <2>1, <2>2, <2>3 DEF WorkerDone, AcquireSlot, ContextDone, QueryFails, Failure
    <2>4. CASE NextChain(w)
      <3>1. \A v \in Workers : work'[v].addr = work[v].addr
        BY <1>0, <2>4 DEF NextChain, Work
      <3> QED
        BY <2>1, <2>2, <3>1
    <2>5. CASE QuerySucceeds(w) \/ Backoff(w)
      <3>1. \A v \in Workers : work'[v].addr = work[v].addr
        BY <1>0, <2>5 DEF QuerySucceeds, Backoff, Work
      <3> QED
        BY <2>1, <2>2, <3>1
    <2>6. CASE Success(w)
      <3>1. \A v \in Workers : work'[v].addr = work[v].addr
        BY <1>0, <2>6 DEF Success, Work
      <3> QED
        BY <2>1, <2>2, <3>1
    <2>7. CASE IsUnhealthy(w)
      <3>1. \A v \in Workers : work'[v].addr = work[v].addr
        BY <1>0, <2>7 DEF IsUnhealthy, Work
      <3> QED
        BY <2>1, <2>2, <3>1
    <2>8. CASE TakeAlert(w)
      <3>1. \A v \in Workers : work'[v].addr = work[v].addr
        BY <1>0, <2>8 DEF TakeAlert, Work
      <3> QED
        BY <2>1, <2>2, <3>1
    <2> QED
      BY <1>2, <2>3, <2>4, <2>5, <2>6, <2>7, <2>8 DEF Step
  <1> QED
    BY <1>1, <1>2

(* No step loses an address of the batch or hands one out twice.           *)
LEMMA OnceEachNext ==
    ASSUME IInv, IInv', OnceEach, [Next]_vars
    PROVE  OnceEach'
  <1> USE DEF Goto
  <1>0. /\ work \in [Workers -> Work] /\ pc \in [Workers -> Places] /\ next \in Nat
        /\ \A w \in Workers : Active(w) => work[w].addr \in Addresses /\ work[w].addr < next
    BY SizesAssumption DEF IInv, TypeOK, Places, WorkerInv, SoundWork, Active
  <1>1. ASSUME NEW w \in Workers, Receive(w) PROVE OnceEach'
    <2>1. /\ next' = next + 1 /\ results' = results /\ next \in Addresses
          /\ ~Active(w) /\ Active(w)' /\ work'[w].addr = next
          /\ \A v \in Workers \ {w} : work'[v] = work[v] /\ Active(v)' = Active(v)
      BY <1>0, <1>1, SizesAssumption DEF Receive, Active, NoWork, Addresses, IInv, TypeOK
    <2>2. \A u, v \in Workers : Active(u)' /\ Active(v)' /\ u # v => work'[u].addr # work'[v].addr
      BY <1>0, <2>1 DEF OnceEach, Addresses
    <2>3. \A r \in results' : r.addr < next' /\ \A v \in Workers : Active(v)' => r.addr # work'[v].addr
      <3>1. \A r \in results : r.addr \in Nat
        BY SizesAssumption DEF IInv, TypeOK, Addresses
      <3> QED
        BY <1>0, <2>1, <3>1 DEF OnceEach
    <2>4. \A a \in Addresses : a < next' =>
            (\E r \in results' : r.addr = a) \/ (\E v \in Workers : Active(v)' /\ work'[v].addr = a)
      <3> SUFFICES ASSUME NEW a \in Addresses, a < next'
                   PROVE  (\E r \in results' : r.addr = a) \/ (\E v \in Workers : Active(v)' /\ work'[v].addr = a)
        OBVIOUS
      <3>1. a < next \/ a = next
        BY <1>0, <2>1 DEF Addresses
      <3>2. CASE a = next
        BY <2>1, <3>2
      <3>3. CASE a < next
        BY <2>1, <3>3 DEF OnceEach
      <3> QED
        BY <3>1, <3>2, <3>3
    <2> QED
      BY <2>1, <2>2, <2>3, <2>4 DEF OnceEach
  <1>2. ASSUME NEW w \in Workers, SendResult(w) PROVE OnceEach'
    <2>1. /\ next' = next /\ results' = results \cup {Result(w)} /\ Result(w).addr = work[w].addr
          /\ Active(w) /\ ~Active(w)'
          /\ \A v \in Workers \ {w} : work'[v] = work[v] /\ Active(v)' = Active(v)
      BY <1>0, <1>2 DEF SendResult, Active, Result
    <2>2. \A u, v \in Workers : Active(u)' /\ Active(v)' /\ u # v => work'[u].addr # work'[v].addr
      BY <2>1 DEF OnceEach
    <2>3. \A r \in results' : r.addr < next' /\ \A v \in Workers : Active(v)' => r.addr # work'[v].addr
      BY <1>0, <2>1 DEF OnceEach
    <2>4. \A r, q \in results' : r.addr = q.addr => r = q
      BY <2>1 DEF OnceEach
    <2>5. \A a \in Addresses : a < next' =>
            (\E r \in results' : r.addr = a) \/ (\E v \in Workers : Active(v)' /\ work'[v].addr = a)
      BY <2>1 DEF OnceEach
    <2> QED
      BY <2>2, <2>3, <2>4, <2>5 DEF OnceEach
  <1>3. CASE NextBatch \/ NewProcess
    <2>1. next' = 1 /\ results' = {} /\ \A w \in Workers : ~Active(w)'
      BY <1>3 DEF NextBatch, NewProcess, processBatch, Active
    <2>2. \A a \in Addresses : ~(a < next')
      BY <2>1, SizesAssumption DEF Addresses
    <2> QED
      BY <2>1, <2>2 DEF OnceEach
  <1>4. CASE \/ ContextCancelled \/ UNCHANGED vars
             \/ \E w \in Workers : Step(w) /\ ~Receive(w) /\ ~SendResult(w)
    <2>1. /\ UNCHANGED <<next, results>>
          /\ \A v \in Workers : Active(v)' = Active(v) /\ work'[v].addr = work[v].addr
      BY <1>4, KeepSteps
    <2> QED
      BY <2>1 DEF OnceEach
  <1> QED
    BY <1>1, <1>2, <1>3, <1>4 DEF Next

(* Every result that is sent is consistent in itself.                      *)
LEMMA SoundResultsNext ==
    ASSUME IInv, \A r \in results : SoundResult(r), [Next]_vars
    PROVE  \A r \in results' : SoundResult(r)
  <1>1. ASSUME NEW w \in Workers, SendResult(w) PROVE \A r \in results' : SoundResult(r)
    <2>1. SoundWork("chain", work[w], next)
      BY <1>1 DEF SendResult, IInv, WorkerInv
    <2>2. /\ Result(w).addr = work[w].addr /\ Result(w).errs = work[w].errs
          /\ Result(w).finds = work[w].finds /\ Result(w).alerts = work[w].alerts
          /\ Result(w).pause = work[w].pause
      BY DEF Result
    <2>3. SoundResult(Result(w))
      BY <2>1, <2>2 DEF SoundResult, SoundWork
    <2> QED
      BY <1>1, <2>3 DEF SendResult
  <1>2. CASE NextBatch \/ NewProcess
    BY <1>2 DEF NextBatch, NewProcess, processBatch
  <1>3. ASSUME NEW w \in Workers, Receive(w) PROVE \A r \in results' : SoundResult(r)
    BY <1>3 DEF Receive
  <1> QED
    BY <1>1, <1>2, <1>3, KeepSteps DEF Next

(* When processBatch returns there is exactly one result for every address *)
(* of the batch, and its failures, findings, alerts and pause fit together *)
(* (BatchContract), for any number of workers and addresses.               *)
THEOREM BatchContractHolds == Spec => []BatchContract
  <1> DEFINE Good == OnceEach /\ \A r \in results : SoundResult(r)
  <1>1. Init => Good
    BY SizesAssumption DEF Init, OnceEach, Addresses, Active
  <1>2. Good /\ IInv /\ IInv' /\ [Next]_vars => Good'
    BY OnceEachNext, SoundResultsNext DEF SoundResult
  <1>3. Good /\ IInv => BatchContract
    <2> SUFFICES ASSUME Good, IInv, Returned PROVE BatchContract
      BY DEF BatchContract
    <2>1. \A w \in Workers : ~Active(w)
      BY DEF Returned, Active
    <2>2. next > BatchLength
      BY WorkersAssumption DEF Returned, IInv, WorkerInv, SoundWork
    <2>3. \A a \in Addresses : a < next
      BY <2>2, SizesAssumption DEF Addresses, IInv, TypeOK
    <2>4. \A a \in Addresses : \E r \in results : r.addr = a
      BY <2>1, <2>3 DEF OnceEach
    <2>5. \A r \in results : r.addr \in Addresses
      BY DEF IInv, TypeOK
    <2>6. {r.addr : r \in results} = Addresses
      BY <2>4, <2>5
    <2> QED
      BY <2>6 DEF BatchContract, OnceEach, SoundResult
  <1> QED
    BY <1>1, <1>2, <1>3, Invariant, PTL DEF Spec

-----------------------------------------------------------------------------
(* Unhealthy chains *)

(* A step of one worker leaves the locals of the others alone.             *)
LEMMA OthersKeep ==
    ASSUME IInv, NEW w \in Workers, Step(w)
    PROVE  \A v \in Workers \ {w} : pc'[v] = pc[v] /\ work'[v] = work[v]
  BY DEF Step, Receive, WorkerDone, SendResult, NextChain, AcquireSlot, ContextDone,
         QuerySucceeds, QueryFails, Backoff, Success, Failure, IsUnhealthy, TakeAlert, Goto,
         IInv, TypeOK

(* What the others know of a chain they still know.                        *)
LEMMA OthersKnow ==
    ASSUME IInv, NEW w \in Workers, Step(w), NEW v \in Workers \ {w}, NEW c
    PROVE  /\ WillAsk(v, c)' = WillAsk(v, c) /\ Tells(v, c)' = Tells(v, c)
           /\ Bears(v, c)' = Bears(v, c)
  BY OthersKeep DEF WillAsk, Tells, Bears, At

(* The steps of a worker that leave the tracker, and what the worker knows *)
(* of a chain, alone.                                                      *)
LEMMA PlainSteps ==
    ASSUME IInv, NEW w \in Workers,
           \/ Receive(w) \/ WorkerDone(w) \/ NextChain(w) \/ AcquireSlot(w) \/ ContextDone(w)
           \/ QuerySucceeds(w) \/ QueryFails(w) \/ Backoff(w)
    PROVE  /\ UNCHANGED <<health, results, episodes>>
           /\ pc[w] \notin {"failed", "alert"}
           /\ work'[w].alerts = work[w].alerts /\ work'[w].pause = work[w].pause
           /\ work[w].errs \subseteq work'[w].errs
  <1> USE DEF Goto
  <1>0. work \in [Workers -> Work] /\ work[w] \in Work
    BY DEF IInv, TypeOK
  <1>1. UNCHANGED <<health, results, episodes>> /\ pc[w] \notin {"failed", "alert"}
    BY DEF Receive, WorkerDone, NextChain, AcquireSlot, ContextDone, QuerySucceeds, QueryFails, Backoff
  <1>2. CASE Receive(w)
    <2>1. work[w] = NoWork
      BY <1>2 DEF Receive, IInv, WorkerInv, SoundWork
    <2>2. work'[w] = [NoWork EXCEPT !.addr = next, !.left = chainsFor(TypeOf[next])]
      BY <1>0, <1>2 DEF Receive
    <2> QED
      BY <1>1, <2>1, <2>2 DEF NoWork
  <1>3. CASE WorkerDone(w) \/ AcquireSlot(w) \/ ContextDone(w) \/ QueryFails(w)
    BY <1>1, <1>3 DEF WorkerDone, AcquireSlot, ContextDone, QueryFails
  <1>4. CASE NextChain(w)
    <2>1. /\ work'[w].alerts = work[w].alerts /\ work'[w].pause = work[w].pause
          /\ work[w].errs \subseteq work'[w].errs
      BY <1>0, <1>4 DEF NextChain, Work
    <2> QED
      BY <1>1, <2>1
  <1>5. CASE QuerySucceeds(w) \/ Backoff(w)
    <2>1. /\ work'[w].alerts = work[w].alerts /\ work'[w].pause = work[w].pause
          /\ work[w].errs \subseteq work'[w].errs
      BY <1>0, <1>5 DEF QuerySucceeds, Backoff, Work
    <2> QED
      BY <1>1, <2>1
  <1> QED
    BY <1>2, <1>3, <1>4, <1>5

(* A chain stays noticed if its health does not change and its witnesses   *)
(* do not get lost.                                                        *)
LEMMA StaysNoticed ==
    ASSUME IInv, NEW w \in Workers, Step(w), NEW c, Noticed(c),
           health'[c] = health[c], results \subseteq results',
           Tells(w, c) => Tells(w, c)' \/ \E r \in results' : r.pause /\ c \in r.errs,
           Bears(w, c) => Bears(w, c)' \/ \E r \in results' : c \in r.alerts,
           WillAsk(w, c) => WillAsk(w, c)'
    PROVE  Noticed(c)'
  <1>1. \/ \E r \in results' : r.pause /\ c \in r.errs
        \/ \E v \in Workers : Tells(v, c)'
    BY OthersKnow DEF Noticed
  <1>2. CASE health[c].alertSent
    <2>1. (\E r \in results' : c \in r.alerts) \/ (\E v \in Workers : Bears(v, c)')
      BY <1>2, OthersKnow DEF Noticed
    <2> QED
      BY <1>1, <1>2, <2>1 DEF Noticed
  <1>3. CASE ~health[c].alertSent
    <2>1. \E v \in Workers : WillAsk(v, c)'
      BY <1>3, OthersKnow DEF Noticed
    <2> QED
      BY <1>1, <1>3, <2>1 DEF Noticed
  <1> QED
    BY <1>2, <1>3

(* Whichever worker calls the tracker, somebody still knows of each chain  *)
(* that is unhealthy, or its result is sent.                               *)
LEMMA WatchedTracker ==
    ASSUME IInv, Watched, NEW w \in Workers, NEW d \in Chains, At(w, d), Active(w),
           Success(w) \/ Failure(w) \/ IsUnhealthy(w) \/ TakeAlert(w)
    PROVE  Watched'
  <1> USE DEF Goto
  <1>0. /\ work \in [Workers -> Work] /\ work[w] \in Work /\ health \in [Chains -> HealthStates]
        /\ pc \in [Workers -> Places]
    BY DEF IInv, TypeOK, HealthStates, Places
  <1>1. \A c : At(w, c) => c = d
    BY AtOneChain
  <1>2. Step(w) /\ results' = results
    BY DEF Step, Success, Failure, IsUnhealthy, TakeAlert
  <1>3. CASE Success(w)
    <2>1. /\ health' = [health EXCEPT ![d] = Recovered(@)] /\ pc[w] = "success"
          /\ work'[w].alerts = work[w].alerts /\ work'[w].pause = work[w].pause
          /\ work'[w].errs = work[w].errs
      <3>1. /\ work' = [work EXCEPT ![w].left = @ \ {d},
                                    ![w].finds = IF work[w].positive THEN @ \cup {d} ELSE @]
            /\ health' = [health EXCEPT ![d] = Recovered(@)]
        BY <1>1, <1>3 DEF Success
      <3>2. pc[w] = "success"
        BY <1>3 DEF Success
      <3> QED
        BY <1>0, <3>1, <3>2 DEF Work
    <2>2. ~health'[d].unhealthy /\ ~health'[d].alertSent
      BY <1>0, <2>1 DEF Recovered, HealthStates
    <2>3. ASSUME NEW c \in Chains, c # d
          PROVE  /\ health'[c] = health[c]
                 /\ Noticed(c) => Noticed(c)'
      <3>1. health'[c] = health[c]
        BY <1>0, <2>1, <2>3
      <3> QED
        BY <1>2, <2>1, <3>1, StaysNoticed DEF Tells, Bears, WillAsk
    <2> QED
      BY <2>2, <2>3 DEF Watched
  <1>4. CASE Failure(w)
    <2>1. /\ health' = [health EXCEPT ![d] = Failed(@)] /\ pc[w] = "failure" /\ pc'[w] = "failed"
          /\ work' = work
      BY <1>0, <1>1, <1>4 DEF Failure
    <2>2. /\ health'[d].alertSent = health[d].alertSent
          /\ health[d].unhealthy => health'[d].unhealthy
      BY <1>0, <2>1 DEF Failed, HealthStates
    <2>3. WillAsk(w, d)' /\ Tells(w, d)'
      BY <2>1 DEF WillAsk, Tells, At
    <2>4. ASSUME health[d].alertSent
          PROVE  (\E r \in results' : d \in r.alerts) \/ (\E v \in Workers : Bears(v, d)')
      <3>1. Noticed(d)
        BY <2>4 DEF Watched
      <3> QED
        BY <1>2, <2>1, <2>4, <3>1 DEF Noticed, Bears
    <2>5. Noticed(d)'
      BY <2>2, <2>3, <2>4 DEF Noticed
    <2>6. ASSUME NEW c \in Chains, c # d
          PROVE  /\ health'[c] = health[c]
                 /\ Noticed(c) => Noticed(c)'
      <3>1. health'[c] = health[c]
        BY <1>0, <2>1, <2>6
      <3> QED
        BY <1>2, <2>1, <3>1, StaysNoticed DEF Tells, Bears, WillAsk
    <2> QED
      BY <2>2, <2>5, <2>6 DEF Watched
  <1>5. CASE IsUnhealthy(w)
    <2>1. health' = health /\ pc[w] = "failed"
      BY <1>5 DEF IsUnhealthy
    <2>2. /\ work'[w].alerts = work[w].alerts /\ work[w].errs \subseteq work'[w].errs
          /\ work[w].pause => work'[w].pause
      BY <1>0, <1>5 DEF IsUnhealthy, RecordedErrors, PauseIfUnhealthy, Work
    <2>3. ASSUME NEW c \in Chains, c # d, Noticed(c) PROVE Noticed(c)'
      <3>1. ~WillAsk(w, c) /\ (Tells(w, c) => Tells(w, c)') /\ (Bears(w, c) => Bears(w, c)')
        BY <1>1, <2>2, <2>3 DEF WillAsk, Tells, Bears
      <3> QED
        BY <1>2, <2>1, <2>3, <3>1, StaysNoticed
    <2>4. ASSUME health[d].unhealthy, Noticed(d) PROVE Noticed(d)'
      <3>1. pc'[w] = "alert" /\ work'[w].left = work[w].left /\ work'[w].pause /\ d \in work'[w].errs
        BY <1>0, <1>1, <1>5, <2>4 DEF IsUnhealthy, RecordedErrors, PauseIfUnhealthy, Work
      <3>2. WillAsk(w, d)' /\ Tells(w, d)' /\ (Bears(w, d) => Bears(w, d)')
        BY <2>2, <3>1 DEF WillAsk, Tells, Bears, At
      <3> QED
        BY <1>2, <2>1, <2>4, <3>2, StaysNoticed
    <2> QED
      BY <2>1, <2>3, <2>4 DEF Watched
  <1>6. CASE TakeAlert(w)
    <2>1. pc[w] = "alert" /\ SoundWork("alert", work[w], next)
      BY <1>6 DEF TakeAlert, IInv, WorkerInv
    <2>2. work[w].pause /\ d \in work[w].errs
      BY <2>1 DEF SoundWork, At, IsFirstChain
    <2>3. \/ /\ MayAlert(d) /\ health' = [health EXCEPT ![d].alertSent = TRUE]
             /\ work'[w].alerts = work[w].alerts \cup {d} /\ work'[w].errs = work[w].errs
             /\ work'[w].pause = work[w].pause
          \/ /\ ~MayAlert(d) /\ health' = health
             /\ work'[w].alerts = work[w].alerts /\ work'[w].errs = work[w].errs
             /\ work'[w].pause = work[w].pause
      BY <1>0, <1>1, <1>6 DEF TakeAlert, Work
    <2>4. ASSUME NEW c \in Chains, c # d
          PROVE  /\ health'[c] = health[c]
                 /\ Noticed(c) => Noticed(c)'
      <3>1. health'[c] = health[c]
        BY <1>0, <2>3, <2>4
      <3>2. ~WillAsk(w, c) /\ (Tells(w, c) => Tells(w, c)') /\ (Bears(w, c) => Bears(w, c)')
        BY <1>1, <2>3, <2>4 DEF WillAsk, Tells, Bears
      <3> QED
        BY <1>2, <3>1, <3>2, StaysNoticed
    <2>5. Tells(w, d)'
      BY <2>2, <2>3 DEF Tells
    <2>6. CASE MayAlert(d)
      <3>1. health'[d].alertSent /\ health'[d].unhealthy /\ Bears(w, d)'
        BY <1>0, <2>3, <2>6 DEF MayAlert, HealthStates, Bears
      <3>2. Noticed(d)'
        BY <2>5, <3>1 DEF Noticed
      <3> QED
        BY <2>4, <3>1, <3>2 DEF Watched
    <2>7. CASE ~MayAlert(d)
      <3>1. health' = health /\ work'[w].alerts = work[w].alerts
        BY <2>3, <2>7
      <3>2. ASSUME health[d].unhealthy, Noticed(d) PROVE Noticed(d)'
        <4>1. health[d].alertSent
          BY <2>7, <3>2 DEF MayAlert
        <4>2. (\E r \in results : d \in r.alerts) \/ (\E v \in Workers : Bears(v, d))
          BY <3>2, <4>1 DEF Noticed
        <4>3. \A v \in Workers : Bears(v, d) => Bears(v, d)'
          BY <1>2, <3>1, OthersKnow DEF Bears
        <4> QED
          BY <1>2, <2>5, <3>1, <4>1, <4>2, <4>3 DEF Noticed
      <3> QED
        BY <2>4, <3>1, <3>2 DEF Watched
    <2> QED
      BY <2>6, <2>7
  <1> QED
    BY <1>3, <1>4, <1>5, <1>6

(* Every step keeps unhealthy chains watched.                              *)
LEMMA WatchedNext ==
    ASSUME IInv, Watched, [Next]_vars
    PROVE  Watched'
  <1>1. ASSUME NEW w \in Workers,
               \/ Receive(w) \/ WorkerDone(w) \/ NextChain(w) \/ AcquireSlot(w) \/ ContextDone(w)
               \/ QuerySucceeds(w) \/ QueryFails(w) \/ Backoff(w)
        PROVE  Watched'
    <2>1. /\ UNCHANGED <<health, results, episodes>>
          /\ pc[w] \notin {"failed", "alert"}
          /\ work'[w].alerts = work[w].alerts /\ work'[w].pause = work[w].pause
          /\ work[w].errs \subseteq work'[w].errs
      BY <1>1, PlainSteps
    <2>2. Step(w)
      BY <1>1 DEF Step
    <2>3. ASSUME NEW c \in Chains, Noticed(c) PROVE Noticed(c)'
      <3>1. ~WillAsk(w, c) /\ (Tells(w, c) => Tells(w, c)') /\ (Bears(w, c) => Bears(w, c)')
        BY <2>1 DEF WillAsk, Tells, Bears
      <3> QED
        BY <2>1, <2>2, <2>3, <3>1, StaysNoticed
    <2> QED
      BY <2>1, <2>3 DEF Watched
  <1>2. ASSUME NEW w \in Workers, SendResult(w) PROVE Watched'
    <2>1. /\ health' = health /\ results' = results \cup {Result(w)} /\ pc[w] = "chain" /\ Step(w)
      BY <1>2 DEF SendResult, Step
    <2>2. /\ Result(w).errs = work[w].errs /\ Result(w).alerts = work[w].alerts
          /\ Result(w).pause = work[w].pause
      BY DEF Result
    <2>3. ASSUME NEW c \in Chains, Noticed(c) PROVE Noticed(c)'
      <3>1. /\ Tells(w, c) => \E r \in results' : r.pause /\ c \in r.errs
            /\ Bears(w, c) => \E r \in results' : c \in r.alerts
            /\ ~WillAsk(w, c)
        BY <2>1, <2>2 DEF WillAsk, Tells, Bears
      <3> QED
        BY <2>1, <2>3, <3>1, StaysNoticed
    <2> QED
      BY <2>1, <2>3 DEF Watched
  <1>3. ASSUME NEW w \in Workers, Success(w) \/ Failure(w) \/ IsUnhealthy(w) \/ TakeAlert(w)
        PROVE  Watched'
    <2>1. PICK d \in work[w].left : At(w, d)
      BY <1>3 DEF Success, Failure, IsUnhealthy, TakeAlert
    <2>2. Active(w) /\ d \in Chains
      BY <1>3 DEF Success, Failure, IsUnhealthy, TakeAlert, Active, IInv, TypeOK, Work
    <2> QED
      BY <1>3, <2>1, <2>2, WatchedTracker
  <1>4. CASE NextBatch
    <2>1. \A w \in Workers : pc[w] = "done" /\ work[w] = NoWork
      BY <1>4 DEF NextBatch, Returned, IInv, WorkerInv, SoundWork
    <2>2. \A w \in Workers, c \in Chains : ~Tells(w, c)
      BY <2>1 DEF Tells, NoWork
    <2>3. \A c \in Chains : ~health[c].unhealthy /\ ~health[c].alertSent
      BY <1>4, <2>2 DEF Watched, Noticed, NextBatch, Pause
    <2> QED
      BY <1>4, <2>3 DEF NextBatch, Watched
  <1>5. CASE NewProcess
    BY <1>5 DEF NewProcess, Watched, Healthy
  <1>6. CASE ContextCancelled \/ UNCHANGED vars
    <2>1. UNCHANGED <<pc, work, results, health>>
      BY <1>6 DEF ContextCancelled, vars, workers
    <2> QED
      BY <2>1 DEF Watched, Noticed, Tells, Bears, WillAsk, At
  <1> QED
    BY <1>1, <1>2, <1>3, <1>4, <1>5, <1>6 DEF Next, Step

(* Unhealthy chains are watched in every reachable state.                  *)
LEMMA WatchedAlways == Spec => []Watched
  <1>1. Init => Watched
    BY DEF Init, Watched, Healthy
  <1> QED
    BY <1>1, WatchedNext, Invariant, PTL DEF Spec

(* No batch leaves an unhealthy chain behind unnoticed: a result asks for  *)
(* the pause, names the chain, and the alert of the episode is among the   *)
(* results (UnhealthyPauses), however the critical sections of any number  *)
(* of workers interleave.                                                  *)
THEOREM UnhealthyChainsPause == Spec => []UnhealthyPauses
  <1>1. IInv /\ Watched => UnhealthyPauses
    <2> SUFFICES ASSUME IInv, Watched, Returned, NEW c \in Chains, health[c].unhealthy
                 PROVE  /\ Pause
                        /\ \E r \in results : r.pause /\ c \in r.errs
                        /\ \E r \in results : c \in r.alerts
      BY DEF UnhealthyPauses
    <2>1. \A w \in Workers : pc[w] = "done" /\ work[w] = NoWork
      BY DEF Returned, IInv, WorkerInv, SoundWork
    <2>2. \A w \in Workers : ~Tells(w, c) /\ ~Bears(w, c) /\ ~WillAsk(w, c)
      BY <2>1 DEF Tells, Bears, WillAsk, NoWork
    <2> QED
      BY <2>2 DEF Watched, Noticed, Pause
  <1> QED
    BY <1>1, WatchedAlways, Invariant, PTL

-----------------------------------------------------------------------------
(* Alerts *)

(* Finitely many workers carry an alert for a chain.                       *)
LEMMA FiniteBearers ==
    ASSUME NEW c
    PROVE  IsFiniteSet(Bearers(c)) /\ Cardinality(Bearers(c)) \in Nat
  <1>1. Bearers(c) \in SUBSET Workers
    BY DEF Bearers
  <1> QED
    BY <1>1, FS_Subset, FS_CardinalityType, WorkersAssumption

\* The results are finitely many, which the count of alerts needs.
Counted == IsFiniteSet(results) /\ AlertsCounted

(* Finitely many results carry an alert for a chain.                       *)
LEMMA FiniteAlerts ==
    ASSUME IsFiniteSet(results), NEW c
    PROVE  IsFiniteSet(Alerts(c)) /\ Cardinality(Alerts(c)) \in Nat
  <1>1. Alerts(c) \in SUBSET results
    BY DEF Alerts
  <1> QED
    BY <1>1, FS_Subset, FS_CardinalityType

(* A step that leaves the results, and after which fewer alerts are with   *)
(* the workers or due, or one more of an episode that has just begun.      *)
LEMMA CountKept ==
    ASSUME IInv, Counted, results' = results,
           \A c \in Chains : /\ Cardinality(Bearers(c)') + Due(c)' - Cardinality(Bearers(c)) - Due(c)
                                 <= episodes'[c] - episodes[c]
                             /\ Cardinality(Bearers(c)') \in Nat /\ episodes'[c] \in Nat
    PROVE  Counted'
  <1> SUFFICES ASSUME NEW c \in Chains
               PROVE  Cardinality(Alerts(c)') + Cardinality(Bearers(c)') + Due(c)' <= episodes'[c]
    BY DEF Counted, AlertsCounted
  <1>1. Alerts(c)' = Alerts(c)
    BY DEF Alerts
  <1>2. /\ Cardinality(Alerts(c)) \in Nat /\ Cardinality(Bearers(c)) \in Nat
        /\ Due(c) \in Nat /\ Due(c)' \in Nat /\ episodes[c] \in Nat
    BY FiniteAlerts, FiniteBearers DEF Counted, Due, IInv, TypeOK
  <1>3. Cardinality(Alerts(c)) + Cardinality(Bearers(c)) + Due(c) <= episodes[c]
    BY DEF Counted, AlertsCounted
  <1> QED
    BY <1>1, <1>2, <1>3

(* A call of the tracker keeps the count of alerts within the episodes.    *)
LEMMA CountedTracker ==
    ASSUME IInv, IInv', Counted, Watched, NEW w \in Workers, NEW d \in Chains, At(w, d), Active(w),
           Success(w) \/ Failure(w) \/ IsUnhealthy(w) \/ TakeAlert(w)
    PROVE  Counted'
  <1> USE DEF Goto
  <1>0. /\ work \in [Workers -> Work] /\ work[w] \in Work /\ health \in [Chains -> HealthStates]
        /\ episodes \in [Chains -> Nat] /\ episodes' \in [Chains -> Nat]
    BY DEF IInv, TypeOK, HealthStates
  <1>1. \A c : At(w, c) => c = d
    BY AtOneChain
  <1>2. Step(w) /\ results' = results
    BY DEF Step, Success, Failure, IsUnhealthy, TakeAlert
  <1>3. \A c \in Chains : /\ Cardinality(Bearers(c)) \in Nat /\ Due(c) \in {0, 1} /\ Due(c)' \in {0, 1}
                          /\ episodes[c] \in Nat /\ episodes'[c] \in Nat
    BY <1>0, FiniteBearers DEF Due
  <1>4. ASSUME work'[w].alerts = work[w].alerts, NEW c PROVE Bearers(c)' = Bearers(c)
    BY <1>2, <1>4, OthersKnow DEF Bearers, Bears
  <1>5. CASE Success(w) \/ IsUnhealthy(w)
    <2>1. work'[w].alerts = work[w].alerts
      <3>1. CASE Success(w)
        <4>1. work' = [work EXCEPT ![w].left = @ \ {d},
                                   ![w].finds = IF work[w].positive THEN @ \cup {d} ELSE @]
          BY <1>1, <3>1 DEF Success
        <4> QED
          BY <1>0, <4>1 DEF Work
      <3>2. CASE IsUnhealthy(w)
        BY <1>0, <3>2 DEF IsUnhealthy, Work
      <3> QED
        BY <1>5, <3>1, <3>2
    <2>2. episodes' = episodes
      BY <1>5 DEF Success, IsUnhealthy
    <2>3. \A c \in Chains : Due(c)' <= Due(c)
      <3>1. CASE IsUnhealthy(w)
        BY <1>3, <3>1 DEF IsUnhealthy, Due, MayAlert
      <3>2. CASE Success(w)
        <4>1. health' = [health EXCEPT ![d] = Recovered(@)]
          BY <1>1, <3>2 DEF Success
        <4>2. ~health'[d].unhealthy /\ \A c \in Chains \ {d} : health'[c] = health[c]
          BY <1>0, <4>1 DEF Recovered, HealthStates
        <4> QED
          BY <4>2 DEF Due, MayAlert
      <3> QED
        BY <1>5, <3>1, <3>2
    <2> QED
      BY <1>2, <1>3, <1>4, <2>1, <2>2, <2>3, CountKept
  <1>6. CASE Failure(w)
    <2>1. /\ work' = work /\ health' = [health EXCEPT ![d] = Failed(@)]
          /\ episodes' = [episodes EXCEPT ![d] =
                            IF Failed(health[d]).unhealthy /\ ~health[d].unhealthy THEN @ + 1 ELSE @]
      BY <1>1, <1>6 DEF Failure
    <2>2. \A c \in Chains \ {d} : health'[c] = health[c] /\ episodes'[c] = episodes[c]
      BY <1>0, <2>1
    <2>3. health'[d].alertSent = health[d].alertSent
      BY <1>0, <2>1 DEF Failed, HealthStates
    <2>4. episodes'[d] = IF health'[d].unhealthy /\ ~health[d].unhealthy THEN episodes[d] + 1 ELSE episodes[d]
      BY <1>0, <2>1
    <2>5. Due(d)' - Due(d) <= episodes'[d] - episodes[d]
      BY <1>3, <2>3, <2>4 DEF Due, MayAlert
    <2>6. \A c \in Chains \ {d} : Due(c)' = Due(c)
      BY <2>2 DEF Due, MayAlert
    <2>7. \A c \in Chains : Bearers(c)' = Bearers(c)
      BY <1>4, <2>1
    <2>8. \A c \in Chains : Cardinality(Bearers(c)') + Due(c)' - Cardinality(Bearers(c)) - Due(c)
                             <= episodes'[c] - episodes[c]
      BY <1>3, <2>2, <2>5, <2>6, <2>7
    <2> QED
      BY <1>2, <1>3, <2>7, <2>8, CountKept
  <1>7. CASE TakeAlert(w) /\ MayAlert(d)
    <2>1. /\ health' = [health EXCEPT ![d].alertSent = TRUE] /\ episodes' = episodes
          /\ work'[w].alerts = work[w].alerts \cup {d}
      <3>1. /\ health' = [health EXCEPT ![d].alertSent = TRUE] /\ episodes' = episodes
            /\ work' = [work EXCEPT ![w].alerts = @ \cup {d}, ![w].left = @ \ {d}]
        BY <1>1, <1>7 DEF TakeAlert
      <3> QED
        BY <1>0, <3>1 DEF Work
    <2>2. \A c \in Chains \ {d} : Bearers(c)' = Bearers(c)
      BY <1>2, <2>1, OthersKnow DEF Bearers, Bears
    <2>3. Bearers(d)' = Bearers(d) \cup {w}
      BY <1>2, <2>1, OthersKnow DEF Bearers, Bears
    <2>4. Cardinality(Bearers(d)') \in Nat /\ Cardinality(Bearers(d)') <= Cardinality(Bearers(d)) + 1
      <3>1. IsFiniteSet(Bearers(d)) /\ Cardinality(Bearers(d)) \in Nat
        BY FiniteBearers
      <3>2. Cardinality(Bearers(d)') = IF w \in Bearers(d) THEN Cardinality(Bearers(d)) ELSE Cardinality(Bearers(d)) + 1
        BY <2>3, <3>1, FS_AddElement
      <3> QED
        BY <3>1, <3>2
    <2>5. Due(d) = 1 /\ Due(d)' = 0
      BY <1>0, <1>7, <2>1 DEF Due, MayAlert, HealthStates
    <2>6. \A c \in Chains \ {d} : Due(c)' = Due(c)
      BY <1>0, <2>1 DEF Due, MayAlert
    <2>7. \A c \in Chains : /\ Cardinality(Bearers(c)') + Due(c)' - Cardinality(Bearers(c)) - Due(c)
                               <= episodes'[c] - episodes[c]
                            /\ Cardinality(Bearers(c)') \in Nat
      BY <1>3, <2>1, <2>2, <2>4, <2>5, <2>6
    <2> QED
      BY <1>2, <1>3, <2>7, CountKept
  <1>8. CASE TakeAlert(w) /\ ~MayAlert(d)
    <2>1. health' = health /\ episodes' = episodes /\ work'[w].alerts = work[w].alerts
      <3>1. /\ health' = health /\ episodes' = episodes
            /\ work' = [work EXCEPT ![w].left = @ \ {d}]
        BY <1>1, <1>8 DEF TakeAlert
      <3> QED
        BY <1>0, <3>1 DEF Work
    <2>2. \A c \in Chains : Due(c)' = Due(c) /\ Bearers(c)' = Bearers(c)
      BY <1>4, <2>1 DEF Due, MayAlert
    <2> QED
      BY <1>2, <1>3, <2>1, <2>2, CountKept
  <1> QED
    BY <1>5, <1>6, <1>7, <1>8

(* Every step keeps the count of alerts within the episodes.               *)
LEMMA CountedNext ==
    ASSUME IInv, IInv', Counted, Watched, [Next]_vars
    PROVE  Counted'
  <1>1. ASSUME NEW w \in Workers,
               \/ Receive(w) \/ WorkerDone(w) \/ NextChain(w) \/ AcquireSlot(w) \/ ContextDone(w)
               \/ QuerySucceeds(w) \/ QueryFails(w) \/ Backoff(w)
        PROVE  Counted'
    <2>1. UNCHANGED <<health, results, episodes>> /\ work'[w].alerts = work[w].alerts
      BY <1>1, PlainSteps
    <2>2. Step(w)
      BY <1>1 DEF Step
    <2>3. \A c \in Chains : Bearers(c)' = Bearers(c)
      BY <2>1, <2>2, OthersKnow DEF Bearers, Bears
    <2> QED
      BY <2>1, <2>3 DEF Counted, AlertsCounted, Alerts, Due, MayAlert
  <1>2. ASSUME NEW w \in Workers, SendResult(w) PROVE Counted'
    <2>1. /\ UNCHANGED <<health, episodes>> /\ results' = results \cup {Result(w)}
          /\ Result(w).alerts = work[w].alerts /\ work'[w].alerts = {}
      BY <1>2 DEF SendResult, Result, NoWork, IInv, TypeOK
    <2>2. IsFiniteSet(results')
      BY <2>1, FS_AddElement DEF Counted
    <2>3. \A v \in Workers \ {w} : work'[v] = work[v]
      BY <1>2, OthersKeep DEF Step
    <2> SUFFICES ASSUME NEW c \in Chains
                 PROVE  Cardinality(Alerts(c)') + Cardinality(Bearers(c)') + Due(c)' <= episodes'[c]
      BY <2>2 DEF Counted, AlertsCounted
    <2>4. /\ IsFiniteSet(Alerts(c)) /\ Cardinality(Alerts(c)) \in Nat
          /\ IsFiniteSet(Bearers(c)) /\ Cardinality(Bearers(c)) \in Nat
          /\ Due(c) \in {0, 1} /\ Due(c)' = Due(c) /\ episodes[c] \in Nat
      BY <2>1, FiniteAlerts, FiniteBearers DEF Counted, Due, MayAlert, IInv, TypeOK
    <2>5. Cardinality(Alerts(c)) + Cardinality(Bearers(c)) + Due(c) <= episodes[c]
      BY DEF Counted, AlertsCounted
    <2>6. CASE Bears(w, c)
      <3>1. Alerts(c)' = Alerts(c) \cup {Result(w)}
        BY <2>1, <2>6 DEF Alerts, Bears
      <3>2. w \in Bearers(c) /\ Bearers(c)' = Bearers(c) \ {w}
        BY <2>1, <2>3, <2>6 DEF Bearers, Bears
      <3>3. Cardinality(Alerts(c)') = IF Result(w) \in Alerts(c) THEN Cardinality(Alerts(c))
                                                                  ELSE Cardinality(Alerts(c)) + 1
        BY <2>4, <3>1, FS_AddElement
      <3>4. Cardinality(Bearers(c)') = Cardinality(Bearers(c)) - 1
        BY <2>4, <3>2, FS_RemoveElement
      <3> QED
        BY <2>1, <2>4, <2>5, <3>3, <3>4
    <2>7. CASE ~Bears(w, c)
      <3>1. Alerts(c)' = Alerts(c)
        BY <2>1, <2>7 DEF Alerts, Bears
      <3>2. Bearers(c)' = Bearers(c)
        BY <2>1, <2>3, <2>7 DEF Bearers, Bears
      <3> QED
        BY <2>1, <2>4, <2>5, <3>1, <3>2
    <2> QED
      BY <2>6, <2>7
  <1>3. ASSUME NEW w \in Workers, Success(w) \/ Failure(w) \/ IsUnhealthy(w) \/ TakeAlert(w)
        PROVE  Counted'
    <2>1. PICK d \in work[w].left : At(w, d)
      BY <1>3 DEF Success, Failure, IsUnhealthy, TakeAlert
    <2>2. Active(w) /\ d \in Chains
      BY <1>3 DEF Success, Failure, IsUnhealthy, TakeAlert, Active, IInv, TypeOK, Work
    <2> QED
      BY <1>3, <2>1, <2>2, CountedTracker
  <1>4. CASE NextBatch \/ NewProcess
    <2>1. \A c \in Chains : ~MayAlert(c)'
      <3>1. CASE NewProcess
        BY <3>1 DEF NewProcess, Healthy, MayAlert
      <3>2. CASE NextBatch
        <4>1. \A w \in Workers : pc[w] = "done" /\ work[w] = NoWork
          BY <3>2 DEF NextBatch, Returned, IInv, WorkerInv, SoundWork
        <4>2. \A w \in Workers, c \in Chains : ~Tells(w, c)
          BY <4>1 DEF Tells, NoWork
        <4>3. \A c \in Chains : ~health[c].unhealthy
          BY <3>2, <4>2 DEF Watched, Noticed, NextBatch, Pause
        <4> QED
          BY <3>2, <4>3 DEF NextBatch, MayAlert
      <3> QED
        BY <1>4, <3>1, <3>2
    <2>2. /\ results' = {} /\ episodes' = [c \in Chains |-> 0]
          /\ work' = [w \in Workers |-> NoWork]
      BY <1>4 DEF NextBatch, NewProcess, processBatch
    <2>3. \A c \in Chains : Alerts(c)' = {} /\ Bearers(c)' = {} /\ Due(c)' = 0
      BY <2>1, <2>2 DEF Alerts, Bearers, Bears, NoWork, Due
    <2>4. IsFiniteSet(results')
      BY <2>2, FS_EmptySet
    <2>5. \A c \in Chains : Cardinality(Alerts(c)') = 0 /\ Cardinality(Bearers(c)') = 0 /\ episodes'[c] = 0
      BY <2>2, <2>3, FS_EmptySet
    <2> QED
      BY <2>3, <2>4, <2>5 DEF Counted, AlertsCounted
  <1>5. CASE ContextCancelled \/ UNCHANGED vars
    <2>1. UNCHANGED <<work, results, health, episodes>>
      BY <1>5 DEF ContextCancelled, vars, workers
    <2> QED
      BY <2>1 DEF Counted, AlertsCounted, Alerts, Bearers, Bears, Due, MayAlert
  <1> QED
    BY <1>1, <1>2, <1>3, <1>4, <1>5 DEF Next, Step

(* However many workers see a chain unhealthy between IsUnhealthy and      *)
(* TakeAlert, a batch raises no more alerts than the chain had episodes    *)
(* (AtMostOneAlertPerEpisode).                                             *)
THEOREM OneAlertPerEpisode == Spec => []AtMostOneAlertPerEpisode
  <1>1. Init => Counted
    <2> SUFFICES ASSUME Init PROVE Counted
      OBVIOUS
    <2>1. \A c \in Chains : Alerts(c) = {} /\ Bearers(c) = {} /\ Due(c) = 0 /\ episodes[c] = 0
      BY DEF Init, Alerts, Bearers, Bears, NoWork, Due, MayAlert, Healthy
    <2> QED
      BY <2>1, FS_EmptySet DEF Init, Counted, AlertsCounted
  <1>2. IInv /\ Counted => AtMostOneAlertPerEpisode
    <2> SUFFICES ASSUME IInv, Counted, NEW c \in Chains
                 PROVE  Cardinality(Alerts(c)) <= episodes[c]
      BY DEF AtMostOneAlertPerEpisode
    <2>1. /\ Cardinality(Alerts(c)) \in Nat /\ Cardinality(Bearers(c)) \in Nat
          /\ Due(c) \in {0, 1} /\ episodes[c] \in Nat
      BY FiniteAlerts, FiniteBearers DEF Counted, Due, IInv, TypeOK
    <2>2. Cardinality(Alerts(c)) + Cardinality(Bearers(c)) + Due(c) <= episodes[c]
      BY DEF Counted, AlertsCounted
    <2> QED
      BY <2>1, <2>2
  <1> QED
    BY <1>1, <1>2, CountedNext, WatchedAlways, Invariant, PTL DEF Spec
=============================================================================
