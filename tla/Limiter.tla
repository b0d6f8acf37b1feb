------------------------------ MODULE Limiter -------------------------------
(***************************************************************************)
(* The adaptive in-flight limiter of the balance API                       *)
(* (internal/adaptive/limiter.go), shared by the handlers of POST          *)
(* /v1/balance and the goroutines of the startup check.  One action is one *)
(* critical section of the limiter's mutex, or a wait outside of it.       *)
(*                                                                         *)
(* Time is abstract: a queue wait may expire, and an adjustment interval   *)
(* may elapse, at any moment.  Latencies are small numbers.                *)
(***************************************************************************)
EXTENDS Naturals, FiniteSets

CONSTANTS
    Clients,        \* goroutines that call Acquire
    ChainNames,     \* chains they ask for
    MaxConcurrency, \* API_MAX_IN_FLIGHT
    Initial,        \* API_INITIAL_CONCURRENCY
    MinSamples,     \* outcomes an adjustment needs (10 in the code)
    TargetLatency,  \* API_TARGET_LATENCY
    Latencies       \* latencies a provider query can take

ASSUME ConfigAssumption ==
    /\ MaxConcurrency \in Nat /\ Initial \in Nat
    /\ MinSamples \in Nat \ {0} /\ TargetLatency \in Nat \ {0}
    /\ Latencies \subseteq Nat
ASSUME ClientsAssumption == IsFiniteSet(Clients)

VARIABLES
    globalLimit,    \* l.globalLimit
    globalActive,   \* l.globalActive
    global,         \* l.global
    chains,         \* l.chains; a limit of 0 stands for an absent key
    pc,             \* pc[k]: where client k is in Acquire
    at,             \* at[k]: the chain client k asked for
    expired,        \* expired[k]: the deadline of k's Acquire has passed
    degraded        \* environment: providers may still be slow or failing

limits == <<globalLimit, globalActive, global, chains>>
clients == <<pc, at, expired>>
vars == <<limits, clients, degraded>>

NoChain == "none"

-----------------------------------------------------------------------------
(* State.  Of samples and failures only "at least MinSamples" and "some"   *)
(* matter; due stands for time.Since(lastAdjustment) >= interval.          *)

\* New: the configured values, clamped.
ClampMax == IF MaxConcurrency < 1 THEN 1 ELSE MaxConcurrency
ClampInitial == IF Initial < 1 THEN 1 ELSE IF Initial > ClampMax THEN ClampMax ELSE Initial

chainState(limit) ==
    [limit |-> limit, active |-> 0, samples |-> 0, failed |-> FALSE, ewma |-> 0, due |-> FALSE]

Absent == chainState(0)

\* l.chain(name): the state of a chain, created on first use.
chain(c) == IF chains[c].limit = 0 THEN chainState(globalLimit) ELSE chains[c]

Init ==
    /\ globalLimit = ClampInitial /\ globalActive = 0
    /\ global = chainState(ClampInitial)
    /\ chains = [c \in ChainNames |-> Absent]
    /\ pc = [k \in Clients |-> "idle"]
    /\ at = [k \in Clients |-> NoChain]
    /\ expired = [k \in Clients |-> FALSE]
    /\ degraded = TRUE

Goto(k, where) == pc' = [pc EXCEPT ![k] = where]

\* The handler or goroutine is done with its call.
Return(k) ==
    /\ Goto(k, "idle")
    /\ at' = [at EXCEPT ![k] = NoChain]
    /\ expired' = [expired EXCEPT ![k] = FALSE]

-----------------------------------------------------------------------------
(* Acquire *)

Register(c) ==
    /\ chains[c].limit = 0
    /\ chains' = [chains EXCEPT ![c] = chain(c)]
    /\ UNCHANGED <<globalLimit, globalActive, global, clients, degraded>>

\* A client calls Acquire and gets a deadline.
Call(k) ==
    /\ pc[k] = "idle"
    /\ Goto(k, "trying")
    /\ \E c \in ChainNames : at' = [at EXCEPT ![k] = c]
    /\ UNCHANGED <<limits, expired, degraded>>

\* Mutants: only the chain's own limit is looked at; one slot is never used.
ChainRoom(c) == chain(c).active < chain(c).limit
RoomForTwo(c) == globalActive + 1 < globalLimit /\ chain(c).active < chain(c).limit

Room(c) == globalActive < globalLimit /\ chain(c).active < chain(c).limit

\* Mutant: the deadline is computed anew on every turn of the loop.
NeverExpired(k) == FALSE
\* wait <= 0
WaitExpired(k) == expired[k]

\* One turn of the loop of Acquire, up to the unlock.
Acquire(k) ==
    /\ pc[k] = "trying"
    /\ \/ /\ Room(at[k])
          /\ globalActive' = globalActive + 1
          /\ chains' = [chains EXCEPT ![at[k]] = [chain(at[k]) EXCEPT !.active = @ + 1]]
          /\ Goto(k, "holding")
       \/ /\ ~Room(at[k])
          /\ chains' = [chains EXCEPT ![at[k]] = chain(at[k])]
          /\ Goto(k, IF WaitExpired(k) THEN "denied" ELSE "sleeping")
          /\ UNCHANGED globalActive
    /\ UNCHANGED <<globalLimit, global, at, expired, degraded>>

\* The timer fires, after at most 10 ms.
Wake(k) ==
    /\ pc[k] = "sleeping"
    /\ Goto(k, "trying")
    /\ UNCHANGED <<limits, at, expired, degraded>>

\* The deadline passes.
DeadlinePasses(k) ==
    /\ pc[k] \in {"trying", "sleeping"} /\ ~expired[k]
    /\ expired' = [expired EXCEPT ![k] = TRUE]
    /\ UNCHANGED <<limits, pc, at, degraded>>

\* ctx.Done is looked at while sleeping only.
Cancel(k) ==
    /\ pc[k] = "sleeping"
    /\ Goto(k, "denied")
    /\ UNCHANGED <<limits, at, expired, degraded>>

\* Mutant: Acquire unlocks when it returns only (defer), so retryAfter waits
\* for ever for the mutex that its caller holds.
CalledUnderLock(k) == FALSE
\* retryAfter(chain), then Acquire returns false.  The hint itself is 250 ms
\* as long as no limit is below 1.
retryAfter(k) ==
    /\ pc[k] = "denied"
    /\ chains' = [chains EXCEPT ![at[k]] = chain(at[k])]
    /\ Return(k)
    /\ UNCHANGED <<globalLimit, globalActive, global, degraded>>

-----------------------------------------------------------------------------
(* release *)

\* Mutant: a released slot stays taken.
SlotKept(n) == n
\* if n > 0 { n-- }
SlotFreed(n) == IF n > 0 THEN n - 1 ELSE n

updateStats(s, retryable, latency) ==
    [s EXCEPT !.samples = IF @ < MinSamples THEN @ + 1 ELSE @,
              !.failed = @ \/ retryable,
              !.ewma = IF @ = 0 THEN latency ELSE (@ * 4 + latency) \div 5]

AdjustDue(s) == s.samples >= MinSamples /\ s.due

\* Mutants: halved without a floor; raised without the cap.
HalvedToZero(limit) == limit \div 2
RaisedUncapped(limit) == limit + 1

Halved(limit) == IF limit \div 2 < 1 THEN 1 ELSE limit \div 2
Raised(limit) ==
    LET increase == IF limit \div 5 < 1 THEN 1 ELSE limit \div 5
    IN  IF limit + increase > ClampMax THEN ClampMax ELSE limit + increase

NewLimit(s) ==
    IF s.failed \/ s.ewma > TargetLatency * 2 THEN Halved(s.limit)
    ELSE IF s.ewma <= TargetLatency THEN Raised(s.limit)
    ELSE s.limit

\* Mutant: an old failure counts in every later adjustment.
FailureKept(s) == s.failed
\* state.failures = 0
FailureReset(s) == FALSE

adjust(s) ==
    IF AdjustDue(s)
      THEN [s EXCEPT !.limit = NewLimit(s), !.samples = 0, !.failed = FailureReset(s),
                     !.due = FALSE]
      ELSE s

\* The outcomes the environment allows.
Outcome(retryable, latency) == degraded \/ (~retryable /\ latency <= TargetLatency)

\* release(Outcome{chain, retryable, latency}): slots, statistics, limits.
release(k, retryable, latency) ==
    LET c == at[k]
        g == updateStats(global, retryable, latency)
        s == updateStats([chain(c) EXCEPT !.active = SlotFreed(@)], retryable, latency)
    IN  /\ globalActive' = SlotFreed(globalActive)
        /\ global' = adjust(g)
        /\ globalLimit' = IF AdjustDue(g) THEN adjust(g).limit ELSE globalLimit
        /\ chains' = [chains EXCEPT ![c] = adjust(s)]

\* The provider query of k ends and its handler releases the slot.
Release(k) ==
    /\ pc[k] = "holding"
    /\ \E retryable \in BOOLEAN, latency \in Latencies :
         Outcome(retryable, latency) /\ release(k, retryable, latency)
    /\ Return(k)
    /\ UNCHANGED degraded

-----------------------------------------------------------------------------
(* Time and the providers *)

GlobalIntervalElapses ==
    /\ ~global.due
    /\ global' = [global EXCEPT !.due = TRUE]
    /\ UNCHANGED <<globalLimit, globalActive, chains, clients, degraded>>

IntervalElapses(c) ==
    /\ chains[c].limit # 0 /\ ~chains[c].due
    /\ chains' = [chains EXCEPT ![c].due = TRUE]
    /\ UNCHANGED <<globalLimit, globalActive, global, clients, degraded>>

\* From here on every query succeeds within the target latency.
ProvidersRecover ==
    /\ degraded /\ degraded' = FALSE
    /\ UNCHANGED <<limits, clients>>

ClientStep(k) ==
    \/ Call(k) \/ Acquire(k) \/ Wake(k) \/ DeadlinePasses(k) \/ Cancel(k)
    \/ retryAfter(k) \/ Release(k)

Next ==
    \/ \E k \in Clients : ClientStep(k)
    \/ \E c \in ChainNames : Register(c) \/ IntervalElapses(c)
    \/ GlobalIntervalElapses \/ ProvidersRecover

Spec == Init /\ [][Next]_vars

\* A goroutine inside Acquire is scheduled, its timers fire and its deadline
\* comes; intervals elapse.  Nothing is assumed of callers or providers.
FairSpec ==
    /\ Spec
    /\ \A k \in Clients :
         /\ WF_vars(Acquire(k)) /\ WF_vars(Wake(k))
         /\ WF_vars(DeadlinePasses(k)) /\ WF_vars(retryAfter(k))
    /\ WF_vars(GlobalIntervalElapses)
    /\ \A c \in ChainNames : WF_vars(IntervalElapses(c))

-----------------------------------------------------------------------------
(* Properties *)

ChainStates == [limit : 0 .. ClampMax, active : Nat, samples : 0 .. MinSamples,
                failed : BOOLEAN, ewma : Nat, due : BOOLEAN]

(* Every variable holds a value its Go type and the clamps of New allow.   *)
TypeOK ==
    /\ globalLimit \in 0 .. ClampMax /\ globalActive \in Nat
    /\ global \in ChainStates
    /\ chains \in [ChainNames -> ChainStates]
    /\ pc \in [Clients -> {"idle", "trying", "sleeping", "denied", "holding"}]
    /\ at \in [Clients -> ChainNames \cup {NoChain}]
    /\ expired \in [Clients -> BOOLEAN]
    /\ degraded \in BOOLEAN
    /\ \A k \in Clients : pc[k] # "idle" => at[k] \in ChainNames

Holders == {k \in Clients : pc[k] = "holding"}
HoldersOf(c) == {k \in Holders : at[k] = c}

(* No slot leaks and none is freed twice: the counters are the numbers of  *)
(* requests between Acquire and release, in total and per chain, although  *)
(* release lowers them only if they are positive and chains come and go.   *)
SlotsAccounted ==
    /\ globalActive = Cardinality(Holders)
    /\ \A c \in ChainNames : chains[c].active = Cardinality(HoldersOf(c))

(* However often limits were halved, a chain without a request in flight   *)
(* gets the next one granted as soon as any request may be granted, and    *)
(* that is the case when nothing is in flight: an adjustment can never     *)
(* shut a chain or the service for good.                                   *)
NeverLockedOut ==
    \A c \in ChainNames :
        /\ HoldersOf(c) = {} /\ globalActive < globalLimit => Room(c)
        /\ Holders = {} => Room(c)

(* The limiter is an InFlight of size API_MAX_IN_FLIGHT: a client that     *)
(* polls, sleeps or is about to be denied is pending.                      *)
Caller == [k \in Clients |->
            IF pc[k] = "idle" THEN "idle"
            ELSE IF pc[k] = "holding" THEN "granted" ELSE "pending"]
Abstract == INSTANCE InFlight WITH Max <- ClampMax, caller <- Caller
ImplementsInFlight == Abstract!Spec

(* Acquire "waiting briefly for capacity": every call of it returns, if    *)
(* the slots it polls for never become free too.                           *)
AcquireReturns ==
    \A k \in Clients :
        pc[k] \in {"trying", "sleeping", "denied"} ~> pc[k] \in {"idle", "holding"}

(* README "adapts from latency and retryable errors up to                  *)
(* API_MAX_IN_FLIGHT": once the providers are well again, and as long as   *)
(* requests keep completing, the limits climb back to the maximum and stay *)
(* there, whatever failures and latencies are still in the statistics.     *)
RecoversUnderLoad ==
    <>(~degraded) =>
        /\ []<><<\E k \in Clients : Release(k)>>_vars =>
             <>[](globalLimit = ClampMax)
        /\ \A c \in ChainNames :
             []<><<\E k \in Clients : at[k] = c /\ Release(k)>>_vars =>
               <>[](chains[c].limit = ClampMax)
=============================================================================
