--------------------------- MODULE LimiterProofs ----------------------------
(***************************************************************************)
(* Proofs about Limiter, for any number of clients and chains and any      *)
(* configuration: the slots are accounted for, no adjustment shuts the     *)
(* service, and the limiter implements InFlight.                           *)
(***************************************************************************)
EXTENDS Limiter, FiniteSetTheorems, TLAPS

\* globalLimit is the limit of the global state, it is never below 1, and a
\* chain that is not in the map has nothing in flight.
LimitsOK ==
    /\ globalLimit >= 1 /\ global.limit = globalLimit
    /\ \A c \in ChainNames : chains[c].limit = 0 => chains[c].active = 0

\* The inductive invariant.
IInv == TypeOK /\ LimitsOK /\ SlotsAccounted

-----------------------------------------------------------------------------
(* The operators of the model *)

(* New clamps the configuration to 1 <= initial <= max.                    *)
LEMMA Clamps ==
    /\ ClampMax \in Nat /\ ClampMax >= 1
    /\ ClampInitial \in 1 .. ClampMax
  BY ConfigAssumption DEF ClampMax, ClampInitial

(* A fresh chainState has the type of one.                                 *)
LEMMA FreshType ==
    ASSUME NEW n \in 0 .. ClampMax
    PROVE  /\ chainState(n) \in ChainStates
           /\ chainState(n).limit = n /\ chainState(n).active = 0
  BY ConfigAssumption, Clamps DEF chainState, ChainStates

(* l.chain(name) returns a state with a limit of at least 1 and the        *)
(* counters of the map.                                                    *)
LEMMA ChainLookup ==
    ASSUME TypeOK, LimitsOK, NEW c \in ChainNames
    PROVE  /\ chain(c) \in ChainStates
           /\ chain(c).limit \in 1 .. ClampMax
           /\ chain(c).active = chains[c].active
  <1>1. chains[c] \in ChainStates /\ globalLimit \in 0 .. ClampMax /\ globalLimit >= 1
    BY DEF TypeOK, LimitsOK
  <1>2. CASE chains[c].limit = 0
    BY <1>1, <1>2, FreshType, Clamps DEF chain, LimitsOK
  <1>3. CASE chains[c].limit # 0
    BY <1>1, <1>3, Clamps DEF chain, ChainStates
  <1> QED
    BY <1>2, <1>3

(* The new limit of adjust stays between 1 and the hard cap.               *)
LEMMA NewLimitRange ==
    ASSUME NEW s \in ChainStates, s.limit >= 1
    PROVE  NewLimit(s) \in 1 .. ClampMax
  <1>1. s.limit \in 1 .. ClampMax
    BY Clamps DEF ChainStates
  <1>2. Halved(s.limit) \in 1 .. ClampMax
    BY <1>1, Clamps DEF Halved
  <1>3. Raised(s.limit) \in 1 .. ClampMax
    BY <1>1, Clamps DEF Raised
  <1> QED
    BY <1>1, <1>2, <1>3 DEF NewLimit

(* updateStats leaves the limit and the slots of a state alone.            *)
LEMMA UpdateStatsType ==
    ASSUME NEW s \in ChainStates, NEW retryable \in BOOLEAN, NEW latency \in Nat
    PROVE  /\ updateStats(s, retryable, latency) \in ChainStates
           /\ updateStats(s, retryable, latency).limit = s.limit
           /\ updateStats(s, retryable, latency).active = s.active
  <1>1. (IF s.samples < MinSamples THEN s.samples + 1 ELSE s.samples) \in 0 .. MinSamples
    BY ConfigAssumption DEF ChainStates
  <1>2. (IF s.ewma = 0 THEN latency ELSE (s.ewma * 4 + latency) \div 5) \in Nat
    BY DEF ChainStates
  <1>3. (s.failed \/ retryable) \in BOOLEAN
    OBVIOUS
  <1> QED
    BY <1>1, <1>2, <1>3 DEF updateStats, ChainStates

(* adjust keeps a limit between 1 and the hard cap, and the slots.         *)
LEMMA AdjustType ==
    ASSUME NEW s \in ChainStates, s.limit >= 1
    PROVE  /\ adjust(s) \in ChainStates
           /\ adjust(s).limit \in 1 .. ClampMax
           /\ adjust(s).active = s.active
           /\ ~AdjustDue(s) => adjust(s).limit = s.limit
  <1>1. NewLimit(s) \in 1 .. ClampMax /\ NewLimit(s) \in 0 .. ClampMax
    BY NewLimitRange, Clamps
  <1>2. CASE AdjustDue(s)
    <2>1. adjust(s) = [s EXCEPT !.limit = NewLimit(s), !.samples = 0, !.failed = FALSE,
                                !.due = FALSE]
      BY <1>2 DEF adjust, FailureReset
    <2>2. 0 \in 0 .. MinSamples
      BY ConfigAssumption
    <2> QED
      BY <1>1, <1>2, <2>1, <2>2 DEF ChainStates
  <1>3. CASE ~AdjustDue(s)
    BY <1>3, Clamps DEF adjust, ChainStates
  <1> QED
    BY <1>2, <1>3

(* The holders are finitely many clients.                                  *)
LEMMA HoldersFinite ==
    /\ IsFiniteSet(Holders) /\ Cardinality(Holders) \in Nat
    /\ \A c : IsFiniteSet(HoldersOf(c)) /\ Cardinality(HoldersOf(c)) \in Nat
  <1>1. IsFiniteSet(Holders)
    BY ClientsAssumption, FS_Subset DEF Holders
  <1>2. \A c : IsFiniteSet(HoldersOf(c))
    BY <1>1, FS_Subset DEF HoldersOf
  <1> QED
    BY <1>1, <1>2, FS_CardinalityType

-----------------------------------------------------------------------------
(* Steps *)

(* A step that changes neither holders nor counters keeps the accounts.    *)
LEMMA SlotsFrame ==
    ASSUME SlotsAccounted, globalActive' = globalActive,
           \A c \in ChainNames : chains'[c].active = chains[c].active,
           \A k \in Clients : pc'[k] = "holding" <=> pc[k] = "holding",
           \A k \in Clients : pc[k] = "holding" => at'[k] = at[k]
    PROVE  SlotsAccounted'
  <1>1. Holders' = Holders
    BY DEF Holders
  <1>2. \A c \in ChainNames : HoldersOf(c)' = HoldersOf(c)
    BY <1>1 DEF HoldersOf, Holders
  <1> QED
    BY <1>1, <1>2 DEF SlotsAccounted

(* Looking up a chain in the map may create it, and changes nothing else.  *)
LEMMA LookupStep ==
    ASSUME IInv, NEW c \in ChainNames, chains' = [chains EXCEPT ![c] = chain(c)]
    PROVE  /\ chains' \in [ChainNames -> ChainStates]
           /\ \A d \in ChainNames : chains'[d].active = chains[d].active
           /\ \A d \in ChainNames : chains'[d].limit = 0 => chains'[d].active = 0
  <1>1. chain(c) \in ChainStates /\ chain(c).limit \in 1 .. ClampMax /\ chain(c).active = chains[c].active
    BY ChainLookup DEF IInv
  <1>2. chains \in [ChainNames -> ChainStates]
    BY DEF IInv, TypeOK
  <1> HIDE DEF chain
  <1> QED
    BY <1>1, <1>2, Clamps DEF IInv, LimitsOK

(* The limiter as New builds it satisfies the invariant.                   *)
LEMMA InvInit == Init => IInv
  <1> SUFFICES ASSUME Init PROVE IInv
    OBVIOUS
  <1>0. 0 \in 0 .. ClampMax /\ ClampInitial \in 0 .. ClampMax
    BY Clamps
  <1>1. chainState(ClampInitial) \in ChainStates /\ Absent \in ChainStates
        /\ chainState(ClampInitial).limit = ClampInitial
        /\ Absent.active = 0
    BY <1>0, FreshType DEF Absent
  <1>2. TypeOK
    BY <1>0, <1>1 DEF Init, TypeOK
  <1>3. LimitsOK
    BY <1>1, Clamps DEF Init, LimitsOK
  <1>4. Holders = {} /\ \A c \in ChainNames : HoldersOf(c) = {}
    BY DEF Init, Holders, HoldersOf
  <1>5. SlotsAccounted
    BY <1>1, <1>4, FS_EmptySet DEF Init, SlotsAccounted
  <1> QED
    BY <1>2, <1>3, <1>5 DEF IInv

(* One turn of Acquire keeps the invariant: a granted slot is counted in   *)
(* both counters and held by its client.                                   *)
LEMMA AcquireInv ==
    ASSUME IInv, NEW k \in Clients, Acquire(k)
    PROVE  IInv'
  <1>0. at[k] \in ChainNames /\ pc[k] = "trying"
    BY DEF IInv, TypeOK, Acquire
  <1> DEFINE s == chain(at[k])
  <1>1. s \in ChainStates /\ s.limit \in 1 .. ClampMax /\ s.active = chains[at[k]].active
    BY <1>0, ChainLookup DEF IInv
  <1>2. CASE ~Room(at[k])
    <2>1. chains' = [chains EXCEPT ![at[k]] = s] /\ globalActive' = globalActive
      BY <1>2 DEF Acquire
    <2>2. pc' = [pc EXCEPT ![k] = "denied"] \/ pc' = [pc EXCEPT ![k] = "sleeping"]
      BY <1>2 DEF Acquire, Goto
    <2>3. /\ chains' \in [ChainNames -> ChainStates]
          /\ \A d \in ChainNames : chains'[d].active = chains[d].active
          /\ \A d \in ChainNames : chains'[d].limit = 0 => chains'[d].active = 0
      BY <1>0, <2>1, LookupStep
    <2>4. TypeOK'
      BY <1>0, <2>1, <2>2, <2>3 DEF IInv, TypeOK, Acquire
    <2>5. LimitsOK'
      BY <2>3 DEF IInv, LimitsOK, Acquire
    <2>6. SlotsAccounted'
      <3>1. /\ \A j \in Clients : pc'[j] = "holding" <=> pc[j] = "holding"
            /\ \A j \in Clients : pc[j] = "holding" => at'[j] = at[j]
        BY <1>0, <2>2 DEF IInv, TypeOK, Acquire
      <3> QED
        BY <2>1, <2>3, <3>1, SlotsFrame DEF IInv
    <2> QED
      BY <2>4, <2>5, <2>6 DEF IInv
  <1>3. CASE Room(at[k])
    <2> DEFINE t == [s EXCEPT !.active = @ + 1]
    <2>1. /\ chains' = [chains EXCEPT ![at[k]] = t] /\ globalActive' = globalActive + 1
          /\ pc' = [pc EXCEPT ![k] = "holding"]
      BY <1>3 DEF Acquire, Goto
    <2>2. t \in ChainStates /\ t.limit \in 1 .. ClampMax /\ t.active = chains[at[k]].active + 1
      BY <1>1 DEF ChainStates
    <2> HIDE DEF s, t
    <2>3. /\ chains' \in [ChainNames -> ChainStates] /\ chains'[at[k]] = t
          /\ \A d \in ChainNames : d # at[k] => chains'[d] = chains[d]
      BY <1>0, <2>1, <2>2 DEF IInv, TypeOK
    <2>4. TypeOK'
      BY <1>0, <2>1, <2>3 DEF IInv, TypeOK, Acquire
    <2>5. LimitsOK'
      BY <2>2, <2>3, Clamps DEF IInv, LimitsOK, Acquire
    <2>6. Holders' = Holders \cup {k} /\ k \notin Holders
      BY <1>0, <2>1 DEF Holders, IInv, TypeOK
    <2>7. PICK c \in ChainNames : c = at[k]
      BY <1>0
    <2>8. HoldersOf(c)' = HoldersOf(c) \cup {k} /\ k \notin HoldersOf(c)
          /\ \A d \in ChainNames : d # c => HoldersOf(d)' = HoldersOf(d)
      BY <2>6, <2>7 DEF HoldersOf, Acquire
    <2>9. SlotsAccounted'
      <3>1. Cardinality(Holders') = Cardinality(Holders) + 1
        BY <2>6, HoldersFinite, FS_AddElement
      <3>2. Cardinality(HoldersOf(c)') = Cardinality(HoldersOf(c)) + 1
        BY <2>8, HoldersFinite, FS_AddElement
      <3>3. ASSUME NEW d \in ChainNames PROVE chains'[d].active = Cardinality(HoldersOf(d)')
        <4>1. CASE d = c
          BY <4>1, <2>2, <2>3, <2>7, <3>2 DEF IInv, SlotsAccounted
        <4>2. CASE d # c
          BY <4>2, <2>3, <2>7, <2>8 DEF IInv, SlotsAccounted
        <4> QED
          BY <4>1, <4>2
      <3> QED
        BY <2>1, <3>1, <3>3 DEF IInv, SlotsAccounted
    <2> QED
      BY <2>4, <2>5, <2>9 DEF IInv
  <1> QED
    BY <1>2, <1>3

(* release keeps the invariant: the slot that is freed is the one its      *)
(* client held, the counters it lowers are positive, and both limits stay  *)
(* within the cap.                                                         *)
LEMMA ReleaseInv ==
    ASSUME IInv, NEW k \in Clients, Release(k)
    PROVE  IInv'
  <1>0. PICK c \in ChainNames : c = at[k]
    BY DEF IInv, TypeOK, Release
  <1>1. PICK retryable \in BOOLEAN, latency \in Latencies : release(k, retryable, latency)
    BY DEF Release
  <1>2. latency \in Nat
    BY ConfigAssumption
  <1> DEFINE g == updateStats(global, retryable, latency)
  <1> DEFINE f == [chain(c) EXCEPT !.active = SlotFreed(@)]
  <1> DEFINE s == updateStats(f, retryable, latency)
  <1>3. /\ globalActive' = SlotFreed(globalActive)
        /\ global' = adjust(g)
        /\ globalLimit' = IF AdjustDue(g) THEN adjust(g).limit ELSE globalLimit
        /\ chains' = [chains EXCEPT ![c] = adjust(s)]
    BY <1>0, <1>1 DEF release
  <1>4. /\ pc' = [pc EXCEPT ![k] = "idle"] /\ at' = [at EXCEPT ![k] = NoChain]
        /\ expired' = [expired EXCEPT ![k] = FALSE] /\ degraded' = degraded
    BY DEF Release, Return, Goto
  <1>5. pc[k] = "holding"
    BY DEF Release
  <1>6. g \in ChainStates /\ g.limit = globalLimit /\ g.limit >= 1
    BY <1>2, UpdateStatsType DEF IInv, TypeOK, LimitsOK
  <1>7. /\ adjust(g) \in ChainStates /\ adjust(g).limit \in 1 .. ClampMax
        /\ ~AdjustDue(g) => adjust(g).limit = globalLimit
    BY <1>6, AdjustType
  <1>8. /\ chain(c) \in ChainStates /\ chain(c).limit \in 1 .. ClampMax
        /\ chain(c).active = chains[c].active
    BY ChainLookup DEF IInv
  <1>9. f \in ChainStates /\ f.limit = chain(c).limit /\ f.active = SlotFreed(chains[c].active)
    BY <1>8 DEF ChainStates, SlotFreed
  <1>10. s \in ChainStates /\ s.limit = chain(c).limit /\ s.active = SlotFreed(chains[c].active)
    <2> HIDE DEF f
    <2> QED
      BY <1>2, <1>9, UpdateStatsType
  <1>11. /\ adjust(s) \in ChainStates /\ adjust(s).limit \in 1 .. ClampMax
         /\ adjust(s).active = SlotFreed(chains[c].active)
    <2>1. s.limit >= 1
      BY <1>8, <1>10, Clamps
    <2> HIDE DEF s
    <2> QED
      BY <1>10, <2>1, AdjustType
  <1> HIDE DEF g, f, s
  <1>12. /\ chains' \in [ChainNames -> ChainStates] /\ chains'[c] = adjust(s)
         /\ \A d \in ChainNames : d # c => chains'[d] = chains[d]
    BY <1>3, <1>11 DEF IInv, TypeOK
  <1>13. globalActive \in Nat /\ chains[c].active \in Nat
    BY DEF IInv, TypeOK, ChainStates
  <1>14. Holders' = Holders \ {k} /\ k \in Holders
    BY <1>4, <1>5 DEF Holders, IInv, TypeOK
  <1>15. /\ HoldersOf(c)' = HoldersOf(c) \ {k} /\ k \in HoldersOf(c)
         /\ \A d \in ChainNames : d # c => HoldersOf(d)' = HoldersOf(d)
    BY <1>0, <1>4, <1>14 DEF HoldersOf, Holders, IInv, TypeOK
  <1>16. /\ Cardinality(Holders') = Cardinality(Holders) - 1
         /\ Cardinality(HoldersOf(c)') = Cardinality(HoldersOf(c)) - 1
    BY <1>14, <1>15, HoldersFinite, FS_RemoveElement
  <1>17. Cardinality(Holders') \in Nat /\ Cardinality(HoldersOf(c)') \in Nat
    BY <1>14, <1>15, HoldersFinite, FS_RemoveElement, FS_CardinalityType
  <1>18. globalActive' = Cardinality(Holders') /\ adjust(s).active = Cardinality(HoldersOf(c)')
    BY <1>3, <1>11, <1>13, <1>16, <1>17 DEF IInv, SlotsAccounted, SlotFreed
  <1>19. SlotsAccounted'
    <2>1. ASSUME NEW d \in ChainNames PROVE chains'[d].active = Cardinality(HoldersOf(d)')
      <3>1. CASE d = c
        BY <3>1, <1>12, <1>18
      <3>2. CASE d # c
        BY <3>2, <1>12, <1>15 DEF IInv, SlotsAccounted
      <3> QED
        BY <3>1, <3>2
    <2> QED
      BY <1>18, <2>1 DEF SlotsAccounted
  <1>20. LimitsOK'
    <2>1. globalLimit' >= 1 /\ global'.limit = globalLimit'
      BY <1>3, <1>7, Clamps DEF IInv, LimitsOK
    <2>2. \A d \in ChainNames : chains'[d].limit = 0 => chains'[d].active = 0
      BY <1>11, <1>12, Clamps DEF IInv, LimitsOK
    <2> QED
      BY <2>1, <2>2 DEF LimitsOK
  <1>21. TypeOK'
    <2>1. globalLimit' \in 0 .. ClampMax /\ globalActive' \in Nat /\ global' \in ChainStates
      BY <1>3, <1>7, <1>17, <1>18, Clamps DEF IInv, TypeOK
    <2> QED
      BY <1>4, <1>12, <2>1 DEF IInv, TypeOK
  <1> QED
    BY <1>19, <1>20, <1>21 DEF IInv

(* A call, a wake-up, a deadline and a cancellation touch no counter.      *)
LEMMA WaitInv ==
    ASSUME IInv, NEW k \in Clients, Call(k) \/ Wake(k) \/ DeadlinePasses(k) \/ Cancel(k)
    PROVE  IInv'
  <1>1. UNCHANGED limits
    BY DEF Call, Wake, DeadlinePasses, Cancel
  <1>2. TypeOK'
    BY <1>1 DEF IInv, TypeOK, limits, Call, Wake, DeadlinePasses, Cancel, Goto
  <1>3. /\ \A j \in Clients : pc'[j] = "holding" <=> pc[j] = "holding"
        /\ \A j \in Clients : pc[j] = "holding" => at'[j] = at[j]
    BY DEF IInv, TypeOK, Call, Wake, DeadlinePasses, Cancel, Goto
  <1>4. SlotsAccounted'
    BY <1>1, <1>3, SlotsFrame DEF IInv, limits
  <1> QED
    BY <1>1, <1>2, <1>4 DEF IInv, LimitsOK, limits

(* A denied call creates its chain, if need be, and returns.               *)
LEMMA RetryAfterInv ==
    ASSUME IInv, NEW k \in Clients, retryAfter(k)
    PROVE  IInv'
  <1>0. at[k] \in ChainNames /\ pc[k] = "denied"
    BY DEF IInv, TypeOK, retryAfter
  <1>1. /\ chains' \in [ChainNames -> ChainStates]
        /\ \A d \in ChainNames : chains'[d].active = chains[d].active
        /\ \A d \in ChainNames : chains'[d].limit = 0 => chains'[d].active = 0
    BY <1>0, LookupStep DEF retryAfter
  <1>2. TypeOK'
    BY <1>1 DEF IInv, TypeOK, retryAfter, Return, Goto
  <1>3. /\ \A j \in Clients : pc'[j] = "holding" <=> pc[j] = "holding"
        /\ \A j \in Clients : pc[j] = "holding" => at'[j] = at[j]
    BY <1>0 DEF IInv, TypeOK, retryAfter, Return, Goto
  <1>4. SlotsAccounted'
    BY <1>1, <1>3, SlotsFrame DEF IInv, retryAfter
  <1> QED
    BY <1>1, <1>2, <1>4 DEF IInv, LimitsOK, retryAfter

(* Registering a chain, the passing of time and the recovery of the        *)
(* providers touch no counter.                                             *)
LEMMA EnvironmentInv ==
    ASSUME IInv,
           \/ \E c \in ChainNames : Register(c) \/ IntervalElapses(c)
           \/ GlobalIntervalElapses \/ ProvidersRecover
    PROVE  IInv'
  <1>1. UNCHANGED clients /\ globalActive' = globalActive /\ globalLimit' = globalLimit
    BY DEF Register, IntervalElapses, GlobalIntervalElapses, ProvidersRecover, limits
  <1>2. global' \in ChainStates /\ global'.limit = global.limit /\ degraded' \in BOOLEAN
    BY DEF IInv, TypeOK, ChainStates, Register, IntervalElapses, GlobalIntervalElapses,
       ProvidersRecover, limits
  <1>3. /\ chains' \in [ChainNames -> ChainStates]
        /\ \A d \in ChainNames : chains'[d].active = chains[d].active
        /\ \A d \in ChainNames : chains'[d].limit = 0 => chains'[d].active = 0
    <2>1. ASSUME NEW c \in ChainNames, Register(c) PROVE <1>3!:
      BY <2>1, LookupStep DEF Register
    <2>2. ASSUME NEW c \in ChainNames, IntervalElapses(c) PROVE <1>3!:
      BY <2>2 DEF IInv, TypeOK, LimitsOK, ChainStates, IntervalElapses
    <2>3. CASE GlobalIntervalElapses \/ ProvidersRecover
      BY <2>3 DEF IInv, TypeOK, LimitsOK, GlobalIntervalElapses, ProvidersRecover, limits
    <2> QED
      BY <2>1, <2>2, <2>3
  <1>4. TypeOK'
    BY <1>1, <1>2, <1>3 DEF IInv, TypeOK, clients
  <1>5. SlotsAccounted'
    BY <1>1, <1>3, SlotsFrame DEF IInv, clients
  <1> QED
    BY <1>1, <1>2, <1>3, <1>4, <1>5 DEF IInv, LimitsOK

(* Every step keeps the inductive invariant.                               *)
LEMMA InvNext == IInv /\ [Next]_vars => IInv'
  <1> SUFFICES ASSUME IInv, [Next]_vars PROVE IInv'
    OBVIOUS
  <1>1. ASSUME NEW k \in Clients, ClientStep(k) PROVE IInv'
    BY <1>1, WaitInv, AcquireInv, RetryAfterInv, ReleaseInv DEF ClientStep
  <1>2. CASE UNCHANGED vars
    <2>1. TypeOK' /\ LimitsOK'
      BY <1>2 DEF IInv, TypeOK, LimitsOK, vars, limits, clients
    <2>2. SlotsAccounted'
      BY <1>2, SlotsFrame DEF IInv, vars, limits, clients
    <2> QED
      BY <2>1, <2>2 DEF IInv
  <1> QED
    BY <1>1, <1>2, EnvironmentInv DEF Next

(* The inductive invariant holds in every reachable state.                 *)
LEMMA Invariance == Spec => []IInv
  BY InvInit, InvNext, PTL DEF Spec

-----------------------------------------------------------------------------
(* Theorems *)

(* The limiter's counters and limits have their types in every state.      *)
THEOREM LimiterTypes == Spec => []TypeOK
  <1>1. IInv => TypeOK
    BY DEF IInv
  <1> QED
    BY <1>1, Invariance, PTL

(* Acquire and release keep the counters equal to the numbers of requests  *)
(* in flight, in total and per chain.                                      *)
THEOREM NoSlotLeaks == Spec => []SlotsAccounted
  <1>1. IInv => SlotsAccounted
    BY DEF IInv
  <1> QED
    BY <1>1, Invariance, PTL

(* No sequence of adjustments shuts a chain or the service for good.       *)
THEOREM ServiceStaysOpen == Spec => []NeverLockedOut
  <1>1. IInv => NeverLockedOut
    <2> SUFFICES ASSUME IInv, NEW c \in ChainNames
                 PROVE  /\ HoldersOf(c) = {} /\ globalActive < globalLimit => Room(c)
                        /\ Holders = {} => Room(c)
      BY DEF NeverLockedOut
    <2>1. chain(c).limit \in 1 .. ClampMax /\ chain(c).active = Cardinality(HoldersOf(c))
      BY ChainLookup DEF IInv, SlotsAccounted
    <2>2. HoldersOf(c) = {} => chain(c).active < chain(c).limit
      BY <2>1, FS_EmptySet, Clamps
    <2>3. Holders = {} => HoldersOf(c) = {} /\ globalActive < globalLimit
      BY FS_EmptySet, Clamps DEF IInv, TypeOK, LimitsOK, SlotsAccounted, HoldersOf
    <2> QED
      BY <2>2, <2>3 DEF Room
  <1> QED
    BY <1>1, Invariance, PTL

-----------------------------------------------------------------------------
(* Refinement *)

(* A slot is granted only while fewer than Max requests are in flight.     *)
LEMMA RoomUnderCap ==
    ASSUME IInv, NEW c \in ChainNames, Room(c)
    PROVE  Cardinality(Holders) < ClampMax
  BY HoldersFinite, Clamps DEF IInv, TypeOK, SlotsAccounted, Room

(* The abstract set of requests in flight is the set of holders.           *)
LEMMA InFlightIsHolders == Abstract!InFlight = Holders
  BY DEF Abstract!InFlight, Caller, Holders

(* Cardinality means the same in both modules.                             *)
LEMMA SameCardinality ==
    ASSUME NEW S
    PROVE  Abstract!Cardinality(S) = Cardinality(S)
  BY DEF Abstract!Cardinality, Cardinality, Abstract!IsFiniteSet, IsFiniteSet

(* A step that moves one client's abstract state, or none.                 *)
LEMMA CallerStep ==
    ASSUME TypeOK, NEW k \in Clients, NEW w, pc' = [pc EXCEPT ![k] = w]
    PROVE  Caller' = [Caller EXCEPT ![k] = IF w = "idle" THEN "idle"
                                           ELSE IF w = "holding" THEN "granted" ELSE "pending"]
  BY DEF TypeOK, Caller

(* The steps of one client map to the steps of an InFlight caller.         *)
LEMMA ClientRefines ==
    ASSUME IInv, NEW k \in Clients, ClientStep(k)
    PROVE  Abstract!Next \/ UNCHANGED Caller
  <1>0. TypeOK
    BY DEF IInv
  <1>1. CASE Call(k)
    <2>0. pc[k] = "idle" /\ pc' = [pc EXCEPT ![k] = "trying"]
      BY <1>1 DEF Call, Goto
    <2>1. pc[k] = "idle" /\ Caller' = [Caller EXCEPT ![k] = "pending"]
      BY <1>0, <2>0 DEF TypeOK, Caller
    <2> QED
      BY <2>1 DEF Abstract!Next, Abstract!Call, Abstract!Become, Caller
  <1>2. CASE Acquire(k) /\ Room(at[k])
    <2>1. pc[k] = "trying" /\ Caller' = [Caller EXCEPT ![k] = "granted"]
      BY <1>0, <1>2, CallerStep DEF Acquire, Goto
    <2>2. Cardinality(Abstract!InFlight) < ClampMax
      <3>1. at[k] \in ChainNames
        BY <1>0, <2>1 DEF TypeOK
      <3> QED
        BY <1>2, <3>1, RoomUnderCap, InFlightIsHolders
    <2>3. Caller[k] = "pending"
      BY <2>1 DEF Caller
    <2>4. Abstract!Grant(k)
      BY <2>1, <2>2, <2>3, SameCardinality DEF Abstract!Grant, Abstract!Become
    <2> QED
      BY <2>4 DEF Abstract!Next
  <1>3. CASE Acquire(k) /\ ~Room(at[k])
    BY <1>0, <1>3 DEF Acquire, Goto, Caller, TypeOK
  <1>4. CASE Wake(k) \/ Cancel(k) \/ DeadlinePasses(k)
    BY <1>0, <1>4 DEF Wake, Cancel, DeadlinePasses, Goto, Caller, TypeOK
  <1>5. CASE retryAfter(k)
    <2>1. pc[k] = "denied" /\ Caller' = [Caller EXCEPT ![k] = "idle"]
      BY <1>0, <1>5, CallerStep DEF retryAfter, Return, Goto
    <2> QED
      BY <2>1 DEF Abstract!Next, Abstract!Deny, Abstract!Become, Caller
  <1>6. CASE Release(k)
    <2>1. pc[k] = "holding" /\ Caller' = [Caller EXCEPT ![k] = "idle"]
      BY <1>0, <1>6, CallerStep DEF Release, Return, Goto
    <2> QED
      BY <2>1 DEF Abstract!Next, Abstract!Finish, Abstract!Become, Caller
  <1> QED
    BY <1>1, <1>2, <1>3, <1>4, <1>5, <1>6 DEF ClientStep

(* The adaptive limiter implements the hard cap of InFlight, whatever      *)
(* outcomes it learns from.                                                *)
THEOREM Refinement == Spec => ImplementsInFlight
  <1>1. Init => Abstract!Init
    BY DEF Init, Abstract!Init, Caller
  <1>2. IInv /\ [Next]_vars => [Abstract!Next]_Caller
    <2> SUFFICES ASSUME IInv, [Next]_vars PROVE Abstract!Next \/ UNCHANGED Caller
      OBVIOUS
    <2>1. CASE \E k \in Clients : ClientStep(k)
      BY <2>1, ClientRefines
    <2>2. CASE ~\E k \in Clients : ClientStep(k)
      <3>1. pc' = pc
        BY <2>2 DEF Next, Register, IntervalElapses, GlobalIntervalElapses, ProvidersRecover,
           vars, clients
      <3> QED
        BY <3>1 DEF Caller
    <2> QED
      BY <2>1, <2>2
  <1> QED
    BY <1>1, <1>2, Invariance, PTL DEF Spec, ImplementsInFlight, Abstract!Spec
=============================================================================
