--------------------------- MODULE ServiceProofs ----------------------------
(***************************************************************************)
(* Proofs about Service, for any set of chains, replies, requests and any  *)
(* configuration that config.Load accepts.  Startup check and API use the  *)
(* limiter as Limiter specifies, so that what LimiterProofs shows of the   *)
(* limiter alone holds in the service.  What they store and answer is what *)
(* the nodes said, as far as the providers recognise it; no failure is     *)
(* lost; and the startup check uses all the slots it may.                  *)
(***************************************************************************)
EXTENDS Service, FiniteSetTheorems, TLAPS

LP == INSTANCE LimiterProofs WITH Clients <- ChainNames

(* A provider says of every error whether it is temporary.                 *)
LEMMA TemporaryType ==
    ASSUME NEW c \in ChainNames, NEW reply \in Replies
    PROVE  Check(c, reply).error.temporary \in BOOLEAN
  <1>1. request(c, reply).temporary \in BOOLEAN
    BY DEF request, providerError, NoError
  <1>2. CheckEVM(reply).error.temporary \in BOOLEAN
    BY DEF CheckEVM, Found, Failed, providerError, NoError
  <1>3. CheckSolana(reply).error.temporary \in BOOLEAN
    BY DEF CheckSolana, Found, Failed, providerError, NoError
  <1>4. CheckBTC(reply).error.temporary \in BOOLEAN /\ CheckTRON(reply).error.temporary \in BOOLEAN
    BY DEF CheckBTC, CheckTRON, Found, NoError
  <1>5. Failed(request(c, reply)).error.temporary \in BOOLEAN
    BY <1>1 DEF Failed
  <1>6. c \in EVMChains \/ c = ChainSolana \/ c = ChainBTC \/ c = ChainTRON
    BY ServiceAssumption DEF EVMChains, chainsFor, Chains, TypeEVM, TypeBTC, TypeSOL, TypeTRX
  <1> QED
    BY <1>1, <1>2, <1>3, <1>4, <1>5, <1>6 DEF Check

(* The end of a query, whatever the node answered, is a Release of the     *)
(* limiter: the slot is given back with the outcome.                       *)
LEMMA AnsweredReleases ==
    ASSUME NEW c \in ChainNames, NEW reply \in Replies, Answered(c, reply), degraded = TRUE
    PROVE  L!Release(c)
  <1>1. PICK latency \in Latencies : L!release(c, Check(c, reply).error.temporary, latency)
    BY DEF Answered, Released
  <1>2. L!Outcome(Check(c, reply).error.temporary, latency)
    BY DEF L!Outcome
  <1> QED
    BY <1>1, <1>2, TemporaryType DEF Answered, L!Release

(* Every step of the service is one of the limiter's specification or      *)
(* leaves the limiter alone.                                               *)
LEMMA StepRefines ==
    ASSUME Next, degraded = TRUE
    PROVE  [L!Next]_(L!vars) /\ degraded' = TRUE
  <1>1. CASE Startup \/ Exit \/ Signal \/ Stop
    BY <1>1 DEF Startup, Configured, InsertAddressesWithIDs, AllChecked, RunOnceReturns,
                Exit, Signal, Stop, limiterVars, L!vars, L!limits, L!clients
  <1>2. CASE IntervalElapses
    BY <1>2 DEF IntervalElapses, L!Next, L!GlobalIntervalElapses, L!IntervalElapses
  <1>3. ASSUME NEW c \in ChainNames, Goroutine(c) \/ Send(c) \/ GiveUp(c)
        PROVE  [L!Next]_(L!vars) /\ degraded' = TRUE
    <2>1. CASE Register(c)
      BY <2>1 DEF Register, L!Next, L!Register
    <2>2. CASE Begin(c)
      BY <2>2 DEF Begin, Call, L!Next, L!ClientStep, L!Call
    <2>3. CASE CheckDenied(c) \/ HandlerDenied(c)
      BY <2>3 DEF CheckDenied, HandlerDenied, L!Next, L!ClientStep, L!retryAfter
    <2>4. CASE CheckAnswered(c) \/ HandlerAnswered(c)
      <3>1. PICK reply \in Replies : Answered(c, reply)
        BY <2>4 DEF CheckAnswered, HandlerAnswered
      <3>2. L!Release(c)
        BY <3>1, AnsweredReleases
      <3> QED
        BY <3>2 DEF L!Next, L!ClientStep, L!Release
    <2>5. CASE SaveWalletBalanceCheck(c) \/ GiveUp(c)
      BY <2>5 DEF SaveWalletBalanceCheck, GiveUp, limiterVars, L!vars, L!limits, L!clients
    <2>6. CASE Within(L!Acquire(c)) \/ Within(L!Wake(c)) \/ Within(L!DeadlinePasses(c)) \/ Cancel(c)
      BY <2>6 DEF Within, Cancel, L!Next, L!ClientStep, L!Acquire, L!Wake, L!DeadlinePasses,
                  L!Cancel
    <2>7. CASE Send(c)
      BY <2>7 DEF Send, Call, limiterVars, L!Next, L!ClientStep, L!Call, L!vars, L!limits,
                  L!clients
    <2> QED
      BY <1>3, <2>1, <2>2, <2>3, <2>4, <2>5, <2>6, <2>7 DEF Goroutine
  <1> QED
    BY <1>1, <1>2, <1>3 DEF Next

(* The service implements the specification of the limiter: each path of a *)
(* query, of the startup check or of a handler, through an answer, a       *)
(* timeout, a denial or a vanished client, gives its slot back once.       *)
THEOREM UsesLimiter == Spec => ImplementsLimiter
  <1>1. Init => L!Init /\ degraded = TRUE
    BY DEF Init, L!Init
  <1>2. degraded = TRUE /\ [Next]_vars => [L!Next]_(L!vars) /\ (degraded = TRUE)'
    BY StepRefines DEF vars, limiterVars, L!vars, L!limits, L!clients
  <1> QED
    BY <1>1, <1>2, PTL DEF Spec, ImplementsLimiter, L!Spec

-----------------------------------------------------------------------------
(* What LimiterProofs shows of the limiter, carried over *)

(* The configurations config.Load accepts are ones of Limiter.             *)
LEMMA LimiterConfigured == LP!ConfigAssumption /\ LP!ClientsAssumption
  <1>1. LP!IsFiniteSet(ChainNames)
    <2>1. IsFiniteSet(Chains)
      <3>1. ASSUME NEW x, NEW y, NEW z
            PROVE  IsFiniteSet({x, y, z})
        <4>1. IsFiniteSet({x} \cup {y})
          BY FS_Singleton, FS_Union
        <4>2. IsFiniteSet(({x} \cup {y}) \cup {z})
          BY <4>1, FS_AddElement
        <4>3. {x, y, z} = ({x} \cup {y}) \cup {z}
          OBVIOUS
        <4> QED
          BY <4>2, <4>3
      <3>2. Chains = {ChainBTC, ChainEthereum, ChainArbitrum} \cup {ChainBSC, ChainSolana, ChainTRON}
        BY DEF Chains
      <3> QED
        BY <3>1, <3>2, FS_Union
    <2> QED
      BY <2>1, ServiceAssumption, FS_Subset DEF LP!IsFiniteSet, IsFiniteSet
  <1>2. MinSamples \in Nat \ {0}
    <2>1. IsFiniteSet(ChainNames)
      BY <1>1 DEF LP!IsFiniteSet, IsFiniteSet
    <2> QED
      BY <2>1, FS_CardinalityType, SamplesAssumption
  <1> QED
    BY <1>1, <1>2, LoadAssumption DEF Load, LP!ConfigAssumption, LP!ClientsAssumption

(* The limiter of LimiterProofs is the one of the service.                 *)
LEMMA SameLimiter == L!Spec => LP!Spec
  <1>1. L!Init => LP!Init
    BY DEF L!Init, LP!Init, L!ClampInitial, LP!ClampInitial, L!ClampMax, LP!ClampMax,
           L!Absent, LP!Absent, L!chainState, LP!chainState, L!NoChain, LP!NoChain
  <1>2. [L!Next]_(L!vars) => [LP!Next]_(LP!vars)
    BY DEF L!Next, LP!Next, L!ClientStep, LP!ClientStep, L!Call, LP!Call,
           L!Acquire, LP!Acquire, L!Wake, LP!Wake, L!DeadlinePasses, LP!DeadlinePasses,
           L!Cancel, LP!Cancel, L!retryAfter, LP!retryAfter, L!Release, LP!Release,
           L!Register, LP!Register, L!IntervalElapses, LP!IntervalElapses,
           L!GlobalIntervalElapses, LP!GlobalIntervalElapses,
           L!ProvidersRecover, LP!ProvidersRecover, L!vars, LP!vars, L!limits, LP!limits,
           L!clients, LP!clients, L!Goto, LP!Goto, L!Return, LP!Return, L!chain, LP!chain,
           L!chainState, LP!chainState, L!Room, LP!Room, L!WaitExpired, LP!WaitExpired,
           L!release, LP!release, L!updateStats, LP!updateStats, L!adjust, LP!adjust,
           L!AdjustDue, LP!AdjustDue, L!NewLimit, LP!NewLimit, L!Halved, LP!Halved,
           L!Raised, LP!Raised, L!FailureReset, LP!FailureReset, L!SlotFreed, LP!SlotFreed,
           L!Outcome, LP!Outcome, L!ClampMax, LP!ClampMax, L!NoChain, LP!NoChain
  <1> QED
    BY <1>1, <1>2, PTL DEF L!Spec, LP!Spec

(* No slot leaks and none is freed twice, whatever startup check, handlers,*)
(* clients and signals do.                                                 *)
THEOREM SlotsNeverLeak == Spec => []L!SlotsAccounted
  <1>1. LP!Spec => []LP!SlotsAccounted
    BY LimiterConfigured, LP!NoSlotLeaks DEF LP!ConfigAssumption, LP!ClientsAssumption
  <1>2. LP!SlotsAccounted => L!SlotsAccounted
    <2>1. LP!Holders = L!Holders
      BY DEF LP!Holders, L!Holders
    <2>2. \A c \in ChainNames : LP!HoldersOf(c) = L!HoldersOf(c)
      BY <2>1 DEF LP!HoldersOf, L!HoldersOf
    <2> QED
      BY <2>1, <2>2 DEF LP!SlotsAccounted, L!SlotsAccounted, L!Cardinality, LP!Cardinality
  <1> QED
    BY <1>1, <1>2, UsesLimiter, SameLimiter, PTL DEF ImplementsLimiter

(* Startup check and API never have more requests in flight than           *)
(* API_MAX_IN_FLIGHT.                                                      *)
THEOREM HardLimit == Spec => ImplementsInFlight
  <1>1. LP!Spec => LP!ImplementsInFlight
    BY LimiterConfigured, LP!Refinement DEF LP!ConfigAssumption, LP!ClientsAssumption
  <1>2. LP!Caller = L!Caller
    BY DEF LP!Caller, L!Caller
  <1>3. LP!Abstract!Init => L!Abstract!Init
    BY <1>2 DEF LP!Abstract!Init, L!Abstract!Init
  <1>4. [LP!Abstract!Next]_(LP!Caller) => [L!Abstract!Next]_(L!Caller)
    BY DEF LP!Abstract!Next, L!Abstract!Next, LP!Abstract!Call, L!Abstract!Call, LP!Abstract!Grant, L!Abstract!Grant,
           LP!Abstract!Deny, L!Abstract!Deny, LP!Abstract!Finish, L!Abstract!Finish, LP!Abstract!Become, L!Abstract!Become,
           LP!Abstract!InFlight, L!Abstract!InFlight, LP!Abstract!Cardinality, L!Abstract!Cardinality,
           LP!Caller, L!Caller, LP!ClampMax, L!ClampMax
  <1>5. LP!ImplementsInFlight => L!ImplementsInFlight
    BY <1>3, <1>4, PTL DEF LP!ImplementsInFlight, L!ImplementsInFlight, LP!Abstract!Spec,
                           L!Abstract!Spec
  <1> QED
    BY <1>1, <1>5, UsesLimiter, SameLimiter, PTL DEF ImplementsLimiter, ImplementsInFlight

-----------------------------------------------------------------------------
(* The inductive invariant of the service *)

\* Replies in which a provider does not recognise that the node gave no
\* balance: neither its response type nor its checks tell them from one.
Unrecognised(c) ==
    CASE c \in EVMChains -> {"empty", "below_zero"}
      [] c = ChainSolana -> {"empty"}
      [] c = ChainBTC -> {"empty", "below_zero", "rpc_error", "rpc_busy"}
      [] c = ChainTRON -> {"rpc_error", "rpc_busy"}

\* A row that claims a balance has it from the last reply of its node.
Backed(c, row) ==
    row.state = "checked" => Truthful(c, row) \/ said[c].kind \in Unrecognised(c)

\* Types, with replies of the kinds nodes give.
ServiceTypes ==
    /\ phase \in {"start", "insert", "query", "save", "serving", "stopped"}
    /\ cancelled \in BOOLEAN /\ firstSaveErr \in BOOLEAN
    /\ checks \in [ChainNames -> Rows] /\ stored \in SUBSET ChainNames
    /\ unsaved \in SUBSET ChainNames
    /\ results \in [ChainNames -> Rows] /\ exit \in {"none", "ok", "failed"}
    /\ said \in [ChainNames -> [kind : Kinds \cup {"none"}, after : Int]]

\* What each phase of runService leaves for the next one: rows are stored in
\* "save" only, and no request comes before the server listens.
PhaseInv ==
    /\ phase \in {"start", "insert", "query"} => unsaved = {} /\ stored = {} /\ ~firstSaveErr
    /\ phase = "save" /\ ~firstSaveErr => stored = ChainNames \ unsaved
    /\ phase \in {"start", "insert", "serving"} => \A c \in ChainNames : checks[c] = NoRow
    /\ phase \in {"start", "insert", "query", "save"} =>
         \A c \in ChainNames : results[c] = NoRow

\* A goroutine in the limiter or at a node asks for its own chain, and it has
\* not had its answer yet: said[c] changes for nobody else.
QueryInv(c) ==
    /\ pc[c] # "idle" => at[c] = c
    /\ phase \in {"start", "insert", "save"} => pc[c] = "idle"
    /\ phase = "query" /\ pc[c] # "idle" => checks[c] = NoRow
    /\ phase = "serving" /\ pc[c] # "idle" =>
         results[c] \in {Waiting, ClientError("connection_error")}

\* The hint of an answer covers what the node asked for.
HintInv(c) ==
    /\ results[c].code = "rate_limited" => results[c].hint * 1000 >= said[c].after
    /\ results[c].code \in {"rate_limited", "capacity_exhausted"} => results[c].hint > 0

RowInv(c) == Backed(c, checks[c]) /\ Backed(c, results[c]) /\ HintInv(c)

ExitInv == exit = "ok" => \A c \in ChainNames : results[c].state = "checked"

IInv ==
    /\ ServiceTypes /\ PhaseInv /\ ExitInv
    /\ \A c \in ChainNames : QueryInv(c) /\ RowInv(c)


-----------------------------------------------------------------------------
(* What providers return *)

\* The fields of an error the rows are made of have their types.
IsError(e) == e.code \in Codes /\ e.after \in Int

(* The fields of an error a provider makes.                                *)
LEMMA ErrorFacts ==
    ASSUME NEW code \in Codes, NEW temporary \in BOOLEAN
    PROVE  /\ IsError(providerError(code, temporary))
           /\ providerError(code, temporary).code = code
           /\ providerError(code, temporary).temporary = temporary
           /\ code # "" => providerError(code, temporary) # NoError
  <1>1. /\ providerError(code, temporary).code = code
        /\ providerError(code, temporary).after = 0
        /\ providerError(code, temporary).temporary = temporary
    BY DEF providerError, NoError
  <1>2. IsError(providerError(code, temporary))
    <2>1. providerError(code, temporary).code \in Codes
      BY <1>1
    <2>2. providerError(code, temporary).after \in Int
      BY <1>1
    <2> QED
      BY <2>1, <2>2 DEF IsError
  <1>3. code # "" => providerError(code, temporary) # NoError
    <2>1. NoError.code = ""
      BY DEF NoError
    <2> QED
      BY <1>1, <2>1
  <1> QED
    BY <1>1, <1>2, <1>3

(* What request returns, and which error it is.                            *)
LEMMA RequestFacts ==
    ASSUME NEW c, NEW reply \in Replies
    PROVE  /\ IsError(request(c, reply))
           /\ request(c, reply).code # "capacity_exhausted"
           /\ request(c, reply).code = "rate_limited" =>
                request(c, reply).temporary /\ request(c, reply).after = reply.after
           /\ request(c, reply) = NoError =>
                reply.kind \in {"positive", "zero", "below_zero", "empty", "rpc_error", "rpc_busy"}
           /\ request(c, reply) = NoError /\ c \in {ChainSolana, ChainTRON} =>
                reply.kind # "below_zero"
  <1>1. reply.kind \in ReplyKinds /\ reply.after \in Int
    <2>1. reply.after \in Afters \/ reply.after = 0
      BY DEF Replies
    <2>2. \A x \in Afters : x \in Int
      BY ServiceAssumption
    <2>3. reply.kind \in ReplyKinds
      BY ServiceAssumption DEF Replies
    <2> QED
      BY <2>1, <2>2, <2>3
  <1>3. IsError(NoError) /\ NoError.code = ""
    BY DEF NoError, IsError, Codes
  <1>5. CASE reply.kind = "rate_limited"
    <2> DEFINE e == [providerError("rate_limited", TRUE) EXCEPT !.after = reply.after]
    <2>1. request(c, reply) = e
      BY <1>5 DEF request, Decodes
    <2>2. IsError(e) /\ e.code = "rate_limited" /\ e.temporary = TRUE /\ e.after = reply.after
      BY <1>1 DEF IsError, Codes, providerError, NoError
    <2> QED
      BY <2>1, <2>2, <1>3
  <1>6. CASE reply.kind # "rate_limited"
    <2>1. \/ /\ request(c, reply) = NoError /\ Decodes(c, reply)
             /\ reply.kind \notin {"timeout", "disconnected", "http_5xx", "http_4xx"}
          \/ \E code \in {"timeout", "connection_error", "provider_unhealthy", "rpc_error",
                          "response_decode_error"}, temporary \in BOOLEAN :
               request(c, reply) = providerError(code, temporary)
      BY <1>6 DEF request, Decodes
    <2>2. CASE \E code \in {"timeout", "connection_error", "provider_unhealthy", "rpc_error",
                          "response_decode_error"}, temporary \in BOOLEAN :
               request(c, reply) = providerError(code, temporary)
      <3>1. PICK code \in {"timeout", "connection_error", "provider_unhealthy", "rpc_error",
                           "response_decode_error"}, temporary \in BOOLEAN :
                request(c, reply) = providerError(code, temporary)
        BY <2>2
      <3>2. code \in Codes /\ code # "" /\ code # "rate_limited" /\ code # "capacity_exhausted"
        BY DEF Codes
      <3> QED
        BY <3>1, <3>2, ErrorFacts
    <2>3. CASE /\ request(c, reply) = NoError /\ Decodes(c, reply)
               /\ reply.kind \notin {"timeout", "disconnected", "http_5xx", "http_4xx"}
      <3>1. reply.kind \in {"positive", "zero", "below_zero", "empty", "rpc_error", "rpc_busy"}
        BY <1>1, <1>6, <2>3 DEF ReplyKinds, Decodes
      <3> QED
        BY <3>1, <2>3, <1>3 DEF Decodes
    <2> QED
      BY <2>1, <2>2, <2>3
  <1> QED
    BY <1>5, <1>6

(* What a provider returns for any reply: an error whose code is not the   *)
(* limiter's and which carries the node's Retry-After, or a balance that   *)
(* the node gave, unless the reply is one the provider does not recognise. *)
LEMMA CheckFacts ==
    ASSUME NEW c \in ChainNames, NEW reply \in Replies
    PROVE  /\ IsError(Check(c, reply).error)
           /\ Check(c, reply).atomic \in Int
           /\ Check(c, reply).error.code # "capacity_exhausted"
           /\ Check(c, reply).error.code = "rate_limited" =>
                Check(c, reply).error.temporary /\ Check(c, reply).error.after = reply.after
           /\ Check(c, reply).error = NoError /\ reply.kind \notin Unrecognised(c) =>
                Says(c, reply) = IF Check(c, reply).atomic > 0 THEN "positive" ELSE "zero"
  <1> DEFINE e == request(c, reply)
  <1>1. c \in EVMChains \/ c = ChainSolana \/ c = ChainBTC \/ c = ChainTRON
    BY ServiceAssumption DEF EVMChains, chainsFor, Chains, TypeEVM, TypeBTC, TypeSOL, TypeTRX
  <1>2. /\ c \in EVMChains => c \notin {ChainSolana, ChainBTC, ChainTRON}
        /\ ChainSolana # ChainBTC /\ ChainSolana # ChainTRON /\ ChainBTC # ChainTRON
    BY DEF EVMChains, chainsFor, TypeEVM, TypeBTC, TypeSOL, TypeTRX, ChainEthereum,
           ChainArbitrum, ChainBSC, ChainBTC, ChainSolana, ChainTRON
  <1>3. CASE e # NoError
    <2>1. Check(c, reply) = Failed(e)
      BY <1>3 DEF Check
    <2>2. Failed(e).error = e /\ Failed(e).atomic = 0
      BY DEF Failed
    <2> QED
      BY <2>1, <2>2, <1>3, RequestFacts
  <1>4. CASE e = NoError
    <2>1. IsError(NoError) /\ NoError.code = ""
      BY DEF NoError, IsError, Codes
    <2>2. \A a : Found(a).error = NoError /\ Found(a).atomic = a
      BY DEF Found
    <2>3. ASSUME NEW temporary \in BOOLEAN
          PROVE  /\ IsError(Failed(providerError("rpc_error", temporary)).error)
                 /\ Failed(providerError("rpc_error", temporary)).error.code = "rpc_error"
                 /\ Failed(providerError("rpc_error", temporary)).atomic = 0
      BY ErrorFacts DEF Failed, Codes
    <2>4. /\ reply.kind \in {"positive", "zero", "below_zero", "empty", "rpc_error", "rpc_busy"}
          /\ c \in {ChainSolana, ChainTRON} => reply.kind # "below_zero"
      BY <1>4, RequestFacts
    <2>5. Atomic(reply) \in Int
      BY DEF Atomic
    <2>6. /\ reply.kind = "positive" => Atomic(reply) = 1
          /\ reply.kind = "below_zero" => Atomic(reply) = -1
          /\ reply.kind \notin {"positive", "below_zero"} => Atomic(reply) = 0
      BY DEF Atomic
    <2> DEFINE Balance == IF Check(c, reply).atomic > 0 THEN "positive" ELSE "zero"
    <2>a. ASSUME NEW temporary \in BOOLEAN,
                 Check(c, reply) = Failed(providerError("rpc_error", temporary))
          PROVE  /\ IsError(Check(c, reply).error) /\ Check(c, reply).atomic \in Int
                 /\ Check(c, reply).error.code = "rpc_error"
                 /\ Check(c, reply).error # NoError
      <3>1. /\ IsError(Check(c, reply).error) /\ Check(c, reply).atomic = 0
            /\ Check(c, reply).error.code = "rpc_error"
        <4>1. Check(c, reply).error = Failed(providerError("rpc_error", temporary)).error
              /\ Check(c, reply).atomic = Failed(providerError("rpc_error", temporary)).atomic
          BY <2>a
        <4> QED
          BY <4>1, <2>3
      <3>2. Check(c, reply).error # NoError
        BY <3>1, <2>1
      <3>3. Check(c, reply).atomic \in Int
        BY <3>1
      <3> QED
        BY <3>1, <3>2, <3>3
    <2>b. ASSUME NEW a \in Int, Check(c, reply) = Found(a)
          PROVE  /\ IsError(Check(c, reply).error) /\ Check(c, reply).atomic \in Int
                 /\ Check(c, reply).error.code = ""
                 /\ Check(c, reply).atomic = a
                 /\ Balance = IF a > 0 THEN "positive" ELSE "zero"
      BY <2>b, <2>1, <2>2
    <2>c. /\ reply.kind = "positive" => Says(c, reply) = "positive"
          /\ reply.kind = "zero" => Says(c, reply) = "zero"
          /\ reply.kind = "empty" /\ c = ChainTRON => Says(c, reply) = "zero"
      BY DEF Says
    <2>7. CASE c \in EVMChains
      <3>1. Check(c, reply) = CheckEVM(reply)
        BY <1>2, <1>4, <2>7 DEF Check
      <3>2. CASE ReportsError(reply)
        <4>1. Check(c, reply) = Failed(providerError("rpc_error", reply.kind = "rpc_busy"))
          BY <3>1, <3>2 DEF CheckEVM
        <4>2. (reply.kind = "rpc_busy") \in BOOLEAN
          OBVIOUS
        <4>3. /\ IsError(Check(c, reply).error) /\ Check(c, reply).atomic \in Int
              /\ Check(c, reply).error.code = "rpc_error"
              /\ Check(c, reply).error # NoError
          BY <4>1, <4>2, <2>a
        <4> QED
          BY <4>3
      <3>3. CASE ~ReportsError(reply)
        <4>1. Check(c, reply) = Found(Atomic(reply))
          BY <3>1, <3>3 DEF CheckEVM
        <4>2. Unrecognised(c) = {"empty", "below_zero"}
          BY <1>2, <2>7 DEF Unrecognised
        <4>3. /\ IsError(Check(c, reply).error) /\ Check(c, reply).atomic \in Int
              /\ Check(c, reply).error.code = ""
          BY <4>1, <2>5, <2>b
        <4>4. reply.kind \notin Unrecognised(c) => Says(c, reply) = Balance
          BY <4>1, <4>2, <3>3, <2>2, <2>4, <2>6, <2>c DEF ReportsError
        <4> QED
          BY <4>3, <4>4
      <3> QED
        BY <3>2, <3>3
    <2>8. CASE c = ChainSolana
      <3>1. Check(c, reply) = CheckSolana(reply)
        BY <1>2, <1>4, <2>8 DEF Check
      <3>2. CASE ReportsError(reply)
        <4>1. Check(c, reply) = Failed(providerError("rpc_error", TRUE))
          BY <3>1, <3>2 DEF CheckSolana
        <4>3. /\ IsError(Check(c, reply).error) /\ Check(c, reply).atomic \in Int
              /\ Check(c, reply).error.code = "rpc_error"
              /\ Check(c, reply).error # NoError
          BY <4>1, <2>a
        <4> QED
          BY <4>3
      <3>3. CASE ~ReportsError(reply)
        <4>1. Check(c, reply) = Found(Atomic(reply))
          BY <3>1, <3>3 DEF CheckSolana
        <4>2. Unrecognised(c) = {"empty"}
          BY <1>2, <2>8 DEF Unrecognised
        <4>3. /\ IsError(Check(c, reply).error) /\ Check(c, reply).atomic \in Int
              /\ Check(c, reply).error.code = ""
          BY <4>1, <2>5, <2>b
        <4>4. reply.kind \notin Unrecognised(c) => Says(c, reply) = Balance
          BY <4>1, <4>2, <3>3, <2>8, <2>2, <2>4, <2>6, <2>c DEF ReportsError
        <4> QED
          BY <4>3, <4>4
      <3> QED
        BY <3>2, <3>3
    <2>9. CASE c = ChainBTC
      <3>1. Check(c, reply) = Found(IF Atomic(reply) < 0 THEN 0 ELSE Atomic(reply))
        BY <1>2, <1>4, <2>9 DEF Check, CheckBTC
      <3>2. Unrecognised(c) = {"empty", "below_zero", "rpc_error", "rpc_busy"}
        BY <1>2, <2>9 DEF Unrecognised
      <3>3. /\ IsError(Check(c, reply).error) /\ Check(c, reply).atomic \in Int
            /\ Check(c, reply).error.code = ""
        <4>1. (IF Atomic(reply) < 0 THEN 0 ELSE Atomic(reply)) \in Int
          BY <2>5
        <4> QED
          BY <3>1, <4>1, <2>b
      <3>4. reply.kind \notin Unrecognised(c) => Says(c, reply) = Balance
        BY <3>1, <3>2, <2>2, <2>4, <2>6, <2>c
      <3> QED
        BY <3>3, <3>4
    <2>10. CASE c = ChainTRON
      <3>1. Check(c, reply) = Found(Atomic(reply))
        BY <1>2, <1>4, <2>10 DEF Check, CheckTRON
      <3>2. Unrecognised(c) = {"rpc_error", "rpc_busy"}
        BY <1>2, <2>10 DEF Unrecognised
      <3>3. /\ IsError(Check(c, reply).error) /\ Check(c, reply).atomic \in Int
            /\ Check(c, reply).error.code = ""
        BY <3>1, <2>5, <2>b
      <3>4. reply.kind \notin Unrecognised(c) => Says(c, reply) = Balance
        BY <3>1, <3>2, <2>10, <2>2, <2>4, <2>6, <2>c
      <3> QED
        BY <3>3, <3>4
    <2> QED
      BY <1>1, <2>7, <2>8, <2>9, <2>10
  <1> QED
    BY <1>3, <1>4

-----------------------------------------------------------------------------
(* Rows and answers *)

(* A result has the fields it is made of.                                  *)
LEMMA ResultType ==
    ASSUME NEW state \in {"none", "waiting", "checked", "retry", "rejected", "client_error"},
           NEW code \in Codes, NEW atomic \in Int, NEW hint \in Int
    PROVE  /\ Result(state, code, atomic, hint) \in Rows
           /\ Result(state, code, atomic, hint).state = state
           /\ Result(state, code, atomic, hint).code = code
           /\ Result(state, code, atomic, hint).atomic = atomic
           /\ Result(state, code, atomic, hint).hint = hint
  BY DEF Result, Rows

\* A row that makes no claim: no balance and no hint.
Silent(row) ==
    row.state # "checked" /\ row.code \notin {"rate_limited", "capacity_exhausted"}

(* The rows without an answer make no claim.                               *)
LEMMA SilentRows ==
    /\ NoRow \in Rows /\ Silent(NoRow) /\ NoRow.state = "none" /\ NoRow.code = ""
    /\ Waiting \in Rows /\ Silent(Waiting) /\ Waiting.state = "waiting"
    /\ ClientError("connection_error") \in Rows /\ Silent(ClientError("connection_error"))
    /\ ClientError("connection_error").state = "client_error"
    /\ NoRow # Waiting /\ NoRow # ClientError("connection_error")
  <1>1. /\ NoRow \in Rows /\ NoRow.state = "none" /\ NoRow.code = ""
        /\ Waiting \in Rows /\ Waiting.state = "waiting" /\ Waiting.code = ""
    BY DEF NoRow, Waiting, Result, Rows, Codes
  <1>2. /\ ClientError("connection_error") \in Rows
        /\ ClientError("connection_error").state = "client_error"
        /\ ClientError("connection_error").code = "connection_error"
    BY DEF ClientError, Result, Rows, Codes
  <1> QED
    BY <1>1, <1>2 DEF Silent

(* Retry-After in seconds covers the milliseconds it stands for.           *)
LEMMA SecondsFacts ==
    ASSUME NEW ms \in Int
    PROVE  /\ Seconds(ms) \in Int /\ Seconds(ms) * 1000 >= ms
           /\ ms > 0 => Seconds(ms) > 0
  BY DEF Seconds

(* A request that is not accepted gets a code that is not about a limit.   *)
LEMMA RejectionFacts ==
    ASSUME NEW r, NEW c
    PROVE  /\ Rejected(Rejection(r, c)) \in Rows
           /\ Rejected(Rejection(r, c)).state = "rejected"
           /\ Silent(Rejected(Rejection(r, c)))
  <1>1. Rejection(r, c) \in Codes \ {"rate_limited", "capacity_exhausted"}
    BY DEF Rejection, Codes
  <1> QED
    BY <1>1, ResultType DEF Rejected, Silent

(* What startup check and API make of a reply: a row with the node's       *)
(* balance, or an error with its code and a hint that covers Retry-After.  *)
LEMMA AnswerFacts ==
    ASSUME NEW c \in ChainNames, NEW reply \in Replies,
           NEW row \in {RowOf(Check(c, reply)), AnswerOf(Check(c, reply))}
    PROVE  /\ row \in Rows /\ row.state \in {"checked", "retry"}
           /\ row.code # "capacity_exhausted"
           /\ row.state = "checked" /\ reply.kind \notin Unrecognised(c) =>
                Says(c, reply) = IF row.atomic > 0 THEN "positive" ELSE "zero"
           /\ row = AnswerOf(Check(c, reply)) /\ row.code = "rate_limited" =>
                row.hint > 0 /\ row.hint * 1000 >= reply.after
  <1> DEFINE a == Check(c, reply)
  <1>1. /\ a.error.code \in Codes /\ a.error.after \in Int /\ a.atomic \in Int
        /\ a.error.code # "capacity_exhausted"
        /\ a.error.code = "rate_limited" => a.error.temporary /\ a.error.after = reply.after
        /\ a.error = NoError /\ reply.kind \notin Unrecognised(c) =>
             Says(c, reply) = IF a.atomic > 0 THEN "positive" ELSE "zero"
    BY CheckFacts DEF IsError
  <1> HIDE DEF a
  <1>2. /\ Checked(a.atomic) \in Rows /\ Checked(a.atomic).state = "checked"
        /\ Checked(a.atomic).code = "" /\ Checked(a.atomic).atomic = a.atomic
    <2>1. ASSUME NEW x \in Int
          PROVE  /\ Checked(x) \in Rows /\ Checked(x).state = "checked"
                 /\ Checked(x).code = "" /\ Checked(x).atomic = x
      BY DEF Checked, Result, Rows, Codes
    <2> QED
      BY <1>1, <2>1
  <1>3. ASSUME NEW code \in Codes, NEW hint \in Int
        PROVE  /\ Retry(code, hint) \in Rows /\ Retry(code, hint).state = "retry"
               /\ Retry(code, hint).code = code /\ Retry(code, hint).hint = hint
    BY ResultType DEF Retry
  <1>4. ASSUME NEW x \in Int
        PROVE  durationMillis(x) \in Int
    BY DEF durationMillis
  <1>5. CASE row # AnswerOf(a) /\ row = RowOf(a) /\ a.error # NoError
    <2>1. row = Retry(a.error.code, durationMillis(a.error.after))
      BY <1>5 DEF RowOf
    <2> QED
      <3>1. durationMillis(a.error.after) \in Int
        BY <1>1, <1>4
      <3>2. row \in Rows /\ row.state = "retry" /\ row.code # "capacity_exhausted"
        BY <2>1, <3>1, <1>1, <1>3
      <3> QED
        BY <3>2, <1>5 DEF a
  <1>6. CASE row # AnswerOf(a) /\ row = RowOf(a) /\ a.error = NoError
    <2>1. row = Retry("response_decode_error", 0) \/ row = Checked(a.atomic)
      BY <1>6 DEF RowOf
    <2> QED
      <3>1. CASE row = Retry("response_decode_error", 0)
        <4>1. row \in Rows /\ row.state = "retry" /\ row.code = "response_decode_error"
          <5>1. "response_decode_error" \in Codes /\ 0 \in Int
            BY DEF Codes
          <5> QED
            BY <3>1, <5>1, <1>3
        <4> QED
          BY <4>1, <1>6 DEF a
      <3>2. CASE row = Checked(a.atomic)
        BY <3>2, <1>1, <1>2, <1>6 DEF a
      <3> QED
        BY <2>1, <3>1, <3>2
  <1>7. CASE row = AnswerOf(a) /\ a.error = NoError
    <2>1. row = Checked(a.atomic)
      BY <1>7 DEF AnswerOf
    <2> QED
      BY <2>1, <1>1, <1>2, <1>7
  <1>8. CASE row = AnswerOf(a) /\ a.error # NoError /\ ~a.error.temporary
    <2>1. row = Retry(a.error.code, 0)
      BY <1>8 DEF AnswerOf
    <2> QED
      BY <2>1, <1>1, <1>3, <1>8
  <1>9. CASE row = AnswerOf(a) /\ a.error # NoError /\ a.error.temporary
    <2> DEFINE ms == IF a.error.after <= 0 THEN 1000 ELSE a.error.after
    <2>1. row = Retry(a.error.code, Seconds(ms))
      BY <1>9 DEF AnswerOf
    <2>2. ms \in Int /\ ms > 0 /\ ms >= a.error.after
      BY <1>1
    <2> HIDE DEF ms
    <2>3. Seconds(ms) \in Int /\ Seconds(ms) * 1000 >= ms /\ Seconds(ms) > 0
      BY <2>2, SecondsFacts
    <2>4. Seconds(ms) * 1000 >= a.error.after
      BY <2>2, <2>3, <1>1
    <2>5. /\ row \in Rows /\ row.state = "retry" /\ row.code = a.error.code
          /\ row.hint = Seconds(ms)
      BY <2>1, <2>3, <1>1, <1>3
    <2> QED
      BY <2>3, <2>4, <2>5, <1>1
  <1> QED
    BY <1>5, <1>6, <1>7, <1>8, <1>9 DEF a

-----------------------------------------------------------------------------
(* The invariant holds initially and every step preserves it *)

(* Nothing of chain d moves: what its rows claim still holds.              *)
LEMMA RowFrame ==
    ASSUME NEW d, RowInv(d), said'[d] = said[d], checks'[d] = checks[d],
           results'[d] = results[d]
    PROVE  RowInv(d)'
  BY DEF RowInv, Backed, Truthful, HintInv

(* Rows that make no claim claim nothing false.                            *)
LEMMA SilentInv ==
    ASSUME NEW d, Silent(checks[d])', Silent(results[d])'
    PROVE  RowInv(d)'
  BY DEF RowInv, Backed, HintInv, Silent

(* The service starts in the invariant.                                    *)
LEMMA InvInit == Init => IInv
  <1> SUFFICES ASSUME Init PROVE IInv
    OBVIOUS
  <1>1. ServiceTypes
    <2>1. NoReply \in [kind : Kinds \cup {"none"}, after : Int]
      BY DEF NoReply
    <2> QED
      BY <2>1, SilentRows DEF Init, ServiceTypes
  <1>2. PhaseInv /\ ExitInv
    BY DEF Init, PhaseInv, ExitInv
  <1>3. ASSUME NEW c \in ChainNames
        PROVE  QueryInv(c) /\ RowInv(c)
    <2>1. pc[c] = "idle" /\ phase = "start" /\ checks[c] = NoRow /\ results[c] = NoRow
      BY DEF Init, L!Init
    <2> QED
      BY <2>1, SilentRows DEF QueryInv, RowInv, Backed, HintInv, Silent
  <1> QED
    BY <1>1, <1>2, <1>3 DEF IInv

(* Steps that concern only the limiter: calls may go on, and begin if they *)
(* are for their own chain and nothing is known of it yet.                 *)
LEMMA LimiterOnly ==
    ASSUME IInv, UNCHANGED <<phase, cancelled, startupVars, commandVars, said>>,
           \A d \in ChainNames : QueryInv(d)'
    PROVE  IInv'
  <1>1. ServiceTypes' /\ PhaseInv' /\ ExitInv'
    BY DEF IInv, ServiceTypes, PhaseInv, ExitInv, startupVars, commandVars
  <1>2. ASSUME NEW d \in ChainNames
        PROVE  RowInv(d)'
    BY RowFrame DEF IInv, startupVars, commandVars
  <1> QED
    BY <1>1, <1>2 DEF IInv

(* A step that only moves queries along or ends them keeps the invariant.  *)
LEMMA GoesOnInv ==
    ASSUME IInv, UNCHANGED <<phase, cancelled, startupVars, commandVars, said>>,
           \A d \in ChainNames : pc'[d] # "idle" => pc[d] # "idle" /\ at'[d] = at[d]
    PROVE  IInv'
  <1>1. ASSUME NEW d \in ChainNames
        PROVE  QueryInv(d)'
    BY DEF IInv, QueryInv, startupVars, commandVars
  <1> QED
    BY <1>1, LimiterOnly

(* The steps inside Acquire, and of the limiter alone, keep it.            *)
LEMMA AcquireInv ==
    ASSUME IInv, L!TypeOK, NEW c \in ChainNames,
           \/ Within(L!Acquire(c)) \/ Within(L!Wake(c)) \/ Within(L!DeadlinePasses(c))
           \/ Cancel(c) \/ Register(c) \/ IntervalElapses
    PROVE  IInv'
  <1>1. UNCHANGED <<phase, cancelled, startupVars, commandVars, said>>
    BY DEF Within, Cancel, Register, IntervalElapses
  <1>2. \A d \in ChainNames : pc'[d] # "idle" => pc[d] # "idle" /\ at'[d] = at[d]
    <2>1. pc \in [ChainNames -> {"idle", "trying", "sleeping", "denied", "holding"}]
      BY DEF L!TypeOK
    <2> QED
      BY <2>1 DEF Within, Cancel, Register, IntervalElapses, L!Acquire, L!Wake, L!DeadlinePasses,
                  L!Cancel, L!Goto, L!Register, L!clients, L!IntervalElapses,
                  L!GlobalIntervalElapses
  <1> QED
    BY <1>1, <1>2, GoesOnInv

(* A query of the startup check that starts keeps the invariant.           *)
LEMMA BeginInv ==
    ASSUME IInv, L!TypeOK, NEW c \in ChainNames, Begin(c)
    PROVE  IInv'
  <1>1. pc \in [ChainNames -> {"idle", "trying", "sleeping", "denied", "holding"}]
        /\ at \in [ChainNames -> ChainNames \cup {L!NoChain}]
    BY DEF L!TypeOK
  <1>2. UNCHANGED <<phase, cancelled, startupVars, commandVars, said>>
    BY DEF Begin
  <1>3. ASSUME NEW d \in ChainNames
        PROVE  QueryInv(d)'
    <2>1. QueryInv(d)
      BY DEF IInv
    <2> QED
      BY <2>1, <1>1 DEF Begin, Call, L!Call, L!Goto, QueryInv, startupVars, commandVars
  <1> QED
    BY <1>2, <1>3, LimiterOnly

(* Listening leads to one of two phases.                                   *)
LEMMA ListeningPhase == Listening \in {"serving", "stopped"}
  BY DEF Listening

(* A step of runService between two phases.                                *)
LEMMA PhaseStep ==
    ASSUME IInv, UNCHANGED <<limiterVars, checks, results, said>>,
           ServiceTypes', PhaseInv', ExitInv',
           phase' \in {"serving", "query", "insert"} => phase \in {"start", "insert"},
           phase' \in {"start", "save"} => phase' = phase
    PROVE  IInv'
  <1>1. ASSUME NEW d \in ChainNames
        PROVE  QueryInv(d)' /\ RowInv(d)'
    <2>1. QueryInv(d) /\ RowInv(d)
      BY DEF IInv
    <2> QED
      BY <2>1, RowFrame DEF QueryInv, limiterVars
  <1> QED
    BY <1>1 DEF IInv

(* Start-up, the insert of the addresses and the end of the process        *)
(* keep it.                                                                *)
LEMMA ConfiguredInv ==
    ASSUME IInv, Configured \/ InsertAddressesWithIDs \/ Stop
    PROVE  IInv'
  <1>1. UNCHANGED <<limiterVars, cancelled, startupVars, commandVars, said>>
    BY DEF Configured, InsertAddressesWithIDs, Stop
  <1>2. /\ phase' \in {"insert", "query", "serving", "stopped"}
        /\ phase' # "stopped" => phase \in {"start", "insert"}
    BY ListeningPhase DEF Configured, InsertAddressesWithIDs, Stop
  <1>3. ServiceTypes' /\ PhaseInv' /\ ExitInv'
    BY <1>1, <1>2 DEF IInv, ServiceTypes, PhaseInv, ExitInv, startupVars, commandVars
  <1> QED
    BY <1>1, <1>2, <1>3, PhaseStep DEF startupVars, commandVars

(* The signal keeps the invariant.                                         *)
LEMMA SignalInv ==
    ASSUME IInv, Signal
    PROVE  IInv'
  <1>1. ServiceTypes' /\ PhaseInv' /\ ExitInv'
    BY DEF Signal, IInv, ServiceTypes, PhaseInv, ExitInv, startupVars, commandVars
  <1>2. ASSUME NEW d \in ChainNames
        PROVE  QueryInv(d)' /\ RowInv(d)'
    BY RowFrame DEF IInv, Signal, QueryInv, limiterVars, startupVars, commandVars
  <1> QED
    BY <1>1, <1>2 DEF IInv

(* waitGroup.Wait returns: no goroutine is left at a node or in the        *)
(* limiter, since one that has not recorded its row would still hold up    *)
(* the wait.                                                               *)
LEMMA AllCheckedInv ==
    ASSUME IInv, AllChecked
    PROVE  IInv'
  <1>1. ServiceTypes' /\ PhaseInv' /\ ExitInv'
    BY DEF AllChecked, IInv, ServiceTypes, PhaseInv, ExitInv, commandVars
  <1>2. ASSUME NEW d \in ChainNames
        PROVE  QueryInv(d)' /\ RowInv(d)'
    BY RowFrame DEF IInv, AllChecked, QueryInv, limiterVars, commandVars
  <1> QED
    BY <1>1, <1>2 DEF IInv

(* The return of RunOnce keeps the invariant.                              *)
LEMMA RunOnceReturnsInv ==
    ASSUME IInv, RunOnceReturns
    PROVE  IInv'
  <1>1. phase' \in {"serving", "stopped"}
    BY ListeningPhase DEF RunOnceReturns
  <1>2. ServiceTypes'
    <2>1. NoReply \in [kind : Kinds \cup {"none"}, after : Int]
      BY DEF NoReply
    <2> QED
      BY <1>1, <2>1, SilentRows DEF RunOnceReturns, IInv, ServiceTypes, commandVars
  <1>3. PhaseInv' /\ ExitInv'
    BY <1>1 DEF RunOnceReturns, IInv, PhaseInv, ExitInv, commandVars
  <1>4. ASSUME NEW d \in ChainNames
        PROVE  QueryInv(d)' /\ RowInv(d)'
    <2>1. checks'[d] = NoRow /\ results'[d] = NoRow /\ pc'[d] = "idle"
      BY DEF RunOnceReturns, IInv, PhaseInv, QueryInv, limiterVars, commandVars
    <2> QED
      BY <1>1, <2>1, SilentRows, SilentInv DEF QueryInv
  <1> QED
    BY <1>2, <1>3, <1>4 DEF IInv

(* Every row that is not stored has an error to show for it.               *)
LEMMA SaveInv ==
    ASSUME IInv, NEW c \in ChainNames, SaveWalletBalanceCheck(c)
    PROVE  IInv'
  <1>1. ServiceTypes' /\ ExitInv'
    BY DEF SaveWalletBalanceCheck, FirstSaveErr, IInv, ServiceTypes, ExitInv, commandVars
  <1>2. PhaseInv'
    <2>1. /\ phase = "save" /\ phase' = "save" /\ c \in unsaved /\ unsaved' = unsaved \ {c}
          /\ checks' = checks /\ results' = results
      BY DEF SaveWalletBalanceCheck, commandVars
    <2>2. ~firstSaveErr => stored = ChainNames \ unsaved
      BY <2>1 DEF IInv, PhaseInv
    <2>3. \A d \in ChainNames : results[d] = NoRow
      BY <2>1 DEF IInv, PhaseInv
    <2>4. ~firstSaveErr' => ~firstSaveErr /\ stored' = stored \cup {c}
      BY DEF SaveWalletBalanceCheck, FirstSaveErr
    <2> QED
      BY <2>1, <2>2, <2>3, <2>4 DEF PhaseInv
  <1>3. ASSUME NEW d \in ChainNames
        PROVE  QueryInv(d)' /\ RowInv(d)'
    BY RowFrame DEF IInv, SaveWalletBalanceCheck, QueryInv, limiterVars, commandVars
  <1> QED
    BY <1>1, <1>2, <1>3 DEF IInv

(* A query of the startup check ends with row, which claims nothing that   *)
(* the node's last reply does not say.                                     *)
LEMMA RecordInv ==
    ASSUME IInv, L!TypeOK, NEW c \in ChainNames, NEW row \in Rows, phase = "query",
           row # NoRow, Record(c, row), L!Return(c), Backed(c, row)',
           said' \in [ChainNames -> [kind : Kinds \cup {"none"}, after : Int]],
           \A d \in ChainNames \ {c} : said'[d] = said[d],
           UNCHANGED <<phase, cancelled, unsaved, firstSaveErr, stored, commandVars>>
    PROVE  IInv'
  <1>1. pc \in [ChainNames -> {"idle", "trying", "sleeping", "denied", "holding"}]
        /\ at \in [ChainNames -> ChainNames \cup {L!NoChain}] /\ checks \in [ChainNames -> Rows]
    BY DEF L!TypeOK, IInv, ServiceTypes
  <1>2. ServiceTypes'
    BY <1>1 DEF Record, IInv, ServiceTypes, commandVars
  <1>3. PhaseInv' /\ ExitInv'
    BY DEF Record, IInv, PhaseInv, ExitInv, commandVars
  <1>4. checks'[c] = row /\ pc'[c] = "idle" /\ results'[c] = NoRow
    BY <1>1 DEF Record, L!Return, L!Goto, IInv, PhaseInv, commandVars
  <1>5. QueryInv(c)' /\ RowInv(c)'
    <2>1. QueryInv(c)'
      BY <1>4 DEF QueryInv
    <2>2. Backed(c, checks[c])'
      BY <1>4 DEF Backed, Truthful
    <2>3. Backed(c, results[c])' /\ HintInv(c)'
      BY <1>4, SilentRows DEF Backed, HintInv, Silent
    <2> QED
      BY <2>1, <2>2, <2>3 DEF RowInv
  <1>6. ASSUME NEW d \in ChainNames \ {c}
        PROVE  QueryInv(d)' /\ RowInv(d)'
    <2>1. /\ checks'[d] = checks[d] /\ pc'[d] = pc[d] /\ at'[d] = at[d]
          /\ said'[d] = said[d] /\ results' = results
      BY <1>1 DEF Record, L!Return, L!Goto, commandVars
    <2> QED
      BY <2>1, RowFrame DEF IInv, QueryInv
  <1> QED
    BY <1>2, <1>3, <1>5, <1>6 DEF IInv

(* A reply becomes the last one of its chain.                              *)
LEMMA SaidType ==
    ASSUME IInv, NEW c \in ChainNames, NEW reply \in Replies,
           said' = [said EXCEPT ![c] = reply]
    PROVE  /\ said' \in [ChainNames -> [kind : Kinds \cup {"none"}, after : Int]]
           /\ said'[c] = reply
           /\ \A d \in ChainNames \ {c} : said'[d] = said[d]
  <1>1. said \in [ChainNames -> [kind : Kinds \cup {"none"}, after : Int]]
    BY DEF IInv, ServiceTypes
  <1>2. reply \in [kind : Kinds \cup {"none"}, after : Int]
    <2>1. Afters \cup {0} \subseteq Int
      BY ServiceAssumption
    <2>2. reply \in [kind : Kinds, after : Afters \cup {0}]
      BY DEF Replies
    <2> QED
      BY <2>1, <2>2
  <1> QED
    BY <1>1, <1>2

(* A startup query that gets no slot keeps the invariant.                  *)
LEMMA CheckDeniedInv ==
    ASSUME IInv, L!TypeOK, NEW c \in ChainNames, CheckDenied(c)
    PROVE  IInv'
  <1> DEFINE row == Retry("capacity_exhausted", durationMillis(250))
  <1>1. row \in Rows /\ row.state = "retry"
    BY DEF Retry, Result, Rows, Codes, durationMillis
  <1>2. row # NoRow
    BY <1>1, SilentRows
  <1>3. Record(c, row) /\ L!Return(c) /\ phase = "query"
    BY DEF CheckDenied, Exhausted, L!retryAfter
  <1>4. UNCHANGED <<phase, cancelled, unsaved, firstSaveErr, stored, commandVars, said>>
    BY DEF CheckDenied
  <1>5. said' \in [ChainNames -> [kind : Kinds \cup {"none"}, after : Int]]
        /\ \A d \in ChainNames \ {c} : said'[d] = said[d]
    BY <1>4 DEF IInv, ServiceTypes
  <1>6. Backed(c, row)'
    BY <1>1 DEF Backed
  <1> HIDE DEF row
  <1> QED
    BY <1>1, <1>2, <1>3, <1>4, <1>5, <1>6, RecordInv

(* A startup query that comes back keeps the invariant: its row is backed  *)
(* by the reply, or the reply is one the provider does not recognise.      *)
LEMMA CheckAnsweredInv ==
    ASSUME IInv, L!TypeOK, NEW c \in ChainNames, CheckAnswered(c)
    PROVE  IInv'
  <1>1. PICK reply \in Replies : Answered(c, reply) /\ Record(c, RowOf(Check(c, reply)))
    BY DEF CheckAnswered
  <1> DEFINE row == RowOf(Check(c, reply))
  <1>2. /\ row \in Rows /\ row.state \in {"checked", "retry"}
        /\ row.state = "checked" /\ reply.kind \notin Unrecognised(c) =>
             Says(c, reply) = IF row.atomic > 0 THEN "positive" ELSE "zero"
    BY AnswerFacts
  <1>3. Record(c, row) /\ L!Return(c) /\ phase = "query"
    BY <1>1 DEF CheckAnswered, Answered
  <1> HIDE DEF row
  <1>4. row # NoRow
    BY <1>2, SilentRows
  <1>5. UNCHANGED <<phase, cancelled, unsaved, firstSaveErr, stored, commandVars>>
    BY DEF CheckAnswered
  <1>6. /\ said' \in [ChainNames -> [kind : Kinds \cup {"none"}, after : Int]]
        /\ said'[c] = reply
        /\ \A d \in ChainNames \ {c} : said'[d] = said[d]
    BY <1>1, SaidType DEF Answered
  <1>7. Backed(c, row)'
    BY <1>2, <1>6 DEF Backed, Truthful
  <1> QED
    BY <1>2, <1>3, <1>4, <1>5, <1>6, <1>7, RecordInv

(* A handler ends with an answer; it reaches a client that still waits, or *)
(* nobody, because the client has given up on it.                          *)
LEMMA RespondInv ==
    ASSUME IInv, L!TypeOK, NEW c \in ChainNames, NEW row \in Rows, phase = "serving",
           pc[c] # "idle", row.state \in {"checked", "retry"},
           Respond(c, row), L!Return(c), Backed(c, row)',
           row.code = "rate_limited" => row.hint * 1000 >= said'[c].after,
           row.code \in {"rate_limited", "capacity_exhausted"} => row.hint > 0,
           said' \in [ChainNames -> [kind : Kinds \cup {"none"}, after : Int]],
           \A d \in ChainNames \ {c} : said'[d] = said[d],
           UNCHANGED <<phase, cancelled, startupVars, exit>>
    PROVE  IInv'
  <1>1. pc \in [ChainNames -> {"idle", "trying", "sleeping", "denied", "holding"}]
        /\ at \in [ChainNames -> ChainNames \cup {L!NoChain}] /\ results \in [ChainNames -> Rows]
    BY DEF L!TypeOK, IInv, ServiceTypes
  <1>2. results[c] \in {Waiting, ClientError("connection_error")}
    BY DEF IInv, QueryInv
  <1>3. ServiceTypes'
    BY <1>1 DEF Respond, IInv, ServiceTypes, startupVars
  <1>4. PhaseInv'
    BY DEF IInv, PhaseInv, startupVars
  <1>5. exit # "ok"
    BY <1>2, SilentRows DEF IInv, ExitInv
  <1>6. QueryInv(c)' /\ RowInv(c)'
    <2>1. pc'[c] = "idle" /\ checks'[c] = NoRow /\ phase' = "serving"
      BY <1>1 DEF L!Return, L!Goto, IInv, PhaseInv, startupVars
    <2>2. QueryInv(c)'
      BY <2>1 DEF QueryInv
    <2>3. CASE results[c] = Waiting
      <3>1. results'[c] = row
        BY <1>1, <2>3 DEF Respond
      <3>2. Backed(c, results[c])'
        BY <3>1 DEF Backed, Truthful
      <3>3. HintInv(c)'
        BY <3>1 DEF HintInv
      <3>4. Backed(c, checks[c])'
        BY <2>1, SilentRows DEF Backed, Silent
      <3> QED
        BY <2>2, <3>2, <3>3, <3>4 DEF RowInv
    <2>4. CASE results[c] # Waiting
      <3>1. results'[c] = ClientError("connection_error")
        BY <1>2, <2>4 DEF Respond
      <3> QED
        BY <2>1, <2>2, <3>1, SilentRows, SilentInv
    <2> QED
      BY <2>3, <2>4
  <1>7. ASSUME NEW d \in ChainNames \ {c}
        PROVE  QueryInv(d)' /\ RowInv(d)'
    <2>1. /\ results'[d] = results[d] /\ pc'[d] = pc[d] /\ at'[d] = at[d]
          /\ said'[d] = said[d] /\ checks' = checks
      BY <1>1 DEF Respond, L!Return, L!Goto, startupVars
    <2> QED
      BY <2>1, RowFrame DEF IInv, QueryInv
  <1> QED
    BY <1>3, <1>4, <1>5, <1>6, <1>7 DEF IInv, ExitInv

(* A request that gets no slot keeps the invariant.                        *)
LEMMA HandlerDeniedInv ==
    ASSUME IInv, L!TypeOK, NEW c \in ChainNames, HandlerDenied(c)
    PROVE  IInv'
  <1> DEFINE row == Retry("capacity_exhausted", Seconds(250))
  <1>1. Seconds(250) = 1
    BY DEF Seconds
  <1>2. /\ row \in Rows /\ row.state = "retry" /\ row.code = "capacity_exhausted"
        /\ row.hint = 1
    BY <1>1 DEF Retry, Result, Rows, Codes
  <1>3. Respond(c, row) /\ L!Return(c) /\ phase = "serving" /\ pc[c] # "idle"
    BY DEF HandlerDenied, L!retryAfter
  <1>4. UNCHANGED <<phase, cancelled, startupVars, exit, said>>
    BY DEF HandlerDenied
  <1>5. said' \in [ChainNames -> [kind : Kinds \cup {"none"}, after : Int]]
        /\ \A d \in ChainNames \ {c} : said'[d] = said[d]
    BY <1>4 DEF IInv, ServiceTypes
  <1> HIDE DEF row
  <1>6. Backed(c, row)'
    BY <1>2 DEF Backed
  <1> QED
    BY <1>2, <1>3, <1>4, <1>5, <1>6, RespondInv

(* A request whose query comes back keeps the invariant.                   *)
LEMMA HandlerAnsweredInv ==
    ASSUME IInv, L!TypeOK, NEW c \in ChainNames, HandlerAnswered(c)
    PROVE  IInv'
  <1>1. PICK reply \in Replies : Answered(c, reply) /\ Respond(c, AnswerOf(Check(c, reply)))
    BY DEF HandlerAnswered
  <1> DEFINE row == AnswerOf(Check(c, reply))
  <1>2. /\ row \in Rows /\ row.state \in {"checked", "retry"}
        /\ row.code # "capacity_exhausted"
        /\ row.state = "checked" /\ reply.kind \notin Unrecognised(c) =>
             Says(c, reply) = IF row.atomic > 0 THEN "positive" ELSE "zero"
        /\ row.code = "rate_limited" => row.hint > 0 /\ row.hint * 1000 >= reply.after
    BY AnswerFacts
  <1>3. Respond(c, row) /\ L!Return(c) /\ phase = "serving" /\ pc[c] # "idle"
    BY <1>1 DEF HandlerAnswered, Answered
  <1> HIDE DEF row
  <1>4. UNCHANGED <<phase, cancelled, startupVars, exit>>
    BY DEF HandlerAnswered
  <1>5. /\ said' \in [ChainNames -> [kind : Kinds \cup {"none"}, after : Int]]
        /\ said'[c] = reply
        /\ \A d \in ChainNames \ {c} : said'[d] = said[d]
    BY <1>1, SaidType DEF Answered
  <1>6. Backed(c, row)'
    BY <1>2, <1>5 DEF Backed, Truthful
  <1> QED
    BY <1>2, <1>3, <1>4, <1>5, <1>6, RespondInv

(* The command learns of chain c something that claims no balance.         *)
LEMMA CommandInv ==
    ASSUME IInv, NEW c \in ChainNames, NEW row \in Rows, Silent(row), exit # "ok",
           results' = [results EXCEPT ![c] = row],
           phase \notin {"start", "insert", "query", "save"},
           UNCHANGED <<phase, cancelled, startupVars, exit, said>>,
           \A d \in ChainNames : QueryInv(d)'
    PROVE  IInv'
  <1>1. results \in [ChainNames -> Rows]
    BY DEF IInv, ServiceTypes
  <1>2. ServiceTypes' /\ PhaseInv' /\ ExitInv'
    BY <1>1 DEF IInv, ServiceTypes, PhaseInv, ExitInv, startupVars
  <1>3. RowInv(c)'
    <2>1. Silent(results[c])'
      BY <1>1
    <2>2. Backed(c, checks[c])'
      BY DEF IInv, RowInv, Backed, Truthful, startupVars
    <2> QED
      BY <2>1, <2>2 DEF RowInv, Backed, HintInv, Silent
  <1>4. ASSUME NEW d \in ChainNames \ {c}
        PROVE  RowInv(d)'
    BY <1>1, RowFrame DEF IInv, startupVars
  <1> QED
    BY <1>2, <1>3, <1>4 DEF IInv

(* A request that is sent, and rejected or accepted, keeps the invariant.  *)
LEMMA SendInv ==
    ASSUME IInv, L!TypeOK, NEW c \in ChainNames, Send(c)
    PROVE  IInv'
  <1>1. pc \in [ChainNames -> {"idle", "trying", "sleeping", "denied", "holding"}]
        /\ at \in [ChainNames -> ChainNames \cup {L!NoChain}] /\ results \in [ChainNames -> Rows]
    BY DEF L!TypeOK, IInv, ServiceTypes
  <1>2. /\ phase = "serving" /\ results[c] = NoRow /\ exit = "none"
        /\ UNCHANGED <<phase, cancelled, startupVars, exit, said>>
    BY DEF Send
  <1>3. pc[c] = "idle"
    BY <1>2, SilentRows DEF IInv, QueryInv
  <1>4. CASE results' = [results EXCEPT ![c] = Waiting] /\ Call(c)
    <2>1. ASSUME NEW d \in ChainNames
          PROVE  QueryInv(d)'
      <3>1. QueryInv(d)
        BY DEF IInv
      <3> QED
        BY <1>1, <1>2, <1>4, <3>1 DEF Call, L!Call, L!Goto, QueryInv, startupVars
    <2> QED
      BY <1>2, <1>4, <2>1, SilentRows, CommandInv
  <1>5. ASSUME NEW row \in Rows, Silent(row), results' = [results EXCEPT ![c] = row],
               UNCHANGED limiterVars
        PROVE  IInv'
    <2>1. ASSUME NEW d \in ChainNames
          PROVE  QueryInv(d)'
      <3>1. QueryInv(d)
        BY DEF IInv
      <3> QED
        BY <1>1, <1>2, <1>3, <1>5, <3>1 DEF QueryInv, startupVars, limiterVars
    <2> QED
      BY <1>2, <1>5, <2>1, CommandInv
  <1> QED
    BY <1>4, <1>5, SilentRows, RejectionFacts DEF Send

(* A client that gives up on a request keeps the invariant.                *)
LEMMA GiveUpInv ==
    ASSUME IInv, NEW c \in ChainNames, GiveUp(c)
    PROVE  IInv'
  <1>1. results[c] = Waiting /\ results' = [results EXCEPT ![c] = ClientError("connection_error")]
        /\ UNCHANGED <<limiterVars, phase, cancelled, startupVars, exit, said>>
    BY DEF GiveUp
  <1>2. results \in [ChainNames -> Rows]
    BY DEF IInv, ServiceTypes
  <1>3. exit # "ok" /\ phase \notin {"start", "insert", "query", "save"}
    BY <1>1, SilentRows DEF IInv, ExitInv, PhaseInv
  <1>4. ASSUME NEW d \in ChainNames
        PROVE  QueryInv(d)'
    <2>1. QueryInv(d)
      BY DEF IInv
    <2> QED
      BY <1>1, <1>2, <2>1 DEF QueryInv, startupVars, limiterVars
  <1> QED
    BY <1>1, <1>3, <1>4, SilentRows, CommandInv

(* The exit of the command keeps the invariant.                            *)
LEMMA ExitStepInv ==
    ASSUME IInv, Exit
    PROVE  IInv'
  <1>1. ServiceTypes' /\ PhaseInv' /\ ExitInv'
    BY DEF Exit, QueryFailed, IInv, ServiceTypes, PhaseInv, ExitInv, startupVars
  <1>2. ASSUME NEW d \in ChainNames
        PROVE  QueryInv(d)' /\ RowInv(d)'
    BY RowFrame DEF IInv, Exit, QueryInv, limiterVars, startupVars
  <1> QED
    BY <1>1, <1>2 DEF IInv

(* Every step of the service and of its client keeps the invariant.        *)
LEMMA InvNext == IInv /\ L!TypeOK /\ [Next]_vars => IInv'
  <1> SUFFICES ASSUME IInv, L!TypeOK, [Next]_vars PROVE IInv'
    OBVIOUS
  <1>1. CASE Startup
    BY <1>1, ConfiguredInv, AllCheckedInv, RunOnceReturnsInv DEF Startup
  <1>2. ASSUME NEW c \in ChainNames, Goroutine(c)
        PROVE  IInv'
    BY <1>2, AcquireInv, BeginInv, CheckDeniedInv, CheckAnsweredInv, SaveInv, HandlerDeniedInv,
       HandlerAnsweredInv DEF Goroutine
  <1>3. ASSUME NEW c \in ChainNames, Send(c) \/ GiveUp(c)
        PROVE  IInv'
    BY <1>3, SendInv, GiveUpInv
  <1>4. CASE Exit \/ Signal \/ Stop
    BY <1>4, ExitStepInv, SignalInv, ConfiguredInv
  <1>5. CASE IntervalElapses
    <2>1. UNCHANGED <<phase, cancelled, startupVars, commandVars, said>> /\ pc' = pc /\ at' = at
      BY <1>5 DEF IntervalElapses, L!IntervalElapses, L!GlobalIntervalElapses, L!clients
    <2> QED
      BY <2>1, GoesOnInv
  <1>6. CASE UNCHANGED vars
    <2>1. UNCHANGED <<phase, cancelled, startupVars, commandVars, said>> /\ pc' = pc /\ at' = at
      BY <1>6 DEF vars, limiterVars
    <2> QED
      BY <2>1, GoesOnInv
  <1> QED
    BY <1>1, <1>2, <1>3, <1>4, <1>5, <1>6 DEF Next

(* The variables of the limiter keep their types in the service.           *)
LEMMA LimiterTypesHold == Spec => []L!TypeOK
  <1>1. LP!Spec => []LP!TypeOK
    BY LimiterConfigured, LP!LimiterTypes DEF LP!ConfigAssumption, LP!ClientsAssumption
  <1>2. LP!TypeOK => L!TypeOK
    BY DEF LP!TypeOK, L!TypeOK, LP!ChainStates, L!ChainStates, LP!ClampMax, L!ClampMax,
           LP!NoChain, L!NoChain
  <1> QED
    BY <1>1, <1>2, UsesLimiter, SameLimiter, PTL DEF ImplementsLimiter

(* The invariant holds in every reachable state.                           *)
LEMMA Invariance == Spec => []IInv
  BY InvInit, InvNext, LimiterTypesHold, PTL DEF Spec

-----------------------------------------------------------------------------
(* Theorems *)

(* Every variable of the service keeps its type.                           *)
THEOREM TypesHold == Spec => []TypeOK
  <1>1. IInv /\ L!TypeOK => TypeOK
    <2> SUFFICES ASSUME IInv, L!TypeOK PROVE TypeOK
      OBVIOUS
    <2>1. Kinds \cup {"none"} \subseteq ReplyKinds \cup {"none"}
      BY ServiceAssumption
    <2>2. said \in [ChainNames -> [kind : ReplyKinds \cup {"none"}, after : Int]]
      BY <2>1 DEF IInv, ServiceTypes
    <2> QED
      BY <2>2 DEF IInv, ServiceTypes, TypeOK
  <1> QED
    BY <1>1, Invariance, LimiterTypesHold, PTL

(* RunOnce returns no error only if every target has its row, whichever    *)
(* queries were refused, saves failed and whenever the signal came.        *)
THEOREM RowsAreStored == Spec => []AllResultsStored
  <1>1. IInv => AllResultsStored
    BY DEF IInv, PhaseInv, AllResultsStored, ServiceTypes
  <1> QED
    BY <1>1, Invariance, PTL

(* Retry-After of every answer covers what the node asked for, and is      *)
(* there whenever a limit is the reason.                                   *)
THEOREM HintsAreHonoured == Spec => []HintsHonoured
  <1>1. IInv => HintsHonoured
    BY DEF IInv, RowInv, HintInv, HintsHonoured
  <1> QED
    BY <1>1, Invariance, PTL

\* The nodes give no reply whose lack of a balance their provider misses.
RecognisedReplies ==
    \A c \in ChainNames : Kinds \cap Unrecognised(c) = {}

\* No balance is invented, unless the reply was one the provider misses.
BalancesBacked ==
    \A c \in ChainNames : Backed(c, checks[c]) /\ Backed(c, results[c])

(* Whatever the nodes answer, a row or an answer that claims a balance has *)
(* it from the node, with the sign the node gave, or the reply was one of  *)
(* the few kinds listed for the chain.  Timeouts, broken connections,      *)
(* limits and HTTP errors, and RPC errors of EVM and Solana nodes, are     *)
(* none of them and so never become a zero.                                *)
THEOREM OnlyUnrecognisedMislead == Spec => []BalancesBacked
  <1>1. IInv => BalancesBacked
    BY DEF IInv, RowInv, BalancesBacked
  <1> QED
    BY <1>1, Invariance, PTL

(* If providers recognise the replies of their nodes, everything recorded, *)
(* stored and answered as checked is what the node said.                   *)
THEOREM NoZeroInvented == RecognisedReplies => (Spec => []NoFalseZero)
  <1> SUFFICES ASSUME RecognisedReplies PROVE Spec => []NoFalseZero
    OBVIOUS
  <1>1. IInv => NoFalseZero
    <2> SUFFICES ASSUME IInv, NEW c \in ChainNames
                 PROVE  Truthful(c, checks[c]) /\ Truthful(c, results[c])
      BY DEF NoFalseZero
    <2>1. said[c].kind \in Kinds \cup {"none"}
      BY DEF IInv, ServiceTypes
    <2>2. "none" \notin Unrecognised(c)
      <3>1. c \in EVMChains \/ c = ChainSolana \/ c = ChainBTC \/ c = ChainTRON
        BY ServiceAssumption DEF EVMChains, chainsFor, Chains, TypeEVM, TypeBTC, TypeSOL, TypeTRX
      <3> QED
        BY <3>1 DEF Unrecognised
    <2>3. said[c].kind \notin Unrecognised(c)
      BY <2>1, <2>2 DEF RecognisedReplies
    <2> QED
      BY <2>3 DEF IInv, RowInv, Backed, Truthful
  <1> QED
    BY <1>1, Invariance, PTL

(* Under the same hypothesis exit code zero of generate --scan means that  *)
(* a node gave a balance for every chain.                                  *)
THEOREM ExitIsHonest == RecognisedReplies => (Spec => []ExitMeansAllKnown)
  <1>1. NoFalseZero /\ IInv => ExitMeansAllKnown
    BY DEF NoFalseZero, Truthful, IInv, ExitInv, ExitMeansAllKnown
  <1> QED
    BY <1>1, NoZeroInvented, Invariance, PTL

-----------------------------------------------------------------------------
(* The startup check and its slots *)

\* The startup check: queries that have a slot or had one, and those that
\* found none.
Served == {c \in ChainNames : pc[c] = "holding" \/
             (checks[c] # NoRow /\ checks[c].code # "capacity_exhausted")}
Refused == {c \in ChainNames : pc[c] \in {"sleeping", "denied"} \/
             checks[c].code = "capacity_exhausted"}
Done == {c \in ChainNames : checks[c] # NoRow}

\* No limit moves during the startup check, as there are fewer samples than
\* an adjustment needs, and nobody is refused before all slots are in use.
SlotsInv ==
    phase \in {"start", "insert", "query", "save"} =>
        /\ globalLimit = Initial /\ global.limit = Initial
        /\ global.samples <= Cardinality(Done)
        /\ \A c \in ChainNames :
             /\ chains[c].limit \in {0, Initial}
             /\ chains[c].samples <= Cardinality(Done)
        /\ Refused # {} => Initial <= Cardinality(Served)

(* The chains are finitely many, and fewer than an adjustment needs.       *)
LEMMA FewChains ==
    /\ IsFiniteSet(ChainNames) /\ Cardinality(ChainNames) \in Nat
    /\ MinSamples \in Nat /\ Cardinality(ChainNames) < MinSamples
    /\ Initial \in Nat /\ Initial >= 1 /\ L!ClampInitial = Initial
    /\ \A S : S \subseteq ChainNames => IsFiniteSet(S) /\ Cardinality(S) \in Nat
  <1>1. IsFiniteSet(ChainNames)
    BY LimiterConfigured DEF LP!ClientsAssumption, LP!IsFiniteSet, IsFiniteSet
  <1>2. \A S : S \subseteq ChainNames => IsFiniteSet(S) /\ Cardinality(S) \in Nat
    BY <1>1, FS_Subset, FS_CardinalityType
  <1>3. Initial \in Nat /\ Initial >= 1 /\ L!ClampInitial = Initial
    BY LoadAssumption DEF Load, L!ClampInitial, L!ClampMax
  <1> QED
    BY <1>1, <1>2, <1>3, SamplesAssumption

(* A larger set of chains has no fewer members.                            *)
LEMMA MoreChains ==
    ASSUME NEW S \in SUBSET ChainNames, NEW T \in SUBSET S
    PROVE  Cardinality(T) <= Cardinality(S)
  BY FewChains, FS_Subset

(* Before the startup check no slot is taken.                              *)
LEMMA SlotsInit == Init => SlotsInv
  <1> SUFFICES ASSUME Init PROVE SlotsInv
    OBVIOUS
  <1>1. Done = {} /\ Refused = {}
    BY SilentRows DEF Init, L!Init, Done, Refused
  <1>2. Cardinality(Done) = 0
    BY <1>1, FS_EmptySet
  <1>3. /\ globalLimit = Initial /\ global = L!chainState(Initial)
        /\ \A c \in ChainNames : chains[c] = L!chainState(0)
    BY FewChains DEF Init, L!Init, L!Absent
  <1>4. \A n : L!chainState(n).limit = n /\ L!chainState(n).samples = 0
    BY DEF L!chainState
  <1> QED
    BY <1>1, <1>2, <1>3, <1>4 DEF SlotsInv

\* Before the server listens.
Starting == phase \in {"start", "insert", "query", "save"}

(* Queries that had a slot keep what they had, more are done, limits and   *)
(* samples do not outgrow that, and the first refusal finds the slots      *)
(* taken.                                                                  *)
LEMMA SlotsStep ==
    ASSUME SlotsInv, Starting' => Starting,
           Starting' =>
             /\ globalLimit' = globalLimit /\ global.limit' = global.limit
             /\ global.samples' <= Cardinality(Done')
             /\ \A c \in ChainNames :
                  chains'[c].limit \in {0, Initial} /\ chains'[c].samples <= Cardinality(Done')
             /\ Served \subseteq Served'
             /\ Refused' # {} => Refused # {} \/ Initial <= Cardinality(Served)
    PROVE  SlotsInv'
  <1> SUFFICES ASSUME Starting' PROVE SlotsInv'
    BY DEF Starting, SlotsInv
  <1>1. Refused' # {} => Initial <= Cardinality(Served)
    BY DEF Starting, SlotsInv
  <1>2. Served' \subseteq ChainNames
    BY DEF Served
  <1>3. /\ Cardinality(Served) \in Nat /\ Cardinality(Served') \in Nat
        /\ Cardinality(Served) <= Cardinality(Served')
    <2>1. Served \subseteq ChainNames
      BY DEF Served
    <2> QED
      BY <1>2, <2>1, MoreChains, FewChains
  <1>4. Refused' # {} => Initial <= Cardinality(Served')
    BY <1>1, <1>3, FewChains
  <1>5. globalLimit' = Initial /\ global.limit' = Initial
    BY DEF Starting, SlotsInv
  <1> QED
    BY <1>4, <1>5 DEF SlotsInv

(* A step that leaves limiter and rows alone.                              *)
LEMMA SlotsFrame ==
    ASSUME SlotsInv, Starting' => Starting, UNCHANGED <<limiterVars, checks>>
    PROVE  SlotsInv'
  <1>1. Done' = Done /\ Served' = Served /\ Refused' = Refused
    BY DEF Done, Served, Refused, limiterVars
  <1>2. UNCHANGED <<globalLimit, global, chains>>
    BY DEF limiterVars
  <1> QED
    BY <1>1, <1>2, SlotsStep DEF SlotsInv, Starting

(* l.chain(name) during the startup check: the initial limit, and no more  *)
(* samples than the state had.                                             *)
LEMMA LookupFacts ==
    ASSUME L!TypeOK, SlotsInv, Starting, NEW c \in ChainNames
    PROVE  /\ L!chain(c).limit = Initial
           /\ L!chain(c).samples <= Cardinality(Done)
           /\ L!chain(c).samples \in Nat
           /\ L!chain(c) \in L!ChainStates
           /\ L!chain(c).active = IF chains[c].limit = 0 THEN 0 ELSE chains[c].active
  <1>1. /\ chains[c] \in L!ChainStates
        /\ chains[c].limit \in {0, Initial} /\ chains[c].samples <= Cardinality(Done)
        /\ globalLimit = Initial /\ globalLimit \in 0 .. L!ClampMax
    BY DEF L!TypeOK, SlotsInv, Starting
  <1>2. L!ChainStates = [limit : 0 .. L!ClampMax, active : Nat, samples : 0 .. MinSamples,
                         failed : BOOLEAN, ewma : Nat, due : BOOLEAN]
    BY DEF L!ChainStates
  <1>3. Cardinality(Done) \in Nat
    BY FewChains DEF Done
  <1>4. CASE chains[c].limit = 0
    <2>1. L!chain(c) = L!chainState(globalLimit)
      BY <1>4 DEF L!chain
    <2>2. /\ L!chainState(globalLimit).limit = globalLimit
          /\ L!chainState(globalLimit).samples = 0 /\ L!chainState(globalLimit).active = 0
      BY DEF L!chainState
    <2>3. 0 \in 0 .. MinSamples
      BY FewChains
    <2>4. L!chainState(globalLimit) \in L!ChainStates
      BY <1>1, <2>3 DEF L!chainState, L!ChainStates
    <2> QED
      BY <1>1, <1>3, <1>4, <2>1, <2>2, <2>4
  <1>5. CASE chains[c].limit # 0
    <2>1. L!chain(c) = chains[c]
      BY <1>5 DEF L!chain
    <2>2. chains[c].samples \in 0 .. MinSamples
      BY <1>1, <1>2
    <2>3. chains[c].samples \in Nat
      BY <2>2, FewChains
    <2> QED
      BY <1>1, <1>5, <2>1, <2>3
  <1> QED
    BY <1>4, <1>5

(* The state of one chain is replaced by one with the initial limit.       *)
LEMMA OneChain ==
    ASSUME L!TypeOK, SlotsInv, Starting, NEW c \in ChainNames, NEW s,
           chains' = [chains EXCEPT ![c] = s], s.limit = Initial,
           s.samples <= Cardinality(Done'), Done \subseteq Done'
    PROVE  \A d \in ChainNames :
              chains'[d].limit \in {0, Initial} /\ chains'[d].samples <= Cardinality(Done')
  <1>1. Cardinality(Done) <= Cardinality(Done') /\ Cardinality(Done) \in Nat
        /\ Cardinality(Done') \in Nat
    <2>1. Done \subseteq ChainNames /\ Done' \subseteq ChainNames
      BY DEF Done
    <2> QED
      BY <2>1, MoreChains, FewChains
  <1> SUFFICES ASSUME NEW d \in ChainNames
               PROVE  chains'[d].limit \in {0, Initial} /\ chains'[d].samples <= Cardinality(Done')
    OBVIOUS
  <1>2. /\ chains \in [ChainNames -> L!ChainStates]
        /\ chains[d].limit \in {0, Initial} /\ chains[d].samples <= Cardinality(Done)
    BY DEF L!TypeOK, SlotsInv, Starting
  <1>3. CASE d = c
    BY <1>2, <1>3
  <1>4. CASE d # c
    <2>1. chains'[d] = chains[d]
      BY <1>2, <1>4
    <2>2. chains[d].samples \in Nat
      <3>1. chains[d].samples \in 0 .. MinSamples
        BY <1>2 DEF L!ChainStates
      <3> QED
        BY <3>1, FewChains
    <2>3. chains[d].samples <= Cardinality(Done')
      BY <1>1, <1>2, <2>2
    <2> QED
      BY <1>2, <2>1, <2>3
  <1> QED
    BY <1>3, <1>4

(* Registering a chain keeps the slots of the startup check.               *)
LEMMA RegisterSlots ==
    ASSUME IInv, L!TypeOK, SlotsInv, NEW c \in ChainNames, Register(c)
    PROVE  SlotsInv'
  <1>1. /\ Starting /\ chains' = [chains EXCEPT ![c] = L!chain(c)]
        /\ UNCHANGED <<globalLimit, global, pc, checks>>
    BY DEF Register, L!Register, L!clients, Starting, startupVars
  <1>2. Done' = Done /\ Served' = Served /\ Refused' = Refused
    BY <1>1 DEF Done, Served, Refused
  <1>3. \A d \in ChainNames :
           chains'[d].limit \in {0, Initial} /\ chains'[d].samples <= Cardinality(Done')
    BY <1>1, <1>2, LookupFacts, OneChain
  <1> QED
    BY <1>1, <1>2, <1>3, SlotsStep DEF SlotsInv, Starting

(* A startup query that starts, sleeps or gives up waiting keeps them.     *)
LEMMA BeginSlots ==
    ASSUME IInv, L!TypeOK, SlotsInv, NEW c \in ChainNames,
           Begin(c) \/ Within(L!Wake(c)) \/ Within(L!DeadlinePasses(c)) \/ Cancel(c)
    PROVE  SlotsInv'
  <1>1. UNCHANGED <<globalLimit, global, chains, checks, phase>>
    BY DEF Begin, Call, Within, Cancel, L!Call, L!Wake, L!DeadlinePasses, L!Cancel, L!limits,
           startupVars
  <1>2. pc \in [ChainNames -> {"idle", "trying", "sleeping", "denied", "holding"}]
    BY DEF L!TypeOK
  <1>3. \A d \in ChainNames :
           /\ pc[d] = "holding" => pc'[d] = "holding"
           /\ pc'[d] \in {"sleeping", "denied"} => pc[d] \in {"sleeping", "denied"}
    BY <1>2 DEF Begin, Call, Within, Cancel, L!Call, L!Wake, L!DeadlinePasses, L!Cancel, L!Goto
  <1>4. Done' = Done /\ Served \subseteq Served' /\ Refused' \subseteq Refused
    BY <1>1, <1>3 DEF Done, Served, Refused
  <1> QED
    BY <1>1, <1>4, SlotsStep DEF SlotsInv, Starting

(* Acquire refuses a query only while the initial limit is used up: the    *)
(* chain's own limit has room, for only this goroutine asks for the chain. *)
LEMMA NoRoomMeansFull ==
    ASSUME IInv, L!TypeOK, L!SlotsAccounted, SlotsInv, Starting, NEW c \in ChainNames,
           pc[c] = "trying", ~L!Room(c)
    PROVE  Initial <= Cardinality(Served)
  <1>1. L!Cardinality(L!Holders) = Cardinality(L!Holders)
        /\ L!Cardinality(L!HoldersOf(c)) = Cardinality(L!HoldersOf(c))
    BY DEF L!Cardinality, Cardinality
  <1>2. L!Holders \subseteq Served
    BY DEF L!Holders, Served
  <1>3. Cardinality(L!Holders) <= Cardinality(Served) /\ Cardinality(L!Holders) \in Nat
        /\ Cardinality(Served) \in Nat
    <2>1. Served \subseteq ChainNames
      BY DEF Served
    <2> QED
      BY <1>2, <2>1, MoreChains, FewChains
  <1>4. L!HoldersOf(c) = {}
    <2>1. ASSUME NEW k \in L!HoldersOf(c)
          PROVE  FALSE
      <3>1. k \in ChainNames /\ pc[k] = "holding" /\ at[k] = c
        BY DEF L!HoldersOf, L!Holders
      <3>2. at[k] = k
        BY <3>1 DEF IInv, QueryInv
      <3> QED
        BY <3>1, <3>2
    <2> QED
      BY <2>1
  <1>5. chains[c].active = 0
    BY <1>1, <1>4, FS_EmptySet DEF L!SlotsAccounted
  <1>6. L!chain(c).active = 0 /\ L!chain(c).limit = Initial
    BY <1>5, LookupFacts
  <1>7. globalLimit = Initial /\ globalActive = Cardinality(L!Holders)
    BY <1>1 DEF SlotsInv, Starting, L!SlotsAccounted
  <1>8. ~(globalActive < globalLimit)
    BY <1>6, FewChains DEF L!Room
  <1> QED
    BY <1>3, <1>7, <1>8, FewChains

(* A startup query that tries for a slot gets one, or as many queries as   *)
(* the limit allows have theirs.                                           *)
LEMMA AcquireSlots ==
    ASSUME IInv, L!TypeOK, L!SlotsAccounted, SlotsInv, NEW c \in ChainNames,
           Within(L!Acquire(c))
    PROVE  SlotsInv'
  <1>0. phase' = phase /\ L!Acquire(c)
    BY DEF Within
  <1>1. CASE ~Starting
    BY <1>0, <1>1 DEF SlotsInv, Starting
  <1>2. CASE Starting
    <2>1. /\ UNCHANGED <<globalLimit, global, checks>>
          /\ pc[c] = "trying" /\ at[c] = c
      BY DEF Within, L!Acquire, startupVars, IInv, QueryInv
    <2>2. pc \in [ChainNames -> {"idle", "trying", "sleeping", "denied", "holding"}]
      BY DEF L!TypeOK
    <2>3. Done' = Done
      BY <2>1 DEF Done
    <2>4. \A d \in ChainNames \ {c} : pc'[d] = pc[d]
      BY <2>2 DEF Within, L!Acquire, L!Goto
    <2>5. checks[c] = NoRow /\ checks[c].code = ""
      <3>1. phase = "query"
        BY <1>2 DEF Within, Running, Starting
      <3> QED
        BY <2>1, <3>1, SilentRows DEF IInv, QueryInv
    <2>6. Served \subseteq Served'
      BY <2>1, <2>4 DEF Served
    <2>7. \A d \in ChainNames :
             chains'[d].limit \in {0, Initial} /\ chains'[d].samples <= Cardinality(Done')
      <3> DEFINE s == [L!chain(c) EXCEPT !.active = @ + 1]
      <3>1. chains' = [chains EXCEPT ![c] = s] \/ chains' = [chains EXCEPT ![c] = L!chain(c)]
        BY <1>0, <2>1 DEF L!Acquire
      <3>2. /\ L!chain(c).limit = Initial /\ L!chain(c).samples <= Cardinality(Done)
            /\ L!chain(c) \in L!ChainStates
        BY <1>2, LookupFacts
      <3>3. s.limit = Initial /\ s.samples <= Cardinality(Done)
        <4>1. s.limit = L!chain(c).limit /\ s.samples = L!chain(c).samples
          BY <3>2 DEF L!ChainStates
        <4> QED
          BY <3>2, <4>1
      <3> HIDE DEF s
      <3> QED
        BY <1>2, <2>3, <3>1, <3>2, <3>3, OneChain
    <2>8. Refused' # {} => Refused # {} \/ Initial <= Cardinality(Served)
      <3>1. CASE L!Room(c)
        <4>1. pc'[c] = "holding"
          BY <1>0, <2>1, <2>2, <3>1 DEF L!Acquire, L!Goto
        <4> QED
          BY <2>1, <2>4, <2>5, <4>1 DEF Refused
      <3>2. CASE ~L!Room(c)
        BY <1>2, <2>1, <3>2, NoRoomMeansFull
      <3> QED
        BY <3>1, <3>2
    <2> QED
      BY <1>0, <1>2, <2>1, <2>3, <2>6, <2>7, <2>8, SlotsStep DEF SlotsInv, Starting
  <1> QED
    BY <1>1, <1>2

(* A query that was refused records it: it was refused before.             *)
LEMMA CheckDeniedSlots ==
    ASSUME IInv, L!TypeOK, SlotsInv, NEW c \in ChainNames, CheckDenied(c)
    PROVE  SlotsInv'
  <1> DEFINE row == Retry("capacity_exhausted", durationMillis(250))
  <1>1. row.state = "retry"
    BY DEF Retry, Result
  <1>2. /\ phase = "query" /\ phase' = "query" /\ pc[c] = "denied"
        /\ checks' = [checks EXCEPT ![c] = row]
        /\ L!retryAfter(c) /\ UNCHANGED <<globalLimit, global>>
    BY DEF CheckDenied, Exhausted, Record, L!retryAfter
  <1> HIDE DEF row
  <1>3. /\ pc \in [ChainNames -> {"idle", "trying", "sleeping", "denied", "holding"}]
        /\ checks \in [ChainNames -> Rows]
    BY DEF L!TypeOK, IInv, ServiceTypes
  <1>4. at[c] = c /\ checks[c] = NoRow
    BY <1>2 DEF IInv, QueryInv
  <1>5. row # NoRow
    BY <1>1, SilentRows
  <1>6. \A d \in ChainNames \ {c} : pc'[d] = pc[d] /\ checks'[d] = checks[d]
    BY <1>2, <1>3 DEF L!retryAfter, L!Return, L!Goto
  <1>7. Done \subseteq Done' /\ Served \subseteq Served'
    BY <1>2, <1>3, <1>4, <1>6 DEF Done, Served
  <1>8. Refused # {}
    BY <1>2 DEF Refused
  <1>9. /\ Starting /\ chains' = [chains EXCEPT ![c] = L!chain(c)]
    BY <1>2, <1>4 DEF Starting, L!retryAfter
  <1>10. Cardinality(Done) <= Cardinality(Done') /\ Cardinality(Done) \in Nat
         /\ Cardinality(Done') \in Nat
    <2>1. Done \subseteq ChainNames /\ Done' \subseteq ChainNames
      BY DEF Done
    <2> QED
      BY <1>7, <2>1, MoreChains, FewChains
  <1>11. L!chain(c).limit = Initial /\ L!chain(c).samples <= Cardinality(Done')
    <2>1. /\ L!chain(c).limit = Initial /\ L!chain(c).samples <= Cardinality(Done)
          /\ L!chain(c).samples \in Nat
      BY <1>9, LookupFacts
    <2> QED
      BY <2>1, <1>10
  <1>12. \A d \in ChainNames :
            chains'[d].limit \in {0, Initial} /\ chains'[d].samples <= Cardinality(Done')
    BY <1>7, <1>9, <1>11, OneChain
  <1>13. global.samples' <= Cardinality(Done')
    <2>1. global.samples <= Cardinality(Done) /\ global.samples \in Nat
      <3>1. global.samples \in 0 .. MinSamples
        BY DEF L!TypeOK, L!ChainStates
      <3> QED
        BY <1>9, <3>1, FewChains DEF SlotsInv, Starting
    <2> QED
      BY <1>2, <1>10, <2>1
  <1> QED
    BY <1>2, <1>7, <1>8, <1>9, <1>12, <1>13, SlotsStep DEF Starting

(* The outcome of one more query does not make an adjustment due.          *)
LEMMA NoAdjustment ==
    ASSUME NEW s \in L!ChainStates, NEW retryable \in BOOLEAN, NEW latency \in Nat,
           NEW n \in Nat, s.samples <= n, n + 1 < MinSamples
    PROVE  LET t == L!updateStats(s, retryable, latency)
           IN  /\ ~L!AdjustDue(t) /\ L!adjust(t) = t
               /\ t.limit = s.limit /\ t.samples <= n + 1
  <1> DEFINE t == L!updateStats(s, retryable, latency)
  <1>1. s.samples \in Nat
    <2>1. s.samples \in 0 .. MinSamples
      BY DEF L!ChainStates
    <2> QED
      BY <2>1, FewChains
  <1>2. t.limit = s.limit
        /\ t.samples = IF s.samples < MinSamples THEN s.samples + 1 ELSE s.samples
    BY DEF L!updateStats, L!ChainStates
  <1>3. t.samples \in Nat /\ t.samples <= n + 1 /\ ~(t.samples >= MinSamples)
    BY <1>1, <1>2, FewChains
  <1> HIDE DEF t
  <1>4. ~L!AdjustDue(t)
    BY <1>3 DEF L!AdjustDue
  <1>5. L!adjust(t) = t
    BY <1>4 DEF L!adjust
  <1> QED
    BY <1>2, <1>3, <1>4, <1>5 DEF t

(* A query that had a slot is answered: it is one of those served, and the *)
(* outcome is one more sample, of fewer than an adjustment needs.          *)
LEMMA CheckAnsweredSlots ==
    ASSUME IInv, L!TypeOK, SlotsInv, NEW c \in ChainNames, CheckAnswered(c)
    PROVE  SlotsInv'
  <1>1. PICK reply \in Replies : Answered(c, reply) /\ Record(c, RowOf(Check(c, reply)))
    BY DEF CheckAnswered
  <1> DEFINE row == RowOf(Check(c, reply))
             retryable == Check(c, reply).error.temporary
             n == Cardinality(Done)
  <1>2. row.state \in {"checked", "retry"} /\ row.code # "capacity_exhausted"
    BY AnswerFacts
  <1>3. /\ phase = "query" /\ phase' = "query" /\ pc[c] = "holding"
        /\ checks' = [checks EXCEPT ![c] = row] /\ L!Return(c)
    BY <1>1 DEF CheckAnswered, Answered, Record
  <1>4. PICK latency \in Latencies : L!release(c, retryable, latency)
    BY <1>1 DEF Answered, Released
  <1>5. retryable \in BOOLEAN /\ latency \in Nat
    BY TemporaryType, LoadAssumption
  <1> HIDE DEF row, retryable
  <1>6. /\ pc \in [ChainNames -> {"idle", "trying", "sleeping", "denied", "holding"}]
        /\ checks \in [ChainNames -> Rows]
    BY DEF L!TypeOK, IInv, ServiceTypes
  <1>7. at[c] = c /\ checks[c] = NoRow /\ row # NoRow
    BY <1>2, <1>3, SilentRows DEF IInv, QueryInv
  <1>8. \A d \in ChainNames \ {c} : pc'[d] = pc[d] /\ checks'[d] = checks[d]
    BY <1>3, <1>6 DEF L!Return, L!Goto
  <1>9. checks'[c] = row /\ pc'[c] = "idle"
    BY <1>3, <1>6 DEF L!Return, L!Goto
  <1>10. Done' = Done \cup {c} /\ c \notin Done
    BY <1>7, <1>8, <1>9 DEF Done
  <1>11. Served \subseteq Served' /\ Refused' \subseteq Refused
    BY <1>2, <1>3, <1>7, <1>8, <1>9 DEF Served, Refused
  <1>12. n \in Nat /\ Cardinality(Done') = n + 1 /\ n + 1 < MinSamples
    <2>1. Done \subseteq ChainNames /\ Done' \subseteq ChainNames
      BY DEF Done
    <2>2. n \in Nat /\ IsFiniteSet(Done) /\ Cardinality(Done') <= Cardinality(ChainNames)
      BY <2>1, FewChains, MoreChains
    <2>3. Cardinality(Done') = n + 1
      BY <1>10, <2>2, FS_AddElement
    <2> QED
      BY <2>2, <2>3, FewChains
  <1> HIDE DEF n
  <1>13. Starting
    BY <1>3 DEF Starting
  <1>14. /\ global \in L!ChainStates /\ global.samples <= n
    BY <1>13 DEF L!TypeOK, SlotsInv, Starting, n
  <1> DEFINE g == L!updateStats(global, retryable, latency)
             freed == [L!chain(c) EXCEPT !.active = L!SlotFreed(@)]
             s == L!updateStats(freed, retryable, latency)
  <1>15. ~L!AdjustDue(g) /\ L!adjust(g) = g /\ g.limit = global.limit /\ g.samples <= n + 1
    BY <1>5, <1>12, <1>14, NoAdjustment
  <1>16. /\ freed \in L!ChainStates /\ freed.limit = Initial /\ freed.samples <= n
    <2>1. /\ L!chain(c) \in L!ChainStates /\ L!chain(c).limit = Initial
          /\ L!chain(c).samples <= n
      BY <1>13, LookupFacts DEF n
    <2>2. L!chain(c).active \in Nat
      BY <2>1 DEF L!ChainStates
    <2>3. L!SlotFreed(L!chain(c).active) \in Nat
      BY <2>2 DEF L!SlotFreed
    <2> QED
      BY <2>1, <2>3 DEF L!ChainStates
  <1> HIDE DEF freed
  <1>17. L!adjust(s) = s /\ s.limit = Initial /\ s.samples <= n + 1
    BY <1>5, <1>12, <1>16, NoAdjustment
  <1>18. /\ global' = L!adjust(g)
         /\ globalLimit' = IF L!AdjustDue(g) THEN L!adjust(g).limit ELSE globalLimit
         /\ chains' = [chains EXCEPT ![c] = L!adjust(s)]
    BY <1>4, <1>7 DEF L!release, freed
  <1> HIDE DEF g, s
  <1>19. global' = g /\ globalLimit' = globalLimit /\ chains' = [chains EXCEPT ![c] = s]
    BY <1>15, <1>17, <1>18
  <1>20. \A d \in ChainNames :
            chains'[d].limit \in {0, Initial} /\ chains'[d].samples <= Cardinality(Done')
    <2>1. s.samples <= Cardinality(Done') /\ Done \subseteq Done'
      BY <1>10, <1>12, <1>17
    <2> QED
      BY <1>13, <1>17, <1>19, <2>1, OneChain
  <1>21. global.limit' = global.limit /\ global.samples' <= Cardinality(Done')
    BY <1>12, <1>15, <1>19
  <1>22. Refused' # {} => Refused # {}
    BY <1>11
  <1> QED
    BY <1>11, <1>13, <1>19, <1>20, <1>21, <1>22, SlotsStep

(* An interval that elapses during the startup check changes no limit.     *)
LEMMA IntervalSlots ==
    ASSUME L!TypeOK, SlotsInv, IntervalElapses
    PROVE  SlotsInv'
  <1>1. UNCHANGED <<phase, checks, pc, globalLimit>>
    BY DEF IntervalElapses, startupVars, L!GlobalIntervalElapses, L!IntervalElapses, L!clients
  <1>2. Done' = Done /\ Served' = Served /\ Refused' = Refused
    BY <1>1 DEF Done, Served, Refused
  <1>3. global.limit' = global.limit /\ global.samples' = global.samples
    <2>1. global \in L!ChainStates
      BY DEF L!TypeOK
    <2>2. global' = global \/ global' = [global EXCEPT !.due = TRUE]
      BY DEF IntervalElapses, L!GlobalIntervalElapses, L!IntervalElapses
    <2> QED
      BY <2>1, <2>2 DEF L!ChainStates
  <1>4. ASSUME NEW d \in ChainNames
        PROVE  chains'[d].limit = chains[d].limit /\ chains'[d].samples = chains[d].samples
    <2>1. chains \in [ChainNames -> L!ChainStates]
      BY DEF L!TypeOK
    <2>2. CASE chains' = chains
      BY <2>2
    <2>3. ASSUME NEW c \in ChainNames, chains' = [chains EXCEPT ![c].due = TRUE]
          PROVE  chains'[d].limit = chains[d].limit /\ chains'[d].samples = chains[d].samples
      <3>1. chains[d] \in L!ChainStates
        BY <2>1
      <3>2. chains'[d] = chains[d] \/ chains'[d] = [chains[d] EXCEPT !.due = TRUE]
        BY <2>1, <2>3
      <3> QED
        BY <3>1, <3>2 DEF L!ChainStates
    <2> QED
      BY <2>2, <2>3 DEF IntervalElapses, L!GlobalIntervalElapses, L!IntervalElapses
  <1> QED
    BY <1>1, <1>2, <1>3, <1>4, SlotsStep DEF SlotsInv, Starting

(* Every step keeps the account of the slots of the startup check.         *)
LEMMA SlotsNext ==
    IInv /\ L!TypeOK /\ L!SlotsAccounted /\ SlotsInv /\ [Next]_vars => SlotsInv'
  <1> SUFFICES ASSUME IInv, L!TypeOK, L!SlotsAccounted, SlotsInv, [Next]_vars PROVE SlotsInv'
    OBVIOUS
  <1>1. CASE phase' \in {"serving", "stopped"}
    BY <1>1 DEF SlotsInv
  <1>2. CASE phase' \notin {"serving", "stopped"}
    <2>1. CASE Startup \/ Exit \/ Signal \/ Stop \/ UNCHANGED vars
      <3>1. UNCHANGED <<limiterVars, checks>> /\ (Starting' => Starting)
        BY <1>2, <2>1, ListeningPhase DEF Startup, Configured, InsertAddressesWithIDs, AllChecked,
           RunOnceReturns, Exit, Signal, Stop, vars, limiterVars, startupVars, Starting
      <3> QED
        BY <3>1, SlotsFrame
    <2>2. CASE IntervalElapses
      BY <2>2, IntervalSlots
    <2>3. ASSUME NEW c \in ChainNames, Goroutine(c)
          PROVE  SlotsInv'
      <3>1. CASE SaveWalletBalanceCheck(c)
        BY <3>1, SlotsFrame DEF SaveWalletBalanceCheck, Starting
      <3>2. CASE HandlerDenied(c) \/ HandlerAnswered(c)
        BY <3>2, <1>2 DEF HandlerDenied, HandlerAnswered
      <3> QED
        BY <2>3, <3>1, <3>2, RegisterSlots, BeginSlots, CheckDeniedSlots, CheckAnsweredSlots,
           AcquireSlots DEF Goroutine
    <2>4. ASSUME NEW c \in ChainNames, Send(c) \/ GiveUp(c)
          PROVE  SlotsInv'
      <3>1. CASE Send(c)
        BY <3>1, <1>2 DEF Send
      <3>2. CASE GiveUp(c)
        BY <3>2, SlotsFrame DEF GiveUp, Starting, startupVars
      <3> QED
        BY <2>4, <3>1, <3>2
    <2> QED
      BY <2>1, <2>2, <2>3, <2>4 DEF Next
  <1> QED
    BY <1>1, <1>2

(* The startup check sends as many of its queries as the initial limit     *)
(* allows: only the others can be given up for lack of a slot, whatever    *)
(* the timing, the replies and the signal.                                 *)
THEOREM SlotsAreUsed == Spec => []StartupUsesItsSlots
  <1>1. IInv /\ SlotsInv => StartupUsesItsSlots
    <2> SUFFICES ASSUME IInv, SlotsInv, phase \in {"query", "save"}
                 PROVE  Cardinality({c \in ChainNames : checks[c].code = "capacity_exhausted"})
                          <= IF Initial < Cardinality(ChainNames)
                               THEN Cardinality(ChainNames) - Initial ELSE 0
      BY DEF StartupUsesItsSlots
    <2> DEFINE E == {c \in ChainNames : checks[c].code = "capacity_exhausted"}
    <2>1. E \subseteq ChainNames /\ Served \subseteq ChainNames /\ E \subseteq Refused
      BY DEF Served, Refused
    <2>2. E \cap Served = {}
      <3>1. ASSUME NEW c \in E \cap Served
            PROVE  FALSE
        <4>1. c \in ChainNames /\ checks[c].code = "capacity_exhausted" /\ pc[c] = "holding"
          BY DEF Served
        <4>2. checks[c] = NoRow
          BY <4>1 DEF IInv, QueryInv
        <4> QED
          BY <4>1, <4>2, SilentRows
      <3> QED
        BY <3>1
    <2>3. Cardinality(E) \in Nat /\ Cardinality(Served) \in Nat /\ IsFiniteSet(E)
      BY <2>1, FewChains
    <2> HIDE DEF E
    <2>4. Cardinality(E) + Cardinality(Served) <= Cardinality(ChainNames)
      <3>1. IsFiniteSet(Served)
        BY <2>1, FewChains
      <3>2. Cardinality(E \cup Served)
              = Cardinality(E) + Cardinality(Served) - Cardinality(E \cap Served)
        BY <2>3, <3>1, FS_Union
      <3>3. Cardinality(E \cap Served) = 0
        BY <2>2, FS_EmptySet
      <3>4. Cardinality(E \cup Served) <= Cardinality(ChainNames)
        BY <2>1, MoreChains
      <3> QED
        BY <2>3, <3>2, <3>3, <3>4, FewChains
    <2>5. CASE E = {}
      <3>1. Cardinality(E) = 0
        BY <2>5, FS_EmptySet
      <3> QED
        BY <3>1, FewChains DEF E
    <2>6. CASE E # {}
      <3>1. Cardinality(E) # 0
        BY <2>3, <2>6, FS_EmptySet
      <3>2. Initial <= Cardinality(Served)
        BY <2>1, <2>6 DEF SlotsInv
      <3> QED
        BY <2>3, <2>4, <3>1, <3>2, FewChains DEF E
    <2> QED
      BY <2>5, <2>6
  <1> QED
    BY <1>1, SlotsInit, SlotsNext, Invariance, LimiterTypesHold, SlotsNeverLeak, PTL DEF Spec
=============================================================================
