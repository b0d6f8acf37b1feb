------------------------------ MODULE Service -------------------------------
(***************************************************************************)
(* One lifetime of the process "wallet-scan run" (cmd/wallet-scan/main.go, *)
(* runService) and one command "wallet-scan generate --scan" that calls    *)
(* it: the startup check, the balance API and its client, over the chain   *)
(* providers of Providers and the limiter of Limiter.                      *)
(*                                                                         *)
(* runService registers the chains, runs the startup check, and listens    *)
(* only when that has returned.  Startup check and command send one query  *)
(* per chain, all at once; the goroutine with the name of a chain is first *)
(* that of the startup check and later the handler of the request for that *)
(* chain.  buildProviders configures every chain, so the branches for a    *)
(* missing provider or limiter cannot be reached.                          *)
(***************************************************************************)
EXTENDS Providers, FiniteSets

CONSTANTS
    ChainNames,     \* the chains of the instance, all of Chains in the code
    Generate,       \* GENERATE_WALLET_ON_STARTUP
    Kinds,          \* kinds of replies the nodes give
    Afters,         \* values of Retry-After, in milliseconds
    Requests,       \* what the command can send for a chain
    MaxConcurrency, Initial, MinSamples, TargetLatency, Latencies

ASSUME ServiceAssumption ==
    /\ ChainNames \subseteq Chains /\ Generate \in BOOLEAN
    /\ Kinds \subseteq ReplyKinds /\ Afters \subseteq Int
\* What config.Load accepts; the rest of the configuration is no concern here.
Load ==
    /\ MaxConcurrency \in 1 .. 10000 /\ Initial \in 1 .. MaxConcurrency
    /\ TargetLatency \in Nat \ {0}
ASSUME LoadAssumption == Load /\ Latencies \subseteq Nat
\* The six queries of the startup check are too few for an adjustment.
ASSUME SamplesAssumption == MinSamples \in Nat /\ Cardinality(ChainNames) < MinSamples

VARIABLES
    globalLimit, globalActive, global, chains, pc, at, expired, degraded,  \* of the limiter
    phase,          \* where runService is
    cancelled,      \* SIGINT or SIGTERM has cancelled its context
    checks,         \* RunOnce: checks[c], the result for chain c
    unsaved,        \* RunOnce: the chains whose result it has yet to save
    firstSaveErr,   \* RunOnce: a save has failed
    stored,         \* RunOnce: the chains whose result is in wallet_balance_checks
    results,        \* the command: its result for chain c
    exit,           \* the command's exit
    said            \* history: the reply to the last query for chain c

L == INSTANCE Limiter WITH Clients <- ChainNames

limiterVars == <<globalLimit, globalActive, global, chains, pc, at, expired, degraded>>
startupVars == <<checks, unsaved, firstSaveErr, stored>>
commandVars == <<results, exit>>
vars == <<limiterVars, phase, cancelled, startupVars, commandVars, said>>

\* The position of a chain in the slice of targets.
Position(c) ==
    CASE c = ChainBTC -> 1 [] c = ChainEthereum -> 2 [] c = ChainArbitrum -> 3
      [] c = ChainBSC -> 4 [] c = ChainSolana -> 5 [] c = ChainTRON -> 6

Replies == {r \in [kind : Kinds, after : Afters \cup {0}] : r.kind # "rate_limited" => r.after = 0}
NoReply == [kind |-> "none", after |-> 0]

-----------------------------------------------------------------------------
(* Results.  A row or an answer has a state, the error code, the balance   *)
(* and a hint when to try again: retry_after_ms of a row, the header       *)
(* Retry-After, in seconds, of an answer; 0 if there is none.              *)

Result(state, code, atomic, hint) ==
    [state |-> state, code |-> code, atomic |-> atomic, hint |-> hint]

NoRow == Result("none", "", 0, 0)
Waiting == Result("waiting", "", 0, 0)

Checked(atomic) == Result("checked", "", atomic, 0)
Retry(code, hint) == Result("retry", code, 0, hint)
Rejected(code) == Result("rejected", code, 0, 0)
ClientError(code) == Result("client_error", code, 0, 0)

Init ==
    /\ L!Init
    /\ phase = "start" /\ cancelled = FALSE
    /\ checks = [c \in ChainNames |-> NoRow] /\ unsaved = {} /\ firstSaveErr = FALSE
    /\ stored = {}
    /\ results = [c \in ChainNames |-> NoRow] /\ exit = "none"
    /\ said = [c \in ChainNames |-> NoReply]

-----------------------------------------------------------------------------
(* runService up to the startup check *)

Register(c) ==
    /\ phase = "start" /\ L!Register(c)
    /\ UNCHANGED <<phase, cancelled, startupVars, commandVars, said>>

\* The server listens; runService returns at once if the signal has come.
Listening == IF cancelled THEN "stopped" ELSE "serving"

Configured ==
    /\ phase = "start" /\ \A c \in ChainNames : chains[c].limit # 0
    /\ phase' = IF Generate THEN "insert" ELSE Listening
    /\ UNCHANGED <<limiterVars, cancelled, startupVars, commandVars, said>>

\* The four addresses are inserted in one transaction, or the check is over.
InsertAddressesWithIDs ==
    /\ phase = "insert"
    /\ \/ ~cancelled /\ phase' = "query"
       \/ phase' = Listening
    /\ UNCHANGED <<limiterVars, cancelled, startupVars, commandVars, said>>

-----------------------------------------------------------------------------
(* Queries, of the startup check and of the handlers *)

Running == phase \in {"query", "serving"}

\* A goroutine calls Acquire for its own chain.
Call(c) == L!Call(c) /\ at'[c] = c

\* A step of Acquire that only concerns the limiter.
Within(step) == Running /\ step /\ UNCHANGED <<phase, cancelled, startupVars, commandVars, said>>

\* The client of a request is gone before the handler has answered.
Gone(c) == results[c].state = "client_error"

\* The context of the query: of the process at startup, of the request later.
ContextDone(c) == IF phase = "query" THEN cancelled ELSE Gone(c)

Cancel(c) == ContextDone(c) /\ Within(L!Cancel(c))

\* Mutant: the slot is given back only if the query succeeded.
ReleasedOnSuccess(c, error) ==
    IF error # NoError
      THEN UNCHANGED <<globalLimit, globalActive, global, chains>>
      ELSE \E latency \in Latencies : L!release(c, FALSE, latency)

\* provider.Check returns and the slot is released with its outcome.
Released(c, error) == \E latency \in Latencies : L!release(c, error.temporary, latency)

\* The node answers, the query times out, or its context is done.
Answered(c, reply) ==
    /\ pc[c] = "holding"
    /\ Released(c, Check(c, reply).error)
    /\ L!Return(c) /\ UNCHANGED degraded
    /\ said' = [said EXCEPT ![c] = reply]

-----------------------------------------------------------------------------
(* The startup check *)

Record(c, row) == checks' = [checks EXCEPT ![c] = row]

Begin(c) ==
    /\ phase = "query" /\ checks[c] = NoRow /\ Call(c)
    /\ UNCHANGED <<phase, cancelled, startupVars, commandVars, said>>

durationMillis(ms) == IF ms <= 0 THEN 0 ELSE ms

\* capacity_exhausted
Exhausted(c) == Record(c, Retry("capacity_exhausted", durationMillis(250)))

CheckDenied(c) ==
    /\ phase = "query" /\ L!retryAfter(c) /\ Exhausted(c)
    /\ UNCHANGED <<phase, cancelled, unsaved, firstSaveErr, stored, commandVars, said>>

\* Mutant: a temporary failure is retried until it is gone.
RetriedRow(answer) == IF answer.error.temporary THEN NoRow ELSE Checked(answer.atomic)
\* The row check() makes of an answer.
RowOf(answer) ==
    IF answer.error # NoError THEN Retry(answer.error.code, durationMillis(answer.error.after))
    ELSE IF answer.atomic < 0 THEN Retry("response_decode_error", 0)
    ELSE Checked(answer.atomic)

CheckAnswered(c) ==
    /\ phase = "query"
    /\ \E reply \in Replies : Answered(c, reply) /\ Record(c, RowOf(Check(c, reply)))
    /\ UNCHANGED <<phase, cancelled, unsaved, firstSaveErr, stored, commandVars>>

\* waitGroup.Wait returns.
AllChecked ==
    /\ phase = "query" /\ \A c \in ChainNames : checks[c] # NoRow
    /\ phase' = "save" /\ unsaved' = ChainNames
    /\ UNCHANGED <<limiterVars, cancelled, checks, firstSaveErr, stored, commandVars, said>>

\* Mutant: only the last save decides.
LastSaveErr(failed) == failed
\* if err != nil && firstSaveErr == nil
FirstSaveErr(failed) == firstSaveErr \/ failed

\* SaveWalletBalanceCheck of the next result.  A failure does not keep the
\* others from being saved; a cancelled context makes it fail.
SaveWalletBalanceCheck(c) ==
    /\ phase = "save" /\ c \in unsaved /\ \A d \in unsaved : Position(c) <= Position(d)
    /\ unsaved' = unsaved \ {c}
    /\ \/ ~cancelled /\ stored' = stored \cup {c} /\ firstSaveErr' = FirstSaveErr(FALSE)
       \/ UNCHANGED stored /\ firstSaveErr' = FirstSaveErr(TRUE)
    /\ UNCHANGED <<limiterVars, phase, cancelled, checks, commandVars, said>>

\* RunOnce returns, with or without an error that is only logged.  Nothing in
\* the process reads its rows again.
RunOnceReturns ==
    /\ phase = "save" /\ unsaved = {}
    /\ phase' = Listening
    /\ checks' = [c \in ChainNames |-> NoRow] /\ firstSaveErr' = FALSE /\ stored' = {}
    /\ said' = [c \in ChainNames |-> NoReply]
    /\ UNCHANGED <<limiterVars, cancelled, unsaved, commandVars>>

-----------------------------------------------------------------------------
(* The balance API *)

\* importer.NormalizeAndValidate on the shapes of addresses: what it returns.
\* TRON and old Bitcoin addresses are base58 strings of a length that it
\* takes for a Solana address too.
NormalizeAndValidate(addressType, address) ==
    CASE addressType = TypeEVM /\ address \in {"evm", "evm_mixed_case"} -> "evm"
      [] addressType = TypeBTC /\ address \in {"btc_base58", "btc_bech32"} -> address
      [] addressType = TypeSOL /\ address \in {"sol", "trx", "btc_base58"} -> address
      [] addressType = TypeTRX /\ address = "trx" -> address
      [] OTHER -> "invalid"

chainAllowed(addressType, c) == c \in chainsFor(addressType)

\* The checks of HandleBalance in their order; "" if the request passes.
Rejection(r, c) ==
    IF r.method # "POST" THEN "method_not_allowed"
    ELSE IF ~r.authorized THEN "unauthorized"
    ELSE IF ~r.json THEN "invalid_json"
    ELSE IF NormalizeAndValidate(r.addressType, r.address) = "invalid" THEN "invalid_address"
    ELSE IF ~chainAllowed(r.addressType, c) THEN "invalid_chain"
    ELSE ""

\* Mutant: full seconds only.
RoundedDown(ms) == ms \div 1000
\* writeRetry: the header Retry-After, rounded up to full seconds.
Seconds(ms) == (ms + 999) \div 1000

\* The answer HandleBalance writes for what the provider returned.
AnswerOf(answer) ==
    IF answer.error = NoError THEN Checked(answer.atomic)
    ELSE IF ~answer.error.temporary THEN Retry(answer.error.code, 0)
    ELSE Retry(answer.error.code, Seconds(IF answer.error.after <= 0 THEN 1000 ELSE answer.error.after))

\* The answer reaches the client if that still waits for it.
Respond(c, result) ==
    results' = IF results[c] = Waiting THEN [results EXCEPT ![c] = result] ELSE results

\* No slot within the queue wait: 429, with a hint of 250 ms.
HandlerDenied(c) ==
    /\ phase = "serving" /\ L!retryAfter(c)
    /\ Respond(c, Retry("capacity_exhausted", Seconds(250)))
    /\ UNCHANGED <<phase, cancelled, startupVars, exit, said>>

HandlerAnswered(c) ==
    /\ phase = "serving"
    /\ \E reply \in Replies : Answered(c, reply) /\ Respond(c, AnswerOf(Check(c, reply)))
    /\ UNCHANGED <<phase, cancelled, startupVars, exit>>

-----------------------------------------------------------------------------
(* The command: scanGeneratedWallet and balanceclient.Check *)

\* A request cannot be delivered, is rejected, or starts a handler.  One that
\* finds no server listening yet or any more fails like the undelivered one.
Send(c) ==
    /\ exit = "none" /\ results[c] = NoRow /\ phase = "serving"
    /\ \/ /\ results' = [results EXCEPT ![c] = ClientError("connection_error")]
          /\ UNCHANGED limiterVars
       \/ \E r \in Requests :
            /\ Rejection(r, c) # ""
            /\ results' = [results EXCEPT ![c] = Rejected(Rejection(r, c))]
            /\ UNCHANGED limiterVars
       \/ /\ \E r \in Requests : Rejection(r, c) = ""
          /\ results' = [results EXCEPT ![c] = Waiting]
          /\ Call(c)
    /\ UNCHANGED <<phase, cancelled, startupVars, exit, said>>

\* The client's timeout passes, the connection breaks, or the answer cannot
\* be decoded.
GiveUp(c) ==
    /\ results[c] = Waiting
    /\ results' = [results EXCEPT ![c] = ClientError("connection_error")]
    /\ UNCHANGED <<limiterVars, phase, cancelled, startupVars, exit, said>>

\* Mutant: only a request without an answer counts as failed.
OnlyErrorsFail(c) == results[c].state = "client_error"
\* errorsByIndex[index] != nil || result.State != "checked"
QueryFailed(c) == results[c].state # "checked"

\* scanGeneratedWallet returns.
Exit ==
    /\ exit = "none" /\ \A c \in ChainNames : results[c] \notin {NoRow, Waiting}
    /\ exit' = IF \E c \in ChainNames : QueryFailed(c) THEN "failed" ELSE "ok"
    /\ UNCHANGED <<limiterVars, phase, cancelled, startupVars, results, said>>

-----------------------------------------------------------------------------
(* Time and the end of the process *)

IntervalElapses ==
    /\ phase # "stopped"
    /\ L!GlobalIntervalElapses \/ \E c \in ChainNames : L!IntervalElapses(c)
    /\ UNCHANGED <<phase, cancelled, startupVars, commandVars, said>>

\* The signal, before the server listens; after that it is Stop.
Signal ==
    /\ phase \in {"start", "insert", "query", "save"} /\ ~cancelled /\ cancelled' = TRUE
    /\ UNCHANGED <<limiterVars, phase, startupVars, commandVars, said>>

\* runService returns on the signal or because the server cannot listen; it
\* does not wait for handlers.  A kill ends the process in any phase.
Stop ==
    /\ phase # "stopped" /\ phase' = "stopped"
    /\ UNCHANGED <<limiterVars, cancelled, startupVars, commandVars, said>>

Startup == Configured \/ InsertAddressesWithIDs \/ AllChecked \/ RunOnceReturns

Goroutine(c) ==
    \/ Register(c) \/ Begin(c) \/ CheckDenied(c) \/ CheckAnswered(c)
    \/ SaveWalletBalanceCheck(c)
    \/ HandlerDenied(c) \/ HandlerAnswered(c)
    \/ Within(L!Acquire(c)) \/ Within(L!Wake(c)) \/ Within(L!DeadlinePasses(c)) \/ Cancel(c)

Next ==
    \/ Startup
    \/ \E c \in ChainNames : Goroutine(c) \/ Send(c) \/ GiveUp(c)
    \/ Exit \/ IntervalElapses \/ Signal \/ Stop

Spec == Init /\ [][Next]_vars

\* Goroutines are scheduled, timers fire, the database answers, and the HTTP
\* client of the providers ends a query after REQUEST_TIMEOUT_SECONDS.  The
\* connection to a process that is gone breaks.
FairSpec ==
    /\ Spec
    /\ WF_vars(Startup)
    /\ \A c \in ChainNames :
         /\ WF_vars(Register(c)) /\ WF_vars(Begin(c))
         /\ WF_vars(CheckDenied(c)) /\ WF_vars(CheckAnswered(c))
         /\ WF_vars(SaveWalletBalanceCheck(c))
         /\ WF_vars(HandlerDenied(c)) /\ WF_vars(HandlerAnswered(c))
         /\ WF_vars(Within(L!Acquire(c))) /\ WF_vars(Within(L!Wake(c)))
         /\ WF_vars(Within(L!DeadlinePasses(c)))
         /\ WF_vars(phase = "stopped" /\ GiveUp(c))

-----------------------------------------------------------------------------
(* Properties *)

\* The error codes of providers, limiter, API and client; "" for none.
Codes == {"", "timeout", "connection_error", "rate_limited", "provider_unhealthy", "rpc_error",
          "response_decode_error", "capacity_exhausted", "method_not_allowed", "unauthorized",
          "invalid_json", "invalid_address", "invalid_chain"}
Rows == [state : {"none", "waiting", "checked", "retry", "rejected", "client_error"},
         code : Codes, atomic : Int, hint : Int]

(* Every variable holds a value its Go type or column allows.              *)
TypeOK ==
    /\ L!TypeOK
    /\ phase \in {"start", "insert", "query", "save", "serving", "stopped"}
    /\ cancelled \in BOOLEAN /\ firstSaveErr \in BOOLEAN
    /\ checks \in [ChainNames -> Rows] /\ stored \in SUBSET ChainNames
    /\ unsaved \in SUBSET ChainNames
    /\ results \in [ChainNames -> Rows] /\ exit \in {"none", "ok", "failed"}
    /\ said \in [ChainNames -> [kind : ReplyKinds \cup {"none"}, after : Int]]

(* The startup check, the handlers, vanishing clients and signals use the  *)
(* limiter as its specification allows: every step of the service is a     *)
(* step of it or leaves it alone.  In particular each path of a query      *)
(* gives its slot back exactly once.                                       *)
ImplementsLimiter == L!Spec

(* Startup check and API together never have more requests in flight than  *)
(* API_MAX_IN_FLIGHT.                                                      *)
ImplementsInFlight == L!ImplementsInFlight

\* What the row says of the balance is what the node said.
Truthful(c, row) ==
    row.state = "checked" =>
        Says(c, said[c]) = IF row.atomic > 0 THEN "positive" ELSE "zero"

(* README "A provider timeout, rate limit, or RPC error is never treated   *)
(* as a zero balance": whatever the startup check records, and then        *)
(* stores, and the API answers as checked, the node said, in the reply to  *)
(* this very query.                                                        *)
NoFalseZero ==
    \A c \in ChainNames :
        Truthful(c, checks[c]) /\ Truthful(c, results[c])

(* RunOnce "stores every result": if it returns no error, there is a row   *)
(* for every target, the failed ones included, whichever queries found no  *)
(* slot, saves failed and whenever the signal came.                        *)
AllResultsStored ==
    phase = "save" /\ unsaved = {} /\ ~firstSaveErr => stored = ChainNames

(* A startup query is given up for lack of a slot only while the initial   *)
(* limit is taken by others, so at least that many targets are queried:    *)
(* all of them only if the limit is no less than their number.             *)
StartupUsesItsSlots ==
    phase \in {"query", "save"} =>
        Cardinality({c \in ChainNames : checks[c].code = "capacity_exhausted"})
            <= IF Initial < Cardinality(ChainNames) THEN Cardinality(ChainNames) - Initial ELSE 0

(* A caller that waits as long as Retry-After says does not come back      *)
(* before the node wants it to, and is always told to wait when it is to   *)
(* try again because of a limit.                                           *)
HintsHonoured ==
    \A c \in ChainNames :
        /\ results[c].code = "rate_limited" => results[c].hint * 1000 >= said[c].after
        /\ results[c].code \in {"rate_limited", "capacity_exhausted"} => results[c].hint > 0

(* generate --scan succeeds only if a node gave a balance for every chain: *)
(* no rejection, failure or lost answer hides behind exit code zero.       *)
ExitMeansAllKnown ==
    exit = "ok" => \A c \in ChainNames : Says(c, said[c]) \in {"positive", "zero"}

(* The startup check returns, whatever nodes, limiter, database and signal *)
(* do, so that the server listens.                                         *)
StartupReturns == phase = "start" ~> phase \in {"serving", "stopped"}

(* Every request accepted is answered or loses its connection, without the *)
(* client's own timeout.                                                   *)
CallersAnswered == \A c \in ChainNames : results[c] = Waiting ~> results[c] # Waiting
=============================================================================
