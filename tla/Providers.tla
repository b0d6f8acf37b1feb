----------------------------- MODULE Providers ------------------------------
(***************************************************************************)
(* The chain providers (internal/providers): what a provider makes of the  *)
(* answer of its node.  A reply is abstracted to the cases the code tells  *)
(* apart, or fails to tell apart:                                          *)
(*   positive, zero    a 2xx answer with such a balance                    *)
(*   below_zero        a 2xx answer with a negative balance: "0x-1", a     *)
(*                     negative number, more spent than funded             *)
(*   empty             a 2xx JSON object without a balance                 *)
(*   rpc_error         a 2xx JSON object that reports an error             *)
(*   rpc_busy          the same, with one of the codes -32005 and -32016   *)
(*   malformed         a 2xx answer that is not such an object, or whose   *)
(*                     body does not arrive in time                        *)
(*   http_4xx          another status outside 2xx                          *)
(*   http_5xx, rate_limited, timeout, disconnected                         *)
(* after is the value of Retry-After in milliseconds, zero if there is     *)
(* none the code can parse.                                                *)
(***************************************************************************)
EXTENDS Integers, Domain

ReplyKinds == {"positive", "zero", "below_zero", "empty", "rpc_error", "rpc_busy", "malformed",
               "http_4xx", "http_5xx", "rate_limited", "timeout", "disconnected"}

EVMChains == chainsFor(TypeEVM)

NoError == [code |-> "", temporary |-> FALSE, after |-> 0]
providerError(code, temporary) == [NoError EXCEPT !.code = code, !.temporary = temporary]

Found(atomic) == [error |-> NoError, atomic |-> atomic]
Failed(error) == [error |-> error, atomic |-> 0]

\* The body has the shape of the chain's response type: lamports and sun are
\* unsigned numbers.
Decodes(chain, reply) ==
    reply.kind # "malformed" /\ ~(reply.kind = "below_zero" /\ chain \in {ChainSolana, ChainTRON})

\* HTTPClient.request, up to the decoded body.
request(chain, reply) ==
    CASE reply.kind = "timeout" -> providerError("timeout", TRUE)
      [] reply.kind = "disconnected" -> providerError("connection_error", TRUE)
      [] reply.kind = "rate_limited" ->
           [providerError("rate_limited", TRUE) EXCEPT !.after = reply.after]
      [] reply.kind = "http_5xx" -> providerError("provider_unhealthy", TRUE)
      [] reply.kind = "http_4xx" -> providerError("rpc_error", FALSE)
      [] ~Decodes(chain, reply) -> providerError("response_decode_error", FALSE)
      [] OTHER -> NoError

\* The number the code reads in a decoded body: a missing one is zero.
Atomic(reply) == CASE reply.kind = "positive" -> 1 [] reply.kind = "below_zero" -> -1 [] OTHER -> 0

ReportsError(reply) == reply.kind \in {"rpc_error", "rpc_busy"}

\* Mutant: the error member of an answer is not looked at.
CheckEVMIgnoringErrors(reply) == Found(Atomic(reply))

CheckEVM(reply) ==
    IF ReportsError(reply)
      THEN Failed(providerError("rpc_error", reply.kind = "rpc_busy"))
      ELSE Found(Atomic(reply))

CheckSolana(reply) ==
    IF ReportsError(reply) THEN Failed(providerError("rpc_error", TRUE)) ELSE Found(Atomic(reply))

\* Funded minus spent, not below zero.  No member of the answer reports errors.
CheckBTC(reply) == Found(IF Atomic(reply) < 0 THEN 0 ELSE Atomic(reply))

\* No member of the answer reports errors.
CheckTRON(reply) == Found(Atomic(reply))

\* provider.Check of the provider configured for the chain.
Check(chain, reply) ==
    LET error == request(chain, reply)
    IN  IF error # NoError
          THEN Failed(error)
          ELSE CASE chain \in EVMChains -> CheckEVM(reply)
                 [] chain = ChainSolana -> CheckSolana(reply)
                 [] chain = ChainBTC -> CheckBTC(reply)
                 [] chain = ChainTRON -> CheckTRON(reply)

\* Reference: what the node said of the balance.  A TRON node answers {} for
\* an account it does not know; from any other node that is no balance.
Says(chain, reply) ==
    CASE reply.kind = "positive" -> "positive"
      [] reply.kind = "zero" -> "zero"
      [] reply.kind = "empty" /\ chain = ChainTRON -> "zero"
      [] OTHER -> "nothing"
=============================================================================
