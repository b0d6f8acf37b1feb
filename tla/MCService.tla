----------------------------- MODULE MCService ------------------------------
(* Instances of Service for TLC. *)
EXTENDS Service

Good(addressType, address) ==
    [method |-> "POST", authorized |-> TRUE, json |-> TRUE,
     addressType |-> addressType, address |-> address]

\* What the command sends, with and without the right key.
CommandRequests ==
    {Good(TypeEVM, "evm_mixed_case"), Good(TypeSOL, "sol"),
     [Good(TypeEVM, "evm_mixed_case") EXCEPT !.authorized = FALSE]}
TRONRequests == {Good(TypeTRX, "trx")}
=============================================================================
