------------------------------- MODULE Domain -------------------------------
(***************************************************************************)
(* The vocabulary the components share: the address types and chains of    *)
(* internal/domain/domain.go and the chains an address of each type is     *)
(* queried on (scanner.go, chainsFor).                                     *)
(***************************************************************************)
EXTENDS Naturals

TypeEVM == "evm"
TypeBTC == "btc"
TypeSOL == "sol"
TypeTRX == "trx"

AddressTypes == {TypeEVM, TypeBTC, TypeSOL, TypeTRX}

ChainBTC      == "btc"
ChainEthereum == "ethereum"
ChainArbitrum == "arbitrum"
ChainBSC      == "bsc"
ChainSolana   == "solana"
ChainTRON     == "tron"

Chains == {ChainBTC, ChainEthereum, ChainArbitrum, ChainBSC, ChainSolana, ChainTRON}

(***************************************************************************)
(* The code walks a slice of chains; the model keeps the set and the rank  *)
(* of a chain in its slice, so that "the first chain still to handle" is   *)
(* the member of a set with the least rank.                                *)
(***************************************************************************)
chainsFor(addressType) ==
    CASE addressType = TypeEVM -> {ChainEthereum, ChainArbitrum, ChainBSC}
      [] addressType = TypeBTC -> {ChainBTC}
      [] addressType = TypeSOL -> {ChainSolana}
      [] addressType = TypeTRX -> {ChainTRON}
      [] OTHER -> {}

ChainRank(chain) ==
    CASE chain = ChainArbitrum -> 2
      [] chain = ChainBSC -> 3
      [] OTHER -> 1

\* chain comes first among cs in the order of the slice.
IsFirstChain(chain, cs) == chain \in cs /\ \A d \in cs : ChainRank(chain) <= ChainRank(d)
=============================================================================
