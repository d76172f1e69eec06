------------------------------ MODULE MCFinance ------------------------------
(* One account per provider; SimpleFIN signs in with a token.  *)
EXTENDS FinanceService

CONSTANTS daemon, r1, coinbase, snaptrade, simplefin, import, cb, st, sf, im

MCAccountsOf == [p \in Providers |->
                   CASE p = coinbase  -> <<cb>>
                     [] p = snaptrade -> <<st>>
                     [] p = simplefin -> <<sf>>
                     [] p = import    -> <<im>>]
MCSinceHonoured == {coinbase, snaptrade} \cap Providers
MCRegistry == SelectSeq(<<coinbase, snaptrade, simplefin>>, LAMBDA p : p \in Providers)
MCInScope == [scope \in SUBSET Providers |-> SelectSeq(MCRegistry, LAMBDA p : p \in scope)]
MCKeyed == {coinbase, snaptrade, import} \cap Providers
MCHoldingsFail == {snaptrade, import} \cap Providers
MCSecrets == {coinbase, snaptrade} \cap Providers
MCImports == SelectSeq(<<import>>, LAMBDA p : p \in Providers)
=============================================================================
