--------------------------- MODULE MCBridgeHealth ---------------------------
(* BridgeHealth for TLC.  One entry per section and one that the parser    *)
(* skipped; the rebuilt peers may lack the target of the second.           *)
EXTENDS BridgeHealth
CONSTANTS Speed, Telltale, Typo
MCToVss == {Speed}
MCToCan == {Telltale}
MCMalformed == {Typo}
MCCatalogs == {{Speed, Telltale}, {Speed}}
MCFullCatalog == {{Speed, Telltale}}
=============================================================================
