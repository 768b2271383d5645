------------------------------ MODULE MCPoolQuotes ------------------------------
EXTENDS PoolQuotes

SmallAmounts == 0..7

AllAssets ==
    [network : {"testnet"},
     asset_type : {"native", "issued_asset", "contract_token"},
     symbol : {"XLM", "USDC"}, issuer : {None, "G1"}, contract : {None, "C1", "C2"}]

Native ==
    [network |-> "testnet", asset_type |-> "native", symbol |-> "XLM",
     issuer |-> None, contract |-> None]

\* An issued asset with the address of its contract.
Wrapped1 ==
    [network |-> "testnet", asset_type |-> "issued_asset", symbol |-> "USDC",
     issuer |-> "G1", contract |-> "C1"]
=============================================================================
