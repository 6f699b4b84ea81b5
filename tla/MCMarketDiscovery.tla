------------------------- MODULE MCMarketDiscovery -------------------------
\* The instance of MarketDiscovery for TLC: a market that the allowlist names
\* twice, one that it names by an id and that has no condition id, and one that
\* it names by its condition id only.
EXTENDS MarketDiscovery, TLC

Raw(slug, conditionId, id) == [slug |-> slug, conditionId |-> conditionId, id |-> id]

MCMarkets == {Raw("cuts", "0xa", "11"), Raw("rain", Absent, "12"),
              Raw("snow", "0xc", "13")}

MCAllowlist == <<"cuts", "0xa", "12", "0xc">>

MCShape == [cuts |-> "name"] @@ ("0xa" :> "hex") @@ ("12" :> "digits") @@ ("0xc" :> "hex")

ASSUME MCUnambiguous == Unambiguous
=============================================================================
