-------------------------- MODULE MCGatewaySession --------------------------
EXTENDS GatewaySession

MCSymbols == <<"S1">>
MCAccountFeeds == <<"positions">>
MCNoFeeds == <<>>
=============================================================================
