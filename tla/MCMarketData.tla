---------------------------- MODULE MCMarketData ----------------------------
\* Routes as PUNCH_MARKET_ROUTE_* may set them: three short ones for two
\* threads, one with every adapter for one thread, and the shares of DEFAULT_ROUTES.
EXTENDS MarketData

MCClassSeq == <<"CRYPTO", "EQUITY", "FUTURE">>
MCRoutes == "CRYPTO" :> <<"coingecko", "binance">>
         @@ "EQUITY" :> <<"upstox", "alpaca">>
         @@ "FUTURE" :> <<"dhan", "angel">>

MCAllClassSeq == <<"CRYPTO", "EQUITY", "FOREX", "FUTURE">>
MCAllRoutes == "CRYPTO" :> <<"binance", "coingecko">>
            @@ "EQUITY" :> <<"alpaca", "twelve_data">>
            @@ "FOREX" :> <<"twelve_data", "alpha_vantage">>
            @@ "FUTURE" :> <<"dhan", "upstox", "angel">>

MCShares == <<"EQUITY">>
MCShareRoutes ==
    "EQUITY" :> <<"dhan", "alpaca", "upstox", "angel", "twelve_data", "alpha_vantage">>

=============================================================================
