--------------------------- MODULE MCPriceStream ---------------------------
(***************************************************************************)
(* PriceStream for TLC: both implementations, every exchange, the ring     *)
(* channel of capacity one that create_receiver builds.                    *)
(***************************************************************************)
EXTENDS PriceStream

MCCrates == {"core", "external_events"}

MCExchanges == {"Binance", "Coinbase", "Kraken", "Okx", "UniswapV3"}

=============================================================================
