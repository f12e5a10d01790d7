---------------------------- MODULE MCServedWalk ----------------------------
(* A finite instance of ServedWalk for TLC: price histories of one London  *)
(* line, whose quote may lack a currency.                                  *)
EXTENDS ServedWalk, TLC

CONSTANTS yfinance, fmp

PriceRoute == [r \in {"symbol"} |-> "price"]

(* Only the lists of a price walk matter here. *)
OtherKinds == {"statement", "record", "crypto", "pair", "supply", "logo",
               "projections", "splits", "merged", "dividends", "yield", "check"}

TwoProviders ==
  "price" :> <<yfinance, fmp>> @@ "unit" :> <<fmp, yfinance>>
    @@ [k \in OtherKinds |-> <<yfinance, fmp>>]

=============================================================================
