--------------------------- MODULE MCProviderWalk ---------------------------
(* Finite instances of ProviderWalk for TLC: short provider lists that     *)
(* keep the overlaps of the real ones.  Of the two providers one prices in *)
(* pence and the other has forecasts, so each stands for the rest where    *)
(* the other is special.                                                   *)
EXTENDS ProviderWalk, TLC

CONSTANTS yfinance, dividendmax

ShortOrder ==
  [price       |-> <<yfinance, dividendmax>>,
   unit        |-> <<yfinance>>,
   statement   |-> <<dividendmax>>,
   record      |-> <<yfinance>>,
   crypto      |-> <<yfinance>>,
   pair        |-> <<yfinance>>,
   supply      |-> <<dividendmax>>,
   logo        |-> <<yfinance>>,
   projections |-> <<yfinance>>,
   splits      |-> <<dividendmax>>,
   merged      |-> <<dividendmax, yfinance>>,
   dividends   |-> <<yfinance, dividendmax>>,
   yield       |-> <<yfinance>>,
   check       |-> <<yfinance, dividendmax>>]

ThreadSymmetry == Permutations(Threads)

=============================================================================
