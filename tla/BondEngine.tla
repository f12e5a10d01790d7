----------------------------- MODULE BondEngine -----------------------------
(***************************************************************************)
(* The pricing engine of Polish savings bonds,                             *)
(* plugins/openbb_obligacje/openbb_obligacje/engine.py: price_series walks *)
(* the days of a range and values the bond on each.                        *)
(*                                                                         *)
(* Money is in grosze, a rate in 1/Unit a year, a day is counted from the  *)
(* issue.  The k-th annual period runs from Boundary[k - 1] to             *)
(* Boundary[k]; the calendar decides how long it is.  The inflation that   *)
(* counts for a period is that of the month before it.  Divisions are      *)
(* exact up to the rounding to a grosz, as those of Decimal.  The store    *)
(* leaves first_rate at None, so it is not modelled.                       *)
(***************************************************************************)
EXTENDS Integers, Sequences

CONSTANTS Bonds,     \* [code, rule, margin, fee_b]
          Nominal, Unit,
          Periods,   \* annual periods of every series but OTS
          Boundary,
          OtsMonths, \* term_months of OTS
          Inflation, \* what a CPI observation may say
          Missing,   \* no observation
          Dates      \* first and last days a request may ask for

(* The series codes that stand for the eight of the catalogue. *)
Codes == {"OTS", "EDO", "COI", "ROR"}
Rules == {"fixed", "cpi_12m+margin", "nbp_ref+margin"}

Histories == [1 .. Periods -> Inflation \cup {Missing}]

ASSUME EngineAssumption ==
  /\ Bonds # {}
  /\ Bonds \subseteq [code : Codes, rule : Rules, margin : Nat, fee_b : Nat]
  /\ \A b \in Bonds : b.code = "OTS" => b.rule = "fixed"
  /\ Nominal \in Nat /\ Unit \in Nat \ {0}
  /\ Periods \in Nat \ {0}
  /\ Boundary \in [0 .. Periods -> Nat]
  /\ Boundary[0] = 0 /\ \A k \in 1 .. Periods : Boundary[k - 1] < Boundary[k]
  /\ OtsMonths \in 1 .. 12
  /\ Inflation \subseteq Int /\ Missing \notin Inflation
  /\ Dates \subseteq Int

VARIABLES
  phase,   \* idle, asked, walking, priced, refused
  bond, cpi,
  start, end,  \* the range asked for
  high,        \* its last day inside the term
  day,         \* the day to value next
  closes       \* the close of each day valued so far

request == <<bond, cpi, start, end>>
vars == <<phase, request, high, day, closes>>

SomeBond == CHOOSE b \in Bonds : TRUE
NoHistory == [k \in 1 .. Periods |-> Missing]

Init ==
  /\ phase = "idle"
  /\ bond = SomeBond /\ cpi = NoHistory
  /\ start = 0 /\ end = 0 /\ high = 0 /\ day = 0
  /\ closes = <<>>

-----------------------------------------------------------------------------
(* The calendar. *)

Capitalized(b) == b.code = "EDO"

Count(b) == IF b.code = "OTS" THEN 1 ELSE Periods

Maturity(b) == Boundary[Count(b)]

(* _period_at: the annual period a day before maturity is in. *)
PeriodAt(d) == CHOOSE k \in 1 .. Periods : Boundary[k - 1] <= d /\ d < Boundary[k]

-----------------------------------------------------------------------------
(* Rates. *)

Larger(a, b) == IF a >= b THEN a ELSE b
Smaller(a, b) == IF a <= b THEN a ELSE b

(* n / d rounded half up, for n >= 0. *)
Rounded(n, d) == (2 * n + d) \div (2 * d)

(* rate_for_period knows the rate of the k-th period. *)
Known(b, h, k) ==
  \/ b.rule = "fixed"
  \/ b.rule = "cpi_12m+margin" /\ h[k] # Missing

(* Deflation counts as no inflation. *)
Rate(b, h, k) == IF b.rule = "fixed" THEN b.margin ELSE Larger(h[k], 0) + b.margin

Months(b) == IF b.code = "OTS" THEN OtsMonths ELSE 12

-----------------------------------------------------------------------------
(* Values. *)

(* MUTANT: the capital is rounded down. *)
Capital_Truncated(b, h) ==
  LET K[k \in 0 .. Periods] ==
        IF k = 0 THEN Nominal
                 ELSE (K[k - 1] * (12 * Unit + Months(b) * Rate(b, h, k))) \div (12 * Unit)
  IN  K

(* capitalized_value: what the nominal has grown to after k periods. *)
Capital(b, h) ==
  LET K[k \in 0 .. Periods] ==
        IF k = 0 THEN Nominal
                 ELSE Rounded(K[k - 1] * (12 * Unit + Months(b) * Rate(b, h, k)), 12 * Unit)
  IN  K

(* What an earlier period has added to the capital. *)
Base(b, h, k) == IF Capitalized(b) THEN Capital(b, h)[k - 1] ELSE Nominal

(* accrued_interest in the k-th period, before maturity. *)
Accrued(b, h, k, d) ==
  LET act == Boundary[k] - Boundary[k - 1]
      prior == Base(b, h, k) - Nominal
  IN  Rounded(prior * Unit * act + Base(b, h, k) * Rate(b, h, k) * (d - Boundary[k - 1]),
              Unit * act)

(* MUTANT: the fee is capped in the first period only. *)
Fee_FirstOnly(b, k, interest) == IF k = 1 THEN Smaller(b.fee_b, interest) ELSE b.fee_b

(* The fee for early redemption. *)
Fee(b, k, interest) ==
  IF Capitalized(b) \/ k = 1 THEN Smaller(b.fee_b, interest) ELSE b.fee_b

(* redemption_value *)
Value(b, h, d) ==
  LET k == PeriodAt(d)
      interest == Accrued(b, h, k, d)
      paid == Nominal + interest - Fee(b, k, interest)
  IN  CASE d = Maturity(b) -> Capital(b, h)[Count(b)]
        [] d < Maturity(b) /\ b.code = "OTS" -> Nominal
        [] OTHER -> IF k = 1 THEN Larger(paid, Nominal) ELSE paid

(* The periods whose rates the value of a day consults. *)
Needs(b, d) ==
  CASE d = Maturity(b) -> 1 .. Count(b)
    [] d < Maturity(b) /\ b.code = "OTS" -> {}
    [] OTHER -> IF Capitalized(b) THEN 1 .. PeriodAt(d) ELSE {PeriodAt(d)}

-----------------------------------------------------------------------------
(* price_series *)

(* A request for a bond of the catalogue over the history as it stands. *)
Ask ==
  /\ phase = "idle"
  /\ phase' = "asked"
  /\ bond' \in Bonds /\ cpi' \in Histories
  /\ bond'.rule # "cpi_12m+margin" => cpi' = NoHistory
  /\ start' \in Dates /\ end' \in Dates
  /\ UNCHANGED <<high, day, closes>>

Low == Larger(start, 0)

(* MUTANT: the end of the range is not clamped to the maturity. *)
Walk_Unclamped ==
  /\ phase = "asked" /\ Known(bond, cpi, 1)
  /\ high' = end /\ day' = Low
  /\ phase' = IF high' < Low THEN "priced" ELSE "walking"
  /\ UNCHANGED <<request, closes>>

(* _validate_rate_schedule passes, and the range is clamped to the term.   *)
Walk ==
  /\ phase = "asked" /\ Known(bond, cpi, 1)
  /\ high' = Smaller(end, Maturity(bond)) /\ day' = Low
  /\ phase' = IF high' < Low THEN "priced" ELSE "walking"
  /\ UNCHANGED <<request, closes>>

(* A rule the engine cannot price, or no inflation for the first period:   *)
(* the request fails whatever its range.                                   *)
NotPriceable ==
  /\ phase = "asked" /\ ~Known(bond, cpi, 1)
  /\ phase' = "refused"
  /\ UNCHANGED <<request, high, day, closes>>

PriceDay ==
  /\ phase = "walking" /\ day <= high
  /\ \A k \in Needs(bond, day) : Known(bond, cpi, k)
  /\ closes' = Append(closes, Value(bond, cpi, day))
  /\ day' = day + 1
  /\ UNCHANGED <<phase, request, high>>

(* MUTANT: the days before the gap are returned. *)
Gap_EndsRange ==
  /\ phase = "walking" /\ day <= high
  /\ \E k \in Needs(bond, day) : ~Known(bond, cpi, k)
  /\ phase' = "priced"
  /\ UNCHANGED <<request, high, day, closes>>

(* BondRateError: the days already valued are lost. *)
Gap ==
  /\ phase = "walking" /\ day <= high
  /\ \E k \in Needs(bond, day) : ~Known(bond, cpi, k)
  /\ phase' = "refused"
  /\ closes' = <<>>
  /\ UNCHANGED <<request, high, day>>

Finish ==
  /\ phase = "walking" /\ day > high
  /\ phase' = "priced"
  /\ UNCHANGED <<request, high, day, closes>>

Forget ==
  /\ phase \in {"priced", "refused"}
  /\ phase' = "idle"
  /\ bond' = SomeBond /\ cpi' = NoHistory
  /\ start' = 0 /\ end' = 0 /\ high' = 0 /\ day' = 0
  /\ closes' = <<>>

Next == Ask \/ Walk \/ NotPriceable \/ PriceDay \/ Gap \/ Finish \/ Forget

Spec == Init /\ [][Next]_vars

-----------------------------------------------------------------------------
(* Properties. *)

(* Days stay in the term; a walk has one close for each day it passed.     *)
TypeOK ==
  /\ phase \in {"idle", "asked", "walking", "priced", "refused"}
  /\ bond \in Bonds /\ cpi \in Histories
  /\ start \in Dates \cup {0} /\ end \in Dates \cup {0}
  /\ high \in Int /\ high <= Maturity(bond) /\ day \in Int
  /\ closes \in Seq(Int)
  /\ phase = "walking" => Low <= day /\ day <= high + 1 /\ Len(closes) = day - Low

(* A bond redeemed early never pays less than was paid for it: not in its  *)
(* first period, and never if it capitalises, however low the rates, the   *)
(* fee of every period included (engine.py:35-40, 271-275).                *)
NeverBelowNominal ==
  \A i \in 1 .. Len(closes) :
    Capitalized(bond) \/ Low + i - 1 < Boundary[1] => closes[i] >= Nominal

(* Who redeems a day later gets at least as much: across the ends of the   *)
(* periods and up to maturity, although capital, accrual and fee are       *)
(* rounded and capped on their own.  Interest that is paid out is gone at  *)
(* the end of its period (engine.py:205-276).                              *)
WaitingPays ==
  \A i \in 1 .. Len(closes) - 1 :
    LET next == Low + i
        paidOut == bond.code \in {"COI", "ROR"} /\ \E k \in 1 .. Periods - 1 : next = Boundary[k]
    IN  paidOut \/ closes[i] <= closes[i + 1]

(* A period of the range without an inflation figure makes the request     *)
(* fail, and a request fails only if a figure is missing up to the end of  *)
(* its range, or for the first period (engine.py:294-299).                 *)
GapsAreReported ==
  LET gaps == {k \in 1 .. Periods : ~Known(bond, cpi, k)}
      covered == {k \in 1 .. Count(bond) : Boundary[k - 1] <= high /\ Low < Boundary[k]}
  IN  /\ phase = "priced" /\ Low <= high => gaps \cap covered = {}
      /\ phase = "refused" => \E k \in gaps : k = 1 \/ Boundary[k - 1] <= high

-----------------------------------------------------------------------------
(* What the repository says and the code does not do. *)

(* engine.py:29-31: "OTS and COI accrue interest on the flat 100 PLN       *)
(* nominal (COI pays it out annually)", so at maturity only the last       *)
(* period's interest is left to pay.                                       *)
PaidOutYearly ==
  bond.code = "COI" /\ closes # <<>> /\ Low + Len(closes) - 1 = Maturity(bond) =>
    closes[Len(closes)] =
      Nominal + Rounded(Nominal * Rate(bond, cpi, Periods), Unit)

=============================================================================
