---------------------------- MODULE ProviderWalk ----------------------------
(***************************************************************************)
(* The provider walks of src/src/openbb_client.py.  A request tries the    *)
(* providers of its group in order; worker threads walk concurrently and   *)
(* share three process-wide tables without a lock: until when a provider   *)
(* is blocked, whether a ticker pays dividends, and its currency.          *)
(*                                                                         *)
(* The walks differ in what they make of each answer:                      *)
(*   price        get_price_history, get_ohlcv_history                     *)
(*   unit         the quote walk of _symbol_currency, within a price walk  *)
(*   statement    the others that stop at an unknown symbol: statements,   *)
(*                earnings calendar, news, SEC filings                     *)
(*   record       those that go on: _single_record (profile, quote,        *)
(*                metrics), searches                                       *)
(*   crypto       get_crypto_ohlcv, get_crypto_quote                       *)
(*   pair         the quote walk of get_crypto_profile                     *)
(*   supply       _crypto_search_row, the tail of that walk                *)
(*   logo         get_logo: a CDN, then the providers for a web site       *)
(*   projections  get_projections: a record and one more call              *)
(*   splits       get_historical_splits: the first failure is the answer   *)
(*   merged       _merged_dividend_calendar: every provider contributes    *)
(*   dividends    get_dividend_history                                     *)
(*   yield        get_dividend_yield                                       *)
(*   check        _check_pays_dividend, the tail of a yield walk           *)
(* The providers are external: any call ends in data, an empty frame, a    *)
(* throttle, "unknown symbol" or another error; a currency that a quote    *)
(* declares is the line's own.  A provider whose API key is not set is not *)
(* in the list.                                                            *)
(***************************************************************************)
EXTENDS Naturals, Sequences

CONSTANTS Threads,
          Tickers,
          Payers,       \* the tickers some provider has dividends of
          London,       \* the tickers that end in .L
          PenceLines,   \* those of them that trade in pence
          Providers,
          Order,        \* the provider list of each kind of walk
          DividendMax,  \* the provider whose forecasts are merged in
          YFinance,     \* get_projections asks it again; prices in pence
          BlockTTL,     \* PROVIDER_BLOCK_HOURS in ticks
          Idle          \* no ticker, no result

Kinds == {"price", "unit", "statement", "record", "crypto", "pair", "supply", "logo",
          "projections", "splits", "merged", "dividends", "yield", "check"}

(* The walks that keep a flag of whether a provider answered. *)
Flagged == {"merged", "dividends", "yield", "check"}

(* The walks a request starts; the other three are tails of walks.         *)
EntryKinds == Kinds \ {"check", "unit", "supply"}

ASSUME WalkAssumption ==
  /\ Payers \subseteq Tickers
  /\ London \subseteq Tickers /\ PenceLines \subseteq London
  /\ Order \in [Kinds -> Seq(Providers)]
  /\ {DividendMax, YFinance} \subseteq Providers
  /\ BlockTTL \in Nat \ {0}

VARIABLES
  blocked,  \* ticks a provider stays blocked, 0 when it is not
  pays,     \* the entries of _pays_dividend: "yes", "no", or "untold" if absent
  currency, \* of _symbol_currency_cache: "pence", "major", or "untold"
  phase,    \* where a thread is in its walk
  kind,     \* the walk it runs
  ticker,   \* the ticker it runs it for
  pos,      \* index of the provider at hand
  got,      \* any_success, got_data, records: some provider answered
  result    \* what its last walk returned

shared == <<blocked, pays, currency>>
locals == <<phase, kind, ticker, pos, got, result>>
vars == <<shared, locals>>

Phases == {"idle", "consult", "call", "merge", "extra", "reread"}

(* Why a walk returned: it has data; the symbol has none; no provider had  *)
(* any; a yield of zero; the split history cannot be told; it did not      *)
(* return but raise.  Two more that the code cannot tell from data: rows   *)
(* left in pence, and rows in pounds or dollars that were divided by 100.  *)
(* Whether None or [] is returned is the function's own choice             *)
(* (Gateway!FetchOutcomes).                                                *)
Results == {"data", "pence", "shrunk", "empty", "none", "zero", "unavailable",
            "raised"}

ASSUME IdleAssumption == Idle \notin Tickers \cup Results

Init ==
  /\ blocked = [p \in Providers |-> 0]
  /\ pays = [x \in Tickers |-> "untold"]
  /\ currency = [x \in Tickers |-> "untold"]
  /\ phase = [t \in Threads |-> "idle"]
  /\ kind = [t \in Threads |-> "record"]
  /\ ticker = [t \in Threads |-> Idle]
  /\ pos = [t \in Threads |-> 1]
  /\ got = [t \in Threads |-> FALSE]
  /\ result = [t \in Threads |-> Idle]

-----------------------------------------------------------------------------
(* Helpers. *)

Provider(t) == Order[kind[t]][pos[t]]

AtEnd(t) == pos[t] > Len(Order[kind[t]])

(* The walk returns r and its locals are gone. *)
Return(t, r) ==
  /\ phase' = [phase EXCEPT ![t] = "idle"]
  /\ kind' = [kind EXCEPT ![t] = "record"]
  /\ ticker' = [ticker EXCEPT ![t] = Idle]
  /\ pos' = [pos EXCEPT ![t] = 1]
  /\ got' = [got EXCEPT ![t] = FALSE]
  /\ result' = [result EXCEPT ![t] = r]

(* continue: the next provider of the list. *)
Advance(t) ==
  /\ phase' = [phase EXCEPT ![t] = "consult"]
  /\ pos' = [pos EXCEPT ![t] = @ + 1]
  /\ UNCHANGED <<kind, ticker, result>>

Remember(t, v) == pays' = [pays EXCEPT ![ticker[t]] = v]

-----------------------------------------------------------------------------
(* Entering a walk. *)

Begin(t, k, x) ==
  /\ phase[t] = "idle"
  /\ ~(k \in {"dividends", "yield"} /\ pays[x] = "no")
  /\ phase' = [phase EXCEPT ![t] = "consult"]
  /\ kind' = [kind EXCEPT ![t] = k]
  /\ ticker' = [ticker EXCEPT ![t] = x]
  /\ result' = [result EXCEPT ![t] = Idle]
  /\ UNCHANGED <<shared, pos, got>>

(* Answered without a walk: a ticker that is recorded as a non-payer, a    *)
(* logo that the CDN has.                                                  *)
ShortCircuit(t, k, x) ==
  /\ phase[t] = "idle"
  /\ \/ /\ k \in {"dividends", "yield"} /\ pays[x] = "no"
        /\ Return(t, IF k = "yield" THEN "zero" ELSE "empty")
     \/ k = "logo" /\ Return(t, "data")
  /\ UNCHANGED shared

(* The caller is done with what its walk returned. *)
Dispose(t) ==
  /\ phase[t] = "idle"
  /\ result' = [result EXCEPT ![t] = Idle]
  /\ UNCHANGED <<shared, phase, kind, ticker, pos, got>>

(* A blocked provider is passed over. *)
PassOver(t) ==
  /\ phase[t] = "consult" /\ ~AtEnd(t) /\ blocked[Provider(t)] > 0
  /\ Advance(t)
  /\ UNCHANGED <<shared, got>>

Call(t) ==
  /\ phase[t] = "consult" /\ ~AtEnd(t) /\ blocked[Provider(t)] = 0
  /\ phase' = [phase EXCEPT ![t] = "call"]
  /\ UNCHANGED <<shared, kind, ticker, pos, got, result>>

-----------------------------------------------------------------------------
(* What a call may end in. *)

Throttled(t) ==
  /\ phase[t] = "call"
  /\ blocked' = [blocked EXCEPT ![Provider(t)] = BlockTTL]
  /\ Advance(t)
  /\ UNCHANGED <<pays, currency, got>>

(* MUTANT: a failed call is tried again. *)
Fails_Retries(t) ==
  /\ phase[t] = "call"
  /\ phase' = [phase EXCEPT ![t] = "consult"]
  /\ UNCHANGED <<shared, kind, ticker, pos, got, result>>

(* MUTANT: the next provider is called without going back to the loop. *)
Fails_CallsNext(t) ==
  /\ phase[t] = "call"
  /\ pos' = [pos EXCEPT ![t] = @ + 1]
  /\ UNCHANGED <<shared, phase, kind, ticker, got, result>>

Fails(t) ==
  /\ phase[t] = "call" /\ kind[t] # "splits"
  /\ Advance(t)
  /\ UNCHANGED <<shared, got>>

EmptyFrame(t) ==
  /\ phase[t] = "call" /\ kind[t] # "splits"
  /\ got' = [got EXCEPT ![t] = @ \/ kind[t] \in Flagged \ {"merged"}]
  /\ Advance(t)
  /\ UNCHANGED shared

(* A split history that is empty is confirmed; one that a provider fails   *)
(* to give is unavailable, and the next provider is not asked.             *)
SplitsSettled(t) ==
  /\ phase[t] = "call" /\ kind[t] = "splits"
  /\ \E r \in {"data", "empty", "unavailable"} : Return(t, r)
  /\ UNCHANGED shared

(* Each provider that answers adds its rows. *)
Contributes(t) ==
  /\ phase[t] = "call" /\ kind[t] = "merged"
  /\ got' = [got EXCEPT ![t] = TRUE]
  /\ Advance(t)
  /\ UNCHANGED shared

(* "Unknown symbol" stops the walk where the loop looks at _classify. *)
Unknown(t) ==
  /\ phase[t] = "call"
  /\ UNCHANGED <<blocked, currency>>
  /\ \/ /\ kind[t] \in {"record", "crypto", "pair", "supply", "logo", "projections",
                       "merged", "unit"}
        /\ Advance(t)
        /\ UNCHANGED <<pays, got>>
     \/ /\ kind[t] \in {"price", "statement"}
        /\ Return(t, "empty")
        /\ UNCHANGED pays
     \/ /\ kind[t] \in {"dividends", "yield", "check"}
        /\ Remember(t, "no")
        /\ Return(t, IF kind[t] = "dividends" THEN "empty" ELSE "zero")

Records(t) ==
  /\ phase[t] = "call" /\ kind[t] \in {"statement", "record"}
  /\ Return(t, "data")
  /\ UNCHANGED shared

(* The bars may lack a close: [] from get_crypto_ohlcv.  get_crypto_quote  *)
(* goes on then (EmptyFrame).                                              *)
CryptoBars(t) ==
  /\ phase[t] = "call" /\ kind[t] = "crypto"
  /\ \E r \in {"data", "empty"} : Return(t, r)
  /\ UNCHANGED shared

(* A pair that has a quote has a profile; another list is asked for its    *)
(* name and supply.                                                        *)
PairQuoted(t) ==
  /\ phase[t] = "call" /\ kind[t] = "pair"
  /\ phase' = [phase EXCEPT ![t] = "consult"]
  /\ kind' = [kind EXCEPT ![t] = "supply"]
  /\ pos' = [pos EXCEPT ![t] = 1]
  /\ UNCHANGED <<shared, ticker, got, result>>

(* The row of exactly this pair; a search without it goes on (EmptyFrame). *)
SupplyTold(t) ==
  /\ phase[t] = "call" /\ kind[t] = "supply"
  /\ Return(t, "data")
  /\ UNCHANGED shared

(* The first web site decides, also one without a host name. *)
WebsiteTold(t) ==
  /\ phase[t] = "call" /\ kind[t] = "logo"
  /\ \E r \in {"data", "none"} : Return(t, r)
  /\ UNCHANGED shared

(* get_projections asks YFinance for its recommendation, block or no block. *)
RecordsProjections(t) ==
  /\ phase[t] = "call" /\ kind[t] = "projections"
  /\ phase' = [phase EXCEPT ![t] = "extra"]
  /\ UNCHANGED <<shared, kind, ticker, pos, got, result>>

(* Whatever that call does, the record is returned. *)
ExtraEnds(t) ==
  /\ phase[t] = "extra"
  /\ Return(t, "data")
  /\ UNCHANGED shared

(* Dividends of another provider: DividendMax is asked for its forecasts.  *)
DividendsToMerge(t) ==
  /\ phase[t] = "call" /\ kind[t] = "dividends" /\ ticker[t] \in Payers
  /\ Provider(t) # DividendMax
  /\ phase' = [phase EXCEPT ![t] = "merge"]
  /\ got' = [got EXCEPT ![t] = TRUE]
  /\ UNCHANGED <<shared, kind, ticker, pos, result>>

(* Every exception of the merge is swallowed, a throttle included. *)
MergeEnds(t) ==
  /\ phase[t] = "merge"
  /\ Remember(t, "yes")
  /\ Return(t, "data")
  /\ UNCHANGED <<blocked, currency>>

DividendMaxAnswers(t) ==
  /\ phase[t] = "call" /\ kind[t] = "dividends" /\ ticker[t] \in Payers
  /\ Provider(t) = DividendMax
  /\ Remember(t, "yes")
  /\ Return(t, "data")
  /\ UNCHANGED <<blocked, currency>>

CheckConfirms(t) ==
  /\ phase[t] = "call" /\ kind[t] = "check" /\ ticker[t] \in Payers
  /\ Remember(t, "yes")
  /\ Return(t, "none")
  /\ UNCHANGED <<blocked, currency>>

MetricsAnswer(t) ==
  /\ phase[t] = "call" /\ kind[t] = "yield"
  /\ Return(t, "data")
  /\ UNCHANGED shared

(* A metrics frame without the column dividend_yield is a verdict. *)
MetricsLackColumn(t) ==
  /\ phase[t] = "call" /\ kind[t] = "yield"
  /\ Remember(t, "no")
  /\ Return(t, "zero")
  /\ UNCHANGED <<blocked, currency>>

-----------------------------------------------------------------------------
(* Prices, and the currency they are in. *)

(* What the rows are, divided by 100 if the currency is taken for pence.   *)
Rows(t, told) ==
  CASE told = "pence" /\ ticker[t] \notin PenceLines -> "shrunk"
    [] told # "pence" /\ ticker[t] \in PenceLines    -> "pence"
    [] OTHER                                         -> "data"

(* A frame may turn out to have no bar with a close.                       *)
ReturnRows(t, rows) == Return(t, rows) \/ Return(t, "empty")

(* MUTANT: every line of London is taken for pence. *)
NeedsNoCheck_Suffix(t) ==
  /\ phase[t] = "call" /\ kind[t] = "price"
  /\ IF Provider(t) = YFinance /\ ticker[t] \in London
     THEN ReturnRows(t, Rows(t, "pence"))
     ELSE Return(t, "data")
  /\ UNCHANGED shared

(* Only YFinance's London prices may be in pence. *)
NeedsNoCheck(t) ==
  /\ phase[t] = "call" /\ kind[t] = "price"
  /\ ~(Provider(t) = YFinance /\ ticker[t] \in London)
  /\ ReturnRows(t, "data")
  /\ UNCHANGED shared

(* The currency is known, or get_quote is walked for it. *)
NeedsCheck(t) ==
  /\ phase[t] = "call" /\ kind[t] = "price"
  /\ Provider(t) = YFinance /\ ticker[t] \in London
  /\ \/ /\ currency[ticker[t]] # "untold"
        /\ ReturnRows(t, Rows(t, currency[ticker[t]]))
     \/ /\ currency[ticker[t]] = "untold"
        /\ phase' = [phase EXCEPT ![t] = "consult"]
        /\ kind' = [kind EXCEPT ![t] = "unit"]
        /\ pos' = [pos EXCEPT ![t] = 1]
        /\ UNCHANGED <<ticker, got, result>>
  /\ UNCHANGED shared

(* get_fund_category_history fills the same memo, under category codes and *)
(* with PLN only: no line of London is looked up under those.              *)
QuoteTells(t) ==
  /\ phase[t] = "call" /\ kind[t] = "unit"
  /\ LET told == IF ticker[t] \in PenceLines THEN "pence" ELSE "major" IN
       /\ currency' = [currency EXCEPT ![ticker[t]] = told]
       /\ ReturnRows(t, Rows(t, told))
  /\ UNCHANGED <<blocked, pays>>

(* MUTANT: not knowing is remembered like knowing. *)
QuoteLacksCurrency_Remembers(t) ==
  /\ phase[t] = "call" /\ kind[t] = "unit"
  /\ currency' = [currency EXCEPT ![ticker[t]] = "major"]
  /\ ReturnRows(t, Rows(t, "untold"))
  /\ UNCHANGED <<blocked, pays>>

(* The first record decides, also when it has no currency: the prices are  *)
(* left as they are, and nothing is remembered.                            *)
QuoteLacksCurrency(t) ==
  /\ phase[t] = "call" /\ kind[t] = "unit"
  /\ ReturnRows(t, Rows(t, "untold"))
  /\ UNCHANGED shared

(* No quote either. *)
UnitExhausted(t) ==
  /\ phase[t] = "consult" /\ AtEnd(t) /\ kind[t] = "unit"
  /\ ReturnRows(t, Rows(t, "untold"))
  /\ UNCHANGED shared

-----------------------------------------------------------------------------
(* The end of the list. *)

Exhausted(t) ==
  /\ phase[t] = "consult" /\ AtEnd(t)
  /\ \/ kind[t] \in {"price", "statement", "record", "crypto", "pair", "logo",
                    "projections"}
     \/ kind[t] = "yield" /\ got[t]
     \/ kind[t] = "merged" /\ ~got[t]
  /\ Return(t, "none")
  /\ UNCHANGED shared

SplitsExhausted(t) ==
  /\ phase[t] = "consult" /\ AtEnd(t) /\ kind[t] = "splits"
  /\ Return(t, "unavailable")
  /\ UNCHANGED shared

(* A profile without a name is still a profile. *)
SupplyExhausted(t) ==
  /\ phase[t] = "consult" /\ AtEnd(t) /\ kind[t] = "supply"
  /\ Return(t, "data")
  /\ UNCHANGED shared

(* What was merged is returned whether or not every provider answered. *)
MergedExhausted(t) ==
  /\ phase[t] = "consult" /\ AtEnd(t) /\ kind[t] = "merged" /\ got[t]
  /\ Return(t, "data")
  /\ UNCHANGED shared

(* MUTANT: the verdict does not wait for any_success. *)
DividendsExhausted_Always(t) ==
  /\ phase[t] = "consult" /\ AtEnd(t) /\ kind[t] = "dividends"
  /\ Remember(t, "no")
  /\ Return(t, "empty")
  /\ UNCHANGED <<blocked, currency>>

DividendsExhausted(t) ==
  /\ phase[t] = "consult" /\ AtEnd(t) /\ kind[t] = "dividends"
  /\ IF got[t] THEN Remember(t, "no") ELSE UNCHANGED pays
  /\ Return(t, "empty")
  /\ UNCHANGED <<blocked, currency>>

(* No metrics provider answered: does the ticker pay at all?  Whether the  *)
(* memo has it is one look at the dict, and what it says another.          *)
YieldChecks(t) ==
  /\ phase[t] = "consult" /\ AtEnd(t) /\ kind[t] = "yield" /\ ~got[t]
  /\ \/ /\ pays[ticker[t]] = "untold"
        /\ kind' = [kind EXCEPT ![t] = "check"]
        /\ pos' = [pos EXCEPT ![t] = 1]
        /\ UNCHANGED phase
     \/ /\ pays[ticker[t]] # "untold"
        /\ phase' = [phase EXCEPT ![t] = "reread"]
        /\ UNCHANGED <<kind, pos>>
  /\ UNCHANGED <<shared, ticker, got, result>>

(* An entry that was dropped in between is a KeyError, which nobody        *)
(* catches.  (That of _symbol_currency is caught by the price loop: Fails.) *)
YieldRereads(t) ==
  /\ phase[t] = "reread"
  /\ Return(t, CASE pays[ticker[t]] = "no"     -> "zero"
                 [] pays[ticker[t]] = "yes"    -> "none"
                 [] pays[ticker[t]] = "untold" -> "raised")
  /\ UNCHANGED shared

(* MUTANT: the benefit of the doubt is remembered. *)
CheckExhausted_RemembersDoubt(t) ==
  /\ phase[t] = "consult" /\ AtEnd(t) /\ kind[t] = "check"
  /\ Remember(t, IF got[t] THEN "no" ELSE "yes")
  /\ Return(t, IF got[t] THEN "zero" ELSE "none")
  /\ UNCHANGED <<blocked, currency>>

(* If every provider failed, nothing is recorded. *)
CheckExhausted(t) ==
  /\ phase[t] = "consult" /\ AtEnd(t) /\ kind[t] = "check"
  /\ IF got[t] THEN Remember(t, "no") ELSE UNCHANGED pays
  /\ Return(t, IF got[t] THEN "zero" ELSE "none")
  /\ UNCHANGED <<blocked, currency>>

-----------------------------------------------------------------------------
(* Time passes, and a bounded memo may drop any entry (BoundedMemo). *)

(* MUTANT: once blocked, always blocked. *)
Tick_NeverEnds ==
  /\ blocked' = blocked
  /\ UNCHANGED <<pays, currency, locals>>

Tick ==
  /\ blocked' = [p \in Providers |-> IF blocked[p] > 0 THEN blocked[p] - 1 ELSE 0]
  /\ UNCHANGED <<pays, currency, locals>>

Drop(x) ==
  /\ \/ pays' = [pays EXCEPT ![x] = "untold"] /\ UNCHANGED currency
     \/ currency' = [currency EXCEPT ![x] = "untold"] /\ UNCHANGED pays
  /\ UNCHANGED <<blocked, locals>>

Answer(t) ==
  \/ Throttled(t) \/ Fails(t) \/ EmptyFrame(t) \/ Unknown(t)
  \/ SplitsSettled(t) \/ Contributes(t)
  \/ Records(t) \/ CryptoBars(t) \/ PairQuoted(t) \/ SupplyTold(t) \/ WebsiteTold(t)
  \/ RecordsProjections(t) \/ DividendsToMerge(t)
  \/ DividendMaxAnswers(t) \/ CheckConfirms(t)
  \/ MetricsAnswer(t) \/ MetricsLackColumn(t)
  \/ NeedsNoCheck(t) \/ NeedsCheck(t) \/ QuoteTells(t) \/ QuoteLacksCurrency(t)

Continue(t) ==
  \/ PassOver(t) \/ Call(t) \/ Answer(t) \/ ExtraEnds(t) \/ MergeEnds(t)
  \/ Exhausted(t) \/ SplitsExhausted(t) \/ MergedExhausted(t)
  \/ SupplyExhausted(t) \/ DividendsExhausted(t) \/ CheckExhausted(t)
  \/ YieldChecks(t) \/ YieldRereads(t) \/ UnitExhausted(t)

Next ==
  \/ \E t \in Threads :
       \/ \E k \in EntryKinds, x \in Tickers : Begin(t, k, x) \/ ShortCircuit(t, k, x)
       \/ Continue(t) \/ Dispose(t)
  \/ Tick
  \/ \E x \in Tickers : Drop(x)

Spec == Init /\ [][Next]_vars

-----------------------------------------------------------------------------
(* Properties. *)

(* The index stays within one past the list it indexes, also where one     *)
(* walk hands over to another with a different list.                       *)
TypeOK ==
  /\ blocked \in [Providers -> 0 .. BlockTTL]
  /\ pays \in [Tickers -> {"yes", "no", "untold"}]
  /\ currency \in [Tickers -> {"pence", "major", "untold"}]
  /\ phase \in [Threads -> Phases]
  /\ kind \in [Threads -> Kinds]
  /\ ticker \in [Threads -> Tickers \cup {Idle}]
  /\ got \in [Threads -> BOOLEAN]
  /\ result \in [Threads -> Results \cup {Idle}]
  /\ \A t \in Threads :
       /\ pos[t] \in 1 .. Len(Order[kind[t]]) + 1
       /\ phase[t] \in {"call", "merge", "extra"} => ~AtEnd(t)
       /\ phase[t] # "idle" => ticker[t] # Idle

(* Only dividends that a provider returned make a ticker a payer: doubt,   *)
(* when every provider failed, answers the request but is not remembered   *)
(* (openbb_client.py:132-135).                                             *)
PayersPay == \A x \in Tickers : pays[x] = "yes" => x \in Payers

(* A ticker is recorded as a non-payer only by a walk that some provider   *)
(* answered; failures and blocks alone are no verdict, whatever the other  *)
(* threads record meanwhile (openbb_client.py:132-135, 402-404).           *)
VerdictNeedsAnswer ==
  [][\A x \in Tickers :
       pays[x] # "no" /\ pays'[x] = "no"
         => \E t \in Threads : /\ ticker[t] = x
                               /\ phase[t] = "call" \/ got[t]
                               /\ phase'[t] = "idle"]_vars

(* Rows that are in pounds or dollars are never divided by 100, whatever   *)
(* the suffix, the thread that learned the currency and the entries that   *)
(* were dropped in between (openbb_client.py:240-252).                     *)
NeverShrunk == \A t \in Threads : result[t] # "shrunk"

(* A provider that stops throttling comes back into every walk, although   *)
(* requests keep finding it blocked (openbb_client.py:76-84).              *)
BlocksHeal ==
  \A p \in Providers :
    <>[][\A t \in Threads :
           phase[t] = "call" /\ Provider(t) = p => blocked'[p] <= blocked[p]]_vars
      => <>[](blocked[p] = 0)

-----------------------------------------------------------------------------
(* What the repository says and the code does not do. *)

(* openbb_client.py:36: the table says whether a ticker "has any dividend  *)
(* history".  A ticker whose dividends were seen stays a payer.            *)
PayerIsKept ==
  [][\A x \in Tickers : pays[x] = "yes" => pays'[x] # "no"]_vars

=============================================================================
