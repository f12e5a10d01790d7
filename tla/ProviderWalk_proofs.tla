------------------------ MODULE ProviderWalk_proofs ------------------------
(***************************************************************************)
(* For any threads, tickers, providers and provider lists: a walk stays in *)
(* its list and ends, doubt is never recorded, a non-payer verdict rests   *)
(* on an answer, and prices in pounds or dollars are never divided by 100. *)
(*                                                                         *)
(* The invariant has a part for the tables the threads share and a part    *)
(* for their locals.  Prices stay whole only because the currencies that   *)
(* threads leave to each other are true (CurrenciesAreTrue).               *)
(***************************************************************************)
EXTENDS ProviderWalk, SequenceTheorems, TLAPS

(* Pence are recorded of lines in pence only. *)
CurrenciesAreTrue == \A x \in Tickers : currency[x] = "pence" => x \in PenceLines

TablesInv ==
  /\ blocked \in [Providers -> 0 .. BlockTTL]
  /\ pays \in [Tickers -> {"yes", "no", "untold"}]
  /\ currency \in [Tickers -> {"pence", "major", "untold"}]
  /\ PayersPay
  /\ CurrenciesAreTrue

(* TypeOK of the locals; a thread without a walk is at the head of a list, *)
(* and one that merges forecasts has found dividends.                      *)
LocalsInv ==
  /\ phase \in [Threads -> Phases]
  /\ kind \in [Threads -> Kinds]
  /\ ticker \in [Threads -> Tickers \cup {Idle}]
  /\ got \in [Threads -> BOOLEAN]
  /\ pos \in [Threads -> Nat]
  /\ result \in [Threads -> (Results \cup {Idle}) \ {"shrunk"}]
  /\ \A t \in Threads :
       /\ pos[t] \in 1 .. Len(Order[kind[t]]) + 1
       /\ phase[t] \in {"call", "merge", "extra"} => ~AtEnd(t)
       /\ phase[t] # "idle" => ticker[t] # Idle
       /\ phase[t] = "idle" => pos[t] = 1
       /\ phase[t] = "merge" => ticker[t] \in Payers

IInv == TablesInv /\ LocalsInv

-----------------------------------------------------------------------------
(* The locals. *)

(* The lists have lengths, and providers in them.                          *)
LEMMA ListLength ==
  ASSUME NEW k \in Kinds
  PROVE  /\ Len(Order[k]) \in Nat
         /\ \A i \in 1 .. Len(Order[k]) : Order[k][i] \in Providers
<1>1. Order[k] \in Seq(Providers)
  BY WalkAssumption
<1> QED BY <1>1, LenProperties, ElementOfSeq

(* The provider at hand is one. *)
LEMMA AtHand ==
  ASSUME LocalsInv, NEW t \in Threads, ~AtEnd(t)
  PROVE  Provider(t) \in Providers
BY ListLength DEF LocalsInv, AtEnd, Provider

(* A walk that returns anything but shrunken prices leaves good locals.    *)
LEMMA ReturnLocals ==
  ASSUME LocalsInv, NEW t \in Threads, NEW r \in Results \ {"shrunk"}, Return(t, r)
  PROVE  LocalsInv'
<1> "record" \in Kinds
  BY DEF Kinds
<1>1. Len(Order["record"]) \in Nat
  BY ListLength
<1> QED
  BY <1>1 DEF LocalsInv, Return, Phases, Kinds, AtEnd

(* So does one that goes on to the next provider. *)
LEMMA AdvanceLocals ==
  ASSUME LocalsInv, NEW t \in Threads, Advance(t), ~AtEnd(t), phase[t] # "idle",
         \/ UNCHANGED got
         \/ \E b \in BOOLEAN : got' = [got EXCEPT ![t] = b]
  PROVE  LocalsInv'
<1>1. Len(Order[kind[t]]) \in Nat
  BY ListLength DEF LocalsInv
<1>2. got' \in [Threads -> BOOLEAN]
  BY DEF LocalsInv
<1>3. /\ phase' \in [Threads -> Phases]
      /\ pos' \in [Threads -> Nat]
  BY <1>1 DEF LocalsInv, Advance, Phases
<1>4. ASSUME NEW u \in Threads
      PROVE  /\ pos'[u] \in 1 .. Len(Order[kind'[u]]) + 1
             /\ phase'[u] \in {"call", "merge", "extra"} => ~AtEnd(u)'
             /\ phase'[u] # "idle" => ticker'[u] # Idle
             /\ phase'[u] = "idle" => pos'[u] = 1
             /\ phase'[u] = "merge" => ticker'[u] \in Payers
  BY <1>1 DEF LocalsInv, Advance, AtEnd
<1> QED BY <1>2, <1>3, <1>4 DEF LocalsInv, Advance

(* And one that is handed over to another list. *)
LEMMA HandOverLocals ==
  ASSUME LocalsInv, NEW t \in Threads, NEW k \in Kinds, phase[t] # "idle",
         phase' = [phase EXCEPT ![t] = "consult"],
         kind' = [kind EXCEPT ![t] = k],
         pos' = [pos EXCEPT ![t] = 1],
         UNCHANGED <<ticker, got, result>>
  PROVE  LocalsInv'
<1>1. Len(Order[k]) \in Nat
  BY ListLength
<1> QED BY <1>1 DEF LocalsInv, Phases, AtEnd

(* And one that turns to another call for the same provider. *)
LEMMA TurnLocals ==
  ASSUME LocalsInv, NEW t \in Threads, NEW p \in {"call", "merge", "extra"},
         ~AtEnd(t), phase[t] # "idle", p = "merge" => ticker[t] \in Payers,
         phase' = [phase EXCEPT ![t] = p],
         \/ UNCHANGED got
         \/ \E b \in BOOLEAN : got' = [got EXCEPT ![t] = b],
         UNCHANGED <<kind, ticker, pos, result>>
  PROVE  LocalsInv'
<1>1. got' \in [Threads -> BOOLEAN]
  BY DEF LocalsInv
<1> QED BY <1>1 DEF LocalsInv, Phases, AtEnd

-----------------------------------------------------------------------------
(* The tables. *)

(* A provider is blocked. *)
LEMMA BlockTables ==
  ASSUME TablesInv, NEW p \in Providers, blocked' = [blocked EXCEPT ![p] = BlockTTL],
         UNCHANGED <<pays, currency>>
  PROVE  TablesInv'
BY WalkAssumption DEF TablesInv, PayersPay, CurrenciesAreTrue

(* A verdict may be recorded that is not "yes", or of a payer. *)
LEMMA RememberTables ==
  ASSUME TablesInv, NEW t \in Threads, NEW v \in {"yes", "no"}, Remember(t, v),
         v = "yes" => ticker[t] \in Payers, UNCHANGED <<blocked, currency>>
  PROVE  TablesInv'
BY DEF TablesInv, PayersPay, CurrenciesAreTrue, Remember

(* The tables are left alone. *)
LEMMA SameTables ==
  ASSUME TablesInv, UNCHANGED shared
  PROVE  TablesInv'
BY DEF TablesInv, PayersPay, CurrenciesAreTrue, shared

-----------------------------------------------------------------------------
(* One lemma per group of actions. *)

(* No walk has begun. *)
LEMMA InitIInv == Init => IInv
<1> SUFFICES ASSUME Init PROVE IInv
  OBVIOUS
<1> "record" \in Kinds
  BY DEF Kinds
<1>1. TablesInv
  BY WalkAssumption DEF Init, TablesInv, PayersPay, CurrenciesAreTrue
<1>2. LocalsInv
  BY ListLength, IdleAssumption DEF Init, LocalsInv, Phases, Results
<1> QED BY <1>1, <1>2 DEF IInv

(* A walk begins, or a recorded non-payer needs none. *)
LEMMA EntryStep ==
  ASSUME IInv, NEW t \in Threads, NEW k \in EntryKinds, NEW x \in Tickers,
         Begin(t, k, x) \/ ShortCircuit(t, k, x)
  PROVE  IInv'
<1> k \in Kinds /\ x # Idle
  BY IdleAssumption DEF EntryKinds
<1>1. TablesInv'
  BY SameTables DEF IInv, Begin, ShortCircuit
<1>2. CASE Begin(t, k, x)
  <2>1. Len(Order[k]) \in Nat
    BY ListLength
  <2>2. pos[t] = 1
    BY <1>2 DEF Begin, IInv, LocalsInv
  <2>3. LocalsInv'
    BY <1>2, <2>1, <2>2, IdleAssumption DEF Begin, IInv, LocalsInv, Phases, AtEnd, Results
  <2> QED BY <1>1, <2>3 DEF IInv
<1>3. CASE ShortCircuit(t, k, x)
  <2>1. LocalsInv'
    BY <1>3, ReturnLocals DEF ShortCircuit, IInv, Results
  <2> QED BY <1>1, <2>1 DEF IInv
<1> QED BY <1>2, <1>3

(* A result that the caller is done with is gone. *)
LEMMA DisposeStep ==
  ASSUME IInv, NEW t \in Threads, Dispose(t)
  PROVE  IInv'
<1>1. TablesInv'
  BY SameTables DEF IInv, Dispose
<1>2. LocalsInv'
  BY IdleAssumption DEF IInv, LocalsInv, Dispose, AtEnd, Results
<1> QED BY <1>1, <1>2 DEF IInv

(* A blocked provider is passed over, or the provider at hand is called.   *)
LEMMA ConsultStep ==
  ASSUME IInv, NEW t \in Threads, PassOver(t) \/ Call(t)
  PROVE  IInv'
<1>1. TablesInv'
  BY SameTables DEF IInv, PassOver, Call
<1>2. LocalsInv'
  <2>1. CASE PassOver(t)
    BY <2>1, AdvanceLocals DEF IInv, PassOver
  <2>2. CASE Call(t)
    BY <2>2, TurnLocals DEF IInv, Call
  <2> QED BY <2>1, <2>2
<1> QED BY <1>1, <1>2 DEF IInv

(* A call that ends in no answer takes the walk to the next provider.      *)
LEMMA NoAnswerStep ==
  ASSUME IInv, NEW t \in Threads,
         Throttled(t) \/ Fails(t) \/ EmptyFrame(t) \/ Contributes(t)
  PROVE  IInv'
<1>1. phase[t] = "call" /\ Advance(t)
  BY DEF Throttled, Fails, EmptyFrame, Contributes
<1>2. ~AtEnd(t)
  BY <1>1 DEF IInv, LocalsInv
<1>3. \/ UNCHANGED got
      \/ \E b \in BOOLEAN : got' = [got EXCEPT ![t] = b]
  <2>1. got[t] \in BOOLEAN
    BY DEF IInv, LocalsInv
  <2> QED BY <2>1 DEF Throttled, Fails, EmptyFrame, Contributes
<1>4. LocalsInv'
  BY <1>1, <1>2, <1>3, AdvanceLocals DEF IInv
<1>5. TablesInv'
  <2>1. CASE Throttled(t)
    BY <1>2, <2>1, AtHand, BlockTables DEF Throttled, IInv
  <2>2. CASE ~Throttled(t)
    BY <2>2, SameTables DEF IInv, Fails, EmptyFrame, Contributes
  <2> QED BY <2>1, <2>2
<1> QED BY <1>4, <1>5 DEF IInv

(* Walks that end with the tables as they are.                             *)
LEMMA PlainEndStep ==
  ASSUME IInv, NEW t \in Threads,
         \/ SplitsSettled(t) \/ Records(t) \/ CryptoBars(t) \/ SupplyTold(t)
         \/ WebsiteTold(t) \/ ExtraEnds(t) \/ MetricsAnswer(t) \/ YieldRereads(t)
         \/ Exhausted(t) \/ SplitsExhausted(t) \/ SupplyExhausted(t)
         \/ MergedExhausted(t)
  PROVE  IInv'
<1>1. phase[t] = "reread" => pays[ticker[t]] \in {"yes", "no", "untold"}
  BY DEF IInv, TablesInv, LocalsInv
<1>2. \E r \in Results \ {"shrunk"} : Return(t, r)
  BY <1>1 DEF SplitsSettled, Records, CryptoBars, SupplyTold, WebsiteTold, ExtraEnds,
         MetricsAnswer, YieldRereads, Exhausted, SplitsExhausted, SupplyExhausted,
         MergedExhausted, Results
<1>3. UNCHANGED shared
  BY DEF SplitsSettled, Records, CryptoBars, SupplyTold, WebsiteTold, ExtraEnds,
         MetricsAnswer, YieldRereads, Exhausted, SplitsExhausted, SupplyExhausted,
         MergedExhausted
<1> QED BY <1>2, <1>3, ReturnLocals, SameTables DEF IInv

(* Walks that end, and record what they found.                             *)
LEMMA VerdictStep ==
  ASSUME IInv, NEW t \in Threads,
         \/ MergeEnds(t) \/ DividendMaxAnswers(t) \/ CheckConfirms(t)
         \/ MetricsLackColumn(t) \/ DividendsExhausted(t) \/ CheckExhausted(t)
  PROVE  IInv'
<1>1. \E r \in Results \ {"shrunk"} : Return(t, r)
  BY DEF MergeEnds, DividendMaxAnswers, CheckConfirms, MetricsLackColumn,
         DividendsExhausted, CheckExhausted, Results
<1>2. UNCHANGED <<blocked, currency>>
  BY DEF MergeEnds, DividendMaxAnswers, CheckConfirms, MetricsLackColumn,
         DividendsExhausted, CheckExhausted
<1>3. \/ UNCHANGED pays \/ Remember(t, "no")
      \/ Remember(t, "yes") /\ ticker[t] \in Payers
  BY DEF IInv, LocalsInv, MergeEnds, DividendMaxAnswers, CheckConfirms, MetricsLackColumn,
         DividendsExhausted, CheckExhausted
<1>4. TablesInv'
  BY <1>2, <1>3, SameTables, RememberTables DEF IInv, shared
<1> QED BY <1>1, <1>4, ReturnLocals DEF IInv

(* A symbol that a provider does not know ends the walk or not, by kind.   *)
LEMMA UnknownStep ==
  ASSUME IInv, NEW t \in Threads, Unknown(t)
  PROVE  IInv'
<1>1. phase[t] = "call" /\ ~AtEnd(t)
  BY DEF Unknown, IInv, LocalsInv
<1>2. CASE Advance(t) /\ UNCHANGED <<pays, got>>
  <2>1. LocalsInv'
    BY <1>1, <1>2, AdvanceLocals DEF IInv
  <2>2. TablesInv'
    BY <1>2, SameTables DEF Unknown, IInv, shared
  <2> QED BY <2>1, <2>2 DEF IInv
<1>3. CASE Return(t, "empty") /\ UNCHANGED pays
  <2>1. LocalsInv'
    BY <1>3, ReturnLocals DEF IInv, Results
  <2>2. TablesInv'
    BY <1>3, SameTables DEF Unknown, IInv, shared
  <2> QED BY <2>1, <2>2 DEF IInv
<1>4. CASE Remember(t, "no") /\ (Return(t, "empty") \/ Return(t, "zero"))
  <2>1. LocalsInv'
    BY <1>4, ReturnLocals DEF IInv, Results
  <2>2. TablesInv'
    BY <1>4, RememberTables DEF Unknown, IInv
  <2> QED BY <2>1, <2>2 DEF IInv
<1> QED BY <1>2, <1>3, <1>4 DEF Unknown

(* A record that one more call follows. *)
LEMMA MoreToAskStep ==
  ASSUME IInv, NEW t \in Threads, RecordsProjections(t) \/ DividendsToMerge(t)
  PROVE  IInv'
<1>1. phase[t] = "call" /\ ~AtEnd(t)
  BY DEF RecordsProjections, DividendsToMerge, IInv, LocalsInv
<1>2. LocalsInv'
  <2>1. CASE RecordsProjections(t)
    BY <1>1, <2>1, TurnLocals DEF RecordsProjections, IInv
  <2>2. CASE DividendsToMerge(t)
    BY <1>1, <2>2, TurnLocals DEF DividendsToMerge, IInv
  <2> QED BY <2>1, <2>2
<1>3. TablesInv'
  BY SameTables DEF RecordsProjections, DividendsToMerge, IInv
<1> QED BY <1>2, <1>3 DEF IInv

(* Rows of which no pence are known are not divided. *)
LEMMA RowsAreWhole ==
  ASSUME NEW t \in Threads, NEW told, told = "pence" => ticker[t] \in PenceLines
  PROVE  Rows(t, told) \in Results \ {"shrunk"}
BY DEF Rows, Results

(* Prices whose unit is known, or taken for granted.                       *)
LEMMA PriceStep ==
  ASSUME IInv, NEW t \in Threads, NeedsNoCheck(t) \/ NeedsCheck(t)
  PROVE  IInv'
<1>1. phase[t] = "call"
  BY DEF NeedsNoCheck, NeedsCheck
<1>2. TablesInv'
  BY SameTables DEF NeedsNoCheck, NeedsCheck, IInv
<1>3. CASE NeedsNoCheck(t)
  BY <1>2, <1>3, ReturnLocals DEF NeedsNoCheck, ReturnRows, IInv, Results
<1>4. CASE NeedsCheck(t) /\ ReturnRows(t, Rows(t, currency[ticker[t]]))
  <2>1. ticker[t] \in Tickers
    BY <1>1 DEF IInv, LocalsInv
  <2>2. Rows(t, currency[ticker[t]]) \in Results \ {"shrunk"}
    BY <2>1, RowsAreWhole DEF IInv, TablesInv, CurrenciesAreTrue
  <2>3. LocalsInv'
    BY <1>4, <2>2, ReturnLocals DEF ReturnRows, IInv, Results
  <2> QED BY <1>2, <2>3 DEF IInv
<1>5. CASE NeedsCheck(t) /\ kind' = [kind EXCEPT ![t] = "unit"]
                        /\ phase' = [phase EXCEPT ![t] = "consult"]
                        /\ pos' = [pos EXCEPT ![t] = 1]
                        /\ UNCHANGED <<ticker, got, result>>
  <2>1. LocalsInv'
    BY <1>1, <1>5, HandOverLocals DEF IInv, Kinds
  <2> QED BY <1>2, <2>1 DEF IInv
<1> QED BY <1>3, <1>4, <1>5 DEF NeedsCheck

(* The quote walk tells the unit, or the rows stay as they are.            *)
LEMMA UnitStep ==
  ASSUME IInv, NEW t \in Threads,
         QuoteTells(t) \/ QuoteLacksCurrency(t) \/ UnitExhausted(t)
  PROVE  IInv'
<1>1. ticker[t] \in Tickers
  BY DEF QuoteTells, QuoteLacksCurrency, UnitExhausted, IInv, LocalsInv
<1>2. Rows(t, "untold") \in Results \ {"shrunk"}
  BY RowsAreWhole
<1>3. CASE QuoteTells(t)
  <2> DEFINE told == IF ticker[t] \in PenceLines THEN "pence" ELSE "major"
  <2>1. Rows(t, told) \in Results \ {"shrunk"}
    BY RowsAreWhole
  <2>2. LocalsInv'
    BY <1>3, <2>1, ReturnLocals DEF QuoteTells, ReturnRows, IInv, Results
  <2>3. TablesInv'
    BY <1>1, <1>3 DEF QuoteTells, IInv, TablesInv, PayersPay, CurrenciesAreTrue
  <2> QED BY <2>2, <2>3 DEF IInv
<1>4. CASE QuoteLacksCurrency(t) \/ UnitExhausted(t)
  <2>1. LocalsInv'
    BY <1>2, <1>4, ReturnLocals
       DEF QuoteLacksCurrency, UnitExhausted, ReturnRows, IInv, Results
  <2>2. TablesInv'
    BY <1>4, SameTables DEF QuoteLacksCurrency, UnitExhausted, IInv
  <2> QED BY <2>1, <2>2 DEF IInv
<1> QED BY <1>3, <1>4

(* A yield walk without metrics asks whether the ticker pays at all.       *)
LEMMA YieldChecksStep ==
  ASSUME IInv, NEW t \in Threads, YieldChecks(t)
  PROVE  IInv'
<1>1. TablesInv'
  BY SameTables DEF YieldChecks, IInv
<1>2. phase[t] = "consult"
  BY DEF YieldChecks
<1>3. CASE pays[ticker[t]] = "untold"
  <2>1. /\ kind' = [kind EXCEPT ![t] = "check"]
        /\ pos' = [pos EXCEPT ![t] = 1]
        /\ UNCHANGED <<phase, ticker, got, result>>
    BY <1>3 DEF YieldChecks
  <2>2. phase' = [phase EXCEPT ![t] = "consult"]
    BY <1>2, <2>1 DEF IInv, LocalsInv
  <2>3. LocalsInv'
    BY <1>2, <2>1, <2>2, HandOverLocals DEF IInv, Kinds
  <2> QED BY <1>1, <2>3 DEF IInv
<1>4. CASE pays[ticker[t]] # "untold"
  <2>1. LocalsInv'
    BY <1>2, <1>4 DEF YieldChecks, IInv, LocalsInv, Phases, AtEnd
  <2> QED BY <1>1, <2>1 DEF IInv
<1> QED BY <1>3, <1>4

(* A profile that has its quote goes on with another list.                 *)
LEMMA PairQuotedStep ==
  ASSUME IInv, NEW t \in Threads, PairQuoted(t)
  PROVE  IInv'
<1>1. TablesInv'
  BY SameTables DEF PairQuoted, IInv
<1>2. LocalsInv'
  BY HandOverLocals DEF PairQuoted, IInv, Kinds
<1> QED BY <1>1, <1>2 DEF IInv

(* Time and the bounded memos take entries away only. *)
LEMMA LossStep ==
  ASSUME IInv, Tick \/ \E x \in Tickers : Drop(x)
  PROVE  IInv'
<1>1. LocalsInv'
  BY DEF Tick, Drop, locals, IInv, LocalsInv, AtEnd
<1>2. CASE Tick
  BY <1>1, <1>2, WalkAssumption DEF Tick, IInv, TablesInv, PayersPay, CurrenciesAreTrue
<1>3. CASE \E x \in Tickers : Drop(x)
  BY <1>1, <1>3 DEF Drop, IInv, TablesInv, PayersPay, CurrenciesAreTrue
<1> QED BY <1>2, <1>3

(* Every step of the walks keeps the invariant. *)
LEMMA NextIInv == IInv /\ [Next]_vars => IInv'
<1> SUFFICES ASSUME IInv, [Next]_vars PROVE IInv'
  OBVIOUS
<1>1. ASSUME NEW t \in Threads, NEW k \in EntryKinds, NEW x \in Tickers,
             Begin(t, k, x) \/ ShortCircuit(t, k, x)
      PROVE  IInv'
  BY <1>1, EntryStep
<1>2. ASSUME NEW t \in Threads, Continue(t)
      PROVE  IInv'
  <2>1. CASE PassOver(t) \/ Call(t)
    BY <2>1, ConsultStep
  <2>2. CASE Throttled(t) \/ Fails(t) \/ EmptyFrame(t) \/ Contributes(t)
    BY <2>2, NoAnswerStep
  <2>3. CASE \/ SplitsSettled(t) \/ Records(t) \/ CryptoBars(t) \/ SupplyTold(t)
             \/ WebsiteTold(t) \/ ExtraEnds(t) \/ MetricsAnswer(t) \/ YieldRereads(t)
             \/ Exhausted(t) \/ SplitsExhausted(t) \/ SupplyExhausted(t)
             \/ MergedExhausted(t)
    BY <2>3, PlainEndStep
  <2>4. CASE \/ MergeEnds(t) \/ DividendMaxAnswers(t) \/ CheckConfirms(t)
             \/ MetricsLackColumn(t) \/ DividendsExhausted(t) \/ CheckExhausted(t)
    BY <2>4, VerdictStep
  <2>5. CASE Unknown(t)
    BY <2>5, UnknownStep
  <2>6. CASE RecordsProjections(t) \/ DividendsToMerge(t)
    BY <2>6, MoreToAskStep
  <2>7. CASE NeedsNoCheck(t) \/ NeedsCheck(t)
    BY <2>7, PriceStep
  <2>8. CASE QuoteTells(t) \/ QuoteLacksCurrency(t) \/ UnitExhausted(t)
    BY <2>8, UnitStep
  <2>9. CASE YieldChecks(t) \/ PairQuoted(t)
    BY <2>9, YieldChecksStep, PairQuotedStep
  <2> QED
    BY <1>2, <2>1, <2>2, <2>3, <2>4, <2>5, <2>6, <2>7, <2>8, <2>9 DEF Continue, Answer
<1>3. CASE Tick \/ \E x \in Tickers : Drop(x)
  BY <1>3, LossStep
<1>4. CASE UNCHANGED vars
  <2>1. TablesInv'
    BY <1>4, SameTables DEF IInv, vars
  <2>2. LocalsInv'
    BY <1>4 DEF IInv, LocalsInv, vars, locals, AtEnd
  <2> QED BY <2>1, <2>2 DEF IInv
<1>5. ASSUME NEW t \in Threads, Dispose(t)
      PROVE  IInv'
  BY <1>5, DisposeStep
<1> QED BY <1>1, <1>2, <1>3, <1>4, <1>5 DEF Next

(* The invariant holds throughout. *)
LEMMA Invariance == Spec => []IInv
BY InitIInv, NextIInv, PTL DEF Spec

-----------------------------------------------------------------------------
(* The theorems. *)

(* The walks of any number of threads stay in their lists, also where one  *)
(* list is left for another (openbb_client.py:155-160, 217-230).           *)
THEOREM TypeCorrect == Spec => []TypeOK
<1>1. IInv => TypeOK
  BY DEF IInv, TablesInv, LocalsInv, TypeOK
<1> QED BY <1>1, Invariance, PTL

(* Doubt is never recorded: only a provider's dividends make a payer       *)
(* (openbb_client.py:132-135).                                             *)
THEOREM DoubtIsNotKept == Spec => []PayersPay
<1>1. IInv => PayersPay
  BY DEF IInv, TablesInv
<1> QED BY <1>1, Invariance, PTL

(* Prices in pounds or dollars are never divided by 100                    *)
(* (openbb_client.py:240-252).                                             *)
THEOREM PricesStayWhole == Spec => []NeverShrunk
<1>1. IInv => NeverShrunk
  BY DEF IInv, LocalsInv, NeverShrunk
<1> QED BY <1>1, Invariance, PTL

(* What VerdictNeedsAnswer says of a step. *)
RestsOnAnswer(x) ==
  pays[x] # "no" /\ pays'[x] = "no"
    => \E t \in Threads : /\ ticker[t] = x
                          /\ phase[t] = "call" \/ got[t]
                          /\ phase'[t] = "idle"

(* A verdict is recorded by a walk that ends with an answer at hand.       *)
LEMMA VerdictStepRests ==
  ASSUME IInv, [Next]_vars, NEW x \in Tickers
  PROVE  RestsOnAnswer(x)
<1> SUFFICES ASSUME pays[x] # "no", pays'[x] = "no"
             PROVE  \E t \in Threads : /\ ticker[t] = x
                                       /\ phase[t] = "call" \/ got[t]
                                       /\ phase'[t] = "idle"
  BY DEF RestsOnAnswer
<1> pays \in [Tickers -> {"yes", "no", "untold"}]
  BY DEF IInv, TablesInv
<1> phase \in [Threads -> Phases]
  BY DEF IInv, LocalsInv
<1>1. ASSUME NEW t \in Threads, Remember(t, "no"), \E r \in Results : Return(t, r),
             phase[t] = "call" \/ got[t]
      PROVE  \E u \in Threads : /\ ticker[u] = x
                                /\ phase[u] = "call" \/ got[u]
                                /\ phase'[u] = "idle"
  <2>1. ticker[t] = x
    BY <1>1 DEF Remember
  <2>2. phase'[t] = "idle"
    BY <1>1 DEF Return
  <2> QED BY <1>1, <2>1, <2>2
<1>2. ASSUME NEW t \in Threads, Remember(t, "yes")
      PROVE  FALSE
  BY <1>2 DEF Remember
<1>3. CASE UNCHANGED pays
  BY <1>3
<1>4. CASE ~UNCHANGED pays
  <2>1. PICK t \in Threads : Continue(t)
    <3>1. ~Tick /\ ~\E y \in Tickers : Drop(y)
      BY <1>4 DEF Tick, Drop
    <3>2. \A t \in Threads, k \in EntryKinds, y \in Tickers :
            ~Begin(t, k, y) /\ ~ShortCircuit(t, k, y)
      BY <1>4 DEF Begin, ShortCircuit, shared
    <3>3. \A t \in Threads : ~Dispose(t)
      BY <1>4 DEF Dispose, shared
    <3> QED BY <1>4, <3>1, <3>2, <3>3 DEF Next, vars, shared
  <2>2. \/ Unknown(t) \/ MetricsLackColumn(t)
        \/ DividendsExhausted(t) \/ CheckExhausted(t)
        \/ MergeEnds(t) \/ DividendMaxAnswers(t) \/ CheckConfirms(t)
    BY <1>4, <2>1
       DEF Continue, Answer, shared, PassOver, Call, Throttled, Fails, EmptyFrame,
           SplitsSettled, Contributes, Records, RecordsProjections, DividendsToMerge,
           MetricsAnswer, NeedsNoCheck, NeedsCheck, QuoteTells, QuoteLacksCurrency,
           ExtraEnds, Exhausted, SplitsExhausted, MergedExhausted, YieldChecks,
           UnitExhausted, CryptoBars, PairQuoted, SupplyTold, WebsiteTold,
           SupplyExhausted, YieldRereads
  <2>3. ~MergeEnds(t) /\ ~DividendMaxAnswers(t) /\ ~CheckConfirms(t)
    BY <1>2 DEF MergeEnds, DividendMaxAnswers, CheckConfirms
  <2>4. /\ Remember(t, "no")
        /\ \E r \in Results : Return(t, r)
        /\ phase[t] = "call" \/ got[t]
    BY <1>4, <2>2, <2>3
       DEF Unknown, MetricsLackColumn, DividendsExhausted, CheckExhausted, Results
  <2> QED BY <1>1, <2>4
<1> QED BY <1>3, <1>4

(* A non-payer verdict rests on an answer; failures and blocks alone never *)
(* give one (openbb_client.py:132-135, 402-404).                           *)
THEOREM VerdictsRestOnAnswers == Spec => VerdictNeedsAnswer
<1>1. IInv /\ [Next]_vars => [\A x \in Tickers : RestsOnAnswer(x)]_vars
  BY VerdictStepRests
<1>2. [][\A x \in Tickers : RestsOnAnswer(x)]_vars => VerdictNeedsAnswer
  BY DEF VerdictNeedsAnswer, RestsOnAnswer
<1> QED BY <1>1, <1>2, Invariance, PTL DEF Spec

-----------------------------------------------------------------------------
(* Walks end. *)

(* A price walk may end in a quote walk, a yield walk in a check, the walk *)
(* of a crypto pair in a search.                                           *)
TailSteps(k) ==
  CASE k = "price" -> 3 * Len(Order["unit"]) + 3
    [] k = "yield" -> 3 * Len(Order["check"]) + 3
    [] k = "pair"  -> 3 * Len(Order["supply"]) + 3
    [] OTHER       -> 0

(* What a walk that starts has at most before it. *)
FirstLeft(k) == 3 * Len(Order[k]) + 2 + TailSteps(k)

(* What it has before it where it is: three steps for each provider that   *)
(* is left, less where it is with the one at hand, and its tail.           *)
Room(t) == 3 * (Len(Order[kind[t]]) + 1 - pos[t]) + TailSteps(kind[t])

Left(t) == CASE phase[t] = "idle"    -> 0
             [] phase[t] = "consult" -> Room(t) + 2
             [] phase[t] \in {"call", "reread"} -> Room(t) + 1
             [] OTHER                -> Room(t)

(* A walk has as many steps before it as its lists allow when it begins,   *)
(* every step of its own brings it nearer to its end, and no step of       *)
(* another thread, of the clock or of the memos takes it further away.     *)
Ends(t) ==
  /\ Continue(t) => Left(t)' < Left(t)
  /\ phase[t] # "idle" /\ ~Continue(t) => Left(t)' = Left(t)
  /\ phase[t] = "idle" /\ phase'[t] # "idle" => Left(t)' = FirstLeft(kind'[t])

WalksEnd == [][\A t \in Threads : Ends(t)]_vars

(* The bounds are numbers. *)
LEMMA TailIsNat ==
  ASSUME NEW k \in Kinds
  PROVE  TailSteps(k) \in Nat
<1>1. \A tail \in {"unit", "check", "supply"} : Len(Order[tail]) \in Nat
  BY ListLength DEF Kinds
<1> QED BY <1>1 DEF TailSteps

(* A walk that is not over has something before it; while it has a         *)
(* provider at hand, three steps at least.                                 *)
LEMMA LeftIsNat ==
  ASSUME IInv, NEW t \in Threads
  PROVE  /\ Room(t) \in Nat /\ Left(t) \in Nat
         /\ phase[t] # "idle" => Left(t) > 0
         /\ ~AtEnd(t) => Room(t) >= 3 + TailSteps(kind[t])
<1>1. /\ Len(Order[kind[t]]) \in Nat /\ TailSteps(kind[t]) \in Nat
      /\ pos[t] \in 1 .. Len(Order[kind[t]]) + 1
      /\ phase[t] \in Phases
      /\ phase[t] \in {"call", "merge", "extra"} => ~AtEnd(t)
  BY ListLength, TailIsNat DEF IInv, LocalsInv
<1>2. Room(t) \in Nat /\ (~AtEnd(t) => Room(t) >= 3 + TailSteps(kind[t]))
  <2> DEFINE n == Len(Order[kind[t]])
             rest == TailSteps(kind[t])
             i == pos[t]
  <2>1. n \in Nat /\ rest \in Nat /\ i \in 1 .. n + 1
    BY <1>1
  <2>2. Room(t) = 3 * (n + 1 - i) + rest /\ (AtEnd(t) <=> i > n)
    BY DEF Room, AtEnd
  <2> HIDE DEF n, rest, i
  <2>3. /\ 3 * (n + 1 - i) + rest \in Nat
        /\ ~(i > n) => 3 * (n + 1 - i) + rest >= 3 + rest
    BY <2>1
  <2>4. Room(t) \in Nat /\ (~AtEnd(t) => Room(t) >= 3 + rest)
    BY <2>2, <2>3
  <2> QED BY <2>4 DEF rest
<1> QED BY <1>1, <1>2 DEF Left, Phases

(* A walk that returns has nothing before it. *)
LEMMA ReturnEnds ==
  ASSUME IInv, NEW t \in Threads, phase[t] # "idle", NEW r, Return(t, r)
  PROVE  Left(t)' < Left(t)
<1>1. Left(t)' = 0
  BY DEF IInv, LocalsInv, Return, Left
<1> QED BY <1>1, LeftIsNat

(* The next provider of the list is nearer to its end. *)
LEMMA AdvanceNears ==
  ASSUME IInv, NEW t \in Threads, phase[t] \in {"consult", "call"}, ~AtEnd(t),
         Advance(t)
  PROVE  Left(t)' < Left(t)
<1>1. /\ Len(Order[kind[t]]) \in Nat /\ TailSteps(kind[t]) \in Nat /\ pos[t] \in Nat
  BY ListLength, TailIsNat DEF IInv, LocalsInv
<1>2. phase'[t] = "consult" /\ pos'[t] = pos[t] + 1 /\ kind'[t] = kind[t]
  BY DEF IInv, LocalsInv, Advance
<1>3. Room(t)' = Room(t) - 3
  <2>1. TailSteps(kind[t])' = TailSteps(kind[t])
    BY <1>2 DEF TailSteps
  <2>2. Room(t)' = 3 * (Len(Order[kind'[t]]) + 1 - pos'[t]) + TailSteps(kind[t])'
    BY DEF Room
  <2> DEFINE n == Len(Order[kind[t]])
             rest == TailSteps(kind[t])
  <2>3. Room(t) = 3 * (n + 1 - pos[t]) + rest
    BY DEF Room
  <2>4. Room(t)' = 3 * (n + 1 - (pos[t] + 1)) + rest
    BY <1>2, <2>1, <2>2
  <2>5. n \in Nat /\ rest \in Nat /\ pos[t] \in Nat
    BY <1>1
  <2> HIDE DEF n, rest
  <2> QED BY <2>3, <2>4, <2>5
<1>4. Left(t)' = Room(t) - 1 /\ Left(t) \in {Room(t) + 1, Room(t) + 2}
  BY <1>2, <1>3, LeftIsNat DEF Left
<1> QED BY <1>4, LeftIsNat

(* So is a step that stays with the provider at hand.                      *)
LEMMA TurnNears ==
  ASSUME IInv, NEW t \in Threads,
         \/ phase[t] = "consult" /\ \E p \in {"call", "reread"} : phase' = [phase EXCEPT ![t] = p]
         \/ phase[t] = "call" /\ \E p \in {"merge", "extra"} : phase' = [phase EXCEPT ![t] = p],
         UNCHANGED <<kind, pos>>
  PROVE  Left(t)' < Left(t)
<1>1. Room(t)' = Room(t)
  BY DEF Room
<1>2. \/ phase[t] = "consult" /\ phase'[t] \in {"call", "reread"}
      \/ phase[t] = "call" /\ phase'[t] \in {"merge", "extra"}
  BY DEF IInv, LocalsInv
<1> QED BY <1>1, <1>2, LeftIsNat DEF Left

(* A tail was counted in. *)
LEMMA HandOverNears ==
  ASSUME IInv, NEW t \in Threads,
         \/ phase[t] = "call" /\ kind[t] = "price" /\ kind' = [kind EXCEPT ![t] = "unit"]
         \/ phase[t] = "consult" /\ kind[t] = "yield" /\ kind' = [kind EXCEPT ![t] = "check"]
         \/ phase[t] = "call" /\ kind[t] = "pair" /\ kind' = [kind EXCEPT ![t] = "supply"],
         phase'[t] = "consult", pos' = [pos EXCEPT ![t] = 1]
  PROVE  Left(t)' < Left(t)
<1>1. pos'[t] = 1 /\ kind'[t] \in {"unit", "check", "supply"}
  BY DEF IInv, LocalsInv
<1>2. Len(Order[kind'[t]]) \in Nat
  BY <1>1, ListLength DEF Kinds
<1>3. TailSteps(kind[t]) = 3 * Len(Order[kind'[t]]) + 3
  BY DEF IInv, LocalsInv, TailSteps
<1>4. Left(t)' = 3 * Len(Order[kind'[t]]) + 2
  BY <1>1, <1>2 DEF Left, Room, TailSteps
<1>5. phase[t] # "idle"
  OBVIOUS
<1>6. Room(t) >= TailSteps(kind[t]) /\ Left(t) >= Room(t)
  <2>1. /\ Len(Order[kind[t]]) \in Nat /\ TailSteps(kind[t]) \in Nat
        /\ pos[t] \in 1 .. Len(Order[kind[t]]) + 1
    BY ListLength, TailIsNat DEF IInv, LocalsInv
  <2>2. Room(t) >= TailSteps(kind[t])
    BY <2>1 DEF Room
  <2>3. Left(t) >= Room(t)
    BY <1>5, LeftIsNat DEF Left
  <2> QED BY <2>2, <2>3
<1>7. TailSteps(kind[t]) \in Nat
  BY TailIsNat DEF IInv, LocalsInv
<1> QED BY <1>1, <1>2, <1>3, <1>4, <1>6, <1>7, LeftIsNat

(* Every step of a walk brings it nearer to its end. *)
LEMMA ContinueNears ==
  ASSUME IInv, NEW t \in Threads, Continue(t)
  PROVE  Left(t)' < Left(t)
<1>1. phase[t] \in {"call", "merge", "extra"} => ~AtEnd(t)
  BY DEF IInv, LocalsInv
<1>2. CASE \/ PassOver(t) \/ Throttled(t) \/ Fails(t) \/ EmptyFrame(t) \/ Contributes(t)
  BY <1>1, <1>2, AdvanceNears DEF PassOver, Throttled, Fails, EmptyFrame, Contributes
<1>3. CASE Call(t) \/ RecordsProjections(t) \/ DividendsToMerge(t)
  BY <1>3, TurnNears DEF Call, RecordsProjections, DividendsToMerge
<1>4. CASE Unknown(t)
  BY <1>1, <1>4, AdvanceNears, ReturnEnds DEF Unknown
<1>5. CASE \/ SplitsSettled(t) \/ Records(t) \/ CryptoBars(t) \/ SupplyTold(t)
           \/ WebsiteTold(t) \/ ExtraEnds(t) \/ MetricsAnswer(t) \/ YieldRereads(t)
           \/ Exhausted(t) \/ SplitsExhausted(t) \/ SupplyExhausted(t)
           \/ MergedExhausted(t)
  BY <1>5, ReturnEnds DEF SplitsSettled, Records, CryptoBars, SupplyTold, WebsiteTold,
         ExtraEnds, MetricsAnswer, YieldRereads, Exhausted, SplitsExhausted,
         SupplyExhausted, MergedExhausted
<1>6. CASE \/ MergeEnds(t) \/ DividendMaxAnswers(t) \/ CheckConfirms(t)
           \/ MetricsLackColumn(t) \/ DividendsExhausted(t) \/ CheckExhausted(t)
  BY <1>6, ReturnEnds DEF MergeEnds, DividendMaxAnswers, CheckConfirms, MetricsLackColumn,
         DividendsExhausted, CheckExhausted
<1>7. CASE NeedsNoCheck(t) \/ QuoteTells(t) \/ QuoteLacksCurrency(t) \/ UnitExhausted(t)
  BY <1>7, ReturnEnds
     DEF NeedsNoCheck, QuoteTells, QuoteLacksCurrency, UnitExhausted, ReturnRows
<1>8. CASE NeedsCheck(t)
  <2>1. CASE ReturnRows(t, Rows(t, currency[ticker[t]]))
    BY <1>8, <2>1, ReturnEnds DEF NeedsCheck, ReturnRows
  <2>2. CASE ~ReturnRows(t, Rows(t, currency[ticker[t]]))
    <3>1. /\ phase[t] = "call" /\ kind[t] = "price" /\ kind' = [kind EXCEPT ![t] = "unit"]
          /\ phase' = [phase EXCEPT ![t] = "consult"] /\ pos' = [pos EXCEPT ![t] = 1]
      BY <1>8, <2>2 DEF NeedsCheck
    <3>2. phase'[t] = "consult"
      BY <3>1 DEF IInv, LocalsInv
    <3> QED BY <3>1, <3>2, HandOverNears
  <2> QED BY <2>1, <2>2
<1>9. CASE YieldChecks(t)
  <2>1. CASE pays[ticker[t]] = "untold"
    BY <1>9, <2>1, HandOverNears DEF YieldChecks
  <2>2. CASE pays[ticker[t]] # "untold"
    BY <1>9, <2>2, TurnNears DEF YieldChecks
  <2> QED BY <2>1, <2>2
<1>10. CASE PairQuoted(t)
  <2>1. phase'[t] = "consult"
    BY <1>10 DEF PairQuoted, IInv, LocalsInv
  <2> QED BY <1>10, <2>1, HandOverNears DEF PairQuoted
<1> QED
  BY <1>2, <1>3, <1>4, <1>5, <1>6, <1>7, <1>8, <1>9, <1>10 DEF Continue, Answer

(* A step of another thread leaves a walk alone. *)
LEMMA OthersLeave ==
  ASSUME IInv, NEW t \in Threads, NEW u \in Threads \ {t}, Continue(u)
  PROVE  phase'[t] = phase[t] /\ kind'[t] = kind[t] /\ pos'[t] = pos[t]
BY DEF IInv, LocalsInv, Continue, Answer, PassOver, Call, Throttled, Fails, EmptyFrame,
       Unknown, SplitsSettled, Contributes, Records, RecordsProjections,
       DividendsToMerge, DividendMaxAnswers, CheckConfirms, MetricsAnswer,
       MetricsLackColumn, NeedsNoCheck, NeedsCheck, QuoteTells, QuoteLacksCurrency,
       ExtraEnds, MergeEnds, Exhausted, SplitsExhausted, MergedExhausted,
       DividendsExhausted, YieldChecks, CheckExhausted, UnitExhausted, CryptoBars,
       PairQuoted, SupplyTold, WebsiteTold, SupplyExhausted, YieldRereads, Advance,
       Return, ReturnRows

(* What WalksEnd says of a step. *)
LEMMA StepNears ==
  ASSUME IInv, [Next]_vars, NEW t \in Threads
  PROVE  Ends(t)
<1>1. ASSUME phase'[t] = phase[t], kind'[t] = kind[t], pos'[t] = pos[t]
      PROVE  Left(t)' = Left(t)
  BY <1>1 DEF Left, Room
<1>2. CASE Continue(t)
  <2>1. phase[t] # "idle"
    BY <1>2
       DEF Continue, Answer, PassOver, Call, Throttled, Fails, EmptyFrame, Unknown,
           SplitsSettled, Contributes, Records, RecordsProjections, DividendsToMerge,
           DividendMaxAnswers, CheckConfirms, MetricsAnswer, MetricsLackColumn,
           NeedsNoCheck, NeedsCheck, QuoteTells, QuoteLacksCurrency, ExtraEnds,
           MergeEnds, Exhausted, SplitsExhausted, MergedExhausted, DividendsExhausted,
           YieldChecks, CheckExhausted, UnitExhausted, CryptoBars, PairQuoted,
           SupplyTold, WebsiteTold, SupplyExhausted, YieldRereads
  <2> QED BY <1>2, <2>1, ContinueNears DEF Ends
<1>3. ASSUME ~Continue(t), phase'[t] = phase[t], kind'[t] = kind[t], pos'[t] = pos[t]
      PROVE  Ends(t)
  BY <1>1, <1>3 DEF Ends
<1>4. ASSUME ~Continue(t), NEW u \in Threads, Continue(u)
      PROVE  Ends(t)
  BY <1>3, <1>4, OthersLeave
<1>5. ASSUME ~Continue(t), NEW u \in Threads, NEW k \in EntryKinds, NEW x \in Tickers,
             Begin(u, k, x)
      PROVE  Ends(t)
  <2>1. CASE u # t
    <3>1. phase'[t] = phase[t] /\ kind'[t] = kind[t] /\ pos'[t] = pos[t]
      BY <1>5, <2>1 DEF Begin, IInv, LocalsInv
    <3> QED BY <1>3, <1>5, <3>1
  <2>2. CASE u = t
    <3>1. /\ phase[t] = "idle" /\ phase'[t] = "consult" /\ kind'[t] = k /\ pos'[t] = 1
      BY <1>5, <2>2 DEF Begin, IInv, LocalsInv
    <3>2. Len(Order[k]) \in Nat /\ TailSteps(k) \in Nat
      BY ListLength, TailIsNat DEF EntryKinds
    <3>3. Left(t)' = FirstLeft(k)
      BY <3>1, <3>2 DEF Left, Room, FirstLeft
    <3> QED BY <1>5, <3>1, <3>3 DEF Ends
  <2> QED BY <2>1, <2>2
<1>6. ASSUME ~Continue(t), NEW u \in Threads, NEW k \in EntryKinds, NEW x \in Tickers,
             ShortCircuit(u, k, x)
      PROVE  Ends(t)
  <2>1. phase'[t] = phase[t]
    BY <1>6 DEF ShortCircuit, Return, IInv, LocalsInv
  <2>2. CASE phase[t] = "idle"
    BY <1>6, <2>1, <2>2 DEF Ends
  <2>3. CASE phase[t] # "idle"
    <3>1. kind'[t] = kind[t] /\ pos'[t] = pos[t]
      BY <1>6, <2>3 DEF ShortCircuit, Return, IInv, LocalsInv
    <3> QED BY <1>3, <1>6, <2>1, <3>1
  <2> QED BY <2>2, <2>3
<1>7. ASSUME ~Continue(t),
             \/ \E u \in Threads : Dispose(u)
             \/ Tick
             \/ \E x \in Tickers : Drop(x)
             \/ UNCHANGED vars
      PROVE  Ends(t)
  <2>1. UNCHANGED <<phase, kind, pos>>
    BY <1>7 DEF Dispose, Tick, Drop, vars, locals
  <2> QED BY <1>3, <1>7, <2>1
<1> QED BY <1>2, <1>4, <1>5, <1>6, <1>7 DEF Next

(* For any threads and any lists: a walk takes no more steps than its      *)
(* lists allow, whatever the providers answer and whoever blocks them      *)
(* meanwhile                                                               *)
(* (openbb_client.py:155-160, 217-230, 527-544).                           *)
THEOREM WalksAreBounded == Spec => WalksEnd
<1>1. IInv /\ [Next]_vars => [\A t \in Threads : Ends(t)]_vars
  BY StepNears
<1> QED BY <1>1, Invariance, PTL DEF Spec, WalksEnd

(* And it is over when it has no step left. *)
THEOREM LeftCountsSteps ==
  Spec => [](\A t \in Threads : Left(t) \in Nat /\ (phase[t] # "idle" => Left(t) > 0))
<1>1. IInv => \A t \in Threads : Left(t) \in Nat /\ (phase[t] # "idle" => Left(t) > 0)
  BY LeftIsNat
<1> QED BY <1>1, Invariance, PTL

=============================================================================
