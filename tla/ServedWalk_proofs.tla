-------------------------- MODULE ServedWalk_proofs --------------------------
(***************************************************************************)
(* The gateway with walks inside its gate is a Gateway and a ProviderWalk, *)
(* for any workers, routes and provider lists.  So what is proved of every *)
(* one of either holds of it as well: the gate, the lifetimes, the promise *)
(* of the routes; that walks end, and what they leave in their tables.     *)
(* Together: the gate bounds the walks, and what is cached is whole.       *)
(***************************************************************************)
EXTENDS ServedWalk, Gateway_proofs

(* A step of the composition is a step of the gateway, or one that the     *)
(* gateway does not see: a step of a walk, an entry that a memo drops.     *)
LEMMA ServedStepIsStep == [ServedNext]_allVars => [Next]_vars
<1> SUFFICES ASSUME [ServedNext]_allVars PROVE [Next]_vars
  OBVIOUS
<1>1. ASSUME NEW w \in Workers, ServedStep(w)
      PROVE  [Next]_vars
  <2>1. CASE EnterGate(w)
    BY <2>1 DEF EnterGate, Step, Next
  <2>2. CASE WalkStep(w)
    BY <2>2 DEF WalkStep
  <2>3. CASE LeaveGate(w)
    BY <2>3 DEF LeaveGate, Step, Next
  <2>4. CASE StoreRows(w)
    BY <2>4 DEF StoreRows, Step, Next
  <2>5. CASE HandlerStep(w)
    BY <2>5 DEF HandlerStep, Next
  <2> QED BY <1>1, <2>1, <2>2, <2>3, <2>4, <2>5 DEF ServedStep
<1>2. ASSUME NEW w \in Workers, Ask(w) \/ Probe(w)
      PROVE  [Next]_vars
  BY <1>2 DEF Ask, Probe, Next
<1>3. CASE TimePasses \/ RedisFaults
  BY <1>3 DEF TimePasses, RedisFaults, RedisStep, Next
<1>4. CASE Forgotten
  BY <1>4 DEF Forgotten
<1>5. CASE UNCHANGED allVars
  BY <1>5 DEF allVars
<1> QED BY <1>1, <1>2, <1>3, <1>4, <1>5 DEF ServedNext

(* Whatever holds of every Gateway holds of the gateway over real walks    *)
(* (main.py:261-282).                                                      *)
THEOREM ServedIsGateway == ServedInit /\ [][ServedNext]_allVars => Spec
<1>1. ServedInit => Init
  BY DEF ServedInit
<1> QED BY <1>1, ServedStepIsStep, PTL DEF Spec

(* A reply over real walks is the outcome of the request's own walk, or a  *)
(* remembered one of a walk for the same key (main.py:261-282).            *)
THEOREM ServedKeepsPromise == ServedSpec => KeepsPromise
<1>1. ServedSpec => ServedInit /\ [][ServedNext]_allVars
  BY PTL DEF ServedSpec
<1> QED BY <1>1, ServedIsGateway, PromiseIsKept, PTL

-----------------------------------------------------------------------------
(* Walks run under the gate. *)

(* The routes of the composition have a symbol and a walk, under the gate. *)
LEMMA KeysAreServed ==
  ASSUME NEW k \in Requests
  PROVE  /\ k.sym \in Symbols /\ Gated(k.ns)
         /\ KindOf[k.ns] \in Walk!EntryKinds
<1>1. k.ns \in Routes /\ k.sym \in Symbols
  BY ServedAssumption DEF Requests, Key, CatalogueRoutes
<1> QED BY <1>1, ServedAssumption DEF Gated

Walks == INSTANCE ProviderWalk_proofs WITH
           Threads <- Workers, Tickers <- Symbols, Idle <- Nothing,
           result <- rows

(* A walk runs only where its worker holds a permit. *)
Composed ==
  /\ phase \in [Workers -> Walk!Phases]
  /\ \A w \in Workers : phase[w] # "idle" => stage[w] = "fetch"

(* A step of a walk leaves the other walks where they are. *)
LEMMA WalkPhases ==
  ASSUME phase \in [Workers -> Walk!Phases], NEW w \in Workers, Walk!Continue(w)
  PROVE  \E p \in Walk!Phases : phase' = [phase EXCEPT ![w] = p]
BY DEF Walk!Continue, Walk!Answer, Walk!PassOver, Walk!Call, Walk!Throttled,
       Walk!Fails, Walk!EmptyFrame, Walk!Unknown, Walk!SplitsSettled,
       Walk!Contributes, Walk!Records, Walk!RecordsProjections,
       Walk!DividendsToMerge, Walk!DividendMaxAnswers, Walk!CheckConfirms,
       Walk!MetricsAnswer, Walk!MetricsLackColumn, Walk!NeedsNoCheck,
       Walk!NeedsCheck, Walk!QuoteTells, Walk!QuoteLacksCurrency, Walk!ExtraEnds,
       Walk!MergeEnds, Walk!Exhausted, Walk!SplitsExhausted,
       Walk!MergedExhausted, Walk!DividendsExhausted, Walk!YieldChecks,
       Walk!CheckExhausted, Walk!UnitExhausted, Walk!CryptoBars, Walk!PairQuoted,
       Walk!SupplyTold, Walk!WebsiteTold, Walk!SupplyExhausted, Walk!YieldRereads,
       Walk!Advance, Walk!Return, Walk!ReturnRows, Walk!Phases

(* A step of a handler moves its own worker only. *)
LEMMA StepMovesOne ==
  ASSUME NEW w \in Workers, Step(w) \/ \E k \in Requests : Arrive(w, k)
  PROVE  \E s : stage' = [stage EXCEPT ![w] = s]
BY DEF Step, Arrive, NavLookup, ProbeFinds, ProbeFails, NavStore, Hit, MissedLookup,
       Acquire, FetchReturns, FetchRaises, SnapshotUnavailable, UnknownCategory,
       FetchEnds, StoreValue, StoreNegative, StoreUnknown, NoCatalogueRows,
       ReplyFailure, Leave

(* A walk begins when its worker has the gate, and the worker leaves it    *)
(* when the walk is over.                                                  *)
LEMMA NextComposed == IInv /\ Composed /\ [ServedNext]_allVars => Composed'
<1> SUFFICES ASSUME IInv, Composed, [ServedNext]_allVars PROVE Composed'
  OBVIOUS
<1> USE DEF Composed, IInv, LocalInv
<1>1. ASSUME NEW w \in Workers, EnterGate(w)
      PROVE  Composed'
  <2>1. /\ stage' = [stage EXCEPT ![w] = "fetch"]
        /\ \/ phase' = [phase EXCEPT ![w] = "consult"]
           \/ phase' = [phase EXCEPT ![w] = "idle"]
    BY <1>1 DEF EnterGate, Acquire, Walk!Begin, Walk!ShortCircuit, Walk!Return
  <2> QED BY <2>1 DEF Walk!Phases
<1>2. ASSUME NEW w \in Workers, WalkStep(w)
      PROVE  Composed'
  BY <1>2, WalkPhases DEF WalkStep, vars
<1>3. ASSUME NEW w \in Workers, phase[w] = "idle", UNCHANGED phase,
             \E s : stage' = [stage EXCEPT ![w] = s]
      PROVE  Composed'
  BY <1>3
<1>4. ASSUME NEW w \in Workers, LeaveGate(w) \/ StoreRows(w) \/ HandlerStep(w)
      PROVE  Composed'
  <2>1. Step(w)
    BY <1>4 DEF LeaveGate, StoreRows, HandlerStep, Step
  <2>2. phase[w] = "idle" /\ UNCHANGED phase
    BY <1>4 DEF LeaveGate, StoreRows, HandlerStep, walkVars, Walk!Dispose
  <2> QED BY <1>3, <2>1, <2>2, StepMovesOne
<1>5. ASSUME UNCHANGED <<stage, phase>>
      PROVE  Composed'
  BY <1>5
<1>6. ASSUME NEW w \in Workers, Ask(w)
      PROVE  Composed'
  <2>1. CASE TurnAway(w)
    BY <1>5, <1>6, <2>1 DEF Ask, TurnAway, walkVars
  <2>2. CASE \E k \in Requests : Arrive(w, k)
    BY <1>3, <1>6, <2>2, StepMovesOne DEF Ask, Arrive, walkVars
  <2> QED BY <1>6, <2>1, <2>2 DEF Ask
<1>7. CASE \E w \in Workers : Probe(w)
  BY <1>5, <1>7 DEF Probe, Ready, walkVars
<1>8. CASE TimePasses \/ RedisFaults \/ Forgotten \/ UNCHANGED allVars
  BY <1>5, <1>8 DEF TimePasses, RedisFaults, Forgotten, allVars, vars, walkVars,
                    Walk!Tick, Walk!Drop, Walk!locals
<1> QED BY <1>1, <1>2, <1>4, <1>6, <1>7, <1>8 DEF ServedNext, ServedStep

(* So it is throughout. *)
LEMMA ServedInvariance == ServedInit /\ [][ServedNext]_allVars => [](IInv /\ Composed)
<1>1. ServedInit => Composed
  BY DEF ServedInit, Walk!Init, Walk!Phases, Composed
<1> QED BY <1>1, ServedIsGateway, Invariance, NextComposed, PTL

(* The gate bounds what it is for: at no time do more than                 *)
(* UPSTREAM_MAX_INFLIGHT requests walk the providers (main.py:80-85, 272). *)
THEOREM ProviderWalksAreBounded ==
  ServedSpec => [](Cardinality({w \in Workers : phase[w] # "idle"}) <= MaxInflight)
<1>1. IInv /\ Composed => Cardinality({w \in Workers : phase[w] # "idle"}) <= MaxInflight
  <2> SUFFICES ASSUME IInv, Composed
               PROVE  Cardinality({w \in Workers : phase[w] # "idle"}) <= MaxInflight
    OBVIOUS
  <2> DEFINE walking == {w \in Workers : phase[w] # "idle"}
  <2>1. walking \subseteq Holders
    <3> SUFFICES ASSUME NEW w \in Workers, phase[w] # "idle" PROVE w \in Holders
      OBVIOUS
    <3>1. stage[w] = "fetch"
      BY DEF Composed
    <3>2. Gated(key[w].ns)
      BY <3>1, RequestFacts, KeysAreServed DEF Gated, Composed, IInv, LocalInv
    <3> QED BY <3>1, <3>2 DEF Holders, InBlock
  <2> HIDE DEF walking
  <2>2. Cardinality(walking) <= Cardinality(Holders) /\ Cardinality(walking) \in Nat
    BY <2>1, HoldersFinite, FS_Subset, FS_CardinalityType
  <2>3. Cardinality(Holders) <= MaxInflight
    BY HoldersFinite, GatewayAssumption DEF IInv, GateInv, GateConserved
  <2>4. Cardinality(walking) <= MaxInflight
    BY <2>2, <2>3, HoldersFinite, GatewayAssumption
  <2> QED BY <2>4 DEF walking
<1>2. ServedSpec => ServedInit /\ [][ServedNext]_allVars
  BY PTL DEF ServedSpec
<1> QED BY <1>1, <1>2, ServedInvariance, PTL

-----------------------------------------------------------------------------
(* They are walks of ProviderWalk. *)

(* A step of the composition is a step of the walks, or none of theirs.    *)
LEMMA ServedStepIsWalk == IInv /\ [ServedNext]_allVars => [Walk!Next]_(Walk!vars)
<1> SUFFICES ASSUME IInv, [ServedNext]_allVars PROVE [Walk!Next]_(Walk!vars)
  OBVIOUS
<1>1. ASSUME UNCHANGED walkVars PROVE UNCHANGED Walk!vars
  BY <1>1 DEF walkVars, tables, Walk!vars, Walk!shared, Walk!locals
<1>2. ASSUME NEW w \in Workers, EnterGate(w)
      PROVE  Walk!Next
  <2>1. key[w] \in Requests
    BY <1>2 DEF EnterGate, Acquire, IInv, LocalInv
  <2>2. KindOf[key[w].ns] \in Walk!EntryKinds /\ key[w].sym \in Symbols
    BY <2>1, KeysAreServed
  <2> QED BY <1>2, <2>2 DEF EnterGate, Walk!Next
<1>3. ASSUME NEW w \in Workers, WalkStep(w) \/ StoreRows(w) \/ HandlerStep(w)
      PROVE  Walk!Next
  BY <1>3 DEF WalkStep, StoreRows, HandlerStep, Walk!Next
<1>4. ASSUME NEW w \in Workers, LeaveGate(w) \/ Ask(w) \/ Probe(w)
      PROVE  UNCHANGED Walk!vars
  BY <1>1, <1>4 DEF LeaveGate, Ask, Probe
<1>5. TimePasses => Walk!Next
  BY DEF TimePasses, Walk!Next
<1>6. Forgotten => Walk!Next
  BY DEF Forgotten, Walk!Next
<1>7. RedisFaults \/ UNCHANGED allVars => UNCHANGED Walk!vars
  BY <1>1 DEF RedisFaults, allVars
<1> QED BY <1>2, <1>3, <1>4, <1>5, <1>6, <1>7 DEF ServedNext, ServedStep

(* Whatever holds of every ProviderWalk holds of the walks under the gate  *)
(* (main.py:272, openbb_client.py).                                        *)
THEOREM ServedIsProviderWalk == ServedSpec => Walk!Spec
<1>1. ServedSpec => ServedInit /\ [][ServedNext]_allVars
  BY PTL DEF ServedSpec
<1>2. ServedInit => Walk!Init
  BY DEF ServedInit
<1> QED BY <1>1, <1>2, ServedInvariance, ServedStepIsWalk, PTL DEF Walk!Spec

(* What is known of the walks is said of Walk's definitions. *)
LEMMA SameWalks == Walk!Spec => Walks!Spec
<1>1. Walk!Init => Walks!Init
  BY DEF Walk!Init, Walks!Init
<1>2. [Walk!Next]_(Walk!vars) => [Walks!Next]_(Walks!vars)
  BY Zenon DEF
     Walk!Next, Walks!Next, Walk!Kinds, Walks!Kinds, Walk!Flagged,
         Walks!Flagged, Walk!EntryKinds, Walks!EntryKinds, Walk!Phases,
         Walks!Phases, Walk!Results, Walks!Results, Walk!Provider,
         Walks!Provider, Walk!AtEnd, Walks!AtEnd, Walk!Return, Walks!Return,
         Walk!Advance, Walks!Advance, Walk!Remember, Walks!Remember,
         Walk!Begin, Walks!Begin, Walk!ShortCircuit, Walks!ShortCircuit,
         Walk!Dispose, Walks!Dispose, Walk!PassOver, Walks!PassOver,
         Walk!Call, Walks!Call, Walk!Throttled, Walks!Throttled, Walk!Fails,
         Walks!Fails, Walk!EmptyFrame, Walks!EmptyFrame, Walk!SplitsSettled,
         Walks!SplitsSettled, Walk!Contributes, Walks!Contributes,
         Walk!Unknown, Walks!Unknown, Walk!Records, Walks!Records,
         Walk!RecordsProjections, Walks!RecordsProjections, Walk!ExtraEnds,
         Walks!ExtraEnds, Walk!DividendsToMerge, Walks!DividendsToMerge,
         Walk!MergeEnds, Walks!MergeEnds, Walk!DividendMaxAnswers,
         Walks!DividendMaxAnswers, Walk!CheckConfirms, Walks!CheckConfirms,
         Walk!MetricsAnswer, Walks!MetricsAnswer, Walk!MetricsLackColumn,
         Walks!MetricsLackColumn, Walk!Rows, Walks!Rows, Walk!ReturnRows,
         Walks!ReturnRows, Walk!NeedsNoCheck, Walks!NeedsNoCheck,
         Walk!NeedsCheck, Walks!NeedsCheck, Walk!QuoteTells, Walks!QuoteTells,
         Walk!QuoteLacksCurrency, Walks!QuoteLacksCurrency,
         Walk!UnitExhausted, Walks!UnitExhausted, Walk!Exhausted,
         Walks!Exhausted, Walk!SplitsExhausted, Walks!SplitsExhausted,
         Walk!MergedExhausted, Walks!MergedExhausted, Walk!DividendsExhausted,
         Walks!DividendsExhausted, Walk!YieldChecks, Walks!YieldChecks,
         Walk!CheckExhausted, Walks!CheckExhausted, Walk!Tick, Walks!Tick,
         Walk!Drop, Walks!Drop, Walk!Answer, Walks!Answer, Walk!Continue,
         Walks!Continue, Walk!vars, Walks!vars, Walk!shared, Walks!shared,
         Walk!locals, Walks!locals, Walk!CryptoBars, Walks!CryptoBars,
         Walk!PairQuoted, Walks!PairQuoted, Walk!SupplyTold, Walks!SupplyTold,
         Walk!WebsiteTold, Walks!WebsiteTold, Walk!SupplyExhausted,
         Walks!SupplyExhausted, Walk!YieldRereads, Walks!YieldRereads
<1> QED BY <1>1, <1>2, PTL DEF Walk!Spec, Walks!Spec

(* A walk under the gate never returns prices that were wrongly divided.   *)
LEMMA RowsAreNeverShrunk == ServedSpec => []Walks!NeverShrunk
<1>1. Walks!WalkAssumption
  BY ListsAssumption DEF Walk!Kinds, Walks!Kinds, Walks!WalkAssumption
<1>2. Walks!IdleAssumption
  BY ListsAssumption DEF Walk!Results, Walks!Results, Walks!IdleAssumption
<1> QED BY <1>1, <1>2, ServedIsProviderWalk, SameWalks, Walks!PricesStayWhole, PTL

CacheIsWhole == \A k \in Requests : unit[k] # "shrunk"

CacheInv == DOMAIN unit = Requests /\ CacheIsWhole

(* What is written to Redis is what the worker's own walk returned.        *)
LEMMA NextCacheInv ==
  Walks!NeverShrunk /\ CacheInv /\ [ServedNext]_allVars => CacheInv'
<1> SUFFICES ASSUME Walks!NeverShrunk, CacheInv, [ServedNext]_allVars
             PROVE  CacheInv'
  OBVIOUS
<1>1. ASSUME UNCHANGED unit PROVE CacheInv'
  BY <1>1 DEF CacheInv, CacheIsWhole
<1>2. ASSUME NEW w \in Workers, StoreRows(w)
      PROVE  CacheInv'
  <2>1. unit' = unit \/ unit' = [unit EXCEPT ![key[w]] = rows[w]]
    BY <1>2 DEF StoreRows
  <2>2. rows[w] # "shrunk"
    BY DEF Walks!NeverShrunk
  <2> QED BY <2>1, <2>2 DEF CacheInv, CacheIsWhole
<1>3. ASSUME NEW w \in Workers,
             \/ EnterGate(w) \/ WalkStep(w) \/ LeaveGate(w) \/ HandlerStep(w)
             \/ Ask(w) \/ Probe(w)
      PROVE  UNCHANGED unit
  BY <1>3 DEF EnterGate, WalkStep, LeaveGate, HandlerStep, Ask, Probe
<1>4. TimePasses \/ RedisFaults \/ Forgotten \/ UNCHANGED allVars => UNCHANGED unit
  BY DEF TimePasses, RedisFaults, Forgotten, allVars
<1> QED BY <1>1, <1>2, <1>3, <1>4 DEF ServedNext, ServedStep

(* No price in pounds or dollars is in the shared cache divided by 100,    *)
(* whichever worker learned the currency, and whatever was forgotten or    *)
(* lost in between (openbb_client.py:240-252, main.py:281-282).            *)
THEOREM CachedPricesStayWhole == ServedSpec => []CacheIsWhole
<1>1. ServedSpec => ServedInit /\ [][ServedNext]_allVars
  BY PTL DEF ServedSpec
<1>2. ServedInit => CacheInv
  BY ListsAssumption DEF ServedInit, CacheInv, CacheIsWhole, Walk!Results
<1>3. CacheInv => CacheIsWhole
  BY DEF CacheInv
<1> QED BY <1>1, <1>2, <1>3, NextCacheInv, RowsAreNeverShrunk, PTL

=============================================================================
