--------------------------- MODULE Gateway_proofs ---------------------------
(***************************************************************************)
(* For any number of workers, permits, routes, symbols and lifetimes: the  *)
(* semaphore never drifts, readers understand what they find in Redis, a   *)
(* remembered 404 dies in time, requests take few steps and wait for one   *)
(* that does not wait, and the gateway implements RoutePromise.            *)
(*                                                                         *)
(* The inductive invariant has one part for Redis, one for the locals of   *)
(* the handlers and one for the semaphore.  LocalInv is what the others    *)
(* need beyond the properties: which request a worker can be serving at a  *)
(* stage, and which outcomes the route of that request can have had.       *)
(***************************************************************************)
EXTENDS Gateway, FiniteSetTheorems, TLAPS

(* What is in Redis. *)
StoreInv == Redis!TypeOK /\ EntriesFitReaders /\ EntryLifetimes

(* Where the workers are, and with what. *)
LocalInv ==
  /\ stage \in [Workers -> Stages]
  /\ key \in [Workers -> Requests \cup {Nothing}]
  /\ result \in [Workers -> Outcomes \cup {Nothing}]
  /\ answer \in [Workers -> Answers \cup {Nothing}]
  /\ inRotation \in BOOLEAN
  /\ \A w \in Workers :
       /\ stage[w] = "idle" <=> key[w] = Nothing
       /\ stage[w] = "settle" <=> result[w] # Nothing
       /\ stage[w] \in {"nav_lookup", "nav_probe", "nav_store"} =>
            key[w].ns = "ohlcv" /\ key[w].sym \in Funds
       /\ stage[w] = "gate" => Gated(key[w].ns)
       /\ result[w] = "unknown" => key[w].ns = "fund_history"
       /\ result[w] = "empty" => NegativeAware(key[w].ns)
       /\ result[w] = "none" =>
            NegativeAware(key[w].ns) \/ key[w].ns = "corp_catalogue"

(* The semaphore. *)
GateInv == permits \in Nat /\ GateConserved

IInv == StoreInv /\ LocalInv /\ GateInv

-----------------------------------------------------------------------------
(* Keys. *)

(* A request's key is a cache key of a known route, and the clamp of a     *)
(* price request is a price request for the same symbol.                   *)
LEMMA RequestFacts ==
  ASSUME NEW k \in Requests
  PROVE  /\ k \in Keys
         /\ k # Nothing
         /\ k.ns \in RouteNames
         /\ k.ns = "ohlcv" => /\ Clamp(k) \in Requests
                              /\ Clamp(k).ns = "ohlcv"
                              /\ Clamp(k).sym = k.sym
<1>1. k \in Keys BY DEF Keys
<1>2. k # Nothing BY NothingAssumption
<1>3. k.ns \in RouteNames
  BY GatewayAssumption DEF Requests, Key, RouteNames, CatalogueRoutes
<1>4. ASSUME k.ns = "ohlcv"
      PROVE  /\ Clamp(k) \in Requests
             /\ Clamp(k).ns = "ohlcv"
             /\ Clamp(k).sym = k.sym
  <2>1. PICK s \in Symbols, d \in {"early", "inception"} :
          k = Key("ohlcv", s, d) /\ "ohlcv" \in Routes
    BY <1>4 DEF Requests, Key, CatalogueRoutes
  <2>2. Clamp(k) = Key("ohlcv", s, "inception")
    BY <2>1 DEF Clamp, Key
  <2>3. Key("ohlcv", s, "inception") \in Requests
    BY <2>1 DEF Requests
  <2> QED BY <2>1, <2>2, <2>3 DEF Key
<1> QED BY <1>1, <1>2, <1>3, <1>4

(* The key of an inception date is no request's key.                       *)
LEMMA NavKeyFacts ==
  ASSUME NEW s \in Funds
  PROVE  NavKey(s) \in Keys /\ NavKey(s) \notin Requests
<1>1. NavKey(s) \in Keys BY DEF Keys
<1>2. NavKey(s).ns \notin RouteNames BY DEF NavKey, Key, RouteNames
<1> QED BY <1>1, <1>2, RequestFacts

-----------------------------------------------------------------------------
(* Redis. *)

(* Storing what the key's reader understands, for its own lifetime, keeps  *)
(* the promises of the store, also when the write is lost.                 *)
LEMMA SetKeepsStore ==
  ASSUME StoreInv, NEW k \in Keys, NEW v \in Readable(k), v \in Values,
         Redis!Set(k, v, Lifetime(v))
  PROVE  StoreInv'
<1> USE GatewayAssumption
<1>1. Lifetime(v) \in 1 .. NavTTL
  BY DEF Lifetime
<1>2. Redis!TypeOK'
  BY <1>1 DEF StoreInv, Redis!TypeOK, Redis!Set, Redis!Entries
<1>3. EntriesFitReaders'
  BY DEF StoreInv, EntriesFitReaders, Redis!TypeOK, Redis!Set, Readable
<1>4. EntryLifetimes'
  BY <1>1 DEF StoreInv, EntryLifetimes, Redis!TypeOK, Redis!Set, Redis!Entries, Redis!Absent, Lifetime
<1> QED BY <1>2, <1>3, <1>4 DEF StoreInv

(* Redis only loses and ages entries.                                      *)
LEMMA RedisKeepsStore ==
  ASSUME StoreInv, Redis!Fail \/ Redis!Recover \/ Redis!Tick
  PROVE  StoreInv'
<1> USE GatewayAssumption DEF StoreInv, Redis!TypeOK, Redis!Entries, Redis!Absent
<1>1. CASE Redis!Fail
  BY <1>1 DEF Redis!Fail, EntriesFitReaders, EntryLifetimes
<1>2. CASE Redis!Recover
  BY <1>2, NothingAssumption DEF Redis!Recover, EntriesFitReaders, EntryLifetimes, Lifetime
<1>3. CASE Redis!Tick
  <2>1. Redis!TypeOK'
    BY <1>3 DEF Redis!Tick, Redis!Aged
  <2>2. EntriesFitReaders'
    BY <1>3 DEF Redis!Tick, Redis!Aged, EntriesFitReaders, Readable
  <2>3. EntryLifetimes'
    BY <1>3 DEF Redis!Tick, Redis!Aged, EntryLifetimes, Lifetime
  <2> QED BY <2>1, <2>2, <2>3
<1> QED BY <1>1, <1>2, <1>3

-----------------------------------------------------------------------------
(* The semaphore. *)

(* The workers inside the block can be counted.                            *)
LEMMA HoldersFinite == IsFiniteSet(Holders) /\ Cardinality(Holders) \in Nat
  BY GatewayAssumption, FS_Subset, FS_CardinalityType DEF Holders

(* A worker that enters the block takes one permit.                        *)
LEMMA PermitTaken ==
  ASSUME GateInv, NEW w \in Workers, ~InBlock(w), permits > 0,
         Holders' = Holders \cup {w}, permits' = permits - 1
  PROVE  GateInv'
<1>1. Cardinality(Holders') = Cardinality(Holders) + 1
  BY HoldersFinite, FS_AddElement DEF Holders
<1> QED BY <1>1, HoldersFinite, GatewayAssumption DEF GateInv, GateConserved

(* A worker that leaves the block gives one back.                          *)
LEMMA PermitGiven ==
  ASSUME GateInv, NEW w \in Workers, InBlock(w),
         Holders' = Holders \ {w}, permits' = permits + 1
  PROVE  GateInv'
<1>1. Cardinality(Holders') = Cardinality(Holders) - 1
  BY HoldersFinite, FS_RemoveElement DEF Holders
<1> QED BY <1>1, HoldersFinite, GatewayAssumption DEF GateInv, GateConserved

(* Nobody enters or leaves, and no permit moves.                           *)
LEMMA PermitKept ==
  ASSUME GateInv, Holders' = Holders, permits' = permits
  PROVE  GateInv'
  BY DEF GateInv, GateConserved

-----------------------------------------------------------------------------
(* The steps. *)

(* A fetch that returns yields one of its route's outcomes; none of them   *)
(* is the exception UnknownFundCategory.                                   *)
LEMMA FetchOutcomeFacts ==
  ASSUME NEW k \in Requests, NEW o \in FetchOutcomes(k.ns)
  PROVE  /\ o \in Outcomes /\ o # "unknown"
         /\ o = "empty" => NegativeAware(k.ns)
         /\ o = "none" => NegativeAware(k.ns) \/ k.ns = "corp_catalogue"
<1>1. k.ns \in RouteNames
  BY RequestFacts
<1> QED BY <1>1 DEF RouteNames, FetchOutcomes, Outcomes, NegativeAware, CatalogueRoutes

(* A request that arrives holds nothing.                                   *)
LEMMA ArriveStep ==
  ASSUME IInv, NEW w \in Workers, NEW k \in Requests, Arrive(w, k)
  PROVE  IInv'
<1> USE DEF IInv, Arrive
<1>1. StoreInv'
  BY DEF StoreInv, Redis!TypeOK, EntriesFitReaders, EntryLifetimes
<1>2. LocalInv'
  BY RequestFacts, NothingAssumption DEF LocalInv, Stages, Outcomes
<1>3. GateInv'
  <2>1. Holders' = Holders
    BY NothingAssumption DEF Holders, InBlock, LocalInv, Outcomes
  <2> QED BY <2>1, PermitKept
<1> QED BY <1>1, <1>2, <1>3

(* A request that is turned away changes only the reply.                   *)
LEMMA TurnAwayStep ==
  ASSUME IInv, NEW w \in Workers, TurnAway(w)
  PROVE  IInv'
<1> USE DEF IInv, TurnAway
<1>1. StoreInv'
  BY DEF StoreInv, Redis!TypeOK, EntriesFitReaders, EntryLifetimes
<1>2. LocalInv'
  BY RequestFacts, NothingAssumption DEF LocalInv, Stages, Outcomes, Answers
<1>3. GateInv'
  <2>1. Holders' = Holders
    BY NothingAssumption DEF Holders, InBlock, LocalInv, Outcomes
  <2> QED BY <2>1, PermitKept
<1> QED BY <1>1, <1>2, <1>3

(* The first-NAV lookup moves on, perhaps with a clamped key.              *)
LEMMA NavLookupStep ==
  ASSUME IInv, NEW w \in Workers, NavLookup(w)
  PROVE  IInv'
<1> USE DEF IInv, NavLookup
<1>1. StoreInv'
  BY DEF StoreInv, Redis!TypeOK, EntriesFitReaders, EntryLifetimes
<1>2. LocalInv'
  BY RequestFacts, NothingAssumption DEF LocalInv, Stages, Outcomes
<1>3. GateInv'
  <2>1. Holders' = Holders
    BY NothingAssumption DEF Holders, InBlock, LocalInv, Outcomes
  <2> QED BY <2>1, PermitKept
<1> QED BY <1>1, <1>2, <1>3

(* The first-NAV probe holds no permit.                                    *)
LEMMA ProbeFindsStep ==
  ASSUME IInv, NEW w \in Workers, ProbeFinds(w)
  PROVE  IInv'
<1> USE DEF IInv, ProbeFinds
<1>1. StoreInv'
  BY DEF StoreInv, Redis!TypeOK, EntriesFitReaders, EntryLifetimes
<1>2. LocalInv'
  BY RequestFacts, NothingAssumption DEF LocalInv, Stages, Outcomes
<1>3. GateInv'
  <2>1. Holders' = Holders
    BY NothingAssumption DEF Holders, InBlock, LocalInv, Outcomes
  <2> QED BY <2>1, PermitKept
<1> QED BY <1>1, <1>2, <1>3

(* A failed probe is forgotten.                                            *)
LEMMA ProbeFailsStep ==
  ASSUME IInv, NEW w \in Workers, ProbeFails(w)
  PROVE  IInv'
<1> USE DEF IInv, ProbeFails
<1>1. StoreInv'
  BY DEF StoreInv, Redis!TypeOK, EntriesFitReaders, EntryLifetimes
<1>2. LocalInv'
  BY RequestFacts, NothingAssumption DEF LocalInv, Stages, Outcomes
<1>3. GateInv'
  <2>1. Holders' = Holders
    BY NothingAssumption DEF Holders, InBlock, LocalInv, Outcomes
  <2> QED BY <2>1, PermitKept
<1> QED BY <1>1, <1>2, <1>3

(* The inception date goes under a NAV key, which no route reads as data.  *)
LEMMA NavStoreStep ==
  ASSUME IInv, NEW w \in Workers, NavStore(w)
  PROVE  IInv'
<1> USE DEF IInv, NavStore
<1>1. StoreInv'
  <2>1. NavKey(key[w].sym) \in Keys /\ NavKey(key[w].sym) \notin Requests
    BY NavKeyFacts DEF LocalInv
  <2>2. "nav" \in Readable(NavKey(key[w].sym)) /\ "nav" \in Values
    BY <2>1 DEF Readable, Values, NavKey, Key, NegativeAware, CatalogueRoutes
  <2>3. Redis!Set(NavKey(key[w].sym), "nav", Lifetime("nav"))
    BY DEF Lifetime
  <2> QED BY <2>1, <2>2, <2>3, SetKeepsStore
<1>2. LocalInv'
  BY RequestFacts, NothingAssumption DEF LocalInv, Stages, Outcomes
<1>3. GateInv'
  <2>1. Holders' = Holders
    BY NothingAssumption DEF Holders, InBlock, LocalInv, Outcomes
  <2> QED BY <2>1, PermitKept
<1> QED BY <1>1, <1>2, <1>3

(* A hit changes no entry.                                                 *)
LEMMA HitStep ==
  ASSUME IInv, NEW w \in Workers, Hit(w)
  PROVE  IInv'
<1> USE DEF IInv, Hit, Leave
<1>1. StoreInv'
  BY DEF StoreInv, Redis!TypeOK, EntriesFitReaders, EntryLifetimes
<1>2. LocalInv'
  BY RequestFacts, NothingAssumption DEF LocalInv, Stages, Outcomes, Served, Answers
<1>3. GateInv'
  <2>1. Holders' = Holders
    BY NothingAssumption DEF Holders, InBlock, LocalInv, Outcomes
  <2> QED BY <2>1, PermitKept
<1> QED BY <1>1, <1>2, <1>3

(* A miss queues at the gate without a permit.                             *)
LEMMA MissedLookupStep ==
  ASSUME IInv, NEW w \in Workers, MissedLookup(w)
  PROVE  IInv'
<1> USE DEF IInv, MissedLookup
<1>1. StoreInv'
  BY DEF StoreInv, Redis!TypeOK, EntriesFitReaders, EntryLifetimes
<1>2. LocalInv'
  BY RequestFacts, NothingAssumption DEF LocalInv, Stages, Outcomes
<1>3. GateInv'
  <2>1. Holders' = Holders
    BY NothingAssumption DEF Holders, InBlock, LocalInv, Outcomes, Gated
  <2> QED BY <2>1, PermitKept
<1> QED BY <1>1, <1>2, <1>3

(* The permit is taken by a worker that held none.                         *)
LEMMA AcquireStep ==
  ASSUME IInv, NEW w \in Workers, Acquire(w)
  PROVE  IInv'
<1> USE DEF IInv, Acquire
<1>1. StoreInv'
  BY DEF StoreInv, Redis!TypeOK, EntriesFitReaders, EntryLifetimes
<1>2. LocalInv'
  BY RequestFacts, NothingAssumption DEF LocalInv, Stages, Outcomes
<1>3. GateInv'
  <2>1. ~InBlock(w) /\ Holders' = Holders \cup {w}
    BY NothingAssumption DEF Holders, InBlock, LocalInv, Outcomes
  <2> QED BY <2>1, PermitTaken
<1> QED BY <1>1, <1>2, <1>3

(* The fetch returns: the permit, if the route is gated, is given back.    *)
LEMMA FetchReturnsStep ==
  ASSUME IInv, NEW w \in Workers, FetchReturns(w)
  PROVE  IInv'
<1>1. PICK o \in FetchOutcomes(key[w].ns) : FetchEnds(w, o)
  BY DEF FetchReturns
<1>2. /\ stage[w] = "fetch" /\ Release(w) /\ key[w] \in Requests /\ result[w] = Nothing
      /\ permits \in Nat
  BY DEF FetchReturns, IInv, LocalInv, GateInv
<1>3. /\ o \in Outcomes /\ o # "unknown"
      /\ o = "empty" => NegativeAware(key[w].ns)
      /\ o = "none" => NegativeAware(key[w].ns) \/ key[w].ns = "corp_catalogue"
  BY <1>2, FetchOutcomeFacts
<1> USE DEF IInv, FetchEnds, Release
<1>4. StoreInv'
  BY <1>1 DEF StoreInv, Redis!TypeOK, EntriesFitReaders, EntryLifetimes
<1>5. LocalInv'
  BY <1>1, <1>2, <1>3, NothingAssumption DEF LocalInv, Stages
<1>6. GateInv'
  <2>1. CASE Gated(key[w].ns)
    <3>1. InBlock(w) /\ Holders' = Holders \ {w}
      BY <1>1, <1>2, <1>3, <2>1, NothingAssumption DEF Holders, InBlock, LocalInv
    <3> QED BY <1>2, <2>1, <3>1, PermitGiven
  <2>2. CASE ~Gated(key[w].ns)
    <3>1. Holders' = Holders
      BY <1>1, <1>2, <1>3, <2>2, NothingAssumption DEF Holders, InBlock, LocalInv
    <3> QED BY <1>2, <2>2, <3>1, PermitKept
  <2> QED BY <2>1, <2>2
<1> QED BY <1>4, <1>5, <1>6

(* An exception gives the permit back too.                                 *)
LEMMA FetchRaisesStep ==
  ASSUME IInv, NEW w \in Workers, FetchRaises(w)
  PROVE  IInv'
<1> USE DEF IInv, FetchRaises, FetchEnds, Release
<1>1. StoreInv'
  BY DEF StoreInv, Redis!TypeOK, EntriesFitReaders, EntryLifetimes
<1>2. LocalInv'
  BY RequestFacts, NothingAssumption DEF LocalInv, Stages, Outcomes
<1>3. GateInv'
  <2>1. CASE Gated(key[w].ns)
    <3>1. InBlock(w) /\ Holders' = Holders \ {w}
      BY <2>1, NothingAssumption DEF Holders, InBlock, LocalInv
    <3> QED BY <2>1, <3>1, PermitGiven
  <2>2. CASE ~Gated(key[w].ns)
    <3>1. Holders' = Holders
      BY <2>2, NothingAssumption DEF Holders, InBlock, LocalInv
    <3> QED BY <2>2, <3>1, PermitKept
  <2> QED BY <2>1, <2>2
<1> QED BY <1>1, <1>2, <1>3

(* So does an unavailable snapshot.                                        *)
LEMMA SnapshotUnavailableStep ==
  ASSUME IInv, NEW w \in Workers, SnapshotUnavailable(w)
  PROVE  IInv'
<1> USE DEF IInv, SnapshotUnavailable, FetchEnds, Release
<1>1. StoreInv'
  BY DEF StoreInv, Redis!TypeOK, EntriesFitReaders, EntryLifetimes
<1>2. LocalInv'
  BY RequestFacts, NothingAssumption DEF LocalInv, Stages, Outcomes
<1>3. GateInv'
  <2>1. CASE Gated(key[w].ns)
    <3>1. InBlock(w) /\ Holders' = Holders \ {w}
      BY <2>1, NothingAssumption DEF Holders, InBlock, LocalInv
    <3> QED BY <2>1, <3>1, PermitGiven
  <2>2. CASE ~Gated(key[w].ns)
    <3>1. Holders' = Holders
      BY <2>2, NothingAssumption DEF Holders, InBlock, LocalInv
    <3> QED BY <2>2, <3>1, PermitKept
  <2> QED BY <2>1, <2>2
<1> QED BY <1>1, <1>2, <1>3

(* An unknown fund category is handled with the permit still held.         *)
LEMMA UnknownCategoryStep ==
  ASSUME IInv, NEW w \in Workers, UnknownCategory(w)
  PROVE  IInv'
<1> USE DEF IInv, UnknownCategory, FetchEnds
<1>1. StoreInv'
  BY DEF StoreInv, Redis!TypeOK, EntriesFitReaders, EntryLifetimes
<1>2. LocalInv'
  BY RequestFacts, NothingAssumption DEF LocalInv, Stages, Outcomes
<1>3. GateInv'
  <2>1. Holders' = Holders
    BY NothingAssumption DEF Holders, InBlock, LocalInv, Outcomes, Gated
  <2> QED BY <2>1, PermitKept
<1> QED BY <1>1, <1>2, <1>3

(* A value is stored under a key whose reader understands it.              *)
LEMMA StoreValueStep ==
  ASSUME IInv, NEW w \in Workers, StoreValue(w)
  PROVE  IInv'
<1> USE DEF IInv, StoreValue, Leave
<1>1. StoreInv'
  <2>1. key[w] \in Requests
    BY NothingAssumption DEF LocalInv
  <2>2. key[w] \in Keys /\ result[w] \in Readable(key[w]) /\ result[w] \in Values
    BY <2>1, RequestFacts DEF LocalInv, Readable, Values, NegativeAware, CatalogueRoutes
  <2>3. Redis!Set(key[w], result[w], Lifetime(result[w]))
    BY DEF Lifetime
  <2> QED BY <2>2, <2>3, SetKeepsStore
<1>2. LocalInv'
  BY RequestFacts, NothingAssumption DEF LocalInv, Stages, Outcomes, Answers
<1>3. GateInv'
  <2>1. Holders' = Holders
    BY NothingAssumption DEF Holders, InBlock, LocalInv, Outcomes
  <2> QED BY <2>1, PermitKept
<1> QED BY <1>1, <1>2, <1>3

(* The sentinel is stored under a key whose reader compares with it.       *)
LEMMA StoreNegativeStep ==
  ASSUME IInv, NEW w \in Workers, StoreNegative(w)
  PROVE  IInv'
<1> USE DEF IInv, StoreNegative, Leave
<1>1. StoreInv'
  <2>1. key[w] \in Requests
    BY NothingAssumption DEF LocalInv
  <2>2. key[w] \in Keys /\ "negative" \in Readable(key[w]) /\ "negative" \in Values
    BY <2>1, RequestFacts DEF LocalInv, Readable, Values, NegativeAware, CatalogueRoutes
  <2>3. Redis!Set(key[w], "negative", Lifetime("negative"))
    BY DEF Lifetime
  <2> QED BY <2>2, <2>3, SetKeepsStore
<1>2. LocalInv'
  BY RequestFacts, NothingAssumption DEF LocalInv, Stages, Outcomes, Answers
<1>3. GateInv'
  <2>1. Holders' = Holders
    BY NothingAssumption DEF Holders, InBlock, LocalInv, Outcomes
  <2> QED BY <2>1, PermitKept
<1> QED BY <1>1, <1>2, <1>3

(* The sentinel is stored, and the permit given back at last.              *)
LEMMA StoreUnknownStep ==
  ASSUME IInv, NEW w \in Workers, StoreUnknown(w)
  PROVE  IInv'
<1> USE DEF IInv, StoreUnknown, Leave
<1>1. StoreInv'
  <2>1. key[w] \in Requests
    BY NothingAssumption DEF LocalInv
  <2>2. key[w] \in Keys /\ "negative" \in Readable(key[w]) /\ "negative" \in Values
    BY <2>1, RequestFacts DEF LocalInv, Readable, Values, NegativeAware, CatalogueRoutes
  <2>3. Redis!Set(key[w], "negative", Lifetime("negative"))
    BY DEF Lifetime
  <2> QED BY <2>2, <2>3, SetKeepsStore
<1>2. LocalInv'
  BY RequestFacts, NothingAssumption DEF LocalInv, Stages, Outcomes, Answers
<1>3. GateInv'
  <2>1. InBlock(w) /\ Holders' = Holders \ {w}
    BY NothingAssumption DEF Holders, InBlock, LocalInv, Outcomes
  <2> QED BY <2>1, PermitGiven
<1> QED BY <1>1, <1>2, <1>3

(* An empty catalogue leaves nothing behind.                               *)
LEMMA NoCatalogueRowsStep ==
  ASSUME IInv, NEW w \in Workers, NoCatalogueRows(w)
  PROVE  IInv'
<1> USE DEF IInv, NoCatalogueRows, Leave
<1>1. StoreInv'
  BY DEF StoreInv, Redis!TypeOK, EntriesFitReaders, EntryLifetimes
<1>2. LocalInv'
  BY RequestFacts, NothingAssumption DEF LocalInv, Stages, Outcomes, Answers
<1>3. GateInv'
  <2>1. Holders' = Holders
    BY NothingAssumption DEF Holders, InBlock, LocalInv, Outcomes
  <2> QED BY <2>1, PermitKept
<1> QED BY <1>1, <1>2, <1>3

(* A failure leaves nothing behind.                                        *)
LEMMA ReplyFailureStep ==
  ASSUME IInv, NEW w \in Workers, ReplyFailure(w)
  PROVE  IInv'
<1> USE DEF IInv, ReplyFailure, Leave
<1>1. StoreInv'
  BY DEF StoreInv, Redis!TypeOK, EntriesFitReaders, EntryLifetimes
<1>2. LocalInv'
  BY RequestFacts, NothingAssumption DEF LocalInv, Stages, Outcomes, Answers
<1>3. GateInv'
  <2>1. Holders' = Holders
    BY NothingAssumption DEF Holders, InBlock, LocalInv, Outcomes
  <2> QED BY <2>1, PermitKept
<1> QED BY <1>1, <1>2, <1>3

(* A readiness probe touches no request.                                   *)
LEMMA ReadyStep ==
  ASSUME IInv, NEW w \in Workers, Ready(w)
  PROVE  IInv'
<1> USE DEF IInv, Ready
<1>1. StoreInv'
  BY DEF StoreInv, Redis!TypeOK, EntriesFitReaders, EntryLifetimes
<1>2. LocalInv'
  BY RequestFacts, NothingAssumption DEF LocalInv, Stages, Outcomes
<1>3. GateInv'
  <2>1. Holders' = Holders
    BY NothingAssumption DEF Holders, InBlock, LocalInv, Outcomes
  <2> QED BY <2>1, PermitKept
<1> QED BY <1>1, <1>2, <1>3

(* The thread pool starts with no request and every permit.                *)
LEMMA InitIInv == Init => IInv
<1> SUFFICES ASSUME Init PROVE IInv
  OBVIOUS
<1> USE GatewayAssumption, NothingAssumption DEF Init
<1>1. StoreInv
  BY DEF StoreInv, Redis!Init, Redis!TypeOK, Redis!Entries, Redis!Absent,
         EntriesFitReaders, EntryLifetimes, Lifetime
<1>2. LocalInv
  BY DEF LocalInv, Stages, Outcomes
<1>3. GateInv
  <2>1. Holders = {}
    BY DEF Holders, InBlock, Outcomes
  <2> QED BY <2>1, FS_EmptySet DEF GateInv, GateConserved
<1> QED BY <1>1, <1>2, <1>3 DEF IInv

(* Every step of every worker, and of Redis, preserves the invariant.      *)
LEMMA NextIInv == IInv /\ [Next]_vars => IInv'
<1> SUFFICES ASSUME IInv, [Next]_vars PROVE IInv'
  OBVIOUS
<1>1. CASE UNCHANGED vars
  BY <1>1 DEF vars, IInv, StoreInv, Redis!TypeOK, EntriesFitReaders, EntryLifetimes,
              LocalInv, GateInv, GateConserved, Holders, InBlock
<1>2. CASE RedisStep
  <2>1. StoreInv'
    BY <1>2, RedisKeepsStore DEF RedisStep, IInv
  <2>2. LocalInv' /\ GateInv'
    BY <1>2 DEF RedisStep, IInv, LocalInv, GateInv, GateConserved, Holders, InBlock
  <2> QED BY <2>1, <2>2 DEF IInv
<1>3. ASSUME NEW w \in Workers, NEW k \in Requests, Arrive(w, k)
      PROVE  IInv'
  BY <1>3, ArriveStep
<1>4. ASSUME NEW w \in Workers, TurnAway(w) \/ Ready(w)
      PROVE  IInv'
  BY <1>4, TurnAwayStep, ReadyStep
<1>5. ASSUME NEW w \in Workers, Step(w)
      PROVE  IInv'
  <2>1. CASE NavLookup(w) \/ ProbeFinds(w) \/ ProbeFails(w) \/ NavStore(w)
    BY <2>1, NavLookupStep, ProbeFindsStep, ProbeFailsStep, NavStoreStep
  <2>2. CASE Hit(w) \/ MissedLookup(w) \/ Acquire(w)
    BY <2>2, HitStep, MissedLookupStep, AcquireStep
  <2>3. CASE FetchReturns(w) \/ FetchRaises(w) \/ SnapshotUnavailable(w)
               \/ UnknownCategory(w)
    BY <2>3, FetchReturnsStep, FetchRaisesStep, SnapshotUnavailableStep,
       UnknownCategoryStep
  <2>4. CASE StoreValue(w) \/ StoreNegative(w) \/ StoreUnknown(w)
               \/ NoCatalogueRows(w) \/ ReplyFailure(w)
    BY <2>4, StoreValueStep, StoreNegativeStep, StoreUnknownStep, NoCatalogueRowsStep,
       ReplyFailureStep
  <2> QED BY <1>5, <2>1, <2>2, <2>3, <2>4 DEF Step
<1> QED BY <1>1, <1>2, <1>3, <1>4, <1>5 DEF Next

(* The inductive invariant holds in every behaviour of the gateway.        *)
LEMMA Invariance == Spec => []IInv
  BY InitIInv, NextIInv, PTL DEF Spec

(* Redis and the handlers' locals stay in their ranges; the semaphore's    *)
(* value stays between zero and UPSTREAM_MAX_INFLIGHT.                     *)
THEOREM TypeCorrect == Spec => []TypeOK
<1>1. IInv => TypeOK
  BY HoldersFinite, GatewayAssumption
  DEF IInv, StoreInv, LocalInv, GateInv, GateConserved, TypeOK
<1> QED BY <1>1, Invariance, PTL

(* No handler, however it ends, keeps a permit or gives back two: the      *)
(* semaphore and the workers inside the block always add up to the bound.  *)
THEOREM GateNeverDrifts == Spec => []GateConserved
<1>1. IInv => GateConserved
  BY DEF IInv, GateInv
<1> QED BY <1>1, Invariance, PTL

(* Hence never more than UPSTREAM_MAX_INFLIGHT gated walks at once.        *)
THEOREM WalksAreBounded == Spec => [](Cardinality(Holders) <= MaxInflight)
<1>1. IInv => Cardinality(Holders) <= MaxInflight
  BY HoldersFinite, GatewayAssumption DEF IInv, GateInv, GateConserved
<1> QED BY <1>1, Invariance, PTL

(* A reader never finds an entry it would misread.                         *)
THEOREM ReadersUnderstand == Spec => []EntriesFitReaders
<1>1. IInv => EntriesFitReaders
  BY DEF IInv, StoreInv
<1> QED BY <1>1, Invariance, PTL

(* A remembered 404 never outlives NEGATIVE_TTL.                           *)
THEOREM LifetimesHold == Spec => []EntryLifetimes
<1>1. IInv => EntryLifetimes
  BY DEF IInv, StoreInv
<1> QED BY <1>1, Invariance, PTL

-----------------------------------------------------------------------------
(* The gateway implements RoutePromise: every step is a step of the        *)
(* promise or changes nothing the promise speaks of.                       *)

Memo == [k \in Requests |-> store[k].val]

(* A write to a request's key is seen by the promise at that key only, and *)
(* perhaps not at all; a write to a NAV key is not seen.                   *)
LEMMA MemoAfterSet ==
  ASSUME StoreInv, NEW k \in Keys, NEW v, NEW ttl, Redis!Set(k, v, ttl)
  PROVE  /\ k \in Requests => Memo' = Memo \/ Memo' = [Memo EXCEPT ![k] = v]
         /\ k \notin Requests => Memo' = Memo
<1> USE DEF StoreInv, Redis!TypeOK, Redis!Set, Memo
<1>1. CASE store' = store
  BY <1>1
<1>2. CASE store' = [store EXCEPT ![k] = [val |-> v, left |-> ttl]]
  <2>1. \A j \in Requests : store'[j].val = IF j = k THEN v ELSE store[j].val
    BY <1>2, RequestFacts
  <2> QED BY <2>1
<1> QED BY <1>1, <1>2

(* Expiry and a restart of Redis only forget.                              *)
LEMMA RedisForgets ==
  ASSUME StoreInv, RedisStep
  PROVE  Promise!Forget \/ UNCHANGED Promise!promiseVars
<1>1. UNCHANGED <<key, result, answer>>
  BY DEF RedisStep
<1>2. CASE store' = store
  BY <1>1, <1>2 DEF Promise!promiseVars
<1>3. ASSUME \A k \in Keys : store'[k].val = store[k].val \/ store'[k].val = Nothing
      PROVE  Promise!Forget
  <2> DEFINE gone == {k \in Requests : store'[k].val = Nothing}
  <2>1. Memo' = [k \in Requests |-> IF k \in gone THEN Nothing ELSE Memo[k]]
    BY <1>3, RequestFacts DEF Memo
  <2> QED BY <1>1, <2>1 DEF Promise!Forget, Memo
<1>4. CASE Redis!Recover \/ Redis!Tick
  BY <1>2, <1>3, <1>4
  DEF StoreInv, Redis!TypeOK, Redis!Recover, Redis!Tick, Redis!Aged, Redis!Entries,
      Redis!Absent
<1> QED BY <1>2, <1>4 DEF RedisStep, Redis!Fail

(* A request is asked for.                                                 *)
LEMMA ArriveAsks ==
  ASSUME IInv, NEW w \in Workers, NEW k \in Requests, Arrive(w, k)
  PROVE  Promise!Ask(w, k)
  BY DEF IInv, LocalInv, Arrive, Promise!Ask

(* A clamped key is a narrower one for the same symbol.                    *)
LEMMA ClampNarrows ==
  ASSUME IInv, NEW w \in Workers, NavLookup(w) \/ NavStore(w)
  PROVE  \/ \E k \in Requests : Promise!Narrow(w, k)
         \/ UNCHANGED Promise!promiseVars
<1>1. /\ key[w] \in Requests /\ key[w].ns = "ohlcv" /\ key[w].sym \in Funds
      /\ result[w] = Nothing /\ key[w] # Nothing
  BY NothingAssumption DEF IInv, LocalInv, NavLookup, NavStore
<1>2. Memo' = Memo
  BY <1>1, MemoAfterSet, NavKeyFacts DEF IInv, NavLookup, NavStore, Memo
<1>3. UNCHANGED <<result, answer>>
  BY DEF NavLookup, NavStore
<1>4. CASE key' = [key EXCEPT ![w] = Clamp(key[w])]
  BY <1>1, <1>2, <1>3, <1>4, RequestFacts DEF Promise!Narrow, Memo
<1>5. CASE key' = key
  BY <1>2, <1>3, <1>5 DEF Promise!promiseVars, Memo
<1> QED BY <1>4, <1>5 DEF NavLookup, NavStore

(* A hit is served as what is remembered.                                  *)
LEMMA HitRecalls ==
  ASSUME IInv, NEW w \in Workers, Hit(w)
  PROVE  Promise!Recall(w)
<1>1. /\ stage[w] = "lookup" /\ Redis!Get(key[w]) # Nothing
      /\ Leave(w, Served(key[w].ns, Redis!Get(key[w])))
      /\ UNCHANGED store
  BY DEF Hit
<1>2. key[w] \in Requests /\ key[w] # Nothing /\ result[w] = Nothing
  BY <1>1, NothingAssumption DEF IInv, LocalInv
<1>3. Redis!Get(key[w]) = Memo[key[w]]
  BY <1>1, <1>2 DEF Redis!Get, Memo
<1>4. Memo[key[w]] \in Readable(key[w]) /\ Memo[key[w]] # Nothing
  BY <1>1, <1>2, <1>3, RequestFacts DEF IInv, StoreInv, EntriesFitReaders, Memo
<1>5. Served(key[w].ns, Memo[key[w]]) = Promise!Reply[Memo[key[w]]]
  BY <1>2, <1>4 DEF Readable, Served, Promise!Reply
<1>6. result' = result
  BY <1>1, <1>2 DEF Leave, IInv, LocalInv
<1> QED BY <1>1, <1>2, <1>3, <1>4, <1>5, <1>6 DEF Leave, Promise!Recall, Memo

(* A fetch that ends is the walk of the request.                           *)
LEMMA FetchWalks ==
  ASSUME IInv, NEW w \in Workers, NEW o \in Outcomes, stage[w] = "fetch",
         FetchEnds(w, o)
  PROVE  Promise!Walk(w)
  BY NothingAssumption DEF IInv, LocalInv, FetchEnds, Promise!Walk, Promise!Outcomes, Outcomes

(* The reply is the outcome, and what is remembered of it is allowed.      *)
LEMMA SettleFinishes ==
  ASSUME IInv, NEW w \in Workers,
         \/ StoreValue(w) \/ StoreNegative(w) \/ StoreUnknown(w)
         \/ NoCatalogueRows(w) \/ ReplyFailure(w)
  PROVE  Promise!Finish(w)
<1>1. /\ key[w] \in Requests /\ key[w] # Nothing /\ result[w] # Nothing
      /\ result[w] \in Outcomes
  BY NothingAssumption
  DEF IInv, LocalInv, Outcomes, StoreValue, StoreNegative, StoreUnknown, NoCatalogueRows, ReplyFailure
<1>2. Leave(w, Promise!Reply[result[w]])
  BY DEF StoreValue, StoreNegative, StoreUnknown, NoCatalogueRows, ReplyFailure, Promise!Reply
<1>3. \/ Memo' = Memo
      \/ \E v \in Promise!Remembered(key[w].ns, result[w]) :
           Memo' = [Memo EXCEPT ![key[w]] = v]
  <2>1. CASE NoCatalogueRows(w) \/ ReplyFailure(w)
    BY <2>1 DEF NoCatalogueRows, ReplyFailure, Memo
  <2>2. CASE StoreValue(w)
    BY <1>1, <2>2, MemoAfterSet, RequestFacts
    DEF IInv, StoreValue, Promise!Remembered
  <2>3. CASE StoreNegative(w)
    <3>1. "negative" \in Promise!Remembered(key[w].ns, result[w])
      BY <2>3 DEF IInv, LocalInv, StoreNegative, Promise!Remembered, Promise!RawRoutes, NegativeAware, CatalogueRoutes
    <3> QED BY <1>1, <2>3, <3>1, MemoAfterSet, RequestFacts DEF IInv, StoreNegative
  <2>4. CASE StoreUnknown(w)
    <3>1. "negative" \in Promise!Remembered(key[w].ns, result[w])
      BY <2>4 DEF IInv, LocalInv, StoreUnknown, Promise!Remembered, Promise!RawRoutes
    <3> QED BY <1>1, <2>4, <3>1, MemoAfterSet, RequestFacts DEF IInv, StoreUnknown
  <2> QED BY <2>1, <2>2, <2>3, <2>4
<1> QED BY <1>1, <1>2, <1>3 DEF Leave, Promise!Finish, Memo

(* Every step of the gateway is a step of the promise.                     *)
LEMMA NextKeepsPromise == IInv /\ [Next]_vars => [Promise!Next]_(Promise!promiseVars)
<1> SUFFICES ASSUME IInv, [Next]_vars
             PROVE  Promise!Next \/ UNCHANGED Promise!promiseVars
  OBVIOUS
<1>1. CASE UNCHANGED vars
  BY <1>1 DEF vars, Promise!promiseVars
<1>2. CASE RedisStep
  BY <1>2, RedisForgets DEF IInv, Promise!Next
<1>3. ASSUME NEW w \in Workers, NEW k \in Requests, Arrive(w, k)
      PROVE  Promise!Next
  BY <1>3, ArriveAsks DEF Promise!Next
<1>4. ASSUME NEW w \in Workers, TurnAway(w)
      PROVE  Promise!Next
  <2>1. Promise!TurnAway(w)
    BY <1>4 DEF TurnAway, IInv, LocalInv, Promise!TurnAway
  <2> QED BY <2>1 DEF Promise!Next
<1>5. ASSUME NEW w \in Workers,
             \/ Ready(w) \/ ProbeFinds(w) \/ ProbeFails(w) \/ MissedLookup(w)
             \/ Acquire(w)
      PROVE  UNCHANGED Promise!promiseVars
  BY <1>5 DEF Ready, ProbeFinds, ProbeFails, MissedLookup, Acquire, Promise!promiseVars
<1>6. ASSUME NEW w \in Workers, Step(w)
      PROVE  Promise!Next \/ UNCHANGED Promise!promiseVars
  <2>1. CASE ProbeFinds(w) \/ ProbeFails(w) \/ MissedLookup(w) \/ Acquire(w)
    BY <2>1, <1>5
  <2>2. CASE NavLookup(w) \/ NavStore(w)
    BY <2>2, ClampNarrows DEF Promise!Next
  <2>3. CASE Hit(w)
    BY <2>3, HitRecalls DEF Promise!Next
  <2>4. CASE FetchReturns(w)
    <3>1. PICK o \in FetchOutcomes(key[w].ns) : FetchEnds(w, o)
      BY <2>4 DEF FetchReturns
    <3>2. stage[w] = "fetch" /\ key[w] \in Requests
      BY <2>4 DEF FetchReturns, IInv, LocalInv
    <3>3. o \in Outcomes
      BY <3>2, FetchOutcomeFacts
    <3> QED BY <3>1, <3>2, <3>3, FetchWalks DEF Promise!Next
  <2>5. CASE FetchRaises(w) \/ SnapshotUnavailable(w) \/ UnknownCategory(w)
    <3>1. PICK o \in Outcomes : stage[w] = "fetch" /\ FetchEnds(w, o)
      BY <2>5 DEF FetchRaises, SnapshotUnavailable, UnknownCategory, Outcomes
    <3> QED BY <3>1, FetchWalks DEF Promise!Next
  <2>6. CASE StoreValue(w) \/ StoreNegative(w) \/ StoreUnknown(w)
               \/ NoCatalogueRows(w) \/ ReplyFailure(w)
    BY <2>6, SettleFinishes DEF Promise!Next
  <2> QED BY <1>6, <2>1, <2>2, <2>3, <2>4, <2>5, <2>6 DEF Step
<1> QED BY <1>1, <1>2, <1>3, <1>4, <1>5, <1>6 DEF Next

(* For any number of workers, routes, symbols and permits: a reply is the  *)
(* outcome of the request's own walk or one a walk for its key remembered. *)
THEOREM PromiseIsKept == Spec => KeepsPromise
<1>1. Init => Promise!Init
  BY RequestFacts DEF Init, Redis!Init, Redis!Absent, Promise!Init
<1> QED BY <1>1, Invariance, NextKeepsPromise, PTL DEF Spec, KeepsPromise, Promise!Spec

-----------------------------------------------------------------------------
(* Requests come to an end. *)

(* The steps a request has before it at most. *)
StepsLeft(w) ==
  CASE stage[w] = "nav_lookup" -> 7
    [] stage[w] = "nav_probe"  -> 6
    [] stage[w] = "nav_store"  -> 5
    [] stage[w] = "lookup"     -> 4
    [] stage[w] = "gate"       -> 3
    [] stage[w] = "fetch"      -> 2
    [] stage[w] = "settle"     -> 1
    [] OTHER                   -> 0

(* Every step of a request brings it nearer to its reply, and no step of   *)
(* another one, of Redis or of a probe takes it further away.              *)
Nears(w) ==
  /\ Step(w) => StepsLeft(w)' < StepsLeft(w)
  /\ stage[w] # "idle" /\ ~Step(w) => StepsLeft(w)' = StepsLeft(w)

RequestsEnd == [][\A w \in Workers : Nears(w)]_vars

(* A request's own step. *)
LEMMA StepNears ==
  ASSUME LocalInv, NEW w \in Workers, Step(w)
  PROVE  /\ StepsLeft(w)' < StepsLeft(w)
         /\ \A v \in Workers \ {w} : stage'[v] = stage[v]
<1> USE DEF LocalInv, StepsLeft
<1>1. CASE NavLookup(w) \/ ProbeFinds(w) \/ ProbeFails(w) \/ NavStore(w)
  BY <1>1 DEF NavLookup, ProbeFinds, ProbeFails, NavStore
<1>2. CASE Hit(w) \/ MissedLookup(w) \/ Acquire(w)
  BY <1>2 DEF Hit, Leave, MissedLookup, Acquire
<1>3. CASE \/ FetchReturns(w) \/ FetchRaises(w) \/ SnapshotUnavailable(w)
           \/ UnknownCategory(w)
  BY <1>3 DEF FetchReturns, FetchRaises, SnapshotUnavailable, UnknownCategory, FetchEnds
<1>4. CASE \/ StoreValue(w) \/ StoreNegative(w) \/ StoreUnknown(w)
           \/ NoCatalogueRows(w) \/ ReplyFailure(w)
  BY <1>4 DEF StoreValue, StoreNegative, StoreUnknown, NoCatalogueRows, ReplyFailure, Leave
<1> QED BY <1>1, <1>2, <1>3, <1>4 DEF Step

(* Any step, seen from one worker. *)
LEMMA AnyStepNears ==
  ASSUME LocalInv, [Next]_vars, NEW w \in Workers
  PROVE  Nears(w)
<1>1. ASSUME ~Step(w), stage[w] # "idle" => stage'[w] = stage[w]
      PROVE  Nears(w)
  BY <1>1 DEF Nears, StepsLeft
<1>2. CASE Step(w)
  <2>1. stage[w] # "idle"
    BY <1>2 DEF Step, NavLookup, ProbeFinds, ProbeFails, NavStore, Hit, MissedLookup,
         Acquire, FetchReturns, FetchRaises, SnapshotUnavailable, UnknownCategory,
         StoreValue, StoreNegative, StoreUnknown, NoCatalogueRows, ReplyFailure
  <2> QED BY <1>2, <2>1, StepNears DEF Nears
<1>3. ASSUME ~Step(w), NEW v \in Workers, Step(v)
      PROVE  Nears(w)
  BY <1>1, <1>3, StepNears
<1>4. ASSUME ~Step(w), NEW v \in Workers, NEW k \in Requests, Arrive(v, k)
      PROVE  Nears(w)
  BY <1>1, <1>4 DEF Arrive, LocalInv
<1>5. ASSUME ~Step(w), \/ \E v \in Workers : TurnAway(v) \/ Ready(v)
                      \/ RedisStep \/ UNCHANGED vars
      PROVE  Nears(w)
  BY <1>1, <1>5 DEF TurnAway, Ready, RedisStep, vars
<1> QED BY <1>2, <1>3, <1>4, <1>5 DEF Next

(* For any number of workers and permits: a request takes seven steps at   *)
(* most, one of which may have to wait for a permit (main.py:261-282).     *)
THEOREM RequestsAreBounded == Spec => RequestsEnd
<1>1. IInv /\ [Next]_vars => [\A w \in Workers : Nears(w)]_vars
  BY AnyStepNears DEF IInv
<1> QED BY <1>1, Invariance, PTL DEF Spec, RequestsEnd

(* A closed gate is held by a request that is past it. *)
GateIsHeld ==
  permits = 0 => \E h \in Workers : InBlock(h) /\ stage[h] \in {"fetch", "settle"}

(* Who waits at the gate waits for a request that does not wait itself, so *)
(* requests never all wait for each other (main.py:80-85).                 *)
THEOREM NoRequestWaitsForNobody == Spec => []GateIsHeld
<1>1. IInv => GateIsHeld
  <2> SUFFICES ASSUME IInv, permits = 0
               PROVE  \E h \in Workers : InBlock(h) /\ stage[h] \in {"fetch", "settle"}
    BY DEF GateIsHeld
  <2>1. Cardinality(Holders) = MaxInflight
    BY HoldersFinite, GatewayAssumption DEF IInv, GateInv, GateConserved
  <2>2. Holders # {}
    BY <2>1, FS_EmptySet, GatewayAssumption
  <2> QED BY <2>2 DEF Holders, InBlock
<1> QED BY <1>1, Invariance, PTL

=============================================================================
