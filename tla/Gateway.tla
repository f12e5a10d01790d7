------------------------------ MODULE Gateway -------------------------------
(***************************************************************************)
(* The request path of openst (src/src/main.py): worker threads of one     *)
(* process answer data routes out of Redis or by a provider walk, under a  *)
(* semaphore that bounds the walks in flight.                              *)
(*                                                                         *)
(* A route is named after its handler's shape:                             *)
(*   symbol          _cached_or_404 over a fetch that passes [] through    *)
(*   listing         _cached_or_404 over "records or None"                 *)
(*   ohlcv           price_ohlcv: a first-NAV probe, then _cached_or_404   *)
(*   fund_history    fund_category_history                                 *)
(*   corp_catalogue  corp_bond_catalogue                                   *)
(*   fund_catalogue  fund_catalogue                                        *)
(*   fund_search     fund_search                                           *)
(* What a provider walk does inside is ProviderWalk's subject; here it     *)
(* takes any time and ends in any outcome the route's fetch can have.      *)
(***************************************************************************)
EXTENDS Naturals, FiniteSets

CONSTANTS Workers,      \* threads of the server's thread pool
          MaxInflight,  \* UPSTREAM_MAX_INFLIGHT
          Routes,       \* the routes in use
          Symbols,      \* normalised tickers, codes and queries
          Funds,        \* the symbols _is_fund_symbol accepts
          NegativeTTL, DataTTL, NavTTL,
          Nothing       \* None, an unset key part, a cache miss

RouteNames == {"symbol", "listing", "ohlcv", "fund_history",
               "corp_catalogue", "fund_catalogue", "fund_search"}

ASSUME GatewayAssumption ==
  /\ IsFiniteSet(Workers)
  /\ MaxInflight \in Nat \ {0}
  /\ Routes \subseteq RouteNames
  /\ Funds \subseteq Symbols
  /\ NegativeTTL \in Nat \ {0}
  /\ DataTTL \in Nat \ {0}
  /\ NavTTL \in Nat \ {0}
  /\ NegativeTTL < DataTTL /\ DataTTL < NavTTL

VARIABLES redisUp, store,  \* Redis, see RedisCache
          permits,         \* the value of _upstream_gate
          stage,           \* where in its handler a worker is
          key,             \* the cache key the handler computed
          result,          \* what the handler's fetch returned
          answer,          \* the last reply a worker gave
          inRotation       \* the load balancer sends traffic to the pod

vars == <<redisUp, store, permits, stage, key, result, answer, inRotation>>

-----------------------------------------------------------------------------
(* Cache keys. *)

CatalogueRoutes == {"corp_catalogue", "fund_catalogue"}

Key(ns, sym, start) == [ns |-> ns, sym |-> sym, start |-> start]

(* "early" is a start before the fund's first NAV, which the clamp turns   *)
(* into "inception".  The catalogues have one key each.                    *)
Requests ==
  {Key(ns, s, Nothing) : ns \in Routes \ (CatalogueRoutes \cup {"ohlcv"}),
                         s \in Symbols}
    \cup {Key(ns, s, d) : ns \in Routes \cap {"ohlcv"}, s \in Symbols,
                          d \in {"early", "inception"}}
    \cup {Key(ns, Nothing, Nothing) : ns \in Routes \cap CatalogueRoutes}

NavKey(sym) == Key("fund_first_nav", sym, Nothing)

Keys == Requests \cup {NavKey(s) : s \in Funds}

Clamp(k) == IF k.start = "early" THEN [k EXCEPT !.start = "inception"] ELSE k

Values == {"data", "empty", "negative", "nav"}

Redis == INSTANCE RedisCache WITH Miss <- Nothing, MaxTTL <- NavTTL

-----------------------------------------------------------------------------
(* The shape of each handler. *)

(* Routes whose reader compares the entry with _NEGATIVE_SENTINEL. *)
NegativeAware(ns) == ns \notin CatalogueRoutes

(* Routes whose fetch runs under "with _upstream_gate". *)
Gated(ns) == ns # "fund_search"

(* What the handler's fetch can evaluate to: "records or None", "if not    *)
(* rows: return None" and "if not hits" leave no empty result.             *)
FetchOutcomes(ns) ==
  CASE ns \in {"symbol", "ohlcv"}         -> {"data", "empty", "none"}
    [] ns \in {"listing", "corp_catalogue", "fund_search"} -> {"data", "none"}
    [] ns = "fund_history"                -> {"data", "empty", "none"}
    [] ns = "fund_catalogue"              -> {"data"}

ReadsSnapshot(ns) == ns \in {"fund_catalogue", "fund_search"}

(* How a hit is served.  A catalogue would serve the sentinel as CSV. *)
Served(ns, v) ==
  CASE v = "data"                              -> "ok"
    [] v = "empty"                             -> "ok_empty"
    [] v = "negative" /\ NegativeAware(ns)     -> "not_found"
    [] OTHER                                   -> "garbled"

Stages == {"idle", "nav_lookup", "nav_probe", "nav_store",
           "lookup", "gate", "fetch", "settle"}

Outcomes == {"data", "empty", "none", "unknown", "unavailable", "raised"}

Answers == {"ok", "ok_empty", "not_found", "server_error", "unavailable",
            "garbled"}

ASSUME NothingAssumption ==
  /\ Nothing \notin Requests
  /\ Nothing \notin Values \cup Outcomes \cup Answers

(* The workers inside a "with _upstream_gate" block.  Only the handler of  *)
(* UnknownFundCategory still is once the fetch is over.                    *)
InBlock(w) ==
  \/ stage[w] = "fetch" /\ Gated(key[w].ns)
  \/ stage[w] = "settle" /\ result[w] = "unknown"

Holders == {w \in Workers : InBlock(w)}

-----------------------------------------------------------------------------
Init ==
  /\ Redis!Init
  /\ permits = MaxInflight
  /\ stage = [w \in Workers |-> "idle"]
  /\ key = [w \in Workers |-> Nothing]
  /\ result = [w \in Workers |-> Nothing]
  /\ answer = [w \in Workers |-> Nothing]
  /\ inRotation = TRUE

(* A request reaches its handler. *)
Arrive(w, k) ==
  /\ stage[w] = "idle" /\ inRotation
  /\ stage' = [stage EXCEPT ![w] =
                 IF k.ns = "ohlcv" /\ k.sym \in Funds
                 THEN "nav_lookup" ELSE "lookup"]
  /\ key' = [key EXCEPT ![w] = k]
  /\ answer' = [answer EXCEPT ![w] = Nothing]
  /\ UNCHANGED <<redisUp, store, permits, result, inRotation>>

(* An unknown calendar kind or an empty fund query is a 404 at once. *)
TurnAway(w) ==
  /\ stage[w] = "idle" /\ inRotation
  /\ Routes \cap {"listing", "fund_search"} # {}
  /\ answer' = [answer EXCEPT ![w] = "not_found"]
  /\ UNCHANGED <<redisUp, store, permits, stage, key, result, inRotation>>

(* The handler returns or raises, and its locals are gone. *)
Leave(w, status) ==
  /\ stage' = [stage EXCEPT ![w] = "idle"]
  /\ key' = [key EXCEPT ![w] = Nothing]
  /\ result' = [result EXCEPT ![w] = Nothing]
  /\ answer' = [answer EXCEPT ![w] = status]

-----------------------------------------------------------------------------
(* _fund_first_nav, before the gate is taken. *)

NavLookup(w) ==
  /\ stage[w] = "nav_lookup"
  /\ \/ /\ Redis!Get(NavKey(key[w].sym)) = Nothing
        /\ stage' = [stage EXCEPT ![w] = "nav_probe"]
        /\ UNCHANGED key
     \/ /\ Redis!Get(NavKey(key[w].sym)) # Nothing
        /\ stage' = [stage EXCEPT ![w] = "lookup"]
        /\ key' = [key EXCEPT ![w] = Clamp(key[w])]
  /\ UNCHANGED <<redisUp, store, permits, result, answer, inRotation>>

ProbeFinds(w) ==
  /\ stage[w] = "nav_probe"
  /\ stage' = [stage EXCEPT ![w] = "nav_store"]
  /\ UNCHANGED <<redisUp, store, permits, key, result, answer, inRotation>>

(* MUTANT: an exception of the probe escapes. *)
ProbeFails_Escapes(w) ==
  /\ stage[w] = "nav_probe"
  /\ Leave(w, "server_error")
  /\ UNCHANGED <<redisUp, store, permits, inRotation>>

(* The probe raised or found no date: the requested start is kept. *)
ProbeFails(w) ==
  /\ stage[w] = "nav_probe"
  /\ stage' = [stage EXCEPT ![w] = "lookup"]
  /\ UNCHANGED <<redisUp, store, permits, key, result, answer, inRotation>>

NavStore(w) ==
  /\ stage[w] = "nav_store"
  /\ Redis!Set(NavKey(key[w].sym), "nav", NavTTL)
  /\ stage' = [stage EXCEPT ![w] = "lookup"]
  /\ key' = [key EXCEPT ![w] = Clamp(key[w])]
  /\ UNCHANGED <<permits, result, answer, inRotation>>

-----------------------------------------------------------------------------
(* The lookup, the gate and the fetch. *)

(* MUTANT: a hit renews the lifetime of the entry. *)
Hit_Renews(w) ==
  /\ stage[w] = "lookup"
  /\ Redis!Get(key[w]) # Nothing
  /\ Redis!Set(key[w], Redis!Get(key[w]), NegativeTTL)
  /\ Leave(w, Served(key[w].ns, Redis!Get(key[w])))
  /\ UNCHANGED <<permits, inRotation>>

Hit(w) ==
  /\ stage[w] = "lookup"
  /\ Redis!Get(key[w]) # Nothing
  /\ Leave(w, Served(key[w].ns, Redis!Get(key[w])))
  /\ UNCHANGED <<redisUp, store, permits, inRotation>>

MissedLookup(w) ==
  /\ stage[w] = "lookup"
  /\ Redis!Get(key[w]) = Nothing
  /\ stage' = [stage EXCEPT ![w] = IF Gated(key[w].ns) THEN "gate" ELSE "fetch"]
  /\ UNCHANGED <<redisUp, store, permits, key, result, answer, inRotation>>

(* The cache is not read again once the gate is open. *)
Acquire(w) ==
  /\ stage[w] = "gate"
  /\ permits > 0
  /\ permits' = permits - 1
  /\ stage' = [stage EXCEPT ![w] = "fetch"]
  /\ UNCHANGED <<redisUp, store, key, result, answer, inRotation>>

(* Leaving the with block gives the permit back, by return or exception. *)
Release(w) == permits' = IF Gated(key[w].ns) THEN permits + 1 ELSE permits

FetchEnds(w, o) ==
  /\ stage' = [stage EXCEPT ![w] = "settle"]
  /\ result' = [result EXCEPT ![w] = o]
  /\ UNCHANGED <<redisUp, store, key, answer, inRotation>>

FetchReturns(w) ==
  /\ stage[w] = "fetch"
  /\ \E o \in FetchOutcomes(key[w].ns) : FetchEnds(w, o)
  /\ Release(w)

(* MUTANT: acquire and release without try/finally. *)
FetchRaises_KeepsPermit(w) ==
  /\ stage[w] = "fetch"
  /\ FetchEnds(w, "raised")
  /\ UNCHANGED permits

(* MUTANT: released in the except clause and again in the finally. *)
FetchRaises_ReleasesTwice(w) ==
  /\ stage[w] = "fetch"
  /\ FetchEnds(w, "raised")
  /\ permits' = permits + 2

FetchRaises(w) ==
  /\ stage[w] = "fetch"
  /\ FetchEnds(w, "raised")
  /\ Release(w)

(* CatalogueUnavailable: caught inside the block, answered by raising. *)
SnapshotUnavailable(w) ==
  /\ stage[w] = "fetch" /\ ReadsSnapshot(key[w].ns)
  /\ FetchEnds(w, "unavailable")
  /\ Release(w)

(* MUTANT: the exception handler releases the gate itself. *)
UnknownCategory_Releases(w) ==
  /\ stage[w] = "fetch" /\ key[w].ns = "fund_history"
  /\ FetchEnds(w, "unknown")
  /\ Release(w)

(* UnknownFundCategory: handled while the permit is still held. *)
UnknownCategory(w) ==
  /\ stage[w] = "fetch" /\ key[w].ns = "fund_history"
  /\ FetchEnds(w, "unknown")
  /\ UNCHANGED permits

-----------------------------------------------------------------------------
(* What each outcome stores and replies. *)

StoreValue(w) ==
  /\ stage[w] = "settle" /\ result[w] \in {"data", "empty"}
  /\ Redis!Set(key[w], result[w], DataTTL)
  /\ Leave(w, IF result[w] = "data" THEN "ok" ELSE "ok_empty")
  /\ UNCHANGED <<permits, inRotation>>

(* MUTANT: the sentinel is stored without ttl=NEGATIVE_TTL. *)
StoreNegative_DefaultTTL(w) ==
  /\ stage[w] = "settle" /\ result[w] = "none"
  /\ key[w].ns # "corp_catalogue"
  /\ Redis!Set(key[w], "negative", DataTTL)
  /\ Leave(w, "not_found")
  /\ UNCHANGED <<permits, inRotation>>

StoreNegative(w) ==
  /\ stage[w] = "settle" /\ result[w] = "none"
  /\ key[w].ns # "corp_catalogue"
  /\ Redis!Set(key[w], "negative", NegativeTTL)
  /\ Leave(w, "not_found")
  /\ UNCHANGED <<permits, inRotation>>

(* The sentinel is written, then the with block is left. *)
StoreUnknown(w) ==
  /\ stage[w] = "settle" /\ result[w] = "unknown"
  /\ Redis!Set(key[w], "negative", NegativeTTL)
  /\ permits' = permits + 1
  /\ Leave(w, "not_found")
  /\ UNCHANGED inRotation

(* MUTANT: the catalogue's 404 is negative-cached like any other. *)
NoCatalogueRows_Remembers(w) ==
  /\ stage[w] = "settle" /\ result[w] = "none"
  /\ key[w].ns = "corp_catalogue"
  /\ Redis!Set(key[w], "negative", NegativeTTL)
  /\ Leave(w, "not_found")
  /\ UNCHANGED <<permits, inRotation>>

(* An empty catalogue scrape is a 404 that nobody remembers. *)
NoCatalogueRows(w) ==
  /\ stage[w] = "settle" /\ result[w] = "none"
  /\ key[w].ns = "corp_catalogue"
  /\ Leave(w, "not_found")
  /\ UNCHANGED <<redisUp, store, permits, inRotation>>

ReplyFailure(w) ==
  /\ stage[w] = "settle" /\ result[w] \in {"raised", "unavailable"}
  /\ Leave(w, IF result[w] = "raised" THEN "server_error" ELSE "unavailable")
  /\ UNCHANGED <<redisUp, store, permits, inRotation>>

-----------------------------------------------------------------------------
(* MUTANT: readiness answers like /health. *)
ReadyStatus_Static == 200

(* The status /ready answers with. *)
ReadyStatus == IF Redis!Ping THEN 200 ELSE 503

(* The readiness route needs a worker too; the load balancer acts on its   *)
(* status (external).                                                      *)
Ready(w) ==
  /\ stage[w] = "idle"
  /\ inRotation' = (ReadyStatus = 200)
  /\ UNCHANGED <<redisUp, store, permits, stage, key, result, answer>>

RedisStep ==
  /\ Redis!Fail \/ Redis!Recover \/ Redis!Tick
  /\ UNCHANGED <<permits, stage, key, result, answer, inRotation>>

(* The steps of a worker that holds a request. *)
Step(w) ==
  \/ NavLookup(w) \/ ProbeFinds(w) \/ ProbeFails(w) \/ NavStore(w)
  \/ Hit(w) \/ MissedLookup(w) \/ Acquire(w)
  \/ FetchReturns(w) \/ FetchRaises(w) \/ SnapshotUnavailable(w)
  \/ UnknownCategory(w)
  \/ StoreValue(w) \/ StoreNegative(w) \/ StoreUnknown(w)
  \/ NoCatalogueRows(w) \/ ReplyFailure(w)

Next ==
  \/ \E w \in Workers : \/ \E k \in Requests : Arrive(w, k)
                        \/ TurnAway(w) \/ Step(w) \/ Ready(w)
  \/ RedisStep

Spec == Init /\ [][Next]_vars

(* Threads keep running and provider calls have timeouts; time passes; the *)
(* pool hands a free thread to the longest waiting request, so a readiness *)
(* probe gets one again and again.  Nothing is assumed of arrivals, of     *)
(* Redis, or of who gets the next permit.                                  *)
Fairness ==
  /\ \A w \in Workers : WF_vars(Step(w))
  /\ WF_vars(Redis!Tick /\ UNCHANGED <<permits, stage, key, result, answer,
                                       inRotation>>)
  /\ SF_vars(\E w \in Workers : Ready(w))

FairSpec == Spec /\ Fairness

-----------------------------------------------------------------------------
(* Properties. *)

(* Redis and the handlers' locals stay in their ranges. *)
TypeOK ==
  /\ Redis!TypeOK
  /\ permits \in 0 .. MaxInflight
  /\ stage \in [Workers -> Stages]
  /\ key \in [Workers -> Requests \cup {Nothing}]
  /\ result \in [Workers -> Outcomes \cup {Nothing}]
  /\ answer \in [Workers -> Answers \cup {Nothing}]
  /\ inRotation \in BOOLEAN

(* Every way out of a gated handler, by return, 404, 503 or exception,     *)
(* gives back exactly the permit it took, so the gate never drifts open    *)
(* or shut (main.py:85, 272, 690, 750, 792).                               *)
GateConserved == permits + Cardinality(Holders) = MaxInflight

(* What a route's reader can make sense of: the sentinel only where the    *)
(* reader compares with it, an inception date only under a NAV key.        *)
Readable(k) ==
  CASE k \notin Requests          -> {"nav"}
    [] ~NegativeAware(k.ns)       -> {"data"}
    [] OTHER                      -> {"data", "empty", "negative"}

(* Four writers share Redis with readers that interpret an entry each in   *)
(* their own way; none ever finds an entry it would misread.               *)
EntriesFitReaders ==
  \A k \in Keys : store[k].val \in Readable(k) \cup {Nothing}

Lifetime(v) == CASE v = "negative" -> NegativeTTL
                 [] v = "nav"      -> NavTTL
                 [] OTHER          -> DataTTL

(* No interleaving of writers leaves a sentinel with the lifetime of data, *)
(* so a 404 is never remembered beyond NEGATIVE_TTL (main.py:77-78).       *)
EntryLifetimes == \A k \in Keys : store[k].left <= Lifetime(store[k].val)

(* A reply is the outcome of the request's own walk or a remembered real   *)
(* outcome for its key, whatever Redis, the gate and the other threads do. *)
Promise == INSTANCE RoutePromise WITH
             Keys <- Requests,
             memo <- [k \in Requests |-> store[k].val],
             asked <- key,
             own <- result

KeepsPromise == Promise!Spec

(* A burst beyond the bound queues and finishes (main.py:80-83): once      *)
(* requests stop arriving, every one that was accepted is answered.        *)
BurstFinishes ==
  <>[][\A w \in Workers : stage[w] = "idle" => stage'[w] = "idle"]_vars
     => \A w \in Workers : <>[](stage[w] = "idle")

(* A symbol whose walks stop ending in nothing does not stay a 404: the    *)
(* sentinel dies out although hits keep coming and slow walkers write it   *)
(* late (main.py:74-78).                                                   *)
RecoveryHeals ==
  \A k \in Requests :
    <>[][\A w \in Workers :
           key[w] = k => result'[w] \notin {"none", "unknown"}]_vars
      => <>[](store[k].val # "negative")

(* When Redis stays away the pod leaves the rotation and its walks run     *)
(* out, instead of hammering the providers (main.py:194-204).              *)
OutageDrains ==
  <>[](~redisUp) => <>[](\A w \in Workers : stage[w] = "idle")

=============================================================================
