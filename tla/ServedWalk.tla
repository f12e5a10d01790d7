----------------------------- MODULE ServedWalk -----------------------------
(***************************************************************************)
(* Gateway composed with ProviderWalk: what a worker does inside its gated *)
(* block is a walk over the providers, and a walk runs nowhere else.  The  *)
(* two meet in _cached_or_404 (src/src/main.py:272-282), which stores what *)
(* the walk came to: rows for 24 h, None as a 404 for 6 h.                 *)
(*                                                                         *)
(* Gateway takes it on trust that a fetch ends; here that follows from the *)
(* walk's own steps.  Redis and the block table age by the same clock.     *)
(***************************************************************************)
EXTENDS Gateway, Sequences

CONSTANTS KindOf,       \* the walk each route's fetch is
          Payers, London, PenceLines, Providers, Order, DividendMax, YFinance,
          BlockTTL

VARIABLES blocked, pays, currency,                \* see ProviderWalk
          phase, kind, ticker, pos, got, rows,
          unit   \* history: what the rows in Redis under a key really are

Walk == INSTANCE ProviderWalk WITH
          Threads <- Workers, Tickers <- Symbols, Idle <- Nothing,
          result <- rows

tables == <<blocked, pays, currency>>
walkVars == <<tables, phase, kind, ticker, pos, got, rows>>
allVars == <<vars, walkVars, unit>>

ASSUME ServedAssumption ==
  /\ Routes \subseteq {"symbol", "listing", "ohlcv"}
  /\ KindOf \in [Routes -> Walk!EntryKinds]

(* Those of ProviderWalk. *)
ASSUME ListsAssumption ==
  /\ Payers \subseteq Symbols
  /\ London \subseteq Symbols /\ PenceLines \subseteq London
  /\ Order \in [Walk!Kinds -> Seq(Providers)]
  /\ {DividendMax, YFinance} \subseteq Providers
  /\ BlockTTL \in Nat \ {0}
  /\ Nothing \notin Symbols \cup Walk!Results

ServedInit ==
  /\ Init /\ Walk!Init
  /\ unit = [k \in Requests |-> Nothing]

-----------------------------------------------------------------------------
(* What the route makes of a walk that returns. *)
FetchedAs(ns, r) ==
  CASE r \in {"data", "pence", "shrunk", "zero", "unavailable"} -> "data"
    [] r = "empty" /\ ns # "listing"                             -> "empty"
    [] OTHER                                                     -> "none"

(* The gate is taken, and the walk begins under it. *)
EnterGate(w) ==
  /\ Acquire(w)
  /\ \/ Walk!Begin(w, KindOf[key[w].ns], key[w].sym)
     \/ Walk!ShortCircuit(w, KindOf[key[w].ns], key[w].sym)
  /\ UNCHANGED unit

WalkStep(w) ==
  /\ stage[w] = "fetch"
  /\ Walk!Continue(w)
  /\ UNCHANGED <<vars, unit>>

(* The walk is over, by return or exception, and the permit goes back.     *)
LeaveGate(w) ==
  /\ phase[w] = "idle"
  /\ \/ /\ rows[w] # "raised"
        /\ FetchReturns(w) /\ FetchEnds(w, FetchedAs(key[w].ns, rows[w]))
     \/ rows[w] = "raised" /\ FetchRaises(w)
  /\ UNCHANGED <<walkVars, unit>>

HasRows(w) == stage[w] = "settle" /\ result[w] \in {"data", "empty"}

(* A write that Redis did not confirm may have happened. *)
StoreRows(w) ==
  /\ HasRows(w) /\ StoreValue(w)
  /\ LET written == [unit EXCEPT ![key[w]] = rows[w]] IN
       /\ unit' \in {unit, written}
       /\ redisUp \/ store' # store => unit' = written
  /\ Walk!Dispose(w)

(* Lookups, hits, sentinels: nothing that touches a walk. *)
HandlerStep(w) ==
  /\ stage[w] \notin {"gate", "fetch"} /\ ~HasRows(w)
  /\ Step(w)
  /\ Walk!Dispose(w)
  /\ UNCHANGED unit

ServedStep(w) ==
  EnterGate(w) \/ WalkStep(w) \/ LeaveGate(w) \/ StoreRows(w) \/ HandlerStep(w)

Ask(w) ==
  /\ TurnAway(w) \/ \E k \in Requests : Arrive(w, k)
  /\ UNCHANGED <<walkVars, unit>>

Probe(w) == Ready(w) /\ UNCHANGED <<walkVars, unit>>

(* An hour is an hour for the entries in Redis and for the blocks.         *)
TimePasses ==
  /\ Redis!Tick /\ Walk!Tick
  /\ UNCHANGED <<permits, stage, key, result, answer, inRotation, unit>>

RedisFaults ==
  /\ Redis!Fail \/ Redis!Recover
  /\ UNCHANGED <<permits, stage, key, result, answer, inRotation, walkVars, unit>>

Forgotten ==
  /\ \E x \in Symbols : Walk!Drop(x)
  /\ UNCHANGED <<vars, unit>>

ServedNext ==
  \/ \E w \in Workers : ServedStep(w) \/ Ask(w) \/ Probe(w)
  \/ TimePasses \/ RedisFaults \/ Forgotten

(* As Gateway!Fairness, with a worker's steps down to a single provider    *)
(* call, which has a timeout.                                              *)
ServedSpec ==
  /\ ServedInit /\ [][ServedNext]_allVars
  /\ \A w \in Workers : WF_allVars(ServedStep(w))
  /\ WF_allVars(TimePasses)
  /\ SF_allVars(\E w \in Workers : Probe(w))

-----------------------------------------------------------------------------
(* Properties. *)

(* The composition is a Gateway, and a fair one: a fetch ends because a    *)
(* walk takes each provider of its list once, whatever they answer and     *)
(* whatever earlier walks blocked (openbb_client.py:527-544, 633-651).     *)
GatewayIsFair == FairSpec

Called(w, p) == phase[w] = "call" /\ phase'[w] # "call" /\ Walk!Provider(w) = p

(* The call ended the walk or took it to the next list. *)
Answered(w) == rows'[w] # Nothing \/ kind'[w] # kind[w]

(* Throttled or failing providers make a live symbol a 404 for hours.  It  *)
(* is so no longer once a single provider of its list answers again,       *)
(* whatever the others do: blocks run out, and a sentinel is not renewed   *)
(* by the requests that hit it (main.py:274-279, openbb_client.py:76-84).  *)
LiveSymbolHeals ==
  \A k \in Requests, p \in Providers :
    /\ \E i \in 1 .. Len(Order[KindOf[k.ns]]) : Order[KindOf[k.ns]][i] = p
    /\ <>[][\A w \in Workers : Called(w, p) => Answered(w)]_allVars
    => <>[](store[k].val # "negative")

(* Prices in pence that were cached as they are, for lack of a currency,   *)
(* are gone for good once YFinance answers and quotes tell a currency: not *)
(* knowing is never remembered (openbb_client.py:172-173, 217-230).        *)
PenceHeal ==
  \A k \in Requests :
    <>[][\A w \in Workers :
           /\ Called(w, YFinance) => Answered(w)
           /\ phase[w] = "call" /\ kind[w] = "unit" /\ Answered(w)
                => currency'[ticker[w]] # "untold"]_allVars
      => <>[](store[k].val = "data" => unit[k] # "pence")

(* A provider that stops throttling comes back into every walk, although   *)
(* requests keep finding it blocked (openbb_client.py:76-84).              *)
BlocksHeal == Walk!BlocksHeal

=============================================================================
