# A verification of openst

openst is a stateless HTTP service in front of some twenty market-data
providers. It answers out of Redis, or walks a list of providers under a
semaphore, and keeps two small Postgres tables for Polish savings bonds. These
are TLA+ models of the parts whose correctness depends on what happens in which
order, with TLC configurations that check them on small instances and TLAPS
proofs of what matters most for every size.

```
tlc -workers 2 -config gateway_requests.cfg MCGateway.tla     # a run
tlapm Gateway_proofs.tla                                     # proofs
```

`PROJECT.json` lists the runs, the source lines every definition stands for,
the hazards, the divergences found and the theorems.

## 1. Inventory

| Part | State | Operations | Hard behaviour | What makes it correct |
|------|-------|------------|----------------|-----------------------|
| Route gateway, `src/main.py` | semaphore `_upstream_gate` (8 permits); one thread per request out of a pool of 40 | data routes, first-NAV probe, `/ready`, `/health` | threads between a cache lookup and the store; exceptions inside the gated block; sentinels written late | permits conserved; replies are real outcomes for the request's key; 404s forgotten in time; an outage drains |
| Redis cache, `src/cache.py` | entries with a time to live (external) | `get`, `set`, `ping` | timeouts whose write happened; outages; restarts with or without data; expiry | every error degrades to a miss |
| Provider walks, `src/openbb_client.py` | `_provider_blocked_until`, `_pays_dividend`, `_symbol_currency_cache` | some thirty `get_*` and `search_*` functions | concurrent walks over unlocked tables; throttles in the middle; two-stage walks | verdicts rest on answers; doubt is not remembered; only pence are divided by 100; blocks end, and with them wrong 404s and unscaled prices |
| Bounded memos, same file | `_pays_dividend`, `_symbol_currency_cache` as ordered dicts | remember, prune | pruning by several threads without a lock | bounded; repaired by the next call |
| Schema migrations, `src/db.py` | `openst.schema_migrations`, the schema | `migrate` at boot | replicas at once, different images, crashes, DDL conflicts | journal and schema agree; order; nobody serves unmigrated |
| Savings-bond and CPI importers, `src/importers` | `openst.bond_series`, `openst.cpi_12m` | cron jobs: full, incremental, archive | one page fails; two jobs at once; a job dies while another waits for its rows; revised observations | the tables only grow, by whole runs; no row is passed over; inflation jobs never deadlock |
| Bond price fetcher, `plugins/openbb_obligacje` | a request's rows | three SELECTs and the staleness guard | imports that commit between the SELECTs | no refusal of data it has |
| Pricing engine, same plugin | none | `redemption_value`, `price_series`, ... | rounding, caps and floors at period boundaries; gaps in the inflation | waiting never costs; never below the nominal; gaps are reported |
| BiznesRadar scraper, `plugins/openbb_biznesradar` | none; the first NAV it finds is kept in Redis for 30 days | paged history, first-NAV probe | the listing grows while it is read; a page fails | no day missing, repeats only by growth; the first NAV never early |
| Dividend calendar merge, `src/openbb_client.py` | none | union with dedupe | partial failure cached as a whole | every provider that answers contributes |
| Catalogues, DividendMax plugin, JSON rendering, telemetry | none | parsing and shaping | none that depends on order | unit tests |

How they interact. A request thread runs a route handler. The handler reads
Redis; on a miss it takes a permit, walks the providers (which may block one
for a day, or record a ticker as a non-payer), gives the permit back and
stores the outcome or the sentinel `__404__`. The load balancer polls `/ready`,
which pings Redis. At boot, before the first request, the lifespan applies the
migrations. Cron jobs fill the tables, and the bond fetchers read them.

## 2. The modules

| Module | Models | Composed with |
|--------|--------|---------------|
| `RedisCache` | `src/cache.py` and Redis behind it | instanced by `Gateway` |
| `Gateway` | `src/main.py`: the handlers, the gate, the probe, readiness | |
| `RoutePromise` | abstract: what a route promises | `Gateway` implements it |
| `Gateway_proofs` | theorems about `Gateway` | extends it |
| `ProviderWalk` | the walks of `src/openbb_client.py` | |
| `ProviderWalk_proofs` | theorems about `ProviderWalk` | extends it |
| `ServedWalk` | the gateway with a provider walk inside the gate | extends `Gateway`, instances `ProviderWalk` |
| `ServedWalk_proofs` | the composition is a `Gateway` and a `ProviderWalk` | extends `ServedWalk` and `Gateway_proofs`, instances `ProviderWalk_proofs` |
| `HistoryPages` | the first-NAV probe, the clamp and the paged history of a fund | |
| `HistoryPages_proofs` | theorems about `HistoryPages` | extends it |
| `BoundedMemo` | `_remember_pays_dividend`, `_remember_symbol_currency` | its losses are `ProviderWalk!Drop` |
| `BoundedMemo_proofs` | theorems about `BoundedMemo` | extends it |
| `Migrations` | `src/db.py` and the lifespan | |
| `Migrations_proofs` | theorems about `Migrations` | extends it |
| `BondStore` | the importers, the two tables, the bond price fetcher | |
| `BondTable` | abstract: what a run of an importer does to its table | `BondStore` implements it |
| `BondStore_proofs` | theorems about `BondStore` | extends it |
| `BondEngine` | the pricing engine behind the fetcher | |
| `BondEngine_proofs` | theorems about `BondEngine` | extends it |
| `MC...` | symmetry sets and constant definitions for TLC | extend the module they are named after |

An operator whose name has an underscore and whose comment begins with MUTANT
is not part of the model: it is a plausible bug that the property named in
`PROJECT.json` must detect when it replaces the definition before the underscore.

### Gateway

`stage[w]` is where in its handler worker `w` is; one action is what a thread
does between two points where others can get in the way: a Redis command, a
gate operation, a provider walk. `key`, `result`, `answer` are the handler's
locals and its reply; `permits` is the semaphore's value.

- The routes over `_cached_or_404` fall into two shapes, by whether their fetch
  can return `[]` (`symbol`) or ends in `records or None` (`listing`). The other
  route names are the handlers with control of their own: `ohlcv` with the
  first-NAV probe and the clamp, `fund_history` with `UnknownFundCategory`
  handled while the permit is still held, `corp_catalogue` whose 404 is not
  remembered, `fund_catalogue` without one, `fund_search` outside the gate.
- A cached value is one of `data`, `empty`, `negative`, `nav`; nothing in the
  handlers looks further into it.
- `Redis!Set` may happen or not when Redis is unreachable, because a timeout on
  the reply says nothing about the write. `Redis!Tick` ages every entry; three
  lifetimes 1 < 2 < 3 keep the order 6 h < 24 h < 30 d of the code.
- A walk takes any time and ends in any outcome the route's fetch can have.

### ProviderWalk

`phase`, `kind`, `ticker`, `pos`, `got` are the locals of a walk: the loop
index, `any_success`. One thread consults the block table in one step and calls
the provider in another, so tables may change in between. Provider answers are
nondeterministic, except that only a payer has dividends to return. `Tick` is
time: `BlockTTL` ticks are `PROVIDER_BLOCK_HOURS`. `Dispose` is the caller letting go of what
its walk returned: nothing in the code, but a walk's result is then not kept for ever,
and a composition can say when its handler is done with it.

The kinds of walk are told apart by what they make of an answer. Crypto prices, for
one, go on at an unknown symbol where statements, news and filings stop, and may
come to `[]`; a logo needs no walk if a CDN has it, and the first web site decides.

Three walks hand over to another one with a list of its own: a yield walk without
metrics to the check whether the ticker pays at all, a price walk that got
London prices from yfinance to `get_quote`, for their currency, and the walk of a
crypto profile, once it has a quote, to the search for its name and supply (`kind`
becomes `check`, `unit`, `supply`). The check is begun only if the memo does not
have the ticker; if it has, the entry is looked up in a second step (`reread`), and
when another thread dropped it in between the walk does not return but raises. The
same race in the currency memo is caught by the loop of the price walk, and is a
`Fails` there. What a price walk returns is therefore one of `data`, `pence`
(left unscaled) and `shrunk` (divided though not in pence); the code cannot tell
these apart, the properties do. `PenceLines` says which London lines trade in
pence. A quote may lack a currency; one that has it declares the line's own.

### ServedWalk

`Gateway` takes it on trust that a fetch ends in some outcome. Here a worker that
takes a permit begins a walk of `ProviderWalk` in the same step, the walk's steps
are the worker's, and the permit goes back when the walk is over. If it returned,
the outcome is what the route makes of it (`FetchedAs`); if it raised, the block is
left by the exception, as `Gateway!FetchRaises` has it. A tick is an hour for Redis
and the block table alike. `unit` is a history variable: what the rows in Redis
under a key really are, which nobody can read off them. A request is asked and a
readiness probe answered as in `Gateway`; the routes are those whose fetch is one
walk.

### HistoryPages

A fund's listing is the days `First .. newest`, newest first, in pages of
`PageSize` rows; `Publish` adds a day, at any moment, so every older row moves
down. A request looks up the first NAV, probes it in two fetches when Redis does
not have it (`ProbeFooter`, `ProbeOldest`), clamps its start, and scrapes page
after page until a row before its start or a page without a link to the next.
`times[r][d]` is how often the rows of request `r` have day `d`. `opened` and
`seen` are history: the newest day when its first and its latest page were
fetched. Cell parsing, and days without rows, are left out.

### BoundedMemo

CPython runs bytecode of one thread until it switches, which it does between
calls; the pinned 3.12 makes `ticker in d` followed by `list(d)` one step. So a
call of `_remember_...` is: the first `len`, then the membership test with
`list`, then the second `len` with the slice, then one `pop` per step, then the
assignment. Both memos run the same code; the model is of either.

### Migrations

One action per statement `migrate` sends, with Postgres' side of it: writes are
seen at commit; `CREATE ... IF NOT EXISTS` waits for a concurrent creation and
fails with a unique violation if that one commits; `INSERT ... ON CONFLICT DO
NOTHING` waits likewise, then does nothing. A migration is its one object,
because the repository's migration is DDL of that form. A crash, a lost
connection, a failing statement and a new deployment are all `Crash`, at any
statement.

### BondStore

A job is one pod that runs one importer after another; `left`, `rows` and
`done` are the pages it has still to fetch, what it has parsed, and how far its
loop of INSERTs is. Each INSERT is a step. `pending[j]` is what `j`'s open
transaction inserted; an INSERT of a key that is pending elsewhere waits
(`WaitsFor`), and Postgres aborts one transaction of a cycle (`Victim`).
Whatever ends a job without a commit rolls it back (`Leave`). The bond job's
rows come in any order, because the modes list their pages in different orders;
the inflation job's come in the order of its page. The importer does not sort them:
`Place` is where the page has the figure of a day, any order at all, and what is
assumed of the source is that it is the same for every run (the parser's comment
says it is ascending, and the run has it so). A value is the
edition of the page the row was parsed from, so that a revision can be told from
what it revises. A request reads the bond, then the figures, then asks for the
latest date, each SELECT seeing what is committed by then.

### BondEngine

`price_series` as a walk over the days of the range, with the functions it
calls as operators in integer grosze. A period lasts a few days instead of 365
or 366, of two lengths; a rate is a number of 1/400. A bond's inflation is one
figure per period or `Missing`, since `_cpi_before` looks at exactly one month
per period. `Needs` names the periods whose rate a day's value consults, in
which series and maturity differ. Of the eight series one stands for each of the
four ways the code treats them (OTS; those that capitalise; COI; the NBP-linked
ones it refuses).

## 3. Runs

| Run | Instance | Question |
|-----|----------|----------|
| `gateway_requests` | 2 workers, 1 permit, a fund's OHLCV and the corporate-bond catalogue | With the probe, the clamp and the reader that knows no sentinel: do sentinels keep their short life (`EntryLifetimes`) and stay where a reader knows them (`EntriesFitReaders`), does the gateway implement the promise (`KeepsPromise`), so that the probe never decides a reply? |
| `gateway_live` | 2 workers, 1 permit, the two fund routes with exits of their own | Are permits conserved on every way out? Does a burst finish, does a recovered symbol stop being a 404, does an outage drain the pod? |
| `served_walk` | 2 workers, 1 permit, prices of one London line, 2 providers | Do fetches end by the walks' own steps (`GatewayIsFair`)? Does a live symbol that throttles made a 404 come back once one provider answers (`LiveSymbolHeals`)? Do unscaled pence leave the cache once quotes tell a currency (`PenceHeal`)? Do blocks end (`BlocksHeal`)? |
| `walk_safety` | 2 threads, every kind of walk and hand-over, two providers in lists of one or both (one prices in pence, the other has forecasts), two London tickers of which one is a payer and trades in pence | Do verdicts rest on answers? Is doubt never remembered, and a pound never taken for a penny (`NeverShrunk`)? |
| `history_pages` | 2 requests, a listing of 2 days that grows to 5, pages of 2, windows that begin early, late, or end before the newest day | Is a day ever missing (`NothingMissing`)? Does a day repeat otherwise than by growth (`RepeatsNeedGrowth`)? How late can the remembered first NAV be (`NavLateByGrowth`)? Does a scrape end? |
| `memo_races` | 2 threads, maximum 3, 6 tickers | How far can the memo exceed its maximum, and is it repaired? |
| `migrations` | 3 replicas, 2 migrations | Journal, schema, order, `applied` and serving; do collisions end with every pod serving (`AllServe`)? |
| `bond_store` | 2 pods, 2 bonds (one indexed), 2 days, 2 editions, 1 request | Does every run of an importer take effect at once and as if it were the only one (`RunsAreSerial`), and is no row passed over (`NothingSkipped`)? Can inflation jobs deadlock? Is a request ever refused for data it has? |
| `bond_engine` | 3 periods of 4 and 5 days, 20 bonds, every history of deflation, inflation and gaps, every range of days | Does waiting a day ever cost money? Does a bond pay less than was paid for it? Are gaps reported when they matter, and only then? |
| `walk_payer`, `migrations_once`, `bond_coi` | as the passing runs beside them | The divergences of section 4 |

Why the bounds are enough. The gateway's hazards need a worker inside the gate
or waiting for it, and one past the lookup of the same key: two workers on one
permit, since keys do not interact otherwise than through the gate; the proofs
cover every other number, and the two handler shapes without a run of their own
(`listing`, `fund_catalogue`), whose actions are those of `symbol` and
`fund_search` with fewer outcomes. Two lifetimes that differ by one unit suffice to tell a sentinel from
data; where something must die out although it is renewed, it has two ticks to
live, so that a renewal can come in time. A walk's hazards need two threads on one ticker and a list with a
provider before and after the one at hand; the handovers need lists that differ.
In `served_walk` there is one permit, so its two walks follow each other and never
overlap: what it shows is what one request leaves to the next, a block, a currency, a
sentinel. That a walk ends also when others block its providers meanwhile is for the
theorem `WalksAreBounded` to say. Its quote list asks fmp first, as the code's does,
and its price list yfinance, so that a quote without a currency may come from either.
A listing of two days is one page and becomes three while it is read, so a page
number goes stale, a row moves by one page and by more, and the single-page probe
occurs. Pruning needs more tickers than the
maximum plus the overshoot: 6 against the bound 5. `SizeBounded` is
proved for every number of threads. Two pods are a
deadlock, and a waiter whose rival dies; a third pod only lengthens the cycle.
Two bonds are two orders, two days two figures and a gap between imports. The
engine's hazards sit at the ends of periods: three of them have a first, a
middle and a last, and rates down to under one grosz a period make every
rounding case occur. Migrations
need a third replica so that a waiter's rival may be replaced by another, and
two migrations so that there is an order. The proofs remove the bounds for
every module, as far as safety goes.

Fairness. `Gateway!Fairness` asks that a thread which can run does (operating
system threads, and every provider and Redis call has a timeout), that time
passes, and that a readiness probe gets a thread again and again (the pool
serves its queue in order: strong fairness, as workers are busy now and then).
It asks nothing of arrivals, Redis, or of who gets the next permit. `BurstFinishes` is
therefore conditional on arrivals ending, `RecoveryHeals` on the walks of the
symbol no longer ending in nothing, and `OutageDrains` on the outage lasting.
`ServedSpec`
asks the same of the steps down to a single provider call, and `GatewayIsFair`
shows that `Gateway`'s fairness follows, so that nothing is taken on trust about
walks. `LiveSymbolHeals` and `PenceHeal` are conditional on one provider of the
list answering from some time on, `BlocksHeal` on a provider no longer
throttling. `HistoryPages!FairSpec` is that threads run and fetches time out.
`Migrations!FairSpec` asks
that a pod is restarted and that Postgres answers; `AllServe` is conditional on
crashes, other than the collisions themselves, coming to an end.

## 4. Divergences found

The first three are runs that expect a violation of what the repository says.
The others were met while reading and follow from the source directly: the
models do what the code does there, and no run restates it.

| Run | The repository says | The code does |
|-----|---------------------|---------------|
| `walk_payer` | the table says whether a ticker has dividends | a metrics frame overrules it |
| `migrations_once` | migrations are applied exactly once | two replicas both run them |
| `bond_coi` | COI accrues on the flat nominal and pays out annually | at maturity its interest is compounded (`engine.py:237-240`, `:266`) |
| none | every route is covered by the in-flight bound (`src/readme.md:118-121`) | the first-NAV probe is outside it (`src/src/main.py:406`) |
| none | a dead symbol costs one walk (`src/readme.md:55`) | requests that queued at the gate walk again (`src/src/main.py:272`) |
| none | an outage costs speed, not availability (`src/readme.md:122-123`) | a walk that fails during it can replace good data by a 6 h 404 (`src/src/main.py:278`) |
| none | an error is raised when the CPI history is too old to price from (`fixedincome_historical.py:69`) | the guard reads the latest date after the figures, so an import in between lets older figures pass (`:79-81`) |
| none | the archive mode stores the display symbol (`src/src/importers/bond_series.py:324-326`) | it stores the symbol of the page's Seria row (`:407`) |
| none | `[]` "is re-checked normally" (`src/src/main.py:275-277`) | it is cached for 24 h (`:281`) |
| none | a missing fund snapshot is a 404 (`src/src/main.py:778`) | it is a 503 (`:797`) |
| none | a throttle blocks the provider for 24 h (`src/readme.md:91-92`) | the forecast merge and the projections do not look (`src/src/openbb_client.py:377`, `:583`) |
| none | an unknown symbol stops the walk (`src/readme.md:93`) | not in `_single_record` (`src/src/openbb_client.py:542`) |
| none | a fund's start is clamped to its oldest NAV date, which never changes (`src/readme.md:124`, `src/src/main.py:311`) | a day published between the probe's two fetches can make the remembered date late by that day, for 30 days (`scraper.py:231`) |
| none | London prices of yfinance are in pence and divided by 100 (`src/readme.md:126-127`) | only if the quote's currency is known at that moment; else they are served and cached unscaled (`src/src/openbb_client.py:233-257` says so and why) |
| none | if every provider failed nothing is recorded (`src/src/openbb_client.py:132-135`) | one empty frame while the providers that have the dividends are throttled records a non-payer (`:402`) |
| none | a dropped memo entry costs one extra walk rather than any correctness (`src/src/openbb_client.py:41-44`) | dropped between the test and the index of `:115-116` it is a `KeyError`, and the request a 500 |
| none | the least recently added entries are dropped (`src/src/openbb_client.py:41`) | of two threads that prune at once, the later one may drop an entry added anew, the newest (`:51`) |

## 5. Proofs

`Migrations_proofs`: for any replicas and any number of migrations, `TypeOK`,
`JournalMatchesSchema`, `JournalIsPrefix`, `AppliedIsCommitted` and
`ServingIsMigrated`. None is inductive alone. That a commit adds an object and
its row together needs to know what the open transaction holds
(`TransactionHolds`); that the journal stays without gaps needs that the loop
has applied all that comes before (`LoopIsOrdered`), and that what it believes
applied is committed. Their conjunction is `IInv`, with one lemma per action.
The assumptions are `MigrationsAssumption`: there is at least one migration,
and "no migration" is not a number.

`Gateway_proofs`: for any finite set of workers, any permits, routes, symbols
and lifetimes in the order of the code, `TypeOK`, `GateConserved`,
`EntriesFitReaders`, `EntryLifetimes`, and `Spec => KeepsPromise`: the gateway
implements `RoutePromise`. The inductive invariant has a part for Redis
(`StoreInv`), one for the semaphore (`GateInv`) and `LocalInv`, which says what
a worker at a stage can be doing: without it one could not exclude that a
worker about to store a sentinel serves a catalogue, whose reader would hand
the sentinel out as CSV. In the refinement the memo of the promise is the
value part of the store; expiry, restarts and lost writes are forgetting, a
hit is recalling, the end of a fetch is the walk, and the clamp is narrowing.
Of the liveness of a burst two halves that need no fairness are proved: a request
takes seven steps at most, whatever the others do (`RequestsAreBounded`), and a
closed gate is held by a request that is past it (`NoRequestWaitsForNobody`).

`ProviderWalk_proofs`: for any threads, tickers, providers and provider lists,
`TypeOK`, `PayersPay`, `NeverShrunk` and `VerdictNeedsAnswer`. The invariant is
that of the tables and that of the locals. The first needs `CurrenciesAreTrue`:
pence are recorded of lines in pence only; without it one thread could divide by
what another one wrote. The second needs to know that a thread which merges
forecasts has found dividends, and that one without a walk stands at the head of
a list, so that the index stays in range when `kind` changes under it. From the
same invariant, walks end: `Left` counts three steps for each provider that is
left in the list, and those of the tail that a price, a yield or a crypto profile
walk may hand over to; every step of the walk lowers it and no step of another thread, of the clock
or of the memos raises it (`WalksAreBounded`). The assumptions are
`WalkAssumption` and `IdleAssumption`.

`ServedWalk_proofs`: the composition implements `Gateway`, step for step or by
stuttering, for any routes and lists (`ServedIsGateway`), so `KeepsPromise` and
every other theorem of `Gateway_proofs` holds over real walks. It also implements
`ProviderWalk` (`ServedIsProviderWalk`): the gate's step begins a walk, the
handler's later steps dispose of what it returned. From both together follow two
facts that neither module can state. A walk runs only where its worker holds a
permit (`Composed`), so at most `UPSTREAM_MAX_INFLIGHT` requests walk at a time
(`ProviderWalksAreBounded`); and what is in Redis was returned by some walk, so no
price is cached wrongly divided (`CachedPricesStayWhole`). `ListsAssumption`
repeats `ProviderWalk`'s own assumptions, which an INSTANCE does not bring along.

`HistoryPages_proofs`: for any fund, page size, windows and growth, `TypeOK`,
`NothingMissing`, `RepeatsNeedGrowth` and `NavLateByGrowth`. The invariant looks
at the line between the days the scrape has passed and those to come, as the
latest page put it (`Line`). Above it every day of the window has been yielded;
below it a day has been yielded no more often than days were published since the
scrape began, which is one less than the bound elsewhere, and leaves room for the
page to come. For the probe, `Footer` keeps what the footer's page number said
when it was read. The assumption is `HistoryAssumption`.

`BoundedMemo_proofs`: for any finite set of threads, any tickers and any maximum,
`TypeOK`, `SizeBounded`, `LoneCallRestores` and `LoneCallDropsOldest`. The bound is
reached, so nothing weaker than an exact account will do. `SizeInv` quantifies over
what may still happen: whichever calls `F` have passed their test and will add
their ticker, and whichever keys `D` are popped by then, what is left and what is
added fit the bound. Quantified so, it does not matter who pops what and in which
order. For a call that nobody disturbs, `AloneInv` says what it has found and how
much it has still to pop. `Pop` takes the key out where it stands (`Drop`), as
`dict.pop` does; `BoundedMemoAssumption` asks for at least one thread.

`BondStore_proofs`: for any pods, requests, bonds, days and page counts,
`TypeOK`, `NothingSkipped`, `WriteOnce`, `NoFalseAlarm`,
`CpiJobsNeverDeadlock`, and `Spec => RunsAreSerial`: the importers implement
`BondTable`. The strengthening is
`OneOwner`: a key that an open transaction inserted is in no other transaction
and not in the table. It makes a commit an addition (`WriteOnce`), and with it a
row that was passed over because the table had it stays there
(`NothingSkipped`); what a request has read therefore stays true
(`SeenIsCommitted`), so that a guard which finds only old rows later proves that
the request had only old ones (`NoFalseAlarm`). For deadlocks the invariant also
says that a job holds only keys it has passed (`HeldArePassed`) and that figures
are in the one order of the page (`PageOrder`): whoever waits for an inflation job
has its next figure before that of the job, and in a circle some job would have the
first one, and another would wait for it. What the order is does not matter
(`PlaceAssumption`: no two figures are in one place). In the refinement the abstract run is the commit. It must be
shown that the transaction holds, for each key the table does not have, the first
row the list has of it (`HeldIsFirst`: an insert of a key that was in the table or
in the transaction changes nothing), and that it holds nothing else of note:
`NothingSkipped` says that what is not held is in the table. `WriteOnce` is proved
only; `RunsAreSerial` implies it.

`BondEngine_proofs`: for any catalogue, calendar, rates, fees and inflation
histories, `TypeOK`, `NeverBelowNominal`, `WaitingPays` and `GapsAreReported`.
The state machine adds little: the invariant says that every close is the value
of its day, and that a range is priced to its end or not at all. The substance
is about the rounded formulas. `Rounded` keeps the order and commutes with
integers and common factors, so what a period has accrued on its last day is the
capital of the next period less the nominal, to the grosz (`AccruedAtTheEnd`,
`AccruedAtTheStart`); within a period accrual grows with the days, and the fee,
capped or not, keeps the order (`PaidBounds`). `Capital` is a recursive function,
and TLAPS takes nothing about it for granted: `CapitalStep` shows that it exists
and satisfies its equation, by induction over a set of periods (`LeastOf`,
`Induction`, from the library's `WFMin`). The assumption is `EngineAssumption`; in particular
margins are not negative, boundaries increase, and there is a bond. Nothing
bounds a fee from above, so an amount may in principle be negative, and `TypeOK`
says only that it is an amount.

Every invariant and every action property of the runs is stated by a theorem,
except the divergences of section 4. Only model-checked is what needs fairness:
`BurstFinishes`, `RecoveryHeals`, `OutageDrains`, `AllServe`, `ScrapesEnd`,
`GatewayIsFair`, `LiveSymbolHeals`, `PenceHeal` and `BlocksHeal`, because TLAPS
1.4.5 has no ENABLED. Conversely `LoopIsOrdered` and `TransactionHolds` of
`Migrations`, the counts of steps, `ProviderWalksAreBounded`,
`CachedPricesStayWhole` and `WriteOnce` are proved and not a run's property.
`FairSpec` adds only fairness to `Spec`, so what is proved of `Spec` holds of it.

## 6. Not modelled, and the plan

Parsing of pages and frames, CSV and JSON rendering, telemetry, the image and
CI are left to unit tests: nothing in them depends on order. `/health` keeps no
state, but shares the thread pool with requests that wait at the gate, as
`Gateway!Ready` does: with every worker waiting no probe is answered.

`get_fund_category_history` writes to the currency memo as well, under a category
code and PLN only, and no London line is looked up under a category code, so
`ProviderWalk` leaves it out. `get_crypto_search` and `search_equities` shape their records
as their walks' `record` kind does.

The searches that ask one fixed provider, the savings-bond searches and the bond
routes' fallback to the database are single calls without state. The dedupe of
the dividend calendar and the text of cache keys are functions of strings.

Next, in this order:

1. The queue of requests in front of the workers, so that readiness under a full
   gate is a property and not an assumption of fairness.
2. Proofs: how many pages a scrape can ask for, against the growth of its
   listing; that a deployment of replicas that no longer crash has few steps
   left, the safety half of `AllServe`.
3. An abstract schema that grows one migration at a time, which `Migrations`
   refines.
