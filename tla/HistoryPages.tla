---------------------------- MODULE HistoryPages ----------------------------
(***************************************************************************)
(* A fund's price history as price_ohlcv gets it from biznesradar          *)
(* (plugins/openbb_biznesradar/openbb_biznesradar/scraper.py, and          *)
(* _fund_first_nav in src/src/main.py): the first NAV is probed once, kept *)
(* in Redis for 30 days and used to clamp the start of requests; then the  *)
(* history is scraped page by page.                                        *)
(*                                                                         *)
(* The site is external.  It lists the days of the fund newest first, in   *)
(* pages of PageSize rows, and it may publish a day between any two        *)
(* fetches, which moves every older row one place down.  A day stands for  *)
(* its row; days without a row are not counted.                            *)
(***************************************************************************)
EXTENDS Integers

CONSTANTS Requests,   \* the requests in progress, all for one fund
          PageSize,   \* rows on a page of the site
          First,      \* the first day of the fund
          Listed,     \* the newest day listed at the start
          Horizon,    \* bound: the last day that is ever listed
          Windows,    \* the <<start, end>> that requests ask for
          None        \* no date

Days == First .. Horizon

ASSUME HistoryAssumption ==
  /\ PageSize \in Nat \ {0}
  /\ First \in Int /\ Listed \in Int /\ Horizon \in Int
  /\ First <= Listed /\ Listed <= Horizon
  /\ Windows \subseteq Int \X Int
  /\ None \notin Int /\ None \notin {"rows", "failed"}

VARIABLES
  newest,   \* the newest day the site lists
  nav,      \* the fund_first_nav entry of the fund in Redis, or None
  phase,    \* where a request is
  start,    \* start_date, clamped or not
  end,      \* end_date
  last,     \* probe_first_nav: the last page number of the footer
  page,     \* _scrape_pages: the page to fetch
  times,    \* how often a request's rows have each day
  outcome,  \* what its last scrape ended in
  opened,   \* history: the newest day when its first page was fetched
  seen      \* history: the newest day when its latest page was fetched

clock == <<newest, nav>>
window == <<start, end>>
scrape == <<page, times, outcome, opened, seen>>
vars == <<clock, phase, window, last, scrape>>

Phases == {"idle", "lookup", "footer", "oldest", "page"}

Init ==
  /\ newest = Listed
  /\ nav = None
  /\ phase = [r \in Requests |-> "idle"]
  /\ start = [r \in Requests |-> First]
  /\ end = [r \in Requests |-> First]
  /\ last = [r \in Requests |-> 0]
  /\ page = [r \in Requests |-> 1]
  /\ times = [r \in Requests |-> [d \in Days |-> 0]]
  /\ outcome = [r \in Requests |-> None]
  /\ opened = [r \in Requests |-> First]
  /\ seen = [r \in Requests |-> First]

-----------------------------------------------------------------------------
(* The site. *)

Rows == newest - First + 1

(* The days on page p. *)
OnPage(p) == {d \in First .. newest : /\ d > newest - p * PageSize
                                      /\ d <= newest - (p - 1) * PageSize}

(* Page p has a link to the next page. *)
HasNext(p) == Rows > p * PageSize

(* The highest page number in the footer, which a listing of one page      *)
(* does not have.                                                          *)
FooterEndsIn(l) == l > 1 /\ HasNext(l - 1) /\ ~HasNext(l)

Publish ==
  /\ newest < Horizon
  /\ newest' = newest + 1
  /\ UNCHANGED <<nav, phase, window, last, scrape>>

-----------------------------------------------------------------------------
(* price_ohlcv and _fund_first_nav. *)

Arrive(r, w) ==
  /\ phase[r] = "idle"
  /\ phase' = [phase EXCEPT ![r] = "lookup"]
  /\ start' = [start EXCEPT ![r] = w[1]]
  /\ end' = [end EXCEPT ![r] = w[2]]
  /\ outcome' = [outcome EXCEPT ![r] = None]
  /\ times' = [times EXCEPT ![r] = [d \in Days |-> 0]]
  /\ page' = [page EXCEPT ![r] = 1]
  /\ opened' = [opened EXCEPT ![r] = First]
  /\ seen' = [seen EXCEPT ![r] = First]
  /\ UNCHANGED <<clock, last>>

(* The clamp; the walk over the providers then comes to biznesradar. *)
Scrape(r, first) ==
  /\ phase' = [phase EXCEPT ![r] = "page"]
  /\ start' = [start EXCEPT ![r] = IF first # None /\ @ < first THEN first ELSE @]
  /\ last' = [last EXCEPT ![r] = 0]
  /\ UNCHANGED <<newest, end, scrape>>

Known(r) ==
  /\ phase[r] = "lookup" /\ nav # None
  /\ Scrape(r, nav)
  /\ UNCHANGED nav

(* No entry, or Redis does not answer. *)
Unknown(r) ==
  /\ phase[r] = "lookup"
  /\ phase' = [phase EXCEPT ![r] = "footer"]
  /\ UNCHANGED <<clock, window, last, scrape>>

(* The first fetch of probe_first_nav, for the footer only. *)
ProbeFooter(r) ==
  /\ phase[r] = "footer"
  /\ \E l \in 2 .. Rows : FooterEndsIn(l) /\ last' = [last EXCEPT ![r] = l]
  /\ phase' = [phase EXCEPT ![r] = "oldest"]
  /\ seen' = [seen EXCEPT ![r] = newest]
  /\ UNCHANGED <<clock, window, page, times, outcome, opened>>

(* A listing of one page has no first NAV. *)
ProbeSinglePage(r) ==
  /\ phase[r] = "footer" /\ ~HasNext(1)
  /\ Scrape(r, None)
  /\ UNCHANGED nav

(* Every failure of the probe keeps the requested start. *)
ProbeFails(r) ==
  /\ phase[r] \in {"footer", "oldest"}
  /\ Scrape(r, None)
  /\ UNCHANGED nav

(* MUTANT: the page before the last is taken for the oldest. *)
OldestOnPage_OneTooFew(p) == CHOOSE d \in OnPage(p - 1) : \A o \in OnPage(p - 1) : d <= o

(* _oldest_date_on_page.                                                   *)
OldestOnPage(p) == CHOOSE d \in OnPage(p) : \A o \in OnPage(p) : d <= o

(* The second fetch asks for the page the footer named.  The write to      *)
(* Redis may be lost.                                                      *)
ProbeOldest(r) ==
  /\ phase[r] = "oldest"
  /\ nav' \in {nav, OldestOnPage(last[r])}
  /\ Scrape(r, OldestOnPage(last[r]))

Expire ==
  /\ nav' = None
  /\ UNCHANGED <<newest, phase, window, last, scrape>>

-----------------------------------------------------------------------------
(* _scrape_pages. *)

InWindow(r, d) == start[r] <= d /\ d <= end[r]

(* A row older than start_date ends the scrape. *)
Exhausted(r) == \E d \in OnPage(page[r]) : d < start[r]

TakePage(r) ==
  /\ times' = [times EXCEPT ![r] =
       [d \in Days |-> IF d \in OnPage(page[r]) /\ InWindow(r, d)
                       THEN times[r][d] + 1 ELSE times[r][d]]]
  /\ seen' = [seen EXCEPT ![r] = newest]
  /\ opened' = [opened EXCEPT ![r] = IF page[r] = 1 THEN newest ELSE @]

(* MUTANT: after a page that is not the first the scrape starts over.      *)
FetchPage_StartsOver(r) ==
  /\ phase[r] = "page" /\ ~Exhausted(r) /\ HasNext(page[r])
  /\ IF page[r] = 1
     THEN TakePage(r)
     ELSE /\ times' = [times EXCEPT ![r] = [d \in Days |-> 0]]
          /\ UNCHANGED <<opened, seen>>
  /\ page' = [page EXCEPT ![r] = IF @ = 1 THEN 2 ELSE 1]
  /\ UNCHANGED <<clock, phase, window, last, outcome>>

(* MUTANT: a page is skipped. *)
FetchPage_SkipsOne(r) ==
  /\ phase[r] = "page" /\ ~Exhausted(r) /\ HasNext(page[r])
  /\ TakePage(r)
  /\ page' = [page EXCEPT ![r] = @ + 2]
  /\ UNCHANGED <<clock, phase, window, last, outcome>>

(* MUTANT: a page is read once more. *)
FetchPage_ReadsAgain(r) ==
  /\ phase[r] = "page" /\ ~Exhausted(r) /\ HasNext(page[r])
  /\ TakePage(r)
  /\ page' \in {page, [page EXCEPT ![r] = @ + 1]}
  /\ UNCHANGED <<clock, phase, window, last, outcome>>

(* A page that is not the last: its rows are yielded, then the next one.    *)
FetchPage(r) ==
  /\ phase[r] = "page" /\ ~Exhausted(r) /\ HasNext(page[r])
  /\ TakePage(r)
  /\ page' = [page EXCEPT ![r] = @ + 1]
  /\ UNCHANGED <<clock, phase, window, last, outcome>>

(* A page with a row before start_date, or without a link to the next one. *)
FetchLastPage(r) ==
  /\ phase[r] = "page" /\ (Exhausted(r) \/ ~HasNext(page[r]))
  /\ TakePage(r)
  /\ phase' = [phase EXCEPT ![r] = "idle"]
  /\ outcome' = [outcome EXCEPT ![r] = "rows"]
  /\ UNCHANGED <<clock, window, last, page>>

(* MUTANT: a page that fails ends the scrape with what it has. *)
PageFails_Truncates(r) ==
  /\ phase[r] = "page"
  /\ phase' = [phase EXCEPT ![r] = "idle"]
  /\ outcome' = [outcome EXCEPT ![r] = "rows"]
  /\ UNCHANGED <<clock, window, last, page, times, opened, seen>>

(* A page that fails fails the request: the rows before it are dropped     *)
(* with the generator.                                                     *)
PageFails(r) ==
  /\ phase[r] = "page"
  /\ phase' = [phase EXCEPT ![r] = "idle"]
  /\ outcome' = [outcome EXCEPT ![r] = "failed"]
  /\ UNCHANGED <<clock, window, last, page, times, opened, seen>>

Continue(r) ==
  \/ Known(r) \/ Unknown(r)
  \/ ProbeFooter(r) \/ ProbeSinglePage(r) \/ ProbeFails(r) \/ ProbeOldest(r)
  \/ FetchPage(r) \/ FetchLastPage(r) \/ PageFails(r)

Next ==
  \/ \E r \in Requests : \/ \E w \in Windows : Arrive(r, w)
                         \/ Continue(r)
  \/ Publish \/ Expire

Spec == Init /\ [][Next]_vars

(* Threads run and every fetch has a timeout. *)
FairSpec == Spec /\ \A r \in Requests : WF_vars(Continue(r))

-----------------------------------------------------------------------------
(* Properties. *)

(* The locals stay in their ranges, and a page that is about to be fetched *)
(* exists, although its number comes from an older fetch: a listing only   *)
(* grows (scraper.py:231, 531-534).                                        *)
TypeOK ==
  /\ newest \in Listed .. Horizon
  /\ nav \in Days \cup {None}
  /\ phase \in [Requests -> Phases]
  /\ start \in [Requests -> Int] /\ end \in [Requests -> Int]
  /\ last \in [Requests -> Nat] /\ page \in [Requests -> Nat \ {0}]
  /\ times \in [Requests -> [Days -> Nat]]
  /\ outcome \in [Requests -> {"rows", "failed", None}]
  /\ opened \in [Requests -> First .. newest]
  /\ seen \in [Requests -> First .. newest]
  /\ \A r \in Requests :
       /\ phase[r] = "page" => OnPage(page[r]) # {}
       /\ phase[r] = "oldest" => OnPage(last[r]) # {}

(* A history that is returned has every day of its window that the site    *)
(* listed when the scrape began, wherever days published meanwhile moved   *)
(* it to, and a page that fails never makes it shorter (scraper.py:478,    *)
(* 504-510).                                                               *)
NothingMissing ==
  \A r \in Requests :
    outcome[r] = "rows" =>
      \A d \in Days : InWindow(r, d) /\ d <= opened[r] => times[r][d] > 0

(* A day that is yielded again was moved to a later page by days published *)
(* during the scrape: once for each of them at most (scraper.py:499).      *)
RepeatsNeedGrowth ==
  \A r \in Requests, d \in Days : times[r][d] <= 1 + seen[r] - opened[r]

NavIsFound ==
  \E r \in Requests : /\ phase[r] = "oldest" /\ phase'[r] = "page"
                      /\ nav' \in First .. First + newest - seen[r]

(* The first NAV that is remembered for 30 days is late by no more days    *)
(* than were published between the two fetches of the probe, and never     *)
(* early, which would make the clamp useless (scraper.py:231, 243).        *)
NavLateByGrowth == [][nav' \in {nav, None} \/ NavIsFound]_vars

(* A scrape ends although the listing grows under it.                      *)
ScrapesEnd == \A r \in Requests : phase[r] # "idle" ~> phase[r] = "idle"

=============================================================================
