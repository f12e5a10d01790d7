------------------------- MODULE HistoryPages_proofs -------------------------
(***************************************************************************)
(* For any fund, page size and windows, and however the listing grows: no  *)
(* day of a returned history is missing, a day repeats at most once for    *)
(* each day published during the scrape, and a remembered first NAV is     *)
(* late by the days published during its probe at most.                    *)
(*                                                                         *)
(* The invariant looks at the line between the days a scrape has passed    *)
(* and those it has yet to come to, as the latest page put it: below that  *)
(* line a day has been yielded by growth alone.                            *)
(***************************************************************************)
EXTENDS HistoryPages, TLAPS

(* The newest day that the pages before page[q] did not reach, when the    *)
(* latest of them was fetched.                                             *)
Line(q) == seen[q] - (page[q] - 1) * PageSize

InRange(q) == opened[q] \in First .. newest /\ seen[q] \in First .. newest

(* Nothing has been scraped. *)
Fresh(q) ==
  /\ \A d \in Days : times[q][d] = 0
  /\ opened[q] = First /\ page[q] = 1

(* The footer's last page began and ended where the listing did.           *)
Footer(q) ==
  /\ last[q] > 1
  /\ (last[q] - 1) * PageSize < seen[q] - First + 1
  /\ seen[q] - First + 1 <= last[q] * PageSize

(* Some pages have been read. *)
UnderWay(q) ==
  /\ opened[q] <= seen[q]
  /\ First <= Line(q)
  /\ \A d \in Days : InWindow(q, d) /\ Line(q) < d /\ d <= opened[q] => times[q][d] > 0
  /\ \A d \in Days : d <= Line(q) => times[q][d] <= seen[q] - opened[q]

Complete(q) ==
  \A d \in Days : InWindow(q, d) /\ d <= opened[q] => times[q][d] > 0

Repeats(q) == \A d \in Days : times[q][d] <= 1 + seen[q] - opened[q]

RequestInv(q) ==
  /\ InRange(q)
  /\ Repeats(q)
  /\ outcome[q] = "rows" => Complete(q)
  /\ phase[q] # "idle" => outcome[q] = None
  /\ phase[q] \in {"lookup", "footer", "oldest"} => Fresh(q)
  /\ phase[q] = "oldest" => Footer(q)
  /\ phase[q] = "page" /\ page[q] = 1 => Fresh(q)
  /\ phase[q] = "page" /\ page[q] > 1 => UnderWay(q)

Shape ==
  /\ phase \in [Requests -> Phases]
  /\ start \in [Requests -> Int] /\ end \in [Requests -> Int]
  /\ last \in [Requests -> Nat] /\ page \in [Requests -> Nat \ {0}]
  /\ times \in [Requests -> [Days -> Nat]]
  /\ outcome \in [Requests -> {"rows", "failed", None}]
  /\ opened \in [Requests -> Int] /\ seen \in [Requests -> Int]

ClockInv == newest \in Listed .. Horizon /\ nav \in Days \cup {None}

IInv == ClockInv /\ Shape /\ \A q \in Requests : RequestInv(q)

-----------------------------------------------------------------------------
(* The listing. *)

(* A page number that the pages before it do not exhaust has rows.         *)
LEMMA PageHasRows ==
  ASSUME ClockInv, NEW p \in Nat \ {0}, (p - 1) * PageSize < newest - First + 1
  PROVE  newest - (p - 1) * PageSize \in OnPage(p)
<1>1. PageSize \in Nat \ {0} /\ newest \in Int /\ First \in Int
  BY HistoryAssumption DEF ClockInv
<1>2. (p - 1) * PageSize \in Nat /\ p * PageSize \in Nat
      /\ p * PageSize = (p - 1) * PageSize + PageSize
  BY <1>1, SMT
<1> QED BY <1>1, <1>2 DEF OnPage

(* The oldest day on a page with rows is the first of the fund, or the one *)
(* after those that the page leaves to later pages.                        *)
LEMMA OldestIs ==
  ASSUME ClockInv, NEW p \in Nat \ {0}, (p - 1) * PageSize < newest - First + 1
  PROVE  /\ OldestOnPage(p) \in OnPage(p)
         /\ OldestOnPage(p) = First \/ OldestOnPage(p) = newest - p * PageSize + 1
<1>1. PageSize \in Nat \ {0} /\ newest \in Int /\ First \in Int
  BY HistoryAssumption DEF ClockInv
<1>2. (p - 1) * PageSize \in Nat /\ p * PageSize \in Nat
      /\ p * PageSize = (p - 1) * PageSize + PageSize
  BY <1>1, SMT
<1> DEFINE low == IF newest - p * PageSize + 1 < First THEN First
                                                       ELSE newest - p * PageSize + 1
<1>3. low \in OnPage(p) /\ \A o \in OnPage(p) : low <= o
  BY <1>1, <1>2 DEF OnPage
<1>4. /\ OldestOnPage(p) \in OnPage(p)
      /\ \A o \in OnPage(p) : OldestOnPage(p) <= o
  <2> HIDE DEF low
  <2> QED BY <1>3 DEF OldestOnPage
<1>5. OnPage(p) \subseteq Int
  BY <1>1 DEF OnPage
<1>6. OldestOnPage(p) <= low /\ low <= OldestOnPage(p) /\ OldestOnPage(p) \in Int /\ low \in Int
  BY <1>3, <1>4, <1>5, <1>1, <1>2
<1>7. OldestOnPage(p) = low
  <2> HIDE DEF low
  <2> QED BY <1>6
<1> QED BY <1>4, <1>7

-----------------------------------------------------------------------------
(* Requests. *)

(* Nothing happens to request q. *)
Same(q) ==
  /\ phase'[q] = phase[q] /\ start'[q] = start[q] /\ end'[q] = end[q]
  /\ last'[q] = last[q] /\ page'[q] = page[q] /\ times'[q] = times[q]
  /\ outcome'[q] = outcome[q] /\ opened'[q] = opened[q] /\ seen'[q] = seen[q]

(* A listing that grows takes nothing from what a request has.             *)
LEMMA SameRequest ==
  ASSUME ClockInv, NEW q \in Requests, RequestInv(q), Same(q),
         newest' \in Int, newest <= newest'
  PROVE  RequestInv(q)'
<1>1. newest \in Int /\ First \in Int
  BY HistoryAssumption DEF ClockInv
<1>2. InRange(q)'
  BY <1>1 DEF RequestInv, InRange, Same
<1>3. Repeats(q)' /\ (outcome'[q] = "rows" => Complete(q)')
  BY DEF RequestInv, Repeats, Complete, InWindow, Same
<1>4. /\ phase'[q] # "idle" => outcome'[q] = None
      /\ phase'[q] \in {"lookup", "footer", "oldest"} => Fresh(q)'
      /\ phase'[q] = "oldest" => Footer(q)'
      /\ phase'[q] = "page" /\ page'[q] = 1 => Fresh(q)'
  BY DEF RequestInv, Fresh, Footer, Same
<1>5. phase'[q] = "page" /\ page'[q] > 1 => UnderWay(q)'
  BY DEF RequestInv, UnderWay, Line, InWindow, Same
<1> QED BY <1>2, <1>3, <1>4, <1>5 DEF RequestInv

(* A request whose scrape has not begun.                                   *)
LEMMA FreshRequest ==
  ASSUME NEW q \in Requests, First \in Int, InRange(q)', Fresh(q)', outcome'[q] = None,
         None \notin Int,
         phase'[q] \in {"lookup", "footer", "page"} \/ (phase'[q] = "oldest" /\ Footer(q)')
  PROVE  RequestInv(q)'
<1>1. Repeats(q)'
  BY DEF Repeats, Fresh, InRange
<1>2. page'[q] = 1
  BY DEF Fresh
<1>3. outcome'[q] # "rows" => RequestInv(q)'
  BY <1>1, <1>2 DEF RequestInv
<1> QED BY <1>3, HistoryAssumption

(* The site is as it is, and no request is in progress. *)
LEMMA InitIInv == Init => IInv
<1> SUFFICES ASSUME Init PROVE IInv
  OBVIOUS
<1>1. ClockInv /\ Shape
  BY HistoryAssumption DEF Init, ClockInv, Shape, Phases
<1>2. ASSUME NEW q \in Requests PROVE RequestInv(q)
  BY HistoryAssumption
     DEF Init, RequestInv, InRange, Repeats, Fresh
<1> QED BY <1>1, <1>2 DEF IInv

(* The site publishes a day, or the entry in Redis expires.                *)
LEMMA ClockStep ==
  ASSUME IInv, Publish \/ Expire
  PROVE  IInv'
<1>1. newest' \in Int /\ newest <= newest' /\ ClockInv'
  BY HistoryAssumption DEF IInv, ClockInv, Publish, Expire
<1>2. Shape'
  BY DEF IInv, Shape, Publish, Expire, window, scrape
<1>3. \A q \in Requests : Same(q)
  BY DEF Same, Publish, Expire, window, scrape
<1> QED BY <1>1, <1>2, <1>3, SameRequest DEF IInv

(* A request comes in.                                                     *)
LEMMA ArriveStep ==
  ASSUME IInv, NEW r \in Requests, NEW w \in Windows, Arrive(r, w)
  PROVE  IInv'
<1> First \in Int /\ None \notin Int /\ w[1] \in Int /\ w[2] \in Int
    /\ newest \in Int /\ First <= newest
  BY HistoryAssumption DEF IInv, ClockInv
<1>1. ClockInv' /\ newest' \in Int /\ newest <= newest'
  BY DEF IInv, ClockInv, Arrive, clock
<1>2. Shape'
  BY DEF IInv, Shape, Arrive, Phases
<1>3. \A q \in Requests \ {r} : Same(q)
  BY DEF IInv, Shape, Same, Arrive
<1>4. Fresh(r)' /\ InRange(r)' /\ outcome'[r] = None /\ phase'[r] = "lookup"
  BY DEF IInv, Shape, Arrive, Fresh, InRange, clock
<1>5. RequestInv(r)'
  BY <1>4, FreshRequest
<1> QED BY <1>1, <1>2, <1>3, <1>5, SameRequest DEF IInv

(* The scrape begins, the start clamped or not.                            *)
LEMMA ScrapeStep ==
  ASSUME IInv, NEW r \in Requests, NEW first \in Days \cup {None}, Scrape(r, first),
         phase[r] \in {"lookup", "footer", "oldest"}, nav' \in Days \cup {None}
  PROVE  IInv'
<1> First \in Int /\ None \notin Int /\ Days \subseteq Int
    /\ newest \in Int /\ First <= newest
  BY HistoryAssumption DEF IInv, ClockInv, Days
<1>1. ClockInv' /\ newest' \in Int /\ newest <= newest'
  BY DEF IInv, ClockInv, Scrape
<1>2. Shape'
  BY DEF IInv, Shape, Scrape, Phases, scrape
<1>3. \A q \in Requests \ {r} : Same(q)
  BY DEF IInv, Shape, Same, Scrape, scrape
<1>4. Fresh(r)' /\ InRange(r)' /\ outcome'[r] = None /\ phase'[r] = "page"
  BY DEF IInv, Shape, RequestInv, Scrape, Fresh, InRange, scrape
<1>5. RequestInv(r)'
  BY <1>4, FreshRequest
<1> QED BY <1>1, <1>2, <1>3, <1>5, SameRequest DEF IInv

(* The first NAV is not known: the footer is asked for.                    *)
LEMMA ProbeStep ==
  ASSUME IInv, NEW r \in Requests, Unknown(r) \/ ProbeFooter(r)
  PROVE  IInv'
<1> First \in Int /\ None \notin Int /\ newest \in Int /\ First <= newest
    /\ PageSize \in Nat \ {0}
  BY HistoryAssumption DEF IInv, ClockInv
<1>1. ClockInv' /\ newest' \in Int /\ newest <= newest'
  BY DEF IInv, ClockInv, Unknown, ProbeFooter, clock
<1>2. Shape'
  <2>1. CASE Unknown(r)
    BY <2>1 DEF IInv, Shape, Unknown, Phases, scrape, window
  <2>2. CASE ProbeFooter(r)
    BY <2>2 DEF IInv, Shape, ProbeFooter, Phases, window
  <2> QED BY <2>1, <2>2
<1>3. \A q \in Requests \ {r} : Same(q)
  BY DEF IInv, Shape, Same, Unknown, ProbeFooter, scrape, window
<1>4. Fresh(r)' /\ InRange(r)' /\ outcome'[r] = None
  BY DEF IInv, Shape, RequestInv, Unknown, ProbeFooter, Fresh, InRange, scrape, clock
<1>5. CASE Unknown(r)
  <2>1. phase'[r] = "footer"
    BY <1>5 DEF Unknown, IInv, Shape
  <2>2. RequestInv(r)'
    BY <1>4, <2>1, FreshRequest
  <2> QED BY <1>1, <1>2, <1>3, <2>2, SameRequest DEF IInv
<1>6. CASE ProbeFooter(r)
  <2>1. phase'[r] = "oldest"
    BY <1>6 DEF ProbeFooter, IInv, Shape
  <2>2. PICK l \in 2 .. Rows : FooterEndsIn(l) /\ last' = [last EXCEPT ![r] = l]
    BY <1>6 DEF ProbeFooter
  <2>3. Footer(r)'
    <3>1. last'[r] = l /\ seen'[r] = newest /\ l \in Nat
      BY <1>6, <2>2 DEF ProbeFooter, IInv, Shape
    <3>2. l > 1 /\ Rows > (l - 1) * PageSize /\ ~(Rows > l * PageSize)
      BY <2>2 DEF FooterEndsIn, HasNext
    <3>3. (l - 1) * PageSize \in Int /\ l * PageSize \in Int
      BY <3>1
    <3>4. Rows = newest - First + 1
      BY DEF Rows
    <3> HIDE DEF Rows
    <3> QED BY <3>1, <3>2, <3>3, <3>4 DEF Footer
  <2>4. RequestInv(r)'
    BY <1>4, <2>1, <2>3, FreshRequest
  <2> QED BY <1>1, <1>2, <1>3, <2>4, SameRequest DEF IInv
<1> QED BY <1>5, <1>6

-----------------------------------------------------------------------------
(* The pages. *)

(* What a page adds: the days of the window it reaches are there, and a    *)
(* day that it does not reach has been yielded by growth alone.            *)
LEMMA PageTaken ==
  ASSUME IInv, NEW r \in Requests, phase[r] = "page", TakePage(r),
         newest' = newest, UNCHANGED window,
         NEW reached \in Int, reached = page[r] * PageSize
  PROVE  /\ InRange(r)' /\ opened'[r] <= seen'[r] /\ seen'[r] = newest
         /\ Repeats(r)'
         /\ \A d \in Days : InWindow(r, d)' /\ newest - reached < d /\ d <= opened'[r]
                              => times'[r][d] > 0
         /\ \A d \in Days : d <= newest - reached => times'[r][d] <= newest - opened'[r]
<1>1. /\ newest \in Int /\ First \in Int /\ First <= newest /\ Days \subseteq Int
      /\ PageSize \in Nat \ {0} /\ page[r] \in Nat \ {0}
      /\ opened[r] \in First .. newest /\ seen[r] \in First .. newest
  BY HistoryAssumption DEF IInv, ClockInv, Shape, RequestInv, InRange, Days
<1>2. PICK skipped \in Int : skipped = (page[r] - 1) * PageSize
  BY <1>1
<1>3. skipped >= 0 /\ reached = skipped + PageSize
  BY <1>1, <1>2
<1>4. /\ seen'[r] = newest
      /\ opened'[r] = IF page[r] = 1 THEN newest ELSE opened[r]
      /\ window' = window
  BY DEF IInv, Shape, TakePage
<1>5. InRange(r)' /\ opened'[r] <= seen'[r]
  BY <1>1, <1>4 DEF InRange
<1>6. \A d \in Days : /\ times[r][d] \in Nat
                      /\ times'[r][d] = IF d \in OnPage(page[r]) /\ InWindow(r, d)
                                        THEN times[r][d] + 1 ELSE times[r][d]
  BY DEF IInv, Shape, TakePage
<1>7. \A d \in Days : d \in OnPage(page[r]) <=> newest - reached < d /\ d <= newest - skipped
  BY <1>1, <1>2, <1>3 DEF OnPage, Days
<1>8. \A d \in Days : InWindow(r, d)' <=> InWindow(r, d)
  BY <1>4 DEF InWindow, window
<1>9. CASE page[r] = 1
  <2>1. skipped = 0 /\ opened'[r] = newest
    BY <1>1, <1>2, <1>4, <1>9
  <2>2. \A d \in Days : times[r][d] = 0
    BY <1>9 DEF IInv, RequestInv, Fresh
  <2>3. Repeats(r)'
    BY <1>1, <1>4, <1>6, <2>1, <2>2 DEF Repeats
  <2>4. ASSUME NEW d \in Days, InWindow(r, d)', newest - reached < d, d <= opened'[r]
        PROVE  times'[r][d] > 0
    BY <1>1, <1>6, <1>7, <1>8, <2>1, <2>2, <2>4
  <2>5. ASSUME NEW d \in Days, d <= newest - reached
        PROVE  times'[r][d] <= newest - opened'[r]
    BY <1>1, <1>6, <1>7, <2>1, <2>2, <2>5
  <2> QED BY <1>4, <1>5, <2>3, <2>4, <2>5
<1>10. CASE page[r] > 1
  <2>1. /\ opened[r] <= seen[r]
        /\ \A d \in Days : InWindow(r, d) /\ seen[r] - skipped < d /\ d <= opened[r]
                             => times[r][d] > 0
        /\ \A d \in Days : d <= seen[r] - skipped => times[r][d] <= seen[r] - opened[r]
    BY <1>2, <1>10 DEF IInv, RequestInv, UnderWay, Line
  <2>2. \A d \in Days : times[r][d] <= 1 + seen[r] - opened[r]
    BY DEF IInv, RequestInv, Repeats
  <2>3. opened'[r] = opened[r]
    BY <1>1, <1>4, <1>10
  <2>4. Repeats(r)'
    <3>1. ASSUME NEW d \in Days PROVE times'[r][d] <= 1 + newest - opened[r]
      BY <1>1, <1>3, <1>6, <1>7, <2>1, <2>2
    <3> QED BY <3>1, <1>4, <2>3 DEF Repeats
  <2>5. ASSUME NEW d \in Days, InWindow(r, d)', newest - reached < d, d <= opened'[r]
        PROVE  times'[r][d] > 0
    BY <1>1, <1>3, <1>6, <1>7, <1>8, <2>1, <2>3, <2>5
  <2>6. ASSUME NEW d \in Days, d <= newest - reached
        PROVE  times'[r][d] <= newest - opened'[r]
    BY <1>1, <1>3, <1>6, <1>7, <2>1, <2>2, <2>3, <2>6
  <2> QED BY <1>4, <1>5, <2>4, <2>5, <2>6
<1> QED BY <1>1, <1>9, <1>10

(* A page that another one follows.                                        *)
LEMMA FetchPageStep ==
  ASSUME IInv, NEW r \in Requests, FetchPage(r)
  PROVE  IInv'
<1>1. /\ newest \in Int /\ First \in Int /\ PageSize \in Nat \ {0} /\ None \notin Int
      /\ page[r] \in Nat \ {0} /\ First <= newest
  BY HistoryAssumption DEF IInv, ClockInv, Shape
<1>2. ClockInv' /\ newest' = newest /\ newest' \in Int /\ newest <= newest'
  BY <1>1 DEF IInv, ClockInv, FetchPage, clock
<1>3. Shape'
  <2>1. times' \in [Requests -> [Days -> Nat]]
    BY DEF IInv, Shape, FetchPage, TakePage
  <2>2. /\ page' \in [Requests -> Nat \ {0}]
        /\ opened' \in [Requests -> Int] /\ seen' \in [Requests -> Int]
    BY <1>1 DEF IInv, Shape, FetchPage, TakePage
  <2> QED BY <2>1, <2>2 DEF IInv, Shape, FetchPage, window
<1>4. \A q \in Requests \ {r} : Same(q)
  BY DEF IInv, Shape, Same, FetchPage, TakePage, window
<1>5. /\ phase'[r] = "page" /\ page'[r] = page[r] + 1 /\ outcome'[r] = None
      /\ UNCHANGED window
  BY DEF IInv, Shape, RequestInv, FetchPage
<1>6. PICK reached \in Int : reached = page[r] * PageSize
  BY <1>1
<1>7. (page'[r] - 1) * PageSize = reached
  BY <1>1, <1>5, <1>6
<1>8. First <= newest - reached
  BY <1>1, <1>6 DEF FetchPage, HasNext, Rows
<1>9. /\ InRange(r)' /\ opened'[r] <= seen'[r] /\ seen'[r] = newest
      /\ Repeats(r)'
      /\ \A d \in Days : InWindow(r, d)' /\ newest - reached < d /\ d <= opened'[r]
                           => times'[r][d] > 0
      /\ \A d \in Days : d <= newest - reached => times'[r][d] <= newest - opened'[r]
  BY <1>2, <1>5, <1>6, PageTaken DEF FetchPage
<1>10. UnderWay(r)'
  BY <1>7, <1>8, <1>9 DEF UnderWay, Line
<1>11. RequestInv(r)'
  BY <1>1, <1>5, <1>9, <1>10, HistoryAssumption DEF RequestInv
<1> QED BY <1>2, <1>3, <1>4, <1>11, SameRequest DEF IInv

(* The page that ends the scrape.                                          *)
LEMMA FetchLastPageStep ==
  ASSUME IInv, NEW r \in Requests, FetchLastPage(r)
  PROVE  IInv'
<1>1. /\ newest \in Int /\ First \in Int /\ PageSize \in Nat \ {0} /\ None \notin Int
      /\ page[r] \in Nat \ {0} /\ First <= newest /\ start[r] \in Int /\ Days \subseteq Int
  BY HistoryAssumption DEF IInv, ClockInv, Shape, Days
<1>2. ClockInv' /\ newest' = newest /\ newest' \in Int /\ newest <= newest'
  BY <1>1 DEF IInv, ClockInv, FetchLastPage, clock
<1>3. Shape'
  <2>1. times' \in [Requests -> [Days -> Nat]]
    BY DEF IInv, Shape, FetchLastPage, TakePage
  <2>2. /\ phase' \in [Requests -> Phases]
        /\ outcome' \in [Requests -> {"rows", "failed", None}]
        /\ opened' \in [Requests -> Int] /\ seen' \in [Requests -> Int]
    BY <1>1 DEF IInv, Shape, FetchLastPage, TakePage, Phases
  <2> QED BY <2>1, <2>2 DEF IInv, Shape, FetchLastPage, window
<1>4. \A q \in Requests \ {r} : Same(q)
  BY DEF IInv, Shape, Same, FetchLastPage, TakePage, window
<1>5. phase[r] = "page" /\ phase'[r] = "idle" /\ UNCHANGED window
  BY DEF IInv, Shape, FetchLastPage
<1>6. PICK reached \in Int : reached = page[r] * PageSize
  BY <1>1
<1>7. /\ InRange(r)' /\ Repeats(r)'
      /\ \A d \in Days : InWindow(r, d)' /\ newest - reached < d /\ d <= opened'[r]
                           => times'[r][d] > 0
  BY <1>2, <1>5, <1>6, PageTaken DEF FetchLastPage
<1>8. ASSUME NEW d \in Days, InWindow(r, d)'
      PROVE  newest - reached < d
  <2>1. start[r] <= d /\ d \in Int /\ First <= d
    BY <1>1, <1>5, <1>8 DEF InWindow, window, Days
  <2>2. CASE Exhausted(r)
    <3>1. PICK e \in OnPage(page[r]) : e < start[r]
      BY <2>2 DEF Exhausted
    <3>2. e \in Int /\ newest - reached < e
      BY <1>1, <1>6, <3>1 DEF OnPage
    <3> QED BY <1>1, <2>1, <3>1, <3>2
  <2>3. CASE ~HasNext(page[r])
    BY <1>1, <1>6, <2>1, <2>3 DEF HasNext, Rows
  <2> QED BY <2>2, <2>3 DEF FetchLastPage
<1>9. Complete(r)'
  BY <1>7, <1>8 DEF Complete
<1>10. RequestInv(r)'
  BY <1>5, <1>7, <1>9 DEF RequestInv
<1> QED BY <1>2, <1>3, <1>4, <1>10, SameRequest DEF IInv

(* A page that fails.                                                      *)
LEMMA PageFailsStep ==
  ASSUME IInv, NEW r \in Requests, PageFails(r)
  PROVE  IInv'
<1> newest \in Int
  BY HistoryAssumption DEF IInv, ClockInv
<1>1. ClockInv' /\ newest' \in Int /\ newest <= newest'
  BY DEF IInv, ClockInv, PageFails, clock
<1>2. Shape'
  BY DEF IInv, Shape, PageFails, Phases, window
<1>3. \A q \in Requests \ {r} : Same(q)
  BY DEF IInv, Shape, Same, PageFails, window
<1>4. InRange(r)' /\ Repeats(r)' /\ phase'[r] = "idle" /\ outcome'[r] = "failed"
  BY DEF IInv, Shape, RequestInv, InRange, Repeats, PageFails, clock
<1>5. RequestInv(r)'
  BY <1>4 DEF RequestInv
<1> QED BY <1>1, <1>2, <1>3, <1>5, SameRequest DEF IInv

(* What the probe takes for the first NAV.                                 *)
LEMMA OldestIsListed ==
  ASSUME IInv, NEW r \in Requests, phase[r] = "oldest"
  PROVE  OldestOnPage(last[r]) \in First .. First + newest - seen[r]
<1>1. /\ newest \in Int /\ First \in Int /\ PageSize \in Nat \ {0}
      /\ last[r] \in Nat \ {0} /\ seen[r] \in First .. newest
  BY HistoryAssumption DEF IInv, ClockInv, Shape, RequestInv, InRange, Footer
<1>2. /\ (last[r] - 1) * PageSize < seen[r] - First + 1
      /\ seen[r] - First + 1 <= last[r] * PageSize
  BY DEF IInv, RequestInv, Footer
<1>3. PICK reached \in Int : reached = last[r] * PageSize
  BY <1>1
<1>4. (last[r] - 1) * PageSize < newest - First + 1
  BY <1>1, <1>2
<1>5. /\ OldestOnPage(last[r]) \in OnPage(last[r])
      /\ OldestOnPage(last[r]) = First \/ OldestOnPage(last[r]) = newest - reached + 1
  BY <1>1, <1>3, <1>4, OldestIs DEF IInv
<1>6. OldestOnPage(last[r]) \in First .. newest
  BY <1>5 DEF OnPage
<1> QED BY <1>1, <1>2, <1>3, <1>5, <1>6

-----------------------------------------------------------------------------
(* The invariant, and what follows from it. *)

(* Every step keeps the invariant. *)
LEMMA NextIInv == IInv /\ [Next]_vars => IInv'
<1> SUFFICES ASSUME IInv, [Next]_vars PROVE IInv'
  OBVIOUS
<1> newest \in Int /\ newest <= newest
  BY HistoryAssumption DEF IInv, ClockInv
<1>1. ASSUME NEW r \in Requests, NEW w \in Windows, Arrive(r, w)
      PROVE  IInv'
  BY <1>1, ArriveStep
<1>2. ASSUME NEW r \in Requests, Continue(r)
      PROVE  IInv'
  <2>1. CASE Known(r)
    BY <2>1, ScrapeStep DEF Known, IInv, ClockInv
  <2>2. CASE Unknown(r) \/ ProbeFooter(r)
    BY <2>2, ProbeStep
  <2>3. CASE ProbeSinglePage(r) \/ ProbeFails(r)
    BY <2>3, ScrapeStep DEF ProbeSinglePage, ProbeFails, IInv, ClockInv
  <2>4. CASE ProbeOldest(r)
    <3>1. phase[r] = "oldest" /\ Scrape(r, OldestOnPage(last[r]))
          /\ nav' \in {nav, OldestOnPage(last[r])}
      BY <2>4 DEF ProbeOldest
    <3>2. OldestOnPage(last[r]) \in Days
      BY <3>1, OldestIsListed, HistoryAssumption
         DEF Days, IInv, ClockInv, RequestInv, InRange
    <3>3. nav' \in Days \cup {None}
      BY <3>1, <3>2 DEF IInv, ClockInv
    <3> QED BY <3>1, <3>2, <3>3, ScrapeStep
  <2>5. CASE FetchPage(r)
    BY <2>5, FetchPageStep
  <2>6. CASE FetchLastPage(r)
    BY <2>6, FetchLastPageStep
  <2>7. CASE PageFails(r)
    BY <2>7, PageFailsStep
  <2> QED BY <1>2, <2>1, <2>2, <2>3, <2>4, <2>5, <2>6, <2>7 DEF Continue
<1>3. CASE Publish \/ Expire
  BY <1>3, ClockStep
<1>4. CASE UNCHANGED vars
  <2>1. ClockInv' /\ newest' = newest
    BY <1>4 DEF IInv, ClockInv, vars, clock
  <2>2. Shape'
    BY <1>4 DEF IInv, Shape, vars, window, scrape
  <2>3. \A q \in Requests : Same(q)
    BY <1>4 DEF Same, vars, window, scrape
  <2> QED BY <2>1, <2>2, <2>3, SameRequest DEF IInv
<1> QED BY <1>1, <1>2, <1>3, <1>4 DEF Next

(* The invariant holds throughout. *)
LEMMA Invariance == Spec => []IInv
BY InitIInv, NextIInv, PTL DEF Spec

(* The pages that are asked for exist, although their numbers come from    *)
(* older fetches (scraper.py:231, 531-534).                                *)
THEOREM TypeCorrect == Spec => []TypeOK
<1>1. ASSUME IInv, NEW q \in Requests, phase[q] = "page"
      PROVE  OnPage(page[q]) # {}
  <2>1. newest \in Int /\ First \in Int /\ PageSize \in Nat \ {0} /\ First <= newest
        /\ page[q] \in Nat \ {0} /\ seen[q] \in First .. newest
    BY <1>1, HistoryAssumption DEF IInv, ClockInv, Shape, RequestInv, InRange
  <2>2. PICK skipped \in Int : skipped = (page[q] - 1) * PageSize
    BY <2>1
  <2>3. CASE page[q] = 1
    <3>1. skipped = 0
      BY <2>1, <2>2, <2>3
    <3>2. skipped < newest - First + 1
      BY <2>1, <3>1
    <3> QED BY <1>1, <2>1, <2>2, <3>2, PageHasRows DEF IInv
  <2>4. CASE page[q] > 1
    <3>1. First <= seen[q] - skipped
      BY <1>1, <2>2, <2>4 DEF IInv, RequestInv, UnderWay, Line
    <3>2. skipped < newest - First + 1
      BY <2>1, <2>2, <3>1
    <3> QED BY <1>1, <2>1, <2>2, <3>2, PageHasRows DEF IInv
  <2> QED BY <2>1, <2>3, <2>4
<1>2. ASSUME IInv, NEW q \in Requests, phase[q] = "oldest"
      PROVE  OnPage(last[q]) # {}
  <2>1. newest \in Int /\ First \in Int /\ PageSize \in Nat \ {0}
        /\ last[q] \in Nat \ {0} /\ seen[q] \in First .. newest
        /\ (last[q] - 1) * PageSize < seen[q] - First + 1
    BY <1>2, HistoryAssumption DEF IInv, ClockInv, Shape, RequestInv, InRange, Footer
  <2>2. PICK skipped \in Int : skipped = (last[q] - 1) * PageSize
    BY <2>1
  <2>3. skipped < newest - First + 1
    BY <2>1, <2>2
  <2> QED BY <1>2, <2>1, <2>2, <2>3, PageHasRows DEF IInv
<1>3. IInv => /\ opened \in [Requests -> First .. newest]
              /\ seen \in [Requests -> First .. newest]
  BY DEF IInv, Shape, RequestInv, InRange
<1>4. IInv => TypeOK
  BY <1>1, <1>2, <1>3 DEF IInv, ClockInv, Shape, TypeOK
<1> QED BY <1>4, Invariance, PTL

(* No day of its window is missing from a history that is returned,        *)
(* wherever days published meanwhile moved it to (scraper.py:478).         *)
THEOREM HistoriesAreComplete == Spec => []NothingMissing
<1>1. IInv => NothingMissing
  BY DEF IInv, RequestInv, Complete, NothingMissing
<1> QED BY <1>1, Invariance, PTL

(* A day repeats once for each day published during the scrape at most     *)
(* (scraper.py:499).                                                       *)
THEOREM RepeatsAreGrowth == Spec => []RepeatsNeedGrowth
<1>1. IInv => RepeatsNeedGrowth
  BY DEF IInv, RequestInv, Repeats, RepeatsNeedGrowth
<1> QED BY <1>1, Invariance, PTL

(* A first NAV that is remembered is never early, and late by the days     *)
(* published during its probe at most (scraper.py:231, 243).               *)
THEOREM FirstNavIsClose == Spec => NavLateByGrowth
<1>1. IInv /\ [Next]_vars => [nav' \in {nav, None} \/ NavIsFound]_vars
  <2> SUFFICES ASSUME IInv, [Next]_vars, nav' # nav, nav' # None
               PROVE  NavIsFound
    OBVIOUS
  <2>1. PICK r \in Requests : ProbeOldest(r)
    BY DEF Next, vars, clock, Arrive, Continue, Known, Unknown, ProbeFooter,
           ProbeSinglePage, ProbeFails, FetchPage, FetchLastPage, PageFails,
           Publish, Expire
  <2>2. phase[r] = "oldest" /\ nav' = OldestOnPage(last[r])
    BY <2>1 DEF ProbeOldest
  <2>3. phase'[r] = "page"
    BY <2>1 DEF ProbeOldest, Scrape, IInv, Shape
  <2> QED BY <2>2, <2>3, OldestIsListed DEF NavIsFound
<1> QED BY <1>1, Invariance, PTL DEF Spec, NavLateByGrowth

=============================================================================
