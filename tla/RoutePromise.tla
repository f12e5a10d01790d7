---------------------------- MODULE RoutePromise ----------------------------
(***************************************************************************)
(* What a data route of openst promises to a caller, whatever happens      *)
(* between the request and the reply: the reply is either the outcome of   *)
(* the walk this very request ran, or an outcome that some walk for the    *)
(* same key remembered.  Only real outcomes are remembered; an exception   *)
(* or an unavailable snapshot never is.                                    *)
(*                                                                         *)
(* There is no Redis, no time, no gate and no thread here: a memo loses    *)
(* entries whenever it likes.  Gateway is the implementation.              *)
(***************************************************************************)
CONSTANTS Workers, Keys, Nothing

VARIABLES memo,    \* what is remembered for each key
          asked,   \* the key a worker is serving, or Nothing
          own,     \* the outcome of the worker's own walk, or Nothing
          answer   \* the last reply the worker gave

promiseVars == <<memo, asked, own, answer>>

Outcomes == {"data", "empty", "none", "unknown", "unavailable", "raised"}

(* The HTTP reply an outcome stands for. *)
Reply == [data        |-> "ok",
          empty       |-> "ok_empty",
          none        |-> "not_found",
          unknown     |-> "not_found",
          unavailable |-> "unavailable",
          raised      |-> "server_error",
          negative    |-> "not_found"]

(* What may be remembered of an outcome.  The two catalogue routes serve   *)
(* their entry as it is and know no negative entry.                        *)
RawRoutes == {"corp_catalogue", "fund_catalogue"}

Remembered(ns, o) ==
  CASE o \in {"data", "empty"}                           -> {o}
    [] o \in {"none", "unknown"} /\ ns \notin RawRoutes  -> {"negative"}
    [] OTHER                                             -> {}

Init ==
  /\ memo = [k \in Keys |-> Nothing]
  /\ asked = [w \in Workers |-> Nothing]
  /\ own = [w \in Workers |-> Nothing]
  /\ answer = [w \in Workers |-> Nothing]

Ask(w, k) ==
  /\ asked[w] = Nothing
  /\ asked' = [asked EXCEPT ![w] = k]
  /\ answer' = [answer EXCEPT ![w] = Nothing]
  /\ UNCHANGED <<memo, own>>

(* A fund's price request may be narrowed to the fund's own lifetime. *)
Narrow(w, k) ==
  /\ asked[w] # Nothing /\ own[w] = Nothing
  /\ k.ns = asked[w].ns /\ k.sym = asked[w].sym
  /\ asked' = [asked EXCEPT ![w] = k]
  /\ UNCHANGED <<memo, own, answer>>

(* A malformed request is turned away before anything is looked up. *)
TurnAway(w) ==
  /\ asked[w] = Nothing
  /\ answer' = [answer EXCEPT ![w] = "not_found"]
  /\ UNCHANGED <<memo, asked, own>>

Recall(w) ==
  /\ asked[w] # Nothing /\ own[w] = Nothing
  /\ memo[asked[w]] # Nothing
  /\ answer' = [answer EXCEPT ![w] = Reply[memo[asked[w]]]]
  /\ asked' = [asked EXCEPT ![w] = Nothing]
  /\ UNCHANGED <<memo, own>>

Walk(w) ==
  /\ asked[w] # Nothing /\ own[w] = Nothing
  /\ \E o \in Outcomes : own' = [own EXCEPT ![w] = o]
  /\ UNCHANGED <<memo, asked, answer>>

(* Reply with the own outcome, and remember it or not. *)
Finish(w) ==
  /\ own[w] # Nothing
  /\ answer' = [answer EXCEPT ![w] = Reply[own[w]]]
  /\ own' = [own EXCEPT ![w] = Nothing]
  /\ asked' = [asked EXCEPT ![w] = Nothing]
  /\ \/ UNCHANGED memo
     \/ \E v \in Remembered(asked[w].ns, own[w]) :
          memo' = [memo EXCEPT ![asked[w]] = v]

Forget ==
  /\ \E gone \in SUBSET Keys :
       memo' = [k \in Keys |-> IF k \in gone THEN Nothing ELSE memo[k]]
  /\ UNCHANGED <<asked, own, answer>>

Next ==
  \/ \E w \in Workers :
       \/ \E k \in Keys : Ask(w, k) \/ Narrow(w, k)
       \/ TurnAway(w) \/ Recall(w) \/ Walk(w) \/ Finish(w)
  \/ Forget

Spec == Init /\ [][Next]_promiseVars

=============================================================================
