----------------------------- MODULE BoundedMemo -----------------------------
(***************************************************************************)
(* The two bounded in-process memos of src/src/openbb_client.py,           *)
(* _pays_dividend and _symbol_currency_cache: dicts in insertion order     *)
(* that request threads fill and prune without a lock.                     *)
(*                                                                         *)
(* CPython lets another thread run between two calls, so a step is what a  *)
(* thread does up to its next call: len(memo), list(memo), len(memo)       *)
(* again, and one pop per stale ticker.  Values are left out (ProviderWalk *)
(* has those of _pays_dividend): the memo is the sequence of its keys.     *)
(***************************************************************************)
EXTENDS Integers, FiniteSets, SequencesExt

CONSTANTS Threads, Tickers,
          MaxEntries,   \* PAYS_DIVIDEND_MAX, SYMBOL_CURRENCY_MAX
          NoTicker

ASSUME BoundedMemoAssumption ==
  /\ IsFiniteSet(Threads) /\ Threads # {}
  /\ MaxEntries \in Nat \ {0}
  /\ NoTicker \notin Tickers

VARIABLES
  memo,    \* the keys of the dict, oldest first
  stage,   \* where in _remember_... a thread is
  ticker,  \* its argument
  full,    \* what its first comparison with the maximum gave
  stale,   \* the keys it listed, then those it has yet to pop
  alone    \* ghost: no other call overlapped this one so far

vars == <<memo, stage, ticker, full, stale, alone>>

Init ==
  /\ memo = <<>>
  /\ stage = [t \in Threads |-> "out"]
  /\ ticker = [t \in Threads |-> NoTicker]
  /\ full = [t \in Threads |-> FALSE]
  /\ stale = [t \in Threads |-> <<>>]
  /\ alone = [t \in Threads |-> TRUE]

-----------------------------------------------------------------------------
Known(x) == x \in ToSet(memo)

(* MUTANT: a list instead of a dict. *)
Assign_Appends(x) == memo' = Append(memo, x)

(* memo[x] = ...: an existing key keeps its place. *)
Assign(x) == memo' = IF Known(x) THEN memo ELSE Append(memo, x)

(* pop(x, None): the others keep their order. *)
Drop(x) ==
  memo' = IF Known(x) THEN RemoveAt(memo, CHOOSE i \in DOMAIN memo : memo[i] = x)
          ELSE memo

(* s[:n]: a negative n counts from the end. *)
Upto(s, n) ==
  IF n < 0 THEN SubSeq(s, 1, Len(s) + n)
  ELSE SubSeq(s, 1, IF n < Len(s) THEN n ELSE Len(s))

Return(t) ==
  /\ stage' = [stage EXCEPT ![t] = "out"]
  /\ ticker' = [ticker EXCEPT ![t] = NoTicker]
  /\ full' = [full EXCEPT ![t] = FALSE]
  /\ stale' = [stale EXCEPT ![t] = <<>>]
  /\ alone' = [alone EXCEPT ![t] = TRUE]

(* A provider has answered for x; len(memo) >= maximum is evaluated. *)
Call(t, x) ==
  /\ stage[t] = "out"
  /\ stage' = [stage EXCEPT ![t] = "tested"]
  /\ ticker' = [ticker EXCEPT ![t] = x]
  /\ full' = [full EXCEPT ![t] = Len(memo) >= MaxEntries]
  /\ alone' = [u \in Threads |->
                 IF u = t THEN \A v \in Threads : stage[v] = "out"
                 ELSE stage[u] = "out"]
  /\ UNCHANGED <<memo, stale>>

(* There is room, or the ticker is known: only the assignment. *)
Keep(t) ==
  /\ stage[t] = "tested"
  /\ full[t] => Known(ticker[t])
  /\ Assign(ticker[t])
  /\ Return(t)

(* list(memo) *)
ListKeys(t) ==
  /\ stage[t] = "tested"
  /\ full[t] /\ ~Known(ticker[t])
  /\ stale' = [stale EXCEPT ![t] = memo]
  /\ stage' = [stage EXCEPT ![t] = "listed"]
  /\ UNCHANGED <<memo, ticker, full, alone>>

(* MUTANT: the slice leaves no room for the new entry. *)
Slice_OffByOne(t) ==
  /\ stage[t] = "listed"
  /\ stale' = [stale EXCEPT ![t] = Upto(@, Len(memo) - MaxEntries)]
  /\ stage' = [stage EXCEPT ![t] = "pruning"]
  /\ UNCHANGED <<memo, ticker, full, alone>>

(* MUTANT: one entry is dropped, however many there are too many. *)
Slice_One(t) ==
  /\ stage[t] = "listed"
  /\ stale' = [stale EXCEPT ![t] = Upto(@, 1)]
  /\ stage' = [stage EXCEPT ![t] = "pruning"]
  /\ UNCHANGED <<memo, ticker, full, alone>>

(* MUTANT: the slice is taken from the wrong end. *)
Slice_Newest(t) ==
  /\ stage[t] = "listed"
  /\ stale' = [stale EXCEPT ![t] =
                 Upto(Reverse(@), Len(memo) - MaxEntries + 1)]
  /\ stage' = [stage EXCEPT ![t] = "pruning"]
  /\ UNCHANGED <<memo, ticker, full, alone>>

(* [: len(memo) - maximum + 1], with the length the memo has by now. *)
Slice(t) ==
  /\ stage[t] = "listed"
  /\ stale' = [stale EXCEPT ![t] = Upto(@, Len(memo) - MaxEntries + 1)]
  /\ stage' = [stage EXCEPT ![t] = "pruning"]
  /\ UNCHANGED <<memo, ticker, full, alone>>

(* The first of the stale keys is popped. *)
Pop(t) ==
  /\ stage[t] = "pruning" /\ stale[t] # <<>>
  /\ Drop(Head(stale[t]))
  /\ stale' = [stale EXCEPT ![t] = Tail(@)]
  /\ UNCHANGED <<stage, ticker, full, alone>>

Store(t) ==
  /\ stage[t] = "pruning" /\ stale[t] = <<>>
  /\ Assign(ticker[t])
  /\ Return(t)

Next == \E t \in Threads : \/ \E x \in Tickers : Call(t, x)
                           \/ Keep(t) \/ ListKeys(t) \/ Slice(t)
                           \/ Pop(t) \/ Store(t)

Spec == Init /\ [][Next]_vars

-----------------------------------------------------------------------------
(* Properties. *)

(* A dict has no key twice; a thread's locals stay in their ranges. *)
TypeOK ==
  /\ IsInjective(memo) /\ ToSet(memo) \subseteq Tickers
  /\ stage \in [Threads -> {"out", "tested", "listed", "pruning"}]
  /\ ticker \in [Threads -> Tickers \cup {NoTicker}]
  /\ full \in [Threads -> BOOLEAN]
  /\ \A t \in Threads : ToSet(stale[t]) \subseteq Tickers
  /\ alone \in [Threads -> BOOLEAN]

(* Without a lock the memo may exceed its maximum, but by no more than two *)
(* entries for each other thread that is in the middle of a call           *)
(* (openbb_client.py:41-44, 49-53).                                        *)
SizeBounded == Len(memo) <= MaxEntries + 2 * (Cardinality(Threads) - 1)

(* What races left too many is dropped by the next call for a new ticker   *)
(* that nobody disturbs, and no more than that (openbb_client.py:51).      *)
LoneCallRestores ==
  [][\A t \in Threads :
       stage[t] = "pruning" /\ stage'[t] = "out" /\ alone[t]
         => Len(memo') = MaxEntries]_vars

(* A call that nobody disturbs drops the oldest entries and keeps the      *)
(* order of the others (openbb_client.py:50).                              *)
LoneCallDropsOldest ==
  [][\A t \in Threads :
       stage[t] = "pruning" /\ stale[t] # stale'[t] /\ alone[t]
         => memo' = Tail(memo)]_vars

=============================================================================
