-------------------------- MODULE BoundedMemo_proofs --------------------------
(***************************************************************************)
(* For any number of threads, tickers and entries: the memo stays a dict,  *)
(* races let it exceed its maximum by no more than two entries for each    *)
(* other thread, and a call that nobody disturbs drops the oldest entries  *)
(* and restores the maximum.                                               *)
(*                                                                         *)
(* The size needs more than a bound on the size.  SizeInv counts what      *)
(* would be left if some of the keys (D) were gone, every thread of a set  *)
(* F that is bound to add an entry took its slice then, and each of them   *)
(* popped its keys and added one.  It holds for every D and F, so it does  *)
(* not matter who pops what, and in which order.                           *)
(***************************************************************************)
EXTENDS BoundedMemo, SequenceTheorems, FiniteSetTheorems, TLAPS

(* The locals of a thread, as far as its stage determines them. *)
Shape ==
  /\ memo \in Seq(Tickers) /\ IsInjective(memo)
  /\ stage \in [Threads -> {"out", "tested", "listed", "pruning"}]
  /\ ticker \in [Threads -> Tickers \cup {NoTicker}]
  /\ full \in [Threads -> BOOLEAN]
  /\ stale \in [Threads -> Seq(Tickers)]
  /\ alone \in [Threads -> BOOLEAN]
  /\ \A t \in Threads :
       /\ stage[t] # "out" => ticker[t] \in Tickers
       /\ stage[t] \in {"out", "tested"} => stale[t] = <<>>

(* The threads that will add an entry, unless it is there by then, and     *)
(* will not list the keys again before.                                    *)
Adders ==
  {t \in Threads : \/ stage[t] \in {"listed", "pruning"}
                   \/ stage[t] = "tested" /\ ~ full[t]}

(* t pops x, if the keys D are gone when it takes its slice. *)
Dooms(t, x, D) ==
  \E i \in DOMAIN stale[t] :
    /\ stale[t][i] = x
    /\ stage[t] = "listed" => i <= Cardinality(ToSet(memo) \ D) - MaxEntries + 1

(* What is left when the keys D are gone and the threads F have popped. *)
Left(F, D) == {x \in ToSet(memo) \ D : \A t \in F : ~ Dooms(t, x, D)}

Bound == MaxEntries + 2 * (Cardinality(Threads) - 1)

SizeInv ==
  \A F \in SUBSET Adders, D \in SUBSET Tickers :
    Cardinality(Left(F, D)) + Cardinality(F) <= Bound

(* What holds while t's call is the only one: nothing it read has changed, *)
(* and what it has yet to pop is the head of the memo.                     *)
Undisturbed(t) ==
  /\ \A u \in Threads \ {t} : stage[u] = "out"
  /\ stage[t] = "tested" => full[t] = (Len(memo) >= MaxEntries)
  /\ stage[t] = "listed" =>
       stale[t] = memo /\ Len(memo) >= MaxEntries /\ ~ Known(ticker[t])
  /\ stage[t] = "pruning" =>
       /\ ~ Known(ticker[t])
       /\ Len(memo) - Len(stale[t]) = MaxEntries - 1
       /\ \A i \in DOMAIN stale[t] : stale[t][i] = memo[i]

AloneInv == \A t \in Threads : alone[t] /\ stage[t] # "out" => Undisturbed(t)

-----------------------------------------------------------------------------
(* Lemmas about the operators of the model. *)

(* A key that is not there goes to the end.                                *)
LEMMA AppendKey ==
  ASSUME NEW s \in Seq(Tickers), IsInjective(s), NEW x \in Tickers, x \notin ToSet(s)
  PROVE  /\ Append(s, x) \in Seq(Tickers) /\ IsInjective(Append(s, x))
         /\ ToSet(Append(s, x)) = ToSet(s) \cup {x}
         /\ Len(Append(s, x)) = Len(s) + 1
<1> DEFINE a == Append(s, x)
<1>1. /\ a \in Seq(Tickers) /\ Len(a) = Len(s) + 1 /\ DOMAIN a = 1 .. Len(s) + 1
      /\ DOMAIN s = 1 .. Len(s) /\ Len(s) \in Nat
      /\ \A i \in 1 .. Len(s) : a[i] = s[i]
      /\ a[Len(s) + 1] = x
  OBVIOUS
<1> HIDE DEF a
<1>2. \A i \in 1 .. Len(s) : s[i] # x
  BY <1>1 DEF ToSet
<1>3. IsInjective(a)
  BY <1>1, <1>2 DEF IsInjective
<1>4. ToSet(a) \subseteq ToSet(s) \cup {x}
  BY <1>1 DEF ToSet
<1>5. ToSet(s) \subseteq ToSet(a) /\ x \in ToSet(a)
  <2>1. \A i \in 1 .. Len(s) : i \in DOMAIN a /\ s[i] = a[i]
    BY <1>1
  <2>2. Len(s) + 1 \in DOMAIN a /\ x = a[Len(s) + 1]
    BY <1>1
  <2> QED BY <1>1, <2>1, <2>2 DEF ToSet
<1> QED BY <1>1, <1>3, <1>4, <1>5 DEF a

(* The first m of a sequence.                                              *)
LEMMA Prefix ==
  ASSUME NEW s \in Seq(Tickers), NEW m \in Int, m <= Len(s)
  PROVE  /\ SubSeq(s, 1, m) \in Seq(Tickers)
         /\ Len(SubSeq(s, 1, m)) = IF m < 0 THEN 0 ELSE m
         /\ \A i \in 1 .. m : SubSeq(s, 1, m)[i] = s[i]
<1>1. \A i \in 1 .. m : s[i] \in Tickers
  OBVIOUS
<1>2. /\ SubSeq(s, 1, m) \in Seq(Tickers)
      /\ Len(SubSeq(s, 1, m)) = IF 1 <= m THEN m - 1 + 1 ELSE 0
      /\ \A i \in 1 .. m - 1 + 1 : SubSeq(s, 1, m)[i] = s[1 + i - 1]
  BY <1>1, SubSeqProperties
<1> QED BY <1>2

(* Where the keys are when the one at a place is removed.                  *)
LEMMA RemovePlace ==
  ASSUME NEW s \in Seq(Tickers), NEW i \in DOMAIN s
  PROVE  /\ RemoveAt(s, i) \in Seq(Tickers) /\ Len(RemoveAt(s, i)) = Len(s) - 1
         /\ \A j \in 1 .. Len(s) - 1 :
              RemoveAt(s, i)[j] = IF j < i THEN s[j] ELSE s[j + 1]
<1> DEFINE a == SubSeq(s, 1, i - 1)
           b == SubSeq(s, i + 1, Len(s))
<1>1. /\ a \in Seq(Tickers) /\ Len(a) = i - 1
      /\ \A j \in 1 .. i - 1 : a[j] = s[j]
  BY Prefix
<1>2. \A j \in i + 1 .. Len(s) : s[j] \in Tickers
  OBVIOUS
<1>3. /\ b \in Seq(Tickers)
      /\ Len(b) = IF i + 1 <= Len(s) THEN Len(s) - (i + 1) + 1 ELSE 0
      /\ \A j \in 1 .. Len(s) - (i + 1) + 1 : b[j] = s[i + 1 + j - 1]
  BY <1>2, SubSeqProperties
<1> HIDE DEF a, b
<1>4. /\ a \o b \in Seq(Tickers) /\ Len(a \o b) = Len(a) + Len(b)
      /\ \A j \in 1 .. Len(a) + Len(b) :
           (a \o b)[j] = IF j <= Len(a) THEN a[j] ELSE b[j - Len(a)]
  BY <1>1, <1>3, ConcatProperties
<1>5. i \in 1 .. Len(s) /\ Len(s) \in Nat
  OBVIOUS
<1>6. Len(b) = Len(s) - i /\ Len(a) + Len(b) = Len(s) - 1
  <2>1. i \in Nat /\ i >= 1 /\ i <= Len(s)
    BY <1>5
  <2>2. CASE i + 1 <= Len(s)
    BY <1>1, <1>3, <1>5, <2>1, <2>2
  <2>3. CASE i = Len(s)
    BY <1>1, <1>3, <1>5, <2>1, <2>3
  <2> QED BY <1>5, <2>1, <2>2, <2>3
<1>7. ASSUME NEW j \in 1 .. Len(s) - 1
      PROVE  (a \o b)[j] = IF j < i THEN s[j] ELSE s[j + 1]
  <2>1. CASE j < i
    <3>1. j <= Len(a) /\ j \in 1 .. i - 1
      BY <1>1, <1>5, <2>1
    <3> QED BY <1>1, <1>4, <1>6, <2>1, <3>1
  <2>2. CASE ~ (j < i)
    <3>1. /\ ~ (j <= Len(a)) /\ j - Len(a) \in 1 .. Len(s) - (i + 1) + 1
          /\ i + 1 + (j - Len(a)) - 1 = j + 1
      BY <1>1, <1>5, <2>2
    <3>2. (a \o b)[j] = b[j - Len(a)]
      BY <1>4, <1>6, <3>1
    <3> QED BY <1>3, <2>2, <3>1, <3>2
  <2> QED BY <2>1, <2>2
<1>8. RemoveAt(s, i) = a \o b
  BY DEF RemoveAt, a, b
<1> QED BY <1>4, <1>6, <1>7, <1>8

(* What is left when the key at a place is removed.                        *)
LEMMA RemoveKey ==
  ASSUME NEW s \in Seq(Tickers), IsInjective(s), NEW i \in DOMAIN s
  PROVE  /\ RemoveAt(s, i) \in Seq(Tickers) /\ IsInjective(RemoveAt(s, i))
         /\ ToSet(RemoveAt(s, i)) = ToSet(s) \ {s[i]}
         /\ i = 1 => RemoveAt(s, i) = Tail(s)
<1> DEFINE r == RemoveAt(s, i)
<1>1. /\ r \in Seq(Tickers) /\ Len(r) = Len(s) - 1 /\ DOMAIN r = 1 .. Len(s) - 1
      /\ DOMAIN s = 1 .. Len(s) /\ Len(s) \in Nat /\ i \in 1 .. Len(s)
  <2> HIDE DEF r
  <2>1. r \in Seq(Tickers) /\ Len(r) = Len(s) - 1
    BY RemovePlace DEF r
  <2> QED BY <2>1
<1>2. \A j \in 1 .. Len(s) - 1 : r[j] = IF j < i THEN s[j] ELSE s[j + 1]
  BY RemovePlace
<1>3. i = 1 => r = Tail(s)
  <2> SUFFICES ASSUME i = 1 PROVE r = Tail(s)
    OBVIOUS
  <2>1. /\ Tail(s) \in Seq(Tickers) /\ Len(Tail(s)) = Len(s) - 1
        /\ \A j \in 1 .. Len(s) - 1 : Tail(s)[j] = s[j + 1]
    BY <1>1
  <2> HIDE DEF r
  <2>2. \A j \in 1 .. Len(s) - 1 : r[j] = Tail(s)[j]
    BY <1>2, <2>1
  <2> QED BY <1>1, <2>1, <2>2
<1> HIDE DEF r
<1>4. IsInjective(r)
  <2> SUFFICES ASSUME NEW j \in 1 .. Len(s) - 1, NEW k \in 1 .. Len(s) - 1, r[j] = r[k]
               PROVE  j = k
    BY <1>1 DEF IsInjective
  <2>1. \A a, b \in 1 .. Len(s) : s[a] = s[b] => a = b
    BY <1>1 DEF IsInjective
  <2>2. CASE j < i /\ k < i
    BY <1>1, <1>2, <2>1, <2>2
  <2>3. CASE j < i /\ ~ (k < i)
    <3>1. s[j] = s[k + 1] /\ k + 1 \in 1 .. Len(s) /\ j \in 1 .. Len(s)
      BY <1>1, <1>2, <2>3
    <3> QED BY <2>1, <2>3, <3>1
  <2>4. CASE ~ (j < i) /\ k < i
    <3>1. s[j + 1] = s[k] /\ j + 1 \in 1 .. Len(s) /\ k \in 1 .. Len(s)
      BY <1>1, <1>2, <2>4
    <3> QED BY <2>1, <2>4, <3>1
  <2>5. CASE ~ (j < i) /\ ~ (k < i)
    <3>1. s[j + 1] = s[k + 1] /\ j + 1 \in 1 .. Len(s) /\ k + 1 \in 1 .. Len(s)
      BY <1>1, <1>2, <2>5
    <3>2. j + 1 = k + 1
      BY <2>1, <3>1
    <3> QED BY <3>2
  <2> QED BY <2>2, <2>3, <2>4, <2>5
<1>5. ToSet(r) \subseteq ToSet(s) \ {s[i]}
  <2> SUFFICES ASSUME NEW j \in 1 .. Len(s) - 1 PROVE r[j] \in ToSet(s) /\ r[j] # s[i]
    BY <1>1 DEF ToSet
  <2>1. CASE j < i
    <3>1. r[j] = s[j] /\ j \in DOMAIN s
      BY <1>1, <1>2, <2>1
    <3> QED BY <2>1, <3>1 DEF ToSet, IsInjective
  <2>2. CASE ~ (j < i)
    <3>1. r[j] = s[j + 1] /\ j + 1 \in DOMAIN s /\ j + 1 # i
      BY <1>1, <1>2, <2>2
    <3> QED BY <3>1 DEF ToSet, IsInjective
  <2> QED BY <2>1, <2>2
<1>6. ToSet(s) \ {s[i]} \subseteq ToSet(r)
  <2> SUFFICES ASSUME NEW j \in 1 .. Len(s), j # i PROVE s[j] \in ToSet(r)
    BY <1>1 DEF ToSet
  <2>1. CASE j < i
    <3>1. j \in DOMAIN r /\ s[j] = r[j]
      BY <1>1, <1>2, <2>1
    <3> QED BY <3>1 DEF ToSet
  <2>2. CASE ~ (j < i)
    <3>1. j - 1 \in DOMAIN r /\ s[j] = r[j - 1]
      <4>1. j - 1 \in 1 .. Len(s) - 1 /\ ~ (j - 1 < i) /\ (j - 1) + 1 = j
        BY <1>1, <2>2
      <4> QED BY <1>1, <1>2, <4>1
    <3> QED BY <3>1 DEF ToSet
  <2> QED BY <2>1, <2>2
<1> QED BY <1>1, <1>3, <1>4, <1>5, <1>6 DEF r

(* A slice from the start is a prefix, of the length asked for where it is *)
(* possible.                                                               *)
LEMMA UptoIsPrefix ==
  ASSUME NEW s \in Seq(Tickers), NEW n \in Int
  PROVE  /\ Upto(s, n) \in Seq(Tickers)
         /\ Len(Upto(s, n)) <= Len(s)
         /\ n > Len(s) => Len(Upto(s, n)) = Len(s)
         /\ n \in 0 .. Len(s) => Len(Upto(s, n)) = n
         /\ \A i \in 1 .. Len(Upto(s, n)) : Upto(s, n)[i] = s[i]
<1>0. Len(s) \in Nat
  OBVIOUS
<1> DEFINE m == IF n < 0 THEN Len(s) + n ELSE IF n < Len(s) THEN n ELSE Len(s)
<1>1. m \in Int /\ m <= Len(s)
  BY <1>0
<1>2. Upto(s, n) = SubSeq(s, 1, m)
  BY DEF Upto
<1>3. /\ SubSeq(s, 1, m) \in Seq(Tickers)
      /\ Len(SubSeq(s, 1, m)) = IF m < 0 THEN 0 ELSE m
      /\ \A i \in 1 .. m : SubSeq(s, 1, m)[i] = s[i]
  <2> HIDE DEF m
  <2> QED BY <1>1, Prefix
<1>4. /\ n > Len(s) => m = Len(s)
      /\ n \in 0 .. Len(s) => m = n
  BY <1>0
<1> HIDE DEF m
<1> QED BY <1>0, <1>1, <1>2, <1>3, <1>4

(* The first n keys of a dict are n keys.                                  *)
LEMMA PrefixCardinality ==
  ASSUME NEW s \in Seq(Tickers), IsInjective(s), NEW n \in 0 .. Len(s)
  PROVE  /\ IsFiniteSet({s[i] : i \in 1 .. n})
         /\ Cardinality({s[i] : i \in 1 .. n}) = n
<1> DEFINE f == [i \in 1 .. n |-> s[i]]
           S == {s[i] : i \in 1 .. n}
<1>1. n \in Nat /\ 1 .. n \subseteq DOMAIN s
  OBVIOUS
<1>2. f \in Bijection(1 .. n, S)
  BY <1>1 DEF Bijection, Injection, Surjection, IsInjective
<1>3. ExistsBijection(1 .. n, S)
  <2> HIDE DEF f, S
  <2> QED BY <1>2 DEF ExistsBijection
<1>4. IsFiniteSet(1 .. n) /\ Cardinality(1 .. n) = n
  BY <1>1, FS_Interval
<1> QED
  <2> HIDE DEF f, S
  <2>1. IsFiniteSet(S) /\ Cardinality(S) = n
    BY <1>3, <1>4, FS_Bijection
  <2> QED BY <2>1 DEF S

(* An assignment adds the key, if it is new.                               *)
LEMMA AssignKey ==
  ASSUME memo \in Seq(Tickers), IsInjective(memo), NEW x \in Tickers, Assign(x)
  PROVE  /\ memo' \in Seq(Tickers) /\ IsInjective(memo')
         /\ ToSet(memo') = ToSet(memo) \cup {x}
         /\ Known(x) => memo' = memo
         /\ ~ Known(x) => Len(memo') = Len(memo) + 1
<1>1. CASE Known(x)
  BY <1>1 DEF Assign, Known
<1>2. CASE ~ Known(x)
  <2>1. memo' = Append(memo, x) /\ x \notin ToSet(memo)
    BY <1>2 DEF Assign, Known
  <2> QED BY <1>2, <2>1, AppendKey
<1> QED BY <1>1, <1>2

(* A pop removes the key, if it is there.                                  *)
LEMMA DropKey ==
  ASSUME memo \in Seq(Tickers), IsInjective(memo), NEW x \in Tickers, Drop(x)
  PROVE  /\ memo' \in Seq(Tickers) /\ IsInjective(memo')
         /\ ToSet(memo') = ToSet(memo) \ {x}
         /\ 1 \in DOMAIN memo /\ memo[1] = x => memo' = Tail(memo)
<1>1. CASE Known(x)
  <2> DEFINE i == CHOOSE i \in DOMAIN memo : memo[i] = x
  <2>1. i \in DOMAIN memo /\ memo[i] = x
    BY <1>1 DEF Known, ToSet
  <2>2. memo' = RemoveAt(memo, i)
    BY <1>1 DEF Drop
  <2> HIDE DEF i
  <2>3. /\ memo' \in Seq(Tickers) /\ IsInjective(memo')
        /\ ToSet(memo') = ToSet(memo) \ {x}
        /\ i = 1 => memo' = Tail(memo)
    BY <2>1, <2>2, RemoveKey
  <2>4. 1 \in DOMAIN memo /\ memo[1] = x => i = 1
    BY <2>1 DEF IsInjective
  <2> QED BY <2>3, <2>4
<1>2. CASE ~ Known(x)
  <2>1. memo' = memo /\ x \notin ToSet(memo)
    BY <1>2 DEF Drop, Known
  <2>2. ~ (1 \in DOMAIN memo /\ memo[1] = x)
    BY <2>1 DEF ToSet
  <2> QED BY <2>1, <2>2
<1> QED BY <1>1, <1>2

-----------------------------------------------------------------------------
(* The shape of the state. *)

(* What a return leaves of the locals.                                     *)
LEMMA ReturnShape ==
  ASSUME Shape, NEW t \in Threads, Return(t), memo' \in Seq(Tickers), IsInjective(memo')
  PROVE  Shape'
<1>1. \A u \in Threads :
        /\ stage'[u] = IF u = t THEN "out" ELSE stage[u]
        /\ ticker'[u] = IF u = t THEN NoTicker ELSE ticker[u]
        /\ stale'[u] = IF u = t THEN <<>> ELSE stale[u]
  BY DEF Shape, Return
<1>2. stale' \in [Threads -> Seq(Tickers)]
  <2>1. <<>> \in Seq(Tickers)
    OBVIOUS
  <2> QED BY <2>1 DEF Shape, Return
<1>3. /\ stage' \in [Threads -> {"out", "tested", "listed", "pruning"}]
      /\ ticker' \in [Threads -> Tickers \cup {NoTicker}]
      /\ full' \in [Threads -> BOOLEAN]
      /\ alone' \in [Threads -> BOOLEAN]
  BY DEF Shape, Return
<1>4. \A u \in Threads :
        /\ stage'[u] # "out" => ticker'[u] \in Tickers
        /\ stage'[u] \in {"out", "tested"} => stale'[u] = <<>>
  BY <1>1 DEF Shape
<1> QED BY <1>2, <1>3, <1>4 DEF Shape

(* Every step keeps the shape.                                             *)
LEMMA NextShape ==
  ASSUME Shape, [Next]_vars
  PROVE  Shape'
<1>1. ASSUME NEW t \in Threads, NEW x \in Tickers, Call(t, x)
      PROVE  Shape'
  <2>1. /\ stage' \in [Threads -> {"out", "tested", "listed", "pruning"}]
        /\ ticker' \in [Threads -> Tickers \cup {NoTicker}]
        /\ full' \in [Threads -> BOOLEAN]
        /\ alone' \in [Threads -> BOOLEAN]
        /\ memo' = memo /\ stale' = stale
    <3>1. (Len(memo) >= MaxEntries) \in BOOLEAN
      OBVIOUS
    <3>2. alone' \in [Threads -> BOOLEAN]
      BY <1>1 DEF Call
    <3> QED BY <1>1, <3>1, <3>2 DEF Shape, Call
  <2>2. \A u \in Threads :
          /\ stage'[u] # "out" => ticker'[u] \in Tickers
          /\ stage'[u] \in {"out", "tested"} => stale'[u] = <<>>
    BY <1>1 DEF Shape, Call
  <2> QED BY <2>1, <2>2 DEF Shape
<1>2. ASSUME NEW t \in Threads, Keep(t)
      PROVE  Shape'
  <2>1. ticker[t] \in Tickers /\ Assign(ticker[t]) /\ Return(t)
    BY <1>2 DEF Shape, Keep
  <2>2. memo' \in Seq(Tickers) /\ IsInjective(memo')
    BY <2>1, AssignKey DEF Shape
  <2> QED BY <2>1, <2>2, ReturnShape
<1>3. ASSUME NEW t \in Threads, ListKeys(t)
      PROVE  Shape'
  BY <1>3 DEF Shape, ListKeys
<1>4. ASSUME NEW t \in Threads, Slice(t)
      PROVE  Shape'
  <2>1. Len(memo) - MaxEntries + 1 \in Int /\ stale[t] \in Seq(Tickers)
    BY BoundedMemoAssumption DEF Shape
  <2>2. Upto(stale[t], Len(memo) - MaxEntries + 1) \in Seq(Tickers)
    BY <2>1, UptoIsPrefix
  <2> QED BY <1>4, <2>2 DEF Shape, Slice
<1>5. ASSUME NEW t \in Threads, Pop(t)
      PROVE  Shape'
  <2>1. Head(stale[t]) \in Tickers /\ Tail(stale[t]) \in Seq(Tickers)
    BY <1>5 DEF Shape, Pop
  <2>2. memo' \in Seq(Tickers) /\ IsInjective(memo')
    BY <1>5, <2>1, DropKey DEF Shape, Pop
  <2> QED BY <1>5, <2>1, <2>2 DEF Shape, Pop
<1>6. ASSUME NEW t \in Threads, Store(t)
      PROVE  Shape'
  <2>1. ticker[t] \in Tickers /\ Assign(ticker[t]) /\ Return(t)
    BY <1>6 DEF Shape, Store
  <2>2. memo' \in Seq(Tickers) /\ IsInjective(memo')
    BY <2>1, AssignKey DEF Shape
  <2> QED BY <2>1, <2>2, ReturnShape
<1>7. CASE UNCHANGED vars
  BY <1>7 DEF Shape, vars
<1> QED BY <1>1, <1>2, <1>3, <1>4, <1>5, <1>6, <1>7 DEF Next

(* The memo is empty and no call is under way.                             *)
LEMMA InitShape == Init => Shape
<1> SUFFICES ASSUME Init PROVE Shape
  OBVIOUS
<1>1. <<>> \in Seq(Tickers)
  OBVIOUS
<1>2. memo \in Seq(Tickers) /\ IsInjective(memo)
  BY <1>1 DEF Init, IsInjective
<1> QED BY <1>1, <1>2 DEF Init, Shape

(* The memo stays a dict of tickers, whatever the threads do.              *)
THEOREM TypeCorrect == Spec => []TypeOK
<1>1. Shape => TypeOK
  BY DEF Shape, TypeOK, ToSet
<1>2. Shape /\ [Next]_vars => Shape'
  BY NextShape
<1> QED BY <1>1, <1>2, InitShape, PTL DEF Spec

-----------------------------------------------------------------------------
(* The size. *)

(* There is a thread, and there is room for an entry.                      *)
LEMMA Threaded ==
  /\ IsFiniteSet(Threads) /\ Cardinality(Threads) \in Nat /\ Cardinality(Threads) >= 1
  /\ MaxEntries \in Nat /\ MaxEntries >= 1
<1>1. IsFiniteSet(Threads) /\ Threads # {} /\ MaxEntries \in Nat /\ MaxEntries >= 1
  BY BoundedMemoAssumption
<1>2. Cardinality(Threads) \in Nat /\ Cardinality(Threads) # 0
  BY <1>1, FS_CardinalityType, FS_EmptySet
<1> QED BY <1>1, <1>2

(* A set of threads is finite, and no larger than all of them.             *)
LEMMA SomeThreads ==
  ASSUME NEW F \in SUBSET Threads
  PROVE  /\ IsFiniteSet(F) /\ Cardinality(F) \in Nat
         /\ Cardinality(F) <= Cardinality(Threads)
  BY Threaded, FS_Subset, FS_CardinalityType

(* The memo has as many keys as it is long.                                *)
LEMMA Keys ==
  ASSUME memo \in Seq(Tickers), IsInjective(memo)
  PROVE  /\ IsFiniteSet(ToSet(memo)) /\ Cardinality(ToSet(memo)) = Len(memo)
         /\ ToSet(memo) \in SUBSET Tickers
<1>1. Len(memo) \in 0 .. Len(memo) /\ DOMAIN memo = 1 .. Len(memo)
  OBVIOUS
<1>2. ToSet(memo) = {memo[i] : i \in 1 .. Len(memo)}
  BY <1>1 DEF ToSet
<1>3. /\ IsFiniteSet({memo[i] : i \in 1 .. Len(memo)})
      /\ Cardinality({memo[i] : i \in 1 .. Len(memo)}) = Len(memo)
  BY <1>1, PrefixCardinality
<1>4. ToSet(memo) \in SUBSET Tickers
  BY DEF ToSet
<1> QED BY <1>2, <1>3, <1>4

(* A part of a finite set is finite, and no larger.                        *)
LEMMA Part ==
  ASSUME NEW S, IsFiniteSet(S), NEW T, T \subseteq S
  PROVE  /\ IsFiniteSet(T) /\ Cardinality(T) \in Nat /\ Cardinality(S) \in Nat
         /\ Cardinality(T) <= Cardinality(S)
  BY FS_Subset, FS_CardinalityType

(* What is left is part of the memo.                                       *)
LEMMA LeftIsPart ==
  ASSUME memo \in Seq(Tickers), IsInjective(memo), NEW F, NEW D
  PROVE  /\ IsFiniteSet(Left(F, D)) /\ Cardinality(Left(F, D)) \in Nat
         /\ IsFiniteSet(ToSet(memo) \ D) /\ Cardinality(ToSet(memo) \ D) \in Nat
         /\ Cardinality(Left(F, D)) <= Cardinality(ToSet(memo) \ D)
         /\ Cardinality(ToSet(memo) \ D) <= Len(memo)
<1>1. /\ Left(F, D) \subseteq ToSet(memo) \ D /\ Left(F, D) \subseteq ToSet(memo)
      /\ ToSet(memo) \ D \subseteq ToSet(memo)
  BY DEF Left
<1>2. IsFiniteSet(ToSet(memo)) /\ Cardinality(ToSet(memo)) = Len(memo)
  BY Keys
<1>3. IsFiniteSet(ToSet(memo) \ D)
  BY <1>1, <1>2, Part
<1> QED BY <1>1, <1>2, <1>3, Part

(* A thread that has just listed the memo leaves less than half of what    *)
(* exceeds the maximum by one, whatever is gone when it takes its slice.   *)
LEMMA SliceHalves ==
  ASSUME memo \in Seq(Tickers), IsInjective(memo), Len(memo) <= Bound,
         NEW D, NEW G, G \subseteq ToSet(memo) \ D,
         \A i \in DOMAIN memo :
           i <= Cardinality(ToSet(memo) \ D) - MaxEntries + 1 => memo[i] \notin G
  PROVE  Cardinality(G) <= MaxEntries + Cardinality(Threads) - 2
<1> DEFINE n == Cardinality(ToSet(memo) \ D) - MaxEntries + 1
           P == {memo[i] : i \in 1 .. n}
<1>1. /\ IsFiniteSet(ToSet(memo)) /\ Cardinality(ToSet(memo)) = Len(memo)
      /\ IsFiniteSet(ToSet(memo) \ D) /\ Cardinality(ToSet(memo) \ D) \in Nat
      /\ Cardinality(ToSet(memo) \ D) <= Len(memo)
      /\ Len(memo) \in Nat /\ DOMAIN memo = 1 .. Len(memo)
  <2>1. /\ IsFiniteSet(ToSet(memo) \ D) /\ Cardinality(ToSet(memo) \ D) \in Nat
        /\ Cardinality(ToSet(memo) \ D) <= Len(memo)
    BY LeftIsPart
  <2>2. IsFiniteSet(ToSet(memo)) /\ Cardinality(ToSet(memo)) = Len(memo)
    BY Keys
  <2>3. Len(memo) \in Nat /\ DOMAIN memo = 1 .. Len(memo)
    OBVIOUS
  <2> QED BY <2>1, <2>2, <2>3
<1>2. /\ IsFiniteSet(G) /\ Cardinality(G) \in Nat
      /\ Cardinality(G) <= Cardinality(ToSet(memo) \ D)
  BY <1>1, Part
<1>5. n \in Int
  BY <1>1, Threaded
<1>3. CASE n <= 0
  BY <1>1, <1>2, <1>3, Threaded
<1>4. CASE n >= 1
  <2>1. n \in 0 .. Len(memo)
    BY <1>1, <1>4, Threaded
  <2>2. IsFiniteSet(P) /\ Cardinality(P) = n
    <3> HIDE DEF n
    <3> QED BY <2>1, PrefixCardinality
  <2>3. P \subseteq ToSet(memo) /\ G \subseteq ToSet(memo) \ P
    <3>1. 1 .. n \subseteq DOMAIN memo
      BY <1>1, <2>1
    <3>2. P \subseteq ToSet(memo)
      <4> HIDE DEF n
      <4> QED BY <3>1 DEF ToSet
    <3>3. \A i \in 1 .. n : memo[i] \notin G
      <4>1. \A i \in 1 .. n : i <= n
        BY <1>5
      <4>2. \A i \in DOMAIN memo : i <= n => memo[i] \notin G
        OBVIOUS
      <4> HIDE DEF n
      <4> QED BY <3>1, <4>1, <4>2
    <3>4. G \cap P = {}
      <4> HIDE DEF n
      <4> QED BY <3>3
    <3>5. G \subseteq ToSet(memo)
      OBVIOUS
    <3> HIDE DEF P
    <3> QED BY <3>2, <3>4, <3>5
  <2> HIDE DEF P
  <2>4. /\ IsFiniteSet(ToSet(memo) \ P)
        /\ Cardinality(ToSet(memo) \ P) = Cardinality(ToSet(memo)) - Cardinality(ToSet(memo) \cap P)
    BY <1>1, FS_Difference
  <2>5. ToSet(memo) \cap P = P
    BY <2>3
  <2>6. Cardinality(G) <= Len(memo) - n
    BY <1>1, <2>2, <2>3, <2>4, <2>5, Part
  <2> QED BY <1>1, <1>2, <2>6, Threaded DEF Bound
<1> QED BY <1>3, <1>4, <1>5

(* Less left and no more threads to add: the bound still holds.            *)
LEMMA LeftShrinks ==
  ASSUME Shape, Shape', SizeInv, NEW F \in SUBSET Adders,
         NEW D \in SUBSET Tickers, NEW E \in SUBSET Tickers,
         Left(F, E)' \subseteq Left(F, D)
  PROVE  Cardinality(Left(F, E)') + Cardinality(F) <= Bound
<1>1. Cardinality(Left(F, D)) + Cardinality(F) <= Bound
  BY DEF SizeInv
<1>2. Adders \subseteq Threads
  BY DEF Adders
<1>3. Cardinality(F) \in Nat
  BY <1>2, SomeThreads
<1>4. IsFiniteSet(Left(F, D)) /\ Cardinality(Left(F, D)) \in Nat
  BY LeftIsPart DEF Shape
<1>5. /\ Cardinality(Left(F, E)') \in Nat
      /\ Cardinality(Left(F, E)') <= Cardinality(Left(F, D))
  BY <1>4, Part
<1> QED BY <1>1, <1>3, <1>4, <1>5, Threaded DEF Bound

(* The size itself is the bound for no keys and no threads.                *)
LEMMA SizeFollows ==
  ASSUME Shape, SizeInv
  PROVE  Len(memo) <= Bound
<1>1. Left({}, {}) = ToSet(memo)
  BY DEF Left
<1>2. Cardinality(Left({}, {})) + Cardinality({}) <= Bound
  BY DEF SizeInv
<1>3. Cardinality({}) = 0 /\ Cardinality(ToSet(memo)) = Len(memo) /\ Len(memo) \in Nat
  BY FS_EmptySet, Keys DEF Shape
<1> QED BY <1>1, <1>2, <1>3

(* A call that finds room is followed by one entry at most for each thread *)
(* before the memo is full; one that finds none adds nothing before it has *)
(* listed the keys.                                                        *)
LEMMA CallSize ==
  ASSUME Shape, Shape', SizeInv, NEW t \in Threads, NEW x \in Tickers, Call(t, x)
  PROVE  SizeInv'
<1>1. /\ memo' = memo /\ stale' = stale /\ stage[t] = "out"
      /\ \A u \in Threads : stage'[u] = IF u = t THEN "tested" ELSE stage[u]
      /\ \A u \in Threads : full'[u] = IF u = t THEN Len(memo) >= MaxEntries ELSE full[u]
  BY DEF Call, Shape
<1> SUFFICES ASSUME NEW F \in SUBSET Adders', NEW D \in SUBSET Tickers
             PROVE  Cardinality(Left(F, D)') + Cardinality(F) <= Bound
  BY DEF SizeInv, Bound
<1>2. F \subseteq Threads
  BY DEF Adders
<1>3. CASE Len(memo) >= MaxEntries
  <2>1. t \notin F /\ F \subseteq Adders
    BY <1>1, <1>3 DEF Adders
  <2>2. Left(F, D)' \subseteq Left(F, D)
    BY <1>1, <1>2, <2>1 DEF Left, Dooms
  <2> QED BY <2>1, <2>2, LeftShrinks
<1>4. CASE ~ (Len(memo) >= MaxEntries)
  <2>1. Len(memo) \in Nat /\ Len(memo) <= MaxEntries - 1
    BY <1>4, Threaded DEF Shape
  <2>2. Left(F, D)' \subseteq ToSet(memo)
    BY <1>1 DEF Left
  <2>3. IsFiniteSet(ToSet(memo)) /\ Cardinality(ToSet(memo)) = Len(memo)
    BY Keys DEF Shape
  <2>4. Cardinality(Left(F, D)') \in Nat /\ Cardinality(Left(F, D)') <= Len(memo)
    BY <2>2, <2>3, Part
  <2>5. Cardinality(F) \in Nat /\ Cardinality(F) <= Cardinality(Threads)
    BY <1>2, SomeThreads
  <2> QED BY <2>1, <2>4, <2>5, Threaded DEF Bound
<1> QED BY <1>3, <1>4

(* An assignment at the end of a call is one that was counted.             *)
LEMMA AssignSize ==
  ASSUME Shape, Shape', SizeInv, NEW t \in Threads, NEW x \in Tickers,
         Assign(x), Return(t), Known(x) \/ t \in Adders, stale[t] = <<>>,
         stage[t] # "listed"
  PROVE  SizeInv'
<1>1. \A u \in Threads :
        /\ stage'[u] = IF u = t THEN "out" ELSE stage[u]
        /\ full'[u] = IF u = t THEN FALSE ELSE full[u]
        /\ stale'[u] = IF u = t THEN <<>> ELSE stale[u]
  BY DEF Return, Shape
<1> SUFFICES ASSUME NEW F \in SUBSET Adders', NEW D \in SUBSET Tickers
             PROVE  Cardinality(Left(F, D)') + Cardinality(F) <= Bound
  BY DEF SizeInv, Bound
<1>2. t \notin F /\ F \subseteq Adders /\ F \subseteq Threads
  BY <1>1 DEF Adders
<1>3. CASE Known(x)
  <2>1. memo' = memo
    BY <1>3, AssignKey DEF Shape
  <2>2. Left(F, D)' \subseteq Left(F, D)
    BY <1>1, <1>2, <2>1 DEF Left, Dooms
  <2> QED BY <1>2, <2>2, LeftShrinks
<1>4. CASE ~ Known(x)
  <2> DEFINE H == F \cup {t}
  <2>1. H \in SUBSET Adders
    BY <1>2, <1>4
  <2>2. ToSet(memo') = ToSet(memo) \cup {x}
    BY AssignKey DEF Shape
  <2>3. /\ Cardinality(ToSet(memo) \ D) \in Nat /\ Cardinality((ToSet(memo) \ D)') \in Nat
        /\ Cardinality(ToSet(memo) \ D) <= Cardinality((ToSet(memo) \ D)')
    <3>1. ToSet(memo) \ D \subseteq ToSet(memo') \ D
      BY <2>2
    <3>2. IsFiniteSet(ToSet(memo'))
      <4>1. IsFiniteSet(ToSet(memo))
        BY Keys DEF Shape
      <4>2. IsFiniteSet(ToSet(memo) \cup {x})
        BY <4>1, FS_AddElement
      <4> QED BY <2>2, <4>2
    <3>3. IsFiniteSet(ToSet(memo') \ D)
      BY <3>2, Part
    <3> QED BY <3>1, <3>3, Part
  <2>4. ASSUME NEW u \in F, NEW y, Dooms(u, y, D)
        PROVE  Dooms(u, y, D)'
    <3>1. stage'[u] = stage[u] /\ stale'[u] = stale[u] /\ stale[u] \in Seq(Tickers)
      BY <1>1, <1>2 DEF Shape
    <3>2. PICK i \in DOMAIN stale[u] :
            /\ stale[u][i] = y
            /\ stage[u] = "listed" => i <= Cardinality(ToSet(memo) \ D) - MaxEntries + 1
      BY <2>4 DEF Dooms
    <3>3. i \in Nat
      BY <3>1
    <3>4. stage[u] = "listed" => i <= Cardinality((ToSet(memo) \ D)') - MaxEntries + 1
      BY <2>3, <3>2, <3>3, Threaded
    <3> QED BY <3>1, <3>2, <3>4 DEF Dooms
  <2>5. \A y : ~ Dooms(t, y, D)
    BY DEF Dooms
  <2>6. Left(F, D)' \subseteq Left(H, D) \cup {x}
    BY <2>2, <2>4, <2>5 DEF Left
  <2>7. IsFiniteSet(Left(H, D)) /\ Cardinality(Left(H, D)) \in Nat
    BY LeftIsPart DEF Shape
  <2>8. /\ IsFiniteSet(Left(H, D) \cup {x})
        /\ Cardinality(Left(H, D) \cup {x}) <= Cardinality(Left(H, D)) + 1
    <3> HIDE DEF H
    <3> DEFINE L == Left(H, D)
    <3>1. IsFiniteSet(L) /\ Cardinality(L) \in Nat
      BY <2>7
    <3> HIDE DEF L
    <3>2. /\ IsFiniteSet(L \cup {x})
          /\ Cardinality(L \cup {x}) = IF x \in L THEN Cardinality(L) ELSE Cardinality(L) + 1
      BY <3>1, FS_AddElement
    <3>3. IsFiniteSet(L \cup {x}) /\ Cardinality(L \cup {x}) <= Cardinality(L) + 1
      BY <3>1, <3>2
    <3> QED BY <3>3 DEF L
  <2>9. /\ Cardinality(Left(F, D)') \in Nat
        /\ Cardinality(Left(F, D)') <= Cardinality(Left(H, D)) + 1
    <3> HIDE DEF H
    <3> DEFINE L == Left(H, D)
               K == Left(F, D)'
    <3>1. /\ K \subseteq L \cup {x} /\ IsFiniteSet(L \cup {x}) /\ Cardinality(L) \in Nat
          /\ Cardinality(L \cup {x}) <= Cardinality(L) + 1
      BY <2>6, <2>7, <2>8
    <3> HIDE DEF L, K
    <3>2. /\ Cardinality(K) \in Nat /\ Cardinality(L \cup {x}) \in Nat
          /\ Cardinality(K) <= Cardinality(L \cup {x})
      BY <3>1, Part
    <3>3. Cardinality(K) \in Nat /\ Cardinality(K) <= Cardinality(L) + 1
      BY <3>1, <3>2
    <3> QED BY <3>3 DEF K, L
  <2>10. Cardinality(H) = Cardinality(F) + 1 /\ Cardinality(F) \in Nat
    BY <1>2, SomeThreads, FS_AddElement
  <2>11. Cardinality(Left(H, D)) + Cardinality(H) <= Bound
    BY <2>1 DEF SizeInv
  <2> HIDE DEF H
  <2> QED BY <2>7, <2>9, <2>10, <2>11, Threaded DEF Bound
<1> QED BY <1>3, <1>4

(* Listing the keys makes a thread an adder that leaves little (this is    *)
(* where the bound on the size itself is used).                            *)
LEMMA ListSize ==
  ASSUME Shape, Shape', SizeInv, NEW t \in Threads, ListKeys(t)
  PROVE  SizeInv'
<1>1. /\ memo' = memo /\ full' = full /\ stage[t] = "tested"
      /\ \A u \in Threads : /\ stage'[u] = IF u = t THEN "listed" ELSE stage[u]
                            /\ stale'[u] = IF u = t THEN memo ELSE stale[u]
  BY DEF ListKeys, Shape
<1> SUFFICES ASSUME NEW F \in SUBSET Adders', NEW D \in SUBSET Tickers
             PROVE  Cardinality(Left(F, D)') + Cardinality(F) <= Bound
  BY DEF SizeInv, Bound
<1>2. F \subseteq Threads
  BY DEF Adders
<1>3. CASE t \notin F
  <2>1. F \subseteq Adders
    BY <1>1, <1>3 DEF Adders
  <2>2. Left(F, D)' \subseteq Left(F, D)
    BY <1>1, <1>2, <1>3 DEF Left, Dooms
  <2> QED BY <2>1, <2>2, LeftShrinks
<1>4. CASE t \in F
  <2> DEFINE G == Left(F, D)'
  <2>1. G \subseteq ToSet(memo) \ D
    BY <1>1 DEF Left
  <2>2. ASSUME NEW i \in DOMAIN memo,
               i <= Cardinality(ToSet(memo) \ D) - MaxEntries + 1
        PROVE  memo[i] \notin G
    <3>1. ASSUME NEW y, y = memo[i]
          PROVE  Dooms(t, y, D)'
      BY <1>1, <2>2, <3>1 DEF Dooms
    <3>2. ASSUME NEW y \in G
          PROVE  ~ Dooms(t, y, D)'
      BY <1>4 DEF Left
    <3> QED BY <3>1, <3>2
  <2>3. Len(memo) <= Bound
    BY SizeFollows
  <2> HIDE DEF G
  <2>4. Cardinality(G) <= MaxEntries + Cardinality(Threads) - 2
    BY <2>1, <2>2, <2>3, SliceHalves DEF Shape
  <2>5. Cardinality(G) \in Nat
    <3>1. IsFiniteSet(ToSet(memo) \ D)
      BY LeftIsPart DEF Shape
    <3> QED BY <2>1, <3>1, Part
  <2>6. Cardinality(F) \in Nat /\ Cardinality(F) <= Cardinality(Threads)
    BY <1>2, SomeThreads
  <2>7. Cardinality(G) + Cardinality(F) <= Bound
    BY <2>4, <2>5, <2>6, Threaded DEF Bound
  <2> QED BY <2>7 DEF G
<1> QED BY <1>3, <1>4

(* The slice is taken while at least D is there: it has the keys it would  *)
(* have had without them.                                                  *)
LEMMA SliceSize ==
  ASSUME Shape, Shape', SizeInv, NEW t \in Threads, Slice(t)
  PROVE  SizeInv'
<1> DEFINE n == Len(memo) - MaxEntries + 1
<1>1. /\ memo' = memo /\ full' = full /\ stage[t] = "listed"
      /\ \A u \in Threads :
           /\ stage'[u] = IF u = t THEN "pruning" ELSE stage[u]
           /\ stale'[u] = IF u = t THEN Upto(stale[t], n) ELSE stale[u]
  BY DEF Slice, Shape
<1>2. n \in Int /\ Len(memo) \in Nat
  BY Threaded DEF Shape
<1>3. stale[t] \in Seq(Tickers)
  BY DEF Shape
<1> SUFFICES ASSUME NEW F \in SUBSET Adders', NEW D \in SUBSET Tickers
             PROVE  Cardinality(Left(F, D)') + Cardinality(F) <= Bound
  BY DEF SizeInv, Bound
<1>4. F \subseteq Threads /\ F \subseteq Adders
  BY <1>1 DEF Adders
<1>5. ASSUME NEW y, Dooms(t, y, D)
      PROVE  Dooms(t, y, D)'
  <2> DEFINE s == stale[t]
             k == Upto(s, n)
  <2>1. PICK i \in DOMAIN s :
          s[i] = y /\ i <= Cardinality(ToSet(memo) \ D) - MaxEntries + 1
    BY <1>1, <1>5 DEF Dooms
  <2>2. Cardinality(ToSet(memo) \ D) \in Nat /\ Cardinality(ToSet(memo) \ D) <= Len(memo)
    BY LeftIsPart DEF Shape
  <2>3. i \in 1 .. Len(s) /\ Len(s) \in Nat
    BY <1>3
  <2>4. i <= n
    BY <1>2, <2>1, <2>2, <2>3, Threaded
  <2> HIDE DEF s, n
  <2>5. /\ k \in Seq(Tickers)
        /\ n > Len(s) => Len(k) = Len(s)
        /\ n \in 0 .. Len(s) => Len(k) = n
        /\ \A j \in 1 .. Len(k) : k[j] = s[j]
    <3>1. s \in Seq(Tickers)
      BY <1>3 DEF s
    <3> QED BY <1>2, <3>1, UptoIsPrefix
  <2> HIDE DEF k
  <2>6. i \in 1 .. Len(k) /\ DOMAIN k = 1 .. Len(k)
    <3>1. CASE n > Len(s)
      BY <2>3, <2>5, <3>1
    <3>2. CASE n <= Len(s)
      <4>1. n \in 0 .. Len(s)
        BY <1>2, <2>3, <2>4, <3>2
      <4> QED BY <2>3, <2>4, <2>5, <4>1
    <3> QED BY <1>2, <2>3, <3>1, <3>2
  <2>7. i \in DOMAIN k /\ k[i] = y
    BY <2>1, <2>5, <2>6
  <2>8. stale'[t] = k /\ stage'[t] # "listed"
    BY <1>1 DEF k, s
  <2> QED BY <2>7, <2>8 DEF Dooms
<1>6. \A u \in F \ {t} : \A y : Dooms(u, y, D) => Dooms(u, y, D)'
  BY <1>1, <1>4 DEF Dooms
<1>7. Left(F, D)' \subseteq Left(F, D)
  BY <1>1, <1>5, <1>6 DEF Left
<1> QED BY <1>4, <1>7, LeftShrinks

(* A key that is popped was gone already in one of the cases.              *)
LEMMA PopSize ==
  ASSUME Shape, Shape', SizeInv, NEW t \in Threads, Pop(t)
  PROVE  SizeInv'
<1> DEFINE x == Head(stale[t])
<1>1. /\ full' = full /\ stage' = stage /\ stage[t] = "pruning" /\ stale[t] # <<>>
      /\ stale[t] \in Seq(Tickers) /\ x \in Tickers
      /\ \A u \in Threads : stale'[u] = IF u = t THEN Tail(stale[t]) ELSE stale[u]
  BY DEF Pop, Shape
<1>2. ToSet(memo') = ToSet(memo) \ {x}
  BY <1>1, DropKey DEF Pop, Shape
<1> SUFFICES ASSUME NEW F \in SUBSET Adders', NEW D \in SUBSET Tickers
             PROVE  Cardinality(Left(F, D)') + Cardinality(F) <= Bound
  BY DEF SizeInv, Bound
<1>3. F \subseteq Threads /\ F \subseteq Adders
  BY <1>1 DEF Adders
<1> DEFINE E == D \cup {x}
<1>4. E \in SUBSET Tickers /\ ToSet(memo') \ D = ToSet(memo) \ E
  BY <1>1, <1>2
<1>5. ASSUME NEW y, y # x, Dooms(t, y, E)
      PROVE  Dooms(t, y, D)'
  <2> DEFINE s == stale[t]
  <2>1. PICK i \in DOMAIN s : s[i] = y
    BY <1>5 DEF Dooms
  <2>2. s \in Seq(Tickers) /\ s # <<>> /\ x = s[1] /\ DOMAIN s = 1 .. Len(s) /\ Len(s) \in Nat
    BY <1>1
  <2>3. i # 1 /\ i \in 1 .. Len(s)
    BY <1>5, <2>1, <2>2
  <2>4. i - 1 \in DOMAIN Tail(s) /\ Tail(s)[i - 1] = s[i]
    <3>1. i - 1 \in 1 .. Len(s) - 1 /\ (i - 1) + 1 = i
      BY <2>2, <2>3
    <3>2. DOMAIN Tail(s) = 1 .. Len(s) - 1 /\ \A j \in 1 .. Len(s) - 1 : Tail(s)[j] = s[j + 1]
      BY <2>2
    <3> QED BY <3>1, <3>2
  <2>5. stale'[t] = Tail(s) /\ stage'[t] # "listed"
    BY <1>1
  <2> HIDE DEF s
  <2> QED BY <2>1, <2>4, <2>5 DEF Dooms
<1> HIDE DEF x, E
<1>6. \A u \in F \ {t} : \A y : Dooms(u, y, E) => Dooms(u, y, D)'
  BY <1>1, <1>3, <1>4 DEF Dooms
<1>7. Left(F, D)' \subseteq Left(F, E)
  BY <1>2, <1>4, <1>5, <1>6 DEF Left
<1> QED BY <1>3, <1>4, <1>7, LeftShrinks

(* Every step keeps the bound on what any of them would leave.             *)
LEMMA NextSize ==
  ASSUME Shape, SizeInv, [Next]_vars
  PROVE  SizeInv'
<1>0. Shape'
  BY NextShape
<1>1. ASSUME NEW t \in Threads, NEW x \in Tickers, Call(t, x)
      PROVE  SizeInv'
  BY <1>0, <1>1, CallSize
<1>2. ASSUME NEW t \in Threads, Keep(t)
      PROVE  SizeInv'
  <2>1. /\ ticker[t] \in Tickers /\ Assign(ticker[t]) /\ Return(t)
        /\ stale[t] = <<>> /\ stage[t] = "tested"
        /\ Known(ticker[t]) \/ t \in Adders
    BY <1>2 DEF Shape, Keep, Adders
  <2> QED BY <1>0, <2>1, AssignSize
<1>3. ASSUME NEW t \in Threads, ListKeys(t)
      PROVE  SizeInv'
  BY <1>0, <1>3, ListSize
<1>4. ASSUME NEW t \in Threads, Slice(t)
      PROVE  SizeInv'
  BY <1>0, <1>4, SliceSize
<1>5. ASSUME NEW t \in Threads, Pop(t)
      PROVE  SizeInv'
  BY <1>0, <1>5, PopSize
<1>6. ASSUME NEW t \in Threads, Store(t)
      PROVE  SizeInv'
  <2>1. /\ ticker[t] \in Tickers /\ Assign(ticker[t]) /\ Return(t)
        /\ stale[t] = <<>> /\ stage[t] = "pruning" /\ t \in Adders
    BY <1>6 DEF Shape, Store, Adders
  <2> QED BY <1>0, <2>1, AssignSize
<1>7. CASE UNCHANGED vars
  BY <1>7 DEF vars, SizeInv, Adders, Left, Dooms, Bound
<1> QED BY <1>1, <1>2, <1>3, <1>4, <1>5, <1>6, <1>7 DEF Next

(* At first there is nothing to count.                                     *)
LEMMA InitSize == Init => SizeInv
<1> SUFFICES ASSUME Init, NEW F \in SUBSET Adders, NEW D
             PROVE  Cardinality(Left(F, D)) + Cardinality(F) <= Bound
  BY DEF SizeInv
<1>1. F = {} /\ Left(F, D) = {}
  BY DEF Init, Adders, Left, ToSet
<1>2. Cardinality({}) = 0
  BY FS_EmptySet
<1>3. Cardinality(Left(F, D)) = 0 /\ Cardinality(F) = 0
  BY <1>1, <1>2
<1> QED BY <1>3, Threaded DEF Bound

(* The memo exceeds its maximum by no more than two entries for each other *)
(* thread, however many threads race in the pruning code.                  *)
THEOREM SizeIsBounded == Spec => []SizeBounded
<1>1. Shape /\ SizeInv => SizeBounded
  BY SizeFollows DEF SizeBounded, Bound
<1>2. Shape /\ SizeInv /\ [Next]_vars => Shape' /\ SizeInv'
  BY NextShape, NextSize
<1> QED BY <1>1, <1>2, InitShape, InitSize, PTL DEF Spec

-----------------------------------------------------------------------------
(* Calls that nobody disturbs. *)

(* A thread in a call disturbs every other one that is in a call.          *)
LEMMA OthersAreDisturbed ==
  ASSUME Shape, AloneInv, NEW t \in Threads, NEW v \in Threads, v # t,
         stage[t] # "out", alone[v]
  PROVE  stage[v] = "out"
  BY DEF AloneInv, Undisturbed

(* A call starts alone if no other one is under way, and ends the others'  *)
(* being alone.                                                            *)
LEMMA CallAlone ==
  ASSUME Shape, Shape', AloneInv, NEW t \in Threads, NEW x \in Tickers, Call(t, x)
  PROVE  AloneInv'
<1>1. /\ memo' = memo /\ stage'[t] = "tested" /\ full'[t] = (Len(memo) >= MaxEntries)
      /\ \A u \in Threads \ {t} : stage'[u] = stage[u]
      /\ alone'[t] = (\A v \in Threads : stage[v] = "out")
      /\ \A u \in Threads \ {t} : alone'[u] = (stage[u] = "out")
  BY DEF Call, Shape
<1>2. ASSUME alone'[t]
      PROVE  Undisturbed(t)'
  BY <1>1, <1>2 DEF Undisturbed
<1>3. ASSUME NEW v \in Threads \ {t}, alone'[v], stage'[v] # "out"
      PROVE  FALSE
  BY <1>1, <1>3
<1> QED BY <1>2, <1>3 DEF AloneInv

(* A return leaves the others as they were.                                *)
LEMMA ReturnAlone ==
  ASSUME Shape, AloneInv, NEW t \in Threads, stage[t] # "out", Return(t)
  PROVE  AloneInv'
<1>1. /\ stage'[t] = "out"
      /\ \A u \in Threads \ {t} : stage'[u] = stage[u] /\ alone'[u] = alone[u]
  BY DEF Return, Shape
<1>2. ASSUME NEW v \in Threads, alone'[v], stage'[v] # "out"
      PROVE  FALSE
  BY <1>1, <1>2, OthersAreDisturbed
<1> QED BY <1>2 DEF AloneInv

(* A step of t inside its call concerns t alone, if anybody is alone.      *)
LEMMA MidAlone ==
  ASSUME Shape, AloneInv, NEW t \in Threads, stage[t] # "out",
         alone' = alone, \A u \in Threads \ {t} : stage'[u] = stage[u],
         Undisturbed(t) => Undisturbed(t)'
  PROVE  AloneInv'
<1>1. ASSUME NEW v \in Threads \ {t}, alone'[v], stage'[v] # "out"
      PROVE  FALSE
  BY <1>1, OthersAreDisturbed
<1>2. alone[t] => Undisturbed(t)'
  BY DEF AloneInv
<1> QED BY <1>1, <1>2 DEF AloneInv

(* What an undisturbed thread slices off is the excess and one more.       *)
LEMMA SliceAlone ==
  ASSUME Shape, NEW t \in Threads, Slice(t), Undisturbed(t)
  PROVE  Undisturbed(t)'
<1> DEFINE n == Len(memo) - MaxEntries + 1
           k == Upto(memo, n)
<1>1. /\ memo' = memo /\ ticker' = ticker /\ stage[t] = "listed" /\ stage'[t] = "pruning"
      /\ stale'[t] = k
      /\ \A u \in Threads \ {t} : stage'[u] = stage[u]
      /\ Len(memo) >= MaxEntries /\ ~ Known(ticker[t])
  BY DEF Slice, Shape, Undisturbed
<1>2. Len(memo) \in Nat /\ n \in 0 .. Len(memo) /\ n \in Int /\ memo \in Seq(Tickers)
  BY <1>1, Threaded DEF Shape
<1>3. /\ k \in Seq(Tickers) /\ Len(k) = n
      /\ \A i \in 1 .. Len(k) : k[i] = memo[i]
  <2> HIDE DEF n
  <2> QED BY <1>2, UptoIsPrefix
<1> HIDE DEF k
<1>4. Len(memo) - Len(k) = MaxEntries - 1
  BY <1>2, <1>3, Threaded
<1>5. \A i \in DOMAIN k : k[i] = memo[i]
  BY <1>3
<1> QED BY <1>1, <1>4, <1>5 DEF Undisturbed, Known

(* What an undisturbed thread pops is the oldest entry.                    *)
LEMMA PopsOldest ==
  ASSUME Shape, NEW t \in Threads, Pop(t), Undisturbed(t)
  PROVE  memo' = Tail(memo) /\ memo # <<>>
<1> DEFINE s == stale[t]
<1>1. /\ s \in Seq(Tickers) /\ s # <<>> /\ memo \in Seq(Tickers) /\ IsInjective(memo)
      /\ Drop(Head(s)) /\ Head(s) \in Tickers
      /\ Len(memo) - Len(s) = MaxEntries - 1
      /\ \A i \in DOMAIN s : s[i] = memo[i]
  BY DEF Pop, Shape, Undisturbed
<1> HIDE DEF s
<1>2. 1 \in DOMAIN s /\ Head(s) = s[1] /\ Len(s) \in Nat /\ Len(s) >= 1 /\ Len(memo) \in Nat
  BY <1>1
<1>3. 1 \in DOMAIN memo
  BY <1>1, <1>2, Threaded
<1>4. memo[1] = Head(s)
  BY <1>1, <1>2
<1>5. memo' = Tail(memo)
  BY <1>1, <1>3, <1>4, DropKey
<1> QED BY <1>3, <1>5

(* ... and what is left to pop is the head of what is left.                *)
LEMMA PopAlone ==
  ASSUME Shape, Shape', NEW t \in Threads, Pop(t), Undisturbed(t)
  PROVE  Undisturbed(t)'
<1> DEFINE s == stale[t]
           r == Tail(s)
           m == Tail(memo)
<1>1. /\ s \in Seq(Tickers) /\ s # <<>> /\ memo \in Seq(Tickers) /\ IsInjective(memo)
      /\ stage[t] = "pruning" /\ stage' = stage /\ ticker' = ticker
      /\ stale'[t] = r
      /\ Len(memo) - Len(s) = MaxEntries - 1
      /\ \A i \in DOMAIN s : s[i] = memo[i]
      /\ ~ Known(ticker[t])
      /\ \A u \in Threads \ {t} : stage[u] = "out"
      /\ Drop(Head(s)) /\ Head(s) \in Tickers
  BY DEF Pop, Shape, Undisturbed
<1>2. memo' = m /\ memo # <<>>
  BY PopsOldest
<1> HIDE DEF s
<1>3. /\ Len(s) \in Nat /\ Len(memo) \in Nat /\ DOMAIN s = 1 .. Len(s)
      /\ Len(r) = Len(s) - 1 /\ DOMAIN r = 1 .. Len(s) - 1
      /\ Len(m) = Len(memo) - 1
      /\ \A i \in 1 .. Len(s) - 1 : r[i] = s[i + 1]
      /\ \A i \in 1 .. Len(memo) - 1 : m[i] = memo[i + 1]
  BY <1>1, <1>2
<1> HIDE DEF r, m
<1>4. Len(m) - Len(r) = MaxEntries - 1
  BY <1>1, <1>3, Threaded
<1>5. ASSUME NEW i \in DOMAIN r
      PROVE  r[i] = m[i]
  <2>1. i \in 1 .. Len(s) - 1 /\ i + 1 \in 1 .. Len(s) /\ i \in 1 .. Len(memo) - 1
    BY <1>1, <1>3, Threaded
  <2> QED BY <1>1, <1>3, <2>1
<1>6. ToSet(memo') = ToSet(memo) \ {Head(s)}
  BY <1>1, DropKey
<1>7. ~ Known(ticker[t])'
  BY <1>1, <1>6 DEF Known
<1> QED BY <1>1, <1>2, <1>4, <1>5, <1>7 DEF Undisturbed

(* Every step keeps what is known of calls that nobody disturbs.           *)
LEMMA NextAlone ==
  ASSUME Shape, AloneInv, [Next]_vars
  PROVE  AloneInv'
<1>0. Shape'
  BY NextShape
<1>1. ASSUME NEW t \in Threads, NEW x \in Tickers, Call(t, x)
      PROVE  AloneInv'
  BY <1>0, <1>1, CallAlone
<1>2. ASSUME NEW t \in Threads, Keep(t) \/ Store(t)
      PROVE  AloneInv'
  BY <1>2, ReturnAlone DEF Keep, Store
<1>3. ASSUME NEW t \in Threads, ListKeys(t)
      PROVE  AloneInv'
  <2>1. /\ stage[t] # "out" /\ alone' = alone
        /\ \A u \in Threads \ {t} : stage'[u] = stage[u]
    BY <1>3 DEF ListKeys, Shape
  <2>2. Undisturbed(t) => Undisturbed(t)'
    BY <1>3 DEF ListKeys, Shape, Undisturbed, Known
  <2> QED BY <2>1, <2>2, MidAlone
<1>4. ASSUME NEW t \in Threads, Slice(t)
      PROVE  AloneInv'
  <2>1. /\ stage[t] # "out" /\ alone' = alone
        /\ \A u \in Threads \ {t} : stage'[u] = stage[u]
    BY <1>4 DEF Slice, Shape
  <2> QED BY <1>4, <2>1, SliceAlone, MidAlone
<1>5. ASSUME NEW t \in Threads, Pop(t)
      PROVE  AloneInv'
  <2>1. /\ stage[t] # "out" /\ alone' = alone
        /\ \A u \in Threads \ {t} : stage'[u] = stage[u]
    BY <1>5 DEF Pop, Shape
  <2> QED BY <1>0, <1>5, <2>1, PopAlone, MidAlone
<1>6. CASE UNCHANGED vars
  BY <1>6 DEF vars, AloneInv, Undisturbed, Known
<1> QED BY <1>1, <1>2, <1>3, <1>4, <1>5, <1>6 DEF Next

(* The invariant of the two theorems below.                                *)
LEMMA AloneHolds == Spec => [](Shape /\ AloneInv)
<1>1. Init => AloneInv
  BY DEF Init, AloneInv
<1>2. Shape /\ AloneInv /\ [Next]_vars => Shape' /\ AloneInv'
  BY NextShape, NextAlone
<1> QED BY <1>1, <1>2, InitShape, PTL DEF Spec

(* A call that nobody disturbs leaves the memo at its maximum, however far *)
(* beyond it races have taken it before.                                   *)
THEOREM LoneCallsRestore == Spec => LoneCallRestores
<1> DEFINE A(t) == stage[t] = "pruning" /\ stage'[t] = "out" /\ alone[t]
                     => Len(memo') = MaxEntries
<1>1. ASSUME Shape, AloneInv, [Next]_vars, NEW t \in Threads,
             stage[t] = "pruning", stage'[t] = "out", alone[t]
      PROVE  Len(memo') = MaxEntries
  <2>1. Undisturbed(t)
    BY <1>1 DEF AloneInv
  <2>2. Store(t)
    BY <1>1 DEF Next, vars, Shape, Call, Keep, ListKeys, Slice, Pop, Store, Return
  <2>3. /\ memo \in Seq(Tickers) /\ IsInjective(memo) /\ ticker[t] \in Tickers
        /\ Assign(ticker[t]) /\ ~ Known(ticker[t]) /\ stale[t] = <<>>
        /\ Len(memo) - Len(stale[t]) = MaxEntries - 1
    BY <1>1, <2>1, <2>2 DEF Store, Shape, Undisturbed
  <2>4. Len(memo') = Len(memo) + 1
    BY <2>3, AssignKey
  <2>5. Len(stale[t]) = 0 /\ Len(memo) \in Nat
    BY <2>3
  <2> QED BY <2>3, <2>4, <2>5, Threaded
<1>2. Shape /\ AloneInv /\ [Next]_vars => [\A t \in Threads : A(t)]_vars
  BY <1>1
<1> QED BY <1>2, AloneHolds, PTL DEF Spec, LoneCallRestores

(* A call that nobody disturbs pops the oldest entry, and nothing else, at *)
(* every pop.                                                              *)
THEOREM LoneCallsDropTheOldest == Spec => LoneCallDropsOldest
<1> DEFINE A(t) == stage[t] = "pruning" /\ stale[t] # stale'[t] /\ alone[t]
                     => memo' = Tail(memo)
<1>1. ASSUME Shape, AloneInv, [Next]_vars, NEW t \in Threads,
             stage[t] = "pruning", stale[t] # stale'[t], alone[t]
      PROVE  memo' = Tail(memo)
  <2>1. Undisturbed(t)
    BY <1>1 DEF AloneInv
  <2>2. Pop(t)
    BY <1>1 DEF Next, vars, Shape, Call, Keep, ListKeys, Slice, Pop, Store, Return
  <2> QED BY <1>1, <2>1, <2>2, PopsOldest
<1>2. Shape /\ AloneInv /\ [Next]_vars => [\A t \in Threads : A(t)]_vars
  BY <1>1
<1> QED BY <1>2, AloneHolds, PTL DEF Spec, LoneCallDropsOldest

=============================================================================
