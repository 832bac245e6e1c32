------------------------- MODULE ChunkTransferProofs -------------------------
(***************************************************************************)
(* Proofs about the three parts of a transfer: a request under its byte    *)
(* ceiling and its stall watchdog (FetchBytes), the download pool and its  *)
(* budget (FetchPool), and the read-back (ChunkReader), for any ceilings,  *)
(* chunk sizes, files and numbers of workers.                              *)
(*                                                                         *)
(* Nothing is assumed of one part in the proof of another, since the parts *)
(* share no variable: each has an inductive invariant of its own, that the *)
(* steps of the others leave alone.                                        *)
(***************************************************************************)
EXTENDS ChunkTransfer, FiniteSetTheorems, WellFoundedInduction, TLAPS

-----------------------------------------------------------------------------
(* Sums over finite sets.  The pool's accounts are sums over its workers, so *)
(* the proofs need what a sum does when one term comes, goes or changes.     *)

(* A non-empty set of naturals has a least element: facts about sums are shown
   for a least number that would refute them. *)
LEMMA LeastNumber ==
    ASSUME NEW S \in SUBSET Nat, S # {}
    PROVE  \E k \in S : \A m \in Nat : m < k => m \notin S
<1> DEFINE R == OpToRel(<, Nat)
<1>1. IsWellFoundedOn(R, Nat)
  BY NatLessThanWellFounded
<1>2. PICK k \in S : \A m \in S : <<m, k>> \notin R
  <2> HIDE DEF R
  <2> QED
    BY <1>1, WFMin
<1>3. \A m \in S : ~(m < k)
  BY <1>2 DEF OpToRel
<1> QED
  BY <1>3

(* A subset of a finite set, and what it is without one of its elements. *)
LEMMA OneLess ==
    ASSUME NEW S, IsFiniteSet(S), NEW T \in SUBSET S
    PROVE  /\ IsFiniteSet(T) /\ Cardinality(T) \in Nat /\ Cardinality(T) <= Cardinality(S)
           /\ T = {} <=> Cardinality(T) = 0
           /\ \A x \in T : T \ {x} \in SUBSET S /\ Cardinality(T \ {x}) = Cardinality(T) - 1
<1>1. IsFiniteSet(T) /\ Cardinality(T) <= Cardinality(S)
  BY FS_Subset
<1> QED
  BY <1>1, FS_CardinalityType, FS_EmptySet, FS_RemoveElement

(* The term that a sum over s takes first. *)
first(s) == CHOOSE x \in s : TRUE

(* g gives the sum of f over every subset of S of at most n elements. *)
SumsTo(f, S, n, g) ==
    g = [s \in SUBSET S |-> IF s = {} \/ Cardinality(s) > n THEN 0
                            ELSE f[first(s)] + g[s \ {first(s)}]]

(* A sum over a finite set is well defined. *)
LEMMA SumExists ==
    ASSUME NEW f, NEW S, IsFiniteSet(S), NEW n \in Nat
    PROVE  \E g : SumsTo(f, S, n, g)
<1> DEFINE Bad == {k \in Nat : ~\E g : SumsTo(f, S, k, g)}
<1>1. ASSUME Bad # {} PROVE FALSE
  <2>1. PICK k \in Bad : \A m \in Nat : m < k => m \notin Bad
    <3>1. Bad \in SUBSET Nat
      OBVIOUS
    <3> HIDE DEF Bad
    <3> QED
      BY <1>1, <3>1, LeastNumber
  <2>2. CASE k = 0
    <3>1. SumsTo(f, S, 0, [s \in SUBSET S |-> 0])
      BY OneLess DEF SumsTo
    <3> QED
      BY <2>1, <2>2, <3>1
  <2>3. CASE k # 0
    <3>1. k - 1 \in Nat /\ k - 1 < k /\ k \in Nat
      BY <2>1, <2>3
    <3>2. PICK g : SumsTo(f, S, k - 1, g)
      BY <2>1, <3>1
    <3> DEFINE h == [s \in SUBSET S |-> IF s = {} \/ Cardinality(s) > k THEN 0
                                        ELSE f[first(s)] + g[s \ {first(s)}]]
    <3>3. ASSUME NEW s \in SUBSET S, s # {}, ~(Cardinality(s) > k)
          PROVE  h[s \ {first(s)}] = g[s \ {first(s)}]
      <4> DEFINE t == s \ {first(s)}
      <4>1. first(s) \in s
        BY <3>3 DEF first
      <4>2. t \in SUBSET S /\ Cardinality(t) \in Nat /\ Cardinality(t) <= k - 1
        BY <3>1, <3>3, <4>1, OneLess
      <4>3. g[t] = IF t = {} \/ Cardinality(t) > k - 1 THEN 0 ELSE f[first(t)] + g[t \ {first(t)}]
        BY <3>2, <4>2 DEF SumsTo
      <4>4. h[t] = IF t = {} \/ Cardinality(t) > k THEN 0 ELSE f[first(t)] + g[t \ {first(t)}]
        BY <4>2
      <4> HIDE DEF t, h
      <4>5. ~(Cardinality(t) > k - 1) /\ ~(Cardinality(t) > k)
        BY <3>1, <4>2
      <4> QED
        BY <4>3, <4>4, <4>5 DEF t
    <3>4. h = [s \in SUBSET S |-> IF s = {} \/ Cardinality(s) > k THEN 0
                                  ELSE f[first(s)] + h[s \ {first(s)}]]
      BY <3>3
    <3>5. SumsTo(f, S, k, h)
      <4> HIDE DEF h
      <4> QED
        BY <3>4 DEF SumsTo
    <3> QED
      BY <2>1, <3>5
  <2> QED
    BY <2>2, <2>3
<1> QED
  BY <1>1

(* What a sum is, unfolded. *)
IsSum(f, S, g) ==
    g = [s \in SUBSET S |-> IF s = {} THEN 0 ELSE f[first(s)] + g[s \ {first(s)}]]

(* The community module's sum is the recursion that IsSum states. *)
LEMMA SumUnfolds ==
    ASSUME NEW f, NEW S, IsFiniteSet(S)
    PROVE  \E g : IsSum(f, S, g) /\ SumFunctionOnSet(f, S) = g[S]
<1>1. PICK g : SumsTo(f, S, Cardinality(S), g)
  BY SumExists, FS_CardinalityType
<1>2. \A s \in SUBSET S : ~(Cardinality(s) > Cardinality(S))
  BY OneLess, FS_CardinalityType
<1>3. IsSum(f, S, g)
  BY <1>1, <1>2 DEF SumsTo, IsSum
<1> DEFINE G == CHOOSE h : IsSum(f, S, h)
<1>4. IsSum(f, S, G)
  BY <1>3
<1>5. SumFunctionOnSet(f, S) = G[S]
  BY DEF SumFunctionOnSet, FoldFunctionOnSet, MapThenFoldSet, IsSum, first
<1> QED
  BY <1>4, <1>5

(* Sums of the same terms are equal, over whatever larger sets they are taken. *)
LEMMA SumsAgree ==
    ASSUME NEW f, NEW S, IsFiniteSet(S), NEW g, IsSum(f, S, g),
           NEW e, NEW T, IsFiniteSet(T), NEW h, IsSum(e, T, h),
           NEW U \in SUBSET S, U \subseteq T, \A x \in U : f[x] = e[x]
    PROVE  g[U] = h[U]
<1> DEFINE Bad == {k \in Nat : \E s \in SUBSET U : Cardinality(s) = k /\ g[s] # h[s]}
<1>1. ASSUME Bad # {} PROVE FALSE
  <2>1. PICK k \in Bad : \A m \in Nat : m < k => m \notin Bad
    <3>1. Bad \in SUBSET Nat
      OBVIOUS
    <3> HIDE DEF Bad
    <3> QED
      BY <1>1, <3>1, LeastNumber
  <2>2. PICK s \in SUBSET U : Cardinality(s) = k /\ g[s] # h[s]
    BY <2>1
  <2>3. s \in SUBSET S /\ s \in SUBSET T
    BY <2>2
  <2> DEFINE t == s \ {first(s)}
  <2>4. /\ g[s] = IF s = {} THEN 0 ELSE f[first(s)] + g[t]
        /\ h[s] = IF s = {} THEN 0 ELSE e[first(s)] + h[t]
    BY <2>3 DEF IsSum
  <2>5. s # {} /\ first(s) \in s
    BY <2>2, <2>4 DEF first
  <2>6. t \in SUBSET U /\ Cardinality(t) = k - 1 /\ Cardinality(t) \in Nat
    BY <2>2, <2>3, <2>5, OneLess
  <2>7. g[t] = h[t]
    <3> HIDE DEF t
    <3>1. Cardinality(t) < k
      BY <2>1, <2>6
    <3> QED
      BY <2>1, <2>6, <3>1
  <2> HIDE DEF t
  <2> QED
    BY <2>2, <2>4, <2>5, <2>7
<1>2. Cardinality(U) \in Nat
  BY OneLess
<1> QED
  BY <1>1, <1>2

(* Equal terms have equal sums. *)
LEMMA SumCongruence ==
    ASSUME NEW f, NEW e, NEW S, IsFiniteSet(S), \A x \in S : f[x] = e[x]
    PROVE  SumFunctionOnSet(f, S) = SumFunctionOnSet(e, S)
<1>1. PICK g : IsSum(f, S, g) /\ SumFunctionOnSet(f, S) = g[S]
  BY SumUnfolds
<1>2. PICK h : IsSum(e, S, h) /\ SumFunctionOnSet(e, S) = h[S]
  BY SumUnfolds
<1> QED
  BY <1>1, <1>2, SumsAgree

(* A sum does not depend on the order of its terms: any of them may come first. *)
LEMMA AnyTermFirst ==
    ASSUME NEW f, NEW S, IsFiniteSet(S), \A x \in S : f[x] \in Nat, NEW g, IsSum(f, S, g)
    PROVE  \A s \in SUBSET S : g[s] \in Nat /\ \A x \in s : g[s] = f[x] + g[s \ {x}]
<1> DEFINE Fine(s) == g[s] \in Nat /\ \A x \in s : g[s] = f[x] + g[s \ {x}]
           Bad == {k \in Nat : \E s \in SUBSET S : Cardinality(s) = k /\ ~Fine(s)}
<1>1. ASSUME Bad # {} PROVE FALSE
  <2>1. PICK k \in Bad : \A m \in Nat : m < k => m \notin Bad
    <3>1. Bad \in SUBSET Nat
      OBVIOUS
    <3> HIDE DEF Bad
    <3> QED
      BY <1>1, <3>1, LeastNumber
  <2>2. PICK s \in SUBSET S : Cardinality(s) = k /\ ~Fine(s)
    BY <2>1
  <2>3. ASSUME NEW x \in s PROVE Fine(s \ {x})
    <3>1. s \ {x} \in SUBSET S /\ Cardinality(s \ {x}) = k - 1 /\ Cardinality(s \ {x}) \in Nat
      BY <2>2, OneLess
    <3>2. Cardinality(s \ {x}) < k /\ k \in Nat
      BY <2>1, <3>1
    <3>3. Cardinality(s \ {x}) \notin Bad
      BY <2>1, <3>1, <3>2
    <3> HIDE DEF Fine
    <3> QED
      BY <3>1, <3>3
  <2> DEFINE c == first(s)
             t == s \ {c}
  <2>4. g[s] = IF s = {} THEN 0 ELSE f[c] + g[t]
    BY DEF IsSum
  <2>5. s # {}
    BY <2>2, <2>4
  <2>6. c \in s /\ c \in S
    BY <2>2, <2>5 DEF first
  <2>7. Fine(t)
    BY <2>3, <2>6
  <2>8. g[s] \in Nat
    BY <2>4, <2>5, <2>6, <2>7
  <2>9. ASSUME NEW x \in s, x # c PROVE g[s] = f[x] + g[s \ {x}]
    <3> DEFINE u == s \ {x}
    <3>1. Fine(u)
      BY <2>3
    <3>2. c \in u /\ x \in t /\ t \ {x} = u \ {c}
      BY <2>6, <2>9
    <3>3. g[t] = f[x] + g[t \ {x}] /\ g[u] = f[c] + g[u \ {c}]
      BY <2>7, <3>1, <3>2
    <3>4. t \ {x} \in SUBSET S /\ g[u] \in Nat /\ g[t] \in Nat /\ f[x] \in Nat /\ f[c] \in Nat
      BY <2>2, <2>6, <2>7, <3>1
    <3>5. g[t \ {x}] \in Nat
      <4>1. Fine(t \ {x})
        <5>1. t \in SUBSET S /\ Cardinality(t) = k - 1
          BY <2>2, <2>6, OneLess
        <5>2. t \ {x} \in SUBSET S /\ Cardinality(t \ {x}) \in Nat /\ Cardinality(t \ {x}) = k - 2
          <6>1. k \in Nat
            BY <2>1
          <6> HIDE DEF t, u, c, Fine, Bad
          <6>2. t \ {x} \in SUBSET S /\ Cardinality(t \ {x}) = Cardinality(t) - 1
            BY <3>2, <5>1, OneLess
          <6>3. Cardinality(t \ {x}) \in Nat
            BY <6>2, OneLess
          <6> QED
            BY <5>1, <6>1, <6>2, <6>3
        <5>3. Cardinality(t \ {x}) < k
          BY <5>2, <2>1
        <5>4. Cardinality(t \ {x}) \notin Bad
          BY <2>1, <5>2, <5>3
        <5> HIDE DEF Fine, t
        <5> QED
          BY <5>2, <5>4
      <4> QED
        BY <4>1
    <3>6. g[s] = f[c] + g[t]
      BY <2>4, <2>5
    <3> HIDE DEF t, u, c, Fine
    <3>7. g[u \ {c}] = g[t \ {x}]
      BY <3>2
    <3> QED
      BY <3>3, <3>4, <3>5, <3>6, <3>7 DEF u
  <2>10. g[s] = f[c] + g[s \ {c}]
    BY <2>4, <2>5
  <2>11. Fine(s)
    BY <2>8, <2>9, <2>10
  <2> QED
    BY <2>2, <2>11
<1>2. ASSUME NEW s \in SUBSET S PROVE Fine(s)
  <2>1. Cardinality(s) \in Nat
    BY OneLess
  <2> QED
    BY <1>1, <2>1
<1> QED
  BY <1>2

(* A sum of naturals, and what one term adds to it. *)
LEMMA SumRules ==
    ASSUME NEW f, NEW S, IsFiniteSet(S), \A x \in S : f[x] \in Nat
    PROVE  /\ SumFunctionOnSet(f, S) \in Nat
           /\ S = {} => SumFunctionOnSet(f, S) = 0
           /\ \A x \in S : SumFunctionOnSet(f, S) = f[x] + SumFunctionOnSet(f, S \ {x})
<1>1. PICK g : IsSum(f, S, g) /\ SumFunctionOnSet(f, S) = g[S]
  BY SumUnfolds
<1>2. g[S] \in Nat /\ \A x \in S : g[S] = f[x] + g[S \ {x}]
  BY <1>1, AnyTermFirst
<1>3. S = {} => g[S] = 0
  BY <1>1 DEF IsSum
<1>4. ASSUME NEW x \in S PROVE g[S \ {x}] = SumFunctionOnSet(f, S \ {x})
  <2>1. IsFiniteSet(S \ {x}) /\ S \ {x} \in SUBSET S
    BY OneLess
  <2>2. PICK h : IsSum(f, S \ {x}, h) /\ SumFunctionOnSet(f, S \ {x}) = h[S \ {x}]
    BY <2>1, SumUnfolds
  <2> QED
    BY <1>1, <2>1, <2>2, SumsAgree
<1> QED
  BY <1>1, <1>2, <1>3, <1>4

(* A sum that is split, with smaller terms for one of its parts. *)
LEMMA SumSplits ==
    ASSUME NEW f, NEW e, NEW S, IsFiniteSet(S), \A x \in S : f[x] \in Nat,
           NEW T \in SUBSET S, \A x \in T : e[x] \in Nat /\ e[x] <= f[x]
    PROVE  SumFunctionOnSet(f, S \ T) + SumFunctionOnSet(e, T) <= SumFunctionOnSet(f, S)
<1> DEFINE Less(s) == SumFunctionOnSet(f, s \ T) + SumFunctionOnSet(e, T \cap s)
                        <= SumFunctionOnSet(f, s)
           Bad == {k \in Nat : \E s \in SUBSET S : Cardinality(s) = k /\ ~Less(s)}
<1>1. ASSUME Bad # {} PROVE FALSE
  <2>1. PICK k \in Bad : \A m \in Nat : m < k => m \notin Bad
    <3>1. Bad \in SUBSET Nat
      OBVIOUS
    <3> HIDE DEF Bad
    <3> QED
      BY <1>1, <3>1, LeastNumber
  <2>2. PICK s \in SUBSET S : Cardinality(s) = k /\ ~Less(s)
    BY <2>1
  <2>3. /\ IsFiniteSet(s) /\ IsFiniteSet(s \ T) /\ IsFiniteSet(T \cap s)
        /\ \A x \in s : f[x] \in Nat
    BY OneLess, <2>2
  <2>4. CASE s = {}
    <3>1. s \ T = {} /\ T \cap s = {}
      BY <2>4
    <3>2. /\ SumFunctionOnSet(f, s) = 0 /\ SumFunctionOnSet(f, s \ T) = 0
          /\ SumFunctionOnSet(e, T \cap s) = 0
      BY <2>3, <2>4, <3>1, SumRules
    <3> QED
      BY <2>2, <3>2
  <2>5. CASE s # {}
    <3>1. PICK x \in s : TRUE
      BY <2>5
    <3> DEFINE t == s \ {x}
    <3>2. /\ t \in SUBSET S /\ Cardinality(t) = k - 1 /\ Cardinality(t) \in Nat
          /\ IsFiniteSet(t) /\ IsFiniteSet(t \ T) /\ IsFiniteSet(T \cap t)
      BY <2>2, <3>1, OneLess
    <3>3. Less(t)
      <4>1. Cardinality(t) < k
        BY <2>1, <3>2
      <4>2. Cardinality(t) \notin Bad
        BY <2>1, <3>2, <4>1
      <4> HIDE DEF Less, t
      <4> QED
        BY <3>2, <4>2
    <3>4. /\ SumFunctionOnSet(f, s) = f[x] + SumFunctionOnSet(f, t) /\ f[x] \in Nat
          /\ SumFunctionOnSet(f, t) \in Nat /\ SumFunctionOnSet(f, t \ T) \in Nat
          /\ SumFunctionOnSet(e, T \cap t) \in Nat
      BY <2>3, <3>1, <3>2, SumRules
    <3>5. CASE x \in T
      <4>1. /\ s \ T = t \ T /\ x \in T \cap s /\ (T \cap s) \ {x} = T \cap t
            /\ \A y \in T \cap s : e[y] \in Nat
        BY <3>1, <3>5
      <4>2. SumFunctionOnSet(e, T \cap s) = e[x] + SumFunctionOnSet(e, T \cap t)
        BY <2>3, <4>1, SumRules
      <4>3. e[x] \in Nat /\ e[x] <= f[x]
        BY <3>5
      <4>4. SumFunctionOnSet(f, s \ T) + SumFunctionOnSet(e, T \cap s) <= SumFunctionOnSet(f, s)
        <5> DEFINE a == SumFunctionOnSet(f, t \ T)
                   b == SumFunctionOnSet(e, T \cap t)
                   c == SumFunctionOnSet(f, t)
        <5>1. /\ SumFunctionOnSet(f, s \ T) = a /\ SumFunctionOnSet(e, T \cap s) = e[x] + b
              /\ SumFunctionOnSet(f, s) = f[x] + c
          BY <3>4, <4>1, <4>2
        <5>2. a + b <= c /\ a \in Nat /\ b \in Nat /\ c \in Nat
          BY <3>3, <3>4
        <5>3. f[x] \in Nat
          BY <3>4
        <5> HIDE DEF a, b, c
        <5> QED
          BY <4>3, <5>1, <5>2, <5>3
      <4> QED
        BY <2>2, <4>4
    <3>6. CASE x \notin T
      <4>1. /\ T \cap s = T \cap t /\ x \in s \ T /\ (s \ T) \ {x} = t \ T
            /\ \A y \in s \ T : f[y] \in Nat
        BY <2>3, <3>1, <3>6
      <4>2. SumFunctionOnSet(f, s \ T) = f[x] + SumFunctionOnSet(f, t \ T)
        BY <2>3, <4>1, SumRules
      <4>3. SumFunctionOnSet(f, s \ T) + SumFunctionOnSet(e, T \cap s) <= SumFunctionOnSet(f, s)
        <5> HIDE DEF t
        <5> QED
          BY <3>3, <3>4, <4>1, <4>2
      <4> QED
        BY <2>2, <4>3
    <3> QED
      BY <3>5, <3>6
  <2> QED
    BY <2>4, <2>5
<1>2. Less(S)
  BY <1>1, FS_CardinalityType
<1>3. T \cap S = T
  OBVIOUS
<1> QED
  BY <1>2, <1>3

-----------------------------------------------------------------------------
(* One request.                                                            *)

(* At each await the watchdog's timer and the silence make up the stall time,
   and what was counted is what was sent. *)
RequestSound ==
    /\ request \in [at : Pauses \cup {"over", "returned"}, timer : 0 .. Stall \cup {null},
                    total : 0 .. Limit, outcome : Outcomes \cup {null}]
    /\ wire \in [sent : Nat, silence : 0 .. Stall, open : BOOLEAN]
    /\ request.outcome = null <=> request.at \in Pauses
    /\ request.outcome = null => request.timer \in 0 .. Stall
    /\ StallIsSilence
    /\ request.at \in {"fetch", "arrayBuffer"} => wire.sent = 0 /\ request.total = 0
    /\ request.at = "read" => wire.sent = request.total
    /\ WholeOrRefused
    /\ NothingOutlives

(* fetch() has been called, and nothing has arrived. *)
LEMMA RequestStarts == RequestInit => RequestSound
  BY FetchBytesAssumption
     DEF RequestInit, RequestSound, StallIsSilence, WholeOrRefused, NothingOutlives, Pauses, Outcomes

(* What settle leaves, and when that is sound. *)
LEMMA SettleKeeps ==
    ASSUME RequestSound, NEW total \in 0 .. Limit, NEW outcome \in Outcomes,
           request' = settle([request EXCEPT !.total = total], outcome),
           wire' \in [sent : Nat, silence : 0 .. Stall, open : BOOLEAN],
           outcome = "bytes" => wire'.sent = total,
           wire'.sent > Limit => outcome = "large",
           wire'.open => outcome \in {"network", "large"} /\ wire'.sent = 0
    PROVE  RequestSound'
<1>1. /\ request'.at = "over" /\ request'.timer = null /\ request'.total = total
      /\ request'.outcome = outcome
      /\ request' \in [at : Pauses \cup {"over", "returned"}, timer : 0 .. Stall \cup {null},
                       total : 0 .. Limit, outcome : Outcomes \cup {null}]
  BY DEF settle, RequestSound
<1>2. outcome # null
  BY FetchBytesAssumption
<1> QED
  BY <1>1, <1>2, FetchBytesAssumption
     DEF RequestSound, StallIsSilence, WholeOrRefused, NothingOutlives, Pauses

(* What touch leaves: the timer is as long as nothing has arrived. *)
LEMMA TouchKeeps ==
    ASSUME RequestSound, NEW at \in Pauses, NEW total \in 0 .. Limit, request.outcome = null,
           request' = touch([request EXCEPT !.at = at, !.total = total]),
           wire' \in [sent : Nat, silence : {0}, open : BOOLEAN],
           wire'.sent = total, at # "read" => total = 0
    PROVE  RequestSound'
<1>1. /\ request'.at = at /\ request'.timer = Stall /\ request'.total = total
      /\ request'.outcome = null
      /\ request' \in [at : Pauses \cup {"over", "returned"}, timer : 0 .. Stall \cup {null},
                       total : 0 .. Limit, outcome : Outcomes \cup {null}]
  <2>1. /\ request \in [at : Pauses \cup {"over", "returned"}, timer : 0 .. Stall \cup {null},
                        total : 0 .. Limit, outcome : Outcomes \cup {null}]
        /\ Stall \in 0 .. Stall \cup {null}
    BY FetchBytesAssumption DEF RequestSound
  <2> QED
    BY <2>1 DEF touch
<1>2. \A o \in Outcomes : o # null
  BY FetchBytesAssumption
<1>3. Stall \in 0 .. Stall /\ Limit \in Nat /\ Stall \in Nat
  BY FetchBytesAssumption
<1> QED
  BY <1>1, <1>2, <1>3
     DEF RequestSound, StallIsSilence, WholeOrRefused, NothingOutlives, Pauses, Outcomes

(* What a step may do to the wire: the connection closes, or something arrives,
   or both. *)
LEMMA WireTyped ==
    ASSUME wire \in [sent : Nat, silence : 0 .. Stall, open : BOOLEAN], NEW n \in Nat
    PROVE  /\ LET w == [wire EXCEPT !.open = FALSE]
              IN  /\ w \in [sent : Nat, silence : 0 .. Stall, open : BOOLEAN]
                  /\ w.sent = wire.sent /\ ~w.open
           /\ \A b \in BOOLEAN :
                 LET w == [wire EXCEPT !.sent = @ + n, !.silence = 0, !.open = b]
                 IN  /\ w \in [sent : Nat, silence : {0}, open : BOOLEAN]
                     /\ w \in [sent : Nat, silence : 0 .. Stall, open : BOOLEAN]
                     /\ w.sent = wire.sent + n /\ w.open = b
           /\ LET w == [wire EXCEPT !.sent = @ + n, !.silence = 0]
              IN  /\ w \in [sent : Nat, silence : {0}, open : BOOLEAN]
                  /\ w \in [sent : Nat, silence : 0 .. Stall, open : BOOLEAN]
                  /\ w.sent = wire.sent + n
<1>1. 0 \in 0 .. Stall /\ wire.sent + n \in Nat
  BY FetchBytesAssumption
<1>2. LET w == [wire EXCEPT !.open = FALSE]
      IN  /\ w \in [sent : Nat, silence : 0 .. Stall, open : BOOLEAN]
          /\ w.sent = wire.sent /\ ~w.open
  OBVIOUS
<1>3. ASSUME NEW b \in BOOLEAN
      PROVE  LET w == [wire EXCEPT !.sent = @ + n, !.silence = 0, !.open = b]
             IN  /\ w \in [sent : Nat, silence : {0}, open : BOOLEAN]
                 /\ w \in [sent : Nat, silence : 0 .. Stall, open : BOOLEAN]
                 /\ w.sent = wire.sent + n /\ w.open = b
  BY <1>1
<1>4. LET w == [wire EXCEPT !.sent = @ + n, !.silence = 0]
      IN  /\ w \in [sent : Nat, silence : {0}, open : BOOLEAN]
          /\ w \in [sent : Nat, silence : 0 .. Stall, open : BOOLEAN]
          /\ w.sent = wire.sent + n
  BY <1>1
<1> QED
  BY <1>2, <1>3, <1>4

(* A step of the request, or its return to fetchManifest. *)
LEMMA RequestKeeps ==
    ASSUME RequestSound, RequestNext \/ ManifestReturns
    PROVE  RequestSound'
<1>1. /\ request \in [at : Pauses \cup {"over", "returned"}, timer : 0 .. Stall \cup {null},
                      total : 0 .. Limit, outcome : Outcomes \cup {null}]
      /\ wire \in [sent : Nat, silence : 0 .. Stall, open : BOOLEAN]
      /\ request = [request EXCEPT !.total = request.total]
      /\ request.at \in Pauses => request.outcome = null /\ wire.sent = request.total
      /\ request.at \in {"fetch", "arrayBuffer"} => request.total = 0
      /\ request.outcome = null => request.at \in Pauses
      /\ Limit \in Nat \ {0} /\ Stall \in Nat \ {0}
  BY FetchBytesAssumption DEF RequestSound, Pauses
<1>2. CASE Unreachable \/ BreaksOff \/ Stalled
  <2>1. PICK outcome \in {"network", "broken"} :
           /\ request.at \in Pauses
           /\ request' = settle([request EXCEPT !.total = request.total], outcome)
           /\ wire' = [wire EXCEPT !.open = FALSE]
    BY <1>1, <1>2 DEF Unreachable, BreaksOff, Stalled, Pauses
  <2>2. /\ wire' \in [sent : Nat, silence : 0 .. Stall, open : BOOLEAN]
        /\ wire'.sent <= Limit /\ ~wire'.open
    <3>1. wire.sent = request.total /\ request.total <= Limit
      BY <1>1, <2>1
    <3> QED
      BY <1>1, <2>1, <3>1, WireTyped
  <2>3. request.total \in 0 .. Limit /\ ~(wire'.sent > Limit)
    BY <1>1, <2>2
  <2> QED
    BY <2>1, <2>2, <2>3, SettleKeeps DEF Outcomes
<1>3. CASE Headers
  <2>1. /\ request.at = "fetch" /\ wire' = [wire EXCEPT !.sent = @ + 0, !.silence = 0]
        /\ \/ \E outcome \in {"network", "large"} : request' = settle(touch(request), outcome)
           \/ \E at \in {"read", "arrayBuffer"} : request' = [touch(request) EXCEPT !.at = at]
    BY <1>3 DEF Headers, Arrives
  <2>2. request.total = 0 /\ wire.sent = 0 /\ request.outcome = null
    BY <1>1, <2>1 DEF Pauses
  <2>3. /\ wire' \in [sent : Nat, silence : {0}, open : BOOLEAN]
        /\ wire' \in [sent : Nat, silence : 0 .. Stall, open : BOOLEAN]
        /\ wire'.sent = 0
    <3>1. wire.sent + 0 = 0
      BY <2>2
    <3> QED
      BY <1>1, <2>1, <3>1, WireTyped
  <2>4. ASSUME NEW outcome \in {"network", "large"}, request' = settle(touch(request), outcome)
        PROVE  RequestSound'
    <3>1. request' = settle([request EXCEPT !.total = 0], outcome)
      BY <1>1, <2>2, <2>4 DEF settle, touch
    <3> QED
      BY <1>1, <2>3, <3>1, SettleKeeps DEF Outcomes
  <2>5. ASSUME NEW at \in {"read", "arrayBuffer"}, request' = [touch(request) EXCEPT !.at = at]
        PROVE  RequestSound'
    <3>1. request' = touch([request EXCEPT !.at = at, !.total = 0])
      BY <1>1, <2>2, <2>5 DEF touch
    <3> QED
      BY <1>1, <2>2, <2>3, <3>1, TouchKeeps DEF Pauses
  <2> QED
    BY <2>1, <2>4, <2>5
<1>4. ASSUME NEW n \in Lengths, ReadPart(n) PROVE RequestSound'
  <2>1. /\ request.at = "read" /\ n \in Nat /\ wire.sent = request.total
        /\ request.outcome = null
    BY <1>1, <1>4 DEF ReadPart, Lengths, Pauses
  <2>2. CASE request.total + n > Limit
    <3>1. /\ request' = settle([request EXCEPT !.total = request.total], "large")
          /\ wire' = [wire EXCEPT !.sent = @ + n, !.silence = 0, !.open = FALSE]
      BY <1>1, <1>4, <2>2 DEF ReadPart, Arrives
    <3>2. wire' \in [sent : Nat, silence : 0 .. Stall, open : BOOLEAN] /\ ~wire'.open
      BY <1>1, <2>1, <3>1, WireTyped
    <3>3. request.total \in 0 .. Limit
      BY <1>1
    <3> QED
      BY <3>1, <3>2, <3>3, SettleKeeps DEF Outcomes
  <2>3. CASE ~(request.total + n > Limit)
    <3>1. /\ request' = touch([request EXCEPT !.at = "read", !.total = request.total + n])
          /\ wire' = [wire EXCEPT !.sent = @ + n, !.silence = 0, !.open = TRUE]
      <4>1. /\ request' = touch([request EXCEPT !.total = @ + n])
            /\ wire' = [Arrives(n) EXCEPT !.open = TRUE]
        BY <1>4, <2>3 DEF ReadPart
      <4>2. request = [request EXCEPT !.at = "read"]
        BY <1>1, <2>1
      <4>3. [request EXCEPT !.total = @ + n] =
               [request EXCEPT !.at = "read", !.total = request.total + n]
        BY <1>1, <4>2
      <4>4. wire' = [wire EXCEPT !.sent = @ + n, !.silence = 0, !.open = TRUE]
        BY <4>1 DEF Arrives
      <4> QED
        BY <4>1, <4>3, <4>4
    <3>2. /\ wire' \in [sent : Nat, silence : {0}, open : BOOLEAN]
          /\ wire'.sent = request.total + n /\ request.total + n \in 0 .. Limit
      <4>1. request.total + n \in 0 .. Limit
        BY <1>1, <2>1, <2>3
      <4> QED
        BY <1>1, <2>1, <3>1, <4>1, WireTyped
    <3> QED
      BY <2>1, <3>1, <3>2, TouchKeeps DEF Pauses
  <2> QED
    BY <2>2, <2>3
<1>5. CASE ReadDone
  <2>1. /\ request' = settle([request EXCEPT !.total = request.total], "bytes")
        /\ wire' = [wire EXCEPT !.open = FALSE] /\ wire.sent = request.total
    BY <1>1, <1>5 DEF ReadDone, Pauses
  <2>2. /\ wire' \in [sent : Nat, silence : 0 .. Stall, open : BOOLEAN]
        /\ wire'.sent = request.total /\ request.total <= Limit /\ ~wire'.open
    <3>1. request.total <= Limit
      BY <1>1
    <3> QED
      BY <1>1, <2>1, <3>1, WireTyped
  <2>3. request.total \in 0 .. Limit /\ ~(wire'.sent > Limit)
    BY <1>1, <2>2
  <2> QED
    BY <2>1, <2>2, <2>3, SettleKeeps DEF Outcomes
<1>6. ASSUME NEW n \in Lengths, Buffered(n) PROVE RequestSound'
  <2>1. /\ request.at = "arrayBuffer" /\ n \in Nat /\ wire.sent = 0
        /\ wire' = [wire EXCEPT !.sent = @ + n, !.silence = 0, !.open = FALSE]
    BY <1>1, <1>6 DEF Buffered, Lengths, Pauses, Arrives
  <2>2. /\ wire' \in [sent : Nat, silence : 0 .. Stall, open : BOOLEAN]
        /\ wire'.sent = n /\ ~wire'.open
    <3>1. wire.sent + n = n
      BY <2>1
    <3> QED
      BY <1>1, <2>1, <3>1, WireTyped
  <2>3. \/ n > Limit /\ request' = settle([request EXCEPT !.total = request.total], "large")
        \/ n \in 0 .. Limit /\ request' = settle([request EXCEPT !.total = n], "bytes")
    BY <1>1, <1>6, <2>1 DEF Buffered
  <2> QED
    BY <1>1, <2>2, <2>3, SettleKeeps DEF Outcomes
<1>7. CASE Tick
  <2>1. /\ request.outcome = null /\ request.timer \in 1 .. Stall
        /\ request.timer + wire.silence = Stall
        /\ request' = [request EXCEPT !.timer = request.timer - 1]
        /\ wire' = [wire EXCEPT !.silence = wire.silence + 1]
    BY <1>1, <1>7 DEF Tick, RequestSound, StallIsSilence
  <2>2. request.timer - 1 \in 0 .. Stall /\ wire.silence + 1 \in 0 .. Stall
        /\ (request.timer - 1) + (wire.silence + 1) = Stall
    BY <1>1, <2>1
  <2> QED
    BY <1>1, <2>1, <2>2
       DEF RequestSound, StallIsSilence, WholeOrRefused, NothingOutlives
<1>8. CASE ManifestReturns
  BY <1>8, FetchBytesAssumption
     DEF ManifestReturns, Returned, RequestSound, StallIsSilence, WholeOrRefused,
         NothingOutlives, Pauses, Outcomes
<1> QED
  BY <1>2, <1>3, <1>4, <1>5, <1>6, <1>7, <1>8 DEF RequestNext

-----------------------------------------------------------------------------
(* The download pool.  Its steps are built of take, reserve, release and     *)
(* failWith, so the lemmas are about those, on any state s of the pool.  A   *)
(* worker in the middle of a step is left out of the accounts: W is the set  *)
(* of those that are in them.                                                *)

PoolTyped(s) ==
    s \in [next      : 1 .. (Len(Sizes) + 1),
           total     : Nat,
           remaining : Nat,
           inFlight  : Nat,
           failure   : Failures,
           pc        : [Workers -> WorkerStates \cup {"start"}],
           ref       : [Workers -> Refs \cup {0}],
           attempt   : [Workers -> 0 .. (Attempts - 1)],
           reserved  : [Workers -> 0 .. MaxChunkBytes]]

Holders(s, W) == {v \in W : s.pc[v] \in {"fetching", "putting"}}
Putters(s, W) == {v \in W : s.pc[v] = "putting"}
Active(s, W) == {v \in W : s.pc[v] \in {"fetching", "putting", "waiting", "woken", "refused"}}

Reserved(s, W) == SumFunctionOnSet(s.reserved, Holders(s, W))
Used(s, W) == SumFunctionOnSet([v \in Putters(s, W) |-> Sizes[s.ref[v]]], Putters(s, W))

(* The budget.  What a chunk being put uses is within its reservation. *)
Accounts(s, W) ==
    /\ PoolTyped(s)
    /\ s.inFlight = Cardinality(Holders(s, W))
    /\ s.remaining + Reserved(s, W) + s.total - Used(s, W) = MaxTotalBytes
    /\ \A v \in Putters(s, W) : Sizes[s.ref[v]] <= s.reserved[v]
    /\ \A v \in Active(s, W) : s.ref[v] \in Refs
    /\ (\E v \in W : s.pc[v] = "waiting") => Holders(s, W) # {}

(* The chunks.  Each that was taken is stored or claimed by one worker, by
   those of W or, for the chunks of `extra', by one that is left out. *)
Claims(s, st, W, extra) ==
    /\ st \in [Refs -> 0 .. 1]
    /\ \A v \in Active(s, W) :
          /\ s.ref[v] \in Refs \ extra /\ s.ref[v] < s.next /\ st[s.ref[v]] = 0
          /\ \A u \in Active(s, W) : s.ref[u] = s.ref[v] => u = v
    /\ \A r \in extra : r \in Refs /\ r < s.next /\ st[r] = 0
    /\ \A r \in Refs : r >= s.next => st[r] = 0
    /\ s.failure = "none" =>
          /\ \A r \in Refs : r < s.next =>
                st[r] = 1 \/ r \in extra \/ \E v \in Active(s, W) : s.ref[v] = r
          /\ \A v \in W : s.pc[v] = "done" => s.next \notin Refs

PoolSound ==
    /\ Accounts(pool, Workers)
    /\ Claims(pool, stored, Workers, {})
    /\ faults \in 0 .. MaxFaults

(* Chunks have sizes, and a reservation is no larger than what remains. *)
LEMMA PoolFacts ==
    /\ Refs = 1 .. Len(Sizes) /\ Len(Sizes) \in Nat /\ \A r \in Refs : Sizes[r] \in Nat
    /\ MaxChunkBytes \in Nat /\ MaxTotalBytes \in Nat /\ Attempts \in Nat \ {0}
    /\ \A n \in Nat : LET m == Min({MaxChunkBytes, n})
                      IN  m \in 0 .. MaxChunkBytes /\ m <= n
<1>1. /\ Refs = 1 .. Len(Sizes) /\ Len(Sizes) \in Nat /\ \A r \in Refs : Sizes[r] \in Nat
      /\ MaxChunkBytes \in Nat /\ MaxTotalBytes \in Nat /\ Attempts \in Nat \ {0}
  BY FetchPoolAssumption DEF Refs
<1>2. ASSUME NEW n \in Nat
      PROVE  LET m == Min({MaxChunkBytes, n}) IN m \in 0 .. MaxChunkBytes /\ m <= n
  <2>1. \E x \in {MaxChunkBytes, n} : \A y \in {MaxChunkBytes, n} : x <= y
    <3>1. MaxChunkBytes <= n \/ n <= MaxChunkBytes
      BY <1>1
    <3> QED
      BY <1>1, <3>1
  <2> DEFINE m == Min({MaxChunkBytes, n})
  <2>2. m \in {MaxChunkBytes, n} /\ \A y \in {MaxChunkBytes, n} : m <= y
    BY <2>1 DEF Min
  <2> QED
    BY <1>1, <2>2
<1> QED
  BY <1>1, <1>2

(* The accounts' sums are naturals, over finite sets. *)
LEMMA AccountFacts ==
    ASSUME NEW s, PoolTyped(s), NEW W \in SUBSET Workers,
           \A v \in Putters(s, W) : s.ref[v] \in Refs
    PROVE  /\ IsFiniteSet(Holders(s, W)) /\ IsFiniteSet(Putters(s, W))
           /\ Cardinality(Holders(s, W)) \in Nat
           /\ Putters(s, W) \subseteq Holders(s, W)
           /\ \A v \in Workers : s.reserved[v] \in Nat
           /\ Reserved(s, W) \in Nat /\ Used(s, W) \in Nat
<1>1. /\ IsFiniteSet(Holders(s, W)) /\ IsFiniteSet(Putters(s, W))
      /\ Cardinality(Holders(s, W)) \in Nat
  <2>1. Holders(s, W) \in SUBSET Workers /\ Putters(s, W) \in SUBSET Workers
    BY DEF Holders, Putters
  <2> QED
    BY <2>1, FetchPoolAssumption, OneLess
<1>2. Putters(s, W) \subseteq Holders(s, W)
  BY DEF Holders, Putters
<1>3. \A v \in Workers : s.reserved[v] \in Nat
  BY PoolFacts DEF PoolTyped
<1>4. Reserved(s, W) \in Nat
  BY <1>1, <1>3, SumRules DEF Reserved, Holders
<1>5. Used(s, W) \in Nat
  <2> DEFINE f == [v \in Putters(s, W) |-> Sizes[s.ref[v]]]
  <2>1. \A v \in Putters(s, W) : f[v] \in Nat
    BY PoolFacts
  <2> HIDE DEF f
  <2>2. SumFunctionOnSet(f, Putters(s, W)) \in Nat
    BY <1>1, <2>1, SumRules
  <2> QED
    BY <2>2 DEF Used, f
<1> QED
  BY <1>1, <1>2, <1>3, <1>4, <1>5

(* The sums depend on the workers in them only. *)
LEMMA SameAccounts ==
    ASSUME NEW s, PoolTyped(s), NEW t, PoolTyped(t),
           NEW V \in SUBSET Workers, NEW W \in SUBSET Workers,
           Holders(t, W) = Holders(s, V), Putters(t, W) = Putters(s, V),
           \A v \in Putters(s, V) : s.ref[v] \in Refs,
           \A v \in Holders(s, V) : t.reserved[v] = s.reserved[v],
           \A v \in Putters(s, V) : t.ref[v] = s.ref[v]
    PROVE  Reserved(t, W) = Reserved(s, V) /\ Used(t, W) = Used(s, V)
<1>1. IsFiniteSet(Holders(s, V)) /\ IsFiniteSet(Putters(s, V))
  BY AccountFacts
<1>2. Reserved(t, W) = Reserved(s, V)
  BY <1>1, SumCongruence DEF Reserved
<1>3. [v \in Putters(t, W) |-> Sizes[t.ref[v]]] = [v \in Putters(s, V) |-> Sizes[s.ref[v]]]
  OBVIOUS
<1>4. Used(t, W) = Used(s, V)
  BY <1>3 DEF Used
<1> QED
  BY <1>2, <1>4

(* The reservation and the size of one worker, out of the sums. *)
LEMMA OneWorker ==
    ASSUME NEW s, PoolTyped(s), NEW w \in Workers,
           \A v \in Putters(s, Workers) : s.ref[v] \in Refs
    PROVE  LET Rest == Workers \ {w}
           IN  /\ w \in Holders(s, Workers) =>
                    /\ Reserved(s, Workers) = s.reserved[w] + Reserved(s, Rest)
                    /\ Cardinality(Holders(s, Rest)) = Cardinality(Holders(s, Workers)) - 1
               /\ w \notin Holders(s, Workers) =>
                    Holders(s, Rest) = Holders(s, Workers)
               /\ w \in Putters(s, Workers) =>
                    Used(s, Workers) = Sizes[s.ref[w]] + Used(s, Rest)
               /\ w \notin Putters(s, Workers) =>
                    Putters(s, Rest) = Putters(s, Workers)
<1> DEFINE Rest == Workers \ {w}
<1>1. /\ IsFiniteSet(Holders(s, Workers)) /\ IsFiniteSet(Putters(s, Workers))
      /\ \A v \in Workers : s.reserved[v] \in Nat
  BY AccountFacts
<1>2. /\ Holders(s, Rest) = Holders(s, Workers) \ {w}
      /\ Putters(s, Rest) = Putters(s, Workers) \ {w}
  BY DEF Holders, Putters
<1>3. ASSUME w \in Holders(s, Workers)
      PROVE  /\ Reserved(s, Workers) = s.reserved[w] + Reserved(s, Rest)
             /\ Cardinality(Holders(s, Rest)) = Cardinality(Holders(s, Workers)) - 1
  <2>1. \A v \in Holders(s, Workers) : s.reserved[v] \in Nat
    BY <1>1 DEF Holders
  <2>2. SumFunctionOnSet(s.reserved, Holders(s, Workers))
          = s.reserved[w] + SumFunctionOnSet(s.reserved, Holders(s, Workers) \ {w})
    BY <1>1, <1>3, <2>1, SumRules
  <2> QED
    BY <1>1, <1>2, <1>3, <2>2, FS_RemoveElement DEF Reserved
<1>4. ASSUME w \in Putters(s, Workers)
      PROVE  Used(s, Workers) = Sizes[s.ref[w]] + Used(s, Rest)
  <2> DEFINE P == Putters(s, Workers)
             f == [v \in P |-> Sizes[s.ref[v]]]
             g == [v \in P \ {w} |-> Sizes[s.ref[v]]]
  <2>1. \A v \in P : f[v] \in Nat
    BY PoolFacts
  <2>2. f[w] = Sizes[s.ref[w]] /\ \A v \in P \ {w} : f[v] = g[v]
    BY <1>4
  <2>3. IsFiniteSet(P) /\ IsFiniteSet(P \ {w}) /\ w \in P
    BY <1>1, <1>4, FS_RemoveElement
  <2>4. Used(s, Workers) = SumFunctionOnSet(f, P) /\ Used(s, Rest) = SumFunctionOnSet(g, P \ {w})
    BY <1>2 DEF Used
  <2> HIDE DEF f, g, P
  <2>5. SumFunctionOnSet(f, P) = f[w] + SumFunctionOnSet(f, P \ {w})
    BY <2>1, <2>3, SumRules
  <2>6. SumFunctionOnSet(f, P \ {w}) = SumFunctionOnSet(g, P \ {w})
    BY <2>2, <2>3, SumCongruence
  <2> QED
    BY <2>2, <2>4, <2>5, <2>6
<1>5. w \notin Holders(s, Workers) => Holders(s, Rest) = Holders(s, Workers)
  BY <1>2
<1>6. w \notin Putters(s, Workers) => Putters(s, Rest) = Putters(s, Workers)
  BY <1>2
<1> QED
  BY <1>3, <1>4, <1>5, <1>6

(* What reserve() and release() write, and what take() writes. *)
Holding(s, pc, attempt, reserved, remaining, inFlight) ==
    [s EXCEPT !.pc = pc, !.attempt = attempt, !.reserved = reserved,
              !.remaining = remaining, !.inFlight = inFlight]
Taking(s, pc, ref, attempt, next) ==
    [s EXCEPT !.pc = pc, !.ref = ref, !.attempt = attempt, !.next = next]

(* release() takes a worker out of the accounts, and wakes who waited. *)
LEMMA ReleaseKeeps ==
    ASSUME NEW s, Accounts(s, Workers), NEW w \in Holders(s, Workers),
           NEW consumed,
           consumed = IF s.pc[w] = "putting" THEN Sizes[s.ref[w]] ELSE 0
    PROVE  /\ Accounts(release(s, w, consumed), Workers \ {w})
           /\ release(s, w, consumed).next = s.next
           /\ release(s, w, consumed).failure = s.failure
           /\ release(s, w, consumed).ref = s.ref
           /\ \A v \in Workers : release(s, w, consumed).pc[v] =
                 IF s.pc[v] = "waiting" THEN "woken" ELSE s.pc[v]
<1> DEFINE Rest == Workers \ {w}
           t == release(s, w, consumed)
<1>1. /\ PoolTyped(s) /\ w \in Workers /\ \A v \in Putters(s, Workers) : s.ref[v] \in Refs
  BY DEF Accounts, Holders, Putters, Active
<1>2. /\ s.remaining \in Nat /\ s.total \in Nat /\ s.inFlight \in Nat
      /\ s.reserved \in [Workers -> 0 .. MaxChunkBytes] /\ s.reserved[w] \in Nat
      /\ s.pc \in [Workers -> WorkerStates \cup {"start"}]
      /\ MaxChunkBytes \in Nat
  BY <1>1, PoolFacts DEF PoolTyped
<1>3. consumed \in Nat /\ consumed <= s.reserved[w]
  BY <1>1, <1>2, PoolFacts DEF Accounts, Holders, Putters
<1>4. /\ Reserved(s, Workers) = s.reserved[w] + Reserved(s, Rest)
      /\ Cardinality(Holders(s, Rest)) = Cardinality(Holders(s, Workers)) - 1
      /\ Used(s, Workers) = consumed + Used(s, Rest)
      /\ Cardinality(Holders(s, Rest)) \in Nat
      /\ Reserved(s, Rest) \in Nat /\ Used(s, Rest) \in Nat
  <2>1. /\ Cardinality(Holders(s, Rest)) \in Nat
        /\ Reserved(s, Rest) \in Nat /\ Used(s, Rest) \in Nat
    <3>1. \A v \in Putters(s, Rest) : s.ref[v] \in Refs
      BY <1>1 DEF Putters
    <3> QED
      BY <1>1, <3>1, AccountFacts
  <2>2. /\ Reserved(s, Workers) = s.reserved[w] + Reserved(s, Rest)
        /\ Cardinality(Holders(s, Rest)) = Cardinality(Holders(s, Workers)) - 1
    BY <1>1, OneWorker
  <2>3. CASE w \in Putters(s, Workers)
    <3>1. consumed = Sizes[s.ref[w]]
      BY <2>3 DEF Putters
    <3>2. Used(s, Workers) = Sizes[s.ref[w]] + Used(s, Rest)
      BY <1>1, <2>3, OneWorker
    <3>3. Used(s, Workers) = consumed + Used(s, Rest)
      BY <3>1, <3>2, Zenon
    <3> QED
      BY <2>1, <2>2, <3>3, Zenon
  <2>4. CASE w \notin Putters(s, Workers)
    <3>1. consumed = 0
      BY <1>1, <2>4 DEF Putters
    <3>2. Putters(s, Rest) = Putters(s, Workers)
      BY <1>1, <2>4, OneWorker
    <3>3. Used(s, Workers) = Used(s, Rest) /\ Used(s, Rest) \in Nat
      BY <2>1, <3>2 DEF Used
    <3>4. Used(s, Workers) = consumed + Used(s, Rest)
      BY <3>1, <3>3
    <3> QED
      BY <2>1, <2>2, <3>4, Zenon
  <2> QED
    BY <2>3, <2>4
<1>5. s.remaining + s.reserved[w] - consumed \in Nat /\ s.inFlight - 1 \in Nat
  BY <1>2, <1>3, <1>4 DEF Accounts
<1> DEFINE pcs == [v \in Workers |-> IF s.pc[v] = "waiting" THEN "woken" ELSE s.pc[v]]
           kept == [s.reserved EXCEPT ![w] = 0]
<1>6. pcs \in [Workers -> WorkerStates \cup {"start"}] /\ kept \in [Workers -> 0 .. MaxChunkBytes]
  <2>1. pcs \in [Workers -> WorkerStates \cup {"start"}]
    BY <1>2 DEF WorkerStates
  <2>2. 0 \in 0 .. MaxChunkBytes
    BY <1>2
  <2> QED
    BY <1>2, <2>1, <2>2
<1>7. t = [s EXCEPT !.pc = pcs, !.attempt = s.attempt, !.reserved = kept,
                    !.remaining = s.remaining + s.reserved[w] - consumed,
                    !.inFlight = s.inFlight - 1]
  BY <1>1 DEF release, PoolTyped
<1>8. /\ PoolTyped(t)
      /\ t.remaining = s.remaining + s.reserved[w] - consumed
      /\ t.inFlight = s.inFlight - 1 /\ t.total = s.total
      /\ t.next = s.next /\ t.failure = s.failure /\ t.ref = s.ref
      /\ \A v \in Workers : t.pc[v] = IF s.pc[v] = "waiting" THEN "woken" ELSE s.pc[v]
      /\ \A v \in Rest : t.reserved[v] = s.reserved[v]
  <2>1. s.attempt \in [Workers -> 0 .. (Attempts - 1)]
    BY <1>1 DEF PoolTyped
  <2>2. /\ \A v \in Workers : pcs[v] = IF s.pc[v] = "waiting" THEN "woken" ELSE s.pc[v]
        /\ \A v \in Rest : kept[v] = s.reserved[v]
    BY <1>2
  <2> DEFINE left == s.remaining + s.reserved[w] - consumed
             busy == s.inFlight - 1
             tries == s.attempt
  <2> HIDE DEF t, pcs, kept, left, busy, tries
  <2>3. /\ PoolTyped(t)
        /\ t.remaining = left
        /\ t.inFlight = busy /\ t.total = s.total
        /\ t.next = s.next /\ t.failure = s.failure /\ t.ref = s.ref
        /\ t.pc = pcs /\ t.reserved = kept
    <3>1. /\ left \in Nat /\ busy \in Nat /\ PoolTyped(s)
          /\ tries \in [Workers -> 0 .. (Attempts - 1)]
      BY <1>1, <1>5, <2>1 DEF left, busy, tries
    <3>2. t = Holding(s, pcs, tries, kept, left, busy)
      BY <1>7 DEF left, busy, tries, Holding
    <3> QED
      BY <1>6, <3>1, <3>2 DEF PoolTyped, Holding
  <2> QED
    BY <2>2, <2>3 DEF left, busy
<1> HIDE DEF t, pcs, kept
<1>9. /\ Holders(t, Rest) = Holders(s, Rest) /\ Putters(t, Rest) = Putters(s, Rest)
      /\ Active(t, Rest) = Active(s, Rest)
      /\ \A v \in Rest : t.pc[v] # "waiting"
  BY <1>8 DEF Holders, Putters, Active
<1>10. Reserved(t, Rest) = Reserved(s, Rest) /\ Used(t, Rest) = Used(s, Rest)
  <2>1. \A v \in Putters(s, Rest) : s.ref[v] \in Refs
    BY <1>1 DEF Putters
  <2>2. \A v \in Holders(s, Rest) : t.reserved[v] = s.reserved[v]
    BY <1>8 DEF Holders
  <2> QED
    BY <1>1, <1>8, <1>9, <2>1, <2>2, SameAccounts
<1>11. t.inFlight = Cardinality(Holders(t, Rest))
  BY <1>4, <1>8, <1>9 DEF Accounts
<1>12. t.remaining + Reserved(t, Rest) + t.total - Used(t, Rest) = MaxTotalBytes
  <2> DEFINE r == Reserved(s, Rest)
             u == Used(s, Rest)
  <2>1. s.remaining + (s.reserved[w] + r) + s.total - (consumed + u) = MaxTotalBytes
    BY <1>4 DEF Accounts
  <2>2. r \in Nat /\ u \in Nat /\ MaxTotalBytes \in Nat
    BY <1>4, PoolFacts
  <2>3. Reserved(t, Rest) = r /\ Used(t, Rest) = u
    BY <1>10
  <2> HIDE DEF r, u
  <2>4. (s.remaining + s.reserved[w] - consumed) + r + s.total - u = MaxTotalBytes
    BY <1>2, <1>3, <2>1, <2>2
  <2> QED
    BY <1>8, <2>3, <2>4
<1>13. /\ \A v \in Putters(t, Rest) : Sizes[t.ref[v]] <= t.reserved[v]
       /\ \A v \in Active(t, Rest) : t.ref[v] \in Refs
  BY <1>8, <1>9 DEF Accounts, Putters, Active
<1>14. Accounts(t, Rest)
  BY <1>8, <1>9, <1>11, <1>12, <1>13 DEF Accounts
<1> QED
  BY <1>8, <1>14 DEF t

(* reserve() puts a worker into the accounts: with a reservation, or waiting for
   one that another holds, or refused. *)
LEMMA ReserveKeeps ==
    ASSUME NEW s, NEW w \in Workers, Accounts(s, Workers \ {w}), s.ref[w] \in Refs
    PROVE  /\ Accounts(reserve(s, w), Workers)
           /\ reserve(s, w).next = s.next /\ reserve(s, w).failure = s.failure
           /\ reserve(s, w).ref = s.ref
           /\ reserve(s, w).pc[w] \in {"fetching", "waiting", "refused"}
           /\ \A v \in Workers \ {w} : reserve(s, w).pc[v] = s.pc[v]
<1> DEFINE Rest == Workers \ {w}
           t == reserve(s, w)
           m == Min({MaxChunkBytes, s.remaining})
<1>1. /\ PoolTyped(s) /\ \A v \in Putters(s, Rest) : s.ref[v] \in Refs
  BY DEF Accounts, Holders, Putters, Active
<1>2. /\ s.remaining \in Nat /\ s.total \in Nat /\ s.inFlight \in Nat
      /\ s.reserved \in [Workers -> 0 .. MaxChunkBytes]
      /\ s.pc \in [Workers -> WorkerStates \cup {"start"}]
      /\ MaxChunkBytes \in Nat /\ m \in 0 .. MaxChunkBytes /\ m <= s.remaining
  BY <1>1, PoolFacts DEF PoolTyped
<1>3. /\ Reserved(s, Rest) \in Nat /\ Used(s, Rest) \in Nat
      /\ Cardinality(Holders(s, Rest)) \in Nat
      /\ IsFiniteSet(Holders(s, Rest)) /\ IsFiniteSet(Putters(s, Rest))
  BY <1>1, AccountFacts
<1>4. CASE s.remaining = 0
  <2>1. PICK to \in {"waiting", "refused"} :
           /\ t = [s EXCEPT !.pc[w] = to] /\ (to = "waiting" => s.inFlight > 0)
    BY <1>4 DEF reserve
  <2> HIDE DEF t
  <2>2. /\ t.next = s.next /\ t.failure = s.failure /\ t.ref = s.ref
        /\ t.total = s.total /\ t.remaining = s.remaining /\ t.inFlight = s.inFlight
        /\ t.reserved = s.reserved
        /\ t.pc = [s.pc EXCEPT ![w] = to]
        /\ PoolTyped(t)
    BY <1>1, <2>1 DEF PoolTyped, WorkerStates
  <2>3. t.pc[w] = to /\ \A v \in Rest : t.pc[v] = s.pc[v]
    BY <1>2, <2>2
  <2>4. /\ Holders(t, Workers) = Holders(s, Rest) /\ Putters(t, Workers) = Putters(s, Rest)
        /\ Active(t, Workers) = Active(s, Rest) \cup {w}
    BY <2>1, <2>3 DEF Holders, Putters, Active
  <2>5. Reserved(t, Workers) = Reserved(s, Rest) /\ Used(t, Workers) = Used(s, Rest)
    BY <1>1, <2>2, <2>4, SameAccounts
  <2>6. (\E v \in Workers : t.pc[v] = "waiting") => Holders(t, Workers) # {}
    <3>1. to = "waiting" => Holders(s, Rest) # {}
      BY <1>3, <2>1, FS_EmptySet DEF Accounts
    <3> QED
      BY <2>3, <2>4, <3>1 DEF Accounts
  <2>7. /\ \A v \in Putters(t, Workers) : Sizes[t.ref[v]] <= t.reserved[v]
        /\ \A v \in Active(t, Workers) : t.ref[v] \in Refs
    BY <2>2, <2>4 DEF Accounts
  <2>8. Accounts(t, Workers)
    BY <2>2, <2>4, <2>5, <2>6, <2>7 DEF Accounts
  <2> QED
    BY <2>1, <2>2, <2>3, <2>8 DEF t
<1>5. CASE s.remaining # 0
  <2> DEFINE pcs == [s.pc EXCEPT ![w] = "fetching"]
             tries == [s.attempt EXCEPT ![w] = 0]
             kept == [s.reserved EXCEPT ![w] = m]
  <2>1. t = [s EXCEPT !.pc = pcs, !.attempt = tries, !.reserved = kept,
                      !.remaining = s.remaining - m, !.inFlight = s.inFlight + 1]
    <3>1. t = [s EXCEPT !.pc[w] = "fetching", !.attempt[w] = 0, !.reserved[w] = m,
                        !.remaining = @ - m, !.inFlight = @ + 1]
      BY <1>5 DEF reserve
    <3> HIDE DEF t, m
    <3> QED
      BY <1>1, <3>1 DEF PoolTyped
  <2>2. /\ pcs \in [Workers -> WorkerStates \cup {"start"}]
        /\ tries \in [Workers -> 0 .. (Attempts - 1)]
        /\ kept \in [Workers -> 0 .. MaxChunkBytes]
        /\ s.remaining - m \in Nat /\ s.inFlight + 1 \in Nat
    <3>1. 0 \in 0 .. (Attempts - 1) /\ s.attempt \in [Workers -> 0 .. (Attempts - 1)]
      BY <1>1, PoolFacts DEF PoolTyped
    <3> HIDE DEF m
    <3> QED
      BY <1>2, <3>1 DEF WorkerStates
  <2> HIDE DEF t, m
  <2>3. /\ PoolTyped(t)
        /\ t.next = s.next /\ t.failure = s.failure /\ t.ref = s.ref
        /\ t.total = s.total /\ t.remaining = s.remaining - m /\ t.inFlight = s.inFlight + 1
        /\ t.reserved = kept /\ t.pc = pcs
    <3> DEFINE left == s.remaining - m
               busy == s.inFlight + 1
    <3>1. left \in Nat /\ busy \in Nat
      BY <2>2
    <3>2. t = Holding(s, pcs, tries, kept, left, busy)
      BY <2>1 DEF Holding
    <3>4. /\ pcs \in [Workers -> WorkerStates \cup {"start"}]
          /\ tries \in [Workers -> 0 .. (Attempts - 1)]
          /\ kept \in [Workers -> 0 .. MaxChunkBytes]
      BY <2>2
    <3> HIDE DEF pcs, tries, kept, left, busy
    <3>5. PoolTyped(s)
      BY <1>1
    <3>3. /\ PoolTyped(t)
          /\ t.pc = pcs /\ t.attempt = tries /\ t.reserved = kept
          /\ t.remaining = left /\ t.inFlight = busy
          /\ t.next = s.next /\ t.total = s.total /\ t.failure = s.failure
          /\ t.ref = s.ref
      BY <3>1, <3>2, <3>4, <3>5 DEF PoolTyped, Holding
    <3> QED
      BY <3>3 DEF left, busy
  <2>4. /\ t.pc[w] = "fetching" /\ \A v \in Rest : t.pc[v] = s.pc[v]
        /\ t.reserved[w] = m /\ \A v \in Rest : t.reserved[v] = s.reserved[v]
    BY <1>2, <2>3
  <2>5. /\ Holders(t, Workers) = Holders(s, Rest) \cup {w} /\ w \notin Holders(s, Rest)
        /\ Holders(t, Rest) = Holders(s, Rest) /\ Putters(t, Rest) = Putters(s, Rest)
        /\ Putters(t, Workers) = Putters(s, Rest) /\ w \notin Putters(t, Workers)
        /\ Active(t, Workers) = Active(s, Rest) \cup {w}
    BY <2>4 DEF Holders, Putters, Active
  <2>6. Reserved(t, Rest) = Reserved(s, Rest) /\ Used(t, Rest) = Used(s, Rest)
    <3>1. \A v \in Holders(s, Rest) : t.reserved[v] = s.reserved[v]
      BY <2>4 DEF Holders
    <3>2. \A v \in Putters(s, Rest) : t.ref[v] = s.ref[v]
      BY <2>3
    <3>3. Rest \in SUBSET Workers
      OBVIOUS
    <3>4. /\ PoolTyped(s) /\ PoolTyped(t) /\ \A v \in Putters(s, Rest) : s.ref[v] \in Refs
          /\ Holders(t, Rest) = Holders(s, Rest) /\ Putters(t, Rest) = Putters(s, Rest)
      BY <1>1, <2>3, <2>5
    <3> HIDE DEF Rest
    <3> QED
      BY <3>1, <3>2, <3>3, <3>4, SameAccounts
  <2>7. /\ Reserved(t, Workers) = m + Reserved(s, Rest)
        /\ Cardinality(Holders(t, Workers)) = Cardinality(Holders(s, Rest)) + 1
        /\ Used(t, Workers) = Used(s, Rest)
    <3>1. \A v \in Putters(t, Workers) : t.ref[v] \in Refs
      BY <1>1, <2>3, <2>5
    <3>2. w \in Holders(t, Workers) /\ w \notin Putters(t, Workers)
      BY <2>5
    <3>3. Reserved(t, Workers) = t.reserved[w] + Reserved(t, Rest)
      BY <2>3, <3>1, <3>2, OneWorker
    <3>4. Cardinality(Holders(t, Workers)) = Cardinality(Holders(s, Rest)) + 1
      BY <1>3, <2>5, FS_AddElement
    <3>5. Used(t, Workers) = Used(t, Rest)
      BY <2>5 DEF Used
    <3> QED
      BY <2>4, <2>6, <3>3, <3>4, <3>5
  <2>8. t.remaining + Reserved(t, Workers) + t.total - Used(t, Workers) = MaxTotalBytes
    BY <1>2, <1>3, <2>3, <2>7, PoolFacts DEF Accounts
  <2>9. /\ \A v \in Putters(t, Workers) : Sizes[t.ref[v]] <= t.reserved[v]
        /\ \A v \in Active(t, Workers) : t.ref[v] \in Refs
    <3>1. \A v \in Putters(s, Rest) : t.reserved[v] = s.reserved[v]
      BY <2>4 DEF Putters
    <3> QED
      BY <2>3, <2>5, <3>1 DEF Accounts
  <2>10. Accounts(t, Workers)
    BY <2>3, <2>5, <2>7, <2>8, <2>9 DEF Accounts
  <2> QED
    BY <2>3, <2>4, <2>10 DEF t
<1> QED
  BY <1>4, <1>5

(* take(): a worker that is in no account takes the next chunk, or is done. *)
LEMMA TakeKeeps ==
    ASSUME NEW s, NEW w \in Workers, NEW st,
           Accounts(s, Workers \ {w}), Claims(s, st, Workers \ {w}, {})
    PROVE  Accounts(take(s, w), Workers) /\ Claims(take(s, w), st, Workers, {})
<1> DEFINE Rest == Workers \ {w}
           t == take(s, w)
<1>1. /\ PoolTyped(s) /\ \A v \in Putters(s, Rest) : s.ref[v] \in Refs
  BY DEF Accounts, Holders, Putters, Active
<1>2. /\ s.next \in 1 .. (Len(Sizes) + 1) /\ s.ref \in [Workers -> Refs \cup {0}]
      /\ s.pc \in [Workers -> WorkerStates \cup {"start"}]
      /\ s.attempt \in [Workers -> 0 .. (Attempts - 1)]
      /\ Refs = 1 .. Len(Sizes) /\ Len(Sizes) \in Nat /\ 0 \in 0 .. (Attempts - 1)
  BY <1>1, PoolFacts DEF PoolTyped
<1>3. CASE s.failure # "none" \/ s.next \notin Refs
  <2>1. t = [s EXCEPT !.pc[w] = "done", !.ref[w] = 0, !.attempt[w] = 0]
    BY <1>3 DEF take
  <2> DEFINE pcs == [s.pc EXCEPT ![w] = "done"]
             refs == [s.ref EXCEPT ![w] = 0]
             tries == [s.attempt EXCEPT ![w] = 0]
             following == s.next
  <2>a. t = Taking(s, pcs, refs, tries, following)
    BY <1>1, <2>1 DEF PoolTyped, Taking
  <2>b. /\ pcs \in [Workers -> WorkerStates \cup {"start"}]
        /\ refs \in [Workers -> Refs \cup {0}]
        /\ tries \in [Workers -> 0 .. (Attempts - 1)]
        /\ following \in 1 .. (Len(Sizes) + 1)
    BY <1>2 DEF WorkerStates
  <2>2. /\ t.next = s.next /\ t.failure = s.failure /\ t.total = s.total
        /\ t.remaining = s.remaining /\ t.inFlight = s.inFlight /\ t.reserved = s.reserved
        /\ t.pc = pcs /\ t.ref = refs /\ PoolTyped(t)
    <3>1. PoolTyped(s)
      BY <1>1
    <3> HIDE DEF t, pcs, refs, tries, following
    <3>2. /\ t.next = following /\ t.failure = s.failure /\ t.total = s.total
          /\ t.remaining = s.remaining /\ t.inFlight = s.inFlight /\ t.reserved = s.reserved
          /\ t.pc = pcs /\ t.ref = refs /\ PoolTyped(t)
      BY <2>a, <2>b, <3>1 DEF PoolTyped, Taking
    <3> QED
      BY <3>2 DEF following
  <2>3. PoolTyped(t)
    BY <2>2
  <2> HIDE DEF t
  <2>4. /\ t.pc[w] = "done"
        /\ \A v \in Rest : t.pc[v] = s.pc[v] /\ t.ref[v] = s.ref[v]
    BY <1>2, <2>2
  <2>5. /\ Holders(t, Workers) = Holders(s, Rest) /\ Putters(t, Workers) = Putters(s, Rest)
        /\ Active(t, Workers) = Active(s, Rest)
    BY <2>4 DEF Holders, Putters, Active
  <2>6. \A v \in Active(s, Rest) : t.ref[v] = s.ref[v]
    BY <2>4 DEF Active
  <2>7. Reserved(t, Workers) = Reserved(s, Rest) /\ Used(t, Workers) = Used(s, Rest)
    <3>1. \A v \in Putters(s, Rest) : t.ref[v] = s.ref[v]
      BY <2>4 DEF Putters
    <3>2. /\ PoolTyped(s) /\ PoolTyped(t) /\ \A v \in Putters(s, Rest) : s.ref[v] \in Refs
          /\ \A v \in Holders(s, Rest) : t.reserved[v] = s.reserved[v]
          /\ Rest \in SUBSET Workers
      BY <1>1, <2>2, <2>3
    <3> HIDE DEF Rest
    <3> QED
      BY <2>5, <3>1, <3>2, SameAccounts
  <2>8. Accounts(t, Workers)
    <3>1. /\ \A v \in Putters(t, Workers) : Sizes[t.ref[v]] <= t.reserved[v]
          /\ \A v \in Active(t, Workers) : t.ref[v] \in Refs
      BY <2>2, <2>4, <2>5, <2>6 DEF Accounts, Putters
    <3>2. (\E v \in Workers : t.pc[v] = "waiting") => Holders(t, Workers) # {}
      BY <2>4, <2>5 DEF Accounts
    <3>3. /\ t.inFlight = Cardinality(Holders(t, Workers))
          /\ t.remaining + Reserved(t, Workers) + t.total - Used(t, Workers) = MaxTotalBytes
      BY <2>2, <2>5, <2>7 DEF Accounts
    <3> QED
      BY <2>3, <3>1, <3>2, <3>3 DEF Accounts
  <2>9. Claims(t, st, Workers, {})
    BY <1>3, <2>2, <2>4, <2>5, <2>6 DEF Claims
  <2> QED
    BY <2>8, <2>9 DEF t
<1>4. CASE ~(s.failure # "none" \/ s.next \notin Refs)
  <2> DEFINE q == [s EXCEPT !.ref[w] = s.next, !.next = @ + 1]
  <2>1. t = reserve(q, w)
    BY <1>4 DEF take
  <2>2. /\ q.next = s.next + 1 /\ q.failure = s.failure /\ q.total = s.total
        /\ q.remaining = s.remaining /\ q.inFlight = s.inFlight /\ q.reserved = s.reserved
        /\ q.pc = s.pc /\ q.ref = [s.ref EXCEPT ![w] = s.next]
    BY <1>1 DEF PoolTyped
  <2>3. PoolTyped(q)
    <3>1. s.next + 1 \in 1 .. (Len(Sizes) + 1) /\ s.next \in Refs
      BY <1>2, <1>4
    <3> QED
      BY <1>1, <1>2, <3>1 DEF PoolTyped
  <2> HIDE DEF q, t
  <2>4. /\ q.ref[w] = s.next /\ \A v \in Rest : q.ref[v] = s.ref[v]
        /\ s.next \in Refs /\ s.failure = "none"
    BY <1>2, <1>4, <2>2
  <2>5. /\ Holders(q, Rest) = Holders(s, Rest) /\ Putters(q, Rest) = Putters(s, Rest)
        /\ Active(q, Rest) = Active(s, Rest)
    BY <2>2 DEF Holders, Putters, Active
  <2>6. Reserved(q, Rest) = Reserved(s, Rest) /\ Used(q, Rest) = Used(s, Rest)
    <3>1. \A v \in Putters(s, Rest) : q.ref[v] = s.ref[v]
      BY <2>4 DEF Putters
    <3>2. /\ PoolTyped(s) /\ PoolTyped(q) /\ \A v \in Putters(s, Rest) : s.ref[v] \in Refs
          /\ \A v \in Holders(s, Rest) : q.reserved[v] = s.reserved[v]
          /\ Rest \in SUBSET Workers
      BY <1>1, <2>2, <2>3
    <3> HIDE DEF Rest
    <3> QED
      BY <2>5, <3>1, <3>2, SameAccounts
  <2>7. Accounts(q, Rest)
    <3>1. /\ \A v \in Putters(q, Rest) : Sizes[q.ref[v]] <= q.reserved[v]
          /\ \A v \in Active(q, Rest) : q.ref[v] \in Refs
      BY <2>2, <2>4, <2>5 DEF Accounts, Putters, Active
    <3>2. (\E v \in Rest : q.pc[v] = "waiting") => Holders(q, Rest) # {}
      BY <2>2, <2>5 DEF Accounts
    <3>3. /\ q.inFlight = Cardinality(Holders(q, Rest))
          /\ q.remaining + Reserved(q, Rest) + q.total - Used(q, Rest) = MaxTotalBytes
      BY <2>2, <2>5, <2>6 DEF Accounts
    <3> QED
      BY <2>3, <3>1, <3>2, <3>3 DEF Accounts
  <2>8. /\ Accounts(t, Workers) /\ t.next = q.next /\ t.failure = q.failure /\ t.ref = q.ref
        /\ t.pc[w] \in {"fetching", "waiting", "refused"}
        /\ \A v \in Rest : t.pc[v] = q.pc[v]
    BY <2>1, <2>4, <2>7, ReserveKeeps
  <2>9. /\ Active(t, Workers) = Active(s, Rest) \cup {w} /\ w \notin Active(s, Rest)
        /\ \A v \in Rest : t.pc[v] = s.pc[v]
    BY <2>2, <2>8 DEF Active
  <2>10. /\ t.next = s.next + 1 /\ t.failure = "none" /\ t.ref[w] = s.next
         /\ \A v \in Active(s, Rest) : t.ref[v] = s.ref[v]
    BY <2>2, <2>4, <2>8 DEF Active
  <2>11. Claims(t, st, Workers, {})
    <3>1. /\ st \in [Refs -> 0 .. 1] /\ st[s.next] = 0
          /\ \A r \in Refs : r >= t.next => st[r] = 0
      BY <1>2, <2>4, <2>10 DEF Claims
    <3>2. ASSUME NEW v \in Active(t, Workers)
          PROVE  /\ t.ref[v] \in Refs /\ t.ref[v] < t.next /\ st[t.ref[v]] = 0
                 /\ \A u \in Active(t, Workers) : t.ref[u] = t.ref[v] => u = v
      <4>1. \A u \in Active(s, Rest) : t.ref[u] \in Refs /\ t.ref[u] < s.next /\ st[t.ref[u]] = 0
        BY <2>10 DEF Claims
      <4>2. CASE v = w
        <5>1. /\ t.ref[v] \in Refs /\ t.ref[v] < t.next /\ st[t.ref[v]] = 0
              /\ t.ref[v] = s.next
          BY <1>2, <2>4, <2>10, <3>1, <4>2
        <5>2. ASSUME NEW u \in Active(s, Rest) PROVE t.ref[u] # s.next
          <6>1. t.ref[u] \in Refs /\ t.ref[u] < s.next
            BY <4>1
          <6>2. t.ref[u] \in Int /\ s.next \in Int
            BY <1>2, <6>1
          <6> QED
            BY <6>1, <6>2
        <5> QED
          BY <2>9, <4>2, <5>1, <5>2
      <4>3. CASE v # w
        <5>1. v \in Active(s, Rest)
          BY <2>9, <4>3
        <5>2. /\ t.ref[v] \in Refs /\ t.ref[v] < s.next /\ st[t.ref[v]] = 0
              /\ t.ref[v] < t.next /\ t.ref[v] # s.next
          <6>1. t.ref[v] \in Refs /\ t.ref[v] < s.next /\ st[t.ref[v]] = 0
            BY <4>1, <5>1
          <6>2. t.ref[v] \in Int /\ s.next \in Int
            BY <1>2, <6>1
          <6> QED
            BY <2>10, <6>1, <6>2
        <5>3. \A u \in Active(s, Rest) : t.ref[u] = t.ref[v] => u = v
          BY <2>10, <5>1 DEF Claims
        <5> QED
          BY <2>9, <2>10, <5>2, <5>3
      <4> QED
        BY <4>2, <4>3
    <3>3. ASSUME NEW r \in Refs, r < t.next
          PROVE  st[r] = 1 \/ \E v \in Active(t, Workers) : t.ref[v] = r
      <4>1. CASE r = s.next
        BY <2>9, <2>10, <4>1
      <4>2. CASE r # s.next
        <5>1. r < s.next
          BY <1>2, <2>10, <3>3, <4>2
        <5>2. st[r] = 1 \/ r \in {} \/ \E v \in Active(s, Rest) : s.ref[v] = r
          BY <2>4, <5>1 DEF Claims
        <5> QED
          BY <2>9, <2>10, <5>2
      <4> QED
        BY <4>1, <4>2
    <3>4. \A v \in Workers : t.pc[v] # "done"
      BY <2>4, <2>8, <2>9 DEF Claims
    <3> QED
      BY <3>1, <3>2, <3>3, <3>4 DEF Claims
  <2> QED
    BY <2>8, <2>11 DEF t
<1> QED
  BY <1>3, <1>4

(* A worker that holds no reservation is in no sum. *)
LEMMA LeaveOut ==
    ASSUME NEW s, NEW w \in Workers, Accounts(s, Workers),
           s.pc[w] \notin {"fetching", "putting"}
    PROVE  Accounts(s, Workers \ {w})
<1> DEFINE Rest == Workers \ {w}
<1>1. /\ Holders(s, Rest) = Holders(s, Workers) /\ Putters(s, Rest) = Putters(s, Workers)
      /\ Active(s, Rest) \subseteq Active(s, Workers)
  BY DEF Holders, Putters, Active
<1>2. Reserved(s, Rest) = Reserved(s, Workers) /\ Used(s, Rest) = Used(s, Workers)
  BY <1>1 DEF Reserved, Used
<1>3. (\E v \in Rest : s.pc[v] = "waiting") => Holders(s, Rest) # {}
  BY <1>1 DEF Accounts
<1> QED
  BY <1>1, <1>2, <1>3 DEF Accounts

(* A worker that is done is in no sum and has no chunk; after a failure nothing
   is asked of the chunk it had. *)
LEMMA DoneJoins ==
    ASSUME NEW s, NEW st, NEW w \in Workers,
           Accounts(s, Workers \ {w}), Claims(s, st, Workers \ {w}, {}), s.failure # "none"
    PROVE  LET t == [s EXCEPT !.pc[w] = "done"]
           IN  Accounts(t, Workers) /\ Claims(t, st, Workers, {})
<1> DEFINE Rest == Workers \ {w}
           t == [s EXCEPT !.pc[w] = "done"]
<1>1. PoolTyped(s) /\ \A v \in Putters(s, Rest) : s.ref[v] \in Refs
  BY DEF Accounts, Holders, Putters, Active
<1>2. /\ PoolTyped(t)
      /\ t.next = s.next /\ t.failure = s.failure /\ t.ref = s.ref /\ t.total = s.total
      /\ t.remaining = s.remaining /\ t.inFlight = s.inFlight /\ t.reserved = s.reserved
      /\ t.pc[w] = "done" /\ \A v \in Rest : t.pc[v] = s.pc[v]
  BY <1>1 DEF PoolTyped, WorkerStates
<1> HIDE DEF t
<1>3. /\ Holders(t, Workers) = Holders(s, Rest) /\ Putters(t, Workers) = Putters(s, Rest)
      /\ Active(t, Workers) = Active(s, Rest)
  BY <1>2 DEF Holders, Putters, Active
<1>4. Reserved(t, Workers) = Reserved(s, Rest) /\ Used(t, Workers) = Used(s, Rest)
  BY <1>1, <1>2, <1>3, SameAccounts
<1>5. (\E v \in Workers : t.pc[v] = "waiting") => Holders(t, Workers) # {}
  BY <1>2, <1>3 DEF Accounts
<1>6. Accounts(t, Workers)
  BY <1>2, <1>3, <1>4, <1>5 DEF Accounts
<1>7. Claims(t, st, Workers, {})
  BY <1>2, <1>3 DEF Claims
<1> QED
  BY <1>6, <1>7 DEF t

(* failWith(), and the assignment of an exhausted budget. *)
LEMMA FailKeeps ==
    ASSUME NEW s, NEW st, NEW error \in Failures \ {"none"},
           Accounts(s, Workers), Claims(s, st, Workers, {})
    PROVE  LET t == [s EXCEPT !.failure = error]
           IN  /\ Accounts(t, Workers) /\ Claims(t, st, Workers, {})
               /\ t.failure = error /\ t.pc = s.pc /\ t.ref = s.ref /\ t.reserved = s.reserved
               /\ PoolTyped(t)
<1> DEFINE t == [s EXCEPT !.failure = error]
<1>1. PoolTyped(s) /\ \A v \in Putters(s, Workers) : s.ref[v] \in Refs
  BY DEF Accounts, Holders, Putters, Active
<1>2. /\ PoolTyped(t) /\ t.failure = error
      /\ t.next = s.next /\ t.ref = s.ref /\ t.total = s.total /\ t.pc = s.pc
      /\ t.remaining = s.remaining /\ t.inFlight = s.inFlight /\ t.reserved = s.reserved
  BY <1>1 DEF PoolTyped
<1> HIDE DEF t
<1>3. /\ Holders(t, Workers) = Holders(s, Workers) /\ Putters(t, Workers) = Putters(s, Workers)
      /\ Active(t, Workers) = Active(s, Workers)
  BY <1>2 DEF Holders, Putters, Active
<1>4. Reserved(t, Workers) = Reserved(s, Workers) /\ Used(t, Workers) = Used(s, Workers)
  BY <1>1, <1>2, <1>3, SameAccounts
<1>5. (\E v \in Workers : t.pc[v] = "waiting") => Holders(t, Workers) # {}
  BY <1>2, <1>3 DEF Accounts
<1>6. Accounts(t, Workers)
  BY <1>2, <1>3, <1>4, <1>5 DEF Accounts
<1>7. Claims(t, st, Workers, {})
  BY <1>2, <1>3 DEF Claims
<1> QED
  BY <1>2, <1>6, <1>7 DEF t

(* failWith() keeps an earlier failure. *)
LEMMA FailWithKeeps ==
    ASSUME NEW s, NEW st, NEW error \in Failures \ {"none"},
           Accounts(s, Workers), Claims(s, st, Workers, {})
    PROVE  LET t == failWith(s, error)
           IN  /\ Accounts(t, Workers) /\ Claims(t, st, Workers, {})
               /\ t.failure # "none" /\ t.pc = s.pc /\ t.ref = s.ref /\ t.reserved = s.reserved
<1>1. PoolTyped(s)
  BY DEF Accounts
<1>2. CASE s.failure = "none"
  <2>1. failWith(s, error) = [s EXCEPT !.failure = error]
    BY <1>2 DEF failWith
  <2> QED
    BY <2>1, FailKeeps
<1>3. CASE s.failure # "none"
  <2>1. failWith(s, error) = s
    BY <1>1, <1>3 DEF failWith, PoolTyped
  <2> QED
    BY <1>3, <2>1
<1> QED
  BY <1>2, <1>3

(* The chunk of the worker that released: stored, or lost in a failure. *)
LEMMA ReleaseClaims ==
    ASSUME NEW s, NEW st, NEW w \in Holders(s, Workers), NEW t,
           PoolTyped(s), Claims(s, st, Workers, {}),
           t.next = s.next, t.failure = s.failure, t.ref = s.ref,
           \A v \in Workers : t.pc[v] = IF s.pc[v] = "waiting" THEN "woken" ELSE s.pc[v]
    PROVE  /\ s.failure # "none" => Claims(t, st, Workers \ {w}, {})
           /\ Claims(t, [st EXCEPT ![s.ref[w]] = @ + 1], Workers \ {w}, {})
<1> DEFINE Rest == Workers \ {w}
           r == s.ref[w]
           put == [st EXCEPT ![r] = @ + 1]
<1>1. /\ w \in Active(s, Workers) /\ w \in Workers
      /\ Active(t, Rest) = Active(s, Workers) \ {w}
      /\ \A v \in Rest : t.pc[v] = "done" => s.pc[v] = "done"
  BY DEF Holders, Active
<1>2. /\ r \in Refs /\ r < s.next /\ st[r] = 0 /\ st \in [Refs -> 0 .. 1]
      /\ \A v \in Active(s, Workers) : s.ref[v] = r => v = w
  BY <1>1 DEF Claims
<1>3. s.failure # "none" => Claims(t, st, Rest, {})
  BY <1>1 DEF Claims
<1>4. Claims(t, put, Rest, {})
  <2>1. /\ put \in [Refs -> 0 .. 1] /\ put[r] = 1
        /\ \A x \in Refs \ {r} : put[x] = st[x]
    BY <1>2
  <2>2. s.next \in Int /\ \A x \in Refs : x \in Int
    BY PoolFacts DEF PoolTyped
  <2>3. ASSUME NEW v \in Active(t, Rest)
        PROVE  /\ t.ref[v] \in Refs \ {} /\ t.ref[v] < t.next /\ put[t.ref[v]] = 0
               /\ \A u \in Active(t, Rest) : t.ref[u] = t.ref[v] => u = v
    <3>1. v \in Active(s, Workers) /\ v # w
      BY <1>1, <2>3
    <3>2. s.ref[v] # r
      BY <1>2, <3>1
    <3>3. /\ s.ref[v] \in Refs /\ s.ref[v] < s.next /\ st[s.ref[v]] = 0
          /\ \A u \in Active(s, Workers) : s.ref[u] = s.ref[v] => u = v
      BY <3>1 DEF Claims
    <3> QED
      BY <1>1, <2>1, <3>2, <3>3
  <2>4. ASSUME NEW x \in Refs, x >= t.next PROVE put[x] = 0
    <3>1. x # r /\ st[x] = 0
      BY <1>2, <2>2, <2>4 DEF Claims
    <3> QED
      BY <2>1, <3>1
  <2>5. ASSUME t.failure = "none", NEW x \in Refs, x < t.next
        PROVE  put[x] = 1 \/ x \in {} \/ \E v \in Active(t, Rest) : t.ref[v] = x
    <3>1. CASE x = r
      BY <2>1, <3>1
    <3>2. CASE x # r
      <4>1. st[x] = 1 \/ \E v \in Active(s, Workers) : s.ref[v] = x
        BY <2>5 DEF Claims
      <4> QED
        BY <1>1, <2>1, <3>2, <4>1
    <3> QED
      BY <3>1, <3>2
  <2>6. t.failure = "none" => \A v \in Rest : t.pc[v] = "done" => t.next \notin Refs
    BY <1>1 DEF Claims
  <2> HIDE DEF put, r
  <2> QED
    BY <2>1, <2>3, <2>4, <2>5, <2>6 DEF Claims
<1> QED
  BY <1>3, <1>4

(* A worker releases after a failure, and looks for the next chunk. *)
LEMMA ReleaseTake ==
    ASSUME NEW s, NEW st, NEW w \in Holders(s, Workers), NEW consumed, s.failure # "none",
           consumed = IF s.pc[w] = "putting" THEN Sizes[s.ref[w]] ELSE 0,
           Accounts(s, Workers), Claims(s, st, Workers, {})
    PROVE  LET t == take(release(s, w, consumed), w)
           IN  Accounts(t, Workers) /\ Claims(t, st, Workers, {})
<1> DEFINE r == release(s, w, consumed)
<1>1. /\ Accounts(r, Workers \ {w}) /\ r.next = s.next /\ r.failure = s.failure
      /\ r.ref = s.ref
      /\ \A v \in Workers : r.pc[v] = IF s.pc[v] = "waiting" THEN "woken" ELSE s.pc[v]
  BY ReleaseKeeps
<1>2. PoolTyped(s) /\ w \in Workers
  BY DEF Accounts, Holders
<1> HIDE DEF r
<1>3. Claims(r, st, Workers \ {w}, {})
  BY <1>1, <1>2, ReleaseClaims
<1>4. Accounts(take(r, w), Workers) /\ Claims(take(r, w), st, Workers, {})
  BY <1>1, <1>2, <1>3, TakeKeeps
<1> QED
  BY <1>4 DEF r

(* The pool starts with all of its budget. *)
LEMMA PoolStarts == PoolInit => PoolSound
<1> SUFFICES ASSUME PoolInit PROVE PoolSound
  OBVIOUS
<1>1. /\ pool = [next |-> 1, total |-> 0, remaining |-> MaxTotalBytes,
                 inFlight |-> 0, failure |-> "none",
                 pc |-> [w \in Workers |-> "start"],
                 ref |-> [w \in Workers |-> 0],
                 attempt |-> [w \in Workers |-> 0],
                 reserved |-> [w \in Workers |-> 0]]
      /\ stored = [r \in Refs |-> 0] /\ faults = 0
  BY DEF PoolInit
<1>2. PoolTyped(pool)
  <2>1. /\ 1 \in 1 .. (Len(Sizes) + 1) /\ 0 \in 0 .. (Attempts - 1) /\ 0 \in 0 .. MaxChunkBytes
        /\ MaxTotalBytes \in Nat /\ "none" \in Failures
    BY PoolFacts DEF Failures
  <2> QED
    BY <1>1, <2>1 DEF PoolTyped
<1>3. /\ Holders(pool, Workers) = {} /\ Putters(pool, Workers) = {} /\ Active(pool, Workers) = {}
      /\ \A v \in Workers : pool.pc[v] = "start"
  BY <1>1 DEF Holders, Putters, Active
<1>4. Reserved(pool, Workers) = 0 /\ Used(pool, Workers) = 0
  BY <1>3, SumRules, FS_EmptySet DEF Reserved, Used
<1>5. /\ pool.inFlight = Cardinality(Holders(pool, Workers))
      /\ pool.remaining + Reserved(pool, Workers) + pool.total - Used(pool, Workers)
           = MaxTotalBytes
  <2>1. pool.inFlight = 0 /\ pool.total = 0 /\ pool.remaining = MaxTotalBytes
    BY <1>1
  <2> QED
    BY <1>3, <1>4, <2>1, PoolFacts, FS_EmptySet
<1>6. Accounts(pool, Workers)
  BY <1>2, <1>3, <1>5 DEF Accounts
<1>7. Claims(pool, stored, Workers, {})
  <2>1. pool.next = 1 /\ pool.failure = "none" /\ \A r \in Refs : r >= 1 /\ ~(r < 1)
    BY <1>1, PoolFacts
  <2>2. stored \in [Refs -> 0 .. 1] /\ \A r \in Refs : stored[r] = 0
    BY <1>1
  <2> QED
    BY <1>3, <2>1, <2>2 DEF Claims
<1>8. faults \in 0 .. MaxFaults
  BY <1>1, FetchPoolAssumption
<1> QED
  BY <1>6, <1>7, <1>8 DEF PoolSound

(* A worker starts: it has claimed nothing yet. *)
LEMMA StartKeeps ==
    ASSUME PoolSound, NEW w \in Workers, Start(w)
    PROVE  PoolSound'
<1>1. /\ pool.pc[w] = "start" /\ pool' = take(pool, w)
      /\ stored' = stored /\ faults' = faults
  BY DEF Start
<1>2. Accounts(pool, Workers \ {w})
  BY <1>1, LeaveOut DEF PoolSound
<1>3. Claims(pool, stored, Workers \ {w}, {})
  <2>1. Active(pool, Workers \ {w}) = Active(pool, Workers)
    BY <1>1 DEF Active
  <2> QED
    BY <2>1 DEF PoolSound, Claims
<1>4. Accounts(take(pool, w), Workers) /\ Claims(take(pool, w), stored, Workers, {})
  BY <1>2, <1>3, TakeKeeps
<1> QED
  BY <1>1, <1>4 DEF PoolSound

(* A woken worker keeps the chunk it claimed. *)
LEMMA WokenKeeps ==
    ASSUME PoolSound, NEW w \in Workers, Woken(w)
    PROVE  PoolSound'
<1>1. /\ pool.pc[w] = "woken" /\ pool' = reserve(pool, w)
      /\ stored' = stored /\ faults' = faults
  BY DEF Woken
<1>2. Accounts(pool, Workers \ {w})
  BY <1>1, LeaveOut DEF PoolSound
<1>3. w \in Active(pool, Workers) /\ pool.ref[w] \in Refs
  BY <1>1 DEF Active, PoolSound, Accounts
<1>4. /\ Accounts(pool', Workers) /\ pool'.next = pool.next /\ pool'.failure = pool.failure
      /\ pool'.ref = pool.ref /\ pool'.pc[w] \in {"fetching", "waiting", "refused"}
      /\ \A v \in Workers \ {w} : pool'.pc[v] = pool.pc[v]
  BY <1>1, <1>2, <1>3, ReserveKeeps
<1>5. Active(pool', Workers) = Active(pool, Workers)
  BY <1>3, <1>4 DEF Active
<1>6. Claims(pool', stored, Workers, {})
  BY <1>4, <1>5 DEF PoolSound, Claims
<1> QED
  BY <1>1, <1>4, <1>6 DEF PoolSound

(* A refused worker fails the pool, and gives its chunk up. *)
LEMMA RefusedKeeps ==
    ASSUME PoolSound, NEW w \in Workers, Refused(w)
    PROVE  PoolSound'
<1> DEFINE q == [pool EXCEPT !.failure = "cap"]
<1>1. /\ pool.pc[w] = "refused" /\ pool' = [pool EXCEPT !.failure = "cap", !.pc[w] = "done"]
      /\ stored' = stored /\ faults' = faults
  BY DEF Refused
<1>2. /\ Accounts(q, Workers) /\ Claims(q, stored, Workers, {})
      /\ q.failure = "cap" /\ q.pc = pool.pc
  BY FailKeeps DEF PoolSound, Failures
<1>3. pool' = [q EXCEPT !.pc[w] = "done"]
  BY <1>1 DEF PoolSound, Accounts, PoolTyped
<1> HIDE DEF q
<1>4. Accounts(q, Workers \ {w})
  BY <1>1, <1>2, LeaveOut
<1>5. Claims(q, stored, Workers \ {w}, {})
  BY <1>2 DEF Claims, Active
<1>6. Accounts(pool', Workers) /\ Claims(pool', stored, Workers, {})
  BY <1>2, <1>3, <1>4, <1>5, DoneJoins
<1> QED
  BY <1>1, <1>6 DEF PoolSound

(* A response after a failure is dropped, with its reservation. *)
LEMMA DroppedKeeps ==
    ASSUME PoolSound, NEW w \in Workers, Fetched(w), pool.failure # "none"
    PROVE  PoolSound'
<1> DEFINE r == release(pool, w, 0)
<1>1. /\ pool.pc[w] = "fetching" /\ pool' = [r EXCEPT !.pc[w] = "done"]
      /\ stored' = stored /\ faults' = faults /\ w \in Holders(pool, Workers)
  BY DEF Fetched, Holders
<1>2. Accounts(pool, Workers) /\ Claims(pool, stored, Workers, {}) /\ PoolTyped(pool)
  BY DEF PoolSound, Accounts
<1>3. /\ Accounts(r, Workers \ {w}) /\ r.next = pool.next /\ r.failure = pool.failure
      /\ r.ref = pool.ref
      /\ \A v \in Workers : r.pc[v] = IF pool.pc[v] = "waiting" THEN "woken" ELSE pool.pc[v]
  <2>1. 0 = IF pool.pc[w] = "putting" THEN Sizes[pool.ref[w]] ELSE 0
    BY <1>1
  <2> QED
    BY <1>1, <1>2, <2>1, ReleaseKeeps
<1> HIDE DEF r
<1>4. Claims(r, stored, Workers \ {w}, {})
  BY <1>1, <1>2, <1>3, ReleaseClaims
<1>5. Accounts(pool', Workers) /\ Claims(pool', stored, Workers, {})
  BY <1>1, <1>3, <1>4, DoneJoins
<1> QED
  BY <1>1, <1>5, <1>2 DEF PoolSound

(* An accepted response counts at once, and is still in its reservation. *)
LEMMA AcceptedKeeps ==
    ASSUME PoolSound, NEW w \in Workers, Fetched(w), pool.failure = "none"
    PROVE  PoolSound'
<1> DEFINE size == Sizes[pool.ref[w]]
           Rest == Workers \ {w}
           s == pool
           t == pool'
<1>1. /\ s.pc[w] = "fetching" /\ size <= s.reserved[w]
      /\ t = [s EXCEPT !.total = @ + size, !.pc[w] = "putting"]
      /\ stored' = stored /\ faults' = faults
  BY DEF Fetched
<1>2. Accounts(s, Workers) /\ Claims(s, stored, Workers, {}) /\ PoolTyped(s)
  BY DEF PoolSound, Accounts
<1>3. w \in Active(s, Workers) /\ s.ref[w] \in Refs /\ size \in Nat
  BY <1>1, <1>2, PoolFacts DEF Active, Accounts
<1>4. /\ PoolTyped(t) /\ t.total = s.total + size
      /\ t.next = s.next /\ t.failure = s.failure /\ t.ref = s.ref
      /\ t.remaining = s.remaining /\ t.inFlight = s.inFlight /\ t.reserved = s.reserved
      /\ t.pc[w] = "putting" /\ \A v \in Rest : t.pc[v] = s.pc[v]
  <2> HIDE DEF size, t, s
  <2>1. s.total + size \in Nat
    BY <1>2, <1>3 DEF PoolTyped
  <2> DEFINE pcs == [s.pc EXCEPT ![w] = "putting"]
             sum == s.total + size
  <2>2. t = [s EXCEPT !.total = sum, !.pc = pcs]
    BY <1>1
  <2>3. pcs \in [Workers -> WorkerStates \cup {"start"}] /\ sum \in Nat
    BY <1>2, <2>1 DEF PoolTyped, WorkerStates
  <2>4. pcs[w] = "putting" /\ \A v \in Rest : pcs[v] = s.pc[v]
    BY <1>2 DEF PoolTyped
  <2> HIDE DEF pcs, sum
  <2>5. /\ PoolTyped(t) /\ t.total = sum
        /\ t.next = s.next /\ t.failure = s.failure /\ t.ref = s.ref
        /\ t.remaining = s.remaining /\ t.inFlight = s.inFlight /\ t.reserved = s.reserved
        /\ t.pc = pcs
    BY <1>2, <2>2, <2>3 DEF PoolTyped
  <2> QED
    BY <2>4, <2>5 DEF sum
<1> HIDE DEF size, t, s
<1>5. /\ Holders(t, Workers) = Holders(s, Workers) /\ Active(t, Workers) = Active(s, Workers)
      /\ Putters(t, Workers) = Putters(s, Workers) \cup {w} /\ w \notin Putters(s, Workers)
      /\ Putters(t, Rest) = Putters(s, Rest) /\ Holders(t, Rest) = Holders(s, Rest)
  BY <1>1, <1>4 DEF Holders, Putters, Active
<1>6. /\ \A v \in Putters(s, Workers) : s.ref[v] \in Refs
      /\ \A v \in Putters(t, Workers) : t.ref[v] \in Refs
  BY <1>2, <1>3, <1>4, <1>5 DEF Putters, Active, Accounts
<1>7. Reserved(t, Workers) = Reserved(s, Workers)
  BY <1>4, <1>5 DEF Reserved
<1>8. Used(t, Workers) = size + Used(s, Workers) /\ Used(s, Workers) \in Nat
      /\ Reserved(s, Workers) \in Nat
  <2>1. Used(t, Workers) = Sizes[t.ref[w]] + Used(t, Rest)
    BY <1>4, <1>5, <1>6, OneWorker
  <2>2. Used(t, Rest) = Used(s, Rest)
    <3>1. \A v \in Putters(s, Rest) : s.ref[v] \in Refs
      BY <1>6 DEF Putters
    <3>2. \A v \in Holders(s, Rest) : t.reserved[v] = s.reserved[v]
      BY <1>4
    <3>3. \A v \in Putters(s, Rest) : t.ref[v] = s.ref[v]
      BY <1>4
    <3>4. Rest \in SUBSET Workers
      OBVIOUS
    <3> HIDE DEF Rest
    <3> QED
      BY <1>2, <1>4, <1>5, <3>1, <3>2, <3>3, <3>4, SameAccounts
  <2>3. Used(s, Rest) = Used(s, Workers)
    <3>1. Putters(s, Rest) = Putters(s, Workers)
      BY <1>5 DEF Putters
    <3> QED
      BY <3>1 DEF Used
  <2>4. Used(s, Workers) \in Nat /\ Reserved(s, Workers) \in Nat
    BY <1>2, <1>6, AccountFacts
  <2> QED
    BY <1>4, <2>1, <2>2, <2>3, <2>4 DEF size, s
<1>9. t.remaining + Reserved(t, Workers) + t.total - Used(t, Workers) = MaxTotalBytes
  <2>1. /\ s.remaining + Reserved(s, Workers) + s.total - Used(s, Workers) = MaxTotalBytes
        /\ s.remaining \in Nat /\ s.total \in Nat
    BY <1>2 DEF Accounts, PoolTyped
  <2> QED
    BY <1>3, <1>4, <1>7, <1>8, <2>1
<1>10. \A v \in Putters(t, Workers) : Sizes[t.ref[v]] <= t.reserved[v]
  BY <1>1, <1>2, <1>4, <1>5 DEF Accounts, size, s
<1>11. (\E v \in Workers : t.pc[v] = "waiting") => Holders(t, Workers) # {}
  BY <1>2, <1>4, <1>5 DEF Accounts
<1>12. Accounts(t, Workers)
  BY <1>2, <1>4, <1>5, <1>9, <1>10, <1>11 DEF Accounts
<1>13. Claims(t, stored, Workers, {})
  BY <1>2, <1>4, <1>5 DEF Claims
<1> QED
  BY <1>1, <1>12, <1>13 DEF PoolSound, t

(* A failed fetch releases all of its reservation. *)
LEMMA FetchFails ==
    ASSUME PoolSound, NEW w \in Workers, pool.pc[w] = "fetching",
           NEW error \in Failures \ {"none"},
           pool' = take(release(failWith(pool, error), w, 0), w), stored' = stored,
           faults' \in 0 .. MaxFaults
    PROVE  PoolSound'
<1> DEFINE q == failWith(pool, error)
<1>1. /\ Accounts(q, Workers) /\ Claims(q, stored, Workers, {})
      /\ q.failure # "none" /\ q.pc = pool.pc
  BY FailWithKeeps DEF PoolSound
<1> HIDE DEF q
<1>2. w \in Holders(q, Workers) /\ 0 = IF q.pc[w] = "putting" THEN Sizes[q.ref[w]] ELSE 0
  BY <1>1 DEF Holders
<1>3. LET t == take(release(q, w, 0), w)
      IN  Accounts(t, Workers) /\ Claims(t, stored, Workers, {})
  BY <1>1, <1>2, ReleaseTake
<1> QED
  BY <1>3 DEF PoolSound, q

(* A failed attempt is tried again, or fails the pool. *)
LEMMA FetchErrorKeeps ==
    ASSUME PoolSound, NEW w \in Workers, FetchError(w)
    PROVE  PoolSound'
<1>1. /\ pool.pc[w] = "fetching" /\ stored' = stored /\ faults' \in 0 .. MaxFaults
  BY FetchPoolAssumption DEF FetchError, Fault, PoolSound
<1>2. CASE pool' = take(release(failWith(pool, "network"), w, 0), w)
  BY <1>1, <1>2, FetchFails DEF Failures
<1>3. CASE pool' = take(release(failWith(pool, "integrity"), w, 0), w)
  BY <1>1, <1>3, FetchFails DEF Failures
<1>4. CASE pool.attempt[w] + 1 < Attempts /\ pool' = [pool EXCEPT !.attempt[w] = @ + 1]
  <2> DEFINE s == pool
             t == pool'
  <2>1. Accounts(s, Workers) /\ Claims(s, stored, Workers, {}) /\ PoolTyped(s)
    BY DEF PoolSound, Accounts
  <2>2. /\ PoolTyped(t) /\ t.total = s.total /\ t.pc = s.pc
        /\ t.next = s.next /\ t.failure = s.failure /\ t.ref = s.ref
        /\ t.remaining = s.remaining /\ t.inFlight = s.inFlight /\ t.reserved = s.reserved
    <3> HIDE DEF s, t
    <3> DEFINE tries == [s.attempt EXCEPT ![w] = @ + 1]
    <3>1. tries \in [Workers -> 0 .. (Attempts - 1)]
      <4>1. s.attempt[w] \in 0 .. (Attempts - 1) /\ s.attempt[w] + 1 < Attempts
        BY <1>4, <2>1 DEF PoolTyped, s
      <4>2. s.attempt[w] + 1 \in 0 .. (Attempts - 1)
        BY <4>1, PoolFacts
      <4> QED
        BY <2>1, <4>2 DEF PoolTyped
    <3>2. t = [s EXCEPT !.attempt = tries]
      BY <1>4, <2>1 DEF s, t, PoolTyped
    <3> HIDE DEF tries
    <3> QED
      BY <2>1, <3>1, <3>2 DEF PoolTyped
  <2> HIDE DEF s, t
  <2>3. /\ Holders(t, Workers) = Holders(s, Workers) /\ Active(t, Workers) = Active(s, Workers)
        /\ Putters(t, Workers) = Putters(s, Workers)
    BY <2>2 DEF Holders, Putters, Active
  <2>4. Reserved(t, Workers) = Reserved(s, Workers) /\ Used(t, Workers) = Used(s, Workers)
    BY <2>2, <2>3 DEF Reserved, Used
  <2>5. Accounts(t, Workers)
    BY <2>1, <2>2, <2>3, <2>4 DEF Accounts
  <2>6. Claims(t, stored, Workers, {})
    BY <2>1, <2>2, <2>3 DEF Claims
  <2> QED
    BY <1>1, <2>5, <2>6 DEF PoolSound, t
<1> QED
  BY <1>2, <1>3, <1>4 DEF FetchError

(* A put ends: the chunk is stored, or the store refuses it. *)
LEMMA PutKeeps ==
    ASSUME PoolSound, NEW w \in Workers, Put(w)
    PROVE  PoolSound'
<1> DEFINE consumed == Sizes[pool.ref[w]]
<1>1. pool.pc[w] = "putting" /\ w \in Holders(pool, Workers)
  BY DEF Put, Holders
<1>2. Accounts(pool, Workers) /\ Claims(pool, stored, Workers, {}) /\ PoolTyped(pool)
  BY DEF PoolSound, Accounts
<1>3. CASE /\ stored' = [stored EXCEPT ![pool.ref[w]] = @ + 1]
           /\ pool' = take(release(pool, w, consumed), w) /\ faults' = faults
  <2> DEFINE r == release(pool, w, consumed)
  <2>1. /\ Accounts(r, Workers \ {w}) /\ r.next = pool.next /\ r.failure = pool.failure
        /\ r.ref = pool.ref
        /\ \A v \in Workers : r.pc[v] = IF pool.pc[v] = "waiting" THEN "woken" ELSE pool.pc[v]
    <3>1. consumed = IF pool.pc[w] = "putting" THEN Sizes[pool.ref[w]] ELSE 0
      BY <1>1
    <3> HIDE DEF consumed, r
    <3>2. r = release(pool, w, consumed)
      BY DEF r
    <3> QED
      BY <1>1, <1>2, <3>1, <3>2, ReleaseKeeps
  <2> HIDE DEF r
  <2>2. Claims(r, [stored EXCEPT ![pool.ref[w]] = @ + 1], Workers \ {w}, {})
    BY <1>1, <1>2, <2>1, ReleaseClaims
  <2>3. Claims(r, stored', Workers \ {w}, {})
    BY <1>3, <2>2
  <2>4. Accounts(take(r, w), Workers) /\ Claims(take(r, w), stored', Workers, {})
    BY <2>1, <2>3, TakeKeeps
  <2> QED
    BY <1>3, <2>4 DEF PoolSound, r
<1>4. CASE /\ Fault /\ stored' = stored
           /\ pool' = take(release(failWith(pool, "storage"), w, consumed), w)
  <2> DEFINE q == failWith(pool, "storage")
  <2>1. /\ Accounts(q, Workers) /\ Claims(q, stored, Workers, {})
        /\ q.failure # "none" /\ q.pc = pool.pc /\ q.ref = pool.ref
    BY <1>2, FailWithKeeps DEF Failures
  <2> HIDE DEF q
  <2>2. /\ w \in Holders(q, Workers)
        /\ consumed = IF q.pc[w] = "putting" THEN Sizes[q.ref[w]] ELSE 0
    BY <1>1, <2>1 DEF Holders
  <2> HIDE DEF consumed
  <2>3. LET t == take(release(q, w, consumed), w)
        IN  Accounts(t, Workers) /\ Claims(t, stored, Workers, {})
    BY <2>1, <2>2, ReleaseTake
  <2>4. faults' \in 0 .. MaxFaults
    BY <1>4, FetchPoolAssumption DEF Fault, PoolSound
  <2> QED
    BY <1>4, <2>3, <2>4 DEF PoolSound, q
<1> QED
  BY <1>3, <1>4 DEF Put

(* Every step of every worker. *)
LEMMA PoolKeeps ==
    ASSUME PoolSound, PoolNext
    PROVE  PoolSound'
<1>1. PICK w \in Workers : WorkerStep(w)
  BY DEF PoolNext
<1>2. CASE Start(w)
  BY <1>2, StartKeeps
<1>3. CASE Woken(w)
  BY <1>3, WokenKeeps
<1>4. CASE Refused(w)
  BY <1>4, RefusedKeeps
<1>5. CASE Fetched(w)
  BY <1>5, DroppedKeeps, AcceptedKeeps
<1>6. CASE TooLarge(w)
  <2>1. /\ pool.pc[w] = "fetching" /\ stored' = stored /\ faults' \in 0 .. MaxFaults
        /\ pool' = take(release(failWith(pool, "cap"), w, 0), w)
    BY <1>6 DEF TooLarge, PoolSound
  <2> QED
    BY <2>1, FetchFails DEF Failures
<1>7. CASE FetchError(w)
  BY <1>7, FetchErrorKeeps
<1>8. CASE Put(w)
  BY <1>8, PutKeeps
<1> QED
  BY <1>1, <1>2, <1>3, <1>4, <1>5, <1>6, <1>7, <1>8 DEF WorkerStep

(* What is accepted and reserved and not yet put is within the cap. *)
LEMMA AccountsBound ==
    ASSUME PoolSound
    PROVE  /\ BudgetConserved /\ CapHolds
           /\ pool.total \in 0 .. MaxTotalBytes /\ pool.remaining \in 0 .. MaxTotalBytes
<1>1. /\ PoolTyped(pool) /\ Accounts(pool, Workers)
      /\ \A v \in Putters(pool, Workers) : pool.ref[v] \in Refs
  BY DEF PoolSound, Accounts, Putters, Active
<1>2. holding = Holders(pool, Workers) /\ putting = Putters(pool, Workers)
  BY DEF holding, putting, Holders, Putters
<1> DEFINE H == Holders(pool, Workers)
           P == Putters(pool, Workers)
           f == pool.reserved
           e == [v \in P |-> Sizes[pool.ref[v]]]
           R == SumFunctionOnSet(f, H)
           U == SumFunctionOnSet(e, P)
           N == SumFunctionOnSet(f, H \ P)
<1>3. /\ IsFiniteSet(H) /\ P \in SUBSET H /\ \A v \in H : f[v] \in Nat
      /\ R = Reserved(pool, Workers) /\ U = Used(pool, Workers) /\ R \in Nat /\ U \in Nat
  BY <1>1, AccountFacts DEF Reserved, Used, Holders
<1>4. \A v \in P : e[v] \in Nat /\ e[v] <= f[v]
  BY <1>1, PoolFacts DEF Accounts
<1> HIDE DEF H, P, f, e
<1>5. N + U <= R
  BY <1>3, <1>4, SumSplits
<1>6. N \in Nat
  <2>1. H \ P \in SUBSET H
    OBVIOUS
  <2>2. IsFiniteSet(H \ P) /\ \A v \in H \ P : f[v] \in Nat
    BY <1>3, <2>1, FS_Subset
  <2> QED
    BY <2>2, SumRules
<1>7. /\ pool.remaining + R + pool.total - U = MaxTotalBytes
      /\ pool.remaining \in Nat /\ pool.total \in Nat /\ MaxTotalBytes \in Nat
      /\ pool.inFlight = Cardinality(H)
  BY <1>1, <1>3, PoolFacts DEF Accounts, PoolTyped, H
<1>8. BudgetConserved
  BY <1>2, <1>7 DEF BudgetConserved, H, P, f, e
<1>9. /\ pool.total + N <= MaxTotalBytes
      /\ pool.total \in 0 .. MaxTotalBytes /\ pool.remaining \in 0 .. MaxTotalBytes
  <2> HIDE DEF N, R, U
  <2> QED
    BY <1>3, <1>5, <1>6, <1>7
<1>10. CapHolds
  BY <1>2, <1>9 DEF CapHolds, H, P, f
<1> QED
  BY <1>8, <1>9, <1>10

(* The pool's invariant, from its accounts and its claims. *)
LEMMA PoolMeans == PoolSound => PoolInvariant
<1> SUFFICES ASSUME PoolSound PROVE PoolInvariant
  OBVIOUS
<1>1. /\ BudgetConserved /\ CapHolds
      /\ pool.total \in 0 .. MaxTotalBytes /\ pool.remaining \in 0 .. MaxTotalBytes
  BY AccountsBound
<1>2. PoolTypeOK
  <2>1. pool.inFlight \in 0 .. Cardinality(Workers)
    <3>1. holding \in SUBSET Workers
      BY DEF holding
    <3>2. /\ Cardinality(holding) <= Cardinality(Workers)
          /\ Cardinality(holding) \in Nat /\ Cardinality(Workers) \in Nat
      BY <3>1, FetchPoolAssumption, FS_Subset, FS_CardinalityType
    <3> QED
      BY <1>1, <3>2 DEF BudgetConserved
  <2>2. stored \in [Refs -> 0 .. 2] /\ faults \in 0 .. MaxFaults /\ PoolTyped(pool)
    <3>1. stored \in [Refs -> 0 .. 1]
      BY DEF PoolSound, Claims
    <3> QED
      BY <3>1 DEF PoolSound, Accounts
  <2> QED
    BY <1>1, <2>1, <2>2 DEF PoolTypeOK, PoolTyped
<1>3. NoLostWakeup
  <2>1. holding = Holders(pool, Workers)
    BY DEF holding, Holders
  <2> QED
    BY <2>1 DEF NoLostWakeup, PoolSound, Accounts
<1>4. SuccessIsComplete
  <2> SUFFICES ASSUME Finished, pool.failure = "none", NEW r \in Refs
               PROVE  stored[r] = 1
    BY DEF SuccessIsComplete
  <2>1. PICK w \in Workers : TRUE
    BY FetchPoolAssumption
  <2>2. pool.next \notin Refs /\ Active(pool, Workers) = {}
    BY <2>1 DEF Finished, Active, PoolSound, Claims
  <2>3. r < pool.next
    BY <2>2, PoolFacts, <1>2 DEF PoolTypeOK
  <2> QED
    BY <2>2, <2>3 DEF PoolSound, Claims
<1> QED
  BY <1>1, <1>2, <1>3, <1>4 DEF PoolInvariant

-----------------------------------------------------------------------------
(* The read-back.  The lemmas about chunkReader are on any state r of it.    *)

ReaderTyped(r) ==
    r \in [active : 0 .. MaxReads, failure : BOOLEAN, waiting : Seq(Hashes),
           run : [Hashes -> RunStates]]

Reads(r) == {h \in Hashes : r.run[h] = "reading"}

(* A chunk waits for its turn if, and only if, it is in the queue, once. *)
Tidy(r) ==
    /\ ReaderTyped(r)
    /\ IsFiniteSet(Reads(r)) /\ r.active = Cardinality(Reads(r))
    /\ \A i, j \in DOMAIN r.waiting : r.waiting[i] = r.waiting[j] => i = j
    /\ \A h \in Hashes : r.run[h] = "waiting" <=> \E i \in DOMAIN r.waiting : r.waiting[i] = h

(* Somebody's turn ends, or has just been passed on. *)
Moving(r) ==
    r.waiting # <<>> => Reads(r) # {} \/ \E h \in Hashes : r.run[h] = "woken"

PassTyped ==
    /\ outer \in [next : 1 .. (Len(Files) + 1), failed : BOOLEAN,
                  worker : [workers(Len(Files)) -> WorkerAt(DOMAIN Files)]]
    /\ inner = [f \in DOMAIN Files |-> inner[f]]
    /\ \A f \in DOMAIN Files :
          inner[f] \in [next : 1 .. (Len(Files[f]) + 1), failed : BOOLEAN, open : BOOLEAN,
                        worker : [workers(Len(Files[f])) -> WorkerAt(DOMAIN Files[f])]]

(* A read in flight has a caller, in an open file. *)
Called(h) ==
    \E f \in DOMAIN Files : inner[f].open /\ \E w \in workers(Len(Files[f])) : Awaits(f, w, h)

(* An open file has a caller; one that was taken and is closed has ended. *)
FilesInOrder ==
    \A f \in DOMAIN Files :
       /\ inner[f].open => \E v \in workers(Len(Files)) : outer.worker[v] = Await(f)
       /\ f < outer.next /\ ~inner[f].open =>
             \A w \in workers(Len(Files[f])) : inner[f].worker[w] = Done

(* A worker ends for a failure, or because all items are taken. *)
EndsComplete ==
    /\ \A v \in workers(Len(Files)) :
          outer.worker[v] = Done /\ ~outer.failed => outer.next = Len(Files) + 1
    /\ \A f \in DOMAIN Files : \A w \in workers(Len(Files[f])) :
          inner[f].worker[w] = Done /\ ~inner[f].failed => inner[f].next = Len(Files[f]) + 1

OuterTrouble ==
    outer.failed \/ \E v \in workers(Len(Files)) : outer.worker[v].at = "error"

InnerTrouble(f) ==
    inner[f].failed \/ \E w \in workers(Len(Files[f])) : inner[f].worker[w].at = "error"

(* A failure is on its way to the end of the pass, until it is there. *)
FailureKept ==
    /\ reader.failure =>
          \/ OuterTrouble
          \/ \E f \in DOMAIN Files : inner[f].open /\ InnerTrouble(f)
          \/ \E h \in Hashes : reader.run[h] = "rejected"
    /\ \A f \in DOMAIN Files : inner[f].failed => inner[f].open \/ OuterTrouble

ReaderSound ==
    /\ Tidy(reader) /\ Moving(reader)
    /\ PassTyped
    /\ \A h \in Hashes : reader.run[h] # "none" => Called(h)
    /\ FilesInOrder
    /\ EndsComplete
    /\ FailureKept

(* waiting.push(...): a chunk joins the queue at its end. *)
LEMMA QueueAppend ==
    ASSUME NEW q \in Seq(Hashes), NEW h \in Hashes
    PROVE  /\ Append(q, h) \in Seq(Hashes) /\ Append(q, h) # <<>>
           /\ DOMAIN q = 1 .. Len(q) /\ Len(q) \in Nat
           /\ DOMAIN Append(q, h) = 1 .. (Len(q) + 1)
           /\ \A i \in 1 .. Len(q) : Append(q, h)[i] = q[i]
           /\ Append(q, h)[Len(q) + 1] = h
  OBVIOUS

(* waiting.shift(): the queue without its first chunk. *)
LEMMA QueueTail ==
    ASSUME NEW q \in Seq(Hashes), q # <<>>
    PROVE  /\ Head(q) = q[1] /\ Head(q) \in Hashes
           /\ Tail(q) \in Seq(Hashes)
           /\ Len(q) \in Nat \ {0} /\ DOMAIN q = 1 .. Len(q)
           /\ DOMAIN Tail(q) = 1 .. (Len(q) - 1)
           /\ \A i \in 1 .. (Len(q) - 1) : Tail(q)[i] = q[i + 1]
  OBVIOUS

(* A finite set that gains or loses one element (a chunk being read). *)
LEMMA OneRead ==
    ASSUME NEW S, IsFiniteSet(S), NEW x
    PROVE  /\ Cardinality(S) \in Nat
           /\ IsFiniteSet(S \cup {x}) /\ IsFiniteSet(S \ {x})
           /\ x \notin S => Cardinality(S \cup {x}) = Cardinality(S) + 1
           /\ x \in S => Cardinality(S \ {x}) = Cardinality(S) - 1
           /\ S # {} => Cardinality(S) > 0
<1>1. Cardinality(S) \in Nat
  BY FS_CardinalityType
<1>2. IsFiniteSet(S \cup {x}) /\ (x \notin S => Cardinality(S \cup {x}) = Cardinality(S) + 1)
  BY FS_AddElement
<1>3. IsFiniteSet(S \ {x}) /\ (x \in S => Cardinality(S \ {x}) = Cardinality(S) - 1)
  BY FS_RemoveElement
<1>4. S # {} => Cardinality(S) > 0
  BY <1>1, FS_EmptySet
<1> QED
  BY <1>1, <1>2, <1>3, <1>4

(* waiting.shift()?.() makes the first one look again, and nobody else. *)
LEMMA WakeKeeps ==
    ASSUME NEW r, Tidy(r)
    PROVE  LET t == wakeNext(r)
           IN  /\ Tidy(t) /\ t.failure = r.failure /\ t.active = r.active
               /\ \A h \in Hashes : \/ t.run[h] = r.run[h]
                                    \/ r.run[h] = "waiting" /\ t.run[h] = "woken"
               /\ t.waiting # <<>> => \E h \in Hashes : r.run[h] = "waiting" /\ t.run[h] = "woken"
<1> DEFINE t == wakeNext(r)
           q == r.waiting
<1>1. /\ q \in Seq(Hashes) /\ r.run \in [Hashes -> RunStates] /\ ReaderTyped(r)
      /\ \A i, j \in DOMAIN q : q[i] = q[j] => i = j
      /\ \A h \in Hashes : r.run[h] = "waiting" <=> \E i \in DOMAIN q : q[i] = h
  BY DEF Tidy, ReaderTyped
<1>2. CASE q = <<>>
  <2>1. t = r
    BY <1>2 DEF wakeNext
  <2> QED
    BY <1>2, <2>1
<1>3. CASE q # <<>>
  <2> DEFINE front == Head(q)
             rest == Tail(q)
             runs == [r.run EXCEPT ![front] = "woken"]
  <2>1. t = [r EXCEPT !.run = runs, !.waiting = rest]
    BY <1>1, <1>3 DEF wakeNext, ReaderTyped
  <2>2. /\ front = q[1] /\ front \in Hashes /\ rest \in Seq(Hashes)
        /\ Len(q) \in Nat \ {0} /\ DOMAIN q = 1 .. Len(q)
        /\ DOMAIN rest = 1 .. (Len(q) - 1)
        /\ \A i \in 1 .. (Len(q) - 1) : rest[i] = q[i + 1]
    BY <1>1, <1>3, QueueTail
  <2>3. /\ runs \in [Hashes -> RunStates] /\ runs[front] = "woken"
        /\ \A h \in Hashes \ {front} : runs[h] = r.run[h]
    BY <1>1, <2>2 DEF RunStates
  <2>4. r.run[front] = "waiting"
    BY <1>1, <2>2
  <2> HIDE DEF t, q, front, rest, runs
  <2>5. /\ ReaderTyped(t) /\ t.run = runs /\ t.waiting = rest
        /\ t.failure = r.failure /\ t.active = r.active
    BY <1>1, <2>1, <2>2, <2>3 DEF ReaderTyped
  <2>6. Reads(t) = Reads(r)
    BY <2>3, <2>4, <2>5 DEF Reads
  <2>7. \A i, j \in DOMAIN rest : rest[i] = rest[j] => i = j
    <3> SUFFICES ASSUME NEW i \in DOMAIN rest, NEW j \in DOMAIN rest, rest[i] = rest[j]
                 PROVE  i = j
      OBVIOUS
    <3>1. /\ i \in Int /\ j \in Int /\ i + 1 \in DOMAIN q /\ j + 1 \in DOMAIN q
          /\ q[i + 1] = q[j + 1]
      BY <2>2
    <3>2. i + 1 = j + 1
      BY <1>1, <3>1
    <3> QED
      BY <3>1, <3>2
  <2>8. ASSUME NEW h \in Hashes
        PROVE  runs[h] = "waiting" <=> \E i \in DOMAIN rest : rest[i] = h
    <3>1. CASE h = front
      <4>1. ASSUME NEW i \in DOMAIN rest, rest[i] = h PROVE FALSE
        <5>1. i + 1 \in DOMAIN q /\ 1 \in DOMAIN q /\ q[i + 1] = q[1] /\ i \in Int /\ i >= 1
          BY <2>2, <3>1, <4>1
        <5>2. i + 1 = 1
          BY <1>1, <5>1
        <5> QED
          BY <5>1, <5>2
      <4> QED
        BY <2>3, <3>1, <4>1
    <3>2. CASE h # front
      <4>1. ASSUME NEW i \in DOMAIN rest, rest[i] = h PROVE \E k \in DOMAIN q : q[k] = h
        <5>1. i + 1 \in DOMAIN q /\ q[i + 1] = h
          BY <2>2, <4>1
        <5> QED
          BY <5>1
      <4>2. ASSUME NEW k \in DOMAIN q, q[k] = h PROVE \E i \in DOMAIN rest : rest[i] = h
        <5>1. k \in Int /\ k # 1 /\ k - 1 \in DOMAIN rest
          BY <2>2, <3>2, <4>2
        <5>2. rest[k - 1] = q[(k - 1) + 1] /\ (k - 1) + 1 = k
          BY <2>2, <5>1
        <5> QED
          BY <4>2, <5>1, <5>2
      <4> QED
        BY <1>1, <2>3, <3>2, <4>1, <4>2
    <3> QED
      BY <3>1, <3>2
  <2>9. Tidy(t)
    BY <2>5, <2>6, <2>7, <2>8 DEF Tidy
  <2>10. \A h \in Hashes : \/ t.run[h] = r.run[h]
                           \/ r.run[h] = "waiting" /\ t.run[h] = "woken"
    BY <2>3, <2>4, <2>5
  <2> QED
    BY <2>2, <2>3, <2>4, <2>5, <2>9, <2>10 DEF t
<1> QED
  BY <1>2, <1>3

(* run(): the read starts, or joins the queue behind reads that go on, or is
   refused after a failure and passes the turn on. *)
LEMMA RunKeeps ==
    ASSUME NEW r, Tidy(r), NEW h \in Hashes, r.run[h] \in {"none", "woken"}
    PROVE  LET t == run(r, h)
           IN  /\ Tidy(t) /\ Moving(t) /\ t.failure = r.failure
               /\ t.run[h] # "none"
               /\ \A g \in Hashes \ {h} : \/ t.run[g] = r.run[g]
                                          \/ r.run[g] = "waiting" /\ t.run[g] = "woken"
<1> DEFINE t == run(r, h)
<1>1. /\ ReaderTyped(r) /\ r.waiting \in Seq(Hashes) /\ r.run \in [Hashes -> RunStates]
      /\ r.active \in 0 .. MaxReads /\ MaxReads \in Nat \ {0}
      /\ \A i, j \in DOMAIN r.waiting : r.waiting[i] = r.waiting[j] => i = j
      /\ \A g \in Hashes : r.run[g] = "waiting" <=> \E i \in DOMAIN r.waiting : r.waiting[i] = g
      /\ IsFiniteSet(Reads(r)) /\ r.active = Cardinality(Reads(r))
  BY ChunkReaderAssumption DEF Tidy, ReaderTyped
<1>2. CASE r.active >= MaxReads
  <2> DEFINE q == r.waiting
             queue == Append(q, h)
             runs == [r.run EXCEPT ![h] = "waiting"]
  <2>1. t = [r EXCEPT !.waiting = queue, !.run = runs]
    BY <1>1, <1>2 DEF run, ReaderTyped
  <2>2. /\ queue \in Seq(Hashes) /\ DOMAIN q = 1 .. Len(q) /\ Len(q) \in Nat
        /\ DOMAIN queue = 1 .. (Len(q) + 1)
        /\ \A i \in 1 .. Len(q) : queue[i] = q[i]
        /\ queue[Len(q) + 1] = h
    BY <1>1, QueueAppend
  <2>3. /\ runs \in [Hashes -> RunStates] /\ runs[h] = "waiting"
        /\ \A g \in Hashes \ {h} : runs[g] = r.run[g]
    BY <1>1 DEF RunStates
  <2>4. \A i \in DOMAIN q : q[i] # h
    BY <1>1
  <2> HIDE DEF t, q, queue, runs
  <2>5. /\ ReaderTyped(t) /\ t.run = runs /\ t.waiting = queue
        /\ t.failure = r.failure /\ t.active = r.active
    BY <1>1, <2>1, <2>2, <2>3 DEF ReaderTyped
  <2>6. Reads(t) = Reads(r)
    BY <2>3, <2>5 DEF Reads
  <2>7. \A i, j \in DOMAIN queue : queue[i] = queue[j] => i = j
    <3> SUFFICES ASSUME NEW i \in DOMAIN queue, NEW j \in DOMAIN queue, queue[i] = queue[j]
                 PROVE  i = j
      OBVIOUS
    <3>1. \A k \in DOMAIN queue : k \in DOMAIN q \/ k = Len(q) + 1
      BY <2>2
    <3>2. \A k \in DOMAIN q : queue[k] = q[k]
      BY <2>2
    <3> QED
      BY <1>1, <2>2, <2>4, <3>1, <3>2 DEF q
  <2>8. ASSUME NEW g \in Hashes
        PROVE  runs[g] = "waiting" <=> \E i \in DOMAIN queue : queue[i] = g
    <3>1. \A k \in DOMAIN queue : k \in DOMAIN q \/ k = Len(q) + 1
      BY <2>2
    <3>2. /\ \A k \in DOMAIN q : queue[k] = q[k] /\ k \in DOMAIN queue
          /\ Len(q) + 1 \in DOMAIN queue
      BY <2>2
    <3>3. CASE g = h
      BY <2>2, <2>3, <3>2, <3>3
    <3>4. CASE g # h
      BY <1>1, <2>2, <2>3, <3>1, <3>2, <3>4 DEF q
    <3> QED
      BY <3>3, <3>4
  <2>9. Reads(t) # {}
    <3>1. r.active > 0
      BY <1>1, <1>2
    <3> QED
      BY <1>1, <2>6, <3>1, FS_EmptySet
  <2>10. Tidy(t) /\ Moving(t)
    BY <1>1, <2>5, <2>6, <2>7, <2>8, <2>9 DEF Tidy, Moving
  <2> QED
    BY <2>3, <2>5, <2>10 DEF t
<1>3. CASE ~(r.active >= MaxReads) /\ r.failure
  <2> DEFINE u == wakeNext(r)
             runs == [u.run EXCEPT ![h] = "rejected"]
  <2>1. t = [u EXCEPT !.run[h] = "rejected"]
    BY <1>3 DEF run
  <2>2. /\ Tidy(u) /\ u.failure = r.failure
        /\ \A g \in Hashes : \/ u.run[g] = r.run[g]
                             \/ r.run[g] = "waiting" /\ u.run[g] = "woken"
        /\ u.waiting # <<>> => \E g \in Hashes : r.run[g] = "waiting" /\ u.run[g] = "woken"
    BY WakeKeeps
  <2> HIDE DEF u
  <2>3. /\ ReaderTyped(u) /\ u.run \in [Hashes -> RunStates]
        /\ u.run[h] = r.run[h]
    BY <2>2 DEF Tidy, ReaderTyped
  <2>4. /\ runs \in [Hashes -> RunStates] /\ runs[h] = "rejected"
        /\ \A g \in Hashes \ {h} : runs[g] = u.run[g]
    BY <2>3 DEF RunStates
  <2>5. t = [u EXCEPT !.run = runs]
    BY <2>1, <2>3 DEF ReaderTyped
  <2> HIDE DEF t, runs
  <2>6. /\ ReaderTyped(t) /\ t.run = runs /\ t.waiting = u.waiting
        /\ t.failure = u.failure /\ t.active = u.active
    BY <2>3, <2>4, <2>5 DEF ReaderTyped
  <2>7. Reads(t) = Reads(u)
    BY <2>3, <2>4, <2>6 DEF Reads
  <2>8. \A g \in Hashes : t.run[g] = "waiting" <=> u.run[g] = "waiting"
    BY <2>3, <2>4, <2>6
  <2>9. Tidy(t)
    BY <2>2, <2>6, <2>7, <2>8 DEF Tidy
  <2>10. Moving(t)
    BY <2>2, <2>4, <2>6 DEF Moving
  <2> QED
    BY <2>2, <2>4, <2>6, <2>9, <2>10 DEF t
<1>4. CASE ~(r.active >= MaxReads) /\ ~r.failure
  <2> DEFINE runs == [r.run EXCEPT ![h] = "reading"]
             reads == r.active + 1
  <2>1. t = [r EXCEPT !.active = reads, !.run = runs]
    BY <1>1, <1>4 DEF run, ReaderTyped
  <2>2. /\ runs \in [Hashes -> RunStates] /\ runs[h] = "reading"
        /\ \A g \in Hashes \ {h} : runs[g] = r.run[g]
    BY <1>1 DEF RunStates
  <2>3. reads \in 0 .. MaxReads
    BY <1>1, <1>4
  <2> HIDE DEF t, runs, reads
  <2>4. /\ ReaderTyped(t) /\ t.run = runs /\ t.waiting = r.waiting
        /\ t.failure = r.failure /\ t.active = reads
    BY <1>1, <2>1, <2>2, <2>3 DEF ReaderTyped
  <2>5. Reads(t) = Reads(r) \cup {h} /\ h \notin Reads(r)
    BY <2>2, <2>4 DEF Reads
  <2>6. IsFiniteSet(Reads(t)) /\ t.active = Cardinality(Reads(t))
    BY <1>1, <2>4, <2>5, OneRead DEF reads
  <2>7. \A g \in Hashes : t.run[g] = "waiting" <=> r.run[g] = "waiting"
    BY <2>2, <2>4
  <2>8. Tidy(t)
    BY <1>1, <2>4, <2>6, <2>7 DEF Tidy
  <2>9. Moving(t)
    BY <2>5 DEF Moving
  <2> QED
    BY <2>2, <2>4, <2>8, <2>9 DEF t
<1> QED
  BY <1>2, <1>3, <1>4

-----------------------------------------------------------------------------
(* verifyReassembly starts with nothing in flight and no file open. *)
LEMMA ReaderStarts == ReaderInit => ReaderSound
<1> SUFFICES ASSUME ReaderInit PROVE ReaderSound
  OBVIOUS
<1>1. /\ reader = [active |-> 0, failure |-> FALSE, waiting |-> <<>>,
                   run |-> [h \in Hashes |-> "none"]]
      /\ outer = [next |-> 1, failed |-> FALSE, worker |-> Idle(Len(Files))]
      /\ inner = [f \in DOMAIN Files |->
                    [next |-> 1, failed |-> FALSE, open |-> FALSE,
                     worker |-> Idle(Len(Files[f]))]]
  BY DEF ReaderInit
<1>2. Tidy(reader) /\ Moving(reader)
  <2>1. ReaderTyped(reader)
    <3>1. 0 \in 0 .. MaxReads /\ <<>> \in Seq(Hashes)
      BY ChunkReaderAssumption
    <3> QED
      BY <1>1, <3>1 DEF ReaderTyped, RunStates
  <2>2. Reads(reader) = {} /\ DOMAIN reader.waiting = {} /\ reader.waiting = <<>>
    BY <1>1 DEF Reads
  <2> QED
    BY <1>1, <2>1, <2>2, FS_EmptySet DEF Tidy, Moving
<1>3. PassTyped
  <2>1. \A n : \A S : Idle(n) \in [workers(n) -> WorkerAt(S)]
    BY DEF Idle, WorkerAt
  <2>2. 1 \in 1 .. (Len(Files) + 1) /\ \A f \in DOMAIN Files : 1 \in 1 .. (Len(Files[f]) + 1)
    BY ChunkReaderAssumption
  <2> QED
    BY <1>1, <2>1, <2>2 DEF PassTyped
<1>4. \A h \in Hashes : reader.run[h] = "none"
  BY <1>1
<1>5. FilesInOrder
  <2>1. \A f \in DOMAIN Files : ~inner[f].open /\ ~(f < outer.next)
    BY <1>1, ChunkReaderAssumption
  <2> QED
    BY <2>1 DEF FilesInOrder
<1>6. EndsComplete
  <2>1. \A n : \A w \in workers(n) : Idle(n)[w] # Done
    BY DEF Idle, Done
  <2> QED
    BY <1>1, <2>1 DEF EndsComplete
<1>7. FailureKept
  BY <1>1 DEF FailureKept
<1> QED
  BY <1>2, <1>3, <1>4, <1>5, <1>6, <1>7 DEF ReaderSound

(* A read looks for a turn again. *)
LEMMA LookAgainKeeps ==
    ASSUME ReaderSound, NEW h \in Hashes, LookAgain(h)
    PROVE  ReaderSound'
<1>1. /\ reader.run[h] = "woken" /\ reader' = run(reader, h)
      /\ outer' = outer /\ inner' = inner
  BY DEF LookAgain
<1>2. /\ Tidy(reader') /\ Moving(reader') /\ reader'.failure = reader.failure
      /\ \A g \in Hashes \ {h} : \/ reader'.run[g] = reader.run[g]
                                 \/ reader.run[g] = "waiting" /\ reader'.run[g] = "woken"
  BY <1>1, RunKeeps DEF ReaderSound
<1>3. PassTyped' /\ FilesInOrder' /\ EndsComplete'
  BY <1>1 DEF ReaderSound, PassTyped, FilesInOrder, EndsComplete
<1>4. \A g \in Hashes : Called(g)' <=> Called(g)
  BY <1>1 DEF Called, Awaits
<1>5. \A g \in Hashes : reader'.run[g] # "none" => reader.run[g] # "none"
  BY <1>1, <1>2
<1>6. FailureKept'
  <2>1. \A g \in Hashes : reader.run[g] = "rejected" => reader'.run[g] = "rejected"
    BY <1>1, <1>2
  <2> QED
    BY <1>1, <1>2, <2>1 DEF ReaderSound, FailureKept, OuterTrouble, InnerTrouble
<1> QED
  BY <1>2, <1>3, <1>4, <1>5, <1>6 DEF ReaderSound

(* A read ends, and its turn goes to the next. *)
LEMMA GetChunkEndsKeeps ==
    ASSUME ReaderSound, NEW h \in Hashes, GetChunkEnds(h)
    PROVE  ReaderSound'
<1>1. PICK good \in BOOLEAN :
         /\ reader.run[h] = "reading"
         /\ reader' = wakeNext([reader EXCEPT
                        !.active = @ - 1,
                        !.failure = @ \/ ~ good,
                        !.run[h] = IF good THEN "read" ELSE "rejected"])
         /\ outer' = outer /\ inner' = inner
  BY DEF GetChunkEnds
<1> DEFINE ended == IF good THEN "read" ELSE "rejected"
           runs == [reader.run EXCEPT ![h] = ended]
           failure == reader.failure \/ ~good
           reads == reader.active - 1
           u == [reader EXCEPT !.active = reads, !.failure = failure, !.run = runs]
<1>2. /\ Tidy(reader) /\ ReaderTyped(reader) /\ reader.run \in [Hashes -> RunStates]
      /\ reader.active \in 0 .. MaxReads /\ reader.failure \in BOOLEAN
      /\ IsFiniteSet(Reads(reader)) /\ reader.active = Cardinality(Reads(reader))
      /\ h \in Reads(reader)
  BY <1>1 DEF ReaderSound, Tidy, ReaderTyped, Reads
<1>3. reader' = wakeNext(u)
  BY <1>1, <1>2 DEF ReaderTyped
<1>4. /\ runs \in [Hashes -> RunStates] /\ runs[h] = ended /\ ended \in {"read", "rejected"}
      /\ \A g \in Hashes \ {h} : runs[g] = reader.run[g]
  BY <1>2 DEF RunStates
<1>5. reads \in 0 .. MaxReads /\ failure \in BOOLEAN
  <2>1. reader.active > 0
    BY <1>2, OneRead
  <2> QED
    BY <1>2, <2>1, ChunkReaderAssumption
<1>6. ReaderTyped(u) /\ u.run = runs /\ u.failure = failure /\ u.active = reads
      /\ u.waiting = reader.waiting
  <2> HIDE DEF runs, failure, reads
  <2> QED
    BY <1>2, <1>4, <1>5 DEF ReaderTyped
<1> HIDE DEF u
<1>7. Tidy(u)
  <2>1. Reads(u) = Reads(reader) \ {h}
    BY <1>2, <1>4, <1>6 DEF Reads
  <2>2. IsFiniteSet(Reads(u)) /\ u.active = Cardinality(Reads(u))
    BY <1>2, <1>6, <2>1, OneRead
  <2>3. \A g \in Hashes : u.run[g] = "waiting" <=> reader.run[g] = "waiting"
    BY <1>1, <1>4, <1>6
  <2> QED
    BY <1>2, <1>6, <2>2, <2>3 DEF Tidy
<1>8. /\ Tidy(reader') /\ Moving(reader') /\ reader'.failure = failure
      /\ \A g \in Hashes : \/ reader'.run[g] = u.run[g]
                           \/ u.run[g] = "waiting" /\ reader'.run[g] = "woken"
  BY <1>3, <1>7, WakeKeeps, <1>6 DEF Moving
<1>9. PassTyped' /\ FilesInOrder' /\ EndsComplete'
  BY <1>1 DEF ReaderSound, PassTyped, FilesInOrder, EndsComplete
<1>10. \A g \in Hashes : Called(g)' <=> Called(g)
  BY <1>1 DEF Called, Awaits
<1>11. \A g \in Hashes : reader'.run[g] # "none" => reader.run[g] # "none"
  BY <1>1, <1>4, <1>6, <1>8
<1>12. FailureKept'
  <2>1. \A g \in Hashes : reader.run[g] = "rejected" => reader'.run[g] = "rejected"
    BY <1>1, <1>4, <1>6, <1>8
  <2>2. ~good => reader'.run[h] = "rejected"
    BY <1>4, <1>6, <1>8
  <2>3. reader'.failure => reader.failure \/ reader'.run[h] = "rejected"
    BY <1>8, <2>2
  <2> QED
    BY <1>1, <2>1, <2>3 DEF ReaderSound, FailureKept, OuterTrouble, InnerTrouble
<1> QED
  BY <1>8, <1>9, <1>10, <1>11, <1>12 DEF ReaderSound

(* The callers of a settled read are resumed; those of other reads stay. *)
LEMMA SettleReads ==
    ASSUME ReaderSound, NEW h \in Hashes, Settle(h)
    PROVE  ReaderSound'
<1> DEFINE good == reader.run[h] = "read"
           runs == [reader.run EXCEPT ![h] = "none"]
<1>1. /\ reader.run[h] \in {"read", "rejected"}
      /\ reader' = [reader EXCEPT !.run[h] = "none"]
      /\ inner' = [f \in DOMAIN Files |-> [inner[f] EXCEPT !.worker =
                     [w \in DOMAIN @ |-> IF Awaits(f, w, h) THEN Resumed(good) ELSE @[w]]]]
      /\ outer' = outer
  BY DEF Settle
<1>2. /\ Tidy(reader) /\ ReaderTyped(reader) /\ reader.run \in [Hashes -> RunStates]
      /\ PassTyped
  BY DEF ReaderSound, Tidy, ReaderTyped
<1>3. /\ runs \in [Hashes -> RunStates] /\ runs[h] = "none"
      /\ \A g \in Hashes \ {h} : runs[g] = reader.run[g]
      /\ reader' = [reader EXCEPT !.run = runs]
  BY <1>1, <1>2 DEF RunStates, ReaderTyped
<1>4. /\ ReaderTyped(reader') /\ reader'.run = runs /\ reader'.waiting = reader.waiting
      /\ reader'.active = reader.active /\ reader'.failure = reader.failure
  <2> HIDE DEF runs
  <2> QED
    BY <1>2, <1>3 DEF ReaderTyped
<1>5. Tidy(reader') /\ Moving(reader')
  <2>1. Reads(reader') = Reads(reader)
    BY <1>1, <1>3, <1>4 DEF Reads
  <2>2. \A g \in Hashes : reader'.run[g] = "waiting" <=> reader.run[g] = "waiting"
    BY <1>1, <1>3, <1>4
  <2>3. \A g \in Hashes : reader.run[g] = "woken" => reader'.run[g] = "woken"
    BY <1>1, <1>3, <1>4
  <2> QED
    BY <1>2, <1>4, <2>1, <2>2, <2>3 DEF Tidy, Moving, ReaderSound
<1>6. ASSUME NEW f \in DOMAIN Files
      PROVE  /\ inner'[f] \in [next : 1 .. (Len(Files[f]) + 1), failed : BOOLEAN, open : BOOLEAN,
                               worker : [workers(Len(Files[f])) -> WorkerAt(DOMAIN Files[f])]]
             /\ inner'[f].next = inner[f].next /\ inner'[f].failed = inner[f].failed
             /\ inner'[f].open = inner[f].open
             /\ \A w \in workers(Len(Files[f])) :
                   inner'[f].worker[w] = IF Awaits(f, w, h) THEN Resumed(good)
                                         ELSE inner[f].worker[w]
  <2> DEFINE m == inner[f]
             W == workers(Len(Files[f]))
             at == [w \in W |-> IF Awaits(f, w, h) THEN Resumed(good) ELSE m.worker[w]]
  <2>1. m \in [next : 1 .. (Len(Files[f]) + 1), failed : BOOLEAN, open : BOOLEAN,
               worker : [W -> WorkerAt(DOMAIN Files[f])]]
    BY <1>2 DEF PassTyped
  <2>2. inner'[f] = [m EXCEPT !.worker = at]
    BY <1>1, <2>1
  <2>3. Resumed(good) \in WorkerAt(DOMAIN Files[f])
    BY DEF Resumed, WorkerAt
  <2>4. at \in [W -> WorkerAt(DOMAIN Files[f])]
    BY <2>1, <2>3
  <2>5. \A w \in W : at[w] = IF Awaits(f, w, h) THEN Resumed(good) ELSE m.worker[w]
    OBVIOUS
  <2> HIDE DEF at, m
  <2>6. /\ inner'[f] \in [next : 1 .. (Len(Files[f]) + 1), failed : BOOLEAN, open : BOOLEAN,
                          worker : [W -> WorkerAt(DOMAIN Files[f])]]
        /\ inner'[f].next = m.next /\ inner'[f].failed = m.failed
        /\ inner'[f].open = m.open /\ inner'[f].worker = at
    BY <2>1, <2>2, <2>4
  <2> QED
    BY <2>5, <2>6 DEF m
<1>7. PassTyped'
  <2>1. inner' = [f \in DOMAIN Files |-> inner'[f]]
    BY <1>1
  <2> QED
    BY <1>1, <1>2, <1>6, <2>1 DEF PassTyped
<1>8. ASSUME NEW g \in Hashes, reader'.run[g] # "none" PROVE Called(g)'
  <2>1. g # h /\ reader.run[g] # "none"
    BY <1>3, <1>4, <1>8
  <2>2. PICK f \in DOMAIN Files : inner[f].open /\ \E w \in workers(Len(Files[f])) : Awaits(f, w, g)
    BY <2>1 DEF ReaderSound, Called
  <2>3. PICK w \in workers(Len(Files[f])) : Awaits(f, w, g)
    BY <2>2
  <2>4. ~Awaits(f, w, h)
    BY <2>1, <2>3 DEF Awaits
  <2>5. inner'[f].open /\ inner'[f].worker[w] = inner[f].worker[w]
    BY <1>6, <2>2, <2>4
  <2> QED
    BY <2>3, <2>5 DEF Called, Awaits
<1>9. \A f \in DOMAIN Files : \A w \in workers(Len(Files[f])) :
         /\ inner[f].worker[w] = Done => inner'[f].worker[w] = Done
         /\ inner'[f].worker[w] = Done => inner[f].worker[w] = Done
         /\ inner[f].worker[w].at = "error" => inner'[f].worker[w].at = "error"
  BY <1>6 DEF Awaits, Done, Resumed
<1>10. FilesInOrder'
  <2> SUFFICES ASSUME NEW f \in DOMAIN Files
               PROVE  /\ inner'[f].open =>
                           \E v \in workers(Len(Files)) : outer'.worker[v] = Await(f)
                      /\ f < outer'.next /\ ~inner'[f].open =>
                            \A w \in workers(Len(Files[f])) : inner'[f].worker[w] = Done
    BY DEF FilesInOrder
  <2>1. inner'[f].open = inner[f].open /\ outer' = outer
    BY <1>1, <1>6
  <2>2. /\ inner[f].open => \E v \in workers(Len(Files)) : outer.worker[v] = Await(f)
        /\ f < outer.next /\ ~inner[f].open =>
              \A w \in workers(Len(Files[f])) : inner[f].worker[w] = Done
    BY DEF ReaderSound, FilesInOrder
  <2> QED
    BY <1>9, <2>1, <2>2
<1>11. EndsComplete'
  BY <1>1, <1>6, <1>9 DEF ReaderSound, EndsComplete
<1>12. FailureKept'
  <2>1. OuterTrouble' <=> OuterTrouble
    BY <1>1 DEF OuterTrouble
  <2>2. \A f \in DOMAIN Files : inner[f].open /\ InnerTrouble(f) =>
           inner'[f].open /\ InnerTrouble(f)'
    BY <1>6, <1>9 DEF InnerTrouble
  <2>3. \A g \in Hashes : reader.run[g] = "rejected" =>
           \/ reader'.run[g] = "rejected"
           \/ \E f \in DOMAIN Files : inner'[f].open /\ InnerTrouble(f)'
    <3> SUFFICES ASSUME NEW g \in Hashes, reader.run[g] = "rejected", reader'.run[g] # "rejected"
                 PROVE  \E f \in DOMAIN Files : inner'[f].open /\ InnerTrouble(f)'
      OBVIOUS
    <3>1. g = h /\ ~good
      BY <1>3, <1>4
    <3>2. Called(h)
      BY <1>1 DEF ReaderSound
    <3>3. PICK f \in DOMAIN Files : inner[f].open /\ \E w \in workers(Len(Files[f])) : Awaits(f, w, h)
      BY <3>2 DEF Called
    <3>4. PICK w \in workers(Len(Files[f])) : Awaits(f, w, h)
      BY <3>3
    <3>5. inner'[f].open /\ inner'[f].worker[w].at = "error"
      BY <1>6, <3>1, <3>3, <3>4 DEF Resumed
    <3> QED
      BY <3>5 DEF InnerTrouble
  <2>4. \A f \in DOMAIN Files : inner'[f].failed => inner'[f].open \/ OuterTrouble'
    BY <1>6, <2>1 DEF ReaderSound, FailureKept
  <2> QED
    BY <1>4, <2>1, <2>2, <2>3, <2>4 DEF ReaderSound, FailureKept
<1> QED
  BY <1>5, <1>7, <1>8, <1>10, <1>11, <1>12 DEF ReaderSound

(* A worker of an open file takes the file's next chunk, or is done. *)
LEMMA NextChunkKeeps ==
    ASSUME ReaderSound, NEW f \in DOMAIN Files, NEW w \in workers(Len(Files[f])),
           NextChunk(f, w)
    PROVE  ReaderSound'
<1> DEFINE m == inner[f]
           failed == m.failed \/ m.worker[w].at = "error"
           W == workers(Len(Files[f]))
           Pass == [next : 1 .. (Len(Files[f]) + 1), failed : BOOLEAN, open : BOOLEAN,
                    worker : [W -> WorkerAt(DOMAIN Files[f])]]
<1>1. /\ m.open /\ m.worker[w].at \in {"start", "ok", "error"} /\ outer' = outer
      /\ DOMAIN Files[f] = 1 .. Len(Files[f]) /\ Len(Files[f]) \in Nat
  BY ChunkReaderAssumption DEF NextChunk
<1>2. /\ Tidy(reader) /\ Moving(reader) /\ PassTyped /\ m \in Pass
      /\ inner = [e \in DOMAIN Files |-> inner[e]]
  BY DEF ReaderSound, PassTyped
<1>3. OuterTrouble' <=> OuterTrouble
  BY <1>1 DEF OuterTrouble
<1>4. CASE ~failed /\ m.next \in DOMAIN Files[f]
  <2> DEFINE h == Files[f][m.next]
             at == [m.worker EXCEPT ![w] = Await(m.next)]
             after == m.next + 1
             n == [m EXCEPT !.next = after, !.worker = at]
  <2>1. reader' = read(reader, h) /\ inner' = [inner EXCEPT ![f] = n]
    BY <1>1, <1>2, <1>4 DEF NextChunk
  <2>2. h \in Hashes
    BY <1>4 DEF Hashes
  <2>3. /\ at \in [W -> WorkerAt(DOMAIN Files[f])] /\ at[w] = Await(m.next)
        /\ \A v \in W \ {w} : at[v] = m.worker[v]
        /\ after \in 1 .. (Len(Files[f]) + 1)
    <3>1. Await(m.next) \in WorkerAt(DOMAIN Files[f])
      BY <1>4 DEF Await, WorkerAt
    <3>2. after \in 1 .. (Len(Files[f]) + 1)
      BY <1>1, <1>4
    <3> QED
      BY <1>2, <3>1, <3>2
  <2> HIDE DEF at, after
  <2>4. n \in Pass /\ n.next = after /\ n.worker = at /\ n.failed = m.failed /\ n.open = m.open
    BY <1>2, <2>3
  <2> HIDE DEF n
  <2>5. /\ inner' = [e \in DOMAIN Files |-> inner'[e]]
        /\ inner'[f] = n /\ \A e \in DOMAIN Files \ {f} : inner'[e] = inner[e]
    BY <1>2, <2>1
  <2>6. PassTyped'
    BY <1>1, <1>2, <2>4, <2>5 DEF PassTyped
  <2>7. /\ Tidy(reader') /\ Moving(reader') /\ reader'.failure = reader.failure
        /\ reader'.run[h] # "none"
        /\ \A g \in Hashes \ {h} : \/ reader'.run[g] = reader.run[g]
                                   \/ reader.run[g] = "waiting" /\ reader'.run[g] = "woken"
        /\ reader.run[h] = "rejected" => reader'.run[h] = "rejected"
    <3>1. CASE reader.run[h] = "none"
      <4>1. reader' = run(reader, h)
        BY <2>1, <3>1 DEF read
      <4> HIDE DEF h
      <4> QED
        BY <1>2, <2>2, <3>1, <4>1, RunKeeps
    <3>2. CASE reader.run[h] # "none"
      <4>1. reader' = reader
        BY <2>1, <3>2 DEF read
      <4> QED
        BY <1>2, <3>2, <4>1
    <3> QED
      BY <3>1, <3>2
  <2>8. ASSUME NEW g \in Hashes, reader'.run[g] # "none" PROVE Called(g)'
    <3>1. CASE g = h
      <4>1. inner'[f].open /\ inner'[f].worker[w] = Await(m.next)
        BY <1>1, <2>3, <2>4, <2>5
      <4>2. /\ inner'[f].worker[w].at = "await"
            /\ Files[f][inner'[f].worker[w].item] = g
        BY <3>1, <4>1 DEF Await
      <4> QED
        BY <4>1, <4>2 DEF Called, Awaits
    <3>2. CASE g # h
      <4>1. reader.run[g] # "none"
        BY <2>7, <2>8, <3>2
      <4>2. PICK e \in DOMAIN Files :
               inner[e].open /\ \E v \in workers(Len(Files[e])) : Awaits(e, v, g)
        BY <4>1 DEF ReaderSound, Called
      <4>3. PICK v \in workers(Len(Files[e])) : Awaits(e, v, g)
        BY <4>2
      <4>4. inner'[e].open /\ inner'[e].worker[v] = inner[e].worker[v]
        <5>1. CASE e = f
          <6>1. v # w
            BY <1>1, <4>3, <5>1 DEF Awaits
          <6> QED
            BY <1>1, <2>3, <2>4, <2>5, <4>2, <5>1, <6>1
        <5>2. CASE e # f
          BY <2>5, <4>2, <5>2
        <5> QED
          BY <5>1, <5>2
      <4> QED
        BY <4>3, <4>4 DEF Called, Awaits
    <3> QED
      BY <3>1, <3>2
  <2>9. FilesInOrder'
    <3>1. ASSUME NEW e \in DOMAIN Files
          PROVE  /\ inner'[e].open = inner[e].open
                 /\ ~inner[e].open => inner'[e] = inner[e]
      BY <1>1, <2>4, <2>5
    <3> QED
      BY <1>1, <3>1 DEF ReaderSound, FilesInOrder
  <2>10. EndsComplete'
    <3>1. ASSUME NEW v \in W, inner'[f].worker[v] = Done, ~inner'[f].failed
          PROVE  inner'[f].next = Len(Files[f]) + 1
      <4>1. v # w
        BY <2>3, <2>4, <2>5, <3>1 DEF Await, Done
      <4>2. m.worker[v] = Done /\ ~m.failed
        BY <2>3, <2>4, <2>5, <3>1, <4>1
      <4>3. m.next = Len(Files[f]) + 1
        BY <4>2 DEF ReaderSound, EndsComplete
      <4> QED
        BY <1>1, <1>4, <4>3
    <3> QED
      BY <1>1, <2>5, <3>1 DEF ReaderSound, EndsComplete
  <2>11. FailureKept'
    <3>1. ASSUME NEW e \in DOMAIN Files, inner[e].open, InnerTrouble(e)
          PROVE  inner'[e].open /\ InnerTrouble(e)'
      <4>1. CASE e = f
        <5>1. m.failed \/ \E v \in W \ {w} : m.worker[v].at = "error"
          BY <1>4, <3>1, <4>1 DEF InnerTrouble
        <5> QED
          BY <1>1, <2>3, <2>4, <2>5, <4>1, <5>1 DEF InnerTrouble
      <4>2. CASE e # f
        BY <2>5, <3>1, <4>2 DEF InnerTrouble
      <4> QED
        BY <4>1, <4>2
    <3>2. \A g \in Hashes : reader.run[g] = "rejected" => reader'.run[g] = "rejected"
      BY <2>7
    <3>3. \A e \in DOMAIN Files : inner'[e].failed = inner[e].failed /\ inner'[e].open = inner[e].open
      BY <2>4, <2>5
    <3> QED
      BY <1>3, <2>7, <3>1, <3>2, <3>3 DEF ReaderSound, FailureKept
  <2> QED
    BY <2>6, <2>7, <2>8, <2>9, <2>10, <2>11 DEF ReaderSound
<1>5. CASE ~(~failed /\ m.next \in DOMAIN Files[f])
  <2> DEFINE at == [m.worker EXCEPT ![w] = Done]
             n == [m EXCEPT !.failed = failed, !.worker = at]
  <2>1. reader' = reader /\ inner' = [inner EXCEPT ![f] = n]
    BY <1>1, <1>2, <1>5 DEF NextChunk
  <2>2. /\ at \in [W -> WorkerAt(DOMAIN Files[f])] /\ at[w] = Done
        /\ \A v \in W \ {w} : at[v] = m.worker[v]
    <3>1. Done \in WorkerAt(DOMAIN Files[f])
      BY DEF Done, WorkerAt
    <3> QED
      BY <1>2, <3>1
  <2>3. failed \in BOOLEAN
    BY <1>2
  <2> HIDE DEF at
  <2>4. n \in Pass /\ n.next = m.next /\ n.worker = at /\ n.failed = failed /\ n.open = m.open
    <3> HIDE DEF failed
    <3> QED
      BY <1>2, <2>2, <2>3
  <2> HIDE DEF n
  <2>5. /\ inner' = [e \in DOMAIN Files |-> inner'[e]]
        /\ inner'[f] = n /\ \A e \in DOMAIN Files \ {f} : inner'[e] = inner[e]
    BY <1>2, <2>1
  <2>6. PassTyped'
    BY <1>1, <1>2, <2>4, <2>5 DEF PassTyped
  <2>7. ASSUME NEW g \in Hashes, reader'.run[g] # "none" PROVE Called(g)'
    <3>1. reader.run[g] # "none"
      BY <2>1, <2>7
    <3>2. PICK e \in DOMAIN Files :
             inner[e].open /\ \E v \in workers(Len(Files[e])) : Awaits(e, v, g)
      BY <3>1 DEF ReaderSound, Called
    <3>3. PICK v \in workers(Len(Files[e])) : Awaits(e, v, g)
      BY <3>2
    <3>4. inner'[e].open /\ inner'[e].worker[v] = inner[e].worker[v]
      <4>1. CASE e = f
        <5>1. v # w
          BY <1>1, <3>3, <4>1 DEF Awaits
        <5> QED
          BY <1>1, <2>2, <2>4, <2>5, <3>2, <4>1, <5>1
      <4>2. CASE e # f
        BY <2>5, <3>2, <4>2
      <4> QED
        BY <4>1, <4>2
    <3> QED
      BY <3>3, <3>4 DEF Called, Awaits
  <2>8. FilesInOrder'
    <3>1. ASSUME NEW e \in DOMAIN Files
          PROVE  /\ inner'[e].open = inner[e].open
                 /\ ~inner[e].open => inner'[e] = inner[e]
      BY <1>1, <2>4, <2>5
    <3> QED
      BY <1>1, <3>1 DEF ReaderSound, FilesInOrder
  <2>9. EndsComplete'
    <3>1. ASSUME NEW v \in W, inner'[f].worker[v] = Done, ~inner'[f].failed
          PROVE  inner'[f].next = Len(Files[f]) + 1
      <4>1. ~failed /\ inner'[f].next = m.next
        BY <2>4, <2>5, <3>1
      <4>2. m.next \in 1 .. (Len(Files[f]) + 1) /\ m.next \notin 1 .. Len(Files[f])
        BY <1>1, <1>2, <1>5, <4>1
      <4> QED
        BY <1>1, <4>1, <4>2
    <3> QED
      BY <1>1, <2>5, <3>1 DEF ReaderSound, EndsComplete
  <2>10. FailureKept'
    <3>1. ASSUME NEW e \in DOMAIN Files, inner[e].open, InnerTrouble(e)
          PROVE  inner'[e].open /\ InnerTrouble(e)'
      <4>1. CASE e = f
        <5>1. failed \/ \E v \in W \ {w} : m.worker[v].at = "error"
          BY <3>1, <4>1 DEF InnerTrouble
        <5> QED
          BY <1>1, <2>2, <2>4, <2>5, <4>1, <5>1 DEF InnerTrouble
      <4>2. CASE e # f
        BY <2>5, <3>1, <4>2 DEF InnerTrouble
      <4> QED
        BY <4>1, <4>2
    <3>2. \A e \in DOMAIN Files : inner'[e].failed => inner'[e].open \/ OuterTrouble'
      BY <1>1, <1>3, <2>4, <2>5 DEF ReaderSound, FailureKept
    <3> QED
      BY <1>3, <2>1, <3>1, <3>2 DEF ReaderSound, FailureKept
  <2> QED
    BY <1>2, <2>1, <2>6, <2>7, <2>8, <2>9, <2>10 DEF ReaderSound
<1> QED
  BY <1>4, <1>5

(* A file is settled: its caller has the result, or the failure. *)
LEMMA FileEndsKeeps ==
    ASSUME ReaderSound, NEW f \in DOMAIN Files, FileEnds(f)
    PROVE  ReaderSound'
<1> DEFINE V == workers(Len(Files))
           n == [inner[f] EXCEPT !.open = FALSE]
<1>1. PICK good \in BOOLEAN :
         /\ inner[f].open
         /\ \A w \in DOMAIN inner[f].worker : inner[f].worker[w] = Done
         /\ inner[f].failed => ~good
         /\ outer' = [outer EXCEPT !.worker =
                        [v \in DOMAIN @ |-> IF @[v] = Await(f) THEN Resumed(good) ELSE @[v]]]
         /\ inner' = [inner EXCEPT ![f].open = FALSE]
         /\ reader' = reader
  BY DEF FileEnds
<1>2. /\ PassTyped
      /\ outer \in [next : 1 .. (Len(Files) + 1), failed : BOOLEAN,
                    worker : [V -> WorkerAt(DOMAIN Files)]]
      /\ inner = [e \in DOMAIN Files |-> inner[e]]
      /\ inner[f] \in [next : 1 .. (Len(Files[f]) + 1), failed : BOOLEAN, open : BOOLEAN,
                       worker : [workers(Len(Files[f])) -> WorkerAt(DOMAIN Files[f])]]
  BY DEF ReaderSound, PassTyped
<1>3. \A w \in workers(Len(Files[f])) : inner[f].worker[w] = Done
  BY <1>1, <1>2
<1>4. /\ n \in [next : 1 .. (Len(Files[f]) + 1), failed : BOOLEAN, open : BOOLEAN,
                worker : [workers(Len(Files[f])) -> WorkerAt(DOMAIN Files[f])]]
      /\ n.next = inner[f].next /\ n.failed = inner[f].failed /\ n.worker = inner[f].worker
      /\ ~n.open
  BY <1>2
<1>5. inner' = [inner EXCEPT ![f] = n]
  BY <1>1, <1>2
<1> HIDE DEF n
<1>6. /\ inner' = [e \in DOMAIN Files |-> inner'[e]]
      /\ inner'[f] = n /\ \A e \in DOMAIN Files \ {f} : inner'[e] = inner[e]
  BY <1>2, <1>5
<1>7. /\ outer' \in [next : 1 .. (Len(Files) + 1), failed : BOOLEAN,
                     worker : [V -> WorkerAt(DOMAIN Files)]]
      /\ outer'.next = outer.next /\ outer'.failed = outer.failed
      /\ \A v \in V : outer'.worker[v] = IF outer.worker[v] = Await(f) THEN Resumed(good)
                                         ELSE outer.worker[v]
  <2> DEFINE at == [v \in V |-> IF outer.worker[v] = Await(f) THEN Resumed(good)
                                ELSE outer.worker[v]]
  <2>1. outer' = [outer EXCEPT !.worker = at]
    BY <1>1, <1>2
  <2>2. Resumed(good) \in WorkerAt(DOMAIN Files)
    BY DEF Resumed, WorkerAt
  <2>3. /\ at \in [V -> WorkerAt(DOMAIN Files)]
        /\ \A v \in V : at[v] = IF outer.worker[v] = Await(f) THEN Resumed(good)
                                ELSE outer.worker[v]
    BY <1>2, <2>2
  <2> HIDE DEF at
  <2> QED
    BY <1>2, <2>1, <2>3
<1>8. PassTyped'
  BY <1>2, <1>4, <1>6, <1>7 DEF PassTyped
<1>9. ASSUME NEW g \in Hashes, reader'.run[g] # "none" PROVE Called(g)'
  <2>1. reader.run[g] # "none"
    BY <1>1, <1>9
  <2>2. PICK e \in DOMAIN Files :
           inner[e].open /\ \E w \in workers(Len(Files[e])) : Awaits(e, w, g)
    BY <2>1 DEF ReaderSound, Called
  <2>3. PICK w \in workers(Len(Files[e])) : Awaits(e, w, g)
    BY <2>2
  <2>4. e # f
    BY <1>3, <2>3 DEF Awaits, Done
  <2>5. inner'[e] = inner[e]
    BY <1>6, <2>4
  <2> QED
    BY <2>2, <2>3, <2>5 DEF Called, Awaits
<1>10. \A v \in V : /\ outer'.worker[v] = Done <=> outer.worker[v] = Done
                    /\ outer.worker[v].at = "error" => outer'.worker[v].at = "error"
                    /\ \A e \in DOMAIN Files \ {f} :
                          outer.worker[v] = Await(e) => outer'.worker[v] = Await(e)
  <2> SUFFICES ASSUME NEW v \in V
               PROVE  /\ outer'.worker[v] = Done <=> outer.worker[v] = Done
                      /\ outer.worker[v].at = "error" => outer'.worker[v].at = "error"
                      /\ \A e \in DOMAIN Files \ {f} :
                            outer.worker[v] = Await(e) => outer'.worker[v] = Await(e)
    OBVIOUS
  <2>1. CASE outer.worker[v] = Await(f)
    <3>1. outer'.worker[v] = Resumed(good)
      BY <1>7, <2>1
    <3>2. Resumed(good).at \in {"ok", "error"} /\ Done.at = "done"
      BY DEF Resumed, Done
    <3>3. Await(f).at = "await" /\ \A e : Await(e).item = e
      BY DEF Await
    <3> QED
      BY <2>1, <3>1, <3>2, <3>3
  <2>2. CASE outer.worker[v] # Await(f)
    BY <1>7, <2>2
  <2> QED
    BY <2>1, <2>2
<1>11. FilesInOrder'
  <2> SUFFICES ASSUME NEW e \in DOMAIN Files
               PROVE  /\ inner'[e].open => \E v \in V : outer'.worker[v] = Await(e)
                      /\ e < outer'.next /\ ~inner'[e].open =>
                            \A w \in workers(Len(Files[e])) : inner'[e].worker[w] = Done
    BY DEF FilesInOrder
  <2>1. CASE e = f
    BY <1>3, <1>4, <1>6, <2>1
  <2>2. CASE e # f
    BY <1>6, <1>7, <1>10, <2>2 DEF ReaderSound, FilesInOrder
  <2> QED
    BY <2>1, <2>2
<1>12. EndsComplete'
  <2>1. ASSUME NEW v \in V, outer'.worker[v] = Done, ~outer'.failed
        PROVE  outer'.next = Len(Files) + 1
    BY <1>7, <1>10, <2>1 DEF ReaderSound, EndsComplete
  <2>2. \A e \in DOMAIN Files :
           /\ inner'[e].worker = inner[e].worker /\ inner'[e].next = inner[e].next
           /\ inner'[e].failed = inner[e].failed
    BY <1>4, <1>6
  <2> QED
    BY <2>1, <2>2 DEF ReaderSound, EndsComplete
<1>13. FailureKept'
  <2>1. OuterTrouble => OuterTrouble'
    BY <1>7, <1>10 DEF OuterTrouble
  <2>2. inner[f].failed => OuterTrouble'
    <3>1. PICK v \in V : outer.worker[v] = Await(f)
      BY <1>1 DEF ReaderSound, FilesInOrder
    <3>2. inner[f].failed => outer'.worker[v].at = "error"
      BY <1>1, <1>7, <3>1 DEF Resumed
    <3> QED
      BY <3>2 DEF OuterTrouble
  <2>3. \A e \in DOMAIN Files : inner[e].open /\ InnerTrouble(e) =>
           OuterTrouble' \/ (inner'[e].open /\ InnerTrouble(e)')
    <3> SUFFICES ASSUME NEW e \in DOMAIN Files, inner[e].open, InnerTrouble(e)
                 PROVE  OuterTrouble' \/ (inner'[e].open /\ InnerTrouble(e)')
      OBVIOUS
    <3>1. CASE e = f
      BY <1>3, <2>2, <3>1 DEF InnerTrouble, Done
    <3>2. CASE e # f
      BY <1>6, <3>2 DEF InnerTrouble
    <3> QED
      BY <3>1, <3>2
  <2>4. \A e \in DOMAIN Files : inner'[e].failed => inner'[e].open \/ OuterTrouble'
    <3> SUFFICES ASSUME NEW e \in DOMAIN Files, inner'[e].failed
                 PROVE  inner'[e].open \/ OuterTrouble'
      OBVIOUS
    <3>1. CASE e = f
      BY <1>4, <1>6, <2>2, <3>1
    <3>2. CASE e # f
      BY <1>6, <2>1, <3>2 DEF ReaderSound, FailureKept
    <3> QED
      BY <3>1, <3>2
  <2> QED
    BY <1>1, <2>1, <2>3, <2>4 DEF ReaderSound, FailureKept
<1> QED
  BY <1>1, <1>8, <1>9, <1>11, <1>12, <1>13 DEF ReaderSound

(* A worker of the pass opens the next file, or is done. *)
LEMMA NextFileKeeps ==
    ASSUME ReaderSound, NEW v \in workers(Len(Files)), NextFile(v)
    PROVE  ReaderSound'
<1> DEFINE V == workers(Len(Files))
           failed == outer.failed \/ outer.worker[v].at = "error"
<1>1. /\ outer.worker[v].at \in {"start", "ok", "error"} /\ reader' = reader
      /\ DOMAIN Files = 1 .. Len(Files) /\ Len(Files) \in Nat
  BY ChunkReaderAssumption DEF NextFile
<1>2. /\ PassTyped
      /\ outer \in [next : 1 .. (Len(Files) + 1), failed : BOOLEAN,
                    worker : [V -> WorkerAt(DOMAIN Files)]]
      /\ inner = [e \in DOMAIN Files |-> inner[e]]
      /\ \A e \in DOMAIN Files :
           inner[e] \in [next : 1 .. (Len(Files[e]) + 1), failed : BOOLEAN, open : BOOLEAN,
                         worker : [workers(Len(Files[e])) -> WorkerAt(DOMAIN Files[e])]]
  BY DEF ReaderSound, PassTyped
<1>3. CASE ~failed /\ outer.next \in DOMAIN Files
  <2> DEFINE f == outer.next
             at == [outer.worker EXCEPT ![v] = Await(f)]
             after == outer.next + 1
             n == [inner[f] EXCEPT !.open = TRUE]
  <2>1. outer' = [outer EXCEPT !.next = after, !.worker = at] /\ inner' = [inner EXCEPT ![f] = n]
    BY <1>1, <1>2, <1>3 DEF NextFile
  <2>2. /\ at \in [V -> WorkerAt(DOMAIN Files)] /\ at[v] = Await(f)
        /\ \A u \in V \ {v} : at[u] = outer.worker[u]
        /\ after \in 1 .. (Len(Files) + 1)
    <3>1. Await(f) \in WorkerAt(DOMAIN Files)
      BY <1>3 DEF Await, WorkerAt
    <3>2. after \in 1 .. (Len(Files) + 1)
      BY <1>1, <1>3
    <3> QED
      BY <1>2, <3>1, <3>2
  <2>3. /\ n \in [next : 1 .. (Len(Files[f]) + 1), failed : BOOLEAN, open : BOOLEAN,
                  worker : [workers(Len(Files[f])) -> WorkerAt(DOMAIN Files[f])]]
        /\ n.next = inner[f].next /\ n.failed = inner[f].failed /\ n.worker = inner[f].worker
        /\ n.open
    BY <1>2, <1>3
  <2> HIDE DEF at, n
  <2>4. /\ outer' \in [next : 1 .. (Len(Files) + 1), failed : BOOLEAN,
                       worker : [V -> WorkerAt(DOMAIN Files)]]
        /\ outer'.next = after /\ outer'.failed = outer.failed /\ outer'.worker = at
    <3> HIDE DEF after
    <3> QED
      BY <1>2, <2>1, <2>2
  <2>5. /\ inner' = [e \in DOMAIN Files |-> inner'[e]]
        /\ inner'[f] = n /\ \A e \in DOMAIN Files \ {f} : inner'[e] = inner[e]
    BY <1>2, <1>3, <2>1
  <2>6. \A e \in DOMAIN Files :
           /\ inner'[e].worker = inner[e].worker /\ inner'[e].next = inner[e].next
           /\ inner'[e].failed = inner[e].failed
           /\ inner[e].open \/ e = f <=> inner'[e].open
    BY <2>3, <2>5
  <2>7. PassTyped'
    BY <1>2, <2>3, <2>4, <2>5 DEF PassTyped
  <2>8. ASSUME NEW g \in Hashes, reader'.run[g] # "none" PROVE Called(g)'
    <3>1. Called(g)
      BY <1>1, <2>8 DEF ReaderSound
    <3> QED
      BY <2>6, <3>1 DEF Called, Awaits
  <2>9. FilesInOrder'
    <3> SUFFICES ASSUME NEW e \in DOMAIN Files
                 PROVE  /\ inner'[e].open => \E u \in V : outer'.worker[u] = Await(e)
                        /\ e < outer'.next /\ ~inner'[e].open =>
                              \A w \in workers(Len(Files[e])) : inner'[e].worker[w] = Done
      BY DEF FilesInOrder
    <3>1. CASE e = f
      BY <2>2, <2>4, <2>6, <3>1
    <3>2. CASE e # f
      <4>1. inner[e].open => \E u \in V : outer'.worker[u] = Await(e)
        <5> SUFFICES ASSUME inner[e].open PROVE \E u \in V : outer'.worker[u] = Await(e)
          OBVIOUS
        <5>1. PICK u \in V : outer.worker[u] = Await(e)
          BY DEF ReaderSound, FilesInOrder
        <5>2. u # v
          BY <1>1, <5>1 DEF Await
        <5> QED
          BY <2>2, <2>4, <5>1, <5>2
      <4>2. e < outer'.next => e < outer.next
        BY <1>1, <1>2, <2>4, <3>2
      <4> QED
        BY <2>6, <3>2, <4>1, <4>2 DEF ReaderSound, FilesInOrder
    <3> QED
      BY <3>1, <3>2
  <2>10. EndsComplete'
    <3>1. ASSUME NEW u \in V, outer'.worker[u] = Done, ~outer'.failed
          PROVE  outer'.next = Len(Files) + 1
      <4>1. u # v
        BY <2>2, <2>4, <3>1 DEF Await, Done
      <4>2. outer.next = Len(Files) + 1
        BY <2>2, <2>4, <3>1, <4>1 DEF ReaderSound, EndsComplete
      <4> QED
        BY <1>1, <1>3, <4>2
    <3> QED
      BY <2>6, <3>1 DEF ReaderSound, EndsComplete
  <2>11. FailureKept'
    <3>1. OuterTrouble => OuterTrouble'
      <4> SUFFICES ASSUME OuterTrouble PROVE OuterTrouble'
        OBVIOUS
      <4>1. PICK u \in V : outer.worker[u].at = "error"
        BY <1>3 DEF OuterTrouble
      <4>2. u # v
        BY <1>3, <4>1
      <4> QED
        BY <2>2, <2>4, <4>1, <4>2 DEF OuterTrouble
    <3>2. \A e \in DOMAIN Files : inner[e].open /\ InnerTrouble(e) =>
             inner'[e].open /\ InnerTrouble(e)'
      BY <2>6 DEF InnerTrouble
    <3> QED
      BY <1>1, <2>6, <3>1, <3>2 DEF ReaderSound, FailureKept
  <2> QED
    BY <1>1, <2>7, <2>8, <2>9, <2>10, <2>11 DEF ReaderSound
<1>4. CASE ~(~failed /\ outer.next \in DOMAIN Files)
  <2> DEFINE at == [outer.worker EXCEPT ![v] = Done]
  <2>1. outer' = [outer EXCEPT !.failed = failed, !.worker = at] /\ inner' = inner
    BY <1>1, <1>2, <1>4 DEF NextFile
  <2>2. /\ at \in [V -> WorkerAt(DOMAIN Files)] /\ at[v] = Done
        /\ \A u \in V \ {v} : at[u] = outer.worker[u]
    <3>1. Done \in WorkerAt(DOMAIN Files)
      BY DEF Done, WorkerAt
    <3> QED
      BY <1>2, <3>1
  <2>3. failed \in BOOLEAN
    BY <1>2
  <2> HIDE DEF at
  <2>4. /\ outer' \in [next : 1 .. (Len(Files) + 1), failed : BOOLEAN,
                       worker : [V -> WorkerAt(DOMAIN Files)]]
        /\ outer'.next = outer.next /\ outer'.failed = failed /\ outer'.worker = at
    <3> HIDE DEF failed
    <3> QED
      BY <1>2, <2>1, <2>2, <2>3
  <2>5. PassTyped'
    BY <1>2, <2>1, <2>4 DEF PassTyped
  <2>6. ASSUME NEW g \in Hashes, reader'.run[g] # "none" PROVE Called(g)'
    <3>1. Called(g)
      BY <1>1, <2>6 DEF ReaderSound
    <3> QED
      BY <2>1, <3>1 DEF Called, Awaits
  <2>7. FilesInOrder'
    <3> SUFFICES ASSUME NEW e \in DOMAIN Files
                 PROVE  /\ inner'[e].open => \E u \in V : outer'.worker[u] = Await(e)
                        /\ e < outer'.next /\ ~inner'[e].open =>
                              \A w \in workers(Len(Files[e])) : inner'[e].worker[w] = Done
      BY DEF FilesInOrder
    <3>1. inner[e].open => \E u \in V : outer'.worker[u] = Await(e)
      <4> SUFFICES ASSUME inner[e].open PROVE \E u \in V : outer'.worker[u] = Await(e)
        OBVIOUS
      <4>1. PICK u \in V : outer.worker[u] = Await(e)
        BY DEF ReaderSound, FilesInOrder
      <4>2. u # v
        BY <1>1, <4>1 DEF Await
      <4> QED
        BY <2>2, <2>4, <4>1, <4>2
    <3> QED
      BY <2>1, <2>4, <3>1 DEF ReaderSound, FilesInOrder
  <2>8. EndsComplete'
    <3>1. ASSUME NEW u \in V, outer'.worker[u] = Done, ~outer'.failed
          PROVE  outer'.next = Len(Files) + 1
      <4>1. ~failed
        BY <2>4, <3>1
      <4>2. outer.next \in 1 .. (Len(Files) + 1) /\ outer.next \notin 1 .. Len(Files)
        BY <1>1, <1>2, <1>4, <4>1
      <4> QED
        BY <1>1, <2>4, <4>2
    <3> QED
      BY <2>1, <3>1 DEF ReaderSound, EndsComplete
  <2>9. FailureKept'
    <3>1. OuterTrouble => OuterTrouble'
      <4> SUFFICES ASSUME OuterTrouble PROVE OuterTrouble'
        OBVIOUS
      <4>1. failed \/ \E u \in V \ {v} : outer.worker[u].at = "error"
        BY DEF OuterTrouble
      <4> QED
        BY <2>2, <2>4, <4>1 DEF OuterTrouble
    <3>2. \A e \in DOMAIN Files : InnerTrouble(e) <=> InnerTrouble(e)'
      BY <2>1 DEF InnerTrouble
    <3> QED
      BY <1>1, <2>1, <3>1, <3>2 DEF ReaderSound, FailureKept
  <2> QED
    BY <1>1, <2>5, <2>6, <2>7, <2>8, <2>9 DEF ReaderSound
<1> QED
  BY <1>3, <1>4

(* Every step of the read-back. *)
LEMMA ReaderKeeps ==
    ASSUME ReaderSound, ReaderNext
    PROVE  ReaderSound'
<1>1. /\ DOMAIN outer.worker = workers(Len(Files))
      /\ \A f \in DOMAIN Files : DOMAIN inner[f].worker = workers(Len(Files[f]))
  BY DEF ReaderSound, PassTyped
<1>2. ASSUME NEW h \in Hashes, LookAgain(h) \/ GetChunkEnds(h) \/ Settle(h)
      PROVE  ReaderSound'
  BY <1>2, LookAgainKeeps, GetChunkEndsKeeps, SettleReads
<1>3. ASSUME NEW f \in DOMAIN Files, FileEnds(f) PROVE ReaderSound'
  BY <1>3, FileEndsKeeps
<1>4. ASSUME NEW f \in DOMAIN Files, NEW w \in workers(Len(Files[f])), NextChunk(f, w)
      PROVE  ReaderSound'
  BY <1>4, NextChunkKeeps
<1>5. ASSUME NEW v \in workers(Len(Files)), NextFile(v) PROVE ReaderSound'
  BY <1>5, NextFileKeeps
<1> QED
  BY <1>1, <1>2, <1>3, <1>4, <1>5 DEF ReaderNext

(* mapBounded starts a worker for any item at all. *)
LEMMA SomeWorker ==
    ASSUME NEW n \in Nat, n # 0
    PROVE  1 \in workers(n)
  BY ChunkReaderAssumption DEF workers

(* What verifyReassembly promises, from the invariant of its two mapBounded
   passes and of chunkReader. *)
LEMMA ReaderMeans == ReaderSound => ReaderInvariant
<1> SUFFICES ASSUME ReaderSound PROVE ReaderInvariant
  OBVIOUS
<1>1. /\ Tidy(reader) /\ ReaderTyped(reader) /\ Moving(reader) /\ PassTyped
      /\ DOMAIN outer.worker = workers(Len(Files))
      /\ \A f \in DOMAIN Files : DOMAIN inner[f].worker = workers(Len(Files[f]))
  BY DEF ReaderSound, Tidy, PassTyped
<1>2. ReaderTypeOK
  BY <1>1 DEF ReaderTypeOK, ReaderTyped, PassTyped
<1>3. ReadsBounded
  BY <1>1 DEF ReadsBounded, Tidy, Moving, Reads, reading
<1>4. ASSUME PassEnded, NEW f \in DOMAIN Files, inner[f].open PROVE FALSE
  <2>1. PICK v \in workers(Len(Files)) : outer.worker[v] = Await(f)
    BY <1>4 DEF ReaderSound, FilesInOrder
  <2> QED
    BY <1>1, <1>4, <2>1 DEF PassEnded, Await, Done
<1>5. NoReadOutlives
  <2>1. \A h \in Hashes : reader.run[h] # "none" =>
           \E f \in DOMAIN Files : /\ inner[f].open
                                   /\ \E w \in DOMAIN inner[f].worker : Awaits(f, w, h)
    BY <1>1 DEF ReaderSound, Called
  <2> QED
    BY <1>4, <2>1 DEF NoReadOutlives
<1>6. PassIsTrue
  <2> SUFFICES ASSUME PassEnded, ~outer.failed
               PROVE  /\ ~reader.failure
                      /\ \A f \in DOMAIN Files :
                            inner[f].next = Len(Files[f]) + 1 /\ ~inner[f].failed
    BY DEF PassIsTrue
  <2>1. ~OuterTrouble
    BY <1>1 DEF OuterTrouble, PassEnded, Done
  <2>2. ~reader.failure
    <3>1. \A h \in Hashes : reader.run[h] = "none"
      BY <1>4 DEF ReaderSound, Called
    <3> QED
      BY <1>4, <2>1, <3>1 DEF ReaderSound, FailureKept
  <2>3. ASSUME NEW f \in DOMAIN Files
        PROVE  inner[f].next = Len(Files[f]) + 1 /\ ~inner[f].failed
    <3>1. ~inner[f].failed /\ ~inner[f].open
      BY <1>4, <2>1 DEF ReaderSound, FailureKept
    <3>2. f < outer.next
      <4>1. /\ Len(Files) \in Nat /\ Len(Files) # 0 /\ f \in 1 .. Len(Files)
        BY ChunkReaderAssumption
      <4>2. outer.worker[1] = Done /\ 1 \in workers(Len(Files))
        BY <1>1, <4>1, SomeWorker DEF PassEnded
      <4>3. outer.next = Len(Files) + 1
        BY <4>2 DEF ReaderSound, EndsComplete
      <4> QED
        BY <4>1, <4>3
    <3>3. CASE Len(Files[f]) = 0
      BY <1>1, <3>1, <3>3 DEF PassTyped
    <3>4. CASE Len(Files[f]) # 0
      <4>1. 1 \in workers(Len(Files[f]))
        BY <3>4, ChunkReaderAssumption, SomeWorker
      <4>2. inner[f].worker[1] = Done
        BY <3>1, <3>2, <4>1 DEF ReaderSound, FilesInOrder
      <4> QED
        BY <3>1, <4>1, <4>2 DEF ReaderSound, EndsComplete
    <3> QED
      BY <3>1, <3>3, <3>4
  <2> QED
    BY <2>2, <2>3
<1> QED
  BY <1>2, <1>3, <1>5, <1>6 DEF ReaderInvariant

-----------------------------------------------------------------------------
(* The whole transfer: no part writes the variables of another. *)

(* A step that leaves the variables of a part alone keeps its invariant. *)
LEMMA RequestUnchanged == RequestSound /\ UNCHANGED requestVars => RequestSound'
  BY DEF RequestSound, requestVars, StallIsSilence, WholeOrRefused, NothingOutlives

(* The same for the download pool. *)
LEMMA PoolUnchanged == PoolSound /\ UNCHANGED poolVars => PoolSound'
  BY DEF PoolSound, poolVars

(* The same for the read-back. *)
LEMMA ReaderUnchanged == ReaderSound /\ UNCHANGED readerVars => ReaderSound'
<1> SUFFICES ASSUME ReaderSound, reader' = reader, outer' = outer, inner' = inner
             PROVE  ReaderSound'
  BY DEF readerVars
<1>1. Tidy(reader') /\ Moving(reader') /\ PassTyped'
  BY DEF ReaderSound, PassTyped
<1>2. \A h \in Hashes : Called(h)' <=> Called(h)
  BY DEF Called, Awaits
<1>3. FilesInOrder' /\ EndsComplete'
  BY DEF ReaderSound, FilesInOrder, EndsComplete
<1>4. FailureKept'
  BY DEF ReaderSound, FailureKept, OuterTrouble, InnerTrouble
<1> QED
  BY <1>1, <1>2, <1>3, <1>4 DEF ReaderSound

(* A request ends with all that was sent or refuses it, never keeps more than
   its ceiling, and is only cut off after a silence (fetchBytes, readCapped,
   raceStall). *)
THEOREM RequestIsSound == TransferSpec => []RequestInvariant
<1>1. TransferInit => RequestSound
  BY RequestStarts DEF TransferInit
<1>2. RequestSound /\ [TransferNext]_transferVars => RequestSound'
  <2> SUFFICES ASSUME RequestSound, [TransferNext]_transferVars PROVE RequestSound'
    OBVIOUS
  <2>1. CASE Request
    BY <2>1, RequestKeeps DEF Request
  <2>2. CASE ManifestReturns
    BY <2>2, RequestKeeps
  <2>3. CASE Download \/ ReadBack \/ UNCHANGED transferVars
    <3>1. UNCHANGED requestVars
      BY <2>3 DEF Download, ReadBack, transferVars
    <3> QED
      BY <3>1, RequestUnchanged
  <2> QED
    BY <2>1, <2>2, <2>3 DEF TransferNext
<1>3. RequestSound => RequestInvariant
  BY DEF RequestSound, RequestInvariant, RequestTypeOK
<1> QED
  BY <1>1, <1>2, <1>3, PTL DEF TransferSpec

(* For any number of workers and any chunk sizes, whatever fails: the budget is
   conserved, overlapping responses keep within it, a worker that waits for it
   can be woken, and a download that reports no failure has stored every chunk
   once (fetchMissing, reserve, release). *)
THEOREM DownloadIsSound == TransferSpec => []PoolInvariant
<1>1. TransferInit => PoolSound
  BY PoolStarts DEF TransferInit
<1>2. PoolSound /\ [TransferNext]_transferVars => PoolSound'
  <2> SUFFICES ASSUME PoolSound, [TransferNext]_transferVars PROVE PoolSound'
    OBVIOUS
  <2>1. CASE Download
    BY <2>1, PoolKeeps DEF Download
  <2>2. CASE Request \/ ManifestReturns \/ ReadBack \/ UNCHANGED transferVars
    <3>1. UNCHANGED poolVars
      BY <2>2 DEF Request, ManifestReturns, ReadBack, transferVars, poolVars
    <3> QED
      BY <3>1, PoolUnchanged
  <2> QED
    BY <2>1, <2>2 DEF TransferNext
<1> QED
  BY <1>1, <1>2, PoolMeans, PTL DEF TransferSpec

(* For any files that share chunks in any way: the reads keep to their limit and
   their turns are passed on, none outlives its callers, and a pass that
   succeeds has read every chunk and saw no failure (verifyReassembly,
   mapBounded, chunkReader). *)
THEOREM ReadBackIsSound == TransferSpec => []ReaderInvariant
<1>1. TransferInit => ReaderSound
  BY ReaderStarts DEF TransferInit
<1>2. ReaderSound /\ [TransferNext]_transferVars => ReaderSound'
  <2> SUFFICES ASSUME ReaderSound, [TransferNext]_transferVars PROVE ReaderSound'
    OBVIOUS
  <2>1. CASE ReadBack
    BY <2>1, ReaderKeeps DEF ReadBack
  <2>2. CASE Request \/ ManifestReturns \/ Download \/ UNCHANGED transferVars
    <3>1. UNCHANGED readerVars
      BY <2>2 DEF Request, ManifestReturns, Download, transferVars, readerVars
    <3> QED
      BY <3>1, ReaderUnchanged
  <2> QED
    BY <2>1, <2>2 DEF TransferNext
<1> QED
  BY <1>1, <1>2, ReaderMeans, PTL DEF TransferSpec
=============================================================================
