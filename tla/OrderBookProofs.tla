-------------------------- MODULE OrderBookProofs --------------------------
(***************************************************************************)
(* Proofs for OrderBook: what the API says of an order agrees with the     *)
(* auctions, replacements are atomic, cancellations are reported and limit *)
(* orders are bounded, for any orders, users and requests at a time.       *)
(***************************************************************************)
EXTENDS OrderBook, FiniteSetTheorems, WellFoundedInduction, TLAPS

----------------------------------------------------------------------------
(* Sums over finite sets.  A claim about all subsets of a finite set is    *)
(* shown for a smallest subset it could fail for.                          *)

\* A set of finite sets has a smallest member.
LEMMA SmallestSubset ==
  ASSUME NEW D, IsFiniteSet(D), NEW Bad \in SUBSET SUBSET D, Bad # {}
  PROVE  \E m \in Bad : \A s \in SUBSET m : s # m => s \notin Bad
<1>1. IsWellFoundedOn(StrictSubsetOrdering(D), SUBSET D)
  BY FS_StrictSubsetOrderingWellFounded, FS_FiniteSubsetsOfFinite
<1>2. PICK m \in Bad : \A s \in Bad : ~(<<s, m>> \in StrictSubsetOrdering(D))
  BY <1>1, WFMin
<1>3. ASSUME NEW s \in SUBSET m, s # m, s \in Bad PROVE FALSE
  <2>1. <<s, m>> \in StrictSubsetOrdering(D)
    BY <1>3 DEF StrictSubsetOrdering
  <2> QED
    BY <1>2, <1>3, <2>1
<1> QED
  BY <1>3

Pick(s) == CHOOSE x \in s : TRUE

\* g adds up the values of f over the subsets of D.
IsSum(f, D, g) ==
  g = [s \in SUBSET D |-> IF s = {} THEN 0 ELSE f[Pick(s)] + g[s \ {Pick(s)}]]

\* The sum of the library is such a function, if there is one.
LEMMA SumIs ==
  ASSUME NEW f, NEW D
  PROVE  SumFunctionOnSet(f, D) = (CHOOSE g : IsSum(f, D, g))[D]
BY Zenon DEF SumFunctionOnSet, FoldFunctionOnSet, MapThenFoldSet, IsSum, Pick

\* Its value for one subset.
LEMMA SumValue ==
  ASSUME NEW f, NEW D, NEW g, IsSum(f, D, g), NEW s \in SUBSET D
  PROVE  g[s] = IF s = {} THEN 0 ELSE f[Pick(s)] + g[s \ {Pick(s)}]
BY Zenon DEF IsSum

\* What is picked from a set is in it.
LEMMA PickIn ==
  ASSUME NEW s, s # {}
  PROVE  Pick(s) \in s
BY DEF Pick

\* Two such functions agree where both are defined.
LEMMA SumUnique ==
  ASSUME NEW f, NEW D, NEW E, IsFiniteSet(D), NEW g, NEW h,
         IsSum(f, D, g), IsSum(f, E, h), NEW T \in SUBSET D, T \in SUBSET E
  PROVE  g[T] = h[T]
<1> DEFINE Bad == {s \in SUBSET D : s \in SUBSET E /\ g[s] # h[s]}
<1>1. SUFFICES ASSUME Bad # {} PROVE FALSE
  OBVIOUS
<1>2. PICK m \in Bad : \A s \in SUBSET m : s # m => s \notin Bad
  <2>1. Bad \in SUBSET SUBSET D
    OBVIOUS
  <2> HIDE DEF Bad
  <2> QED
    BY <1>1, <2>1, SmallestSubset
<1>3. /\ g[m] = IF m = {} THEN 0 ELSE f[Pick(m)] + g[m \ {Pick(m)}]
      /\ h[m] = IF m = {} THEN 0 ELSE f[Pick(m)] + h[m \ {Pick(m)}]
  <2>1. m \in SUBSET D /\ m \in SUBSET E
    OBVIOUS
  <2> QED
    BY <2>1, SumValue
<1>4. m # {} /\ Pick(m) \in m
  BY <1>3, PickIn
<1>5. g[m \ {Pick(m)}] = h[m \ {Pick(m)}]
  BY <1>2, <1>4
<1> QED
  BY <1>3, <1>4, <1>5

\* There is one for every finite set: it is put together from those of the subsets.
LEMMA SumExists ==
  ASSUME NEW f, NEW D, IsFiniteSet(D)
  PROVE  \E g : IsSum(f, D, g)
<1> DEFINE Bad == {s \in SUBSET D : ~ \E g : IsSum(f, s, g)}
<1>1. SUFFICES ASSUME Bad # {} PROVE FALSE
  OBVIOUS
<1>2. PICK m \in Bad : \A s \in SUBSET m : s # m => s \notin Bad
  <2>1. Bad \in SUBSET SUBSET D
    OBVIOUS
  <2> HIDE DEF Bad
  <2> QED
    BY <1>1, <2>1, SmallestSubset
<1> DEFINE G(s) == CHOOSE g : IsSum(f, s, g)
           p == Pick(m)
           h == [s \in SUBSET m |-> IF s # m THEN G(s)[s]
                                    ELSE IF m = {} THEN 0 ELSE f[p] + G(m \ {p})[m \ {p}]]
<1>3. m \in SUBSET D /\ ~ \E g : IsSum(f, m, g)
  OBVIOUS
<1>4. \A s \in SUBSET m : s # m => IsSum(f, s, G(s))
  <2> SUFFICES ASSUME NEW s \in SUBSET m, s # m PROVE \E g : IsSum(f, s, g)
    BY Zenon
  <2> QED
    BY <1>2, <1>3
<1> HIDE DEF Bad
<1>5. \A s \in SUBSET m : h[s] = IF s # m THEN G(s)[s]
                                 ELSE IF m = {} THEN 0 ELSE f[p] + G(m \ {p})[m \ {p}]
  BY Zenon
<1>6. DOMAIN h = SUBSET m
  BY Zenon
<1> HIDE DEF G, h
<1>7. ASSUME NEW s \in SUBSET m
      PROVE  h[s] = IF s = {} THEN 0 ELSE f[Pick(s)] + h[s \ {Pick(s)}]
  <2>1. CASE s = m
    <3>1. CASE m = {}
      BY <1>5, <2>1, <3>1
    <3>2. CASE m # {}
      <4>1. p \in m /\ m \ {p} \in SUBSET m /\ m \ {p} # m
        BY <3>2, PickIn
      <4>2. h[m \ {p}] = G(m \ {p})[m \ {p}]
        BY <1>5, <4>1
      <4>3. h[m] = f[p] + G(m \ {p})[m \ {p}]
        BY <1>5, <3>2
      <4> QED
        BY <2>1, <3>2, <4>2, <4>3
    <3> QED
      BY <3>1, <3>2
  <2>2. CASE s # m
    <3> DEFINE r == s \ {Pick(s)}
    <3>1. IsSum(f, s, G(s)) /\ h[s] = G(s)[s] /\ s \in SUBSET s
      BY <1>4, <1>5, <2>2
    <3>2. G(s)[s] = IF s = {} THEN 0 ELSE f[Pick(s)] + G(s)[r]
      BY <3>1, SumValue
    <3>3. ASSUME s # {} PROVE G(s)[r] = h[r]
      <4>1. r \in SUBSET m /\ r # m /\ r \in SUBSET s /\ r \in SUBSET r
        BY <3>3, <2>2, PickIn
      <4>2. IsSum(f, r, G(r)) /\ h[r] = G(r)[r]
        BY <1>4, <1>5, <4>1
      <4>3. IsFiniteSet(s)
        BY <1>3, FS_Subset
      <4> HIDE DEF r
      <4> QED
        BY <3>1, <4>1, <4>2, <4>3, SumUnique
    <3> QED
      BY <3>1, <3>2, <3>3
  <2> QED
    BY <2>1, <2>2
<1>8. IsSum(f, m, h)
  <2>1. h = [s \in SUBSET m |-> h[s]]
    BY <1>5, <1>6 DEF h
  <2>2. [s \in SUBSET m |-> h[s]]
          = [s \in SUBSET m |-> IF s = {} THEN 0 ELSE f[Pick(s)] + h[s \ {Pick(s)}]]
    BY <1>7
  <2> QED
    BY <2>1, <2>2, Zenon DEF IsSum
<1> QED
  BY <1>3, <1>8

\* How the sum over a finite set is computed.
LEMMA SumStep ==
  ASSUME NEW f, NEW D, IsFiniteSet(D)
  PROVE  SumFunctionOnSet(f, D) =
           IF D = {} THEN 0 ELSE f[Pick(D)] + SumFunctionOnSet(f, D \ {Pick(D)})
<1> DEFINE G(s) == CHOOSE g : IsSum(f, s, g)
           r == D \ {Pick(D)}
<1>1. IsSum(f, D, G(D))
  BY SumExists, Zenon
<1>2. IsFiniteSet(r)
  BY FS_Subset
<1>3. IsSum(f, r, G(r))
  BY <1>2, SumExists, Zenon
<1>4. SumFunctionOnSet(f, D) = G(D)[D] /\ SumFunctionOnSet(f, r) = G(r)[r]
  BY SumIs, Zenon
<1>5. r \in SUBSET D /\ r \in SUBSET r /\ D \in SUBSET D
  OBVIOUS
<1> HIDE DEF G
<1>6. G(D)[D] = IF D = {} THEN 0 ELSE f[Pick(D)] + G(D)[r]
  BY <1>1, <1>5, SumValue
<1>7. G(D)[r] = G(r)[r]
  <2> HIDE DEF r
  <2> QED
    BY <1>1, <1>3, <1>5, SumUnique
<1> QED
  BY <1>4, <1>6, <1>7

\* Natural numbers have a natural sum.
LEMMA SumNat ==
  ASSUME NEW f, NEW D, IsFiniteSet(D), \A x \in D : f[x] \in Nat
  PROVE  SumFunctionOnSet(f, D) \in Nat
<1> DEFINE Bad == {s \in SUBSET D : SumFunctionOnSet(f, s) \notin Nat}
<1>1. SUFFICES ASSUME Bad # {} PROVE FALSE
  BY Zenon
<1>2. PICK m \in Bad : \A s \in SUBSET m : s # m => s \notin Bad
  <2>1. Bad \in SUBSET SUBSET D
    BY Zenon
  <2> HIDE DEF Bad
  <2> QED
    BY <1>1, <2>1, SmallestSubset
<1>3. m \in SUBSET D /\ SumFunctionOnSet(f, m) \notin Nat
  BY Zenon
<1> DEFINE p == Pick(m)
           r == m \ {p}
<1>4. IsFiniteSet(m)
  BY <1>3, FS_Subset
<1>5. SumFunctionOnSet(f, m) = IF m = {} THEN 0 ELSE f[p] + SumFunctionOnSet(f, r)
  BY <1>4, SumStep
<1>6. m # {} /\ p \in m
  BY <1>3, <1>5, PickIn
<1>7. r \in SUBSET m /\ r # m /\ r \in SUBSET D
  BY <1>3, <1>6
<1>8. SumFunctionOnSet(f, r) \in Nat
  BY <1>2, <1>7, Zenon
<1> HIDE DEF r, p
<1>9. f[p] \in Nat
  BY <1>3, <1>6
<1> QED
  BY <1>3, <1>5, <1>6, <1>8, <1>9

\* Any element can be taken out first.
LEMMA SumRemove ==
  ASSUME NEW f, NEW D, IsFiniteSet(D), \A x \in D : f[x] \in Nat, NEW e \in D
  PROVE  SumFunctionOnSet(f, D) = f[e] + SumFunctionOnSet(f, D \ {e})
<1> DEFINE Splits(s) == \A x \in s : SumFunctionOnSet(f, s) = f[x] + SumFunctionOnSet(f, s \ {x})
           Bad == {s \in SUBSET D : ~Splits(s)}
<1>1. SUFFICES ASSUME Bad # {} PROVE FALSE
  BY Zenon
<1>2. PICK m \in Bad : \A s \in SUBSET m : s # m => s \notin Bad
  <2>1. Bad \in SUBSET SUBSET D
    BY Zenon
  <2> HIDE DEF Bad
  <2> QED
    BY <1>1, <2>1, SmallestSubset
<1>3. m \in SUBSET D /\ ~Splits(m)
  BY Zenon
<1>4. \A s \in SUBSET m : s # m => Splits(s)
  BY <1>2, <1>3, Zenon
<1>5. PICK x \in m : SumFunctionOnSet(f, m) # f[x] + SumFunctionOnSet(f, m \ {x})
  BY <1>3, Zenon
<1> DEFINE p == Pick(m)
<1>6. IsFiniteSet(m) /\ m # {} /\ p \in m
  BY <1>3, <1>5, FS_Subset, PickIn
<1>7. SumFunctionOnSet(f, m) = f[p] + SumFunctionOnSet(f, m \ {p})
  BY <1>6, SumStep
<1> HIDE DEF p, Bad
<1>8. x # p
  BY <1>5, <1>7
<1>9. /\ m \ {p} \in SUBSET m /\ m \ {p} # m /\ x \in m \ {p}
      /\ m \ {x} \in SUBSET m /\ m \ {x} # m /\ p \in m \ {x}
      /\ (m \ {p}) \ {x} = (m \ {x}) \ {p}
  BY <1>6, <1>8
<1>10. SumFunctionOnSet(f, m \ {p}) = f[x] + SumFunctionOnSet(f, (m \ {p}) \ {x})
  BY <1>4, <1>9, Zenon
<1>11. SumFunctionOnSet(f, m \ {x}) = f[p] + SumFunctionOnSet(f, (m \ {p}) \ {x})
  BY <1>4, <1>9, Zenon
<1>12. SumFunctionOnSet(f, (m \ {p}) \ {x}) \in Nat
  <2> DEFINE r == (m \ {p}) \ {x}
  <2>1. r \in SUBSET D
    BY <1>3
  <2>2. IsFiniteSet(r) /\ \A y \in r : f[y] \in Nat
    BY <2>1, FS_Subset
  <2> HIDE DEF r
  <2>3. SumFunctionOnSet(f, r) \in Nat
    BY <2>2, SumNat
  <2> QED
    BY <2>3 DEF r
<1>13. f[x] \in Nat /\ f[p] \in Nat
  BY <1>3, <1>6
<1> DEFINE rest == SumFunctionOnSet(f, (m \ {p}) \ {x})
<1> HIDE DEF rest
<1> QED
  BY <1>5, <1>7, <1>10, <1>11, <1>12, <1>13 DEF rest

\* The sum over a set depends on the values there.
LEMMA SumSame ==
  ASSUME NEW f, NEW g, NEW D, IsFiniteSet(D), \A x \in D : f[x] = g[x]
  PROVE  SumFunctionOnSet(f, D) = SumFunctionOnSet(g, D)
<1> DEFINE Bad == {s \in SUBSET D : SumFunctionOnSet(f, s) # SumFunctionOnSet(g, s)}
<1>1. SUFFICES ASSUME Bad # {} PROVE FALSE
  BY Zenon
<1>2. PICK m \in Bad : \A s \in SUBSET m : s # m => s \notin Bad
  <2>1. Bad \in SUBSET SUBSET D
    BY Zenon
  <2> HIDE DEF Bad
  <2> QED
    BY <1>1, <2>1, SmallestSubset
<1>3. m \in SUBSET D /\ SumFunctionOnSet(f, m) # SumFunctionOnSet(g, m)
  BY Zenon
<1> DEFINE p == Pick(m)
           r == m \ {p}
<1>4. IsFiniteSet(m)
  BY <1>3, FS_Subset
<1>5. /\ SumFunctionOnSet(f, m) = IF m = {} THEN 0 ELSE f[p] + SumFunctionOnSet(f, r)
      /\ SumFunctionOnSet(g, m) = IF m = {} THEN 0 ELSE g[p] + SumFunctionOnSet(g, r)
  BY <1>4, SumStep
<1>6. m # {} /\ p \in m
  BY <1>3, <1>5, PickIn
<1>7. r \in SUBSET m /\ r # m /\ r \in SUBSET D
  BY <1>3, <1>6
<1>8. SumFunctionOnSet(f, r) = SumFunctionOnSet(g, r)
  BY <1>2, <1>7, Zenon
<1> HIDE DEF r, p
<1> QED
  BY <1>3, <1>5, <1>6, <1>8

----------------------------------------------------------------------------
(* What was executed of an order.                                          *)

Event == [kind : {"Trade", "Invalidation", "Signed", "Unsigned"}, uid : Uid, amount : Nat]

TradesOf(log, u) == {b \in DOMAIN log : log[b].uid = u /\ log[b].kind = "Trade"}
Amounts(log) == [b \in DOMAIN log |-> log[b].amount]
Total(log, u) == SumFunctionOnSet(Amounts(log), TradesOf(log, u))

\* sum_sell and sum_buy as a function of the events, before and after a step.
LEMMA ExecutedIs ==
  ASSUME NEW u
  PROVE  Executed(u) = Total(events, u) /\ Executed(u)' = Total(events', u)
<1>1. /\ BlocksOf(u, {"Trade"}) = TradesOf(events, u)
      /\ BlocksOf(u, {"Trade"})' = TradesOf(events', u)
  BY DEF BlocksOf, TradesOf
<1> QED
  BY <1>1, Zenon DEF Executed, Total, Amounts

\* An order has finitely many trades, of natural amounts.
LEMMA TradesFinite ==
  ASSUME NEW log \in Seq(Event), NEW u
  PROVE  /\ IsFiniteSet(TradesOf(log, u)) /\ TradesOf(log, u) \subseteq 1 .. Len(log)
         /\ \A b \in TradesOf(log, u) : Amounts(log)[b] \in Nat
<1>1. IsFiniteSet(1 .. Len(log))
  BY FS_Interval
<1>2. TradesOf(log, u) \subseteq 1 .. Len(log)
  BY DEF TradesOf
<1>3. IsFiniteSet(TradesOf(log, u))
  BY <1>1, <1>2, FS_Subset
<1>4. \A b \in TradesOf(log, u) : Amounts(log)[b] \in Nat
  <2> SUFFICES ASSUME NEW b \in TradesOf(log, u) PROVE Amounts(log)[b] \in Nat
    OBVIOUS
  <2>1. b \in DOMAIN log
    BY DEF TradesOf
  <2>2. log[b] \in Event
    BY <2>1
  <2> QED
    BY <2>1, <2>2 DEF Amounts, Event
<1> QED
  BY <1>2, <1>3, <1>4

\* What was executed is an amount.
LEMMA TotalNat ==
  ASSUME NEW log \in Seq(Event), NEW u
  PROVE  Total(log, u) \in Nat
BY TradesFinite, SumNat DEF Total

\* An event adds its amount to its order, if it is a trade.
LEMMA TotalAppend ==
  ASSUME NEW log \in Seq(Event), NEW e \in Event, NEW u
  PROVE  Total(Append(log, e), u) =
           IF e.uid = u /\ e.kind = "Trade" THEN Total(log, u) + e.amount ELSE Total(log, u)
<1> DEFINE new == Append(log, e)
           n == Len(log) + 1
           T == TradesOf(log, u)
<1>1. /\ new \in Seq(Event) /\ DOMAIN log = 1 .. Len(log) /\ Len(log) \in Nat
      /\ DOMAIN new = 1 .. n /\ new[n] = e
      /\ \A b \in 1 .. Len(log) : new[b] = log[b]
  OBVIOUS
<1> HIDE DEF new
<1>2. n \notin T
  BY <1>1 DEF TradesOf
<1>3. TradesOf(new, u) = IF e.uid = u /\ e.kind = "Trade" THEN T \cup {n} ELSE T
  BY <1>1 DEF TradesOf
<1>4. Amounts(new)[n] = e.amount /\ \A b \in T : Amounts(new)[b] = Amounts(log)[b]
  BY <1>1 DEF TradesOf, Amounts
<1>5. SumFunctionOnSet(Amounts(new), T) = SumFunctionOnSet(Amounts(log), T)
  <2>1. IsFiniteSet(T)
    BY TradesFinite
  <2> HIDE DEF T
  <2> QED
    BY <1>4, <2>1, SumSame
<1>6. Total(log, u) \in Nat /\ e.amount \in Nat
  BY TotalNat DEF Event
<1>7. CASE e.uid = u /\ e.kind = "Trade"
  <2>1. /\ IsFiniteSet(TradesOf(new, u)) /\ n \in TradesOf(new, u)
        /\ \A b \in TradesOf(new, u) : Amounts(new)[b] \in Nat
    BY <1>1, <1>3, <1>7, TradesFinite
  <2>2. SumFunctionOnSet(Amounts(new), TradesOf(new, u))
          = Amounts(new)[n] + SumFunctionOnSet(Amounts(new), TradesOf(new, u) \ {n})
    <3> HIDE DEF n
    <3> QED
      BY <2>1, SumRemove
  <2>3. TradesOf(new, u) \ {n} = T
    BY <1>2, <1>3, <1>7
  <2>4. Total(new, u) = e.amount + Total(log, u)
    BY <1>4, <1>5, <2>2, <2>3 DEF Total
  <2> QED
    BY <1>6, <1>7, <2>4 DEF new
<1>8. CASE ~(e.uid = u /\ e.kind = "Trade")
  <2>1. Total(new, u) = Total(log, u)
    BY <1>3, <1>5, <1>8 DEF Total
  <2> QED
    BY <1>8, <2>1 DEF new
<1> QED
  BY <1>7, <1>8

\* A block that is reorganised away takes nothing but its own event.
LEMMA TotalDrop ==
  ASSUME NEW log \in Seq(Event), log # <<>>, NEW u
  PROVE  /\ SubSeq(log, 1, Len(log) - 1) \in Seq(Event)
         /\ Total(SubSeq(log, 1, Len(log) - 1), u) <= Total(log, u)
<1> DEFINE short == SubSeq(log, 1, Len(log) - 1)
           e == log[Len(log)]
<1>1. short \in Seq(Event) /\ e \in Event /\ log = Append(short, e)
  OBVIOUS
<1> HIDE DEF short, e
<1>2. Total(log, u) = IF e.uid = u /\ e.kind = "Trade" THEN Total(short, u) + e.amount
                                                       ELSE Total(short, u)
  BY <1>1, TotalAppend
<1>3. Total(short, u) \in Nat /\ e.amount \in Nat
  BY <1>1, TotalNat DEF Event
<1> QED
  BY <1>1, <1>2, <1>3 DEF short

----------------------------------------------------------------------------
(* Market prices.                                                          *)

\* Products of amounts grow with their factors.
LEMMA ProductMonotonic ==
  ASSUME NEW x \in Nat, NEW y \in Nat, NEW z \in Nat, x <= y
  PROVE  x * z <= y * z /\ z * x <= z * y /\ x * z \in Nat /\ y * z \in Nat
<1>1. PICK d \in Nat : y = x + d
  <2>1. y - x \in Nat /\ y = x + (y - x)
    OBVIOUS
  <2> QED
    BY <2>1
<1>2. /\ (x + d) * z = x * z + d * z /\ d * z \in Nat /\ x * z \in Nat /\ (x + d) * z \in Nat
      /\ z * (x + d) = (x + d) * z /\ z * x = x * z
  OBVIOUS
<1> DEFINE xz == x * z
           dz == d * z
<1>3. xz \in Nat /\ dz \in Nat /\ y * z = xz + dz /\ z * y = xz + dz /\ z * x = xz
  BY <1>1, <1>2
<1> HIDE DEF xz, dz
<1>4. xz <= xz + dz /\ xz + dz \in Nat
  BY <1>3
<1> QED
  BY <1>1, <1>2, <1>3, <1>4 DEF xz

\* Quotients, rounded down, grow with the dividend.
LEMMA QuotientMonotonic ==
  ASSUME NEW x \in Nat, NEW y \in Nat, NEW z \in Nat \ {0}, x <= y
  PROVE  x \div z \in Nat /\ y \div z \in Nat /\ x \div z <= y \div z
<1> DEFINE a == x \div z
           b == y \div z
<1>1. /\ a \in Nat /\ b \in Nat
      /\ z * a <= x /\ y < z * b + z
  OBVIOUS
<1> HIDE DEF a, b
<1>2. a <= b
  <2> SUFFICES ASSUME b + 1 <= a PROVE FALSE
    BY <1>1
  <2>1. z * (b + 1) <= z * a /\ z * (b + 1) \in Nat /\ z * a \in Nat
    BY <1>1, ProductMonotonic
  <2>2. z * (b + 1) = z * b + z
    BY <1>1
  <2> DEFINE zb == z * b
             za == z * a
  <2>3. zb \in Nat /\ za \in Nat /\ zb + z <= za /\ za <= x /\ y < zb + z
    BY <1>1, <2>1, <2>2
  <2> HIDE DEF zb, za
  <2> QED
    BY <2>3
<1> QED
  BY <1>1, <1>2 DEF a, b

\* Costs only move an order further from the market price: what is counted as outside
\* of it was outside when it was placed.
LEMMA CountedWasChecked ==
  ASSUME data \in [Uid -> Order], NEW u \in Uid, OutsideWhenCounted(u)
  PROVE  OutsideWhenPlaced(u)
<1> DEFINE o == data[u]
           q == o.quote
           fee == q.fee
           more == fee + o.additional_cost
<1>1. /\ o.sell \in Nat /\ o.buy \in Nat /\ q.sell \in Nat /\ q.buy \in Nat
      /\ fee \in Nat /\ more \in Nat /\ fee <= more
  <2>1. o \in Order
    OBVIOUS
  <2>2. q \in [sell : Nat, buy : Nat, fee : Nat] /\ o.additional_cost \in Nat
        /\ o.sell \in Nat /\ o.buy \in Nat
    BY <2>1 DEF Order
  <2> QED
    BY <2>2
<1> DEFINE cost == (fee * q.buy) \div q.sell
           more_cost == (more * q.buy) \div q.sell
<1>2. IF o.kind = "Buy"
      THEN o.sell * q.buy < (q.sell + fee) * o.buy
      ELSE q.sell = 0 \/ cost > q.buy \/ o.sell * (q.buy - cost) < q.sell * o.buy
  BY DEF OutsideWhenCounted, is_order_outside_market_price
<1>3. SUFFICES IF o.kind = "Buy"
               THEN o.sell * q.buy < (q.sell + more) * o.buy
               ELSE \/ q.sell = 0 \/ more_cost > q.buy
                    \/ o.sell * (q.buy - more_cost) < q.sell * o.buy
  BY DEF OutsideWhenPlaced, is_order_outside_market_price
<1> HIDE DEF o, q, fee, more
<1>4. CASE o.kind = "Buy"
  <2>1. /\ (q.sell + fee) * o.buy <= (q.sell + more) * o.buy
        /\ (q.sell + fee) * o.buy \in Nat /\ (q.sell + more) * o.buy \in Nat
        /\ o.sell * q.buy \in Nat
    <3>1. q.sell + fee \in Nat /\ q.sell + more \in Nat /\ q.sell + fee <= q.sell + more
      BY <1>1
    <3>2. /\ (q.sell + fee) * o.buy <= (q.sell + more) * o.buy
          /\ (q.sell + fee) * o.buy \in Nat /\ (q.sell + more) * o.buy \in Nat
      BY <1>1, <3>1, ProductMonotonic
    <3>3. o.sell * q.buy \in Nat
      BY <1>1
    <3> QED
      BY <3>2, <3>3
  <2> DEFINE left == o.sell * q.buy
             right == (q.sell + fee) * o.buy
             further == (q.sell + more) * o.buy
  <2>2. left \in Nat /\ right \in Nat /\ further \in Nat /\ right <= further /\ left < right
    BY <1>2, <1>4, <2>1
  <2> HIDE DEF left, right, further
  <2>3. left < further
    BY <2>2
  <2> QED
    BY <1>4, <2>3 DEF left, further
<1>5. CASE o.kind # "Buy" /\ q.sell # 0 /\ ~(more_cost > q.buy)
  <2>1. fee * q.buy <= more * q.buy /\ fee * q.buy \in Nat /\ more * q.buy \in Nat
    BY <1>1, ProductMonotonic
  <2>2. cost \in Nat /\ more_cost \in Nat /\ cost <= more_cost
    <3> DEFINE x == fee * q.buy
               y == more * q.buy
    <3>1. x \in Nat /\ y \in Nat /\ x <= y /\ q.sell \in Nat \ {0}
      BY <1>1, <1>5, <2>1
    <3> HIDE DEF x, y
    <3>2. x \div q.sell \in Nat /\ y \div q.sell \in Nat /\ x \div q.sell <= y \div q.sell
      BY <3>1, QuotientMonotonic
    <3> QED
      BY <3>2 DEF x, y
  <2> HIDE DEF cost, more_cost
  <2>3. /\ q.buy - cost \in Nat /\ q.buy - more_cost \in Nat
        /\ q.buy - more_cost <= q.buy - cost /\ ~(cost > q.buy)
    BY <1>1, <1>5, <2>2
  <2> DEFINE left == o.sell * (q.buy - cost)
             less == o.sell * (q.buy - more_cost)
             right == q.sell * o.buy
  <2>4. less <= left
    BY <1>1, <2>3, ProductMonotonic
  <2>5. less \in Nat /\ left \in Nat /\ right \in Nat
    BY <1>1, <2>3
  <2>6. left < right
    BY <1>2, <1>5, <2>3
  <2> HIDE DEF left, less, right
  <2>7. less < right
    BY <2>4, <2>5, <2>6
  <2> QED
    BY <1>5, <2>7 DEF less, right
<1> QED
  BY <1>4, <1>5

----------------------------------------------------------------------------
(* The inductive invariant.                                                *)

Labels == {"None", "Created", "Cancelled", "Auctioned", "Traded"}
Requests == [step : {"idle", "insert", "cancel"}, uids : SUBSET Uid,
             replaced : SUBSET Uid, quoted : SUBSET Uid]

TypeInv ==
  /\ data \in [Uid -> Order] /\ now \in Nat
  /\ orders \in SUBSET Uid /\ cancelled \in SUBSET Uid /\ order_quotes \in SUBSET orders
  /\ order_events \in [Uid -> Labels]
  /\ events \in Seq(Event)
  /\ request \in [Client -> Requests]
  /\ auction \in SUBSET Uid /\ tasks \in SUBSET SUBSET Uid
  /\ asked \in SUBSET orders /\ asked \in SUBSET cancelled

\* What a request will write: an order with what it replaces and perhaps its quote, or
\* cancellations of orders of the book.
RequestInv ==
  \A c \in Client :
    /\ request[c].step = "insert" =>
         \E u \in Uid : /\ request[c].uids = {u} /\ request[c].replaced = data[u].replaces
                        /\ request[c].quoted \subseteq {u}
    /\ request[c].step = "cancel" => request[c].uids \subseteq orders

\* No order is filled beyond its target; what was never filled or invalidated is
\* neither now.
FilledInv ==
  \A u \in Uid : /\ Executed(u) \in Nat /\ Executed(u) <= Target(u)
                 /\ u \notin closed => Executed(u) < Target(u) /\ ~InvalidatedOnChain(u)

\* A successor in the book cancels what it replaces; nobody else cancels unasked.
ReplacedInv ==
  /\ \A u \in orders : data[u].replaces \subseteq cancelled
  /\ \A old \in cancelled \ asked : \E u \in orders : old \in data[u].replaces

\* What no auction used when it was cancelled is in no auction, spawned task or trade.
CancelledInv ==
  \A u \in asked \ overtaken :
    /\ order_events[u] = "Cancelled"
    /\ u \notin auction /\ \A uids \in tasks : u \notin uids
    /\ BlocksOf(u, {"Trade"}) = {}

\* Orders that count against the limit of owner, and requests that may add one.
Counting(owner) ==
  {u \in order_quotes \ (closed \cup cancelled) :
     data[u].valid_to >= now /\ data[u].owner = owner /\ OutsideWhenCounted(u)}

Adding(owner) ==
  {c \in Client : /\ request[c].step = "insert"
                  /\ \E u \in request[c].quoted : data[u].owner = owner /\ OutsideWhenCounted(u)}

LimitInv ==
  \A owner \in User :
    Cardinality(Counting(owner)) + Cardinality(Adding(owner))
      < MaxLimitOrders + Cardinality(Client)

IInv ==
  /\ TypeInv /\ RequestInv /\ FilledInv /\ ReplacedInv /\ CancelledInv /\ LimitInv

\* An order asks for at least one unit.
LEMMA TargetPositive ==
  ASSUME data \in [Uid -> Order], NEW u \in Uid
  PROVE  Target(u) \in Nat /\ Target(u) >= 1
<1>1. data[u] \in Order
  OBVIOUS
<1>2. data[u].sell \in Nat \ {0} /\ data[u].buy \in Nat \ {0}
  BY <1>1 DEF Order
<1> QED
  BY <1>2 DEF Target

\* Both sets are finite, and every client has one request.
LEMMA CountingFinite ==
  ASSUME TypeInv, NEW owner
  PROVE  /\ IsFiniteSet(Counting(owner)) /\ Cardinality(Counting(owner)) \in Nat
         /\ IsFiniteSet(Adding(owner)) /\ Cardinality(Adding(owner)) \in Nat
         /\ Cardinality(Adding(owner)) <= Cardinality(Client) /\ Cardinality(Client) \in Nat
<1>1. Counting(owner) \subseteq Uid
  BY DEF TypeInv, Counting
<1>2. Adding(owner) \subseteq Client
  BY DEF Adding
<1>3. IsFiniteSet(Counting(owner))
  BY <1>1, ClientAssumption, FS_Subset
<1>4. IsFiniteSet(Adding(owner)) /\ Cardinality(Adding(owner)) <= Cardinality(Client)
  BY <1>2, ClientAssumption, FS_Subset
<1> QED
  BY <1>3, <1>4, ClientAssumption, FS_CardinalityType

\* Only the data of an order decide whether it is outside the market price.
LEMMA OutsideUnchanged ==
  ASSUME UNCHANGED data, NEW u
  PROVE  OutsideWhenCounted(u)' <=> OutsideWhenCounted(u)
BY DEF OutsideWhenCounted, is_order_outside_market_price

\* The limit holds as long as neither set grows.
LEMMA LimitKept ==
  ASSUME TypeInv, TypeInv', LimitInv, UNCHANGED data,
         \A owner \in User : Counting(owner)' \subseteq Counting(owner)
                             /\ Adding(owner)' \subseteq Adding(owner)
  PROVE  LimitInv'
<1> SUFFICES ASSUME NEW owner \in User
             PROVE  Cardinality(Counting(owner)') + Cardinality(Adding(owner)')
                      < MaxLimitOrders + Cardinality(Client)
  BY DEF LimitInv
<1> DEFINE C == Cardinality(Counting(owner))
           A == Cardinality(Adding(owner))
           Cp == Cardinality(Counting(owner)')
           Ap == Cardinality(Adding(owner)')
<1>1. Cp <= C /\ Ap <= A
  BY CountingFinite, FS_Subset
<1>2. C \in Nat /\ A \in Nat /\ Cp \in Nat /\ Ap \in Nat
  <2>1. C \in Nat /\ A \in Nat /\ IsFiniteSet(Counting(owner)) /\ IsFiniteSet(Adding(owner))
    BY CountingFinite
  <2>2. IsFiniteSet(Counting(owner)') /\ IsFiniteSet(Adding(owner)')
    BY <2>1, FS_Subset
  <2> QED
    BY <2>1, <2>2, FS_CardinalityType
<1>3. C + A < MaxLimitOrders + Cardinality(Client)
  BY DEF LimitInv
<1>4. MaxLimitOrders \in Nat /\ Cardinality(Client) \in Nat
  BY PeriodAssumption, CountingFinite
<1> HIDE DEF C, A, Cp, Ap
<1>5. Cp + Ap < MaxLimitOrders + Cardinality(Client)
  BY <1>1, <1>2, <1>3, <1>4
<1> QED
  BY <1>5 DEF Cp, Ap

----------------------------------------------------------------------------
(* The steps.                                                              *)

\* Without an event on the chain everything that is read from it stays.
LEMMA EventsUnchanged ==
  ASSUME UNCHANGED <<data, events>>, NEW u
  PROVE  /\ Executed(u)' = Executed(u) /\ Target(u)' = Target(u)
         /\ InvalidatedOnChain(u)' <=> InvalidatedOnChain(u)
         /\ \A kinds : BlocksOf(u, kinds)' = BlocksOf(u, kinds)
<1>1. Executed(u)' = Executed(u)
  BY ExecutedIs
<1> QED
  BY <1>1 DEF Target, InvalidatedOnChain, BlocksOf

\* Without an event on the chain nothing is filled.
LEMMA FilledKept ==
  ASSUME FilledInv, UNCHANGED <<data, events, closed>>
  PROVE  FilledInv'
BY EventsUnchanged DEF FilledInv

\* Without a change of an order's log, of the auction and of the chain, reports stay.
LEMMA CancelledKept ==
  ASSUME CancelledInv, UNCHANGED <<data, events, order_events, auction, tasks, asked, overtaken>>
  PROVE  CancelledInv'
BY EventsUnchanged DEF CancelledInv

\* The empty book.
LEMMA InitIInv == Init => IInv
<1> SUFFICES ASSUME Init PROVE IInv
  OBVIOUS
<1>1. TypeInv
  BY BooksAssumption DEF Init, TypeInv, Idle, Labels, Requests
<1>2. RequestInv /\ ReplacedInv /\ CancelledInv
  BY DEF Init, RequestInv, ReplacedInv, CancelledInv, Idle
<1>3. FilledInv
  <2> SUFFICES ASSUME NEW u \in Uid
               PROVE  Executed(u) = 0 /\ ~InvalidatedOnChain(u)
    BY <1>1, TargetPositive DEF FilledInv, TypeInv
  <2>1. TradesOf(events, u) = {} /\ BlocksOf(u, {"Invalidation"}) = {}
    BY DEF Init, TradesOf, BlocksOf
  <2>2. Total(events, u) = 0
    BY <2>1, FS_EmptySet, SumStep DEF Total
  <2> QED
    BY <2>1, <2>2, ExecutedIs DEF InvalidatedOnChain
<1>4. LimitInv
  <2> SUFFICES ASSUME NEW owner \in User
               PROVE  Cardinality(Counting(owner)) + Cardinality(Adding(owner))
                        < MaxLimitOrders + Cardinality(Client)
    BY DEF LimitInv
  <2>1. Counting(owner) = {} /\ Adding(owner) = {}
    BY DEF Init, Counting, Adding, Idle
  <2>2. Cardinality(Counting(owner)) = 0 /\ Cardinality(Adding(owner)) = 0
    BY <2>1, FS_EmptySet
  <2>3. Cardinality(Client) \in Nat /\ Cardinality(Client) # 0
    BY ClientAssumption, FS_CardinalityType, FS_EmptySet
  <2>4. MaxLimitOrders \in Nat
    BY PeriodAssumption
  <2> QED
    BY <2>2, <2>3, <2>4
<1> QED
  BY <1>1, <1>2, <1>3, <1>4 DEF IInv

\* An order is validated: if it will count, fewer orders than the limit counted.
LEMMA AddOrderIInv ==
  ASSUME IInv, NEW c \in Client, NEW u \in Uid, NEW quoted \in SUBSET {u},
         AddOrder(c, u, quoted)
  PROVE  IInv'
<1> DEFINE new == [step |-> "insert", uids |-> {u}, replaced |-> data[u].replaces,
                   quoted |-> quoted]
<1>1. /\ UNCHANGED <<data, now, orders, cancelled, order_quotes, order_events, events, processed>>
      /\ UNCHANGED <<auction, tasks, asked, overtaken, closed>>
      /\ request' = [request EXCEPT ![c] = new]
      /\ (u \in quoted /\ OutsideWhenPlaced(u)) => count(data[u].owner) < MaxLimitOrders
  BY DEF AddOrder, tables, autopilot, history, check_max_limit_orders
<1>2. data \in [Uid -> Order] /\ data[u].replaces \in SUBSET Uid
  BY DEF IInv, TypeInv, Order
<1>3. /\ new \in Requests /\ new.step = "insert" /\ new.uids = {u}
      /\ new.replaced = data[u].replaces /\ new.quoted = quoted
  BY <1>2 DEF Requests
<1> HIDE DEF new
<1>4. /\ request' \in [Client -> Requests] /\ request'[c] = new
      /\ \A d \in Client : d # c => request'[d] = request[d]
  BY <1>1, <1>3 DEF IInv, TypeInv
<1>5. TypeInv'
  BY <1>1, <1>4 DEF IInv, TypeInv
<1>6. RequestInv'
  BY <1>1, <1>3, <1>4 DEF IInv, RequestInv
<1>7. FilledInv' /\ CancelledInv'
  BY <1>1, FilledKept, CancelledKept DEF IInv
<1>8. ReplacedInv'
  BY <1>1 DEF IInv, ReplacedInv
<1>9. LimitInv'
  <2> SUFFICES ASSUME NEW owner \in User
               PROVE  Cardinality(Counting(owner)') + Cardinality(Adding(owner)')
                        < MaxLimitOrders + Cardinality(Client)
    BY DEF LimitInv
  <2> DEFINE C == Cardinality(Counting(owner))
             A == Cardinality(Adding(owner))
             Ap == Cardinality(Adding(owner)')
  <2>1. Counting(owner)' = Counting(owner)
    BY <1>1, OutsideUnchanged DEF Counting
  <2>2. /\ IsFiniteSet(Counting(owner)) /\ C \in Nat /\ A \in Nat
        /\ IsFiniteSet(Adding(owner)) /\ Cardinality(Client) \in Nat
    BY CountingFinite DEF IInv
  <2>3. Ap \in Nat /\ Ap <= Cardinality(Client)
    <3>1. Adding(owner)' \subseteq Client
      BY DEF Adding
    <3>2. IsFiniteSet(Adding(owner)') /\ Ap <= Cardinality(Client)
      BY <3>1, ClientAssumption, FS_Subset
    <3> QED
      BY <3>2, FS_CardinalityType
  <2>4. MaxLimitOrders \in Nat
    BY PeriodAssumption
  <2>5. CASE u \in quoted /\ data[u].owner = owner /\ OutsideWhenCounted(u)
    <3>1. count(owner) < MaxLimitOrders
      BY <1>1, <1>2, <2>5, CountedWasChecked
    <3> DEFINE Open == {v \in OPEN_ORDERS(now) \cap order_quotes :
                          data[v].owner = owner /\ OutsideWhenCounted(v)}
    <3>2. Counting(owner) \subseteq Open
      <4> SUFFICES ASSUME NEW v \in Counting(owner) PROVE v \in OPEN_ORDERS(now)
        BY DEF Counting
      <4> QED
        BY DEF IInv, TypeInv, FilledInv, Counting, OPEN_ORDERS, invalidated
    <3>3. IsFiniteSet(Open)
      <4>1. Open \subseteq Uid
        BY DEF IInv, TypeInv
      <4> QED
        BY <4>1, ClientAssumption, FS_Subset
    <3>4. count(owner) = Cardinality(Open)
      BY DEF count
    <3> HIDE DEF Open
    <3>5. C <= Cardinality(Open) /\ Cardinality(Open) \in Nat
      BY <3>2, <3>3, FS_Subset, FS_CardinalityType
    <3> HIDE DEF C, Ap
    <3>6. C + Ap < MaxLimitOrders + Cardinality(Client)
      BY <2>2, <2>3, <2>4, <3>1, <3>4, <3>5
    <3> QED
      BY <2>1, <3>6 DEF C, Ap
  <2>6. CASE ~(u \in quoted /\ data[u].owner = owner /\ OutsideWhenCounted(u))
    <3>1. Adding(owner)' \subseteq Adding(owner)
      BY <1>1, <1>3, <1>4, <2>6, OutsideUnchanged DEF Adding
    <3>2. Ap <= A
      BY <2>2, <3>1, FS_Subset
    <3>3. C + A < MaxLimitOrders + Cardinality(Client)
      BY DEF IInv, LimitInv
    <3> HIDE DEF C, A, Ap
    <3>4. C + Ap < MaxLimitOrders + Cardinality(Client)
      BY <2>2, <2>3, <2>4, <3>2, <3>3
    <3> QED
      BY <2>1, <3>4 DEF C, Ap
  <2> QED
    BY <2>5, <2>6
<1> QED
  BY <1>5, <1>6, <1>7, <1>8, <1>9 DEF IInv

\* The transaction of add_order: an order that counts takes the place of its request.
LEMMA StoreOrderIInv ==
  ASSUME IInv, NEW c \in Client, NEW ok \in BOOLEAN, StoreOrder(c, ok)
  PROVE  IInv'
<1>1. /\ request[c].step = "insert" /\ request' = [request EXCEPT ![c] = Idle]
      /\ UNCHANGED <<data, now, events, processed, auction, tasks, asked, overtaken, closed>>
  BY DEF StoreOrder, autopilot, history
<1>2. PICK u \in Uid : /\ request[c].uids = {u} /\ request[c].replaced = data[u].replaces
                       /\ request[c].quoted \subseteq {u}
  BY <1>1 DEF IInv, RequestInv
<1>3. Idle \in Requests /\ Idle.step = "idle"
  BY DEF Idle, Requests
<1>4. /\ request' \in [Client -> Requests] /\ request'[c] = Idle
      /\ \A d \in Client : d # c => request'[d] = request[d]
  BY <1>1, <1>3 DEF IInv, TypeInv
<1>5. FilledInv'
  BY <1>1, FilledKept DEF IInv
<1>6. \A owner \in User : Adding(owner)' \subseteq Adding(owner) \ {c}
  BY <1>1, <1>3, <1>4, OutsideUnchanged DEF Adding
<1>7. data[u].replaces \in SUBSET Uid
  BY DEF IInv, TypeInv, Order
<1> DEFINE Stored == /\ u \notin orders /\ orders' = orders \cup {u}
                     /\ cancelled' = cancelled \cup data[u].replaces
                     /\ order_quotes' = order_quotes \cup request[c].quoted
                     /\ order_events' = Log("Created", {u})
<1>8. Stored \/ UNCHANGED <<orders, cancelled, order_quotes, order_events>>
  BY <1>2 DEF StoreOrder, tables
<1>9. CASE UNCHANGED <<orders, cancelled, order_quotes, order_events>>
  <2>1. TypeInv'
    BY <1>1, <1>4, <1>9 DEF IInv, TypeInv
  <2>2. RequestInv' /\ ReplacedInv'
    BY <1>1, <1>3, <1>4, <1>9 DEF IInv, RequestInv, ReplacedInv
  <2>3. CancelledInv'
    BY <1>1, <1>9, CancelledKept DEF IInv
  <2>4. \A owner \in User : Counting(owner)' \subseteq Counting(owner)
    BY <1>1, <1>9, OutsideUnchanged DEF Counting
  <2>5. LimitInv'
    BY <1>1, <1>6, <2>1, <2>4, LimitKept DEF IInv
  <2> QED
    BY <1>5, <2>1, <2>2, <2>3, <2>5 DEF IInv
<1>10. CASE Stored
  <2>1. order_events' \in [Uid -> Labels] /\ \A v \in Uid : v # u => order_events'[v] = order_events[v]
    BY <1>10 DEF IInv, TypeInv, Log, Labels
  <2>2. TypeInv'
    BY <1>1, <1>2, <1>4, <1>7, <1>10, <2>1 DEF IInv, TypeInv
  <2>3. RequestInv'
    BY <1>1, <1>3, <1>4, <1>10 DEF IInv, RequestInv
  <2>4. ReplacedInv'
    BY <1>1, <1>10 DEF IInv, ReplacedInv
  <2>5. CancelledInv'
    <3> SUFFICES ASSUME NEW v \in asked \ overtaken
                 PROVE  /\ order_events'[v] = "Cancelled"
                        /\ v \notin auction /\ \A s \in tasks : v \notin s
                        /\ BlocksOf(v, {"Trade"}) = {}
      BY <1>1, EventsUnchanged DEF CancelledInv
    <3>1. v \in Uid /\ v # u
      BY <1>10 DEF IInv, TypeInv
    <3>2. order_events'[v] = order_events[v]
      BY <2>1, <3>1
    <3> QED
      BY <3>2 DEF IInv, CancelledInv
  <2>6. LimitInv'
    <3> SUFFICES ASSUME NEW owner \in User
                 PROVE  Cardinality(Counting(owner)') + Cardinality(Adding(owner)')
                          < MaxLimitOrders + Cardinality(Client)
      BY DEF LimitInv
    <3> DEFINE C == Cardinality(Counting(owner))
               A == Cardinality(Adding(owner))
               Cp == Cardinality(Counting(owner)')
               Ap == Cardinality(Adding(owner)')
               Counts == u \in request[c].quoted /\ data[u].owner = owner /\ OutsideWhenCounted(u)
    <3>1. /\ IsFiniteSet(Counting(owner)) /\ C \in Nat /\ IsFiniteSet(Adding(owner)) /\ A \in Nat
          /\ Cardinality(Client) \in Nat
      BY CountingFinite DEF IInv
    <3>2. C + A < MaxLimitOrders + Cardinality(Client) /\ MaxLimitOrders \in Nat
      BY PeriodAssumption DEF IInv, LimitInv
    <3>3. Counting(owner)' \subseteq Counting(owner) \cup (IF Counts THEN {u} ELSE {})
      BY <1>1, <1>2, <1>10, OutsideUnchanged DEF Counting
    <3>4. CASE Counts
      <4>1. c \in Adding(owner)
        BY <1>1, <3>4 DEF Adding
      <4>2. IsFiniteSet(Counting(owner) \cup {u}) /\ Cardinality(Counting(owner) \cup {u}) <= C + 1
        <5>1. /\ IsFiniteSet(Counting(owner) \cup {u})
              /\ Cardinality(Counting(owner) \cup {u}) =
                   IF u \in Counting(owner) THEN C ELSE C + 1
          BY <3>1, FS_AddElement
        <5> QED
          BY <3>1, <5>1
      <4>3. IsFiniteSet(Adding(owner) \ {c}) /\ Cardinality(Adding(owner) \ {c}) = A - 1
        BY <3>1, <4>1, FS_RemoveElement
      <4>4. /\ IsFiniteSet(Counting(owner)') /\ Cp <= Cardinality(Counting(owner) \cup {u})
        BY <3>3, <3>4, <4>2, FS_Subset
      <4>5. IsFiniteSet(Adding(owner)') /\ Ap <= Cardinality(Adding(owner) \ {c})
        BY <1>6, <4>3, FS_Subset
      <4>6. /\ Cp \in Nat /\ Ap \in Nat /\ Cardinality(Counting(owner) \cup {u}) \in Nat
        BY <4>2, <4>4, <4>5, FS_CardinalityType
      <4> HIDE DEF C, A, Cp, Ap
      <4>7. Cp <= C + 1 /\ Ap <= A - 1
        BY <3>1, <4>2, <4>3, <4>4, <4>5, <4>6
      <4>8. Cp + Ap < MaxLimitOrders + Cardinality(Client)
        BY <3>1, <3>2, <4>6, <4>7
      <4> QED
        BY <4>8 DEF Cp, Ap
    <3>5. CASE ~Counts
      <4>1. Counting(owner)' \subseteq Counting(owner) /\ Adding(owner)' \subseteq Adding(owner)
        BY <1>6, <3>3, <3>5
      <4>2. /\ IsFiniteSet(Counting(owner)') /\ Cp <= C /\ IsFiniteSet(Adding(owner)') /\ Ap <= A
        BY <3>1, <4>1, FS_Subset
      <4>3. Cp \in Nat /\ Ap \in Nat
        BY <4>2, FS_CardinalityType
      <4> HIDE DEF C, A, Cp, Ap
      <4>4. Cp + Ap < MaxLimitOrders + Cardinality(Client)
        BY <3>1, <3>2, <4>2, <4>3
      <4> QED
        BY <4>4 DEF Cp, Ap
    <3> QED
      BY <3>4, <3>5
  <2> QED
    BY <1>5, <2>2, <2>3, <2>4, <2>5, <2>6 DEF IInv
<1> QED
  BY <1>8, <1>9, <1>10

\* The orders of a cancellation are in the book, and stay there.
LEMMA FindOrdersIInv ==
  ASSUME IInv, NEW c \in Client, NEW uids \in SUBSET Uid, FindOrders(c, uids)
  PROVE  IInv'
<1> DEFINE new == [Idle EXCEPT !.step = "cancel", !.uids = uids]
<1>1. /\ UNCHANGED <<data, now, orders, cancelled, order_quotes, order_events, events, processed>>
      /\ UNCHANGED <<auction, tasks, asked, overtaken, closed>>
      /\ request' = [request EXCEPT ![c] = new] /\ uids \subseteq orders
  BY DEF FindOrders, tables, autopilot, history, Cancellable
<1>2. new \in Requests /\ new.step = "cancel" /\ new.uids = uids
  BY DEF Requests, Idle
<1> HIDE DEF new
<1>3. /\ request' \in [Client -> Requests] /\ request'[c] = new
      /\ \A d \in Client : d # c => request'[d] = request[d]
  BY <1>1, <1>2 DEF IInv, TypeInv
<1>4. TypeInv'
  BY <1>1, <1>3 DEF IInv, TypeInv
<1>5. RequestInv' /\ ReplacedInv'
  BY <1>1, <1>2, <1>3 DEF IInv, RequestInv, ReplacedInv
<1>6. FilledInv' /\ CancelledInv'
  BY <1>1, FilledKept, CancelledKept DEF IInv
<1>7. \A owner \in User : Counting(owner)' \subseteq Counting(owner)
                          /\ Adding(owner)' \subseteq Adding(owner)
  BY <1>1, <1>2, <1>3, OutsideUnchanged DEF Counting, Adding
<1>8. LimitInv'
  BY <1>1, <1>4, <1>7, LimitKept DEF IInv
<1> QED
  BY <1>4, <1>5, <1>6, <1>8 DEF IInv

\* Whoever could still log or trade a cancelled order is known when it is cancelled.
LEMMA CancelOrdersIInv ==
  ASSUME IInv, NEW c \in Client, CancelOrders(c)
  PROVE  IInv'
<1> DEFINE uids == request[c].uids
<1>1. /\ request[c].step = "cancel" /\ request' = [request EXCEPT ![c] = Idle]
      /\ cancelled' = cancelled \cup uids /\ asked' = asked \cup uids
      /\ overtaken' = overtaken \cup (uids \cap InUse)
      /\ order_events' = Log("Cancelled", uids)
      /\ UNCHANGED <<data, now, orders, order_quotes, events, processed, auction, tasks, closed>>
  BY DEF CancelOrders, autopilot
<1>2. uids \subseteq orders /\ uids \in SUBSET Uid
  BY <1>1 DEF IInv, RequestInv, TypeInv
<1> HIDE DEF uids
<1>3. Idle \in Requests /\ Idle.step = "idle"
  BY DEF Idle, Requests
<1>4. /\ request' \in [Client -> Requests] /\ request'[c] = Idle
      /\ \A d \in Client : d # c => request'[d] = request[d]
  BY <1>1, <1>3 DEF IInv, TypeInv
<1>5. /\ order_events' \in [Uid -> Labels]
      /\ \A u \in Uid : order_events'[u] = IF u \in uids THEN "Cancelled" ELSE order_events[u]
  BY <1>1 DEF IInv, TypeInv, Log, Labels
<1>6. TypeInv'
  BY <1>1, <1>2, <1>4, <1>5 DEF IInv, TypeInv
<1>7. RequestInv' /\ ReplacedInv'
  BY <1>1, <1>3, <1>4 DEF IInv, RequestInv, ReplacedInv
<1>8. FilledInv'
  BY <1>1, FilledKept DEF IInv
<1>9. CancelledInv'
  <2> SUFFICES ASSUME NEW u \in asked' \ overtaken'
               PROVE  /\ order_events'[u] = "Cancelled"
                      /\ u \notin auction /\ \A s \in tasks : u \notin s
                      /\ BlocksOf(u, {"Trade"}) = {}
    BY <1>1, EventsUnchanged DEF CancelledInv
  <2>1. u \in Uid
    BY <1>1, <1>2 DEF IInv, TypeInv
  <2>2. CASE u \in uids
    <3>1. u \notin InUse
      BY <1>1, <2>2
    <3>2. u \notin auction /\ u \notin UNION tasks /\ BlocksOf(u, {"Trade"}) = {}
      <4>1. u \notin auction /\ u \notin UNION tasks
        BY <3>1, Zenon DEF InUse
      <4> DEFINE Traded == {v \in Uid : BlocksOf(v, {"Trade"}) # {}}
      <4>2. InUse = (auction \cup UNION tasks) \cup Traded
        BY DEF InUse
      <4>3. u \notin Traded
        <5> HIDE DEF Traded
        <5> QED
          BY <3>1, <4>2
      <4> QED
        BY <2>1, <4>1, <4>3, Zenon
    <3> QED
      BY <1>5, <2>1, <2>2, <3>2
  <2>3. CASE u \notin uids
    BY <1>1, <1>5, <2>1, <2>3 DEF IInv, CancelledInv
  <2> QED
    BY <2>2, <2>3
<1>10. \A owner \in User : Counting(owner)' \subseteq Counting(owner)
                           /\ Adding(owner)' \subseteq Adding(owner)
  BY <1>1, <1>3, <1>4, OutsideUnchanged DEF Counting, Adding
<1>11. LimitInv'
  BY <1>1, <1>6, <1>10, LimitKept DEF IInv
<1> QED
  BY <1>6, <1>7, <1>8, <1>9, <1>11 DEF IInv

\* The autopilot's steps write no tables of the API.
LEMMA AutopilotIInv ==
  ASSUME IInv, UNCHANGED <<data, now, orders, cancelled, order_quotes, events, request>>,
         UNCHANGED <<asked, overtaken, closed>>,
         auction' \in SUBSET Uid, tasks' \in SUBSET SUBSET Uid, order_events' \in [Uid -> Labels],
         \A u \in asked \ overtaken :
           /\ order_events'[u] = "Cancelled"
           /\ u \notin auction' /\ \A uids \in tasks' : u \notin uids
  PROVE  IInv'
<1>1. TypeInv' /\ RequestInv' /\ ReplacedInv'
  BY DEF IInv, TypeInv, RequestInv, ReplacedInv
<1>2. FilledInv'
  BY FilledKept DEF IInv
<1>3. CancelledInv'
  <2> SUFFICES ASSUME NEW u \in asked \ overtaken
               PROVE  BlocksOf(u, {"Trade"})' = {}
    BY DEF CancelledInv
  <2>1. BlocksOf(u, {"Trade"}) = {}
    BY DEF IInv, CancelledInv
  <2> QED
    BY <2>1, EventsUnchanged
<1>4. \A owner \in User : Counting(owner)' \subseteq Counting(owner)
                          /\ Adding(owner)' \subseteq Adding(owner)
  BY OutsideUnchanged DEF Counting, Adding
<1>5. LimitInv'
  BY <1>1, <1>4, LimitKept DEF IInv
<1> QED
  BY <1>1, <1>2, <1>3, <1>5 DEF IInv

\* A new auction holds, and logs, orders that are open.
LEMMA UpdateCacheIInv ==
  ASSUME IInv, NEW kept \in SUBSET Uid, UpdateCache(kept)
  PROVE  IInv'
<1> DEFINE open == OPEN_ORDERS(now + MinOrderValidity)
<1>1. /\ kept \subseteq open /\ auction' = kept
      /\ tasks' = tasks \cup ({open \ kept} \ {{}})
      /\ UNCHANGED <<data, now, orders, cancelled, order_quotes, events, request>>
      /\ UNCHANGED <<asked, overtaken, closed, order_events>>
  BY DEF UpdateCache, tables, history
<1>2. open \subseteq Uid /\ \A u \in open : u \notin cancelled
  BY DEF IInv, TypeInv, OPEN_ORDERS, invalidated
<1> HIDE DEF open
<1>3. order_events' \in [Uid -> Labels] /\ auction' \in SUBSET Uid /\ tasks' \in SUBSET SUBSET Uid
  BY <1>1, <1>2 DEF IInv, TypeInv
<1>4. ASSUME NEW u \in asked \ overtaken
      PROVE  /\ order_events'[u] = "Cancelled"
             /\ u \notin auction' /\ \A uids \in tasks' : u \notin uids
  BY <1>1, <1>2 DEF IInv, TypeInv, CancelledInv
<1> QED
  BY <1>1, <1>3, <1>4, AutopilotIInv

\* RunLoop logs orders of the auction.
LEMMA LogAuctionIInv ==
  ASSUME IInv, NEW uids \in SUBSET Uid, LogAuction(uids)
  PROVE  IInv'
<1>1. /\ uids \subseteq auction /\ auction' = auction /\ tasks' = tasks \cup {uids}
      /\ UNCHANGED <<data, now, orders, cancelled, order_quotes, events, request>>
      /\ UNCHANGED <<asked, overtaken, closed, order_events>>
  BY DEF LogAuction, tables, history
<1>2. order_events' \in [Uid -> Labels] /\ auction' \in SUBSET Uid /\ tasks' \in SUBSET SUBSET Uid
  BY <1>1 DEF IInv, TypeInv
<1>3. ASSUME NEW u \in asked \ overtaken
      PROVE  /\ order_events'[u] = "Cancelled"
             /\ u \notin auction' /\ \A s \in tasks' : u \notin s
  BY <1>1 DEF IInv, CancelledInv
<1> QED
  BY <1>1, <1>2, <1>3, AutopilotIInv

\* A spawned task writes the log of its orders only.
LEMMA StoreOrderEventsIInv ==
  ASSUME IInv, NEW uids \in tasks, NEW stored \in BOOLEAN, StoreOrderEvents(uids, stored)
  PROVE  IInv'
<1>1. /\ auction' = auction /\ tasks' = tasks \ {uids}
      /\ order_events' = Log("Auctioned", uids) \/ order_events' = order_events
      /\ UNCHANGED <<data, now, orders, cancelled, order_quotes, events, request>>
      /\ UNCHANGED <<asked, overtaken, closed>>
  BY DEF StoreOrderEvents, tables, history
<1>2. /\ order_events' \in [Uid -> Labels]
      /\ \A u \in Uid : u \notin uids => order_events'[u] = order_events[u]
  BY <1>1 DEF IInv, TypeInv, Log, Labels
<1>3. auction' \in SUBSET Uid /\ tasks' \in SUBSET SUBSET Uid
  BY <1>1 DEF IInv, TypeInv
<1>4. ASSUME NEW u \in asked \ overtaken
      PROVE  /\ order_events'[u] = "Cancelled"
             /\ u \notin auction' /\ \A s \in tasks' : u \notin s
  <2>1. u \in Uid /\ u \notin uids /\ order_events[u] = "Cancelled"
        /\ u \notin auction /\ \A s \in tasks : u \notin s
    BY DEF IInv, TypeInv, CancelledInv
  <2> QED
    BY <1>1, <1>2, <2>1
<1> QED
  BY <1>1, <1>2, <1>3, <1>4, AutopilotIInv

\* A settlement is logged for the order it traded.
LEMMA ProcessSettlementIInv ==
  ASSUME IInv, NEW b, ProcessSettlement(b)
  PROVE  IInv'
<1>1. /\ b \in DOMAIN events /\ events[b].kind = "Trade"
      /\ order_events' = Log("Traded", {events[b].uid}) /\ auction' = auction /\ tasks' = tasks
      /\ UNCHANGED <<data, now, orders, cancelled, order_quotes, events, request>>
      /\ UNCHANGED <<asked, overtaken, closed>>
  BY DEF ProcessSettlement, tables, history, autopilot
<1>2. /\ order_events' \in [Uid -> Labels]
      /\ \A u \in Uid : u # events[b].uid => order_events'[u] = order_events[u]
  BY <1>1 DEF IInv, TypeInv, Log, Labels
<1>3. auction' \in SUBSET Uid /\ tasks' \in SUBSET SUBSET Uid
  BY <1>1 DEF IInv, TypeInv
<1>4. ASSUME NEW u \in asked \ overtaken
      PROVE  /\ order_events'[u] = "Cancelled"
             /\ u \notin auction' /\ \A s \in tasks' : u \notin s
  <2>1. u \in Uid /\ BlocksOf(u, {"Trade"}) = {} /\ order_events[u] = "Cancelled"
        /\ u \notin auction /\ \A s \in tasks : u \notin s
    BY DEF IInv, TypeInv, CancelledInv
  <2>2. u # events[b].uid
    BY <1>1, <2>1 DEF BlocksOf
  <2> QED
    BY <1>1, <1>2, <2>1, <2>2
<1> QED
  BY <1>1, <1>2, <1>3, <1>4, AutopilotIInv

\* What one more event says of an order.
LEMMA AppendEvent ==
  ASSUME events \in Seq(Event), NEW e \in Event, events' = Append(events, e), NEW u
  PROVE  /\ Executed(u)' = IF e.uid = u /\ e.kind = "Trade" THEN Executed(u) + e.amount
                                                            ELSE Executed(u)
         /\ InvalidatedOnChain(u)' <=>
              (InvalidatedOnChain(u) \/ (e.uid = u /\ e.kind = "Invalidation"))
         /\ BlocksOf(u, {"Trade"})' = {} <=>
              (BlocksOf(u, {"Trade"}) = {} /\ ~(e.uid = u /\ e.kind = "Trade"))
<1>1. Executed(u)' = IF e.uid = u /\ e.kind = "Trade" THEN Executed(u) + e.amount ELSE Executed(u)
  BY ExecutedIs, TotalAppend
<1>2. /\ DOMAIN events = 1 .. Len(events) /\ Len(events) \in Nat
      /\ DOMAIN events' = 1 .. Len(events) + 1 /\ events'[Len(events) + 1] = e
      /\ \A b \in 1 .. Len(events) : events'[b] = events[b]
  OBVIOUS
<1>3. InvalidatedOnChain(u)' <=>
        (InvalidatedOnChain(u) \/ (e.uid = u /\ e.kind = "Invalidation"))
  BY <1>2 DEF InvalidatedOnChain, BlocksOf
<1>4. BlocksOf(u, {"Trade"})' = {} <=>
        (BlocksOf(u, {"Trade"}) = {} /\ ~(e.uid = u /\ e.kind = "Trade"))
  BY <1>2 DEF BlocksOf
<1> QED
  BY <1>1, <1>3, <1>4

\* Steps of the chain write no tables of the API and keep what counts.
LEMMA ChainIInv ==
  ASSUME IInv, UNCHANGED <<data, now, orders, cancelled, order_quotes, order_events>>,
         UNCHANGED <<request, auction, tasks, asked>>, closed \subseteq closed',
         events' \in Seq(Event), FilledInv',
         \A u \in asked \ overtaken' : u \notin overtaken /\ BlocksOf(u, {"Trade"})' = {}
  PROVE  IInv'
<1>1. TypeInv' /\ RequestInv' /\ ReplacedInv'
  BY DEF IInv, TypeInv, RequestInv, ReplacedInv
<1>2. CancelledInv'
  BY DEF IInv, CancelledInv
<1>3. \A owner \in User : Counting(owner)' \subseteq Counting(owner)
                          /\ Adding(owner)' \subseteq Adding(owner)
  BY OutsideUnchanged DEF Counting, Adding
<1>4. LimitInv'
  BY <1>1, <1>3, LimitKept DEF IInv
<1> QED
  BY <1>1, <1>2, <1>4 DEF IInv

\* A trade fills no more than what is left.
LEMMA TradeIInv ==
  ASSUME IInv, NEW u \in Uid, NEW amount, Trade(u, amount)
  PROVE  IInv'
<1> DEFINE e == [kind |-> "Trade", uid |-> u, amount |-> amount]
<1>1. /\ amount \in 1 .. Target(u) - Executed(u) /\ events' = Append(events, e)
      /\ closed' = IF Executed(u) + amount = Target(u) THEN closed \cup {u} ELSE closed
      /\ overtaken' = overtaken \cup ({u} \cap asked)
      /\ UNCHANGED <<data, now, orders, cancelled, order_quotes, order_events>>
      /\ UNCHANGED <<request, auction, tasks, asked>>
  BY DEF Trade, tables, autopilot
<1>2. /\ data \in [Uid -> Order] /\ events \in Seq(Event)
      /\ \A v \in Uid : /\ Executed(v) \in Nat /\ Executed(v) <= Target(v)
                        /\ v \notin closed => Executed(v) < Target(v) /\ ~InvalidatedOnChain(v)
  BY DEF IInv, TypeInv, FilledInv
<1>3. \A v \in Uid : Target(v) \in Nat
  BY <1>2, TargetPositive
<1>4. amount \in Nat /\ Executed(u) + amount <= Target(u)
  BY <1>1, <1>2, <1>3
<1>5. e \in Event /\ e.uid = u /\ e.kind = "Trade" /\ e.amount = amount
  BY <1>4 DEF Event
<1> HIDE DEF e
<1>6. ASSUME NEW v \in Uid
      PROVE  /\ Executed(v)' = IF v = u THEN Executed(u) + amount ELSE Executed(v)
             /\ InvalidatedOnChain(v)' <=> InvalidatedOnChain(v)
             /\ BlocksOf(v, {"Trade"})' = {} <=> (BlocksOf(v, {"Trade"}) = {} /\ v # u)
             /\ Target(v)' = Target(v)
  <2>1. Target(v)' = Target(v)
    BY <1>1 DEF Target
  <2> QED
    BY <1>1, <1>2, <1>5, <2>1, AppendEvent
<1>7. FilledInv'
  <2> SUFFICES ASSUME NEW v \in Uid
               PROVE  /\ Executed(v)' \in Nat /\ Executed(v)' <= Target(v)
                      /\ v \notin closed' => Executed(v)' < Target(v) /\ ~InvalidatedOnChain(v)
    BY <1>6 DEF FilledInv
  <2>1. CASE v = u
    BY <1>1, <1>2, <1>3, <1>4, <1>6, <2>1
  <2>2. CASE v # u
    BY <1>1, <1>2, <1>3, <1>6, <2>2
  <2> QED
    BY <2>1, <2>2
<1>8. \A v \in asked \ overtaken' : v \notin overtaken /\ BlocksOf(v, {"Trade"})' = {}
  BY <1>1, <1>6 DEF IInv, TypeInv, CancelledInv
<1>9. closed \subseteq closed' /\ events' \in Seq(Event)
  BY <1>1, <1>2, <1>5
<1> QED
  BY <1>1, <1>7, <1>8, <1>9, ChainIInv

\* Owners fill nothing; what they invalidate is closed.
LEMMA OwnerActsIInv ==
  ASSUME IInv, NEW u \in Uid, NEW kind \in {"Invalidation", "Signed", "Unsigned"},
         OwnerActs(u, kind)
  PROVE  IInv'
<1> DEFINE e == [kind |-> kind, uid |-> u, amount |-> 0]
<1>1. /\ events' = Append(events, e) /\ overtaken' = overtaken
      /\ closed' = IF kind = "Invalidation" THEN closed \cup {u} ELSE closed
      /\ UNCHANGED <<data, now, orders, cancelled, order_quotes, order_events>>
      /\ UNCHANGED <<request, auction, tasks, asked>>
  BY DEF OwnerActs, tables, autopilot
<1>2. e \in Event /\ e.uid = u /\ e.kind = kind /\ kind # "Trade" /\ events \in Seq(Event)
  BY DEF Event, IInv, TypeInv
<1> HIDE DEF e
<1>3. ASSUME NEW v \in Uid
      PROVE  /\ Executed(v)' = Executed(v)
             /\ InvalidatedOnChain(v)' <=> (InvalidatedOnChain(v) \/ (v = u /\ kind = "Invalidation"))
             /\ BlocksOf(v, {"Trade"})' = {} <=> BlocksOf(v, {"Trade"}) = {}
             /\ Target(v)' = Target(v)
  <2>1. Target(v)' = Target(v)
    BY <1>1 DEF Target
  <2> QED
    BY <1>1, <1>2, <2>1, AppendEvent
<1>4. FilledInv'
  <2> SUFFICES ASSUME NEW v \in Uid
               PROVE  /\ Executed(v) \in Nat /\ Executed(v) <= Target(v)
                      /\ v \notin closed' => Executed(v) < Target(v) /\ ~InvalidatedOnChain(v)'
    BY <1>3 DEF FilledInv
  <2> QED
    BY <1>1, <1>3 DEF IInv, FilledInv
<1>5. \A v \in asked \ overtaken' : v \notin overtaken /\ BlocksOf(v, {"Trade"})' = {}
  BY <1>1, <1>3 DEF IInv, TypeInv, CancelledInv
<1>6. closed \subseteq closed' /\ events' \in Seq(Event)
  BY <1>1, <1>2
<1> QED
  BY <1>1, <1>4, <1>5, <1>6, ChainIInv

\* A reorganisation only takes away; what it reopens has been closed.
LEMMA ReorgIInv ==
  ASSUME IInv, Reorg
  PROVE  IInv'
<1>1. /\ events' = SubSeq(events, 1, Len(events) - 1) /\ events # <<>>
      /\ UNCHANGED <<data, now, orders, cancelled, order_quotes, order_events>>
      /\ UNCHANGED <<request, auction, tasks, asked, overtaken, closed>>
  BY DEF Reorg, tables, autopilot, history
<1>2. events \in Seq(Event) /\ data \in [Uid -> Order]
  BY DEF IInv, TypeInv
<1>3. events' \in Seq(Event)
  BY <1>1, <1>2, TotalDrop
<1>4. /\ DOMAIN events = 1 .. Len(events) /\ Len(events) \in Nat
      /\ DOMAIN events' = 1 .. Len(events) - 1
      /\ \A b \in 1 .. Len(events) - 1 : events'[b] = events[b]
  BY <1>1, <1>2
<1>5. ASSUME NEW v \in Uid
      PROVE  /\ Executed(v)' \in Nat /\ Executed(v)' <= Executed(v)
             /\ InvalidatedOnChain(v)' => InvalidatedOnChain(v)
             /\ BlocksOf(v, {"Trade"}) = {} => BlocksOf(v, {"Trade"})' = {}
             /\ Target(v)' = Target(v) /\ Target(v) \in Nat
  <2>1. Executed(v)' \in Nat /\ Executed(v)' <= Executed(v)
    <3>1. Total(events', v) \in Nat
      BY <1>3, TotalNat
    <3>2. Total(SubSeq(events, 1, Len(events) - 1), v) <= Total(events, v)
      BY <1>1, <1>2, TotalDrop
    <3>3. Total(events', v) <= Total(events, v)
      BY <1>1, <3>2
    <3> QED
      BY <3>1, <3>3, ExecutedIs
  <2>2. Target(v)' = Target(v) /\ Target(v) \in Nat
    <3>1. Target(v)' = Target(v)
      BY <1>1 DEF Target
    <3> QED
      BY <1>2, <3>1, TargetPositive
  <2>3. InvalidatedOnChain(v)' => InvalidatedOnChain(v)
    BY <1>4 DEF InvalidatedOnChain, BlocksOf
  <2>4. BlocksOf(v, {"Trade"}) = {} => BlocksOf(v, {"Trade"})' = {}
    BY <1>4 DEF BlocksOf
  <2> QED
    BY <2>1, <2>2, <2>3, <2>4
<1>6. FilledInv'
  <2> SUFFICES ASSUME NEW v \in Uid
               PROVE  /\ Executed(v)' \in Nat /\ Executed(v)' <= Target(v)
                      /\ v \notin closed => Executed(v)' < Target(v) /\ ~InvalidatedOnChain(v)'
    BY <1>1, <1>5 DEF FilledInv
  <2>1. /\ Executed(v) \in Nat /\ Executed(v) <= Target(v)
        /\ v \notin closed => Executed(v) < Target(v) /\ ~InvalidatedOnChain(v)
    BY DEF IInv, FilledInv
  <2> QED
    BY <1>5, <2>1
<1>7. \A v \in asked \ overtaken' : v \notin overtaken /\ BlocksOf(v, {"Trade"})' = {}
  BY <1>1, <1>5 DEF IInv, TypeInv, CancelledInv
<1> QED
  BY <1>1, <1>3, <1>6, <1>7, ChainIInv

\* With time orders only stop to count.
LEMMA TickIInv ==
  ASSUME IInv, Tick
  PROVE  IInv'
<1>1. /\ now' = now + 1
      /\ UNCHANGED <<data, orders, cancelled, order_quotes, order_events, events, request>>
      /\ UNCHANGED <<auction, tasks, asked, overtaken, closed>>
  BY DEF Tick, tables, autopilot, history
<1>2. TypeInv' /\ RequestInv' /\ ReplacedInv'
  BY <1>1 DEF IInv, TypeInv, RequestInv, ReplacedInv
<1>3. FilledInv' /\ CancelledInv'
  BY <1>1, FilledKept, CancelledKept DEF IInv
<1>4. \A owner \in User : Counting(owner)' \subseteq Counting(owner)
                          /\ Adding(owner)' \subseteq Adding(owner)
  <2> SUFFICES ASSUME NEW owner \in User
               PROVE  Counting(owner)' \subseteq Counting(owner)
                      /\ Adding(owner)' \subseteq Adding(owner)
    OBVIOUS
  <2>1. \A u \in Uid : data[u].valid_to \in Nat
    BY DEF IInv, TypeInv, Order
  <2>2. Adding(owner)' \subseteq Adding(owner)
    BY <1>1, OutsideUnchanged DEF Adding
  <2>3. ASSUME NEW u \in Counting(owner)' PROVE u \in Counting(owner)
    <3>1. /\ u \in order_quotes \ (closed \cup cancelled) /\ data[u].valid_to >= now + 1
          /\ data[u].owner = owner /\ OutsideWhenCounted(u)
      BY <1>1, OutsideUnchanged DEF Counting
    <3>2. data[u].valid_to \in Nat /\ now \in Nat
      BY <2>1, <3>1 DEF IInv, TypeInv
    <3>3. data[u].valid_to >= now
      BY <3>1, <3>2
    <3> QED
      BY <3>1, <3>3 DEF Counting
  <2> QED
    BY <2>2, <2>3
<1>5. LimitInv'
  BY <1>1, <1>2, <1>4, LimitKept DEF IInv
<1> QED
  BY <1>2, <1>3, <1>5 DEF IInv

\* Every step keeps the invariant, one case per action.
LEMMA NextIInv == IInv /\ [Next]_vars => IInv'
<1> SUFFICES ASSUME IInv, [Next]_vars PROVE IInv'
  OBVIOUS
<1>1. ASSUME NEW c \in Client, Api(c) PROVE IInv'
  BY <1>1, AddOrderIInv, StoreOrderIInv, FindOrdersIInv, CancelOrdersIInv DEF Api
<1>2. ASSUME NEW u \in Uid, \E amount \in 1..Target(u) : Trade(u, amount) PROVE IInv'
  BY <1>2, TradeIInv
<1>3. CASE UNCHANGED vars
  <2>1. /\ UNCHANGED <<data, now, orders, cancelled, order_quotes, order_events>>
        /\ UNCHANGED <<request, auction, tasks, asked, overtaken, closed, events>>
    BY <1>3 DEF vars
  <2>2. FilledInv'
    BY <2>1, FilledKept DEF IInv
  <2>3. \A u \in asked \ overtaken' : u \notin overtaken /\ BlocksOf(u, {"Trade"})' = {}
    <3> SUFFICES ASSUME NEW u \in asked \ overtaken PROVE BlocksOf(u, {"Trade"})' = {}
      BY <2>1
    <3>1. BlocksOf(u, {"Trade"}) = {}
      BY DEF IInv, CancelledInv
    <3> QED
      BY <2>1, <3>1, EventsUnchanged
  <2>4. events' \in Seq(Event)
    BY <2>1 DEF IInv, TypeInv
  <2> QED
    BY <2>1, <2>2, <2>3, <2>4, ChainIInv
<1> QED
  BY <1>1, <1>2, <1>3, UpdateCacheIInv, LogAuctionIInv, StoreOrderEventsIInv,
     ProcessSettlementIInv, OwnerActsIInv, ReorgIInv, TickIInv DEF Next

----------------------------------------------------------------------------
(* The results.                                                            *)

\* For every set of orders: the API and the query of the auctions agree on which of
\* them are open, because no order can be filled beyond its target.
THEOREM ApiAndAuctionsAgree == Spec => []ApiAgreesWithAuctions
<1>1. IInv => ApiAgreesWithAuctions
  <2> SUFFICES ASSUME IInv, NEW u \in orders
               PROVE  u \in OPEN_ORDERS(now)
                        <=> calculate_status(u) \in {"Open", "PresignaturePending"}
    BY DEF ApiAgreesWithAuctions
  <2>1. /\ u \in Uid /\ data \in [Uid -> Order] /\ now \in Nat
        /\ Executed(u) \in Nat /\ Executed(u) <= Target(u)
    BY DEF IInv, TypeInv, FilledInv
  <2>2. Target(u) \in Nat /\ Target(u) >= 1 /\ data[u].valid_to \in Nat
    BY <2>1, TargetPositive DEF Order
  <2>3. is_filled(u) <=> ~(Executed(u) < Target(u))
    BY <2>1, <2>2 DEF is_filled
  <2>4. data[u].valid_to >= now <=> ~(data[u].valid_to < now)
    BY <2>1, <2>2
  <2>5. u \in OPEN_ORDERS(now)
          <=> ~is_filled(u) /\ ~invalidated(u) /\ ~(data[u].valid_to < now)
    BY <2>3, <2>4 DEF OPEN_ORDERS
  <2>6. calculate_status(u) \in {"Open", "PresignaturePending"}
          <=> ~is_filled(u) /\ ~invalidated(u) /\ ~(data[u].valid_to < now)
    BY DEF calculate_status
  <2> QED
    BY <2>5, <2>6
<1> QED
  BY <1>1, InitIInv, NextIInv, PTL DEF Spec

\* An order and the one it replaces are never both open, through all reorganisations,
\* and no order is cancelled without a request or a successor.
THEOREM ReplacementsAreAtomic == Spec => []ReplacementIsAtomic
<1>1. IInv => ReplacementIsAtomic
  BY DEF IInv, ReplacedInv, ReplacementIsAtomic, calculate_status, invalidated
<1> QED
  BY <1>1, InitIInv, NextIInv, PTL DEF Spec

\* With any number of requests at a time, an owner has fewer orders outside the market
\* price than the limit and the requests together.
THEOREM LimitOrdersAreBounded == Spec => []LimitOrdersBounded
<1>1. IInv => LimitOrdersBounded
  <2> SUFFICES ASSUME IInv, NEW owner \in User
               PROVE  Cardinality({u \in (OPEN_ORDERS(now) \cap order_quotes) \ closed :
                                     data[u].owner = owner /\ OutsideWhenCounted(u)})
                        < MaxLimitOrders + Cardinality(Client)
    BY DEF LimitOrdersBounded
  <2> DEFINE Limited == {u \in (OPEN_ORDERS(now) \cap order_quotes) \ closed :
                           data[u].owner = owner /\ OutsideWhenCounted(u)}
  <2>1. Limited \subseteq Counting(owner)
    BY DEF OPEN_ORDERS, invalidated, Counting
  <2> HIDE DEF Limited
  <2>2. /\ IsFiniteSet(Counting(owner)) /\ Cardinality(Counting(owner)) \in Nat
        /\ Cardinality(Adding(owner)) \in Nat /\ Cardinality(Client) \in Nat
    BY CountingFinite DEF IInv
  <2>3. Cardinality(Limited) <= Cardinality(Counting(owner)) /\ Cardinality(Limited) \in Nat
    BY <2>1, <2>2, FS_Subset, FS_CardinalityType
  <2>4. Cardinality(Counting(owner)) + Cardinality(Adding(owner))
          < MaxLimitOrders + Cardinality(Client) /\ MaxLimitOrders \in Nat
    BY PeriodAssumption DEF IInv, LimitInv
  <2>5. Cardinality(Limited) < MaxLimitOrders + Cardinality(Client)
    BY <2>2, <2>3, <2>4
  <2> QED
    BY <2>5 DEF Limited
<1> QED
  BY <1>1, InitIInv, NextIInv, PTL DEF Spec

\* A cancelled order that no auction, task or trade was using is reported as cancelled
\* for good.
THEOREM CancelledAreReported == Spec => []CancelledIsReportedUnlessOvertaken
<1>1. IInv => CancelledIsReportedUnlessOvertaken
  BY DEF IInv, CancelledInv, CancelledIsReportedUnlessOvertaken
<1> QED
  BY <1>1, InitIInv, NextIInv, PTL DEF Spec
============================================================================
