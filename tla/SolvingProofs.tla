--------------------------- MODULE SolvingProofs ---------------------------
(* Proofs for Solving: what solvers are given, what they may take and what *)
(* fees leave of it, for any auctions, orders, balances and policies.      *)
EXTENDS Solving, FiniteSetTheorems, SequenceTheorems, WellFoundedInduction, TLAPS

-----------------------------------------------------------------------------
(* Types.                                                                  *)

\* An order whose fee policies an auction brought.
KnownOrder ==
  {o \in Order : \/ o.protocol_fees = <<>>
                 \/ \E a \in Id : \E p \in Range(Auction[a].orders) : o.protocol_fees = p.protocol_fees}

Balances == UNION {[A -> Nat] : A \in SUBSET Account}

Task == [auction : Id, ended : BOOLEAN, balances : Balances, orders : Seq(KnownOrder)]

Handler == [phase : {"none", "waiting", "ended"}, task : Nat]

TypeInv ==
  /\ published \in Nat
  /\ lock \in [auction : Nat, task : Nat]
  /\ tasks \in Seq(Task)
  /\ handler \in [Solver -> [Id -> Handler]]

\* The lock shares the last task; neighbouring tasks are for different auctions; a
\* handler waits for a task of its own auction.
LockInv ==
  /\ lock.task = Len(tasks)
  /\ lock.auction = IF tasks = <<>> THEN 0 ELSE tasks[Len(tasks)].auction
  /\ \A i \in 1 .. Len(tasks) - 1 : tasks[i].auction # tasks[i + 1].auction
  /\ \A s \in Solver, a \in Id :
       handler[s][a].task # 0 =>
         handler[s][a].task \in 1 .. Len(tasks) /\ tasks[handler[s][a].task].auction = a
  /\ \A s \in Solver, a \in Id : handler[s][a].phase = "waiting" => handler[s][a].task # 0

\* No task's orders exceed its balances: the property for one task.
Covered(task) ==
  \A account \in DOMAIN task.balances :
    Offered(task.orders, account) <= task.balances[account]

\* What filter_orders leaves can be traded.
Tradable(task) == \A i \in DOMAIN task.orders : ~ is_zero(available(task.orders[i]))

TasksInv == \A t \in 1 .. Len(tasks) : Covered(tasks[t]) /\ Tradable(tasks[t])

\* KnownOrder is about orders.
LEMMA Known == KnownOrder \in SUBSET Order
BY DEF KnownOrder

\* Before a task ends it knows no balances.
LEMMA NoBalances == <<>> \in Balances /\ DOMAIN <<>> = {}
<1>1. <<>> \in [{} -> Nat]
  OBVIOUS
<1> QED
  BY <1>1 DEF Balances

\* A task without orders.
LEMMA FreedTask ==
  ASSUME NEW x \in Task
  PROVE  LET y == [x EXCEPT !.balances = <<>>, !.orders = <<>>]
         IN  /\ y \in Task /\ y.auction = x.auction
             /\ y.balances = <<>> /\ y.orders = <<>>
<1>1. <<>> \in Seq(KnownOrder)
  OBVIOUS
<1> QED
  BY <1>1, NoBalances DEF Task

\* Auctions are numbered from 1; 0 is no auction.
LEMMA IdNat == Id \subseteq Nat \ {0}
BY AuctionAssumption DEF Id

\* A task that is no longer shared loses its orders and nothing else.
LEMMA ReleaseTasks ==
  ASSUME NEW ts \in Seq(Task), NEW h, NEW l
  PROVE  /\ Release(ts, h, l) \in Seq(Task)
         /\ Len(Release(ts, h, l)) = Len(ts)
         /\ \A t \in 1 .. Len(ts) :
              /\ Release(ts, h, l)[t].auction = ts[t].auction
              /\ \/ Release(ts, h, l)[t] = ts[t]
                 \/ Release(ts, h, l)[t].balances = <<>> /\ Release(ts, h, l)[t].orders = <<>>
<1> DEFINE r == Release(ts, h, l)
<1>1. DOMAIN ts = 1 .. Len(ts) /\ \A t \in 1 .. Len(ts) : ts[t] \in Task
  OBVIOUS
<1>2. DOMAIN r = 1 .. Len(ts)
  BY <1>1 DEF Release
<1>3. ASSUME NEW t \in 1 .. Len(ts)
      PROVE  /\ r[t] \in Task /\ r[t].auction = ts[t].auction
             /\ \/ r[t] = ts[t]
                \/ r[t].balances = <<>> /\ r[t].orders = <<>>
  <2>1. r[t] = IF Shared(t, h, l) THEN ts[t]
                                  ELSE [ts[t] EXCEPT !.balances = <<>>, !.orders = <<>>]
    BY <1>1 DEF Release
  <2>2. ts[t] \in Task
    BY <1>1
  <2> HIDE DEF r
  <2>3. CASE Shared(t, h, l)
    BY <2>1, <2>2, <2>3
  <2>4. CASE ~ Shared(t, h, l)
    BY <2>1, <2>2, <2>4, FreedTask
  <2> QED
    BY <2>3, <2>4
<1>4. r \in [1 .. Len(ts) -> Task]
  <2>1. r = [t \in 1 .. Len(ts) |-> r[t]]
    BY <1>1 DEF Release
  <2> HIDE DEF r
  <2> QED
    BY <1>3, <2>1
<1> HIDE DEF r
<1>5. r \in Seq(Task) /\ Len(r) = Len(ts)
  BY <1>2, <1>4
<1> QED
  BY <1>3, <1>5 DEF r

-----------------------------------------------------------------------------
(* Handlers and their tasks.                                               *)

\* No handler waits and no task exists at first.
LEMMA LockInit == SolveInit => TypeInv /\ LockInv
<1> SUFFICES ASSUME SolveInit PROVE TypeInv /\ LockInv
  OBVIOUS
<1>1. tasks = <<>> /\ Len(tasks) = 0 /\ tasks \in Seq(Task)
  BY DEF SolveInit, Init
<1>2. handler = [s \in Solver |-> [a \in Id |-> [phase |-> "none", task |-> 0]]]
  BY DEF SolveInit, Init
<1>3. handler \in [Solver -> [Id -> Handler]]
  BY <1>2 DEF Handler
<1>4. \A s \in Solver, a \in Id : handler[s][a].task = 0 /\ handler[s][a].phase = "none"
  BY <1>2
<1>5. lock = [auction |-> 0, task |-> 0] /\ published = 0
  BY DEF SolveInit, Init
<1> QED
  BY <1>1, <1>3, <1>4, <1>5 DEF TypeInv, LockInv

\* A handler that ends keeps its task.
LEMMA EndHandler ==
  ASSUME TypeInv, LockInv, NEW s \in Solver, NEW a \in Id,
         handler' = [handler EXCEPT ![s][a].phase = "ended"],
         UNCHANGED <<published, lock>>,
         tasks' = tasks \/ tasks' = Release(tasks, handler', lock)
  PROVE  TypeInv' /\ LockInv'
<1>1. handler' \in [Solver -> [Id -> Handler]]
  <2> DEFINE e == [handler[s][a] EXCEPT !.phase = "ended"]
  <2>1. handler[s] \in [Id -> Handler] /\ handler[s][a] \in Handler
    BY DEF TypeInv
  <2>2. e \in Handler
    BY <2>1 DEF Handler
  <2>3. handler' = [handler EXCEPT ![s] = [handler[s] EXCEPT ![a] = e]]
    OBVIOUS
  <2> HIDE DEF e
  <2>4. [handler[s] EXCEPT ![a] = e] \in [Id -> Handler]
    BY <2>1, <2>2
  <2> QED
    BY <2>3, <2>4 DEF TypeInv
<1>2. \A z \in Solver, b \in Id :
        /\ handler'[z][b].task = handler[z][b].task
        /\ handler'[z][b].phase = "waiting" => handler[z][b].phase = "waiting"
  BY DEF TypeInv, Handler
<1>3. /\ tasks' \in Seq(Task) /\ Len(tasks') = Len(tasks)
      /\ \A t \in 1 .. Len(tasks) : tasks'[t].auction = tasks[t].auction
  BY ReleaseTasks DEF TypeInv
<1>4. Len(tasks) \in Nat /\ (tasks = <<>> <=> Len(tasks) = 0) /\ (tasks' = <<>> <=> Len(tasks') = 0)
  BY <1>3 DEF TypeInv
<1>5. TypeInv'
  BY <1>1, <1>3 DEF TypeInv
<1>6. LockInv'
  BY <1>2, <1>3, <1>4 DEF LockInv
<1> QED
  BY <1>5, <1>6

\* A request joins the latest task or starts one that takes the lock (prioritize_orders).
LEMMA PrioritizeLock ==
  ASSUME TypeInv, LockInv, NEW s \in Solver, NEW a \in Id, prioritize_orders(s, a)
  PROVE  TypeInv' /\ LockInv'
<1> DEFINE w == [phase |-> "waiting", task |-> lock'.task]
<1>1. handler' = [handler EXCEPT ![s][a] = w] /\ published' = published
  BY DEF prioritize_orders
<1>2. a \in Nat \ {0}
  BY IdNat
<1>3. Len(tasks) \in Nat /\ (tasks = <<>> <=> Len(tasks) = 0)
  BY DEF TypeInv
<1>4. CASE lock.auction = a /\ UNCHANGED <<lock, tasks>>
  <2>1. tasks # <<>> /\ tasks[Len(tasks)].auction = a /\ lock'.task = Len(tasks)
    BY <1>2, <1>4 DEF LockInv
  <2>2. handler' \in [Solver -> [Id -> Handler]]
    BY <1>1, <1>3, <2>1 DEF TypeInv, Handler
  <2>3. \A z \in Solver, b \in Id : \/ handler'[z][b] = handler[z][b]
                                    \/ b = a /\ handler'[z][b].task = Len(tasks)
    BY <1>1, <2>1 DEF TypeInv, Handler
  <2>4. TypeInv'
    BY <1>1, <1>4, <2>2 DEF TypeInv
  <2>5. LockInv'
    BY <1>3, <1>4, <2>1, <2>3 DEF LockInv
  <2> QED
    BY <2>4, <2>5
<1>5. CASE /\ lock.auction # a
           /\ lock' = [auction |-> a, task |-> Len(tasks) + 1]
           /\ tasks' = Release(Append(tasks, NewTask(a)), handler, lock')
  <2> DEFINE n == Append(tasks, NewTask(a))
  <2>1. NewTask(a) \in Task /\ NewTask(a).auction = a
    <3>1. <<>> \in Seq(KnownOrder)
      OBVIOUS
    <3> QED
      BY <3>1, NoBalances DEF NewTask, Task
  <2>2. /\ n \in Seq(Task) /\ Len(n) = Len(tasks) + 1
        /\ \A t \in 1 .. Len(tasks) : n[t] = tasks[t]
        /\ n[Len(tasks) + 1] = NewTask(a)
    BY <2>1 DEF TypeInv
  <2> HIDE DEF n
  <2>3. /\ tasks' \in Seq(Task) /\ Len(tasks') = Len(tasks) + 1
        /\ \A t \in 1 .. Len(tasks) + 1 : tasks'[t].auction = n[t].auction
    <3>1. tasks' = Release(n, handler, lock')
      BY <1>5 DEF n
    <3> QED
      BY <2>2, <3>1, ReleaseTasks
  <2>4. /\ \A t \in 1 .. Len(tasks) : tasks'[t].auction = tasks[t].auction
        /\ tasks'[Len(tasks) + 1].auction = a
    BY <1>3, <2>1, <2>2, <2>3
  <2>5. handler' \in [Solver -> [Id -> Handler]]
    BY <1>1, <1>3, <1>5 DEF TypeInv, Handler
  <2>6. \A z \in Solver, b \in Id : \/ handler'[z][b] = handler[z][b]
                                    \/ b = a /\ handler'[z][b].task = Len(tasks) + 1
    BY <1>1, <1>5 DEF TypeInv, Handler
  <2>7. TypeInv'
    BY <1>1, <1>2, <1>3, <1>5, <2>3, <2>5 DEF TypeInv
  <2>8. tasks' # <<>>
    BY <1>3, <2>3
  <2>9. ASSUME NEW i \in 1 .. Len(tasks') - 1
        PROVE  tasks'[i].auction # tasks'[i + 1].auction
    <3>1. CASE i < Len(tasks)
      BY <1>3, <2>3, <2>4, <2>9, <3>1 DEF LockInv
    <3>2. CASE i = Len(tasks)
      BY <1>3, <1>5, <2>3, <2>4, <2>9, <3>2 DEF LockInv
    <3> QED
      BY <1>3, <2>3, <2>9, <3>1, <3>2
  <2>11. ASSUME NEW z \in Solver, NEW b \in Id
         PROVE  /\ handler'[z][b].task # 0 =>
                     handler'[z][b].task \in 1 .. Len(tasks') /\ tasks'[handler'[z][b].task].auction = b
                /\ handler'[z][b].phase = "waiting" => handler'[z][b].task # 0
    <3>1. CASE handler'[z][b] = handler[z][b]
      BY <1>3, <2>3, <2>4, <3>1 DEF LockInv
    <3>2. CASE b = a /\ handler'[z][b].task = Len(tasks) + 1
      BY <1>3, <2>3, <2>4, <3>2
    <3> QED
      BY <2>6, <3>1, <3>2
  <2>10. LockInv'
    BY <1>3, <1>5, <2>3, <2>4, <2>8, <2>9, <2>11 DEF LockInv
  <2> QED
    BY <2>7, <2>10
<1> QED
  BY <1>4, <1>5 DEF prioritize_orders

\* The task of a handler stays when anything else happens to the tasks.
LEMMA OtherLock ==
  ASSUME TypeInv, LockInv, UNCHANGED <<lock, handler>>, published' \in Nat,
         tasks' \in Seq(Task), Len(tasks') = Len(tasks),
         \A t \in 1 .. Len(tasks) : tasks'[t].auction = tasks[t].auction
  PROVE  TypeInv' /\ LockInv'
<1>1. Len(tasks) \in Nat /\ (tasks = <<>> <=> Len(tasks) = 0) /\ (tasks' = <<>> <=> Len(tasks') = 0)
  BY DEF TypeInv
<1>2. TypeInv'
  BY DEF TypeInv
<1>3. LockInv'
  BY <1>1 DEF LockInv
<1> QED
  BY <1>2, <1>3

\* SameForAllSolvers: between two tasks of an auction there is one of another auction,
\* and then the tasks are not in the order of the auctions.
LEMMA LockAgrees == TypeInv /\ LockInv => SameForAllSolvers
<1> SUFFICES ASSUME TypeInv, LockInv, NEW a \in Id, NEW s \in Solver, NEW z \in Solver,
                    handler[s][a].task # 0
             PROVE  /\ tasks[handler[s][a].task].auction = a
                    /\ handler[z][a].task # 0 /\ ~ OutOfOrder =>
                         handler[s][a].task = handler[z][a].task
  BY DEF SameForAllSolvers
<1>1. tasks[handler[s][a].task].auction = a
  BY DEF LockInv
<1>2. ASSUME NEW i \in 1 .. Len(tasks), NEW j \in 1 .. Len(tasks), i < j,
             tasks[i].auction = a, tasks[j].auction = a
      PROVE  OutOfOrder
  <2>1. Len(tasks) \in Nat /\ DOMAIN tasks = 1 .. Len(tasks)
    BY DEF TypeInv
  <2>2. i + 1 \in 1 .. Len(tasks) /\ i \in 1 .. Len(tasks) - 1
    BY <1>2, <2>1
  <2>3. tasks[i + 1].auction # a
    BY <1>2, <2>2 DEF LockInv
  <2>4. tasks[i + 1].auction \in Nat /\ a \in Nat
    <3>1. tasks[i + 1] \in Task
      BY <2>1, <2>2 DEF TypeInv
    <3>2. tasks[i + 1].auction \in Id
      BY <3>1 DEF Task
    <3> QED
      BY <3>2, IdNat
  <2>5. CASE tasks[i + 1].auction < a
    BY <1>2, <2>1, <2>2, <2>5 DEF OutOfOrder
  <2>6. CASE tasks[i + 1].auction > a
    <3>1. i + 1 < j
      BY <1>2, <2>1, <2>3
    <3> QED
      BY <1>2, <2>1, <2>2, <2>6, <3>1 DEF OutOfOrder
  <2> QED
    BY <2>3, <2>4, <2>5, <2>6
<1>3. ASSUME handler[z][a].task # 0, ~ OutOfOrder
      PROVE  handler[s][a].task = handler[z][a].task
  <2> DEFINE i == handler[s][a].task
             j == handler[z][a].task
  <2>1. /\ i \in 1 .. Len(tasks) /\ tasks[i].auction = a
        /\ j \in 1 .. Len(tasks) /\ tasks[j].auction = a
    BY <1>3 DEF LockInv
  <2> HIDE DEF i, j
  <2>2. ~ (i < j) /\ ~ (j < i)
    BY <1>2, <1>3, <2>1
  <2>3. i = j
    BY <2>1, <2>2 DEF TypeInv
  <2> QED
    BY <2>3 DEF i, j
<1> QED
  BY <1>1, <1>3

-----------------------------------------------------------------------------
(* Folds. A claim about all subsets of a finite set, or all numbers, is    *)
(* shown for a least one it could fail for.                                *)

\* A set of finite sets has a smallest member.
LEMMA SmallestSubset ==
  ASSUME NEW D, IsFiniteSet(D), NEW Bad \in SUBSET SUBSET D, Bad # {}
  PROVE  \E m \in Bad : \A s \in SUBSET m : s # m => s \notin Bad
<1>1. IsWellFoundedOn(StrictSubsetOrdering(D), SUBSET D)
  BY FS_StrictSubsetOrderingWellFounded, FS_FiniteSubsetsOfFinite
<1>2. PICK m \in Bad : \A s \in Bad : ~(<<s, m>> \in StrictSubsetOrdering(D))
  BY <1>1, WFMin
<1>3. ASSUME NEW s \in SUBSET m, s # m, s \in Bad PROVE FALSE
  <2>1. <<s, m>> \in StrictSubsetOrdering(D)
    BY <1>3 DEF StrictSubsetOrdering
  <2> QED
    BY <1>2, <1>3, <2>1
<1> QED
  BY <1>3

\* A set of numbers has a least member.
LEMMA LeastNumber ==
  ASSUME NEW Bad \in SUBSET Nat, Bad # {}
  PROVE  \E m \in Bad : \A k \in Bad : m <= k
<1>1. PICK m \in Bad : \A k \in Bad : ~(<<k, m>> \in OpToRel(<, Nat))
  BY NatLessThanWellFounded, WFMin
<1>2. ASSUME NEW k \in Bad PROVE m <= k
  <2>1. ~ (k < m)
    BY <1>1, <1>2, Zenon DEF OpToRel
  <2> QED
    BY <2>1
<1> QED
  BY <1>2

\* Numbers up to n have a largest one.
LEMMA MaxIn ==
  ASSUME NEW n \in Nat, NEW s \in SUBSET (1 .. n), s # {}
  PROVE  Max(s) \in s /\ \A k \in s : k <= Max(s)
<1> DEFINE Gaps == {d \in Nat : \E k \in s : d = n - k}
<1>1. Gaps \in SUBSET Nat /\ Gaps # {} /\ \A k \in s : n - k \in Gaps
  <2>1. \A k \in s : n - k \in Nat
    OBVIOUS
  <2> QED
    BY <2>1
<1>2. PICK m \in Gaps : \A k \in Gaps : m <= k
  BY <1>1, LeastNumber
<1>3. PICK x \in s : m = n - x
  OBVIOUS
<1>4. \A k \in s : x >= k
  BY <1>1, <1>2, <1>3
<1>5. Max(s) \in s /\ \A k \in s : Max(s) >= k
  BY <1>4, Zenon DEF Max
<1> QED
  BY <1>5

\* And a smallest one.
LEMMA MinIn ==
  ASSUME NEW n \in Nat, NEW s \in SUBSET (1 .. n), s # {}
  PROVE  Min(s) \in s /\ \A k \in s : Min(s) <= k
<1>1. s \in SUBSET Nat
  OBVIOUS
<1>2. PICK x \in s : \A k \in s : x <= k
  BY <1>1, LeastNumber
<1> QED
  BY <1>2, Zenon DEF Min

\* Sets of positions in a sequence.
Positions(D) == \E n \in Nat : D \in SUBSET (1 .. n)

\* Sets of positions are finite and have a first and a last one.
LEMMA PositionsFacts ==
  ASSUME NEW D, Positions(D)
  PROVE  /\ IsFiniteSet(D)
         /\ \A s \in SUBSET D : Positions(s)
         /\ D # {} => Max(D) \in D /\ Min(D) \in D
<1>1. PICK n \in Nat : D \in SUBSET (1 .. n)
  BY Zenon DEF Positions
<1>2. IsFiniteSet(1 .. n)
  BY FS_Interval
<1>3. IsFiniteSet(D)
  BY <1>1, <1>2, FS_Subset
<1>4. \A s \in SUBSET D : Positions(s)
  BY <1>1, Zenon DEF Positions
<1>5. D # {} => Max(D) \in D /\ Min(D) \in D
  BY <1>1, MaxIn, MinIn
<1> QED
  BY <1>3, <1>4, <1>5

\* The operators that are folded over the sequence p.seq, all in one, so that what
\* folding means is shown once.
Turn(p, y, i) ==
  CASE p.fold = "filter" -> filter_order(y, p.seq[i])
    [] p.fold = "offered" -> IF p.seq[i].account = p.account THEN y + available(p.seq[i]).sell ELSE y
    [] p.fold = "amms" -> IF p.seq[i] \in p.kept THEN Append(y, p.seq[i]) ELSE y
    [] p.fold = "fees" -> NextPolicy(y, p.prices, p.seq[i])
    [] p.fold = "undo" -> UndoNext(p.trade, p.seq[i], y)
    [] p.fold = "tolerance" -> NextTolerance(p.atoms, p.seq[i], y)

\* The position that comes last: fees are undone from the last policy to the first.
Outer(p, s) == IF p.fold \in {"undo", "tolerance"} THEN Min(s) ELSE Max(s)

\* It is one of the positions.
LEMMA OuterIn ==
  ASSUME NEW p, NEW D, Positions(D), D # {}
  PROVE  Outer(p, D) \in D
BY PositionsFacts, Zenon DEF Outer

\* g folds over the subsets of D, numbers up to some n.
FoldBody(p, base, g, s) == IF s = {} THEN base ELSE Turn(p, g[s \ {Outer(p, s)}], Outer(p, s))
IsFold(p, base, D, g) == g = [s \in SUBSET D |-> FoldBody(p, base, g, s)]

\* The equation of a fold at a set of positions.
LEMMA FoldValue ==
  ASSUME NEW p, NEW base, NEW D, NEW g, IsFold(p, base, D, g), NEW s \in SUBSET D
  PROVE  g[s] = FoldBody(p, base, g, s)
BY Zenon DEF IsFold

\* Two such functions agree where both are defined.
LEMMA FoldUnique ==
  ASSUME NEW p, NEW base, NEW D, Positions(D), NEW E, NEW g, NEW h,
         IsFold(p, base, D, g), IsFold(p, base, E, h), NEW T \in SUBSET D, T \in SUBSET E
  PROVE  g[T] = h[T]
<1> DEFINE Bad == {s \in SUBSET D : s \in SUBSET E /\ g[s] # h[s]}
<1>1. SUFFICES ASSUME Bad # {} PROVE FALSE
  OBVIOUS
<1>2. PICK m \in Bad : \A s \in SUBSET m : s # m => s \notin Bad
  <2>1. Bad \in SUBSET SUBSET D
    OBVIOUS
  <2>2. IsFiniteSet(D)
    BY PositionsFacts
  <2> HIDE DEF Bad
  <2> QED
    BY <1>1, <2>1, <2>2, SmallestSubset
<1>3. /\ g[m] = IF m = {} THEN base ELSE Turn(p, g[m \ {Outer(p, m)}], Outer(p, m))
      /\ h[m] = IF m = {} THEN base ELSE Turn(p, h[m \ {Outer(p, m)}], Outer(p, m))
  <2>1. m \in SUBSET D /\ m \in SUBSET E
    OBVIOUS
  <2> QED
    BY <2>1, FoldValue DEF FoldBody
<1>4. m # {} /\ Outer(p, m) \in m
  <2>1. m # {}
    BY <1>3
  <2>2. m \in SUBSET D
    OBVIOUS
  <2>3. Positions(m)
    BY <2>2, PositionsFacts
  <2> QED
    BY <2>1, <2>3, OuterIn
<1>5. g[m \ {Outer(p, m)}] = h[m \ {Outer(p, m)}]
  BY <1>2, <1>4
<1> QED
  BY <1>3, <1>4, <1>5

\* There is one for every D: it is put together from those of the subsets.
LEMMA FoldExists ==
  ASSUME NEW p, NEW base, NEW D, Positions(D)
  PROVE  \E g : IsFold(p, base, D, g)
<1> DEFINE Bad == {s \in SUBSET D : ~ \E g : IsFold(p, base, s, g)}
<1>1. SUFFICES ASSUME Bad # {} PROVE FALSE
  OBVIOUS
<1>2. PICK m \in Bad : \A s \in SUBSET m : s # m => s \notin Bad
  <2>1. Bad \in SUBSET SUBSET D
    OBVIOUS
  <2>2. IsFiniteSet(D)
    BY PositionsFacts
  <2> HIDE DEF Bad
  <2> QED
    BY <1>1, <2>1, <2>2, SmallestSubset
<1> DEFINE G(s) == CHOOSE g : IsFold(p, base, s, g)
           x == Outer(p, m)
           h == [s \in SUBSET m |-> IF s # m THEN G(s)[s]
                                    ELSE IF m = {} THEN base ELSE Turn(p, G(m \ {x})[m \ {x}], x)]
<1>3. m \in SUBSET D /\ ~ \E g : IsFold(p, base, m, g)
  OBVIOUS
<1>9. Positions(m)
  BY <1>3, PositionsFacts
<1>4. \A s \in SUBSET m : s # m => IsFold(p, base, s, G(s))
  <2> SUFFICES ASSUME NEW s \in SUBSET m, s # m PROVE \E g : IsFold(p, base, s, g)
    BY Zenon
  <2> QED
    BY <1>2, <1>3
<1> HIDE DEF Bad
<1>5. \A s \in SUBSET m : h[s] = IF s # m THEN G(s)[s]
                                 ELSE IF m = {} THEN base ELSE Turn(p, G(m \ {x})[m \ {x}], x)
  BY Zenon
<1>6. DOMAIN h = SUBSET m
  BY Zenon
<1> HIDE DEF G, h
<1>7. ASSUME NEW s \in SUBSET m
      PROVE  h[s] = IF s = {} THEN base ELSE Turn(p, h[s \ {Outer(p, s)}], Outer(p, s))
  <2>1. CASE s = m
    <3>1. CASE m = {}
      BY <1>5, <2>1, <3>1
    <3>2. CASE m # {}
      <4>1. x \in m
        BY <1>9, <3>2, OuterIn
      <4>2. m \ {x} \in SUBSET m /\ m \ {x} # m
        BY <4>1
      <4>3. h[m \ {x}] = G(m \ {x})[m \ {x}]
        BY <1>5, <4>2
      <4>4. h[m] = Turn(p, G(m \ {x})[m \ {x}], x)
        BY <1>5, <3>2
      <4>5. h[m] = Turn(p, h[m \ {x}], x)
        BY <4>3, <4>4
      <4> QED
        BY <2>1, <3>2, <4>5
    <3> QED
      BY <3>1, <3>2
  <2>2. CASE s # m
    <3> DEFINE r == s \ {Outer(p, s)}
    <3>1. IsFold(p, base, s, G(s)) /\ h[s] = G(s)[s] /\ s \in SUBSET s
      BY <1>4, <1>5, <2>2
    <3>2. G(s)[s] = IF s = {} THEN base ELSE Turn(p, G(s)[r], Outer(p, s))
      <4>1. \A g : IsFold(p, base, s, g) =>
                    g[s] = FoldBody(p, base, g, s)
        BY <3>1, FoldValue
      <4> QED
        BY <3>1, <4>1 DEF FoldBody
    <3>3. ASSUME s # {} PROVE G(s)[r] = h[r]
      <4>1. Positions(s)
        BY <1>9, PositionsFacts
      <4>2. Outer(p, s) \in s
        BY <3>3, <4>1, OuterIn
      <4>3. r \in SUBSET s /\ r \in SUBSET r /\ r \in SUBSET m
        OBVIOUS
      <4>5. r # m
        BY <4>2, <4>3
      <4>4. IsFold(p, base, r, G(r)) /\ h[r] = G(r)[r]
        BY <1>4, <1>5, <4>3, <4>5
      <4> HIDE DEF r
      <4>6. \A g, k : IsFold(p, base, s, g) /\ IsFold(p, base, r, k) => g[r] = k[r]
        BY <4>1, <4>3, FoldUnique
      <4> QED
        BY <3>1, <4>4, <4>6
    <3> QED
      BY <3>1, <3>2, <3>3
  <2> QED
    BY <2>1, <2>2
<1>8. IsFold(p, base, m, h)
  <2>1. h = [s \in SUBSET m |-> h[s]]
    BY <1>5, <1>6 DEF h
  <2>2. [s \in SUBSET m |-> h[s]]
          = [s \in SUBSET m |-> FoldBody(p, base, h, s)]
    BY <1>7 DEF FoldBody
  <2> QED
    BY <2>1, <2>2, Zenon DEF IsFold
<1> QED
  BY <1>3, <1>8

\* F has the value after the first k members, for every k.
Stages(F, p, base, n, whole) ==
  F[0] = base /\ F[n] = whole /\ \A k \in 1 .. n : F[k] = Turn(p, F[k - 1], k)

\* A fold over 1 .. n is the last of n + 1 stages.
LEMMA FoldPrefix ==
  ASSUME NEW p, NEW base, NEW n \in Nat, NEW D, D = 1 .. n, NEW g, IsFold(p, base, D, g),
         \A s : Outer(p, s) = Max(s)
  PROVE  \E F : Stages(F, p, base, n, g[D])
<1> DEFINE Up(k) == 1 .. k
<1>1. Up(0) = {} /\ Up(0) \in SUBSET Up(n)
  OBVIOUS
<1>2. ASSUME NEW k \in 1 .. n
      PROVE  /\ Up(k) \in SUBSET Up(n) /\ Up(k) # {} /\ Max(Up(k)) = k
             /\ Up(k) \ {k} = Up(k - 1)
  <2>1. k \in 1 .. k /\ \A i \in 1 .. k : i \in 1 .. n
    OBVIOUS
  <2>2. 1 .. k \in SUBSET (1 .. n) /\ 1 .. k # {}
    BY <2>1, Zenon
  <2>3. Max(1 .. k) \in 1 .. k /\ k <= Max(1 .. k)
    BY <2>1, <2>2, MaxIn
  <2>4. Max(1 .. k) = k
    BY <2>3
  <2>5. (1 .. k) \ {k} = 1 .. (k - 1)
    OBVIOUS
  <2> QED
    BY <2>2, <2>4, <2>5
<1>3. IsFold(p, base, Up(n), g)
  OBVIOUS
<1> DEFINE F == [k \in 0 .. n |-> g[Up(k)]]
<1>4. F[n] = g[D]
  OBVIOUS
<1> HIDE DEF Up
<1>7. ASSUME NEW s \in SUBSET Up(n) PROVE g[s] = IF s = {} THEN base ELSE Turn(p, g[s \ {Max(s)}], Max(s))
  <2>3. g[s] = FoldBody(p, base, g, s)
    BY <1>3, FoldValue, Zenon
  <2>1. g[s] = IF s = {} THEN base ELSE Turn(p, g[s \ {Outer(p, s)}], Outer(p, s))
    BY <2>3 DEF FoldBody
  <2>2. Outer(p, s) = Max(s)
    OBVIOUS
  <2> QED
    BY <2>1, <2>2
<1>5. F[0] = base
  <2>1. g[Up(0)] = base
    BY <1>1, <1>7
  <2> QED
    BY <2>1
<1>6. ASSUME NEW k \in 1 .. n PROVE F[k] = Turn(p, F[k - 1], k)
  <2>1. g[Up(k)] = Turn(p, g[Up(k) \ {Max(Up(k))}], Max(Up(k)))
    BY <1>2, <1>7
  <2>2. g[Up(k)] = Turn(p, g[Up(k - 1)], k)
    BY <1>2, <2>1
  <2> QED
    BY <2>2
<1> HIDE DEF F
<1> QED
  BY <1>4, <1>5, <1>6, Zenon DEF Stages

\* F has the value of the members after the first k, for every k.
StagesBack(F, p, base, n, whole) ==
  F[n] = base /\ F[0] = whole /\ \A k \in 1 .. n : F[k - 1] = Turn(p, F[k], k)

\* A fold from the last member to the first has such stages too.
LEMMA FoldSuffix ==
  ASSUME NEW p, NEW base, NEW n \in Nat, NEW D, D = 1 .. n, NEW g, IsFold(p, base, D, g),
         \A s : Outer(p, s) = Min(s)
  PROVE  \E F : StagesBack(F, p, base, n, g[D])
<1> DEFINE From(k) == k + 1 .. n
<1>1. From(n) = {} /\ From(n) \in SUBSET From(0) /\ From(0) = D
  OBVIOUS
<1>2. ASSUME NEW k \in 1 .. n
      PROVE  /\ From(k - 1) \in SUBSET From(0) /\ From(k - 1) # {} /\ Min(From(k - 1)) = k
             /\ From(k - 1) \ {k} = From(k)
  <2>0. k \in Nat /\ k - 1 + 1 = k /\ 0 + 1 = 1
    OBVIOUS
  <2>1. k \in k .. n /\ \A i \in k .. n : i \in 1 .. n /\ k <= i
    OBVIOUS
  <2>2. k .. n \in SUBSET (1 .. n) /\ k .. n # {}
    BY <2>1, Zenon
  <2>3. Min(k .. n) \in k .. n /\ Min(k .. n) <= k
    BY <2>1, <2>2, MinIn
  <2>4. Min(k .. n) = k
    BY <2>3
  <2>5. (k .. n) \ {k} = k + 1 .. n
    OBVIOUS
  <2> QED
    BY <2>0, <2>2, <2>4, <2>5
<1>3. IsFold(p, base, From(0), g)
  BY <1>1
<1> DEFINE F == [k \in 0 .. n |-> g[From(k)]]
<1>4. F[0] = g[D]
  BY <1>1
<1> HIDE DEF From
<1>7. ASSUME NEW s \in SUBSET From(0) PROVE g[s] = IF s = {} THEN base ELSE Turn(p, g[s \ {Min(s)}], Min(s))
  <2>3. g[s] = FoldBody(p, base, g, s)
    BY <1>3, FoldValue, Zenon
  <2>1. g[s] = IF s = {} THEN base ELSE Turn(p, g[s \ {Outer(p, s)}], Outer(p, s))
    BY <2>3 DEF FoldBody
  <2>2. Outer(p, s) = Min(s)
    OBVIOUS
  <2> QED
    BY <2>1, <2>2
<1>5. F[n] = base
  <2>1. g[From(n)] = base
    BY <1>1, <1>7
  <2> QED
    BY <2>1
<1>6. ASSUME NEW k \in 1 .. n PROVE F[k - 1] = Turn(p, F[k], k)
  <2>1. g[From(k - 1)] = Turn(p, g[From(k - 1) \ {Min(From(k - 1))}], Min(From(k - 1)))
    BY <1>2, <1>7
  <2>2. g[From(k - 1)] = Turn(p, g[From(k)], k)
    BY <1>2, <2>1
  <2> QED
    BY <2>2
<1> HIDE DEF F
<1> QED
  BY <1>4, <1>5, <1>6, Zenon DEF StagesBack

\* filter_orders goes through the orders one by one.
LEMMA FilterFold ==
  ASSUME NEW T, NEW seq \in Seq(T), NEW balances
  PROVE  \E F : /\ F[0] = [balances |-> balances, orders |-> <<>>]
                /\ \A k \in 1 .. Len(seq) : F[k] = filter_order(F[k - 1], seq[k])
                /\ filter_orders(balances, seq) = F[Len(seq)].orders
<1> DEFINE p == [fold |-> "filter", seq |-> seq]
           D == 1 .. Len(seq)
           base == [balances |-> balances, orders |-> <<>>]
           Is(g) == g = [s \in SUBSET D |-> IF s = {} THEN base ELSE filter_order(g[s \ {Max(s)}], seq[Max(s)])]
           g == CHOOSE h : Is(h)
<1>1. DOMAIN seq = D /\ Len(seq) \in Nat /\ Positions(D)
  BY DEF Positions
<1>2. filter_orders(balances, seq) = g[D].orders
  BY <1>1, Zenon DEF filter_orders, FoldLeft, MapThenFoldSet
<1>3. \A y, i : Turn(p, y, i) = filter_order(y, seq[i])
  BY DEF Turn
<1>10. \A s : Outer(p, s) = Max(s)
  BY DEF Outer
<1> HIDE DEF p, base
<1>4. \A h : Is(h) <=> IsFold(p, base, D, h)
  <2>1. \A h, s : FoldBody(p, base, h, s) = IF s = {} THEN base ELSE filter_order(h[s \ {Max(s)}], seq[Max(s)])
    BY <1>3, <1>10, Zenon DEF FoldBody
  <2> QED
    BY <2>1, Zenon DEF IsFold
<1>5. Is(g)
  <2>1. \E h : IsFold(p, base, D, h)
    BY <1>1, FoldExists
  <2>2. \E h : Is(h)
    BY <1>4, <2>1, Zenon
  <2> QED
    BY <2>2, Zenon
<1>6. IsFold(p, base, D, g)
  BY <1>4, <1>5, Zenon
<1>0. D = 1 .. Len(seq)
  OBVIOUS
<1> HIDE DEF g, Is, D
<1>7. PICK F : Stages(F, p, base, Len(seq), g[D])
  BY <1>0, <1>1, <1>6, <1>10, FoldPrefix, Zenon
<1>8. \A k \in 1 .. Len(seq) : F[k] = filter_order(F[k - 1], seq[k])
  BY <1>3, <1>7 DEF Stages
<1>9. F[0] = [balances |-> balances, orders |-> <<>>] /\ filter_orders(balances, seq) = F[Len(seq)].orders
  BY <1>2, <1>7 DEF base, Stages
<1> QED
  BY <1>8, <1>9, Zenon

\* Offered adds up the orders one by one.
LEMMA OfferedFold ==
  ASSUME NEW T, NEW seq \in Seq(T), NEW account
  PROVE  \E F : /\ F[0] = 0
                /\ \A k \in 1 .. Len(seq) : F[k] = (IF seq[k].account = account THEN F[k - 1] + available(seq[k]).sell ELSE F[k - 1])
                /\ Offered(seq, account) = F[Len(seq)]
<1> DEFINE p == [fold |-> "offered", seq |-> seq, account |-> account]
           D == 1 .. Len(seq)
           base == 0
           Is(g) == g = [s \in SUBSET D |-> IF s = {} THEN base ELSE (IF seq[Max(s)].account = account THEN g[s \ {Max(s)}] + available(seq[Max(s)]).sell ELSE g[s \ {Max(s)}])]
           g == CHOOSE h : Is(h)
<1>1. DOMAIN seq = D /\ Len(seq) \in Nat /\ Positions(D)
  BY DEF Positions
<1>2. Offered(seq, account) = g[D]
  BY <1>1, Zenon DEF Offered, FoldLeft, MapThenFoldSet
<1>3. \A y, i : Turn(p, y, i) = (IF seq[i].account = account THEN y + available(seq[i]).sell ELSE y)
  BY DEF Turn
<1>10. \A s : Outer(p, s) = Max(s)
  BY DEF Outer
<1> HIDE DEF p, base
<1>4. \A h : Is(h) <=> IsFold(p, base, D, h)
  <2>2. \A h, s : FoldBody(p, base, h, s) = IF s = {} THEN base ELSE Turn(p, h[s \ {Max(s)}], Max(s))
    BY <1>10, Zenon DEF FoldBody
  <2>1. \A h, s : FoldBody(p, base, h, s) = IF s = {} THEN base ELSE (IF seq[Max(s)].account = account THEN h[s \ {Max(s)}] + available(seq[Max(s)]).sell ELSE h[s \ {Max(s)}])
    BY <1>3, <2>2, Zenon
  <2> QED
    BY <2>1, Zenon DEF IsFold
<1>5. Is(g)
  <2>1. \E h : IsFold(p, base, D, h)
    BY <1>1, FoldExists
  <2>2. \E h : Is(h)
    BY <1>4, <2>1, Zenon
  <2> QED
    BY <2>2, Zenon
<1>6. IsFold(p, base, D, g)
  BY <1>4, <1>5, Zenon
<1>0. D = 1 .. Len(seq)
  OBVIOUS
<1> HIDE DEF g, Is, D
<1>7. PICK F : Stages(F, p, base, Len(seq), g[D])
  BY <1>0, <1>1, <1>6, <1>10, FoldPrefix, Zenon
<1>8. \A k \in 1 .. Len(seq) : F[k] = (IF seq[k].account = account THEN F[k - 1] + available(seq[k]).sell ELSE F[k - 1])
  BY <1>3, <1>7 DEF Stages
<1>9. F[0] = 0 /\ Offered(seq, account) = F[Len(seq)]
  BY <1>2, <1>7 DEF base, Stages
<1> QED
  BY <1>8, <1>9, Zenon

\* cow_amm_orders takes the templates one by one.
LEMMA AmmsFold ==
  ASSUME Amm \in Seq(Order), NEW a, NEW missing
  PROVE  \E F : /\ F[0] = <<>>
                /\ \A k \in 1 .. Len(Amm) : F[k] = (IF Amm[k] \in EligibleAmms(a) \ missing THEN Append(F[k - 1], Amm[k]) ELSE F[k - 1])
                /\ cow_amm_orders(a, missing) = F[Len(Amm)]
<1> DEFINE seq == Amm
           p == [fold |-> "amms", seq |-> seq, kept |-> EligibleAmms(a) \ missing]
           D == 1 .. Len(seq)
           base == <<>>
           Is(g) == g = [s \in SUBSET D |-> IF s = {} THEN base ELSE (IF seq[Max(s)] \in EligibleAmms(a) \ missing THEN Append(g[s \ {Max(s)}], seq[Max(s)]) ELSE g[s \ {Max(s)}])]
           g == CHOOSE h : Is(h)
<1>1. DOMAIN seq = D /\ Len(seq) \in Nat /\ Positions(D)
  BY DEF Positions
<1>2. cow_amm_orders(a, missing) = g[D]
  BY <1>1, Zenon DEF cow_amm_orders, FoldLeft, MapThenFoldSet
<1>3. \A y, i : Turn(p, y, i) = (IF seq[i] \in EligibleAmms(a) \ missing THEN Append(y, seq[i]) ELSE y)
  BY DEF Turn
<1>10. \A s : Outer(p, s) = Max(s)
  BY DEF Outer
<1> HIDE DEF p, base, seq
<1>4. \A h : Is(h) <=> IsFold(p, base, D, h)
  <2>2. \A h, s : FoldBody(p, base, h, s) = IF s = {} THEN base ELSE Turn(p, h[s \ {Max(s)}], Max(s))
    BY <1>10, Zenon DEF FoldBody
  <2>1. \A h, s : FoldBody(p, base, h, s) = IF s = {} THEN base ELSE (IF seq[Max(s)] \in EligibleAmms(a) \ missing THEN Append(h[s \ {Max(s)}], seq[Max(s)]) ELSE h[s \ {Max(s)}])
    BY <1>3, <2>2, Zenon
  <2> QED
    BY <2>1, Zenon DEF IsFold
<1>5. Is(g)
  <2>1. \E h : IsFold(p, base, D, h)
    BY <1>1, FoldExists
  <2>2. \E h : Is(h)
    BY <1>4, <2>1, Zenon
  <2> QED
    BY <2>2, Zenon
<1>6. IsFold(p, base, D, g)
  BY <1>4, <1>5, Zenon
<1>0. D = 1 .. Len(seq)
  OBVIOUS
<1> HIDE DEF g, Is, D
<1>7. PICK F : Stages(F, p, base, Len(seq), g[D])
  BY <1>0, <1>1, <1>6, <1>10, FoldPrefix, Zenon
<1>8. \A k \in 1 .. Len(seq) : F[k] = (IF seq[k] \in EligibleAmms(a) \ missing THEN Append(F[k - 1], seq[k]) ELSE F[k - 1])
  BY <1>3, <1>7 DEF Stages
<1>9. F[0] = <<>> /\ cow_amm_orders(a, missing) = F[Len(seq)]
  BY <1>2, <1>7 DEF base, Stages
<1> QED
  BY <1>8, <1>9, Zenon DEF seq

\* with_protocol_fees takes the policies one by one.
LEMMA FeesFold ==
  ASSUME NEW T, NEW f, f.order.protocol_fees \in Seq(T), NEW prices
  PROVE  \E F : /\ F[0] = {f}
                /\ \A k \in 1 .. Len(f.order.protocol_fees) : F[k] = NextPolicy(F[k - 1], prices, f.order.protocol_fees[k])
                /\ with_protocol_fees(f, prices) = F[Len(f.order.protocol_fees)]
<1> DEFINE seq == f.order.protocol_fees
           p == [fold |-> "fees", seq |-> seq, prices |-> prices]
           D == 1 .. Len(seq)
           base == {f}
           Is(g) == g = [s \in SUBSET D |-> IF s = {} THEN base ELSE NextPolicy(g[s \ {Max(s)}], prices, seq[Max(s)])]
           g == CHOOSE h : Is(h)
<1>1. DOMAIN seq = D /\ Len(seq) \in Nat /\ Positions(D)
  BY DEF Positions
<1>2. with_protocol_fees(f, prices) = g[D]
  BY <1>1, Zenon DEF with_protocol_fees, FoldLeft, MapThenFoldSet
<1>3. \A y, i : Turn(p, y, i) = NextPolicy(y, prices, seq[i])
  BY DEF Turn
<1>10. \A s : Outer(p, s) = Max(s)
  BY DEF Outer
<1> HIDE DEF p, base, seq
<1>4. \A h : Is(h) <=> IsFold(p, base, D, h)
  <2>1. \A h, s : FoldBody(p, base, h, s) = IF s = {} THEN base ELSE NextPolicy(h[s \ {Max(s)}], prices, seq[Max(s)])
    BY <1>3, <1>10, Zenon DEF FoldBody
  <2> QED
    BY <2>1, Zenon DEF IsFold
<1>5. Is(g)
  <2>1. \E h : IsFold(p, base, D, h)
    BY <1>1, FoldExists
  <2>2. \E h : Is(h)
    BY <1>4, <2>1, Zenon
  <2> QED
    BY <2>2, Zenon
<1>6. IsFold(p, base, D, g)
  BY <1>4, <1>5, Zenon
<1>0. D = 1 .. Len(seq)
  OBVIOUS
<1> HIDE DEF g, Is, D
<1>7. PICK F : Stages(F, p, base, Len(seq), g[D])
  BY <1>0, <1>1, <1>6, <1>10, FoldPrefix, Zenon
<1>8. \A k \in 1 .. Len(seq) : F[k] = NextPolicy(F[k - 1], prices, seq[k])
  BY <1>3, <1>7 DEF Stages
<1>9. F[0] = {f} /\ with_protocol_fees(f, prices) = F[Len(seq)]
  BY <1>2, <1>7 DEF base, Stages
<1> QED
  BY <1>8, <1>9, Zenon DEF seq

\* protocol_fees undoes the policies one by one, the last one first.
LEMMA UndoFold ==
  ASSUME NEW T, NEW t, t.policies \in Seq(T)
  PROVE  \E F : /\ F[Len(t.policies)] = {[amount |-> 0, left |-> Len(t.policies), custom_price |-> t.custom_price]}
                /\ \A k \in 1 .. Len(t.policies) : F[k - 1] = UndoNext(t, t.policies[k], F[k])
                /\ protocol_fees(t) = {r.amount : r \in F[0]}
<1> DEFINE seq == t.policies
           p == [fold |-> "undo", seq |-> seq, trade |-> t]
           D == 1 .. Len(seq)
           base == {[amount |-> 0, left |-> Len(t.policies), custom_price |-> t.custom_price]}
           Is(g) == g = [s \in SUBSET D |-> IF s = {} THEN base ELSE UndoNext(t, seq[Min(s)], g[s \ {Min(s)}])]
           g == CHOOSE h : Is(h)
<1>1. DOMAIN seq = D /\ Len(seq) \in Nat /\ Positions(D)
  BY DEF Positions
<1>2. protocol_fees(t) = {r.amount : r \in g[D]}
  BY <1>1, Zenon DEF protocol_fees, FoldRight, MapThenFoldSet
<1>3. \A y, i : Turn(p, y, i) = UndoNext(t, seq[i], y)
  BY DEF Turn
<1>10. \A s : Outer(p, s) = Min(s)
  BY DEF Outer
<1> HIDE DEF p, base, seq
<1>4. \A h : Is(h) <=> IsFold(p, base, D, h)
  <2>1. \A h, s : FoldBody(p, base, h, s) = IF s = {} THEN base ELSE UndoNext(t, seq[Min(s)], h[s \ {Min(s)}])
    BY <1>3, <1>10, Zenon DEF FoldBody
  <2> QED
    BY <2>1, Zenon DEF IsFold
<1>5. Is(g)
  <2>1. \E h : IsFold(p, base, D, h)
    BY <1>1, FoldExists
  <2>2. \E h : Is(h)
    BY <1>4, <2>1, Zenon
  <2> QED
    BY <2>2, Zenon
<1>6. IsFold(p, base, D, g)
  BY <1>4, <1>5, Zenon
<1>0. D = 1 .. Len(seq)
  OBVIOUS
<1> HIDE DEF g, Is, D
<1>7. PICK F : StagesBack(F, p, base, Len(seq), g[D])
  BY <1>0, <1>1, <1>6, <1>10, FoldSuffix, Zenon
<1>8. \A k \in 1 .. Len(seq) : F[k - 1] = UndoNext(t, seq[k], F[k])
  BY <1>3, <1>7 DEF StagesBack
<1>9. F[Len(seq)] = base /\ protocol_fees(t) = {r.amount : r \in F[0]}
  BY <1>2, <1>7 DEF StagesBack
<1> QED
  BY <1>8, <1>9, Zenon DEF seq, base

\* Tolerance goes along with it.
LEMMA ToleranceFold ==
  ASSUME NEW T, NEW policies \in Seq(T), NEW atoms
  PROVE  \E F : /\ F[Len(policies)] = 0
                /\ \A k \in 1 .. Len(policies) : F[k - 1] = NextTolerance(atoms, policies[k], F[k])
                /\ Tolerance(atoms, policies) = F[0]
<1> DEFINE seq == policies
           p == [fold |-> "tolerance", seq |-> seq, atoms |-> atoms]
           D == 1 .. Len(seq)
           base == 0
           Is(g) == g = [s \in SUBSET D |-> IF s = {} THEN base ELSE NextTolerance(atoms, seq[Min(s)], g[s \ {Min(s)}])]
           g == CHOOSE h : Is(h)
<1>1. DOMAIN seq = D /\ Len(seq) \in Nat /\ Positions(D)
  BY DEF Positions
<1>2. Tolerance(atoms, policies) = g[D]
  BY <1>1, Zenon DEF Tolerance, FoldRight, MapThenFoldSet
<1>3. \A y, i : Turn(p, y, i) = NextTolerance(atoms, seq[i], y)
  BY DEF Turn
<1>10. \A s : Outer(p, s) = Min(s)
  BY DEF Outer
<1> HIDE DEF p, base, seq
<1>4. \A h : Is(h) <=> IsFold(p, base, D, h)
  <2>1. \A h, s : FoldBody(p, base, h, s) = IF s = {} THEN base ELSE NextTolerance(atoms, seq[Min(s)], h[s \ {Min(s)}])
    BY <1>3, <1>10, Zenon DEF FoldBody
  <2> QED
    BY <2>1, Zenon DEF IsFold
<1>5. Is(g)
  <2>1. \E h : IsFold(p, base, D, h)
    BY <1>1, FoldExists
  <2>2. \E h : Is(h)
    BY <1>4, <2>1, Zenon
  <2> QED
    BY <2>2, Zenon
<1>6. IsFold(p, base, D, g)
  BY <1>4, <1>5, Zenon
<1>0. D = 1 .. Len(seq)
  OBVIOUS
<1> HIDE DEF g, Is, D
<1>7. PICK F : StagesBack(F, p, base, Len(seq), g[D])
  BY <1>0, <1>1, <1>6, <1>10, FoldSuffix, Zenon
<1>8. \A k \in 1 .. Len(seq) : F[k - 1] = NextTolerance(atoms, seq[k], F[k])
  BY <1>3, <1>7 DEF StagesBack
<1>9. F[Len(seq)] = base /\ Tolerance(atoms, policies) = F[0]
  BY <1>2, <1>7 DEF StagesBack
<1> QED
  BY <1>8, <1>9, Zenon DEF seq, base

-----------------------------------------------------------------------------
(* Products and quotients.                                                 *)

\* A product grows with its factors.
LEMMA ProductMonotonic ==
  ASSUME NEW x \in Nat, NEW y \in Nat, NEW z \in Nat, x <= y
  PROVE  x * z <= y * z /\ z * x <= z * y /\ x * z \in Nat /\ y * z \in Nat
<1>1. PICK d \in Nat : y = x + d
  <2>1. y - x \in Nat /\ y = x + (y - x)
    OBVIOUS
  <2> QED
    BY <2>1
<1>2. /\ (x + d) * z = x * z + d * z /\ d * z \in Nat /\ x * z \in Nat /\ (x + d) * z \in Nat
      /\ z * (x + d) = (x + d) * z /\ z * x = x * z
  OBVIOUS
<1> DEFINE xz == x * z
           dz == d * z
<1>3. xz \in Nat /\ dz \in Nat /\ (x + d) * z = xz + dz
  BY <1>2
<1> HIDE DEF xz, dz
<1>4. xz <= xz + dz
  BY <1>3
<1> QED
  BY <1>1, <1>2, <1>3, <1>4 DEF xz

\* A positive factor keeps the order.
LEMMA ProductStrict ==
  ASSUME NEW x \in Nat, NEW y \in Nat, NEW z \in Nat \ {0}
  PROVE  x < y <=> x * z < y * z
<1>1. ASSUME x < y PROVE x * z < y * z
  <2>1. (x + 1) * z <= y * z /\ (x + 1) * z = x * z + z /\ x * z \in Nat /\ y * z \in Nat
    BY <1>1, ProductMonotonic
  <2> QED
    BY <2>1
<1>2. ASSUME ~ (x < y) PROVE ~ (x * z < y * z)
  <2>1. y * z <= x * z /\ x * z \in Nat /\ y * z \in Nat
    BY <1>2, ProductMonotonic
  <2> QED
    BY <2>1
<1> QED
  BY <1>1, <1>2

\* What a rounded quotient is.
LEMMA Quotient ==
  ASSUME NEW x \in Nat, NEW z \in Nat \ {0}
  PROVE  x \div z \in Nat /\ z * (x \div z) <= x /\ x < z * (x \div z) + z
OBVIOUS

-----------------------------------------------------------------------------
(* Sorting.                                                                *)

\* Fractions are compared by cross multiplication.
LEMMA Fractions ==
  ASSUME NEW a \in Nat, NEW b \in Nat \ {0}, NEW c \in Nat, NEW d \in Nat \ {0},
         NEW e \in Nat, NEW f \in Nat \ {0}
  PROVE  /\ a * d > c * b /\ ~ (e * d > c * f) => a * f > e * b
         /\ ~ (c * b > a * d) /\ c * f > e * d => a * f > e * b
<1> DEFINE ad == a * d
           cb == c * b
           ed == e * d
           cf == c * f
           af == a * f
           eb == e * b
<1>1. ad \in Nat /\ cb \in Nat /\ ed \in Nat /\ cf \in Nat /\ af \in Nat /\ eb \in Nat
  OBVIOUS
<1>2. ad * f = af * d /\ cb * f = cf * b /\ ed * b = eb * d
  OBVIOUS
<1> HIDE DEF ad, cb, ed, cf, af, eb
<1>3. eb < af <=> eb * d < af * d
  BY <1>1, ProductStrict
<1>4. /\ cb < ad <=> cb * f < ad * f
      /\ ad < cb <=> ad * f < cb * f
      /\ cf < ed <=> cf * b < ed * b
      /\ ed < cf <=> ed * b < cf * b
  BY <1>1, ProductStrict
<1> DEFINE u == ad * f
           v == cf * b
           w == ed * b
<1>5. u \in Nat /\ v \in Nat /\ w \in Nat
  BY <1>1
<1>6. /\ eb < af <=> w < u
      /\ cb < ad <=> v < u
      /\ ad < cb <=> u < v
      /\ cf < ed <=> v < w
      /\ ed < cf <=> w < v
  BY <1>2, <1>3, <1>4
<1> HIDE DEF u, v, w
<1>7. /\ cb < ad /\ ~ (cf < ed) => eb < af
      /\ ~ (ad < cb) /\ ed < cf => eb < af
  BY <1>5, <1>6
<1> QED
  BY <1>1, <1>7 DEF ad, cb, ed, cf, af, eb

\* What Before compares are a class and a fraction.
LEMMA LikelihoodType ==
  ASSUME NEW o \in Order, NEW prices \in [Token -> Nat]
  PROVE  /\ Class(o) \in 0 .. 2
         /\ likelihood(o, prices)[1] \in Nat /\ likelihood(o, prices)[2] \in Nat \ {0}
<1>1. Class(o) \in 0 .. 2
  BY DEF Class, Order
<1>2. /\ o.sell \in Nat /\ o.buy \in Nat
      /\ prices[o.sell_token] \in Nat /\ prices[o.buy_token] \in Nat
  BY DEF Order
<1>3. in_eth(o.sell, prices[o.sell_token]) \in Nat /\ in_eth(o.buy, prices[o.buy_token]) \in Nat
  <2>1. o.sell * prices[o.sell_token] \in Nat /\ o.buy * prices[o.buy_token] \in Nat
    BY <1>2
  <2> QED
    BY <2>1, BaseAssumption, Quotient DEF in_eth
<1> QED
  BY <1>1, <1>3 DEF likelihood

\* Before is a strict weak order.
LEMMA BeforeOrder ==
  ASSUME NEW o \in Order, NEW p \in Order, NEW q \in Order, NEW prices \in [Token -> Nat]
  PROVE  /\ ~ (Before(o, p, prices) /\ Before(p, o, prices))
         /\ Before(o, p, prices) /\ ~ Before(q, p, prices) => Before(o, q, prices)
         /\ ~ Before(p, o, prices) /\ Before(p, q, prices) => Before(o, q, prices)
<1> DEFINE l == likelihood(o, prices)
           m == likelihood(p, prices)
           n == likelihood(q, prices)
<1>1. /\ l[1] \in Nat /\ l[2] \in Nat \ {0} /\ m[1] \in Nat /\ m[2] \in Nat \ {0}
      /\ n[1] \in Nat /\ n[2] \in Nat \ {0}
      /\ Class(o) \in 0 .. 2 /\ Class(p) \in 0 .. 2 /\ Class(q) \in 0 .. 2
  BY LikelihoodType
<1>2. /\ MoreLikely(o, p, prices) <=> l[1] * m[2] > m[1] * l[2]
      /\ MoreLikely(p, o, prices) <=> m[1] * l[2] > l[1] * m[2]
      /\ MoreLikely(p, q, prices) <=> m[1] * n[2] > n[1] * m[2]
      /\ MoreLikely(q, p, prices) <=> n[1] * m[2] > m[1] * n[2]
      /\ MoreLikely(o, q, prices) <=> l[1] * n[2] > n[1] * l[2]
  BY DEF MoreLikely
<1> HIDE DEF l, m, n
<1>3. /\ MoreLikely(o, p, prices) /\ ~ MoreLikely(q, p, prices) => MoreLikely(o, q, prices)
      /\ ~ MoreLikely(p, o, prices) /\ MoreLikely(p, q, prices) => MoreLikely(o, q, prices)
  BY <1>1, <1>2, Fractions
<1>4. ~ (MoreLikely(o, p, prices) /\ MoreLikely(p, o, prices))
  <2>1. l[1] * m[2] \in Nat /\ m[1] * l[2] \in Nat
    BY <1>1
  <2> QED
    BY <1>2, <2>1
<1> QED
  BY <1>1, <1>3, <1>4 DEF Before

\* A finite set without one of its members.
LEMMA RemoveOne ==
  ASSUME NEW S, IsFiniteSet(S), NEW x \in S
  PROVE  IsFiniteSet(S \ {x}) /\ Cardinality(S \ {x}) = Cardinality(S) - 1
BY FS_RemoveElement

\* The number of positions of D before i in the relation R.
Rank(R, D, i) == Cardinality({j \in D \ {i} : <<j, i>> \in R})

\* R is a strict total order of D.
StrictTotal(R, D) ==
  /\ R \in SUBSET (D \X D)
  /\ \A i, j \in D : ~ (<<i, j>> \in R /\ <<j, i>> \in R)
  /\ \A i, j \in D : i # j => <<i, j>> \in R \/ <<j, i>> \in R
  /\ \A i, j, k \in D : <<i, j>> \in R /\ <<j, k>> \in R => <<i, k>> \in R

\* The i-th of D goes to the k-th place.
Takes(R, D, i, k) == Rank(R, D, i) + 1 = k

\* n positions that are ranked by a strict total order: every rank is taken.
LEMMA RanksAreTaken ==
  ASSUME NEW n \in Nat, NEW D, D = 1 .. n, NEW R, StrictTotal(R, D), NEW k \in D
  PROVE  \E i \in D : Takes(R, D, i, k)
<1> DEFINE first(i) == {j \in D \ {i} : <<j, i>> \in R}
           place == [i \in D |-> Cardinality(first(i)) + 1]
<1>1. IsFiniteSet(D) /\ Cardinality(D) = n
  BY FS_Interval
<1>2. ASSUME NEW i \in D
      PROVE  /\ IsFiniteSet(first(i)) /\ Cardinality(first(i)) \in Nat
             /\ Cardinality(first(i)) < n
  <2>1. IsFiniteSet(D \ {i}) /\ Cardinality(D \ {i}) = n - 1
    BY <1>1, RemoveOne, Zenon
  <2>2. first(i) \in SUBSET (D \ {i})
    OBVIOUS
  <2> HIDE DEF first
  <2>3. IsFiniteSet(first(i)) /\ Cardinality(first(i)) <= n - 1
    BY <2>1, <2>2, FS_Subset
  <2> QED
    BY <2>3, FS_CardinalityType
<1>3. ASSUME NEW i \in D, NEW j \in D, <<i, j>> \in R
      PROVE  Cardinality(first(i)) < Cardinality(first(j))
  <2>1. first(i) \in SUBSET first(j)
    BY <1>3 DEF StrictTotal
  <2>2. i \in first(j) /\ i \notin first(i)
    BY <1>3 DEF StrictTotal
  <2> HIDE DEF first
  <2>3. /\ Cardinality(first(i)) <= Cardinality(first(j))
        /\ Cardinality(first(i)) # Cardinality(first(j))
    BY <1>2, <2>1, <2>2, FS_Subset
  <2> QED
    BY <1>2, <2>3
<1>4. \A i, j \in D : i # j => place[i] # place[j]
  <2> SUFFICES ASSUME NEW i \in D, NEW j \in D, i # j PROVE place[i] # place[j]
    OBVIOUS
  <2>1. place[i] = Cardinality(first(i)) + 1 /\ place[j] = Cardinality(first(j)) + 1
    BY Zenon
  <2>2. <<i, j>> \in R \/ <<j, i>> \in R
    BY DEF StrictTotal
  <2>3. Cardinality(first(i)) \in Nat /\ Cardinality(first(j)) \in Nat
    BY <1>2
  <2> HIDE DEF place, first
  <2> QED
    BY <1>3, <2>1, <2>2, <2>3
<1>5. SUFFICES ASSUME \A i \in D : place[i] # k PROVE FALSE
  <2>1. ASSUME NEW i \in D, place[i] = k
        PROVE  \E x \in D : Takes(R, D, x, k)
    BY <2>1 DEF Rank, Takes
  <2> QED
    BY <2>1
<1>6. place \in [D -> D \ {k}]
  <2>1. ASSUME NEW i \in D PROVE Cardinality(first(i)) + 1 \in D
    <3>1. Cardinality(first(i)) \in Nat /\ Cardinality(first(i)) < n
      BY <1>2
    <3> HIDE DEF first
    <3> QED
      BY <3>1
  <2>2. \A i \in D : Cardinality(first(i)) + 1 \in D \ {k}
    BY <1>5, <2>1
  <2> HIDE DEF first
  <2> QED
    BY <2>2
<1>7. IsFiniteSet(D \ {k}) /\ Cardinality(D \ {k}) < Cardinality(D)
  <2>1. k \in D
    OBVIOUS
  <2>2. IsFiniteSet(D \ {k}) /\ Cardinality(D \ {k}) = Cardinality(D) - 1
    BY <1>1, <2>1, RemoveOne, Zenon
  <2> QED
    BY <1>1, <2>2
<1> HIDE DEF place, first
<1> QED
  BY <1>1, <1>4, <1>6, <1>7, FS_PigeonHole

\* Sorting keeps orders orders: the places of the sorted ones are all taken.
LEMMA SortType ==
  ASSUME NEW orders \in Seq(KnownOrder), NEW prices \in [Token -> Nat]
  PROVE  sort(orders, prices) \in Seq(KnownOrder)
<1> DEFINE n == Len(orders)
           D == 1 .. n
           goesFirst(j, i) == \/ Before(orders[j], orders[i], prices)
                              \/ j < i /\ ~ Before(orders[i], orders[j], prices)
           R == {x \in D \X D : goesFirst(x[1], x[2])}
           before(i) == {j \in D \ {i} : goesFirst(j, i)}
           place == [i \in DOMAIN orders |->
                       Cardinality({j \in DOMAIN orders \ {i} : goesFirst(j, i)}) + 1]
           chosen(k) == CHOOSE i \in DOMAIN orders : place[i] = k
<1>1. /\ n \in Nat /\ DOMAIN orders = D
      /\ \A i \in D : orders[i] \in KnownOrder /\ orders[i] \in Order
  BY Known
<1>2. sort(orders, prices) = [k \in DOMAIN orders |-> orders[chosen(k)]]
  BY Zenon DEF sort
<1>3. \A i \in D : place[i] = Cardinality(before(i)) + 1
  BY <1>1, Zenon
<1>4. \A i, j \in D : <<i, j>> \in R <=> goesFirst(i, j)
  OBVIOUS
<1>5. /\ \A i, j \in D : ~ (goesFirst(i, j) /\ goesFirst(j, i))
      /\ \A i, j \in D : i # j => goesFirst(i, j) \/ goesFirst(j, i)
  BY <1>1, BeforeOrder
<1>6. ASSUME NEW i \in D, NEW j \in D, NEW k \in D,
             goesFirst(i, j), goesFirst(j, k)
      PROVE  goesFirst(i, k)
  <2> DEFINE B(x, y) == Before(orders[x], orders[y], prices)
  <2>1. \A x, y, z \in {i, j, k} : /\ ~ (B(x, y) /\ B(y, x))
                                   /\ B(x, y) /\ ~ B(z, y) => B(x, z)
                                   /\ ~ B(y, x) /\ B(y, z) => B(x, z)
    BY <1>1, BeforeOrder
  <2>2. (B(i, j) \/ (i < j /\ ~ B(j, i))) /\ (B(j, k) \/ (j < k /\ ~ B(k, j)))
    BY <1>6
  <2> HIDE DEF B
  <2>3. B(i, k) \/ (i < k /\ ~ B(k, i))
    BY <2>1, <2>2
  <2> QED
    BY <2>3 DEF B
<1> HIDE DEF goesFirst
<1>7. \A i \in D : Cardinality(before(i)) = Rank(R, D, i)
  <2>1. \A i \in D : before(i) = {j \in D \ {i} : <<j, i>> \in R}
    BY <1>4
  <2> QED
    BY <2>1 DEF Rank
<1>12. D = 1 .. n
  OBVIOUS
<1>8. R \in SUBSET (D \X D)
  OBVIOUS
<1>9. /\ \A i, j \in D : ~ (<<i, j>> \in R /\ <<j, i>> \in R)
      /\ \A i, j \in D : i # j => <<i, j>> \in R \/ <<j, i>> \in R
      /\ \A i, j, k \in D : <<i, j>> \in R /\ <<j, k>> \in R => <<i, k>> \in R
  BY <1>4, <1>5, <1>6
<1>13. StrictTotal(R, D)
  BY <1>8, <1>9, Zenon DEF StrictTotal
<1> HIDE DEF R, n, D, before
<1>10. ASSUME NEW k \in D PROVE \E i \in DOMAIN orders : place[i] = k
  <2> HIDE DEF place
  <2>2. k \in D /\ n \in Nat
    BY <1>1, <1>10
  <2>1. PICK i \in D : Takes(R, D, i, k)
    BY <2>2, <1>13, <1>12, RanksAreTaken, Zenon
  <2> QED
    BY <1>1, <1>3, <1>7, <2>1 DEF Takes
<1> HIDE DEF place
<1>11. \A k \in D : chosen(k) \in D
  BY <1>1, <1>10
<1> HIDE DEF chosen
<1> QED
  BY <1>1, <1>2, <1>11, <1>12

-----------------------------------------------------------------------------
(* Balances and what is offered of them.                                   *)

\* What holds before the first step and is kept by every step holds after the last.
Inductive(Good, n) == 0 \in Good /\ \A k \in 1 .. n : k - 1 \in Good => k \in Good

\* Induction over 0 .. n, by a least counterexample.
LEMMA StepByStep ==
  ASSUME NEW n \in Nat, NEW Good, Inductive(Good, n)
  PROVE  n \in Good
<1> DEFINE Bad == {k \in 0 .. n : k \notin Good}
<1>1. SUFFICES ASSUME Bad # {} PROVE FALSE
  <2>1. n \in 0 .. n
    OBVIOUS
  <2> QED
    BY <2>1
<1>2. Bad \in SUBSET Nat
  OBVIOUS
<1>3. PICK m \in Bad : \A k \in Bad : m <= k
  <2> HIDE DEF Bad
  <2> QED
    BY <1>1, <1>2, LeastNumber
<1>4. m \in 1 .. n /\ m - 1 \in 0 .. n /\ ~ (m <= m - 1)
  BY DEF Inductive
<1>5. m - 1 \in Good
  BY <1>3, <1>4
<1> QED
  BY <1>4, <1>5 DEF Inductive

\* cow_amm_orders returns orders without fees.
LEMMA AmmsType ==
  ASSUME NEW a, NEW missing
  PROVE  cow_amm_orders(a, missing) \in Seq(KnownOrder)
<1>1. Amm \in Seq(Order) /\ Len(Amm) \in Nat
  BY AuctionAssumption
<1>2. PICK F : /\ F[0] = <<>>
               /\ \A k \in 1 .. Len(Amm) :
                    F[k] = IF Amm[k] \in EligibleAmms(a) \ missing THEN Append(F[k - 1], Amm[k])
                                                                   ELSE F[k - 1]
               /\ cow_amm_orders(a, missing) = F[Len(Amm)]
  BY <1>1, AmmsFold
<1> DEFINE Good == {k \in Nat : F[k] \in Seq(KnownOrder)}
<1>3. 0 \in Good
  <2>1. <<>> \in Seq(KnownOrder)
    OBVIOUS
  <2> QED
    BY <1>2, <2>1
<1>4. ASSUME NEW k \in 1 .. Len(Amm), k - 1 \in Good PROVE k \in Good
  <2>1. F[k - 1] \in Seq(KnownOrder) /\ Amm[k] \in KnownOrder
    <3>1. Amm[k] \in Order /\ Amm[k] \in Range(Amm)
      BY <1>1 DEF Range
    <3>2. Amm[k].protocol_fees = <<>>
      BY <3>1, AuctionAssumption
    <3> QED
      BY <1>4, <3>1, <3>2 DEF KnownOrder
  <2>2. Append(F[k - 1], Amm[k]) \in Seq(KnownOrder)
    BY <2>1
  <2>3. F[k] = Append(F[k - 1], Amm[k]) \/ F[k] = F[k - 1]
    BY <1>2
  <2>4. F[k] \in Seq(KnownOrder)
    BY <2>1, <2>2, <2>3, Zenon
  <2>5. k \in Nat
    BY <1>1
  <2> QED
    BY <2>4, <2>5
<1> HIDE DEF Good
<1>5. Len(Amm) \in Good
  <2>1. Inductive(Good, Len(Amm))
    BY <1>3, <1>4 DEF Inductive
  <2> QED
    BY <1>1, <2>1, StepByStep
<1> QED
  BY <1>2, <1>5 DEF Good

\* Every account of an answered group has the balance of a group of its own.
LEMMA FetchType ==
  ASSUME NEW orders \in Seq(KnownOrder), NEW holdings \in Holdings, NEW failed
  PROVE  fetch_balances(orders, holdings, failed) \in Balances
<1> DEFINE answered(account) == {g \in Groups(orders) \ failed : orders[g[1]].account = account}
           last(account) == CHOOSE g \in answered(account) :
                              \A h \in answered(account) : h[1] <= g[1]
           A == {x \in {orders[i].account : i \in DOMAIN orders} : answered(x) # {}}
<1>1. /\ DOMAIN orders = 1 .. Len(orders) /\ Len(orders) \in Nat
      /\ \A i \in DOMAIN orders : orders[i] \in Order
  BY Known
<1>2. A \in SUBSET Account
  BY <1>1 DEF Order
<1>3. \A g \in Groups(orders) : g[1] \in DOMAIN orders
  BY DEF Groups
<1>4. ASSUME NEW x \in A PROVE last(x) \in Groups(orders)
  <2>0. answered(x) # {} /\ answered(x) \in SUBSET Groups(orders)
    BY <1>4
  <2> HIDE DEF answered
  <2> DEFINE S == {g[1] : g \in answered(x)}
  <2>1. S \in SUBSET (1 .. Len(orders)) /\ S # {}
    BY <1>1, <1>3, <2>0
  <2>2. Max(S) \in S /\ \A k \in S : k <= Max(S)
    <3> HIDE DEF S
    <3> QED
      BY <1>1, <2>1, MaxIn
  <2>3. \E g \in answered(x) : \A h \in answered(x) : h[1] <= g[1]
    BY <2>2
  <2> QED
    BY <2>0, <2>3
<1>5. \A g \in Groups(orders) : GroupInteraction(orders, g) \in Interaction
  BY <1>1, <1>3, HoldingsAssumption DEF GroupInteraction, Order
<1> DEFINE value(x) == holdings[x][GroupInteraction(orders, last(x))]
<1>6. fetch_balances(orders, holdings, failed) = [x \in A |-> value(x)]
  BY Zenon DEF fetch_balances
<1>7. ASSUME NEW x \in A PROVE value(x) \in Nat
  <2>1. x \in Account /\ last(x) \in Groups(orders)
    BY <1>2, <1>4
  <2> HIDE DEF last
  <2>2. GroupInteraction(orders, last(x)) \in Interaction
    BY <1>5, <2>1
  <2>3. holdings[x] \in [Interaction -> Nat]
    BY <2>1, HoldingsAssumption
  <2> QED
    BY <2>2, <2>3
<1> HIDE DEF value, A
<1>8. [x \in A |-> value(x)] \in [A -> Nat]
  BY <1>7
<1> QED
  BY <1>2, <1>6, <1>8 DEF Balances

\* Amounts of an order are natural numbers.
LEMMA AvailableType ==
  ASSUME NEW o \in Order
  PROVE  target(o) \in Nat /\ available(o).sell \in Nat /\ available(o).buy \in Nat
<1>1. o.sell \in Nat /\ o.buy \in Nat /\ o.available \in Nat
  BY DEF Order
<1>2. target(o) \in Nat
  BY <1>1 DEF target
<1>3. o.sell * o.available \in Nat /\ o.buy * o.available \in Nat
  BY <1>1
<1>4. mul_ratio(o.sell, o.available, target(o)) \in Nat
  BY <1>2, <1>3, Quotient DEF mul_ratio
<1>5. mul_ratio_ceil(o.buy, o.available, target(o)) \in Nat
  <2>1. target(o) # 0 => o.buy * o.available + target(o) - 1 \in Nat /\ target(o) \in Nat \ {0}
    BY <1>2, <1>3
  <2> QED
    BY <2>1, Quotient DEF mul_ratio_ceil
<1> QED
  BY <1>1, <1>2, <1>4, <1>5 DEF available

\* What is offered of an account is an amount.
LEMMA OfferedType ==
  ASSUME NEW orders \in Seq(KnownOrder), NEW account
  PROVE  Offered(orders, account) \in Nat
<1> DEFINE n == Len(orders)
           next(y, o) == IF o.account = account THEN y + available(o).sell ELSE y
<1>1. n \in Nat /\ \A i \in 1 .. n : orders[i] \in Order
  BY Known
<1>2. PICK F : /\ F[0] = 0
               /\ \A k \in 1 .. n : F[k] = next(F[k - 1], orders[k])
               /\ Offered(orders, account) = F[n]
  BY OfferedFold
<1> DEFINE Good == {k \in Nat : F[k] \in Nat}
<1>3. 0 \in Good
  BY <1>2
<1>4. ASSUME NEW k \in 1 .. n, k - 1 \in Good PROVE k \in Good
  <2>1. F[k - 1] \in Nat /\ available(orders[k]).sell \in Nat
    BY <1>1, <1>4, AvailableType
  <2>2. F[k] = F[k - 1] + available(orders[k]).sell \/ F[k] = F[k - 1]
    BY <1>2
  <2> QED
    BY <2>1, <2>2
<1> HIDE DEF Good, next, n
<1>5. n \in Good
  <2>1. Inductive(Good, n)
    BY <1>3, <1>4 DEF Inductive
  <2> QED
    BY <1>1, <2>1, StepByStep
<1> QED
  BY <1>2, <1>5 DEF Good

\* No orders offer nothing.
LEMMA OfferedNone ==
  ASSUME NEW account
  PROVE  Offered(<<>>, account) = 0
<1>1. <<>> \in Seq(KnownOrder) /\ Len(<<>>) = 0
  OBVIOUS
<1> DEFINE none == <<>>
<1>2. none \in Seq(KnownOrder) /\ Len(none) = 0
  BY <1>1
<1> HIDE DEF none
<1>3. PICK F : /\ F[0] = 0
               /\ \A k \in 1 .. Len(none) :
                    F[k] = (IF none[k].account = account THEN F[k - 1] + available(none[k]).sell ELSE F[k - 1])
               /\ Offered(none, account) = F[Len(none)]
  BY <1>2, OfferedFold, Zenon
<1> QED
  BY <1>2, <1>3 DEF none

\* One more order adds what it sells.
LEMMA OfferedAppend ==
  ASSUME NEW orders \in Seq(KnownOrder), NEW o \in KnownOrder, NEW account
  PROVE  Offered(Append(orders, o), account)
           = Offered(orders, account) + IF o.account = account THEN available(o).sell ELSE 0
<1> DEFINE n == Len(orders)
           more == Append(orders, o)
           next(y, x) == IF x.account = account THEN y + available(x).sell ELSE y
<1>1. /\ n \in Nat /\ more \in Seq(KnownOrder) /\ Len(more) = n + 1 /\ more[n + 1] = o
      /\ \A k \in 1 .. n : more[k] = orders[k]
  OBVIOUS
<1> HIDE DEF more
<1>2. PICK F : /\ F[0] = 0
               /\ \A k \in 1 .. n : F[k] = next(F[k - 1], orders[k])
               /\ Offered(orders, account) = F[n]
  BY OfferedFold
<1>3. PICK G : /\ G[0] = 0
               /\ \A k \in 1 .. Len(more) : G[k] = next(G[k - 1], more[k])
               /\ Offered(more, account) = G[Len(more)]
  BY <1>1, OfferedFold
<1> HIDE DEF next
<1> DEFINE Good == {k \in Nat : G[k] = F[k]}
<1>4. 0 \in Good
  BY <1>2, <1>3
<1>5. \A k \in 1 .. n : k - 1 \in Good => k \in Good
  BY <1>1, <1>2, <1>3
<1> HIDE DEF Good, n
<1>6. n \in Good
  <2>1. Inductive(Good, n)
    BY <1>4, <1>5 DEF Inductive
  <2> QED
    BY <1>1, <2>1, StepByStep
<1>7. G[n + 1] = next(G[n], o)
  <2>1. n + 1 \in 1 .. Len(more) /\ n + 1 - 1 = n
    BY <1>1
  <2> QED
    BY <1>1, <1>3, <2>1
<1>8. Offered(more, account) = next(Offered(orders, account), o)
  BY <1>1, <1>2, <1>3, <1>6, <1>7 DEF Good
<1>9. Offered(orders, account) \in Nat /\ available(o).sell \in Nat
  BY Known, OfferedType, AvailableType
<1> QED
  BY <1>8, <1>9 DEF next, more

-----------------------------------------------------------------------------
\* A quotient is the exact one if the division leaves nothing.
LEMMA ExactQuotient ==
  ASSUME NEW x \in Nat, NEW z \in Nat \ {0}
  PROVE  (z * x) \div z = x /\ (x * z) \div z = x
<1> DEFINE q == (z * x) \div z
           zx == z * x
           zq == z * q
<1>1. zx \in Nat /\ x * z = zx
  OBVIOUS
<1>2. q \in Nat /\ zq <= zx /\ zx < zq + z
  BY <1>1, Quotient
<1>3. zq \in Nat /\ zq = q * z /\ zx = x * z
  BY <1>2
<1> HIDE DEF q
<1>4. ~ (x < q)
  BY <1>1, <1>2, <1>3, ProductStrict
<1>5. ~ (q < x)
  <2> SUFFICES ASSUME q + 1 <= x PROVE FALSE
    BY <1>2
  <2>1. (q + 1) * z <= x * z /\ (q + 1) * z = q * z + z
    BY <1>2, ProductMonotonic
  <2> QED
    BY <1>1, <1>2, <1>3, <2>1
<1>6. q = x
  BY <1>2, <1>4, <1>5
<1> QED
  BY <1>1, <1>6 DEF q

\* A buy order scaled down to a part of what it could sell: rounding twice keeps it
\* within that part.
LEMMA ScaledBuy ==
  ASSUME NEW S \in Nat, NEW A \in Nat, NEW B \in Nat \ {0}, NEW c \in Nat, NEW X \in Nat \ {0},
         X = (S * A) \div B, c <= X
  PROVE  (A * c) \div X \in Nat /\ (S * ((A * c) \div X)) \div B <= c
<1> DEFINE D == (A * c) \div X
           SA == S * A
           SD == S * D
           Q == SD \div B
<1>1. SA \in Nat /\ A * c \in Nat
  OBVIOUS
<1>2. SA < B * X + B
  BY <1>1, Quotient
<1>3. D \in Nat /\ X * D <= A * c
  BY <1>1, Quotient
<1>4. SD \in Nat
  BY <1>3
<1> HIDE DEF D
<1>5. Q \in Nat /\ B * Q <= SD
  BY <1>4, Quotient
<1> HIDE DEF Q
\* S * D * X <= S * A * c <= B * (X + 1) * c <= B * X * (c + 1).
<1>6. SD * X <= SA * c /\ SD * X \in Nat /\ SA * c \in Nat
  <2>1. X * D \in Nat /\ A * c \in Nat
    BY <1>3
  <2>2. S * (X * D) <= S * (A * c)
    BY <1>3, <2>1, ProductMonotonic
  <2>3. S * (X * D) = SD * X /\ S * (A * c) = SA * c
    BY <1>3
  <2> QED
    BY <1>1, <1>4, <2>2, <2>3
<1>7. SA * c <= (B * X + B) * c /\ (B * X + B) * c = B * (X * c) + B * c
  <2>1. B * X + B \in Nat
    OBVIOUS
  <2>2. SA * c <= (B * X + B) * c
    BY <1>1, <1>2, <2>1, ProductMonotonic
  <2>3. (B * X + B) * c = B * (X * c) + B * c
    OBVIOUS
  <2> QED
    BY <2>2, <2>3
<1>8. B * c <= B * X /\ B * c \in Nat /\ B * X \in Nat
  BY ProductMonotonic
<1>9. SUFFICES ASSUME c + 1 <= Q PROVE FALSE
  BY <1>5 DEF D, Q
<1> DEFINE SDX == SD * X
           BXc == B * (X * c)
           BX == B * X
           Bc == B * c
           SAc == SA * c
<1>10. BX * (c + 1) <= SDX
  <2>1. B * (c + 1) <= B * Q /\ B * (c + 1) \in Nat /\ B * Q \in Nat
    BY <1>5, <1>9, ProductMonotonic
  <2>2. B * (c + 1) <= SD
    BY <1>4, <1>5, <2>1
  <2>3. (B * (c + 1)) * X <= SD * X
    BY <1>4, <2>1, <2>2, ProductMonotonic
  <2>4. (B * (c + 1)) * X = BX * (c + 1)
    <3> DEFINE d == c + 1
    <3>1. d \in Nat
      OBVIOUS
    <3> HIDE DEF d
    <3>2. (B * d) * X = (B * X) * d
      BY <3>1
    <3> QED
      BY <3>2 DEF d
  <2> QED
    BY <2>3, <2>4
<1>11. BX * (c + 1) = BXc + BX /\ BXc \in Nat
  OBVIOUS
\* So all of them are equal, which the strictness of the second step excludes.
<1>12. c = 0 \/ SAc < BXc + Bc
  <2>1. CASE c # 0
    <3>1. SA * c < (B * X + B) * c
      <4>1. B * X + B \in Nat /\ c \in Nat \ {0}
        BY <2>1
      <4> QED
        BY <1>1, <1>2, <4>1, ProductStrict
    <3> QED
      BY <1>7, <3>1
  <2> QED
    BY <2>1
<1>13. c = 0 => SAc = 0
  BY <1>1
<1>14. BX > 0
  <2>1. 0 * X < B * X
    BY ProductStrict
  <2> QED
    BY <2>1
<1>15. SDX <= SAc /\ SDX \in Nat /\ SAc \in Nat /\ Bc <= BX /\ Bc \in Nat /\ BX \in Nat
  BY <1>6, <1>8
<1> HIDE DEF SDX, BXc, BX, Bc, SAc
<1> QED
  BY <1>10, <1>11, <1>12, <1>13, <1>14, <1>15

\* What is left of an order that was given a part of a balance fits into that part.
LEMMA ScaledOrder ==
  ASSUME NEW o \in KnownOrder, NEW remaining \in Nat, Allocated(o, remaining) # 0
  PROVE  LET c == Allocated(o, remaining)
             p == ScaleTo(o, c)
         IN  /\ c \in Nat /\ c <= remaining
             /\ p \in KnownOrder /\ p.account = o.account
             /\ available(p).sell <= c
<1> DEFINE c == Allocated(o, remaining)
           X == available(o).sell
           p == ScaleTo(o, c)
<1>1. target(o) \in Nat /\ X \in Nat /\ o \in Order
  BY Known, AvailableType
<1>2. c \in Nat \ {0} /\ c <= remaining /\ c <= X /\ (~ o.partial => c = X)
  <2> HIDE DEF X
  <2>1. c = IF o.partial THEN Smaller(X, remaining) ELSE IF X <= remaining THEN X ELSE 0
    BY DEF Allocated, X
  <2>2. c # 0
    OBVIOUS
  <2> HIDE DEF c
  <2> QED
    BY <1>1, <2>1, <2>2 DEF Smaller
<1> HIDE DEF c
<1>3. CASE ~ o.partial
  <2>1. p = o
    BY <1>3 DEF ScaleTo
  <2> HIDE DEF p
  <2> QED
    BY <1>2, <1>3, <2>1 DEF c, p
<1>4. CASE o.partial
  <2>1. o.sell \in Nat /\ o.buy \in Nat /\ o.available \in Nat /\ o.side \in {"Buy", "Sell"}
    BY <1>1 DEF Order
  <2>2. X = mul_ratio(o.sell, o.available, target(o))
    BY <1>4 DEF available
  <2>3. target(o) \in Nat \ {0} /\ X = (o.sell * o.available) \div target(o)
    BY <1>1, <1>2, <2>2 DEF mul_ratio
  <2> DEFINE A == mul_ratio(o.available, c, X)
  <2>4. p = [o EXCEPT !.available = A]
    BY <1>4 DEF ScaleTo
  <2>5. A = (o.available * c) \div X /\ X \in Nat \ {0}
    BY <1>1, <1>2 DEF mul_ratio
  <2>6. A \in Nat
    <3>1. o.available * c \in Nat
      BY <1>2, <2>1
    <3> QED
      BY <2>5, <3>1, Quotient
  <2> HIDE DEF A, X, p
  <2>10. /\ p \in Order /\ p.account = o.account /\ p.partial = TRUE /\ p.sell = o.sell
         /\ p.buy = o.buy /\ p.side = o.side /\ p.available = A
         /\ p.protocol_fees = o.protocol_fees
    BY <1>1, <1>4, <2>4, <2>6 DEF Order
  <2>7. /\ p \in KnownOrder /\ p.account = o.account /\ p.partial = TRUE /\ p.sell = o.sell
        /\ p.buy = o.buy /\ p.side = o.side /\ p.available = A
    BY <2>10 DEF KnownOrder
  <2>8. available(p).sell = (o.sell * A) \div target(o)
    <3>1. target(p) = target(o)
      BY <2>7 DEF target
    <3> QED
      BY <2>3, <2>7, <3>1 DEF available, mul_ratio
  <2>9. available(p).sell <= c
    <3>1. CASE o.side = "Buy"
      <4>1. target(o) = o.buy
        BY <3>1 DEF target
      <4>2. /\ o.buy \in Nat \ {0} /\ X = (o.sell * o.available) \div o.buy
            /\ available(p).sell = (o.sell * A) \div o.buy
        BY <2>3, <2>8, <4>1
      <4>3. (o.sell * ((o.available * c) \div X)) \div o.buy <= c
        BY <1>2, <2>1, <2>5, <4>2, ScaledBuy
      <4> QED
        BY <2>5, <4>2, <4>3
    <3>2. CASE o.side = "Sell"
      <4>1. target(o) = o.sell
        BY <3>2 DEF target
      <4>2. X = o.available
        BY <2>1, <2>3, <4>1, ExactQuotient
      <4>3. A = c
        BY <1>2, <2>5, <4>2, ExactQuotient
      <4>4. available(p).sell = c
        BY <1>2, <2>3, <2>8, <4>1, <4>3, ExactQuotient
      <4> QED
        BY <1>2, <4>4
    <3> QED
      BY <2>1, <3>1, <3>2
  <2> QED
    BY <1>2, <2>7, <2>9 DEF c, p
<1> QED
  BY <1>3, <1>4

-----------------------------------------------------------------------------
\* What the orders taken so far may sell and what remains of the balances.
Within(acc, balances) ==
  /\ acc.balances \in [DOMAIN balances -> Nat]
  /\ acc.orders \in Seq(KnownOrder)
  /\ \A i \in DOMAIN acc.orders : ~ is_zero(available(acc.orders[i]))
  /\ \A x \in DOMAIN balances : Offered(acc.orders, x) + acc.balances[x] <= balances[x]

\* One turn of filter_orders takes from a balance at least what it offers.
LEMMA FilterStep ==
  ASSUME NEW balances, \A x \in DOMAIN balances : balances[x] \in Nat,
         NEW acc, Within(acc, balances), NEW o \in KnownOrder
  PROVE  Within(filter_order(acc, o), balances)
<1> DEFINE remaining == acc.balances[o.account]
           c == Allocated(o, remaining)
           p == ScaleTo(o, c)
           next == [balances |-> [acc.balances EXCEPT ![o.account] = @ - c],
                    orders |-> Append(acc.orders, p)]
<1>1. CASE filter_order(acc, o) = acc
  BY <1>1
<1>2. CASE /\ o.account \in DOMAIN acc.balances /\ c # 0 /\ ~ is_zero(available(p))
           /\ filter_order(acc, o) = next
  <2>1. DOMAIN acc.balances = DOMAIN balances /\ o.account \in DOMAIN balances
    BY <1>2 DEF Within
  <2>2. remaining \in Nat /\ c # 0
    BY <1>2, <2>1 DEF Within
  <2> HIDE DEF remaining
  <2>3. /\ c \in Nat /\ c <= remaining /\ p \in KnownOrder /\ p.account = o.account
        /\ available(p).sell <= c
    BY <2>2, ScaledOrder
  <2>4. available(p).sell \in Nat
    BY <2>3, Known, AvailableType
  <2>5. ~ is_zero(available(p))
    BY <1>2
  <2> HIDE DEF c, p
  <2>6. /\ next.balances = [acc.balances EXCEPT ![o.account] = remaining - c]
        /\ next.orders = Append(acc.orders, p)
    BY DEF remaining
  <2> HIDE DEF next
  <2>7. /\ next.balances \in [DOMAIN balances -> Nat]
        /\ next.balances[o.account] = remaining - c
        /\ \A x \in DOMAIN balances : x # o.account => next.balances[x] = acc.balances[x]
    BY <2>1, <2>2, <2>3, <2>6 DEF Within
  <2>8. /\ next.orders \in Seq(KnownOrder) /\ acc.orders \in Seq(KnownOrder)
        /\ \A i \in DOMAIN next.orders : next.orders[i] = p \/ (i \in DOMAIN acc.orders /\ next.orders[i] = acc.orders[i])
    BY <2>3, <2>6 DEF Within
  <2>9. \A i \in DOMAIN next.orders : ~ is_zero(available(next.orders[i]))
    BY <2>5, <2>8 DEF Within
  <2>10. ASSUME NEW x \in DOMAIN balances
         PROVE  Offered(next.orders, x) + next.balances[x] <= balances[x]
    <3>1. Offered(next.orders, x) = Offered(acc.orders, x)
                                      + IF o.account = x THEN available(p).sell ELSE 0
      BY <2>3, <2>6, <2>8, OfferedAppend
    <3>2. Offered(acc.orders, x) \in Nat /\ acc.balances[x] \in Nat /\ balances[x] \in Nat
      BY <2>8, OfferedType DEF Within
    <3>3. Offered(acc.orders, x) + acc.balances[x] <= balances[x]
      BY DEF Within
    <3>4. CASE x = o.account
      <4>1. acc.balances[x] = remaining /\ next.balances[x] = remaining - c
        BY <2>7, <3>4 DEF remaining
      <4>2. Offered(next.orders, x) = Offered(acc.orders, x) + available(p).sell
        BY <3>1, <3>4
      <4> QED
        BY <2>2, <2>3, <2>4, <3>2, <3>3, <4>1, <4>2
    <3>5. CASE x # o.account
      <4>1. next.balances[x] = acc.balances[x] /\ Offered(next.orders, x) = Offered(acc.orders, x)
        BY <2>7, <3>1, <3>2, <3>5
      <4> QED
        BY <3>3, <4>1
    <3> QED
      BY <3>4, <3>5
  <2>11. Within(next, balances)
    BY <2>7, <2>8, <2>9, <2>10 DEF Within
  <2> QED
    BY <1>2, <2>11
<1>3. \/ filter_order(acc, o) = acc
      \/ /\ o.account \in DOMAIN acc.balances /\ c # 0 /\ ~ is_zero(available(p))
         /\ filter_order(acc, o) = next
  BY Zenon DEF filter_order
<1> QED
  BY <1>1, <1>2, <1>3

\* filter_orders never gives out more than there is.
LEMMA FilterWithin ==
  ASSUME NEW balances \in Balances, NEW orders \in Seq(KnownOrder)
  PROVE  LET kept == filter_orders(balances, orders)
         IN  /\ kept \in Seq(KnownOrder)
             /\ \A i \in DOMAIN kept : ~ is_zero(available(kept[i]))
             /\ \A x \in DOMAIN balances : Offered(kept, x) <= balances[x]
<1> DEFINE n == Len(orders)
           none == <<>>
           start == [balances |-> balances, orders |-> <<>>]
<1>1. n \in Nat /\ \A i \in 1 .. n : orders[i] \in KnownOrder
  OBVIOUS
<1>2. balances \in [DOMAIN balances -> Nat] /\ \A x \in DOMAIN balances : balances[x] \in Nat
  BY DEF Balances
<1>3. PICK F : /\ F[0] = [balances |-> balances, orders |-> <<>>]
               /\ \A k \in 1 .. Len(orders) : F[k] = filter_order(F[k - 1], orders[k])
               /\ filter_orders(balances, orders) = F[Len(orders)].orders
  BY FilterFold, Zenon
<1>4. Within(F[0], balances)
  <2>1. none \in Seq(KnownOrder) /\ DOMAIN none = {} /\ \A x : Offered(none, x) = 0
    BY OfferedNone
  <2>2. F[0].balances = balances /\ F[0].orders = none
    BY <1>3
  <2> HIDE DEF none
  <2> QED
    BY <1>2, <2>1, <2>2 DEF Within
<1> DEFINE Good == {k \in Nat : Within(F[k], balances)}
<1>5. 0 \in Good
  BY <1>4
<1>6. ASSUME NEW k \in 1 .. n, k - 1 \in Good PROVE k \in Good
  BY <1>1, <1>2, <1>3, <1>6, FilterStep
<1>7. Inductive(Good, n)
  BY <1>5, <1>6, Zenon DEF Inductive
<1> HIDE DEF Good, n
<1>8. n \in Good
  BY <1>1, <1>7, StepByStep
<1>9. Within(F[n], balances) /\ filter_orders(balances, orders) = F[n].orders
  BY <1>3, <1>8 DEF Good, n
<1>10. ASSUME NEW x \in DOMAIN balances PROVE Offered(F[n].orders, x) <= balances[x]
  <2>1. Offered(F[n].orders, x) \in Nat
    BY <1>9, OfferedType DEF Within
  <2> QED
    BY <1>2, <1>9, <2>1 DEF Within
<1> QED
  BY <1>9, <1>10 DEF Within

-----------------------------------------------------------------------------
(* The tasks.                                                              *)

\* A task that was freed offers nothing.
LEMMA FreedCovered ==
  ASSUME NEW x, x.balances = <<>>, x.orders = <<>>
  PROVE  Covered(x) /\ Tradable(x)
<1> DEFINE none == <<>>
<1>1. x.balances = none /\ x.orders = none /\ DOMAIN none = {}
  OBVIOUS
<1> HIDE DEF none
<1> QED
  BY <1>1 DEF Covered, Tradable

\* A task that loses its orders offers nothing.
LEMMA ReleaseCovered ==
  ASSUME NEW ts \in Seq(Task), NEW h, NEW l,
         \A t \in 1 .. Len(ts) : Covered(ts[t]) /\ Tradable(ts[t])
  PROVE  \A t \in 1 .. Len(ts) : Covered(Release(ts, h, l)[t]) /\ Tradable(Release(ts, h, l)[t])
<1> SUFFICES ASSUME NEW t \in 1 .. Len(ts)
             PROVE  Covered(Release(ts, h, l)[t]) /\ Tradable(Release(ts, h, l)[t])
  OBVIOUS
<1> DEFINE x == Release(ts, h, l)[t]
<1>1. \/ x = ts[t]
      \/ x.balances = <<>> /\ x.orders = <<>>
  BY ReleaseTasks
<1> HIDE DEF x
<1>2. Covered(x) /\ Tradable(x)
  BY <1>1, FreedCovered
<1> QED
  BY <1>2 DEF x

\* The task's own result is covered by the balances it was told.
LEMMA RunTaskCovered ==
  ASSUME TypeInv, LockInv, TasksInv, NEW t \in DOMAIN tasks, RunTask(t)
  PROVE  TypeInv' /\ LockInv' /\ TasksInv'
<1>1. Len(tasks) \in Nat /\ DOMAIN tasks = 1 .. Len(tasks) /\ t \in 1 .. Len(tasks) /\ tasks[t] \in Task
  BY DEF TypeInv
<1> DEFINE a == Auction[tasks[t].auction]
           listed(missing) == a.orders \o cow_amm_orders(a, missing)
           orders(missing) == sort(listed(missing), a.prices)
<1>2. a.orders \in Seq(KnownOrder) /\ a.prices \in [Token -> Nat]
  <2>1. tasks[t].auction \in DOMAIN Auction
    BY <1>1 DEF Task, Id
  <2> DEFINE T == [orders : Seq(Order), owners : SUBSET Account, prices : [Token -> Nat]]
  <2>2. Auction \in Seq(T)
    BY AuctionAssumption
  <2> HIDE DEF T
  <2>3. a \in T
    BY <2>1, <2>2
  <2> DEFINE b == tasks[t].auction
  <2>4. a = Auction[b] /\ b \in Id
    BY <2>1 DEF Id
  <2> HIDE DEF a, b
  <2>5. a.orders \in Seq(Order) /\ a.prices \in [Token -> Nat]
    BY <2>3 DEF T
  <2>6. \A i \in 1 .. Len(a.orders) : a.orders[i] \in KnownOrder
    BY <2>4, <2>5 DEF KnownOrder, Range
  <2> QED
    BY <2>5, <2>6
<1>3. PICK missing \in SUBSET EligibleAmms(a) :
        \E failed \in SUBSET Groups(orders(missing)), holdings \in Holdings :
          LET balances == fetch_balances(orders(missing), holdings, failed)
          IN  tasks' = Release([tasks EXCEPT ![t].ended = TRUE, ![t].balances = balances,
                                             ![t].orders = filter_orders(balances, orders(missing))],
                               handler, lock)
  BY Zenon DEF RunTask
<1>4. orders(missing) \in Seq(KnownOrder)
  <2> HIDE DEF a
  <2>1. cow_amm_orders(a, missing) \in Seq(KnownOrder)
    BY AmmsType
  <2>2. listed(missing) \in Seq(KnownOrder)
    BY <1>2, <2>1
  <2> HIDE DEF listed
  <2> QED
    BY <1>2, <2>2, SortType
<1> HIDE DEF orders
<1>5. PICK failed \in SUBSET Groups(orders(missing)), holdings \in Holdings :
        LET balances == fetch_balances(orders(missing), holdings, failed)
        IN  tasks' = Release([tasks EXCEPT ![t].ended = TRUE, ![t].balances = balances,
                                           ![t].orders = filter_orders(balances, orders(missing))],
                             handler, lock)
  BY <1>3, Zenon
<1> DEFINE balances == fetch_balances(orders(missing), holdings, failed)
           kept == filter_orders(balances, orders(missing))
           done == [tasks[t] EXCEPT !.ended = TRUE, !.balances = balances, !.orders = kept]
           ts == [tasks EXCEPT ![t] = done]
<1>6. tasks' = Release(ts, handler, lock)
  <2>1. ts = [tasks EXCEPT ![t].ended = TRUE, ![t].balances = balances, ![t].orders = kept]
    <3> HIDE DEF balances, kept
    <3> QED
      BY <1>1
  <2> QED
    BY <1>5, <2>1
<1>7. balances \in Balances
  BY <1>4, FetchType
<1> HIDE DEF balances
<1>8. /\ kept \in Seq(KnownOrder)
      /\ \A i \in DOMAIN kept : ~ is_zero(available(kept[i]))
      /\ \A x \in DOMAIN balances : Offered(kept, x) <= balances[x]
  BY <1>4, <1>7, FilterWithin
<1> HIDE DEF kept
<1>9. /\ done \in Task /\ done.auction = tasks[t].auction
      /\ done.balances = balances /\ done.orders = kept
  BY <1>1, <1>7, <1>8 DEF Task
<1> HIDE DEF done
<1>10. Covered(done) /\ Tradable(done)
  BY <1>8, <1>9 DEF Covered, Tradable
<1>11. /\ ts \in Seq(Task) /\ Len(ts) = Len(tasks)
       /\ \A i \in 1 .. Len(tasks) : IF i = t THEN ts[i] = done ELSE ts[i] = tasks[i]
  BY <1>1, <1>9 DEF TypeInv
<1> HIDE DEF ts
<1>12. \A i \in 1 .. Len(ts) : ts[i].auction = tasks[i].auction /\ Covered(ts[i]) /\ Tradable(ts[i])
  BY <1>9, <1>10, <1>11 DEF TasksInv
<1>13. /\ tasks' \in Seq(Task) /\ Len(tasks') = Len(tasks)
       /\ \A i \in 1 .. Len(tasks) : tasks'[i].auction = tasks[i].auction
  BY <1>6, <1>11, <1>12, ReleaseTasks
<1>14. \A i \in 1 .. Len(ts) : Covered(tasks'[i]) /\ Tradable(tasks'[i])
  BY <1>6, <1>11, <1>12, ReleaseCovered
<1>15. UNCHANGED <<lock, handler>> /\ published' \in Nat
  BY DEF RunTask, TypeInv
<1>16. TypeInv' /\ LockInv'
  BY <1>13, <1>15, OtherLock
<1> QED
  BY <1>11, <1>13, <1>14, <1>16 DEF TasksInv

\* The other steps only start tasks without orders and free orders.
LEMMA PrioritizeCovered ==
  ASSUME TypeInv, TasksInv, NEW s \in Solver, NEW a \in Id, prioritize_orders(s, a)
  PROVE  TasksInv'
<1>1. CASE UNCHANGED tasks
  BY <1>1 DEF TasksInv
<1>2. CASE tasks' = Release(Append(tasks, NewTask(a)), handler, lock')
  <2> DEFINE ts == Append(tasks, NewTask(a))
  <2>1. NewTask(a) \in Task /\ NewTask(a).balances = <<>> /\ NewTask(a).orders = <<>>
    <3>1. <<>> \in Seq(KnownOrder)
      OBVIOUS
    <3> QED
      BY <3>1, NoBalances DEF NewTask, Task
  <2>2. Covered(NewTask(a)) /\ Tradable(NewTask(a))
    BY <2>1, FreedCovered
  <2>3. /\ ts \in Seq(Task) /\ Len(ts) = Len(tasks) + 1
        /\ \A t \in 1 .. Len(ts) : ts[t] = NewTask(a) \/ (t \in 1 .. Len(tasks) /\ ts[t] = tasks[t])
    BY <2>1 DEF TypeInv
  <2>4. tasks' = Release(ts, handler, lock')
    BY <1>2
  <2> HIDE DEF ts
  <2>5. \A t \in 1 .. Len(ts) : Covered(ts[t]) /\ Tradable(ts[t])
    BY <2>2, <2>3 DEF TasksInv
  <2>6. \A t \in 1 .. Len(ts) : Covered(tasks'[t]) /\ Tradable(tasks'[t])
    BY <2>3, <2>4, <2>5, ReleaseCovered
  <2>7. Len(tasks') = Len(ts)
    BY <2>3, <2>4, ReleaseTasks
  <2> QED
    BY <2>6, <2>7 DEF TasksInv
<1> QED
  BY <1>1, <1>2 DEF prioritize_orders

\* The end of a request or of its wait leaves the tasks covered.
LEMMA EndCovered ==
  ASSUME TypeInv, TasksInv, NEW h, NEW l, tasks' = tasks \/ tasks' = Release(tasks, h, l)
  PROVE  TasksInv'
<1>1. CASE tasks' = tasks
  BY <1>1 DEF TasksInv
<1>2. CASE tasks' = Release(tasks, h, l)
  <2>1. Len(tasks') = Len(tasks)
    BY <1>2, ReleaseTasks DEF TypeInv
  <2>2. \A t \in 1 .. Len(tasks) : Covered(tasks'[t]) /\ Tradable(tasks'[t])
    BY <1>2, ReleaseCovered DEF TypeInv, TasksInv
  <2> QED
    BY <2>1, <2>2 DEF TasksInv
<1> QED
  BY <1>1, <1>2

\* The property is a part of the invariant.
LEMMA TasksCovered == TypeInv /\ TasksInv => WithinBalance
BY DEF TypeInv, TasksInv, Covered, WithinBalance

-----------------------------------------------------------------------------
(* Amounts. The set of results of a computation has at most one member.    *)

Single(S) == \A x, y \in S : x = y

\* At most one amount.
Amount(S) == S \in SUBSET Nat /\ Single(S)

Amounts == [sell : Nat, buy : Nat]

\* A fulfillment that the order allows.
Valid(f, o) ==
  /\ f.order = o /\ f.executed \in Nat
  /\ f.fee \in [dynamic : BOOLEAN, amount : Nat]
  /\ f.fee.dynamic = solver_determines_fee(o)
  /\ valid_execution(o, f.executed, f.fee)

\* A checked division gives one amount or none.
LEMMA DivAmount ==
  ASSUME NEW a \in Nat, NEW b \in Nat
  PROVE  Amount(CheckedDiv(a, b)) /\ Amount(checked_ceil_div(a, b))
<1>1. CASE b = 0
  BY <1>1 DEF CheckedDiv, checked_ceil_div, Amount, Single
<1>2. CASE b # 0
  <2>1. a + b - 1 \in Nat /\ b \in Nat \ {0}
    BY <1>2
  <2>2. a \div b \in Nat /\ (a + b - 1) \div b \in Nat
    BY <2>1, Quotient
  <2> QED
    BY <1>2, <2>2 DEF CheckedDiv, checked_ceil_div, Amount, Single
<1> QED
  BY <1>1, <1>2

\* A checked subtraction gives one amount or none.
LEMMA SubAmount ==
  ASSUME NEW a \in Nat, NEW b \in Nat
  PROVE  Amount(checked_sub(a, b))
BY DEF checked_sub, Amount, Single

\* A part of an amount is an amount.
LEMMA FactorType ==
  ASSUME NEW a \in Nat, NEW x \in Nat
  PROVE  apply_factor(a, x) \in Nat
<1>1. a * x \in Nat
  OBVIOUS
<1> QED
  BY <1>1, ScaleAssumption, Quotient DEF apply_factor

\* What a fulfillment sells and buys.
LEMMA TradeAmounts ==
  ASSUME NEW o \in Order, NEW f, Valid(f, o), NEW prices \in Amounts
  PROVE  Amount(sell_amount(f, prices)) /\ Amount(buy_amount(f, prices))
<1>1. f.executed \in Nat /\ f.fee.amount \in Nat /\ prices.sell \in Nat /\ prices.buy \in Nat
  BY DEF Valid, Amounts
<1>2. f.executed * prices.buy \in Nat /\ f.executed * prices.sell \in Nat
  BY <1>1
<1>3. /\ Amount(CheckedDiv(f.executed * prices.buy, prices.sell))
      /\ Amount(checked_ceil_div(f.executed * prices.sell, prices.buy))
  BY <1>1, <1>2, DivAmount
<1> QED
  BY <1>1, <1>3 DEF sell_amount, buy_amount, Amount, Single

\* Its surplus over a reference price.
LEMMA SurplusAmount ==
  ASSUME NEW o \in Order, NEW f, Valid(f, o), NEW prices \in Amounts, NEW limits \in Amounts
  PROVE  Amount(surplus_over_reference_price(f, limits, prices))
<1>1. f.executed \in Nat /\ f.fee.amount \in Nat /\ limits.sell \in Nat /\ limits.buy \in Nat
  BY DEF Valid, Amounts
<1>2. limits.sell * f.executed \in Nat /\ limits.buy * (f.executed + f.fee.amount) \in Nat
  BY <1>1
<1> DEFINE s == CheckedDiv(limits.sell * f.executed, limits.buy)
           b == checked_ceil_div(limits.buy * (f.executed + f.fee.amount), limits.sell)
<1>3. /\ Amount(s) /\ Amount(b)
      /\ Amount(sell_amount(f, prices)) /\ Amount(buy_amount(f, prices))
  BY <1>1, <1>2, DivAmount, TradeAmounts
<1>4. surplus_over_reference_price(f, limits, prices)
        = IF ~ f.fee.dynamic THEN {}
          ELSE IF f.order.side = "Buy"
          THEN {Larger(0, x - y) : x \in s, y \in sell_amount(f, prices)}
          ELSE {Larger(0, y - x) : x \in b, y \in buy_amount(f, prices)}
  BY DEF surplus_over_reference_price
<1> HIDE DEF s, b
<1>5. \A x, y \in Nat : Larger(0, x - y) \in Nat
  BY DEF Larger
<1> QED
  BY <1>3, <1>4, <1>5 DEF Amount, Single

\* The reference prices of a policy: at most one pair of amounts.
LEMMA LimitsType ==
  ASSUME NEW o \in Order, NEW policy \in Policy
  PROVE  PriceLimits(o, policy) \in SUBSET Amounts /\ Single(PriceLimits(o, policy))
<1> DEFINE q == policy.quote
<1>1. /\ q.sell \in Nat /\ q.buy \in Nat /\ q.fee \in Nat /\ o.sell \in Nat /\ o.buy \in Nat
  BY DEF Policy, Order
<1> HIDE DEF q
<1> DEFINE fees == CheckedDiv(q.fee * q.buy, q.sell)
           buys == UNION {checked_sub(q.buy, fee) : fee \in fees}
           more == CheckedDiv((q.sell + q.fee) * o.buy, q.buy)
<1>2. Amount(fees)
  <2>1. q.fee * q.buy \in Nat
    BY <1>1
  <2> QED
    BY <1>1, <2>1, DivAmount
<1> HIDE DEF fees
<1>3. Amount(buys)
  BY <1>1, <1>2 DEF Amount, Single, checked_sub
<1> HIDE DEF buys
<1>4. ASSUME NEW b \in buys PROVE Amount(CheckedDiv(b * o.sell, q.sell))
  <2>1. b * o.sell \in Nat
    BY <1>1, <1>3 DEF Amount
  <2> QED
    BY <1>1, <2>1, DivAmount
<1>5. Amount(more)
  <2>1. (q.sell + q.fee) * o.buy \in Nat
    BY <1>1
  <2> QED
    BY <1>1, <2>1, DivAmount
<1> HIDE DEF more
<1>6. PriceLimits(o, policy)
        = IF policy.kind = "Surplus" THEN {[sell |-> o.sell, buy |-> o.buy]}
          ELSE IF o.side = "Sell"
          THEN UNION {{[sell |-> o.sell, buy |-> Larger(o.buy, x)] : x \in CheckedDiv(b * o.sell, q.sell)} :
                      b \in buys}
          ELSE {[sell |-> Smaller(o.sell, x), buy |-> o.buy] : x \in more}
  BY Zenon DEF PriceLimits, adjust_quote_to_order_limits, q, buys, more, fees
<1>7. \A x \in Nat : Larger(o.buy, x) \in Nat /\ Smaller(o.sell, x) \in Nat
  BY <1>1 DEF Larger, Smaller
<1>8. [sell |-> o.sell, buy |-> o.buy] \in Amounts
  BY <1>1 DEF Amounts
<1> DEFINE sales == UNION {{[sell |-> o.sell, buy |-> Larger(o.buy, x)] : x \in CheckedDiv(b * o.sell, q.sell)} :
                           b \in buys}
           buyings == {[sell |-> Smaller(o.sell, x), buy |-> o.buy] : x \in more}
<1>9. sales \in SUBSET Amounts /\ Single(sales)
  <2>1. ASSUME NEW z \in sales
        PROVE  \E b \in buys, x \in Nat : /\ x \in CheckedDiv(b * o.sell, q.sell)
                                          /\ z = [sell |-> o.sell, buy |-> Larger(o.buy, x)]
    BY <1>4 DEF Amount
  <2> HIDE DEF sales
  <2>2. \A z \in sales : z \in Amounts
    BY <1>1, <1>7, <2>1 DEF Amounts
  <2>3. ASSUME NEW z \in sales, NEW y \in sales PROVE z = y
    BY <1>3, <1>4, <2>1 DEF Amount, Single
  <2> QED
    BY <2>2, <2>3 DEF Single
<1>10. buyings \in SUBSET Amounts /\ Single(buyings)
  BY <1>1, <1>5, <1>7 DEF Amount, Single, Amounts
<1>11. Single({[sell |-> o.sell, buy |-> o.buy]})
  BY DEF Single
<1> HIDE DEF sales, buyings
<1> QED
  BY <1>6, <1>8, <1>9, <1>10, <1>11 DEF sales, buyings

-----------------------------------------------------------------------------
\* Factors are below one.
LEMMA PolicyType ==
  ASSUME NEW policy \in Policy
  PROVE  policy.factor \in Nat /\ policy.max_volume_factor \in Nat
         /\ policy.factor < SCALE /\ policy.max_volume_factor < SCALE
BY ScaleAssumption DEF Policy

\* The fee of a policy, in the surplus token.
LEMMA FeeAmount ==
  ASSUME NEW o \in Order, NEW f, Valid(f, o), NEW prices \in Amounts, NEW policy \in Policy
  PROVE  Amount(protocol_fee(f, prices, policy))
<1>1. policy.factor \in Nat /\ policy.max_volume_factor \in Nat /\ f.order = o
  BY PolicyType DEF Valid
<1>2. ASSUME NEW x \in Nat PROVE Amount(fee_from_volume(f, prices, x))
  <2>1. Amount(sell_amount(f, prices)) /\ Amount(buy_amount(f, prices))
    BY TradeAmounts
  <2>2. \A v \in Nat : apply_factor(v, x) \in Nat
    BY <1>2, FactorType
  <2> QED
    BY <2>1, <2>2 DEF fee_from_volume, Amount, Single
<1>3. ASSUME NEW limits \in Amounts
      PROVE  Amount(calculate_fee(f, limits, prices, policy))
  <2>1. Amount(surplus_over_reference_price(f, limits, prices))
    BY SurplusAmount
  <2>2. \A v \in Nat : apply_factor(v, policy.factor) \in Nat
    BY <1>1, FactorType
  <2>3. Amount(fee_from_surplus(f, limits, prices, policy.factor))
    BY <2>1, <2>2 DEF fee_from_surplus, Amount, Single
  <2>4. Amount(fee_from_volume(f, prices, policy.max_volume_factor))
    BY <1>1, <1>2
  <2>5. \A x, y \in Nat : Smaller(x, y) \in Nat
    BY DEF Smaller
  <2> DEFINE S == fee_from_surplus(f, limits, prices, policy.factor)
             V == fee_from_volume(f, prices, policy.max_volume_factor)
             C == calculate_fee(f, limits, prices, policy)
  <2>6. \A x \in C : \E s \in S, v \in V : x = Smaller(s, v)
    BY DEF calculate_fee
  <2> HIDE DEF S, V, C
  <2>7. Amount(S) /\ Amount(V)
    BY <2>3, <2>4 DEF S, V
  <2>8. ASSUME NEW x \in C PROVE x \in Nat
    <3>1. PICK s \in S, v \in V : x = Smaller(s, v)
      BY <2>6
    <3>2. s \in Nat /\ v \in Nat
      BY <2>7 DEF Amount
    <3> QED
      BY <2>5, <3>1, <3>2
  <2>9. ASSUME NEW x \in C, NEW y \in C PROVE x = y
    <3>1. PICK s \in S, v \in V : x = Smaller(s, v)
      BY <2>6
    <3>2. PICK t \in S, w \in V : y = Smaller(t, w)
      BY <2>6
    <3>3. s = t /\ v = w
      BY <2>7 DEF Amount, Single
    <3> QED
      BY <3>1, <3>2, <3>3
  <2>10. Amount(C)
    BY <2>8, <2>9 DEF Amount, Single
  <2> QED
    BY <2>10 DEF C
<1>4. PriceLimits(o, policy) \in SUBSET Amounts /\ Single(PriceLimits(o, policy))
  BY LimitsType
<1> DEFINE u == UNION {calculate_fee(f, limits, prices, policy) : limits \in PriceLimits(o, policy)}
<1>5. Amount(u)
  <2>1. \A x \in u : \E limits \in PriceLimits(o, policy) : x \in calculate_fee(f, limits, prices, policy)
    OBVIOUS
  <2> HIDE DEF u
  <2>2. u \in SUBSET Nat
    BY <1>3, <1>4, <2>1 DEF Amount
  <2>3. Single(u)
    BY <1>3, <1>4, <2>1 DEF Amount, Single
  <2> QED
    BY <2>2, <2>3 DEF Amount
<1> QED
  BY <1>1, <1>2, <1>5, Zenon DEF protocol_fee

\* The same fee, in the sell token.
LEMMA FeeInSellToken ==
  ASSUME NEW o \in Order, NEW f, Valid(f, o), NEW prices \in Amounts, NEW policy \in Policy
  PROVE  Amount(protocol_fee_in_sell_token(f, prices, policy))
<1> DEFINE fee == protocol_fee(f, prices, policy)
           u == UNION {CheckedDiv(x * prices.buy, prices.sell) : x \in fee}
<1>1. Amount(fee)
  BY FeeAmount
<1>2. protocol_fee_in_sell_token(f, prices, policy) = IF f.order.side = "Buy" THEN fee ELSE u
  BY Zenon DEF protocol_fee_in_sell_token
<1> HIDE DEF fee
<1>3. ASSUME NEW x \in fee PROVE Amount(CheckedDiv(x * prices.buy, prices.sell))
  <2>1. x * prices.buy \in Nat /\ prices.sell \in Nat
    BY <1>1 DEF Amount, Amounts
  <2> QED
    BY <2>1, DivAmount
<1>4. Amount(u)
  <2>1. \A z \in u : \E x \in fee : z \in CheckedDiv(x * prices.buy, prices.sell)
    OBVIOUS
  <2> HIDE DEF u
  <2> QED
    BY <1>1, <1>3, <2>1 DEF Amount, Single
<1> QED
  BY <1>1, <1>2, <1>4

\* Fulfillment::new returns what the order allows.
LEMMA FulfillValid ==
  ASSUME NEW o, NEW executed \in Nat, NEW fee \in [dynamic : BOOLEAN, amount : Nat],
         NEW f \in Fulfill(o, executed, fee)
  PROVE  Valid(f, o) /\ f = [order |-> o, executed |-> executed, fee |-> fee]
BY DEF Fulfill, Valid

\* A policy leaves at most one fulfillment, a valid one.
LEMMA FeeValid ==
  ASSUME NEW o \in Order, NEW f, Valid(f, o), NEW prices \in Amounts, NEW policy \in Policy
  PROVE  /\ \A g \in with_protocol_fee(f, prices, policy) : Valid(g, o)
         /\ Single(with_protocol_fee(f, prices, policy))
<1> DEFINE X == protocol_fee_in_sell_token(f, prices, policy)
           after(x) == IF ~ f.fee.dynamic
                       THEN IF x = 0 THEN Fulfill(f.order, f.executed, Static) ELSE {}
                       ELSE IF f.order.side = "Buy"
                       THEN Fulfill(f.order, f.executed, Dynamic(f.fee.amount + x))
                       ELSE UNION {Fulfill(f.order, executed, Dynamic(f.fee.amount + x)) :
                                     executed \in checked_sub(f.executed, x)}
<1>1. Amount(X)
  BY FeeInSellToken
<1>2. with_protocol_fee(f, prices, policy) = UNION {after(x) : x \in X}
  BY Zenon DEF with_protocol_fee
<1> HIDE DEF X
<1>3. f.order = o /\ f.executed \in Nat /\ f.fee.amount \in Nat
  BY DEF Valid
<1>4. ASSUME NEW x \in Nat, NEW g \in after(x) PROVE Valid(g, o)
  <2>1. /\ Static \in [dynamic : BOOLEAN, amount : Nat]
        /\ Dynamic(f.fee.amount + x) \in [dynamic : BOOLEAN, amount : Nat]
    BY <1>3 DEF Static, Dynamic
  <2>2. CASE \E executed \in Nat : \/ g \in Fulfill(o, executed, Static)
                                   \/ g \in Fulfill(o, executed, Dynamic(f.fee.amount + x))
    BY <2>1, <2>2, FulfillValid
  <2>3. \A executed \in checked_sub(f.executed, x) : executed \in Nat
    BY <1>3, SubAmount DEF Amount
  <2> QED
    BY <1>3, <1>4, <2>2, <2>3
<1>5. ASSUME NEW x \in Nat, NEW g \in after(x), NEW h \in after(x) PROVE g = h
  <2>1. Amount(checked_sub(f.executed, x))
    BY <1>3, SubAmount
  <2>2. ASSUME NEW executed, NEW fee PROVE Single(Fulfill(o, executed, fee))
    BY DEF Fulfill, Single
  <2> QED
    BY <1>3, <1>5, <2>1, <2>2 DEF Amount, Single
<1>6. \A g \in with_protocol_fee(f, prices, policy) : \E x \in X : g \in after(x)
  BY <1>2
<1> HIDE DEF after
<1> QED
  BY <1>1, <1>4, <1>5, <1>6 DEF Amount, Single

\* All policies together, if one can say of a single one what it keeps.
LEMMA FeesValid ==
  ASSUME NEW o \in Order, NEW f, Valid(f, o), NEW prices \in Amounts
  PROVE  /\ \A g \in WithFees(f, prices) : Valid(g, o)
         /\ Single(WithFees(f, prices))
<1> DEFINE n == Len(f.order.protocol_fees)
<1>1. f.order = o /\ f.order.protocol_fees \in Seq(Policy) /\ n \in Nat
      /\ \A k \in 1 .. n : f.order.protocol_fees[k] \in Policy
  BY DEF Valid, Order
<1>2. PICK F : /\ F[0] = {f}
               /\ \A k \in 1 .. Len(f.order.protocol_fees) :
                    F[k] = NextPolicy(F[k - 1], prices, f.order.protocol_fees[k])
               /\ with_protocol_fees(f, prices) = F[Len(f.order.protocol_fees)]
  BY <1>1, FeesFold, Zenon
<1> DEFINE Good == {k \in Nat : (\A g \in F[k] : Valid(g, o)) /\ Single(F[k])}
<1>3. 0 \in Good
  BY <1>2 DEF Single
<1>4. ASSUME NEW k \in 1 .. n, k - 1 \in Good PROVE k \in Good
  <2> DEFINE policy == f.order.protocol_fees[k]
             S == F[k - 1]
  <2>1. policy \in Policy /\ F[k] = NextPolicy(S, prices, policy)
    BY <1>1, <1>2
  <2>2. (\A g \in S : Valid(g, o)) /\ Single(S)
    BY <1>4
  <2> HIDE DEF policy, S
  <2>3. \A h \in F[k] : \E g \in S : h \in with_protocol_fee(g, prices, policy)
    BY <2>1 DEF NextPolicy
  <2>4. \A g \in S : /\ \A h \in with_protocol_fee(g, prices, policy) : Valid(h, o)
                     /\ Single(with_protocol_fee(g, prices, policy))
    BY <2>1, <2>2, FeeValid
  <2>5. (\A h \in F[k] : Valid(h, o)) /\ Single(F[k])
    BY <2>2, <2>3, <2>4 DEF Single
  <2> QED
    BY <1>1, <2>5
<1>5. Inductive(Good, n)
  BY <1>3, <1>4, Zenon DEF Inductive
<1> HIDE DEF Good, n
<1>6. n \in Good
  BY <1>1, <1>5, StepByStep
<1>7. (\A g \in with_protocol_fees(f, prices) : Valid(g, o)) /\ Single(with_protocol_fees(f, prices))
  BY <1>2, <1>6 DEF Good, n
<1>8. (\A g \in {f} : Valid(g, o)) /\ Single({f})
  BY DEF Single
<1> QED
  BY <1>7, <1>8 DEF WithFees

\* So does a solver's proposal.
LEMMA ProposalValid ==
  ASSUME NEW o \in Order, NEW f \in Proposals(o)
  PROVE  Valid(f, o)
<1>1. target(o) \in Nat
  BY AvailableType
<1> DEFINE fees == IF solver_determines_fee(o) THEN {Dynamic(x) : x \in ProposedFee} ELSE {Static}
<1>2. PICK executed \in 0 .. target(o), fee \in fees : f \in Fulfill(o, executed, fee)
  BY DEF Proposals
<1>3. fee \in [dynamic : BOOLEAN, amount : Nat]
  <2>1. \A x \in ProposedFee : Dynamic(x) \in [dynamic : BOOLEAN, amount : Nat]
    BY ProposalAssumption DEF Dynamic
  <2>2. Static \in [dynamic : BOOLEAN, amount : Nat]
    BY DEF Static
  <2>3. fee = Static \/ \E x \in ProposedFee : fee = Dynamic(x)
    OBVIOUS
  <2> QED
    BY <2>1, <2>2, <2>3
<1> HIDE DEF fees
<1> QED
  BY <1>1, <1>2, <1>3, FulfillValid

-----------------------------------------------------------------------------
(* Limit prices.                                                           *)

Ceil(a, b) == (a + b - 1) \div b

\* What a quotient rounded up is.
LEMMA CeilFacts ==
  ASSUME NEW a \in Nat, NEW b \in Nat \ {0}
  PROVE  Ceil(a, b) \in Nat /\ a <= b * Ceil(a, b) /\ b * Ceil(a, b) < a + b
<1> DEFINE c == Ceil(a, b)
           bc == b * c
<1>1. a + b - 1 \in Nat
  OBVIOUS
<1>2. c \in Nat /\ bc <= a + b - 1 /\ a + b - 1 < bc + b
  BY <1>1, Quotient DEF Ceil
<1>3. bc \in Nat
  BY <1>2
<1> HIDE DEF c, bc
<1>4. a <= bc /\ bc < a + b
  BY <1>1, <1>2, <1>3
<1> QED
  BY <1>2, <1>4 DEF c, bc

\* Rounding up an exact quotient changes nothing.
LEMMA ExactCeil ==
  ASSUME NEW x \in Nat, NEW z \in Nat \ {0}
  PROVE  Ceil(z * x, z) = x
<1> DEFINE c == Ceil(z * x, z)
<1>1. z * x \in Nat
  OBVIOUS
<1>2. c \in Nat /\ z * x <= z * c /\ z * c < z * x + z
  BY <1>1, CeilFacts
<1> HIDE DEF c
<1>3. z * x = x * z /\ z * c = c * z /\ z * c \in Nat /\ (x + 1) * z = x * z + z /\ x + 1 \in Nat
  BY <1>2
<1>4. ~ (c < x)
  BY <1>2, <1>3, ProductStrict
<1>5. c < x + 1
  BY <1>2, <1>3, ProductStrict
<1> QED
  BY <1>2, <1>4, <1>5 DEF c

\* Rounding down keeps the order of amounts.
LEMMA QuotientMonotonic ==
  ASSUME NEW x \in Nat, NEW y \in Nat, NEW z \in Nat \ {0}, x <= y
  PROVE  x \div z \in Nat /\ y \div z \in Nat /\ x \div z <= y \div z
<1> DEFINE a == x \div z
           b == y \div z
<1>1. a \in Nat /\ b \in Nat /\ z * a <= x /\ y < z * b + z
  BY Quotient
<1> HIDE DEF a, b
<1>2. z * a = a * z /\ z * b + z = (b + 1) * z /\ a * z \in Nat /\ (b + 1) * z \in Nat /\ b + 1 \in Nat
  BY <1>1
<1>3. a * z < (b + 1) * z
  BY <1>1, <1>2
<1>4. a < b + 1
  BY <1>1, <1>2, <1>3, ProductStrict
<1> QED
  BY <1>1, <1>4 DEF a, b

\* So does rounding up.
LEMMA CeilMonotonic ==
  ASSUME NEW x \in Nat, NEW y \in Nat, NEW z \in Nat \ {0}, x <= y
  PROVE  Ceil(x, z) \in Nat /\ Ceil(y, z) \in Nat /\ Ceil(x, z) <= Ceil(y, z)
<1>1. x + z - 1 \in Nat /\ y + z - 1 \in Nat /\ x + z - 1 <= y + z - 1
  OBVIOUS
<1> QED
  BY <1>1, QuotientMonotonic DEF Ceil

\* The trade keeps its limit price.
Keeps(f, prices) == \E t \in SettledTrade(f, prices) : surplus_over_limit_price(t) # {}

\* In numbers, for sell orders: what is bought is not less than the limit.
LEMMA KeepsSell ==
  ASSUME NEW o \in Order, NEW f, Valid(f, o), NEW prices \in Amounts, o.side = "Sell"
  PROVE  LET E == f.executed + f.fee.amount
         IN  Keeps(f, prices) <=>
               /\ E # 0 /\ o.sell # 0 /\ prices.buy # 0
               /\ Ceil(E * o.buy, o.sell) <= Ceil(f.executed * prices.sell, prices.buy)
<1> DEFINE E == f.executed + f.fee.amount
           B == Ceil(f.executed * prices.sell, prices.buy)
           L == Ceil(E * o.buy, o.sell)
           t == [sell |-> o.sell, buy |-> o.buy, side |-> "Sell", executed |-> E,
                 custom_price |-> [sell |-> B, buy |-> E], policies |-> o.protocol_fees]
<1>1. /\ f.order = o /\ f.executed \in Nat /\ f.fee.amount \in Nat /\ prices.sell \in Nat
      /\ prices.buy \in Nat /\ o.sell \in Nat /\ o.buy \in Nat /\ E \in Nat
  BY DEF Valid, Amounts, Order
<1>2. CASE prices.buy = 0
  <2>1. buy_amount(f, prices) = {}
    BY <1>1, <1>2 DEF buy_amount, checked_ceil_div
  <2>2. SettledTrade(f, prices) = {}
    BY <2>1 DEF SettledTrade, custom_prices
  <2> QED
    BY <1>2, <2>2 DEF Keeps
<1>3. CASE prices.buy # 0
  <2>1. buy_amount(f, prices) = {B} /\ sell_amount(f, prices) = {E}
    BY <1>1, <1>3 DEF buy_amount, checked_ceil_div, sell_amount, Ceil
  <2>2. B \in Nat
    <3>1. f.executed * prices.sell \in Nat /\ prices.buy \in Nat \ {0}
      BY <1>1, <1>3
    <3> QED
      BY <3>1, CeilFacts
  <2> HIDE DEF B, E
  <2>3. custom_prices(f, prices) = {[sell |-> B, buy |-> E]}
    BY <2>1 DEF custom_prices
  <2>4. SettledTrade(f, prices) = {t}
    BY <1>1, <2>3 DEF SettledTrade, E
  <2>5. Keeps(f, prices) <=> surplus_over_limit_price(t) # {}
    BY <2>4 DEF Keeps
  <2>6. /\ t.sell = o.sell /\ t.buy = o.buy /\ t.side = "Sell" /\ t.executed = E
        /\ t.custom_price.sell = B /\ t.custom_price.buy = E
    OBVIOUS
  <2> HIDE DEF t
  <2> DEFINE lt == LimitAndTraded(t, [sell |-> t.sell, buy |-> t.buy])
  <2>7. lt = {<<bought, limit_buy>> : limit_buy \in checked_ceil_div(E * o.buy, o.sell),
                                      bought \in checked_ceil_div(E * B, E)}
    BY <2>6 DEF LimitAndTraded
  <2>8. surplus_over_limit_price(t) = UNION {checked_sub(x[1], x[2]) : x \in lt}
    BY Zenon DEF surplus_over_limit_price, surplus_over
  <2> HIDE DEF lt
  <2>9. CASE E = 0 \/ o.sell = 0
    <3>1. checked_ceil_div(E * o.buy, o.sell) = {} \/ checked_ceil_div(E * B, E) = {}
      BY <2>9 DEF checked_ceil_div
    <3>2. lt = {}
      BY <2>7, <3>1
    <3> QED
      BY <2>5, <2>8, <2>9, <3>2 DEF E
  <2>10. CASE E # 0 /\ o.sell # 0
    <3>1. checked_ceil_div(E * o.buy, o.sell) = {L} /\ checked_ceil_div(E * B, E) = {Ceil(E * B, E)}
      BY <2>10 DEF checked_ceil_div, Ceil
    <3>2. Ceil(E * B, E) = B
      BY <1>1, <2>2, <2>10, ExactCeil
    <3>3. L \in Nat
      <4>1. E * o.buy \in Nat /\ o.sell \in Nat \ {0}
        BY <1>1, <2>10
      <4> QED
        BY <4>1, CeilFacts
    <3> HIDE DEF L
    <3>4. lt = {<<B, L>>}
      BY <2>7, <3>1, <3>2
    <3>5. surplus_over_limit_price(t) = checked_sub(B, L)
      BY <2>8, <3>4
    <3>6. surplus_over_limit_price(t) # {} <=> L <= B
      BY <2>2, <3>3, <3>5 DEF checked_sub
    <3> QED
      BY <1>3, <2>5, <2>10, <3>6 DEF E, B, L
  <2> QED
    BY <2>9, <2>10
<1> QED
  BY <1>2, <1>3

\* For buy orders: what is paid is not more than the limit.
LEMMA KeepsBuy ==
  ASSUME NEW o \in Order, NEW f, Valid(f, o), NEW prices \in Amounts, o.side = "Buy"
  PROVE  LET paid == (f.executed * prices.buy) \div prices.sell + f.fee.amount
         IN  Keeps(f, prices) <=>
               /\ f.executed # 0 /\ o.buy # 0 /\ prices.sell # 0
               /\ paid <= (o.sell * f.executed) \div o.buy
<1> DEFINE e == f.executed
           P == (e * prices.buy) \div prices.sell + f.fee.amount
           L == (o.sell * e) \div o.buy
           t == [sell |-> o.sell, buy |-> o.buy, side |-> "Buy", executed |-> e,
                 custom_price |-> [sell |-> e, buy |-> P], policies |-> o.protocol_fees]
<1>1. /\ f.order = o /\ e \in Nat /\ f.fee.amount \in Nat /\ prices.sell \in Nat
      /\ prices.buy \in Nat /\ o.sell \in Nat /\ o.buy \in Nat
  BY DEF Valid, Amounts, Order
<1>2. CASE prices.sell = 0
  <2>1. sell_amount(f, prices) = {}
    BY <1>1, <1>2 DEF sell_amount, CheckedDiv
  <2>2. SettledTrade(f, prices) = {}
    BY <2>1 DEF SettledTrade, custom_prices
  <2> QED
    BY <1>2, <2>2 DEF Keeps
<1>3. CASE prices.sell # 0
  <2>1. sell_amount(f, prices) = {P} /\ buy_amount(f, prices) = {e}
    BY <1>1, <1>3 DEF buy_amount, CheckedDiv, sell_amount
  <2>2. P \in Nat
    <3>1. e * prices.buy \in Nat /\ prices.sell \in Nat \ {0}
      BY <1>1, <1>3
    <3>2. (e * prices.buy) \div prices.sell \in Nat
      BY <3>1, Quotient
    <3> QED
      BY <1>1, <3>2
  <2> HIDE DEF P
  <2>3. custom_prices(f, prices) = {[sell |-> e, buy |-> P]}
    BY <2>1 DEF custom_prices
  <2>4. SettledTrade(f, prices) = {t}
    BY <1>1, <2>3 DEF SettledTrade
  <2>5. Keeps(f, prices) <=> surplus_over_limit_price(t) # {}
    BY <2>4 DEF Keeps
  <2>6. /\ t.sell = o.sell /\ t.buy = o.buy /\ t.side = "Buy" /\ t.executed = e
        /\ t.custom_price.sell = e /\ t.custom_price.buy = P
    OBVIOUS
  <2> HIDE DEF t
  <2> DEFINE lt == LimitAndTraded(t, [sell |-> t.sell, buy |-> t.buy])
  <2>7. lt = {<<limit_sell, sold>> : limit_sell \in CheckedDiv(o.sell * e, o.buy),
                                     sold \in CheckedDiv(e * P, e)}
    BY <2>6 DEF LimitAndTraded
  <2>8. surplus_over_limit_price(t) = UNION {checked_sub(x[1], x[2]) : x \in lt}
    BY Zenon DEF surplus_over_limit_price, surplus_over
  <2> HIDE DEF lt
  <2>9. CASE e = 0 \/ o.buy = 0
    <3>1. CheckedDiv(o.sell * e, o.buy) = {} \/ CheckedDiv(e * P, e) = {}
      BY <2>9 DEF CheckedDiv
    <3>2. lt = {}
      BY <2>7, <3>1
    <3> QED
      BY <2>5, <2>8, <2>9, <3>2
  <2>10. CASE e # 0 /\ o.buy # 0
    <3>1. CheckedDiv(o.sell * e, o.buy) = {L} /\ CheckedDiv(e * P, e) = {(e * P) \div e}
      BY <2>10 DEF CheckedDiv
    <3>2. (e * P) \div e = P
      BY <1>1, <2>2, <2>10, ExactQuotient
    <3>3. L \in Nat
      <4>1. o.sell * e \in Nat /\ o.buy \in Nat \ {0}
        BY <1>1, <2>10
      <4> QED
        BY <4>1, Quotient
    <3> HIDE DEF L
    <3>4. lt = {<<L, P>>}
      BY <2>7, <3>1, <3>2
    <3>5. surplus_over_limit_price(t) = checked_sub(L, P)
      BY <2>8, <3>4
    <3>6. surplus_over_limit_price(t) # {} <=> P <= L
      BY <2>2, <3>3, <3>5 DEF checked_sub
    <3> QED
      BY <1>3, <2>5, <2>10, <3>6 DEF P, L
  <2> QED
    BY <2>9, <2>10
<1> QED
  BY <1>2, <1>3

-----------------------------------------------------------------------------
\* What a trade that keeps its limit price takes from the wallet was set aside for it.
LEMMA PaidWithin ==
  ASSUME NEW o \in Order, ~ is_zero(available(o)), NEW f, Valid(f, o), NEW prices \in Amounts,
         Keeps(f, prices), NEW paid \in sell_amount(f, prices)
  PROVE  paid <= available(o).sell
<1>1. /\ f.order = o /\ f.executed \in Nat /\ f.fee.amount \in Nat /\ prices.sell \in Nat
      /\ prices.buy \in Nat /\ o.sell \in Nat /\ o.buy \in Nat /\ o.available \in Nat
      /\ o.side \in {"Buy", "Sell"} /\ o.partial \in BOOLEAN
  BY DEF Valid, Amounts, Order
<1>2. valid_execution(o, f.executed, f.fee)
  BY DEF Valid
<1>3. CASE o.side = "Sell"
  <2>1. paid = f.executed + f.fee.amount
    BY <1>1, <1>3 DEF sell_amount
  <2>2. CASE ~ o.partial
    <3>1. paid = o.sell /\ available(o).sell = o.sell
      BY <1>2, <1>3, <2>1, <2>2 DEF valid_execution, target, available
    <3> QED
      BY <1>1, <3>1
  <2>3. CASE o.partial
    <3>1. paid <= o.available
      BY <1>2, <1>3, <2>1, <2>3 DEF valid_execution
    <3>2. available(o).sell = mul_ratio(o.sell, o.available, o.sell) /\ available(o).sell # 0
      BY <1>3, <2>3 DEF available, target, is_zero
    <3>3. o.sell \in Nat \ {0} /\ available(o).sell = (o.sell * o.available) \div o.sell
      BY <1>1, <3>2 DEF mul_ratio
    <3>4. available(o).sell = o.available
      BY <1>1, <3>3, ExactQuotient
    <3> QED
      BY <3>1, <3>4
  <2> QED
    BY <2>2, <2>3
<1>4. CASE o.side = "Buy"
  <2> DEFINE P == (f.executed * prices.buy) \div prices.sell + f.fee.amount
             L == (o.sell * f.executed) \div o.buy
  <2>1. /\ f.executed # 0 /\ o.buy # 0 /\ prices.sell # 0 /\ P <= L
    BY <1>4, KeepsBuy
  <2>2. paid = P
    BY <1>1, <1>4, <2>1 DEF sell_amount, CheckedDiv
  <2>3. target(o) = o.buy
    BY <1>4 DEF target
  <2>4. CASE ~ o.partial
    <3>1. f.executed = o.buy /\ available(o).sell = o.sell
      BY <1>2, <1>4, <2>3, <2>4 DEF valid_execution, available
    <3>2. L = o.sell
      BY <1>1, <2>1, <3>1, ExactQuotient
    <3> QED
      BY <2>1, <2>2, <3>1, <3>2
  <2>5. CASE o.partial
    <3>1. f.executed <= o.available
      BY <1>2, <1>4, <2>5 DEF valid_execution
    <3>2. available(o).sell = (o.sell * o.available) \div o.buy
      BY <2>1, <2>3, <2>5 DEF available, mul_ratio
    <3>3. o.sell * f.executed <= o.sell * o.available
      BY <1>1, <3>1, ProductMonotonic
    <3>4. o.sell * f.executed \in Nat /\ o.sell * o.available \in Nat /\ o.buy \in Nat \ {0}
      BY <1>1, <2>1
    <3>5. L <= available(o).sell /\ L \in Nat /\ available(o).sell \in Nat
      BY <3>2, <3>3, <3>4, QuotientMonotonic
    <3>6. P \in Nat
      <4>1. f.executed * prices.buy \in Nat /\ prices.sell \in Nat \ {0}
        BY <1>1, <2>1
      <4>2. (f.executed * prices.buy) \div prices.sell \in Nat
        BY <4>1, Quotient
      <4> QED
        BY <1>1, <4>2
    <3> HIDE DEF P, L
    <3> QED
      BY <2>1, <2>2, <3>5, <3>6
  <2> QED
    BY <1>1, <2>4, <2>5
<1> QED
  BY <1>1, <1>3, <1>4

-----------------------------------------------------------------------------
(* Fees that are a part of surplus.                                        *)

\* A part of an amount is not more than the amount.
LEMMA FactorBound ==
  ASSUME NEW a \in Nat, NEW x \in Nat, x < SCALE
  PROVE  apply_factor(a, x) \in Nat /\ apply_factor(a, x) <= a
<1>1. a * x <= a * SCALE /\ a * x \in Nat /\ a * SCALE \in Nat
  BY ScaleAssumption, ProductMonotonic
<1>2. (a * x) \div SCALE <= (a * SCALE) \div SCALE /\ (a * x) \div SCALE \in Nat
  BY <1>1, ScaleAssumption, QuotientMonotonic
<1>3. (a * SCALE) \div SCALE = a
  BY ScaleAssumption, ExactQuotient
<1> QED
  BY <1>2, <1>3 DEF apply_factor

\* A fee in the buy token, at most what is bought beyond L, is converted into the sell
\* token, rounded down, and taken out of the execution: L is still bought.
LEMMA SellFee ==
  ASSUME NEW e \in Nat, NEW ps \in Nat, NEW pb \in Nat \ {0}, NEW L \in Nat \ {0}, NEW y \in Nat,
         y + L <= Ceil(e * ps, pb)
  PROVE  LET x == (y * pb) \div ps
         IN  /\ ps # 0 /\ x \in Nat /\ x <= e
             /\ L <= Ceil((e - x) * ps, pb)
<1> DEFINE E == e * ps
           B == Ceil(E, pb)
           x == (y * pb) \div ps
<1>1. E \in Nat
  OBVIOUS
<1>2. B \in Nat /\ pb * B < E + pb /\ y + L <= B
  BY <1>1, CeilFacts
<1> HIDE DEF B
<1>3. (y + L) * pb <= B * pb /\ (y + L) * pb \in Nat /\ B * pb \in Nat
  BY <1>2, ProductMonotonic
<1> DEFINE yp == y * pb
           lp == L * pb
<1>4. yp \in Nat /\ lp \in Nat /\ (y + L) * pb = yp + lp /\ pb * B = B * pb
  BY <1>2
<1>5. pb <= lp
  <2>1. 1 * pb <= L * pb
    BY ProductMonotonic
  <2> QED
    BY <2>1
<1>6. yp + lp < E + pb
  <2> DEFINE bp == B * pb
  <2>1. bp \in Nat /\ yp + lp <= bp /\ bp < E + pb
    BY <1>2, <1>3, <1>4
  <2> HIDE DEF bp, yp, lp, E
  <2> QED
    BY <1>1, <1>4, <2>1
<1>7. ps # 0
  <2> SUFFICES ASSUME ps = 0 PROVE FALSE
    OBVIOUS
  <2>1. E = 0
    OBVIOUS
  <2> HIDE DEF E, yp, lp
  <2> QED
    BY <1>4, <1>5, <1>6, <2>1
<1> DEFINE xp == x * ps
<1>8. x \in Nat /\ xp <= yp /\ xp \in Nat
  <2>1. yp \in Nat /\ ps \in Nat \ {0}
    BY <1>4, <1>7
  <2>2. x \in Nat /\ ps * x <= yp
    BY <2>1, Quotient
  <2> HIDE DEF x
  <2>3. ps * x = x * ps
    BY <2>2
  <2> QED
    BY <2>2, <2>3
<1> HIDE DEF x
<1>9. xp < E
  <2> HIDE DEF E, yp, lp, xp
  <2> QED
    BY <1>1, <1>4, <1>5, <1>6, <1>8
<1>10. x < e
  BY <1>7, <1>8, <1>9, ProductStrict
<1> DEFINE r == (e - x) * ps
           C == Ceil(r, pb)
<1>11. r = E - xp /\ r \in Nat
  <2>1. e - x \in Nat
    BY <1>8, <1>10
  <2>2. (e - x) * ps = e * ps - x * ps
    BY <1>8
  <2> QED
    BY <2>1, <2>2
<1> HIDE DEF r
<1>12. C \in Nat /\ r <= pb * C
  BY <1>11, CeilFacts
<1> HIDE DEF C
<1>13. L < C + 1
  <2> DEFINE cp == C * pb
  <2>1. cp \in Nat /\ pb * C = cp /\ (C + 1) * pb = cp + pb
    BY <1>12
  <2>2. lp < cp + pb
    <3>1. r <= cp
      BY <1>12, <2>1
    <3> HIDE DEF cp, lp, yp, xp, E
    <3> QED
      BY <1>1, <1>4, <1>6, <1>8, <1>11, <2>1, <3>1
  <2>3. L * pb < (C + 1) * pb
    BY <2>1, <2>2
  <2>4. C + 1 \in Nat
    BY <1>12
  <2> QED
    BY <2>3, <2>4, ProductStrict
<1>14. L <= C
  BY <1>12, <1>13
<1> QED
  BY <1>7, <1>8, <1>10, <1>14 DEF x, C, r

-----------------------------------------------------------------------------
\* A quote by which price improvement can be computed.
Usable(policy) ==
  policy.kind = "PriceImprovement" =>
    policy.quote.sell > 0 /\ policy.quote.buy > 0 /\ policy.quote.fee <= policy.quote.sell

\* The reference price is at least as good as the limit price.
LEMMA LimitsExist ==
  ASSUME NEW o \in Order, NEW policy \in Policy, policy.kind # "Volume", Usable(policy)
  PROVE  \E limits \in PriceLimits(o, policy) :
           /\ limits \in Amounts
           /\ o.side = "Sell" => limits.sell = o.sell /\ o.buy <= limits.buy
           /\ o.side = "Buy" => limits.buy = o.buy /\ limits.sell <= o.sell
<1> DEFINE q == policy.quote
<1>1. /\ q.sell \in Nat /\ q.buy \in Nat /\ q.fee \in Nat /\ o.sell \in Nat /\ o.buy \in Nat
      /\ policy.kind \in {"Surplus", "PriceImprovement"} /\ o.side \in {"Buy", "Sell"}
  BY DEF Policy, Order
<1>2. CASE policy.kind = "Surplus"
  <2> DEFINE l == [sell |-> o.sell, buy |-> o.buy]
  <2>1. l \in PriceLimits(o, policy) /\ l \in Amounts
    BY <1>1, <1>2 DEF PriceLimits, Amounts
  <2> QED
    BY <1>1, <2>1
<1>3. CASE policy.kind = "PriceImprovement" /\ o.side = "Sell"
  <2>1. q.sell \in Nat \ {0} /\ q.fee <= q.sell
    BY <1>1, <1>3 DEF Usable
  <2> DEFINE fee == (q.fee * q.buy) \div q.sell
             b == q.buy - fee
             scaled == (b * o.sell) \div q.sell
             l == [sell |-> o.sell, buy |-> Larger(o.buy, scaled)]
  <2> HIDE DEF q
  <2>2. fee \in Nat /\ fee <= q.buy
    <3>1. q.fee * q.buy <= q.sell * q.buy /\ q.fee * q.buy \in Nat /\ q.sell * q.buy \in Nat
      BY <1>1, <2>1, ProductMonotonic
    <3>2. fee \in Nat /\ fee <= (q.sell * q.buy) \div q.sell
      BY <2>1, <3>1, QuotientMonotonic
    <3>3. (q.sell * q.buy) \div q.sell = q.buy
      BY <1>1, <2>1, ExactQuotient
    <3> QED
      BY <3>2, <3>3
  <2>3. fee \in CheckedDiv(q.fee * q.buy, q.sell)
    BY <2>1 DEF CheckedDiv
  <2> HIDE DEF fee
  <2>4. b \in Nat /\ b \in checked_sub(q.buy, fee)
    BY <1>1, <2>2 DEF checked_sub
  <2> HIDE DEF b
  <2>5. scaled \in CheckedDiv(b * o.sell, q.sell) /\ scaled \in Nat
    <3>1. b * o.sell \in Nat
      BY <1>1, <2>4
    <3> QED
      BY <2>1, <3>1, Quotient DEF CheckedDiv
  <2> HIDE DEF scaled
  <2>6. o.buy <= Larger(o.buy, scaled) /\ Larger(o.buy, scaled) \in Nat
    BY <1>1, <2>5 DEF Larger
  <2>7. l \in adjust_quote_to_order_limits(o, q)
    <3>1. b \in UNION {checked_sub(q.buy, y) : y \in CheckedDiv(q.fee * q.buy, q.sell)}
      BY <2>3, <2>4
    <3>2. l \in {[sell |-> o.sell, buy |-> Larger(o.buy, z)] : z \in CheckedDiv(b * o.sell, q.sell)}
      BY <2>5
    <3> QED
      BY <1>3, <3>1, <3>2 DEF adjust_quote_to_order_limits
  <2>8. l \in PriceLimits(o, policy)
    BY <1>3, <2>7 DEF PriceLimits, q
  <2> QED
    BY <1>1, <1>3, <2>6, <2>8 DEF Amounts
<1>4. CASE policy.kind = "PriceImprovement" /\ o.side = "Buy"
  <2>1. q.buy \in Nat \ {0}
    BY <1>1, <1>4 DEF Usable
  <2> DEFINE scaled == ((q.sell + q.fee) * o.buy) \div q.buy
             l == [sell |-> Smaller(o.sell, scaled), buy |-> o.buy]
  <2> HIDE DEF q
  <2>2. scaled \in Nat /\ scaled \in CheckedDiv((q.sell + q.fee) * o.buy, q.buy)
    <3>1. (q.sell + q.fee) * o.buy \in Nat
      BY <1>1
    <3> QED
      BY <2>1, <3>1, Quotient DEF CheckedDiv
  <2> HIDE DEF scaled
  <2>3. Smaller(o.sell, scaled) <= o.sell /\ Smaller(o.sell, scaled) \in Nat
    BY <1>1, <2>2 DEF Smaller
  <2>4. l \in adjust_quote_to_order_limits(o, q)
    BY <1>4, <2>2 DEF adjust_quote_to_order_limits
  <2>5. l \in PriceLimits(o, policy)
    BY <1>4, <2>4 DEF PriceLimits, q
  <2> QED
    BY <1>1, <1>4, <2>3, <2>5 DEF Amounts
<1> QED
  BY <1>1, <1>2, <1>3, <1>4

\* One of the fees is at most the surplus over the reference price.
LEMMA FeeBound ==
  ASSUME NEW o \in Order, NEW f, Valid(f, o), NEW prices \in Amounts, NEW policy \in Policy,
         policy.kind # "Volume", NEW limits \in PriceLimits(o, policy), limits \in Amounts,
         NEW s \in surplus_over_reference_price(f, limits, prices), s \in Nat,
         NEW v \in Nat,
         v \in IF f.order.side = "Buy" THEN sell_amount(f, prices) ELSE buy_amount(f, prices)
  PROVE  \E y \in protocol_fee(f, prices, policy) : y \in Nat /\ y <= s
<1> DEFINE a == apply_factor(s, policy.factor)
           b == apply_factor(v, policy.max_volume_factor)
           y == Smaller(a, b)
<1>1. /\ policy.factor \in Nat /\ policy.max_volume_factor \in Nat
      /\ policy.factor < SCALE /\ policy.max_volume_factor < SCALE /\ f.order = o
  BY PolicyType DEF Valid
<1>2. a \in Nat /\ a <= s /\ b \in Nat
  BY <1>1, FactorBound
<1>3. a \in fee_from_surplus(f, limits, prices, policy.factor)
  BY DEF fee_from_surplus
<1>4. b \in fee_from_volume(f, prices, policy.max_volume_factor)
  BY DEF fee_from_volume
<1> HIDE DEF a, b
<1>5. y \in calculate_fee(f, limits, prices, policy)
  BY <1>3, <1>4 DEF calculate_fee
<1>6. y \in Nat /\ y <= s
  BY <1>2 DEF Smaller
<1> HIDE DEF y
<1>7. y \in protocol_fee(f, prices, policy)
  BY <1>1, <1>5 DEF protocol_fee
<1> QED
  BY <1>6, <1>7

\* What can be sold is bought for something.
LEMMA SomethingBought ==
  ASSUME NEW o \in Order, ~ is_zero(available(o))
  PROVE  o.buy # 0
<1> SUFFICES ASSUME o.buy = 0 PROVE available(o).buy = 0
  BY DEF is_zero
<1>1. o.available \in Nat /\ target(o) \in Nat
  BY AvailableType DEF Order
<1>2. CASE ~ o.partial
  BY <1>2 DEF available
<1>3. CASE o.partial
  <2>1. available(o).buy = mul_ratio_ceil(o.buy, o.available, target(o))
    BY <1>3 DEF available
  <2>2. CASE target(o) = 0
    BY <2>1, <2>2 DEF mul_ratio_ceil
  <2>3. CASE target(o) # 0
    <3> DEFINE d == target(o)
    <3>1. d \in Nat \ {0} /\ available(o).buy = (0 * o.available + d - 1) \div d
      BY <1>1, <2>1, <2>3 DEF mul_ratio_ceil
    <3> HIDE DEF d
    <3>2. 0 * o.available + d - 1 = d - 1
      BY <1>1, <3>1
    <3>3. (d - 1) \div d = 0
      BY <3>1
    <3> QED
      BY <3>1, <3>2, <3>3
  <2> QED
    BY <2>2, <2>3
<1> QED
  BY <1>2, <1>3

-----------------------------------------------------------------------------
\* The fee is put on top of a buy order's payment: the limit is kept.
LEMMA FeeKeepsBuy ==
  ASSUME NEW o \in Order, o.kind = "Limit", o.side = "Buy",
         NEW f, Valid(f, o), NEW prices \in Amounts, Keeps(f, prices),
         NEW policy \in Policy, policy.kind # "Volume", Usable(policy)
  PROVE  \E g \in with_protocol_fee(f, prices, policy) : Valid(g, o) /\ Keeps(g, prices)
<1> DEFINE e == f.executed
           m == f.fee.amount
           q == (e * prices.buy) \div prices.sell
           L == (o.sell * e) \div o.buy
<1>1. /\ f.order = o /\ e \in Nat /\ m \in Nat /\ prices.sell \in Nat /\ prices.buy \in Nat
      /\ o.sell \in Nat /\ o.buy \in Nat /\ f.fee.dynamic = TRUE
  BY DEF Valid, Amounts, Order, solver_determines_fee
<1>2. e # 0 /\ o.buy # 0 /\ prices.sell # 0 /\ q + m <= L
  BY KeepsBuy
<1>3. q \in Nat /\ L \in Nat
  <2>1. e * prices.buy \in Nat /\ o.sell * e \in Nat /\ prices.sell \in Nat \ {0} /\ o.buy \in Nat \ {0}
    BY <1>1, <1>2
  <2> QED
    BY <2>1, Quotient
<1>4. sell_amount(f, prices) = {q + m}
  BY <1>1, <1>2 DEF sell_amount, CheckedDiv
<1>5. PICK limits \in PriceLimits(o, policy) :
        limits \in Amounts /\ limits.buy = o.buy /\ limits.sell <= o.sell
  BY LimitsExist
<1> DEFINE K == (limits.sell * e) \div limits.buy
           s == Larger(0, K - (q + m))
<1>6. K \in Nat /\ K <= L
  <2>1. limits.sell * e <= o.sell * e /\ limits.sell * e \in Nat /\ o.sell * e \in Nat
    BY <1>1, <1>5, ProductMonotonic DEF Amounts
  <2> QED
    BY <1>1, <1>2, <1>5, <2>1, QuotientMonotonic
<1>7. s \in surplus_over_reference_price(f, limits, prices)
  <2>1. K \in CheckedDiv(limits.sell * f.executed, limits.buy)
    BY <1>2, <1>5 DEF CheckedDiv
  <2>2. q + m \in sell_amount(f, prices)
    BY <1>4
  <2> HIDE DEF K, q, m
  <2> QED
    BY <1>1, <2>1, <2>2 DEF surplus_over_reference_price
<1>8. s \in Nat /\ s + (q + m) <= L
  <2> HIDE DEF K, q, L, m
  <2> QED
    BY <1>1, <1>2, <1>3, <1>6 DEF Larger
<1> HIDE DEF K, s
<1>9. q + m \in Nat
  BY <1>1, <1>3
<1>10. PICK y \in protocol_fee(f, prices, policy) : y \in Nat /\ y <= s
  <2>1. q + m \in IF f.order.side = "Buy" THEN sell_amount(f, prices) ELSE buy_amount(f, prices)
    BY <1>1, <1>4
  <2> HIDE DEF q, m
  <2> QED
    BY <1>5, <1>7, <1>8, <1>9, <2>1, FeeBound
<1> DEFINE g == [order |-> o, executed |-> e, fee |-> Dynamic(m + y)]
<1>11. g \in Fulfill(o, e, Dynamic(m + y))
  <2>1. valid_execution(o, e, Dynamic(m + y))
    <3>1. valid_execution(o, e, f.fee)
      BY DEF Valid
    <3> QED
      BY <3>1 DEF valid_execution
  <2> QED
    BY <2>1 DEF Fulfill, Dynamic, solver_determines_fee
<1>12. g \in with_protocol_fee(f, prices, policy)
  <2>1. y \in protocol_fee_in_sell_token(f, prices, policy)
    BY <1>1, <1>10 DEF protocol_fee_in_sell_token
  <2> HIDE DEF g
  <2> QED
    BY <1>1, <1>11, <2>1 DEF with_protocol_fee
<1>13. Valid(g, o)
  <2>1. Dynamic(m + y) \in [dynamic : BOOLEAN, amount : Nat]
    BY <1>1, <1>10 DEF Dynamic
  <2> HIDE DEF g
  <2> QED
    BY <1>1, <1>11, <2>1, FulfillValid
<1>14. Keeps(g, prices)
  <2>1. g.executed = e /\ g.fee.amount = m + y
    BY DEF Dynamic
  <2>2. q + (m + y) <= L
    <3> HIDE DEF q, L, m
    <3> QED
      BY <1>1, <1>3, <1>8, <1>10
  <2> HIDE DEF g
  <2>3. (g.executed * prices.buy) \div prices.sell + g.fee.amount <= (o.sell * g.executed) \div o.buy
    BY <2>1, <2>2
  <2> QED
    BY <1>2, <1>13, <2>1, <2>3, KeepsBuy
<1> HIDE DEF g
<1> QED
  BY <1>12, <1>13, <1>14

\* The fee is taken out of a sell order's execution: what is left still buys the limit.
LEMMA FeeKeepsSell ==
  ASSUME NEW o \in Order, o.kind = "Limit", o.side = "Sell", ~ is_zero(available(o)),
         NEW f, Valid(f, o), NEW prices \in Amounts, Keeps(f, prices),
         NEW policy \in Policy, policy.kind # "Volume", Usable(policy)
  PROVE  \E g \in with_protocol_fee(f, prices, policy) : Valid(g, o) /\ Keeps(g, prices)
<1> DEFINE e == f.executed
           m == f.fee.amount
           E == e + m
           B == Ceil(e * prices.sell, prices.buy)
           L == Ceil(E * o.buy, o.sell)
<1>1. /\ f.order = o /\ e \in Nat /\ m \in Nat /\ prices.sell \in Nat /\ prices.buy \in Nat
      /\ o.sell \in Nat /\ o.buy \in Nat /\ f.fee.dynamic = TRUE /\ E \in Nat
  BY DEF Valid, Amounts, Order, solver_determines_fee
<1>2. E # 0 /\ o.sell # 0 /\ prices.buy # 0 /\ L <= B
  BY KeepsSell
<1>3. o.buy # 0
  BY SomethingBought
<1>4. B \in Nat /\ L \in Nat \ {0}
  <2>1. e * prices.sell \in Nat /\ E * o.buy \in Nat /\ prices.buy \in Nat \ {0} /\ o.sell \in Nat \ {0}
    BY <1>1, <1>2
  <2>2. B \in Nat /\ L \in Nat /\ E * o.buy <= o.sell * L
    BY <2>1, CeilFacts
  <2>3. 0 * o.buy < E * o.buy
    BY <1>1, <1>2, <1>3, ProductStrict
  <2> HIDE DEF L, B, E
  <2>4. L # 0
    <3> SUFFICES ASSUME L = 0 PROVE FALSE
      OBVIOUS
    <3>1. o.sell * L = 0 /\ 0 * o.buy = 0
      BY <1>1
    <3> QED
      BY <2>1, <2>2, <2>3, <3>1
  <2> QED
    BY <2>2, <2>4
<1>5. buy_amount(f, prices) = {B}
  BY <1>1, <1>2 DEF buy_amount, checked_ceil_div, Ceil
<1>6. PICK limits \in PriceLimits(o, policy) :
        limits \in Amounts /\ limits.sell = o.sell /\ o.buy <= limits.buy
  BY LimitsExist
<1> DEFINE K == Ceil(limits.buy * E, limits.sell)
           s == Larger(0, B - K)
<1>7. K \in Nat /\ L <= K
  <2> HIDE DEF E
  <2>1. E * o.buy <= E * limits.buy /\ E * o.buy \in Nat /\ E * limits.buy \in Nat
        /\ E * limits.buy = limits.buy * E
    <3>1. limits.buy \in Nat
      BY <1>6 DEF Amounts
    <3> QED
      BY <1>1, <1>6, <3>1, ProductMonotonic
  <2> QED
    BY <1>1, <1>2, <1>6, <2>1, CeilMonotonic
<1>8. s \in surplus_over_reference_price(f, limits, prices)
  <2>1. K \in checked_ceil_div(limits.buy * (f.executed + f.fee.amount), limits.sell)
    BY <1>2, <1>6 DEF checked_ceil_div, Ceil
  <2>2. B \in buy_amount(f, prices)
    BY <1>5
  <2> HIDE DEF K, B
  <2> QED
    BY <1>1, <2>1, <2>2 DEF surplus_over_reference_price
<1>9. s \in Nat /\ s + L <= B
  <2> HIDE DEF K, B, L
  <2> QED
    BY <1>2, <1>4, <1>7 DEF Larger
<1> HIDE DEF K, s
<1>10. PICK y \in protocol_fee(f, prices, policy) : y \in Nat /\ y <= s
  <2>1. B \in IF f.order.side = "Buy" THEN sell_amount(f, prices) ELSE buy_amount(f, prices)
    BY <1>1, <1>5
  <2> HIDE DEF B
  <2> QED
    BY <1>4, <1>6, <1>8, <1>9, <2>1, FeeBound
<1> DEFINE x == (y * prices.buy) \div prices.sell
<1>11. y + L <= B
  <2> HIDE DEF B, L
  <2> QED
    BY <1>4, <1>9, <1>10
<1>12. prices.sell # 0 /\ x \in Nat /\ x <= e /\ L <= Ceil((e - x) * prices.sell, prices.buy)
  <2> DEFINE ps == prices.sell
             pb == prices.buy
  <2>1. /\ e \in Nat /\ ps \in Nat /\ pb \in Nat \ {0} /\ L \in Nat \ {0} /\ y \in Nat
        /\ y + L <= Ceil(e * ps, pb)
    BY <1>1, <1>2, <1>4, <1>10, <1>11
  <2>2. x = (y * pb) \div ps
    OBVIOUS
  <2> HIDE DEF L, e, ps, pb, x
  <2>3. ps # 0 /\ x \in Nat /\ x <= e /\ L <= Ceil((e - x) * ps, pb)
    BY <2>1, <2>2, SellFee
  <2> QED
    BY <2>3 DEF ps, pb
<1>13. x \in protocol_fee_in_sell_token(f, prices, policy)
  <2>1. x \in CheckedDiv(y * prices.buy, prices.sell)
    BY <1>12 DEF CheckedDiv
  <2> HIDE DEF x
  <2> QED
    BY <1>1, <1>10, <2>1 DEF protocol_fee_in_sell_token
<1> HIDE DEF x
<1> DEFINE r == e - x
           g == [order |-> o, executed |-> r, fee |-> Dynamic(m + x)]
<1>14. r \in Nat /\ r \in checked_sub(f.executed, x) /\ r + (m + x) = E
  BY <1>1, <1>12 DEF checked_sub
<1> HIDE DEF r
<1>15. g \in Fulfill(o, r, Dynamic(m + x))
  <2>1. valid_execution(o, r, Dynamic(m + x))
    <3>1. valid_execution(o, e, f.fee)
      BY DEF Valid
    <3> QED
      BY <1>14, <3>1 DEF valid_execution, Dynamic
  <2> QED
    BY <2>1 DEF Fulfill, Dynamic, solver_determines_fee
<1>16. g \in with_protocol_fee(f, prices, policy)
  <2> HIDE DEF g
  <2> QED
    BY <1>1, <1>13, <1>14, <1>15 DEF with_protocol_fee
<1>17. Valid(g, o)
  <2>1. Dynamic(m + x) \in [dynamic : BOOLEAN, amount : Nat]
    BY <1>1, <1>12 DEF Dynamic
  <2> HIDE DEF g
  <2> QED
    BY <1>14, <1>15, <2>1, FulfillValid
<1>18. Keeps(g, prices)
  <2>1. g.executed = r /\ g.fee.amount = m + x
    BY DEF Dynamic
  <2> HIDE DEF g
  <2>2. g.executed + g.fee.amount = E
    BY <1>14, <2>1
  <2>3. Ceil((g.executed + g.fee.amount) * o.buy, o.sell) <= Ceil(g.executed * prices.sell, prices.buy)
    BY <1>12, <2>1, <2>2 DEF r
  <2> QED
    BY <1>2, <1>17, <2>2, <2>3, KeepsSell
<1> HIDE DEF g
<1> QED
  BY <1>16, <1>17, <1>18

\* The quotes of all price improvement policies can be used. (The driver drops a
\* solution whose fees it cannot compute.)
UsableQuotes ==
  \A a \in Id : \A o \in Range(Auction[a].orders) : \A p \in Range(o.protocol_fees) : Usable(p)

\* All policies of an order together: the fold of with_protocol_fees keeps the limit.
LEMMA FeesKeep ==
  ASSUME UsableQuotes, NEW o \in KnownOrder, o.kind = "Limit", ~ is_zero(available(o)),
         \A p \in Range(o.protocol_fees) : p.kind # "Volume",
         NEW f, Valid(f, o), NEW prices \in Amounts, Keeps(f, prices)
  PROVE  \E g \in WithFees(f, prices) : Keeps(g, prices)
<1> DEFINE n == Len(f.order.protocol_fees)
<1>1. o \in Order /\ o.side \in {"Buy", "Sell"}
  BY Known DEF Order
<1>2. /\ f.order = o /\ f.order.protocol_fees \in Seq(Policy) /\ n \in Nat
      /\ \A k \in 1 .. n : f.order.protocol_fees[k] \in Policy
      /\ \A k \in 1 .. n : f.order.protocol_fees[k] \in Range(o.protocol_fees)
  <2>1. f.order = o /\ o.protocol_fees \in Seq(Policy)
    BY <1>1 DEF Valid, Order
  <2> QED
    BY <2>1 DEF Range
<1>3. ASSUME NEW p \in Range(o.protocol_fees) PROVE p.kind # "Volume" /\ Usable(p)
  <2>1. o.protocol_fees # <<>>
    <3> DEFINE none == <<>>
    <3>1. DOMAIN none = {}
      OBVIOUS
    <3> HIDE DEF none
    <3>2. o.protocol_fees # none
      BY <1>3, <3>1 DEF Range
    <3> QED
      BY <3>2 DEF none
  <2>2. PICK a \in Id : \E q \in Range(Auction[a].orders) : o.protocol_fees = q.protocol_fees
    BY <2>1 DEF KnownOrder
  <2> QED
    BY <1>3, <2>2 DEF UsableQuotes
<1>4. PICK F : /\ F[0] = {f}
               /\ \A k \in 1 .. Len(f.order.protocol_fees) :
                    F[k] = NextPolicy(F[k - 1], prices, f.order.protocol_fees[k])
               /\ with_protocol_fees(f, prices) = F[Len(f.order.protocol_fees)]
  BY <1>2, FeesFold, Zenon
<1> DEFINE Good == {k \in Nat : \E g \in F[k] : Valid(g, o) /\ Keeps(g, prices)}
<1>5. 0 \in Good
  BY <1>4
<1>6. ASSUME NEW k \in 1 .. n, k - 1 \in Good PROVE k \in Good
  <2> DEFINE policy == f.order.protocol_fees[k]
  <2>1. policy \in Policy /\ policy.kind # "Volume" /\ Usable(policy)
    BY <1>2, <1>3
  <2>2. F[k] = NextPolicy(F[k - 1], prices, policy)
    BY <1>4
  <2> HIDE DEF policy
  <2>3. PICK g \in F[k - 1] : Valid(g, o) /\ Keeps(g, prices)
    BY <1>6
  <2>4. PICK h \in with_protocol_fee(g, prices, policy) : Valid(h, o) /\ Keeps(h, prices)
    BY <1>1, <2>1, <2>3, FeeKeepsBuy, FeeKeepsSell
  <2>5. h \in F[k]
    BY <2>2, <2>3, <2>4 DEF NextPolicy
  <2>6. k \in Nat
    BY <1>2
  <2> QED
    BY <2>4, <2>5, <2>6
<1>7. Inductive(Good, n)
  BY <1>5, <1>6, Zenon DEF Inductive
<1> HIDE DEF Good, n
<1>8. n \in Good
  BY <1>2, <1>7, StepByStep
<1>9. \E g \in with_protocol_fees(f, prices) : Keeps(g, prices)
  BY <1>4, <1>8 DEF Good, n
<1> QED
  BY <1>2, <1>9 DEF WithFees

-----------------------------------------------------------------------------
(* Fees computed back from the amounts that contain them. In units of one  *)
(* policy: b0 is the amount before the fee and b1 after it, c1 is what the *)
(* amount after it is computed to be and c0 what that makes of the one     *)
(* before.                                                                 *)

\* Computing back from what is left gives at most the share that was taken.
LEMMA ShareBack ==
  ASSUME NEW s \in Nat \ {0}, NEW k \in Nat \ {0}, NEW g \in Nat, NEW h \in Nat,
         g * k <= s * h, NEW v \in Nat, NEW w \in Nat, s * v <= g * w
  PROVE  k * v <= h * w
<1> DEFINE sv == s * v
           gw == g * w
           kv == k * v
           hw == h * w
           gk == g * k
           sh == s * h
<1>1. sv \in Nat /\ gw \in Nat /\ kv \in Nat /\ hw \in Nat /\ gk \in Nat /\ sh \in Nat
  OBVIOUS
<1>2. sv * k = kv * s /\ gw * k = gk * w /\ sh * w = hw * s
  OBVIOUS
<1> HIDE DEF sv, gw, kv, hw, gk, sh
<1>3. sv * k <= gw * k /\ gk * w <= sh * w
  BY <1>1, ProductMonotonic DEF sv, gw, gk, sh
<1>4. kv * s \in Nat /\ hw * s \in Nat /\ gk * w \in Nat /\ kv * s <= hw * s
  BY <1>1, <1>2, <1>3
<1>5. ~ (hw < kv)
  BY <1>1, <1>4, ProductStrict
<1> QED
  BY <1>1, <1>5 DEF kv, hw

\* A fee of the share h of what is above L: computed back, it does not return more than
\* was taken, but for roundings.
LEMMA ArmGain ==
  ASSUME NEW S \in Nat \ {0}, NEW h \in Nat, h < S, NEW g \in Nat, g * (S - h) <= S * h,
         NEW b0 \in Int, NEW b1 \in Int, NEW c0 \in Int, NEW c1 \in Int, NEW L \in Int,
         NEW u \in Nat, NEW T \in Nat, NEW y \in Nat, NEW v \in Nat,
         h * Larger(0, b0 - L) < S * y + S, S * v <= g * Larger(0, c1 - L),
         b1 <= b0 - y + u, c0 <= c1 + v, c1 - b1 <= T
  PROVE  (c0 - b0) * (S - h) <= S * (T + u + 1)
<1> DEFINE k == S - h
           w0 == Larger(0, b0 - L)
           w1 == Larger(0, c1 - L)
<1>1. k \in Nat \ {0} /\ w0 \in Nat /\ w1 \in Nat /\ b0 - L <= w0
      /\ (w1 = c1 - L \/ (w1 = 0 /\ c1 <= L))
  BY DEF Larger
<1>2. h * w0 < S * y + S /\ S * v <= g * w1 /\ S = k + h /\ g * k <= S * h
  OBVIOUS
<1> HIDE DEF k, w0, w1
<1>3. k * v <= h * w1
  BY <1>1, <1>2, ShareBack
<1>4. k * (c0 - c1) <= k * v
  BY <1>1
<1>5. h * (b0 - L) <= h * w0
  BY <1>1
<1>6. S * (b1 - b0 + y - u) <= 0 /\ S * (c1 - b1 - T) <= 0
  OBVIOUS
<1>7. CASE w1 = c1 - L
  <2> DEFINE Sc0 == S * c0
             hc0 == h * c0
             Sc1 == S * c1
             hc1 == h * c1
             hL == h * L
             Sb0 == S * b0
             Sb1 == S * b1
             hb0 == h * b0
             Sy == S * y
             Su == S * u
             ST == S * T
  <2>1. /\ Sc0 \in Int /\ hc0 \in Int /\ Sc1 \in Int /\ hc1 \in Int /\ hL \in Int /\ Sb0 \in Int
        /\ Sb1 \in Int /\ hb0 \in Int /\ Sy \in Int /\ Su \in Int /\ ST \in Int
    OBVIOUS
  <2>2. /\ k * (c0 - c1) = Sc0 - hc0 - Sc1 + hc1
        /\ h * w1 = hc1 - hL
        /\ h * (b0 - L) = hb0 - hL
        /\ S * (b1 - b0 + y - u) = Sb1 - Sb0 + Sy - Su
        /\ S * (c1 - b1 - T) = Sc1 - Sb1 - ST
        /\ (c0 - b0) * (S - h) = Sc0 - hc0 - Sb0 + hb0
        /\ S * (T + u + 1) = ST + Su + S
    BY <1>1, <1>7 DEF k
  <2>6. k * v \in Int /\ h * w0 \in Int /\ h * w0 < Sy + S
    BY <1>1, <1>2
  <2>3. Sc0 - hc0 - Sc1 + hc1 <= hc1 - hL
    <3> HIDE DEF Sc0, hc0, Sc1, hc1, hL
    <3> QED
      BY <1>3, <1>4, <2>1, <2>2, <2>6
  <2>4. hb0 - hL < Sy + S
    <3> HIDE DEF hb0, hL, Sy
    <3> QED
      BY <1>5, <2>1, <2>2, <2>6
  <2>5. Sb1 - Sb0 + Sy - Su <= 0 /\ Sc1 - Sb1 - ST <= 0
    BY <1>6, <2>2
  <2> HIDE DEF Sc0, hc0, Sc1, hc1, hL, Sb0, Sb1, hb0, Sy, Su, ST
  <2> QED
    BY <2>1, <2>2, <2>3, <2>4, <2>5
<1>8. CASE w1 = 0
  <2>1. k * v <= 0
    BY <1>3, <1>8
  <2>2. v = 0
    BY <1>1, <2>1
  <2>3. c0 - b0 <= T + u
    BY <2>2
  <2>4. k * (c0 - b0) <= k * (T + u) /\ k * (T + u) <= S * (T + u + 1)
    BY <1>1, <1>2, <2>3
  <2> QED
    BY <2>4 DEF k
<1> QED
  BY <1>1, <1>7, <1>8

\* Nor is it much less, but for the rounding of the share to units.
LEMMA ShareLost ==
  ASSUME NEW S \in Nat \ {0}, NEW k \in Nat \ {0}, NEW g \in Nat, NEW h \in Nat,
         S * h < g * k + k, NEW v \in Nat, NEW w \in Nat, g * w < S * v + S,
         NEW q \in Nat, w <= S * q
  PROVE  h * w <= k * v + k + k * q
<1> DEFINE kv == k * v
           kq == k * q
           hw == h * w
           gw == g * w
           gk == g * k
           Sh == S * h
           Sv == S * v
           Sq == S * q
           kw == k * w
<1>1. /\ kv \in Nat /\ kq \in Nat /\ hw \in Nat /\ gw \in Nat /\ gk \in Nat /\ Sh \in Nat
      /\ Sv \in Nat /\ Sq \in Nat /\ kw \in Nat
  OBVIOUS
<1>2. /\ Sh * w = hw * S /\ (gk + k) * w = gw * k + kw
      /\ (Sv + S) * k = (kv + k) * S /\ Sq * k = kq * S /\ w * k = kw
      /\ (kv + k + kq) * S = (kv + k) * S + kq * S
  OBVIOUS
<1>3. Sh <= gk + k /\ gw <= Sv + S /\ w <= Sq /\ gk + k \in Nat /\ Sv + S \in Nat
  BY <1>1
<1> HIDE DEF kv, kq, hw, gw, gk, Sh, Sv, Sq, kw
<1>4. Sh * w <= (gk + k) * w /\ gw * k <= (Sv + S) * k /\ w * k <= Sq * k
  BY <1>1, <1>3, ProductMonotonic
<1> DEFINE A == hw * S
           B == gw * k
           C == (kv + k) * S
           D == kq * S
<1>5. A \in Nat /\ B \in Nat /\ C \in Nat /\ D \in Nat
  BY <1>1
<1>6. A <= B + kw /\ B <= C /\ kw <= D /\ (kv + k + kq) * S = C + D
  BY <1>2, <1>4
<1> HIDE DEF A, B, C, D
<1>7. A <= (kv + k + kq) * S
  BY <1>1, <1>5, <1>6
<1>8. kv + k + kq \in Nat /\ (kv + k + kq) * S \in Nat
  BY <1>1
<1>9. ~ (kv + k + kq < hw)
  BY <1>1, <1>5, <1>7, <1>8, ProductStrict DEF A
<1> QED
  BY <1>1, <1>8, <1>9 DEF kv, kq, hw

\* Nor much less, if what is above L is at most q whole units.
LEMMA ArmLoss ==
  ASSUME NEW S \in Nat \ {0}, NEW h \in Nat, h < S, NEW g \in Nat,
         S * h < g * (S - h) + (S - h),
         NEW b0 \in Int, NEW b1 \in Int, NEW c0 \in Int, NEW d \in Int, NEW L \in Int,
         NEW q \in Nat, NEW T \in Nat, NEW y \in Nat, NEW v \in Nat,
         S * y <= h * Larger(0, b0 - L), g * Larger(0, d - L) < S * v + S,
         b0 - y <= b1, d + v <= c0, b1 - d <= T, d - L <= S * q
  PROVE  (b0 - c0) * (S - h) <= S * (T + 1 + q)
<1> DEFINE k == S - h
           w0 == Larger(0, b0 - L)
           w == Larger(0, d - L)
<1>1. /\ k \in Nat \ {0} /\ w0 \in Nat /\ w \in Nat
      /\ ((w = d - L /\ L <= d) \/ (w = 0 /\ d <= L))
      /\ ((w0 = b0 - L /\ L <= b0) \/ (w0 = 0 /\ b0 <= L))
  BY DEF Larger
<1>2. S * y <= h * w0 /\ g * w < S * v + S /\ S = k + h /\ S * h < g * k + k
  OBVIOUS
<1> HIDE DEF k, w0, w
<1>3. S * q \in Nat /\ w <= S * q
  <2>1. S * q \in Nat
    OBVIOUS
  <2> QED
    BY <1>1, <2>1
<1>4. h * w <= k * v + k + k * q
  BY <1>1, <1>2, <1>3, ShareLost
<1> DEFINE ST == S * T
           kq == k * q
           kv == k * v
           kb == k * b0
           kc == k * c0
           kd == k * d
           hd == h * d
           hL == h * L
           Sb == S * b1
           Sy == S * y
           hb == h * b0
           Sq == S * q
<1>5. /\ ST \in Nat /\ kq \in Nat /\ kb \in Int /\ kc \in Int /\ kd \in Int /\ hd \in Int
      /\ hL \in Int /\ Sb \in Int /\ Sy \in Nat /\ hb \in Int /\ Sq \in Nat /\ kv \in Nat
      /\ kq <= Sq /\ k <= S
  BY <1>1, <1>2
<1>6. /\ (b0 - c0) * (S - h) = kb - kc /\ S * (T + 1 + q) = ST + S + Sq
      /\ S * (d - b1) = kd + hd - Sb /\ S * (b1 - b0) = Sb - kb - hb
      /\ h * (d - L) = hd - hL /\ h * (b0 - L) = hb - hL
      /\ k * (d + v - c0) = kd + kv - kc
  BY <1>1, <1>2 DEF k
<1>7. -ST <= S * (d - b1) /\ -Sy <= S * (b1 - b0) /\ k * (d + v - c0) <= 0
  BY <1>1
<1>8. CASE w0 = 0
  <2>1. Sy <= 0
    BY <1>2, <1>8
  <2>2. y = 0
    BY <2>1
  <2>3. b0 - c0 <= T
    BY <2>2
  <2>4. k * (b0 - c0) <= k * T /\ k * T <= ST
    BY <1>1, <1>2, <2>3
  <2>5. k * (b0 - c0) = kb - kc
    BY <1>1
  <2>6. kb - kc <= ST
    <3>1. k * T \in Nat
      BY <1>1
    <3> HIDE DEF ST, kb, kc
    <3> QED
      BY <1>5, <2>4, <2>5, <3>1
  <2> HIDE DEF ST, kb, kc, Sq
  <2> QED
    BY <1>5, <1>6, <2>6
<1>9. CASE w0 = b0 - L /\ L <= b0
  <2>1. Sy <= hb - hL
    BY <1>2, <1>6, <1>9
  <2>2. CASE w = d - L
    <3>1. hd - hL <= kv + k + kq
      BY <1>4, <1>6, <2>2
    <3> HIDE DEF ST, kq, kv, kb, kc, kd, hd, hL, Sb, Sy, hb, Sq
    <3> QED
      BY <1>1, <1>5, <1>6, <1>7, <2>1, <3>1
  <2>3. CASE w = 0 /\ d <= L
    <3>1. h * (d - L) <= 0
      BY <2>3
    <3> HIDE DEF ST, kq, kv, kb, kc, kd, hd, hL, Sb, Sy, hb, Sq
    <3> QED
      BY <1>1, <1>5, <1>6, <1>7, <2>1, <3>1
  <2> QED
    BY <1>1, <2>2, <2>3
<1> QED
  BY <1>1, <1>8, <1>9

\* A fee of the share h on top of a payment: not more is taken off than was put on.
LEMMA VolumeGain ==
  ASSUME NEW S \in Nat \ {0}, NEW h \in Nat, NEW g \in Nat, g * (S + h) <= S * h,
         NEW p0 \in Nat, NEW p1 \in Nat, NEW c0 \in Int, NEW c1 \in Nat,
         NEW T \in Nat, NEW y \in Nat, NEW v \in Nat,
         h * p0 < S * y + S, S * v <= g * c1, p0 + y <= p1, c1 - v <= c0, p1 - c1 <= T
  PROVE  (p0 - c0) * (S + h) <= S * (T + 1)
<1> DEFINE k == S + h
<1>1. k \in Nat \ {0} /\ g * k <= S * h
  OBVIOUS
<1> HIDE DEF k
<1>2. k * v <= h * c1
  BY <1>1, ShareBack
<1> DEFINE kp == k * p0
           kc == k * c0
           kc1 == k * c1
           hc1 == h * c1
           Sc1 == S * c1
           kv == k * v
           Sp1 == S * p1
           Sp0 == S * p0
           hp0 == h * p0
           Sy == S * y
           ST == S * T
<1>3. /\ kp \in Nat /\ kc \in Int /\ kc1 \in Nat /\ hc1 \in Nat /\ Sc1 \in Nat /\ kv \in Nat
      /\ Sp1 \in Nat /\ Sp0 \in Nat /\ hp0 \in Nat /\ Sy \in Nat /\ ST \in Nat
  BY <1>1
<1>4. /\ (p0 - c0) * (S + h) = kp - kc /\ S * (T + 1) = ST + S
      /\ k * (c1 - v - c0) = kc1 - kv - kc /\ kc1 = Sc1 + hc1
      /\ S * (p1 - c1 - T) = Sp1 - Sc1 - ST /\ S * (p0 + y - p1) = Sp0 + Sy - Sp1
      /\ kp = Sp0 + hp0
  BY <1>1 DEF k
<1>5. k * (c1 - v - c0) <= 0 /\ S * (p1 - c1 - T) <= 0 /\ S * (p0 + y - p1) <= 0
  BY <1>1
<1>6. hp0 < Sy + S /\ kv <= hc1
  BY <1>2
<1> HIDE DEF kp, kc, kc1, hc1, Sc1, kv, Sp1, Sp0, hp0, Sy, ST
<1> QED
  BY <1>3, <1>4, <1>5, <1>6

\* Nor much less.
LEMMA VolumeLoss ==
  ASSUME NEW S \in Nat \ {0}, NEW h \in Nat, NEW g \in Nat, S * h < g * (S + h) + (S + h),
         NEW p0 \in Nat, NEW p1 \in Nat, NEW c0 \in Int, NEW c1 \in Nat, NEW q \in Nat,
         NEW T \in Nat, NEW y \in Nat, NEW v \in Nat,
         S * y <= h * p0, g * c1 < S * v + S, p1 <= p0 + y, c0 <= c1 - v, c1 - p1 <= T, c1 <= S * q
  PROVE  (c0 - p0 - (1 + q)) * (S + h) <= S * T
<1> DEFINE k == S + h
<1>1. k \in Nat \ {0} /\ S * h < g * k + k
  OBVIOUS
<1> HIDE DEF k
<1>2. h * c1 <= k * v + k + k * q
  BY <1>1, ShareLost
<1> DEFINE kp == k * p0
           kc == k * c0
           kq == k * q
           kc1 == k * c1
           hc1 == h * c1
           Sc1 == S * c1
           kv == k * v
           Sp1 == S * p1
           Sp0 == S * p0
           hp0 == h * p0
           Sy == S * y
           ST == S * T
<1>3. /\ kp \in Nat /\ kc \in Int /\ kc1 \in Nat /\ hc1 \in Nat /\ Sc1 \in Nat /\ kv \in Nat
      /\ Sp1 \in Nat /\ Sp0 \in Nat /\ hp0 \in Nat /\ Sy \in Nat /\ ST \in Nat /\ kq \in Nat
  BY <1>1
<1>4. /\ (c0 - p0 - (1 + q)) * (S + h) = kc - kp - k - kq /\ S * T = ST
      /\ k * (c0 - c1 + v) = kc - kc1 + kv /\ kc1 = Sc1 + hc1
      /\ S * (c1 - p1 - T) = Sc1 - Sp1 - ST /\ S * (p1 - p0 - y) = Sp1 - Sp0 - Sy
      /\ kp = Sp0 + hp0
  BY <1>1 DEF k
<1>5. k * (c0 - c1 + v) <= 0 /\ S * (c1 - p1 - T) <= 0 /\ S * (p1 - p0 - y) <= 0
  BY <1>1
<1>6. Sy <= hp0 /\ hc1 <= kv + k + kq
  BY <1>2
<1> HIDE DEF kp, kc, kc1, hc1, Sc1, kv, Sp1, Sp0, hp0, Sy, ST, kq
<1> QED
  BY <1>1, <1>3, <1>4, <1>5, <1>6

\* An error, undone with a share k left.
LEMMA ToleranceBound ==
  ASSUME NEW S \in Nat \ {0}, NEW j \in Nat \ {0}, NEW k \in Nat \ {0}, k <= j,
         NEW X \in Int, NEW m \in Nat, X * j <= S * m
  PROVE  X <= Ceil(m * S, k)
<1> DEFINE c == Ceil(m * S, k)
<1>1. m * S \in Nat /\ m * S = S * m
  OBVIOUS
<1>2. c \in Nat /\ m * S <= k * c
  BY <1>1, CeilFacts
<1> HIDE DEF c
<1>3. CASE X <= 0
  BY <1>2, <1>3 DEF c
<1>4. CASE X > 0
  <2>1. X \in Nat /\ X * k <= X * j /\ X * k \in Nat /\ X * j \in Nat
    BY <1>4, ProductMonotonic
  <2>2. k * c = c * k /\ k * c \in Nat
    BY <1>2
  <2>3. X * k <= c * k
    BY <1>1, <1>2, <2>1, <2>2
  <2>4. ~ (c < X)
    BY <1>2, <2>1, <2>2, <2>3, ProductStrict
  <2> QED
    BY <1>2, <2>1, <2>4 DEF c
<1> QED
  BY <1>3, <1>4

\* The same for an error that comes on top.
LEMMA ToleranceOnTop ==
  ASSUME NEW S \in Nat \ {0}, NEW j \in Nat \ {0}, NEW k \in Nat \ {0}, k <= j, k <= S,
         NEW X \in Int, NEW m \in Nat, NEW a \in Nat, (X - a) * j <= S * m
  PROVE  X <= Ceil((m + a) * S, k)
<1> DEFINE x == X - a
           c == Ceil((m + a) * S, k)
<1>1. (m + a) * S \in Nat /\ (m + a) * S = S * m + S * a /\ S * m \in Nat /\ S * a \in Nat
  OBVIOUS
<1>2. c \in Nat /\ (m + a) * S <= k * c
  BY <1>1, CeilFacts
<1>3. x \in Int /\ X = x + a /\ x * j <= S * m
  OBVIOUS
<1> HIDE DEF c, x
<1>4. x * k <= S * m
  <2>1. CASE x <= 0
    <3>1. x * k <= 0
      BY <1>3, <2>1
    <3> QED
      BY <1>1, <1>3, <3>1
  <2>2. CASE x > 0
    <3>1. x \in Nat
      BY <1>3, <2>2
    <3>2. x * k <= x * j /\ x * k \in Nat /\ x * j \in Nat
      BY <3>1, ProductMonotonic
    <3> QED
      BY <1>1, <1>3, <3>2
  <2> QED
    BY <1>3, <2>1, <2>2
<1>5. a * k <= S * a /\ a * k \in Nat
  BY ProductMonotonic
<1>6. X * k <= c * k
  <2>1. X * k = x * k + a * k /\ x * k \in Int /\ k * c = c * k /\ c * k \in Nat
    BY <1>2, <1>3
  <2> QED
    BY <1>1, <1>2, <1>4, <1>5, <2>1
<1>7. CASE X > 0
  <2>1. X \in Nat
    BY <1>7
  <2>2. ~ (c < X)
    BY <1>2, <1>6, <2>1, ProductStrict
  <2> QED
    BY <1>2, <2>1, <2>2 DEF c
<1> QED
  BY <1>2, <1>7 DEF c

\* What apply_factor rounds.
LEMMA FactorFacts ==
  ASSUME NEW a \in Nat, NEW x \in Nat
  PROVE  /\ apply_factor(a, x) \in Nat
         /\ SCALE * apply_factor(a, x) <= x * a /\ x * a < SCALE * apply_factor(a, x) + SCALE
<1>1. a * x \in Nat /\ a * x = x * a /\ SCALE \in Nat \ {0}
  BY ScaleAssumption
<1> QED
  BY <1>1, Quotient DEF apply_factor

\* What the factors of computing back round.
LEMMA RemainderFacts ==
  ASSUME NEW x \in Nat, x < SCALE
  PROVE  LET g == OfRemainder(x)
         IN  /\ g \in Nat /\ g * (SCALE - x) <= SCALE * x
             /\ SCALE * x < g * (SCALE - x) + (SCALE - x)
<1> DEFINE g == OfRemainder(x)
           k == SCALE - x
<1>1. SCALE * x \in Nat /\ k \in Nat \ {0}
  BY ScaleAssumption
<1>2. g \in Nat /\ k * g <= SCALE * x /\ SCALE * x < k * g + k
  BY <1>1, Quotient DEF OfRemainder
<1> HIDE DEF g
<1>3. k * g = g * k
  BY <1>1, <1>2
<1> QED
  BY <1>2, <1>3 DEF g

\* The factor of a fee as a part of the total, rounded down.
LEMMA TotalFacts ==
  ASSUME NEW x \in Nat
  PROVE  LET g == OfTotal(x)
         IN  /\ g \in Nat /\ g * (SCALE + x) <= SCALE * x
             /\ SCALE * x < g * (SCALE + x) + (SCALE + x)
<1> DEFINE g == OfTotal(x)
           k == SCALE + x
<1>1. SCALE * x \in Nat /\ k \in Nat \ {0}
  BY ScaleAssumption
<1>2. g \in Nat /\ k * g <= SCALE * x /\ SCALE * x < k * g + k
  BY <1>1, Quotient DEF OfTotal
<1> HIDE DEF g
<1>3. k * g = g * k
  BY <1>1, <1>2
<1> QED
  BY <1>2, <1>3 DEF g

\* One of the fees that a policy compares: the share h of what is above L, if the policy leaves the share SCALE - top at least.
LEMMA GainBound ==
  ASSUME NEW h \in Nat, NEW top \in Nat, h <= top, top < SCALE,
         NEW b0 \in Int, NEW b1 \in Int, NEW c1 \in Int, NEW L \in Int, NEW u \in Nat, NEW T \in Nat,
         NEW y \in Nat, NEW v \in Nat,
         apply_factor(Larger(0, b0 - L), h) <= y,
         v <= apply_factor(Larger(0, c1 - L), OfRemainder(h)),
         b1 <= b0 - y + u, c1 - b1 <= T
  PROVE  c1 + v - b0 <= Ceil((T + (1 + u)) * SCALE, SCALE - top)
<1> DEFINE S == SCALE
           g == OfRemainder(h)
           c0 == c1 + v
           w0 == Larger(0, b0 - L)
           w1 == Larger(0, c1 - L)
           y0 == apply_factor(w0, h)
           v0 == apply_factor(w1, g)
<1>1. S \in Nat \ {0} /\ h < S /\ w0 \in Nat /\ w1 \in Nat
  BY ScaleAssumption DEF Larger
<1>2. g \in Nat /\ g * (S - h) <= S * h
  BY <1>1, RemainderFacts
<1> HIDE DEF w0, w1, g
<1>3. y0 \in Nat /\ v0 \in Nat /\ h * w0 < S * y0 + S /\ S * v0 <= g * w1 /\ y0 <= y /\ v <= v0
  BY <1>1, <1>2, FactorFacts DEF w0, w1, g
<1> HIDE DEF S, y0, v0
<1>4. S * y0 <= S * y /\ S * v <= S * v0 /\ S * y0 \in Nat /\ S * y \in Nat /\ S * v \in Nat
      /\ S * v0 \in Nat /\ h * w0 \in Nat /\ g * w1 \in Nat
  BY <1>1, <1>2, <1>3, ProductMonotonic
<1>5. h * w0 < S * y + S /\ S * v <= g * w1
  BY <1>1, <1>3, <1>4
<1>9. /\ c0 \in Int /\ c0 <= c1 + v
      /\ h * Larger(0, b0 - L) < S * y + S /\ S * v <= g * Larger(0, c1 - L)
  BY <1>5 DEF w0, w1
<1> HIDE DEF c0
<1>6. (c0 - b0) * (S - h) <= S * (T + u + 1)
  BY <1>1, <1>2, <1>9, ArmGain, Zenon
<1> DEFINE m == T + (1 + u)
           j == S - h
           k == S - top
           X == c0 - b0
<1>7. j \in Nat \ {0} /\ k \in Nat \ {0} /\ k <= j /\ m \in Nat /\ X \in Int /\ X * j <= S * m
  <2>1. T + u + 1 = T + (1 + u)
    OBVIOUS
  <2> QED
    BY <1>1, <1>6, <1>9, <2>1 DEF S
<1> HIDE DEF j, k, m, X
<1>8. X <= Ceil(m * S, k)
  BY <1>1, <1>7, ToleranceBound
<1> QED
  BY <1>8 DEF S, j, k, m, X, c0

\* The same fee in the other direction: what is computed back falls short by no more.
LEMMA LossBound ==
  ASSUME NEW h \in Nat, NEW top \in Nat, h <= top, top < SCALE,
         NEW b0 \in Int, NEW b1 \in Int, NEW c1 \in Int, NEW d \in Int, NEW L \in Int,
         NEW A \in Nat, NEW T \in Nat, NEW y \in Nat, NEW v \in Nat,
         y <= apply_factor(Larger(0, b0 - L), h),
         apply_factor(Larger(0, c1 - L), OfRemainder(h)) <= v,
         b0 - y <= b1, b1 - d <= T, d <= c1, d - L <= A
  PROVE  b0 - (c1 + v) <= Ceil((T + (1 + Ceil(A, SCALE))) * SCALE, SCALE - top)
<1> DEFINE S == SCALE
           g == OfRemainder(h)
           c0 == c1 + v
           q == Ceil(A, S)
           w0 == Larger(0, b0 - L)
           w1 == Larger(0, c1 - L)
           w == Larger(0, d - L)
           y0 == apply_factor(w0, h)
           v0 == apply_factor(w1, g)
<1>1. S \in Nat \ {0} /\ h < S /\ w0 \in Nat /\ w1 \in Nat /\ w \in Nat /\ w <= w1
  BY ScaleAssumption DEF Larger
<1>2. g \in Nat /\ S * h < g * (S - h) + (S - h)
  BY <1>1, RemainderFacts
<1>9. q \in Nat /\ A <= S * q /\ S * q \in Nat
  BY <1>1, CeilFacts
<1> HIDE DEF w0, w1, w, g, q
<1>3. y0 \in Nat /\ v0 \in Nat /\ S * y0 <= h * w0 /\ g * w1 < S * v0 + S /\ y <= y0 /\ v0 <= v
  BY <1>1, <1>2, FactorFacts DEF w0, w1, g
<1> HIDE DEF S, y0, v0
<1>4. S * y <= S * y0 /\ S * v0 <= S * v /\ S * y0 \in Nat /\ S * y \in Nat /\ S * v \in Nat
      /\ S * v0 \in Nat /\ h * w0 \in Nat /\ g * w1 \in Nat /\ g * w \in Nat /\ g * w <= g * w1
  BY <1>1, <1>2, <1>3, ProductMonotonic
<1>5. S * y <= h * w0 /\ g * w < S * v + S
  BY <1>1, <1>3, <1>4
<1>10. /\ d - L <= S * q /\ c0 \in Int /\ d + v <= c0
       /\ S * y <= h * Larger(0, b0 - L) /\ g * Larger(0, d - L) < S * v + S
  BY <1>5, <1>9 DEF w0, w
<1> HIDE DEF c0
<1>6. (b0 - c0) * (S - h) <= S * (T + 1 + q)
  BY <1>1, <1>2, <1>9, <1>10, ArmLoss, Zenon
<1> DEFINE m == T + (1 + q)
           j == S - h
           k == S - top
           X == b0 - c0
<1>7. j \in Nat \ {0} /\ k \in Nat \ {0} /\ k <= j /\ m \in Nat /\ X \in Int /\ X * j <= S * m
  <2>1. T + 1 + q = T + (1 + q)
    BY <1>9
  <2> QED
    BY <1>1, <1>6, <1>9, <1>10, <2>1 DEF S
<1> HIDE DEF j, k, m, X
<1>8. X <= Ceil(m * S, k)
  BY <1>1, <1>7, ToleranceBound
<1> QED
  BY <1>8 DEF S, j, k, m, X, c0, q

\* The share h of a buy order's payment.
LEMMA VolumeGainBound ==
  ASSUME NEW h \in Nat, NEW top \in Nat, h <= top, top < SCALE,
         NEW p0 \in Nat, NEW p1 \in Nat, NEW c1 \in Nat, NEW T \in Nat,
         NEW y \in Nat, NEW v \in Nat,
         apply_factor(p0, h) <= y, v <= apply_factor(c1, OfTotal(h)),
         p0 + y <= p1, p1 - c1 <= T
  PROVE  p0 - (c1 - v) <= Ceil((T + 1) * SCALE, SCALE - top)
<1> DEFINE S == SCALE
           g == OfTotal(h)
           c0 == c1 - v
           y0 == apply_factor(p0, h)
           v0 == apply_factor(c1, g)
<1>1. S \in Nat \ {0} /\ c0 \in Int
  BY ScaleAssumption
<1>2. g \in Nat /\ g * (S + h) <= S * h
  BY TotalFacts
<1> HIDE DEF g
<1>3. y0 \in Nat /\ v0 \in Nat /\ h * p0 < S * y0 + S /\ S * v0 <= g * c1 /\ y0 <= y /\ v <= v0
  BY <1>2, FactorFacts DEF g
<1> HIDE DEF S, y0, v0
<1>4. S * y0 <= S * y /\ S * v <= S * v0 /\ S * y0 \in Nat /\ S * y \in Nat /\ S * v \in Nat
      /\ S * v0 \in Nat /\ h * p0 \in Nat /\ g * c1 \in Nat
  BY <1>1, <1>2, <1>3, ProductMonotonic
<1>5. h * p0 < S * y + S /\ S * v <= g * c1
  BY <1>1, <1>3, <1>4
<1>6. (p0 - c0) * (S + h) <= S * (T + 1)
  BY <1>1, <1>2, <1>5, VolumeGain
<1> DEFINE m == T + 1
           j == S + h
           k == S - top
           X == p0 - c0
<1>7. j \in Nat \ {0} /\ k \in Nat \ {0} /\ k <= j /\ m \in Nat /\ X \in Int /\ X * j <= S * m
  BY <1>1, <1>6 DEF S
<1> HIDE DEF j, k, m, X
<1>8. X <= Ceil(m * S, k)
  BY <1>1, <1>7, ToleranceBound
<1> QED
  BY <1>8 DEF S, j, k, m, X

\* The same share in the other direction.
LEMMA VolumeLossBound ==
  ASSUME NEW h \in Nat, NEW top \in Nat, h <= top, top < SCALE,
         NEW p0 \in Nat, NEW p1 \in Nat, NEW c1 \in Nat, NEW A \in Nat, NEW T \in Nat,
         NEW y \in Nat, NEW v \in Nat,
         y <= apply_factor(p0, h), apply_factor(c1, OfTotal(h)) <= v,
         p1 <= p0 + y, c1 - p1 <= T, c1 <= A
  PROVE  c1 - v - p0 <= Ceil((T + (1 + Ceil(A, SCALE))) * SCALE, SCALE - top)
<1> DEFINE S == SCALE
           g == OfTotal(h)
           c0 == c1 - v
           q == Ceil(A, S)
           y0 == apply_factor(p0, h)
           v0 == apply_factor(c1, g)
<1>1. S \in Nat \ {0} /\ c0 \in Int
  BY ScaleAssumption
<1>2. g \in Nat /\ S * h < g * (S + h) + (S + h)
  BY TotalFacts
<1>9. q \in Nat /\ A <= S * q /\ S * q \in Nat
  BY <1>1, CeilFacts
<1> HIDE DEF g, q
<1>3. y0 \in Nat /\ v0 \in Nat /\ S * y0 <= h * p0 /\ g * c1 < S * v0 + S /\ y <= y0 /\ v0 <= v
  BY <1>2, FactorFacts DEF g
<1> HIDE DEF S, y0, v0
<1>4. S * y <= S * y0 /\ S * v0 <= S * v /\ S * y0 \in Nat /\ S * y \in Nat /\ S * v \in Nat
      /\ S * v0 \in Nat /\ h * p0 \in Nat /\ g * c1 \in Nat
  BY <1>1, <1>2, <1>3, ProductMonotonic
<1>5. S * y <= h * p0 /\ g * c1 < S * v + S
  BY <1>1, <1>3, <1>4
<1>10. c1 <= S * q
  BY <1>9
<1>6. (c0 - p0 - (1 + q)) * (S + h) <= S * T
  BY <1>1, <1>2, <1>5, <1>9, <1>10, VolumeLoss
<1> DEFINE a == 1 + q
           j == S + h
           k == S - top
           X == c0 - p0
<1>7. /\ j \in Nat \ {0} /\ k \in Nat \ {0} /\ k <= j /\ k <= S /\ a \in Nat /\ X \in Int
      /\ (X - a) * j <= S * T
  BY <1>1, <1>6, <1>9 DEF S
<1> HIDE DEF j, k, a, X
<1>8. X <= Ceil((T + a) * S, k)
  BY <1>1, <1>7, ToleranceOnTop
<1> QED
  BY <1>8 DEF S, j, k, a, X, q

-----------------------------------------------------------------------------
\* The fee of a policy, of some surplus and volume.
Taken(policy, surplus, volume) ==
  IF policy.kind = "Volume" THEN apply_factor(volume, policy.factor)
  ELSE Smaller(apply_factor(surplus, policy.factor), apply_factor(volume, policy.max_volume_factor))

\* The same fee computed back from the surplus and volume that are left.
OfVolume(side, factor) == IF side = "Sell" THEN OfRemainder(factor) ELSE OfTotal(factor)
Returned(side, policy, surplus, volume) ==
  IF policy.kind = "Volume" THEN apply_factor(volume, OfVolume(side, policy.factor))
  ELSE Smaller(apply_factor(surplus, OfRemainder(policy.factor)),
               apply_factor(volume, OfVolume(side, policy.max_volume_factor)))

\* The largest share that a policy may take.
Top(policy) == Larger(policy.factor, IF policy.kind = "Volume" THEN 0 ELSE policy.max_volume_factor)

\* It is below SCALE and is what NextTolerance divides by.
LEMMA TopFacts ==
  ASSUME NEW policy \in Policy
  PROVE  /\ policy.factor \in Nat /\ policy.max_volume_factor \in Nat
         /\ Top(policy) \in Nat /\ Top(policy) < SCALE /\ policy.factor <= Top(policy)
         /\ policy.kind # "Volume" => policy.max_volume_factor <= Top(policy)
         /\ \A atoms, T : NextTolerance(atoms, policy, T) = Ceil((T + atoms) * SCALE, SCALE - Top(policy))
<1>1. /\ policy.factor \in Nat /\ policy.max_volume_factor \in Nat
      /\ policy.factor < SCALE /\ policy.max_volume_factor < SCALE /\ SCALE \in Nat \ {0}
  BY PolicyType, ScaleAssumption
<1>2. /\ Top(policy) \in Nat /\ Top(policy) < SCALE /\ policy.factor <= Top(policy)
      /\ policy.kind # "Volume" => policy.max_volume_factor <= Top(policy)
  BY <1>1 DEF Top, Larger
<1>3. Kept(policy) = SCALE - Top(policy) /\ Kept(policy) # 0
  BY <1>1, <1>2 DEF Kept, Top
<1>4. \A atoms, T : NextTolerance(atoms, policy, T) = Ceil((T + atoms) * SCALE, SCALE - Top(policy))
  BY <1>3, Zenon DEF NextTolerance, mul_ratio_ceil, Ceil
<1> QED
  BY <1>1, <1>2, <1>4

\* Fees and their factors are amounts.
LEMMA TakenType ==
  ASSUME NEW policy \in Policy, NEW surplus \in Nat, NEW volume \in Nat, NEW side
  PROVE  Taken(policy, surplus, volume) \in Nat /\ Returned(side, policy, surplus, volume) \in Nat
<1>1. /\ policy.factor \in Nat /\ policy.max_volume_factor \in Nat
      /\ policy.factor < SCALE /\ policy.max_volume_factor < SCALE
  BY PolicyType
<1>2. /\ OfRemainder(policy.factor) \in Nat /\ OfRemainder(policy.max_volume_factor) \in Nat
      /\ OfTotal(policy.factor) \in Nat /\ OfTotal(policy.max_volume_factor) \in Nat
  BY <1>1, RemainderFacts, TotalFacts
<1>3. OfVolume(side, policy.factor) \in Nat /\ OfVolume(side, policy.max_volume_factor) \in Nat
  BY <1>2 DEF OfVolume
<1>4. \A x, z \in Nat : Smaller(x, z) \in Nat
  BY DEF Smaller
<1> QED
  BY <1>1, <1>2, <1>3, <1>4, FactorType DEF Taken, Returned

\* A fee is the smaller one of those that are compared.
LEMMA SmallerFacts ==
  ASSUME NEW x \in Nat, NEW z \in Nat
  PROVE  /\ Smaller(x, z) <= x /\ Smaller(x, z) <= z
         /\ x <= Smaller(x, z) \/ z <= Smaller(x, z)
BY DEF Smaller

\* A sell order: what is bought before and after a fee, and what it is computed to be.
LEMMA SellTolerance ==
  ASSUME NEW policy \in Policy, NEW K \in Nat, NEW b0 \in Nat, NEW b1 \in Nat, NEW c1 \in Nat,
         NEW u \in Nat, NEW A \in Nat, NEW T \in Nat, NEW y, NEW v,
         y = Taken(policy, Larger(0, b0 - K), b0), b0 - y <= b1, b1 <= b0 - y + u,
         v = Returned("Sell", policy, Larger(0, c1 - K), c1)
  PROVE  /\ c1 - b1 <= T => c1 + v - b0 <= NextTolerance(1 + u, policy, T)
         /\ b1 - c1 <= T /\ b1 <= A =>
              b0 - (c1 + v) <= NextTolerance(1 + Ceil(A, SCALE), policy, T)
<1> DEFINE f == policy.factor
           x == policy.max_volume_factor
           top == Top(policy)
           R(a) == OfRemainder(a)
           ys == apply_factor(Larger(0, b0 - K), f)
           yv(a) == apply_factor(Larger(0, b0 - 0), a)
           vs == apply_factor(Larger(0, c1 - K), R(f))
           vv(a) == apply_factor(Larger(0, c1 - 0), R(a))
           Up == Ceil((T + (1 + u)) * SCALE, SCALE - top)
           Down == Ceil((T + (1 + Ceil(A, SCALE))) * SCALE, SCALE - top)
<1>1. /\ f \in Nat /\ x \in Nat /\ top \in Nat /\ top < SCALE /\ f <= top /\ f < SCALE /\ x < SCALE
      /\ policy.kind # "Volume" => x <= top
      /\ NextTolerance(1 + u, policy, T) = Up
      /\ NextTolerance(1 + Ceil(A, SCALE), policy, T) = Down
  BY TopFacts, PolicyType
<1>2. /\ Larger(0, b0 - K) \in Nat /\ Larger(0, c1 - K) \in Nat
      /\ Larger(0, b0 - 0) = b0 /\ Larger(0, c1 - 0) = c1
  BY DEF Larger
<1>3. y \in Nat /\ v \in Nat
  BY <1>2, TakenType
<1>4. R(f) \in Nat /\ R(x) \in Nat
  BY <1>1, RemainderFacts
<1>5. ys \in Nat /\ vs \in Nat /\ yv(f) \in Nat /\ vv(f) \in Nat /\ yv(x) \in Nat /\ vv(x) \in Nat
  BY <1>1, <1>2, <1>4, FactorType
<1>6. /\ policy.kind = "Volume" => y = yv(f) /\ v = vv(f)
      /\ policy.kind # "Volume" => y = Smaller(ys, yv(x)) /\ v = Smaller(vs, vv(x))
  BY <1>2 DEF Taken, Returned, OfVolume
<1> HIDE DEF f, x, top, R, ys, yv, vs, vv, Up, Down
<1>10. b0 \in Int /\ b1 \in Int /\ c1 \in Int /\ K \in Int /\ 0 \in Int
  OBVIOUS
<1>7. \/ policy.kind = "Volume" /\ y = yv(f) /\ v = vv(f)
      \/ /\ policy.kind # "Volume" /\ x <= top
         /\ y <= ys /\ y <= yv(x) /\ (ys <= y \/ yv(x) <= y)
         /\ v <= vs /\ v <= vv(x) /\ (vs <= v \/ vv(x) <= v)
  BY <1>1, <1>5, <1>6, SmallerFacts
<1>8. ASSUME c1 - b1 <= T PROVE c1 + v - b0 <= Up
  <2>1. CASE ys <= y /\ v <= vs
    BY <1>1, <1>3, <1>8, <1>10, <2>1, GainBound, Zenon DEF ys, vs, Up, R
  <2>2. ASSUME NEW h \in Nat, h <= top, yv(h) <= y, v <= vv(h) PROVE c1 + v - b0 <= Up
    BY <1>1, <1>3, <1>8, <1>10, <2>2, GainBound, Zenon DEF yv, vv, Up, R
  <2> QED
    BY <1>1, <1>3, <1>5, <1>7, <2>1, <2>2
<1>9. ASSUME b1 - c1 <= T, b1 <= A PROVE b0 - (c1 + v) <= Down
  <2> DEFINE d == Smaller(c1, b1)
  <2>3. d \in Int /\ d <= c1 /\ b1 - d <= T /\ d - K <= A /\ d - 0 <= A
    BY <1>9 DEF Smaller
  <2> HIDE DEF d
  <2>1. CASE y <= ys /\ vs <= v
    BY <1>1, <1>3, <1>10, <2>1, <2>3, LossBound, Zenon DEF ys, vs, Down, R
  <2>2. ASSUME NEW h \in Nat, h <= top, y <= yv(h), vv(h) <= v PROVE b0 - (c1 + v) <= Down
    BY <1>1, <1>3, <1>10, <2>2, <2>3, LossBound, Zenon DEF yv, vv, Down, R
  <2> QED
    BY <1>1, <1>3, <1>5, <1>7, <2>1, <2>2
<1> QED
  BY <1>1, <1>8, <1>9

\* A buy order: what is paid before and after a fee. Surplus grows as payments shrink.
LEMMA BuyTolerance ==
  ASSUME NEW policy \in Policy, NEW K \in Nat, NEW p0 \in Nat, NEW p1 \in Nat, NEW c1 \in Nat,
         NEW A \in Nat, NEW T \in Nat, NEW y, NEW v,
         y = Taken(policy, Larger(0, K - p0), p0), p1 = p0 + y,
         v = Returned("Buy", policy, Larger(0, K - c1), c1)
  PROVE  /\ p1 - c1 <= T => p0 - (c1 - v) <= NextTolerance(1, policy, T)
         /\ c1 - p1 <= T /\ c1 <= A /\ (policy.kind # "Volume" => K <= A) =>
              c1 - v - p0 <= NextTolerance(1 + Ceil(A, SCALE), policy, T)
<1> DEFINE f == policy.factor
           x == policy.max_volume_factor
           top == Top(policy)
           R(a) == OfRemainder(a)
           W(a) == OfTotal(a)
           nb0 == -p0
           nb1 == -p1
           nc1 == -c1
           nK == -K
           ys == apply_factor(Larger(0, nb0 - nK), f)
           yv(a) == apply_factor(p0, a)
           vs == apply_factor(Larger(0, nc1 - nK), R(f))
           vv(a) == apply_factor(c1, W(a))
           Up == Ceil((T + 1) * SCALE, SCALE - top)
           Down == Ceil((T + (1 + Ceil(A, SCALE))) * SCALE, SCALE - top)
<1>1. /\ f \in Nat /\ x \in Nat /\ top \in Nat /\ top < SCALE /\ f <= top /\ f < SCALE /\ x < SCALE
      /\ policy.kind # "Volume" => x <= top
      /\ NextTolerance(1, policy, T) = Up
      /\ NextTolerance(1 + Ceil(A, SCALE), policy, T) = Down
  BY TopFacts, PolicyType
<1>2. /\ Larger(0, K - p0) \in Nat /\ Larger(0, K - c1) \in Nat
      /\ Larger(0, K - p0) = Larger(0, nb0 - nK) /\ Larger(0, K - c1) = Larger(0, nc1 - nK)
  <2>1. nb0 - nK = K - p0 /\ nc1 - nK = K - c1
    OBVIOUS
  <2> HIDE DEF nb0, nc1, nK
  <2> QED
    BY <2>1 DEF Larger
<1>3. y \in Nat /\ v \in Nat
  BY <1>2, TakenType
<1>4. R(f) \in Nat /\ W(f) \in Nat /\ W(x) \in Nat
  BY <1>1, RemainderFacts, TotalFacts
<1>10. /\ nb0 \in Int /\ nb1 \in Int /\ nc1 \in Int /\ nK \in Int /\ 0 \in Nat
       /\ nb1 <= nb0 - y + 0 /\ nb0 - y <= nb1 /\ p0 + y <= p1 /\ p1 <= p0 + y
       /\ nc1 <= nc1
  BY <1>3
<1>12. /\ K <= A => nc1 - nK <= A
       /\ p1 - c1 <= T => nc1 - nb1 <= T
       /\ c1 - p1 <= T => nb1 - nc1 <= T
  BY <1>3
<1>11. nc1 + v - nb0 = p0 - (c1 - v) /\ nb0 - (nc1 + v) = c1 - v - p0 /\ T + (1 + 0) = T + 1
  BY <1>3
<1> HIDE DEF nb0, nb1, nc1, nK
<1>5. ys \in Nat /\ vs \in Nat /\ yv(f) \in Nat /\ vv(f) \in Nat /\ yv(x) \in Nat /\ vv(x) \in Nat
  BY <1>1, <1>2, <1>4, FactorType
<1>6. /\ policy.kind = "Volume" => y = yv(f) /\ v = vv(f)
      /\ policy.kind # "Volume" => y = Smaller(ys, yv(x)) /\ v = Smaller(vs, vv(x))
  BY <1>2 DEF Taken, Returned, OfVolume
<1> HIDE DEF f, x, top, R, W, ys, yv, vs, vv, Up, Down
<1>7. \/ policy.kind = "Volume" /\ y = yv(f) /\ v = vv(f)
      \/ /\ policy.kind # "Volume" /\ x <= top
         /\ y <= ys /\ y <= yv(x) /\ (ys <= y \/ yv(x) <= y)
         /\ v <= vs /\ v <= vv(x) /\ (vs <= v \/ vv(x) <= v)
  BY <1>1, <1>5, <1>6, SmallerFacts
<1>8. ASSUME p1 - c1 <= T PROVE p0 - (c1 - v) <= Up
  <2>1. CASE ys <= y /\ v <= vs
    <3>2. nc1 - nb1 <= T
      BY <1>8, <1>12
    <3>1. nc1 + v - nb0 <= Ceil((T + (1 + 0)) * SCALE, SCALE - top)
      BY <1>1, <1>3, <1>10, <2>1, <3>2, GainBound, Zenon DEF ys, vs, R
    <3> QED
      BY <1>11, <3>1 DEF Up
  <2>2. ASSUME NEW h \in Nat, h <= top, yv(h) <= y, v <= vv(h) PROVE p0 - (c1 - v) <= Up
    BY <1>1, <1>3, <1>8, <1>10, <2>2, VolumeGainBound, Zenon DEF yv, vv, Up, W
  <2> QED
    BY <1>1, <1>3, <1>5, <1>7, <2>1, <2>2
<1>9. ASSUME c1 - p1 <= T, c1 <= A, policy.kind # "Volume" => K <= A PROVE c1 - v - p0 <= Down
  <2>1. CASE y <= ys /\ vs <= v /\ K <= A
    <3>2. nb1 - nc1 <= T /\ nc1 - nK <= A
      BY <1>9, <1>12, <2>1
    <3>1. nb0 - (nc1 + v) <= Down
      BY <1>1, <1>3, <1>10, <2>1, <3>2, LossBound, Zenon DEF ys, vs, Down, R
    <3> QED
      BY <1>11, <3>1
  <2>2. ASSUME NEW h \in Nat, h <= top, y <= yv(h), vv(h) <= v PROVE c1 - v - p0 <= Down
    BY <1>1, <1>3, <1>9, <1>10, <2>2, VolumeLossBound, Zenon DEF yv, vv, Down, W
  <2> QED
    BY <1>1, <1>3, <1>5, <1>7, <1>9, <2>1, <2>2
<1> QED
  BY <1>1, <1>8, <1>9

-----------------------------------------------------------------------------
(* Fees as they are taken.                                                 *)

\* The amount that fees are computed from: what a sell order buys, what a buy order pays.
Moved(f, prices) ==
  IF f.order.side = "Sell" THEN Ceil(f.executed * prices.sell, prices.buy)
  ELSE (f.executed * prices.buy) \div prices.sell + f.fee.amount

\* The executed amount of the settled trade.
Filled(f) == IF f.order.side = "Sell" THEN f.executed + f.fee.amount ELSE f.executed

\* The prices by which it is computed are not zero.
Priced(o, prices) == IF o.side = "Sell" THEN prices.buy # 0 ELSE prices.sell # 0

\* What the reference price of a policy makes of an executed amount.
Reference(o, policy, filled) ==
  LET limits == CHOOSE l \in PriceLimits(o, policy) : TRUE
  IN  IF policy.kind = "Volume" THEN 0
      ELSE IF o.side = "Sell" THEN Ceil(filled * limits.buy, limits.sell)
      ELSE (limits.sell * filled) \div limits.buy

\* What is beyond it.
Over(side, amount, K) == IF side = "Sell" THEN Larger(0, amount - K) ELSE Larger(0, K - amount)

\* It is an amount.
LEMMA OverType ==
  ASSUME NEW side, NEW amount \in Nat, NEW K \in Nat
  PROVE  Over(side, amount, K) \in Nat
BY DEF Over, Larger

\* Both are amounts, and Moved is what buy_amount or sell_amount returns.
LEMMA MovedType ==
  ASSUME NEW o \in Order, NEW f, Valid(f, o), NEW prices \in Amounts, Priced(o, prices)
  PROVE  /\ Moved(f, prices) \in Nat /\ Filled(f) \in Nat
         /\ o.side = "Sell" => buy_amount(f, prices) = {Moved(f, prices)}
         /\ o.side = "Buy" => sell_amount(f, prices) = {Moved(f, prices)}
<1>1. /\ f.order = o /\ f.executed \in Nat /\ f.fee.amount \in Nat /\ prices.sell \in Nat
      /\ prices.buy \in Nat /\ o.side \in {"Buy", "Sell"}
  BY DEF Valid, Amounts, Order
<1>2. Filled(f) \in Nat
  BY <1>1 DEF Filled
<1>3. CASE o.side = "Sell"
  <2>1. prices.buy \in Nat \ {0} /\ f.executed * prices.sell \in Nat
    BY <1>1, <1>3 DEF Priced
  <2>2. Moved(f, prices) = Ceil(f.executed * prices.sell, prices.buy)
    BY <1>1, <1>3 DEF Moved
  <2>3. Moved(f, prices) \in Nat
    BY <2>1, <2>2, CeilFacts
  <2>4. buy_amount(f, prices) = {Moved(f, prices)}
    BY <1>1, <1>3, <2>1, <2>2 DEF buy_amount, checked_ceil_div, Ceil
  <2> QED
    BY <1>2, <1>3, <2>3, <2>4
<1>4. CASE o.side = "Buy"
  <2>1. prices.sell \in Nat \ {0} /\ f.executed * prices.buy \in Nat
    BY <1>1, <1>4 DEF Priced
  <2>2. Moved(f, prices) = (f.executed * prices.buy) \div prices.sell + f.fee.amount
    BY <1>1, <1>4 DEF Moved
  <2>3. (f.executed * prices.buy) \div prices.sell \in Nat
    BY <2>1, Quotient
  <2>4. sell_amount(f, prices) = {Moved(f, prices)}
    BY <1>1, <1>4, <2>1, <2>2 DEF sell_amount, CheckedDiv
  <2> QED
    BY <1>1, <1>2, <1>4, <2>2, <2>3, <2>4
<1> QED
  BY <1>1, <1>3, <1>4

\* A buy order's reference price is not above its limit price.
LEMMA ReferenceBound ==
  ASSUME NEW o \in Order, o.side = "Buy", o.buy # 0, NEW policy \in Policy, NEW filled \in Nat,
         NEW limits \in PriceLimits(o, policy)
  PROVE  (limits.sell * filled) \div limits.buy <= (o.sell * filled) \div o.buy
<1>1. o.sell \in Nat /\ o.buy \in Nat \ {0} /\ limits.sell \in Nat
  BY LimitsType DEF Order, Amounts
<1>2. limits.buy = o.buy /\ limits.sell <= o.sell
  <2>1. CASE policy.kind = "Surplus"
    BY <1>1, <2>1 DEF PriceLimits
  <2>2. CASE policy.kind # "Surplus"
    <3> DEFINE X == CheckedDiv((policy.quote.sell + policy.quote.fee) * o.buy, policy.quote.buy)
    <3>1. PICK x \in X : limits = [sell |-> Smaller(o.sell, x), buy |-> o.buy]
      BY <2>2 DEF PriceLimits, adjust_quote_to_order_limits
    <3>2. limits.sell = Smaller(o.sell, x) /\ limits.buy = o.buy
      BY <3>1
    <3>3. x \in Nat
      <4>1. /\ policy.quote.sell \in Nat /\ policy.quote.fee \in Nat /\ policy.quote.buy \in Nat
        BY DEF Policy
      <4>2. (policy.quote.sell + policy.quote.fee) * o.buy \in Nat
        BY <1>1, <4>1
      <4> QED
        BY <4>1, <4>2, DivAmount DEF Amount
    <3> QED
      BY <1>1, <3>2, <3>3 DEF Smaller
  <2> QED
    BY <2>1, <2>2
<1>3. limits.sell * filled <= o.sell * filled /\ limits.sell * filled \in Nat /\ o.sell * filled \in Nat
  BY <1>1, <1>2, ProductMonotonic
<1> QED
  BY <1>1, <1>2, <1>3, QuotientMonotonic

\* The fee of a policy in numbers.
LEMMA FeeTaken ==
  ASSUME NEW o \in Order, NEW f, Valid(f, o), NEW prices \in Amounts, Priced(o, prices),
         NEW policy \in Policy, NEW y \in protocol_fee(f, prices, policy)
  PROVE  LET K == Reference(o, policy, Filled(f))
             moved == Moved(f, prices)
         IN  /\ K \in Nat /\ y = Taken(policy, Over(o.side, moved, K), moved)
             /\ o.side = "Buy" /\ o.buy # 0 => K <= (o.sell * Filled(f)) \div o.buy
<1> DEFINE K == Reference(o, policy, Filled(f))
           moved == Moved(f, prices)
           V == IF f.order.side = "Buy" THEN sell_amount(f, prices) ELSE buy_amount(f, prices)
<1>1. f.order = o /\ o.side \in {"Buy", "Sell"} /\ f.executed \in Nat /\ f.fee.amount \in Nat
  BY DEF Valid, Order
<1>2. moved \in Nat /\ Filled(f) \in Nat /\ V = {moved}
  BY <1>1, MovedType
<1>3. \A a : \A z \in fee_from_volume(f, prices, a) : z = apply_factor(moved, a)
  BY <1>2 DEF fee_from_volume
<1>4. CASE policy.kind = "Volume"
  <2>1. K = 0
    BY <1>4 DEF Reference
  <2>2. y = apply_factor(moved, policy.factor)
    BY <1>3, <1>4 DEF protocol_fee
  <2>3. ASSUME o.side = "Buy", o.buy # 0 PROVE K <= (o.sell * Filled(f)) \div o.buy
    <3>1. o.sell * Filled(f) \in Nat /\ o.buy \in Nat \ {0}
      BY <1>2, <2>3 DEF Order
    <3> QED
      BY <2>1, <3>1, Quotient
  <2> QED
    BY <1>4, <2>1, <2>2, <2>3 DEF Taken
<1>5. CASE policy.kind # "Volume"
  <2>1. PICK limits \in PriceLimits(o, policy) : y \in calculate_fee(f, limits, prices, policy)
    BY <1>1, <1>5 DEF protocol_fee
  <2>2. limits \in Amounts /\ limits = CHOOSE l \in PriceLimits(o, policy) : TRUE
    BY LimitsType DEF Single
  <2>3. PICK s \in fee_from_surplus(f, limits, prices, policy.factor),
             v \in fee_from_volume(f, prices, policy.max_volume_factor) : y = Smaller(s, v)
    BY <2>1 DEF calculate_fee
  <2>4. PICK z \in surplus_over_reference_price(f, limits, prices) : s = apply_factor(z, policy.factor)
    BY <2>3 DEF fee_from_surplus
  <2>5. K \in Nat /\ z = Over(o.side, moved, K)
    <3>1. limits.sell \in Nat /\ limits.buy \in Nat
      BY <2>2 DEF Amounts
    <3>2. CASE o.side = "Sell"
      <4> DEFINE E == f.executed + f.fee.amount
      <4>1. E \in Nat /\ Filled(f) = E /\ V = buy_amount(f, prices)
        BY <1>1, <3>2 DEF Filled
      <4>2. PICK k \in checked_ceil_div(limits.buy * E, limits.sell) : z = Larger(0, moved - k)
        BY <1>1, <1>2, <2>4, <3>2, <4>1 DEF surplus_over_reference_price
      <4> HIDE DEF E
      <4>3. limits.sell # 0 /\ k = Ceil(limits.buy * E, limits.sell)
        BY <4>2 DEF checked_ceil_div, Ceil
      <4>4. limits.buy * E = E * limits.buy /\ E * limits.buy \in Nat
        BY <3>1, <4>1
      <4>5. K = Ceil(E * limits.buy, limits.sell)
        BY <1>5, <2>2, <3>2, <4>1 DEF Reference
      <4>6. K \in Nat /\ k = K
        BY <3>1, <4>3, <4>4, <4>5, CeilFacts
      <4> QED
        BY <3>2, <4>2, <4>6 DEF Over
    <3>3. CASE o.side = "Buy"
      <4>1. Filled(f) = f.executed /\ V = sell_amount(f, prices)
        BY <1>1, <3>3 DEF Filled
      <4>2. PICK k \in CheckedDiv(limits.sell * f.executed, limits.buy) : z = Larger(0, k - moved)
        BY <1>1, <1>2, <2>4, <3>3, <4>1 DEF surplus_over_reference_price
      <4>3. limits.buy # 0 /\ k = (limits.sell * f.executed) \div limits.buy
        BY <4>2 DEF CheckedDiv
      <4>4. limits.sell * f.executed \in Nat
        BY <1>1, <3>1
      <4>5. K = (limits.sell * f.executed) \div limits.buy
        BY <1>5, <2>2, <3>3, <4>1 DEF Reference
      <4>6. K \in Nat /\ k = K
        BY <3>1, <4>3, <4>4, <4>5, Quotient
      <4> QED
        BY <3>3, <4>2, <4>6 DEF Over
    <3> QED
      BY <1>1, <3>2, <3>3
  <2>6. v = apply_factor(moved, policy.max_volume_factor)
    BY <1>3, <2>3
  <2>7. ASSUME o.side = "Buy", o.buy # 0 PROVE K <= (o.sell * Filled(f)) \div o.buy
    <3>1. K = (limits.sell * Filled(f)) \div limits.buy
      BY <1>5, <2>2, <2>7 DEF Reference
    <3> QED
      BY <1>2, <2>1, <2>7, <3>1, ReferenceBound
  <2> HIDE DEF K, moved
  <2> QED
    BY <1>5, <2>3, <2>4, <2>5, <2>6, <2>7 DEF Taken, K, moved
<1> QED
  BY <1>4, <1>5

\* A fee y in the buy token is taken out of a sell order's execution in the sell token:
\* what is bought shrinks by y, or by less than an atom of the sell token is worth.
LEMMA FeeRounding ==
  ASSUME NEW e \in Nat, NEW ps \in Nat \ {0}, NEW pb \in Nat \ {0}, NEW y \in Nat, NEW x \in Nat,
         x = (y * pb) \div ps, x <= e
  PROVE  LET b0 == Ceil(e * ps, pb)
             b1 == Ceil((e - x) * ps, pb)
         IN  b1 \in Nat /\ b1 <= b0 /\ b0 - y <= b1 /\ b1 <= b0 - y + Ceil(ps, pb)
<1> DEFINE E == e * ps
           X == x * ps
           r == E - X
           yp == y * pb
           b0 == Ceil(E, pb)
           b1 == Ceil(r, pb)
           u == Ceil(ps, pb)
<1>1. E \in Nat /\ X \in Nat /\ yp \in Nat /\ X <= E
  BY ProductMonotonic
<1>2. (e - x) * ps = r /\ r \in Nat /\ r <= E
  <2>1. (e - x) * ps = e * ps - x * ps
    OBVIOUS
  <2> QED
    BY <1>1, <2>1
<1>3. X <= yp /\ yp < X + ps
  <2>1. ps * x <= yp /\ yp < ps * x + ps /\ ps * x = x * ps
    BY <1>1, Quotient
  <2> QED
    BY <2>1
<1> HIDE DEF E, X, r, yp
<1>4. b0 \in Nat /\ E <= pb * b0 /\ pb * b0 < E + pb
  BY <1>1, CeilFacts
<1>5. b1 \in Nat /\ r <= pb * b1 /\ pb * b1 < r + pb
  BY <1>2, CeilFacts
<1>6. u \in Nat /\ ps <= pb * u
  BY CeilFacts
<1>7. b1 <= b0
  BY <1>1, <1>2, CeilMonotonic
<1> HIDE DEF b0, b1, u
<1> DEFINE B0 == pb * b0
           B1 == pb * b1
           U == pb * u
<1>8. B0 \in Nat /\ B1 \in Nat /\ U \in Nat
  BY <1>4, <1>5, <1>6
<1>9. b0 - y <= b1
  <2>1. (b1 + y + 1) * pb = B1 + yp + pb /\ b0 * pb = B0
    BY <1>4, <1>5 DEF yp
  <2>2. b1 + y + 1 \in Nat /\ b0 * pb < (b1 + y + 1) * pb
    <3>1. B0 < E + pb /\ r <= B1 /\ r = E - X
      BY <1>4, <1>5 DEF r
    <3>2. b1 + y + 1 \in Nat
      BY <1>5
    <3> HIDE DEF B0, B1
    <3> QED
      BY <1>1, <1>3, <1>8, <2>1, <3>1, <3>2
  <2>3. b0 < b1 + y + 1
    BY <1>4, <2>2, ProductStrict
  <2> QED
    BY <1>4, <1>5, <2>3
<1>10. b1 <= b0 - y + u
  <2>1. (b1 + y) * pb = B1 + yp /\ (b0 + u + 1) * pb = B0 + U + pb
    BY <1>4, <1>5, <1>6 DEF yp
  <2>2. b1 + y \in Nat /\ b0 + u + 1 \in Nat /\ (b1 + y) * pb < (b0 + u + 1) * pb
    <3>1. E <= B0 /\ B1 < r + pb /\ r = E - X /\ ps <= U
      BY <1>4, <1>5, <1>6 DEF r
    <3>2. b1 + y \in Nat /\ b0 + u + 1 \in Nat
      BY <1>4, <1>5, <1>6
    <3> HIDE DEF B0, B1, U
    <3> QED
      BY <1>1, <1>3, <1>8, <2>1, <3>1, <3>2
  <2>3. b1 + y < b0 + u + 1
    BY <2>2, ProductStrict
  <2> QED
    BY <1>4, <1>5, <1>6, <2>3
<1>11. Ceil(e * ps, pb) = b0 /\ Ceil((e - x) * ps, pb) = b1 /\ Ceil(ps, pb) = u
  BY <1>2 DEF b0, b1, u, E
<1> QED
  BY <1>5, <1>7, <1>9, <1>10, <1>11

\* One policy applied to a fulfillment.
FeeApplied(o, policy, prices, f, g) ==
  LET K == Reference(o, policy, Filled(f))
      b0 == Moved(f, prices)
      b1 == Moved(g, prices)
      y == Taken(policy, Over(o.side, b0, K), b0)
  IN  /\ Valid(g, o) /\ Filled(g) = Filled(f) /\ K \in Nat
      /\ o.side = "Buy" /\ o.buy # 0 => K <= (o.sell * Filled(f)) \div o.buy
      /\ IF o.side = "Sell" THEN /\ prices.sell # 0 /\ b1 <= b0
                                 /\ b0 - y <= b1 /\ b1 <= b0 - y + Ceil(prices.sell, prices.buy)
         ELSE b1 = b0 + y

\* with_protocol_fee applies a policy in this way.
LEMMA FeeStep ==
  ASSUME NEW o \in Order, o.kind = "Limit", NEW f, Valid(f, o),
         NEW prices \in Amounts, Priced(o, prices),
         NEW policy \in Policy, NEW g \in with_protocol_fee(f, prices, policy)
  PROVE  FeeApplied(o, policy, prices, f, g)
<1> DEFINE K == Reference(o, policy, Filled(f))
           b0 == Moved(f, prices)
           b1 == Moved(g, prices)
           z == Taken(policy, Over(o.side, b0, K), b0)
           X == protocol_fee_in_sell_token(f, prices, policy)
<1>1. /\ f.order = o /\ f.executed \in Nat /\ f.fee.amount \in Nat /\ prices.sell \in Nat
      /\ prices.buy \in Nat /\ o.side \in {"Buy", "Sell"} /\ f.fee.dynamic = TRUE
  BY DEF Valid, Amounts, Order, solver_determines_fee
<1>2. Valid(g, o)
  BY FeeValid
<1>3. \A y \in protocol_fee(f, prices, policy) :
        /\ K \in Nat /\ y = z
        /\ o.side = "Buy" /\ o.buy # 0 => K <= (o.sell * Filled(f)) \div o.buy
  BY FeeTaken
<1>4. Amount(X) /\ Amount(protocol_fee(f, prices, policy))
  BY FeeInSellToken, FeeAmount
<1> HIDE DEF K, z
<1>5. CASE o.side = "Buy"
  <2>1. PICK x \in X : g \in Fulfill(o, f.executed, Dynamic(f.fee.amount + x))
    BY <1>1, <1>5 DEF with_protocol_fee
  <2>2. x \in protocol_fee(f, prices, policy)
    BY <1>1, <1>5, <2>1 DEF protocol_fee_in_sell_token
  <2>3. /\ x \in Nat /\ x = z /\ K \in Nat
        /\ o.side = "Buy" /\ o.buy # 0 => K <= (o.sell * Filled(f)) \div o.buy
    BY <1>3, <1>4, <2>2 DEF Amount
  <2>4. g.executed = f.executed /\ g.fee.amount = f.fee.amount + x /\ g.order = o
    <3>1. g = [order |-> o, executed |-> f.executed, fee |-> Dynamic(f.fee.amount + x)]
      BY <2>1, Zenon DEF Fulfill
    <3> QED
      BY <3>1 DEF Dynamic
  <2>5. Filled(g) = Filled(f)
    BY <1>1, <1>5, <2>4 DEF Filled
  <2>6. (f.executed * prices.buy) \div prices.sell \in Nat
    <3>1. f.executed * prices.buy \in Nat /\ prices.sell \in Nat \ {0}
      BY <1>1, <1>5 DEF Priced
    <3> QED
      BY <3>1, Quotient
  <2>7. b1 = b0 + z
    <3> DEFINE q == (f.executed * prices.buy) \div prices.sell
    <3>1. b0 = q + f.fee.amount /\ b1 = q + (f.fee.amount + x)
      BY <1>1, <1>5, <2>4 DEF Moved
    <3> HIDE DEF q
    <3> QED
      BY <1>1, <2>3, <2>6, <3>1 DEF q
  <2> HIDE DEF b0, b1
  <2> QED
    BY <1>2, <1>5, <2>3, <2>5, <2>7 DEF FeeApplied, K, b0, b1, z
<1>6. CASE o.side = "Sell"
  <2>1. PICK x \in X : \E executed \in checked_sub(f.executed, x) :
          g \in Fulfill(o, executed, Dynamic(f.fee.amount + x))
    BY <1>1, <1>6 DEF with_protocol_fee
  <2>2. PICK executed \in checked_sub(f.executed, x) : g \in Fulfill(o, executed, Dynamic(f.fee.amount + x))
    BY <2>1
  <2>3. x \in Nat
    BY <1>4 DEF Amount
  <2>4. x <= f.executed /\ executed = f.executed - x /\ executed \in Nat
    BY <1>1, <2>2, <2>3 DEF checked_sub
  <2>5. g.executed = executed /\ g.fee.amount = f.fee.amount + x /\ g.order = o
    <3>1. g = [order |-> o, executed |-> executed, fee |-> Dynamic(f.fee.amount + x)]
      BY <2>2, Zenon DEF Fulfill
    <3> QED
      BY <3>1 DEF Dynamic
  <2>6. PICK y \in protocol_fee(f, prices, policy) : x \in CheckedDiv(y * prices.buy, prices.sell)
    BY <1>1, <1>6 DEF protocol_fee_in_sell_token
  <2>7. y \in Nat /\ y = z /\ K \in Nat
    BY <1>3, <1>4, <2>6 DEF Amount
  <2>8. prices.sell # 0 /\ x = (y * prices.buy) \div prices.sell
    BY <2>6 DEF CheckedDiv
  <2>9. Filled(g) = Filled(f)
    BY <1>1, <1>6, <2>3, <2>4, <2>5 DEF Filled
  <2>10. /\ b0 = Ceil(f.executed * prices.sell, prices.buy)
         /\ b1 = Ceil((f.executed - x) * prices.sell, prices.buy)
    BY <1>1, <1>6, <2>4, <2>5 DEF Moved
  <2>11. prices.sell \in Nat \ {0} /\ prices.buy \in Nat \ {0}
    BY <1>1, <1>6, <2>8 DEF Priced
  <2> HIDE DEF b0, b1
  <2>12. b1 <= b0 /\ b0 - y <= b1 /\ b1 <= b0 - y + Ceil(prices.sell, prices.buy)
    BY <1>1, <2>3, <2>4, <2>7, <2>8, <2>10, <2>11, FeeRounding, Zenon
  <2> QED
    BY <1>2, <1>6, <2>7, <2>8, <2>9, <2>12 DEF FeeApplied, K, b0, b1, z
<1> QED
  BY <1>1, <1>5, <1>6

-----------------------------------------------------------------------------
(* Fees as they are computed back.                                         *)

\* The trade that executes `filled` of an order for `amount` of the other token.
PriceOf(side, filled, amount) ==
  IF side = "Sell" THEN [sell |-> amount, buy |-> filled] ELSE [sell |-> filled, buy |-> amount]
Trade(o, filled, amount) ==
  [sell |-> o.sell, buy |-> o.buy, side |-> o.side, executed |-> filled,
   custom_price |-> PriceOf(o.side, filled, amount), policies |-> o.protocol_fees]

\* A fulfillment is settled as this trade.
LEMMA Settled ==
  ASSUME NEW o \in Order, NEW f, Valid(f, o), NEW prices \in Amounts,
         NEW t \in SettledTrade(f, prices)
  PROVE  Priced(o, prices) /\ t = Trade(o, Filled(f), Moved(f, prices))
<1>1. /\ f.order = o /\ f.executed \in Nat /\ f.fee.amount \in Nat /\ prices.sell \in Nat
      /\ prices.buy \in Nat /\ o.side \in {"Buy", "Sell"}
  BY DEF Valid, Amounts, Order
<1>2. PICK p \in custom_prices(f, prices) :
        t = [sell |-> o.sell, buy |-> o.buy, side |-> o.side, executed |-> Filled(f),
             custom_price |-> p, policies |-> o.protocol_fees]
  BY <1>1, Zenon DEF SettledTrade, Filled
<1>3. PICK b \in buy_amount(f, prices), s \in sell_amount(f, prices) : p = [sell |-> b, buy |-> s]
  BY <1>2 DEF custom_prices
<1>4. Priced(o, prices)
  <2>1. CASE o.side = "Sell"
    BY <1>1, <1>3, <2>1 DEF Priced, buy_amount, checked_ceil_div
  <2>2. CASE o.side = "Buy"
    BY <1>1, <1>3, <2>2 DEF Priced, sell_amount, CheckedDiv
  <2> QED
    BY <1>1, <2>1, <2>2
<1>5. p = PriceOf(o.side, Filled(f), Moved(f, prices))
  <2>1. CASE o.side = "Sell"
    <3>1. b = Moved(f, prices)
      BY <1>3, <1>4, <2>1, MovedType
    <3>2. s = Filled(f)
      BY <1>1, <1>3, <2>1 DEF sell_amount, Filled
    <3> QED
      BY <1>3, <2>1, <3>1, <3>2 DEF PriceOf
  <2>2. CASE o.side = "Buy"
    <3>1. s = Moved(f, prices)
      BY <1>3, <1>4, <2>2, MovedType
    <3>2. b = Filled(f)
      BY <1>1, <1>3, <2>2 DEF buy_amount, Filled
    <3> QED
      BY <1>3, <2>2, <3>1, <3>2 DEF PriceOf
  <2> QED
    BY <1>1, <2>1, <2>2
<1>6. t = Trade(o, Filled(f), Moved(f, prices))
  BY <1>2, <1>5, Zenon DEF Trade
<1> QED
  BY <1>4, <1>6

\* What limits make of the executed amount.
Scaled(side, limits, filled) ==
  IF side = "Sell" THEN Ceil(filled * limits.buy, limits.sell) ELSE (limits.sell * filled) \div limits.buy

\* The limit of a trade and what was traded.
Compared(o, filled, amount, limits, x) ==
  LET L == Scaled(o.side, limits, filled)
  IN  /\ filled # 0 /\ L \in Nat
      /\ IF o.side = "Sell" THEN limits.sell # 0 ELSE limits.buy # 0
      /\ x = IF o.side = "Sell" THEN <<amount, L>> ELSE <<L, amount>>

\* LimitAndTraded computes just that.
LEMMA LimitOfTrade ==
  ASSUME NEW o \in Order, NEW filled \in Nat, NEW amount \in Nat, NEW limits \in Amounts,
         NEW x \in LimitAndTraded(Trade(o, filled, amount), limits)
  PROVE  Compared(o, filled, amount, limits, x)
<1> DEFINE t == Trade(o, filled, amount)
<1>1. /\ t.side = o.side /\ t.executed = filled /\ o.side \in {"Buy", "Sell"}
      /\ t.custom_price = PriceOf(o.side, filled, amount)
      /\ limits.sell \in Nat /\ limits.buy \in Nat
  BY DEF Trade, Order, Amounts
<1> HIDE DEF t
<1>2. CASE o.side = "Buy"
  <2>1. PICK k \in CheckedDiv(limits.sell * filled, limits.buy),
             z \in CheckedDiv(filled * amount, filled) : x = <<k, z>>
    <3>1. t.custom_price.buy = amount /\ t.custom_price.sell = filled
      BY <1>1, <1>2 DEF PriceOf
    <3> QED
      BY <1>1, <1>2, <3>1 DEF LimitAndTraded, t
  <2>2. /\ limits.buy # 0 /\ k = (limits.sell * filled) \div limits.buy
        /\ filled # 0 /\ z = (filled * amount) \div filled
    BY <2>1 DEF CheckedDiv
  <2>3. z = amount
    BY <2>2, ExactQuotient
  <2>4. limits.sell * filled \in Nat
    BY <1>1
  <2>5. k \in Nat /\ k = Scaled(o.side, limits, filled)
    BY <1>1, <1>2, <2>2, <2>4, Quotient DEF Scaled
  <2> QED
    BY <1>2, <2>1, <2>2, <2>3, <2>5 DEF Compared
<1>3. CASE o.side = "Sell"
  <2>1. PICK k \in checked_ceil_div(filled * limits.buy, limits.sell),
             z \in checked_ceil_div(filled * amount, filled) : x = <<z, k>>
    <3>1. t.custom_price.sell = amount /\ t.custom_price.buy = filled
      BY <1>1, <1>3 DEF PriceOf
    <3> QED
      BY <1>1, <1>3, <3>1 DEF LimitAndTraded, t
  <2>2. /\ limits.sell # 0 /\ k = Ceil(filled * limits.buy, limits.sell)
        /\ filled # 0 /\ z = Ceil(filled * amount, filled)
    BY <2>1 DEF checked_ceil_div, Ceil
  <2>3. z = amount
    BY <2>2, ExactCeil
  <2>4. filled * limits.buy \in Nat
    BY <1>1
  <2>5. k \in Nat /\ k = Scaled(o.side, limits, filled)
    BY <1>1, <1>3, <2>2, <2>4, CeilFacts DEF Scaled
  <2> QED
    BY <1>3, <2>1, <2>2, <2>3, <2>5 DEF Compared
<1> QED
  BY <1>1, <1>2, <1>3

\* The surplus of a trade in numbers.
LEMMA SurplusOfTrade ==
  ASSUME NEW o \in Order, NEW filled \in Nat, NEW amount \in Nat, NEW limits \in Amounts,
         NEW s \in surplus_over(Trade(o, filled, amount), limits)
  PROVE  LET L == Scaled(o.side, limits, filled)
         IN  /\ filled # 0 /\ L \in Nat
             /\ IF o.side = "Sell" THEN limits.sell # 0 ELSE limits.buy # 0
             /\ IF o.side = "Sell" THEN L <= amount /\ s = amount - L
                                   ELSE amount <= L /\ s = L - amount
             /\ s = Over(o.side, amount, L)
<1> DEFINE L == Scaled(o.side, limits, filled)
<1>1. PICK x \in LimitAndTraded(Trade(o, filled, amount), limits) : s \in checked_sub(x[1], x[2])
  BY Zenon DEF surplus_over
<1>5. Compared(o, filled, amount, limits, x)
  BY <1>1, LimitOfTrade
<1>2. /\ filled # 0 /\ L \in Nat /\ o.side \in {"Buy", "Sell"}
      /\ IF o.side = "Sell" THEN limits.sell # 0 ELSE limits.buy # 0
      /\ x = IF o.side = "Sell" THEN <<amount, L>> ELSE <<L, amount>>
  BY <1>5 DEF Compared, Order
<1> HIDE DEF L
<1>3. CASE o.side = "Sell"
  <2>1. s \in checked_sub(amount, L)
    BY <1>1, <1>2, <1>3
  <2>2. L <= amount /\ s = amount - L
    BY <1>2, <2>1 DEF checked_sub
  <2>3. s = Larger(0, amount - L)
    BY <1>2, <2>2 DEF Larger
  <2> QED
    BY <1>2, <1>3, <2>2, <2>3 DEF L, Over
<1>4. CASE o.side = "Buy"
  <2>1. s \in checked_sub(L, amount)
    BY <1>1, <1>2, <1>4
  <2>2. amount <= L /\ s = L - amount
    BY <1>2, <2>1 DEF checked_sub
  <2>3. s = Larger(0, L - amount)
    BY <1>2, <2>2 DEF Larger
  <2> QED
    BY <1>2, <1>4, <2>2, <2>3 DEF L, Over
<1> QED
  BY <1>2, <1>3, <1>4

\* The fee that is computed back in numbers.
LEMMA FeeReturned ==
  ASSUME NEW o \in Order, NEW filled \in Nat, NEW c \in Nat, NEW policy \in Policy,
         NEW fee \in trade_protocol_fee(Trade(o, filled, c), policy)
  PROVE  LET K == Reference(o, policy, filled)
         IN  fee = Returned(o.side, policy, Over(o.side, c, K), c)
<1> DEFINE t == Trade(o, filled, c)
           K == Reference(o, policy, filled)
<1>1. /\ t.side = o.side /\ t.executed = filled /\ o.side \in {"Buy", "Sell"}
      /\ t.custom_price = PriceOf(o.side, filled, c) /\ t.sell = o.sell /\ t.buy = o.buy
      /\ policy.kind \in {"Surplus", "PriceImprovement", "Volume"}
  BY DEF Trade, Order, Policy
<1> HIDE DEF t
<1>2. ASSUME NEW a, NEW v \in volume_fee(t, a) PROVE v = apply_factor(c, OfVolume(o.side, a))
  <2>1. \A z \in CheckedDiv(filled * c, filled) : z = c
    <3> SUFFICES ASSUME NEW z \in CheckedDiv(filled * c, filled) PROVE z = c
      OBVIOUS
    <3>1. filled # 0 /\ z = (filled * c) \div filled
      BY DEF CheckedDiv
    <3> QED
      BY <3>1, ExactQuotient
  <2>2. CASE o.side = "Sell"
    <3>1. t.custom_price.sell = c /\ t.custom_price.buy = filled
      BY <1>1, <2>2 DEF PriceOf
    <3> QED
      BY <1>1, <1>2, <2>1, <2>2, <3>1 DEF volume_fee, OfVolume
  <2>3. CASE o.side = "Buy"
    <3>1. t.custom_price.buy = c /\ t.custom_price.sell = filled
      BY <1>1, <2>3 DEF PriceOf
    <3> QED
      BY <1>1, <1>2, <2>1, <2>3, <3>1 DEF volume_fee, OfVolume
  <2> QED
    BY <1>1, <2>2, <2>3
<1>3. CASE policy.kind = "Volume"
  <2>1. fee \in volume_fee(t, policy.factor)
    BY <1>3 DEF trade_protocol_fee, t
  <2> QED
    BY <1>2, <1>3, <2>1 DEF Returned
<1>4. CASE policy.kind # "Volume"
  <2> DEFINE W == IF policy.kind = "Surplus" THEN surplus_over_limit_price(t)
                                             ELSE price_improvement(t, policy.quote)
  <2>1. PICK s \in W, v \in volume_fee(t, policy.max_volume_factor) :
          fee = Smaller(surplus_fee(s, policy.factor), v)
    BY <1>4 DEF trade_protocol_fee, t
  <2>2. PriceLimits(t, policy) = PriceLimits(o, policy)
    BY <1>1 DEF PriceLimits, adjust_quote_to_order_limits
  <2>3. ASSUME NEW limits \in PriceLimits(o, policy)
        PROVE  limits \in Amounts /\ K = Scaled(o.side, limits, filled)
    <3>1. limits \in Amounts /\ limits = CHOOSE l \in PriceLimits(o, policy) : TRUE
      BY LimitsType DEF Single
    <3> QED
      BY <1>4, <3>1 DEF Reference, Scaled
  <2> HIDE DEF K
  <2>4. s = Over(o.side, c, K)
    <3>1. CASE policy.kind = "Surplus"
      <4> DEFINE limits == [sell |-> o.sell, buy |-> o.buy]
      <4>1. limits \in PriceLimits(o, policy)
        BY <3>1 DEF PriceLimits
      <4>2. s \in surplus_over(t, limits)
        BY <1>1, <2>1, <3>1 DEF surplus_over_limit_price
      <4> HIDE DEF limits
      <4>3. limits \in Amounts /\ K = Scaled(o.side, limits, filled)
        BY <2>3, <4>1
      <4> QED
        BY <4>2, <4>3, SurplusOfTrade DEF t
    <3>2. CASE policy.kind = "PriceImprovement"
      <4>0. PICK limits \in adjust_quote_to_order_limits(t, policy.quote) :
              \E x \in LimitAndTraded(t, limits) : s = Larger(0, x[1] - x[2])
        <5>1. s \in price_improvement(t, policy.quote)
          BY <2>1, <3>2
        <5> QED
          BY <5>1 DEF price_improvement
      <4>1. PICK x \in LimitAndTraded(t, limits) : s = Larger(0, x[1] - x[2])
        BY <4>0
      <4>2. limits \in PriceLimits(o, policy)
        BY <2>2, <3>2, <4>0 DEF PriceLimits
      <4>3. limits \in Amounts /\ K = Scaled(o.side, limits, filled)
        BY <2>3, <4>2
      <4>4. Compared(o, filled, c, limits, x)
        BY <4>1, <4>3, LimitOfTrade DEF t
      <4>5. x = IF o.side = "Sell" THEN <<c, K>> ELSE <<K, c>>
        BY <4>3, <4>4 DEF Compared
      <4> QED
        BY <1>1, <4>1, <4>5 DEF Over
    <3> QED
      BY <1>1, <1>4, <3>1, <3>2
  <2>5. v = apply_factor(c, OfVolume(o.side, policy.max_volume_factor))
    BY <1>2, <2>1
  <2> QED
    BY <1>4, <2>1, <2>4, <2>5 DEF Returned, surplus_fee, K
<1> QED
  BY <1>3, <1>4

\* The amount before the fees that were computed back so far.
WithoutFees(o, amount, fees) == IF o.side = "Sell" THEN amount + fees ELSE amount - fees

\* r has computed back all policies but the first k, and nothing is left out.
Undone(o, filled, amount, k, r) ==
  /\ r.left = k /\ r.amount \in Nat
  /\ k > 0 => /\ WithoutFees(o, amount, r.amount) \in Nat
              /\ r.custom_price = PriceOf(o.side, filled, WithoutFees(o, amount, r.amount))

\* One policy computed back.
LEMMA UndoStep ==
  ASSUME NEW o \in Order, NEW filled \in Nat \ {0}, NEW amount \in Nat, NEW k \in Nat \ {0},
         NEW policy \in Policy, Reference(o, policy, filled) \in Nat,
         NEW r, Undone(o, filled, amount, k, r),
         NEW z \in UndoPolicy(Trade(o, filled, amount), r, policy)
  PROVE  LET c == WithoutFees(o, amount, r.amount)
         IN  /\ Undone(o, filled, amount, k - 1, z)
             /\ z.amount = r.amount
                  + Returned(o.side, policy, Over(o.side, c, Reference(o, policy, filled)), c)
<1> DEFINE t == Trade(o, filled, amount)
           c == WithoutFees(o, amount, r.amount)
           K == Reference(o, policy, filled)
           v == Returned(o.side, policy, Over(o.side, c, K), c)
<1>1. /\ r.left = k /\ r.amount \in Nat /\ c \in Nat /\ r.custom_price = PriceOf(o.side, filled, c)
      /\ o.side \in {"Buy", "Sell"}
  BY DEF Undone, Order
<1>2. [t EXCEPT !.custom_price = r.custom_price] = Trade(o, filled, c)
  BY <1>1 DEF Trade
<1>8. /\ t.side = o.side /\ t.executed = filled /\ t.custom_price = PriceOf(o.side, filled, amount)
  BY DEF Trade
<1> HIDE DEF t, c, K, v
<1>3. PICK fee \in trade_protocol_fee(Trade(o, filled, c), policy) :
        z \in IF r.left = 1 THEN {[r EXCEPT !.amount = @ + fee, !.left = 0]}
              ELSE {[amount |-> r.amount + fee, left |-> r.left - 1, custom_price |-> p] :
                      p \in calculate_custom_prices(t, r.amount + fee)}
  BY <1>2, Zenon DEF UndoPolicy, t
<1>4. fee = v
  BY <1>1, <1>3, FeeReturned DEF K, v
<1>5. v \in Nat
  <2>1. K \in Nat
    BY DEF K
  <2> QED
    BY <1>1, <2>1, OverType, TakenType DEF v
<1>6. CASE k = 1
  <2>1. z = [r EXCEPT !.amount = @ + fee, !.left = 0]
    BY <1>1, <1>3, <1>6
  <2>2. z.amount = r.amount + v /\ z.left = 0
    BY <1>4, <2>1
  <2> QED
    BY <1>1, <1>5, <1>6, <2>2 DEF Undone, c, K, v
<1>7. CASE k # 1
  <2> DEFINE fees == r.amount + v
             b == WithoutFees(o, amount, fees)
  <2>1. PICK p \in calculate_custom_prices(t, fees) : z = [amount |-> fees, left |-> k - 1, custom_price |-> p]
    BY <1>1, <1>3, <1>4, <1>7
  <2>2. z.amount = fees /\ z.left = k - 1 /\ z.custom_price = p /\ fees \in Nat
    BY <1>1, <1>5, <2>1
  <2> HIDE DEF fees
  <2>3. b \in Nat /\ p = PriceOf(o.side, filled, b)
    <3>1. CASE o.side = "Sell"
      <4>1. t.custom_price.sell = amount /\ t.custom_price.buy = filled
        BY <1>8, <3>1 DEF PriceOf
      <4>2. PICK x \in checked_ceil_div(filled * amount, filled) : p = [sell |-> x + fees, buy |-> filled]
        BY <1>8, <2>1, <3>1, <4>1 DEF calculate_custom_prices
      <4>3. x = Ceil(filled * amount, filled)
        BY <4>2 DEF checked_ceil_div, Ceil
      <4>4. x = amount
        BY <4>3, ExactCeil
      <4> QED
        BY <2>2, <3>1, <4>2, <4>4 DEF PriceOf, WithoutFees
    <3>2. CASE o.side = "Buy"
      <4>1. t.custom_price.buy = amount /\ t.custom_price.sell = filled
        BY <1>8, <3>2 DEF PriceOf
      <4>2. PICK x \in CheckedDiv(filled * amount, filled) :
              \E y \in checked_sub(x, fees) : p = [sell |-> filled, buy |-> y]
        BY <1>8, <2>1, <3>2, <4>1 DEF calculate_custom_prices
      <4>3. x = (filled * amount) \div filled
        BY <4>2 DEF CheckedDiv
      <4>4. x = amount
        BY <4>3, ExactQuotient
      <4>5. PICK y \in checked_sub(amount, fees) : p = [sell |-> filled, buy |-> y]
        BY <4>2, <4>4
      <4>6. y = amount - fees /\ y \in Nat
        BY <2>2, <4>5 DEF checked_sub
      <4> QED
        BY <2>2, <3>2, <4>5, <4>6 DEF PriceOf, WithoutFees
    <3> QED
      BY <1>1, <3>1, <3>2
  <2>4. Undone(o, filled, amount, k - 1, z)
    BY <2>2, <2>3 DEF Undone
  <2> QED
    BY <2>2, <2>4 DEF fees, c, K, v
<1> QED
  BY <1>6, <1>7

-----------------------------------------------------------------------------
(* What is taken and what is computed back, policy by policy.              *)

\* c is computed for `amount`: at most `up` in the user's favour and at most `down` against.
Near(o, amount, c, up, down) ==
  IF o.side = "Sell" THEN c - amount <= up /\ amount - c <= down
                     ELSE amount - c <= up /\ c - amount <= down

\* What an atom of the other token is worth, and the most that fees are computed from.
Atom(o, prices) == IF o.side = "Sell" THEN Ceil(prices.sell, prices.buy) ELSE 0
Most(o, prices, f) ==
  IF o.side = "Sell" THEN Moved(f, prices) ELSE (o.sell * Filled(f)) \div o.buy

\* Tolerances are amounts.
LEMMA ToleranceType ==
  ASSUME NEW policy \in Policy, NEW atoms \in Nat, NEW T \in Nat
  PROVE  NextTolerance(atoms, policy, T) \in Nat
<1>1. /\ Top(policy) \in Nat /\ Top(policy) < SCALE /\ SCALE \in Nat \ {0}
      /\ NextTolerance(atoms, policy, T) = Ceil((T + atoms) * SCALE, SCALE - Top(policy))
  BY TopFacts, ScaleAssumption
<1>2. (T + atoms) * SCALE \in Nat /\ SCALE - Top(policy) \in Nat \ {0}
  BY <1>1
<1> QED
  BY <1>1, <1>2, CeilFacts

\* One policy: f0 before and f1 after it; r has computed back the policies after it, z
\* that one too.
LEMMA NearStep ==
  ASSUME NEW o \in Order, NEW prices \in Amounts, Priced(o, prices), NEW policy \in Policy,
         NEW f0, Valid(f0, o), NEW f1, FeeApplied(o, policy, prices, f0, f1),
         Filled(f0) # 0, NEW amount \in Nat, NEW k \in Nat \ {0},
         NEW r, Undone(o, Filled(f0), amount, k, r),
         NEW z \in UndoPolicy(Trade(o, Filled(f0), amount), r, policy),
         NEW most \in Nat,
         IF o.side = "Sell" THEN Moved(f1, prices) <= most
         ELSE o.buy # 0 /\ amount <= most /\ most = (o.sell * Filled(f0)) \div o.buy,
         NEW up \in Nat, NEW down \in Nat,
         Near(o, Moved(f1, prices), WithoutFees(o, amount, r.amount), up, down)
  PROVE  /\ Undone(o, Filled(f0), amount, k - 1, z)
         /\ Near(o, Moved(f0, prices), WithoutFees(o, amount, z.amount),
                 NextTolerance(1 + Atom(o, prices), policy, up),
                 NextTolerance(1 + Ceil(most, SCALE), policy, down))
<1> DEFINE filled == Filled(f0)
           K == Reference(o, policy, filled)
           b0 == Moved(f0, prices)
           b1 == Moved(f1, prices)
           c1 == WithoutFees(o, amount, r.amount)
           c0 == WithoutFees(o, amount, z.amount)
           y == Taken(policy, Over(o.side, b0, K), b0)
           v == Returned(o.side, policy, Over(o.side, c1, K), c1)
<1>1. /\ Valid(f1, o) /\ K \in Nat /\ o.side \in {"Buy", "Sell"} /\ r.amount \in Nat /\ c1 \in Nat
      /\ prices.sell \in Nat /\ prices.buy \in Nat
  BY DEF FeeApplied, Undone, Order, Amounts
<1>2. b0 \in Nat /\ b1 \in Nat /\ filled \in Nat \ {0}
  BY <1>1, MovedType
<1>3. Undone(o, filled, amount, k - 1, z) /\ z.amount = r.amount + v
  BY <1>1, <1>2, UndoStep
<1>4. y \in Nat /\ v \in Nat
  BY <1>1, <1>2, OverType, TakenType
<1>5. CASE o.side = "Sell"
  <2> DEFINE u == Ceil(prices.sell, prices.buy)
  <2>1. b0 - y <= b1 /\ b1 <= b0 - y + u
    BY <1>5 DEF FeeApplied
  <2>2. u \in Nat
    <3>1. prices.buy \in Nat \ {0}
      BY <1>1, <1>5 DEF Priced
    <3> QED
      BY <1>1, <3>1, CeilFacts
  <2>3. /\ y = Taken(policy, Larger(0, b0 - K), b0)
        /\ v = Returned("Sell", policy, Larger(0, c1 - K), c1)
    BY <1>5 DEF Over
  <2>4. c0 = c1 + v
    BY <1>1, <1>3, <1>4, <1>5 DEF WithoutFees
  <2>5. c1 - b1 <= up /\ b1 - c1 <= down /\ b1 <= most
    BY <1>5 DEF Near
  <2> HIDE DEF filled, K, b0, b1, c0, c1, y, v, u
  <2>6. c1 + v - b0 <= NextTolerance(1 + u, policy, up)
    BY <1>1, <1>2, <2>1, <2>2, <2>3, <2>5, SellTolerance, Zenon
  <2>7. b0 - (c1 + v) <= NextTolerance(1 + Ceil(most, SCALE), policy, down)
    BY <1>1, <1>2, <2>1, <2>2, <2>3, <2>5, SellTolerance, Zenon
  <2>8. Near(o, b0, c0, NextTolerance(1 + u, policy, up), NextTolerance(1 + Ceil(most, SCALE), policy, down))
    <3>1. c0 - b0 <= NextTolerance(1 + u, policy, up)
      <4>1. c0 - b0 = c1 + v - b0
        BY <1>1, <1>2, <1>4, <2>4
      <4> QED
        BY <2>6, <4>1, Zenon
    <3>2. b0 - c0 <= NextTolerance(1 + Ceil(most, SCALE), policy, down)
      BY <2>4, <2>7, Zenon
    <3> QED
      BY <1>5, <3>1, <3>2, Zenon DEF Near
  <2> QED
    BY <1>3, <1>5, <2>8 DEF filled, b0, c0, u, Atom
<1>6. CASE o.side = "Buy"
  <2>1. b1 = b0 + y
    BY <1>6 DEF FeeApplied
  <2>2. o.buy # 0 /\ amount <= most /\ most = (o.sell * filled) \div o.buy
    BY <1>6
  <2>3. K <= most
    BY <1>6, <2>2 DEF FeeApplied
  <2>4. /\ y = Taken(policy, Larger(0, K - b0), b0)
        /\ v = Returned("Buy", policy, Larger(0, K - c1), c1)
    BY <1>6 DEF Over
  <2>5. c0 = c1 - v /\ c1 <= amount
    BY <1>1, <1>3, <1>4, <1>6 DEF WithoutFees
  <2>6. b1 - c1 <= up /\ c1 - b1 <= down
    BY <1>6 DEF Near
  <2>7. c1 <= most
    BY <1>1, <2>2, <2>5
  <2> HIDE DEF filled, K, b0, b1, c0, c1, y, v
  <2>8. b0 - (c1 - v) <= NextTolerance(1, policy, up)
    BY <1>1, <1>2, <2>1, <2>4, <2>6, BuyTolerance, Zenon
  <2>9. c1 - v - b0 <= NextTolerance(1 + Ceil(most, SCALE), policy, down)
    BY <1>1, <1>2, <2>1, <2>3, <2>4, <2>6, <2>7, BuyTolerance, Zenon
  <2>10. Near(o, b0, c0, NextTolerance(1, policy, up), NextTolerance(1 + Ceil(most, SCALE), policy, down))
    BY <1>6, <2>5, <2>8, <2>9 DEF Near
  <2>11. 1 + Atom(o, prices) = 1
    BY <1>6 DEF Atom
  <2> QED
    BY <1>3, <2>10, <2>11 DEF filled, b0, c0
<1> QED
  BY <1>1, <1>5, <1>6

\* What the policies leave of f is valid, executes as much and buys no more.
Reached(o, f, prices, h) ==
  /\ Valid(h, o) /\ Filled(h) = Filled(f)
  /\ o.side = "Sell" => Moved(h, prices) <= Moved(f, prices)

\* It holds after each of the policies.
LEMMA FeesApplied ==
  ASSUME NEW o \in Order, o.kind = "Limit", NEW f, Valid(f, o),
         NEW prices \in Amounts, Priced(o, prices),
         NEW F, F[0] = {f},
         \A k \in 1 .. Len(o.protocol_fees) : F[k] = NextPolicy(F[k - 1], prices, o.protocol_fees[k]),
         NEW m \in 0 .. Len(o.protocol_fees)
  PROVE  (\A h \in F[m] : Reached(o, f, prices, h)) /\ Single(F[m])
<1> DEFINE n == Len(o.protocol_fees)
           Good == {k \in Nat : (\A h \in F[k] : Reached(o, f, prices, h)) /\ Single(F[k])}
<1>1. n \in Nat /\ m \in Nat /\ \A k \in 1 .. m : k \in 1 .. n /\ k \in Nat /\ o.protocol_fees[k] \in Policy
  BY DEF Order
<1>2. 0 \in Good
  <2>1. Moved(f, prices) <= Moved(f, prices)
    BY MovedType
  <2> QED
    BY <2>1 DEF Reached, Single
<1>3. ASSUME NEW k \in 1 .. m, k - 1 \in Good PROVE k \in Good
  <2> DEFINE policy == o.protocol_fees[k]
             S == F[k - 1]
  <2>1. policy \in Policy /\ F[k] = NextPolicy(S, prices, policy)
    BY <1>1
  <2>2. (\A g \in S : Reached(o, f, prices, g)) /\ Single(S)
    BY <1>3
  <2> HIDE DEF policy, S
  <2>3. \A h \in F[k] : \E g \in S : h \in with_protocol_fee(g, prices, policy)
    BY <2>1 DEF NextPolicy
  <2>4. ASSUME NEW g \in S, NEW h \in with_protocol_fee(g, prices, policy)
        PROVE  Reached(o, f, prices, h)
    <3>1. Reached(o, f, prices, g) /\ Valid(g, o)
      BY <2>2 DEF Reached
    <3>2. FeeApplied(o, policy, prices, g, h)
      BY <2>1, <3>1, FeeStep
    <3>3. Valid(h, o) /\ Filled(h) = Filled(g) /\ (o.side = "Sell" => Moved(h, prices) <= Moved(g, prices))
      BY <3>2 DEF FeeApplied
    <3>4. Moved(f, prices) \in Nat /\ Moved(g, prices) \in Nat /\ Moved(h, prices) \in Nat
      BY <3>1, <3>3, MovedType
    <3> QED
      BY <3>1, <3>3, <3>4 DEF Reached
  <2>5. \A g \in S : Single(with_protocol_fee(g, prices, policy))
    BY <2>1, <2>2, FeeValid DEF Reached
  <2>6. (\A h \in F[k] : Reached(o, f, prices, h)) /\ Single(F[k])
    <3>1. \A h \in F[k] : Reached(o, f, prices, h)
      BY <2>3, <2>4
    <3>2. Single(F[k])
      BY <2>2, <2>3, <2>5 DEF Single
    <3> QED
      BY <3>1, <3>2
  <2> QED
    BY <1>1, <2>6
<1>4. Inductive(Good, m)
  BY <1>2, <1>3, Zenon DEF Inductive
<1> HIDE DEF Good
<1>5. m \in Good
  BY <1>1, <1>4, StepByStep
<1> QED
  BY <1>5 DEF Good

\* After the first k policies the amount that fees were taken from and the amount that
\* is computed back are near to each other.
Paired(o, prices, filled, amount, F, G, up, down, k) ==
  /\ F[k] # {} /\ up[k] \in Nat /\ down[k] \in Nat
  /\ \A h \in F[k], r \in G[k] :
       /\ Undone(o, filled, amount, k, r)
       /\ Near(o, Moved(h, prices), WithoutFees(o, amount, r.amount), up[k], down[k])

\* If it holds after a policy, it holds before it: NearStep along both folds.
LEMMA PairedStep ==
  ASSUME NEW o \in Order, o.kind = "Limit", NEW f, Valid(f, o),
         NEW prices \in Amounts, Priced(o, prices),
         NEW F, F[0] = {f},
         \A k \in 1 .. Len(o.protocol_fees) : F[k] = NextPolicy(F[k - 1], prices, o.protocol_fees[k]),
         Filled(f) # 0, NEW amount \in Nat, Most(o, prices, f) \in Nat,
         o.side = "Buy" => o.buy # 0 /\ amount <= Most(o, prices, f),
         NEW k \in 1 .. Len(o.protocol_fees), NEW G,
         G[k - 1] = UndoNext(Trade(o, Filled(f), amount), o.protocol_fees[k], G[k]),
         NEW up, NEW down, Paired(o, prices, Filled(f), amount, F, G, up, down, k),
         up[k - 1] = NextTolerance(1 + Atom(o, prices), o.protocol_fees[k], up[k]),
         down[k - 1] = NextTolerance(1 + Ceil(Most(o, prices, f), SCALE), o.protocol_fees[k], down[k])
  PROVE  Paired(o, prices, Filled(f), amount, F, G, up, down, k - 1)
<1> DEFINE policy == o.protocol_fees[k]
           most == Most(o, prices, f)
           filled == Filled(f)
<1>1. /\ policy \in Policy /\ k \in Nat \ {0} /\ k \in 0 .. Len(o.protocol_fees)
      /\ k - 1 \in 0 .. Len(o.protocol_fees) /\ o.side \in {"Buy", "Sell"}
  BY DEF Order
<1>2. F[k] = NextPolicy(F[k - 1], prices, policy)
  OBVIOUS
<1>3. F[k] # {} /\ up[k] \in Nat /\ down[k] \in Nat
  BY DEF Paired
<1>4. PICK h1 \in F[k] : TRUE
  BY <1>3
<1>5. PICK h0 \in F[k - 1] : h1 \in with_protocol_fee(h0, prices, policy)
  BY <1>2, <1>4 DEF NextPolicy
<1>6. (\A h \in F[k - 1] : Reached(o, f, prices, h)) /\ Single(F[k - 1])
  BY <1>1, FeesApplied
<1>7. Reached(o, f, prices, h1)
  BY <1>1, <1>4, FeesApplied
<1>8. Valid(h0, o) /\ Filled(h0) = filled
  BY <1>5, <1>6 DEF Reached
<1>9. FeeApplied(o, policy, prices, h0, h1)
  BY <1>1, <1>5, <1>8, FeeStep
<1>10. up[k - 1] \in Nat /\ down[k - 1] \in Nat
  <2>1. 1 + Atom(o, prices) \in Nat
    <3>1. o.side = "Sell" => prices.sell \in Nat /\ prices.buy \in Nat \ {0}
      BY DEF Priced, Amounts
    <3>2. o.side = "Sell" => Ceil(prices.sell, prices.buy) \in Nat
      BY <3>1, CeilFacts
    <3> QED
      BY <3>2 DEF Atom
  <2>2. /\ up[k - 1] = NextTolerance(1 + Atom(o, prices), policy, up[k])
        /\ down[k - 1] = NextTolerance(1 + Ceil(most, SCALE), policy, down[k])
        /\ most \in Nat
    OBVIOUS
  <2> HIDE DEF policy, most
  <2>3. Ceil(most, SCALE) \in Nat
    BY <2>2, ScaleAssumption, CeilFacts
  <2>4. 1 + Ceil(most, SCALE) \in Nat
    BY <2>3
  <2>5. NextTolerance(1 + Atom(o, prices), policy, up[k]) \in Nat
    BY <1>1, <1>3, <2>1, ToleranceType, Zenon
  <2>6. NextTolerance(1 + Ceil(most, SCALE), policy, down[k]) \in Nat
    BY <1>1, <1>3, <2>4, ToleranceType, Zenon
  <2> QED
    BY <2>2, <2>5, <2>6, Zenon
<1>11. IF o.side = "Sell" THEN Moved(h1, prices) <= most
       ELSE o.buy # 0 /\ amount <= most /\ most = (o.sell * filled) \div o.buy
  <2>1. CASE o.side = "Sell"
    BY <1>7, <2>1 DEF Reached, Most
  <2>2. CASE o.side = "Buy"
    <3>1. most = (o.sell * filled) \div o.buy
      BY <2>2, Zenon DEF Most
    <3> QED
      BY <2>2, <3>1
  <2> QED
    BY <1>1, <2>1, <2>2
<1>12. ASSUME NEW h \in F[k - 1], NEW z \in G[k - 1]
       PROVE  /\ Undone(o, filled, amount, k - 1, z)
              /\ Near(o, Moved(h, prices), WithoutFees(o, amount, z.amount), up[k - 1], down[k - 1])
  <2>1. h = h0
    BY <1>5, <1>6 DEF Single
  <2>2. PICK r \in G[k] : z \in UndoPolicy(Trade(o, filled, amount), r, policy)
    BY DEF UndoNext
  <2>3. /\ Undone(o, filled, amount, k, r)
        /\ Near(o, Moved(h1, prices), WithoutFees(o, amount, r.amount), up[k], down[k])
    BY <1>4, <2>2 DEF Paired
  <2>4. most \in Nat /\ filled # 0
    OBVIOUS
  <2>5. /\ up[k - 1] = NextTolerance(1 + Atom(o, prices), policy, up[k])
        /\ down[k - 1] = NextTolerance(1 + Ceil(most, SCALE), policy, down[k])
    OBVIOUS
  <2> HIDE DEF policy, most, filled
  <2>6. /\ Undone(o, filled, amount, k - 1, z)
        /\ Near(o, Moved(h0, prices), WithoutFees(o, amount, z.amount),
                NextTolerance(1 + Atom(o, prices), policy, up[k]),
                NextTolerance(1 + Ceil(most, SCALE), policy, down[k]))
    BY <1>1, <1>3, <1>8, <1>9, <1>11, <2>2, <2>3, <2>4, NearStep, Zenon
  <2> QED
    BY <2>1, <2>5, <2>6, Zenon
<1> QED
  BY <1>5, <1>10, <1>12 DEF Paired

\* Computing all fees back leads near to the amount of the proposal.
LEMMA Recovered ==
  ASSUME NEW o \in Order, o.kind = "Limit", NEW prices \in Amounts, NEW f, Valid(f, o),
         NEW g \in with_protocol_fees(f, prices), NEW t \in SettledTrade(g, prices),
         NEW s \in surplus_over_limit_price(t), NEW fee \in protocol_fees(t)
  PROVE  /\ Reached(o, f, prices, g) /\ fee \in Nat
         /\ Tolerance(1 + Atom(o, prices), o.protocol_fees) \in Nat
         /\ Tolerance(1 + Ceil(Most(o, prices, f), SCALE), o.protocol_fees) \in Nat
         /\ Near(o, Moved(f, prices), WithoutFees(o, Moved(g, prices), fee),
                 Tolerance(1 + Atom(o, prices), o.protocol_fees),
                 Tolerance(1 + Ceil(Most(o, prices, f), SCALE), o.protocol_fees))
<1> DEFINE policies == o.protocol_fees
           n == Len(policies)
           filled == Filled(f)
           amount == Moved(g, prices)
           limits == [sell |-> o.sell, buy |-> o.buy]
<1>1. /\ f.order = o /\ f.order.protocol_fees \in Seq(Policy) /\ policies \in Seq(Policy) /\ n \in Nat
      /\ o.side \in {"Buy", "Sell"} /\ limits \in Amounts
  BY DEF Valid, Order, Amounts
<1>2. Valid(g, o)
  <2>1. WithFees(f, prices) = with_protocol_fees(f, prices)
    BY <1>1, Zenon DEF WithFees
  <2> QED
    BY <2>1, FeesValid
<1>3. Priced(o, prices) /\ t = Trade(o, Filled(g), amount)
  BY <1>2, Settled
<1>4. PICK F : /\ F[0] = {f}
               /\ \A k \in 1 .. Len(f.order.protocol_fees) :
                    F[k] = NextPolicy(F[k - 1], prices, f.order.protocol_fees[k])
               /\ with_protocol_fees(f, prices) = F[Len(f.order.protocol_fees)]
  <2>1. f.order.protocol_fees \in Seq(Policy)
    BY <1>1
  <2> QED
    BY <2>1, FeesFold, Zenon
<1>5. /\ F[0] = {f} /\ g \in F[n]
      /\ \A k \in 1 .. n : F[k] = NextPolicy(F[k - 1], prices, policies[k])
  BY <1>1, <1>4
<1>6. Reached(o, f, prices, g) /\ Single(F[n])
  <2>1. n \in 0 .. n
    BY <1>1
  <2> QED
    BY <1>3, <1>5, <2>1, FeesApplied
<1>7. amount \in Nat /\ filled \in Nat /\ Filled(g) = filled /\ Moved(f, prices) \in Nat
  BY <1>2, <1>3, <1>6, MovedType DEF Reached
<1>8. t = Trade(o, filled, amount) /\ t.policies = policies
      /\ t.custom_price = PriceOf(o.side, filled, amount)
  BY <1>3, <1>7 DEF Trade
<1>9. s \in surplus_over(Trade(o, filled, amount), limits)
  <2>1. t.sell = o.sell /\ t.buy = o.buy
    BY <1>3 DEF Trade
  <2> QED
    BY <1>8, <2>1 DEF surplus_over_limit_price
<1>10. LET L == Scaled(o.side, limits, filled)
       IN  /\ filled # 0 /\ L \in Nat
           /\ IF o.side = "Sell" THEN limits.sell # 0 ELSE limits.buy # 0
           /\ IF o.side = "Sell" THEN L <= amount /\ s = amount - L
                                 ELSE amount <= L /\ s = L - amount
  <2> HIDE DEF filled, amount, limits
  <2> QED
    BY <1>1, <1>7, <1>9, SurplusOfTrade
<1>11. Most(o, prices, f) \in Nat /\ (o.side = "Buy" => o.buy # 0 /\ amount <= Most(o, prices, f))
  <2>1. CASE o.side = "Sell"
    BY <1>7, <2>1 DEF Most
  <2>2. CASE o.side = "Buy"
    <3>1. Scaled(o.side, limits, filled) = Most(o, prices, f)
      BY <2>2 DEF Scaled, Most
    <3> QED
      BY <1>10, <2>2, <3>1
  <2> QED
    BY <1>1, <2>1, <2>2
<1>12. PICK G : /\ G[Len(t.policies)] =
                    {[amount |-> 0, left |-> Len(t.policies), custom_price |-> t.custom_price]}
                /\ \A k \in 1 .. Len(t.policies) : G[k - 1] = UndoNext(t, t.policies[k], G[k])
                /\ protocol_fees(t) = {r.amount : r \in G[0]}
  BY <1>1, <1>8, UndoFold
<1>13. PICK up : /\ up[Len(policies)] = 0
                 /\ \A k \in 1 .. Len(policies) :
                      up[k - 1] = NextTolerance(1 + Atom(o, prices), policies[k], up[k])
                 /\ Tolerance(1 + Atom(o, prices), policies) = up[0]
  <2> HIDE DEF policies
  <2> QED
    BY <1>1, ToleranceFold, Zenon
<1>14. PICK down : /\ down[Len(policies)] = 0
                   /\ \A k \in 1 .. Len(policies) :
                        down[k - 1] = NextTolerance(1 + Ceil(Most(o, prices, f), SCALE), policies[k], down[k])
                   /\ Tolerance(1 + Ceil(Most(o, prices, f), SCALE), policies) = down[0]
  <2> HIDE DEF policies
  <2> QED
    BY <1>1, ToleranceFold, Zenon
<1>15. /\ G[n] = {[amount |-> 0, left |-> n, custom_price |-> PriceOf(o.side, filled, amount)]}
       /\ \A k \in 1 .. n : G[k - 1] = UndoNext(Trade(o, filled, amount), policies[k], G[k])
       /\ fee \in {r.amount : r \in G[0]}
  BY <1>8, <1>12
<1> DEFINE Good == {j \in Nat : Paired(o, prices, filled, amount, F, G, up, down, n - j)}
<1>16. 0 \in Good
  <2>1. n - 0 = n
    BY <1>1
  <2>2. F[n] # {} /\ up[n] \in Nat /\ down[n] \in Nat /\ up[n] = 0 /\ down[n] = 0
    BY <1>5, <1>13, <1>14
  <2>3. ASSUME NEW h \in F[n], NEW r \in G[n]
        PROVE  /\ Undone(o, filled, amount, n, r)
               /\ Near(o, Moved(h, prices), WithoutFees(o, amount, r.amount), up[n], down[n])
    <3>1. h = g
      BY <1>5, <1>6 DEF Single
    <3>2. r.left = n /\ r.amount = 0 /\ r.custom_price = PriceOf(o.side, filled, amount)
      BY <1>15
    <3>3. WithoutFees(o, amount, r.amount) = amount
      BY <1>7, <3>2 DEF WithoutFees
    <3>4. Undone(o, filled, amount, n, r)
      BY <1>7, <3>2, <3>3 DEF Undone
    <3>5. Near(o, amount, amount, 0, 0)
      BY <1>7 DEF Near
    <3> QED
      BY <2>2, <3>1, <3>3, <3>4, <3>5
  <2>4. Paired(o, prices, filled, amount, F, G, up, down, n)
    BY <2>2, <2>3 DEF Paired
  <2> QED
    BY <2>1, <2>4
<1>17. ASSUME NEW j \in 1 .. n, j - 1 \in Good PROVE j \in Good
  <2> DEFINE k == n - (j - 1)
  <2>1. k \in 1 .. n /\ k - 1 = n - j /\ j \in Nat
    BY <1>1
  <2>2. Paired(o, prices, filled, amount, F, G, up, down, k)
    BY <1>17
  <2>3. /\ G[k - 1] = UndoNext(Trade(o, filled, amount), policies[k], G[k])
        /\ up[k - 1] = NextTolerance(1 + Atom(o, prices), policies[k], up[k])
        /\ down[k - 1] = NextTolerance(1 + Ceil(Most(o, prices, f), SCALE), policies[k], down[k])
    BY <1>13, <1>14, <1>15, <2>1
  <2>5. filled # 0
    BY <1>10
  <2> HIDE DEF k, amount, Good
  <2>4. Paired(o, prices, filled, amount, F, G, up, down, k - 1)
    BY <1>3, <1>5, <1>7, <1>11, <2>1, <2>2, <2>3, <2>5, PairedStep, Zenon
  <2> QED
    BY <2>1, <2>4, Zenon DEF Good
<1>18. Inductive(Good, n)
  BY <1>16, <1>17, Zenon DEF Inductive
<1> HIDE DEF Good
<1>19. n \in Good
  BY <1>1, <1>18, StepByStep
<1>20. Paired(o, prices, filled, amount, F, G, up, down, 0)
  <2>1. n - n = 0
    BY <1>1
  <2>2. Paired(o, prices, filled, amount, F, G, up, down, n - n)
    BY <1>19 DEF Good
  <2> QED
    BY <2>1, <2>2
<1>21. PICK r \in G[0] : fee = r.amount
  BY <1>15
<1>22. /\ Undone(o, filled, amount, 0, r)
       /\ Near(o, Moved(f, prices), WithoutFees(o, amount, r.amount), up[0], down[0])
       /\ up[0] \in Nat /\ down[0] \in Nat
  BY <1>5, <1>20, <1>21 DEF Paired
<1>23. fee \in Nat
  BY <1>21, <1>22 DEF Undone
<1> QED
  BY <1>6, <1>13, <1>14, <1>21, <1>22, <1>23

-----------------------------------------------------------------------------
(* Results and the theorems.                                               *)

\* r comes from an order that was given to the solver.
Computed(r, a, o, prices, f) ==
  /\ ~ is_zero(available(o))
  /\ r = [order |-> o, prices |-> prices, proposed |-> f, settled |-> WithFees(f, prices),
          score |-> UNION {scoring(a, g, prices) : g \in WithFees(f, prices)}]

ResultInv ==
  result # NoResult =>
    \E a \in Id, o \in KnownOrder, prices \in ClearingPrice :
      \E f \in Proposals(o) : Computed(result, a, o, prices, f)

Inv == TypeInv /\ LockInv /\ TasksInv /\ ResultInv

\* The driver's result is computed from an order that a task offered.
LEMMA SolveResult ==
  ASSUME TypeInv, LockInv, TasksInv, NEW s \in Solver, NEW a \in Id, Solve(s, a)
  PROVE  ResultInv'
<1> DEFINE orders == tasks[handler[s][a].task].orders
<1>1. PICK o \in Range(orders), prices \in ClearingPrice : \E f \in Proposals(o) :
        result' = [order |-> o, prices |-> prices, proposed |-> f, settled |-> WithFees(f, prices),
                   score |-> UNION {scoring(a, g, prices) : g \in WithFees(f, prices)}]
  BY Zenon DEF Solve
<1>2. PICK f \in Proposals(o) :
        result' = [order |-> o, prices |-> prices, proposed |-> f, settled |-> WithFees(f, prices),
                   score |-> UNION {scoring(a, g, prices) : g \in WithFees(f, prices)}]
  BY <1>1, Zenon
<1>3. handler[s][a].task \in 1 .. Len(tasks)
  <2>1. handler[s][a].task # 0
    BY DEF Solve, Ready, LockInv
  <2> QED
    BY <2>1 DEF LockInv
<1>4. orders \in Seq(KnownOrder) /\ \A i \in DOMAIN orders : ~ is_zero(available(orders[i]))
  <2>1. tasks[handler[s][a].task] \in Task /\ Tradable(tasks[handler[s][a].task])
    BY <1>3 DEF TypeInv, TasksInv
  <2> QED
    BY <2>1 DEF Task, Tradable
<1> HIDE DEF orders
<1>5. o \in KnownOrder /\ ~ is_zero(available(o))
  BY <1>1, <1>4 DEF Range
<1>6. Computed(result', a, o, prices, f)
  BY <1>2, <1>5, Zenon DEF Computed
<1> QED
  BY <1>1, <1>2, <1>5, <1>6, Zenon DEF ResultInv

\* The invariant holds before the first request.
LEMMA InvInit == SolveInit => Inv
<1> SUFFICES ASSUME SolveInit PROVE Inv
  OBVIOUS
<1>1. TypeInv /\ LockInv
  BY LockInit
<1>2. Len(tasks) = 0
  BY DEF SolveInit, Init
<1>3. TasksInv
  BY <1>2 DEF TasksInv
<1>4. ResultInv
  BY DEF SolveInit, ResultInv
<1> QED
  BY <1>1, <1>3, <1>4 DEF Inv

\* Every step keeps the invariant, one case per action.
LEMMA InvNext == Inv /\ [Next]_vars => Inv'
<1> SUFFICES ASSUME Inv, [Next]_vars PROVE Inv'
  OBVIOUS
<1> USE DEF Inv
<1>1. CASE Publish /\ UNCHANGED result
  <2>1. UNCHANGED <<lock, handler, tasks, result>> /\ published' \in Nat
    BY <1>1 DEF Publish, TypeInv
  <2>2. TypeInv' /\ LockInv'
    BY <2>1 DEF TypeInv, LockInv
  <2> QED
    BY <2>1, <2>2 DEF TasksInv, ResultInv
<1>2. ASSUME NEW s \in Solver, NEW a \in Id, UNCHANGED result,
             RefuseAuction(s, a) \/ GiveUp(s, a)
      PROVE  Inv'
  <2>1. /\ handler' = [handler EXCEPT ![s][a].phase = "ended"] /\ UNCHANGED <<published, lock>>
        /\ tasks' = tasks \/ tasks' = Release(tasks, handler', lock)
    BY <1>2 DEF RefuseAuction, GiveUp
  <2>2. TypeInv' /\ LockInv'
    BY <2>1, EndHandler
  <2>3. TasksInv'
    BY <2>1, EndCovered
  <2> QED
    BY <1>2, <2>2, <2>3 DEF ResultInv
<1>3. ASSUME NEW s \in Solver, NEW a \in Id, UNCHANGED result, prioritize_orders(s, a)
      PROVE  Inv'
  <2>1. TypeInv' /\ LockInv'
    BY <1>3, PrioritizeLock
  <2>2. TasksInv'
    BY <1>3, PrioritizeCovered
  <2> QED
    BY <1>3, <2>1, <2>2 DEF ResultInv
<1>4. ASSUME NEW t \in DOMAIN tasks, UNCHANGED result, RunTask(t)
      PROVE  Inv'
  <2>1. TypeInv' /\ LockInv' /\ TasksInv'
    BY <1>4, RunTaskCovered
  <2> QED
    BY <1>4, <2>1 DEF ResultInv
<1>5. ASSUME NEW s \in Solver, NEW a \in Id, Solve(s, a)
      PROVE  Inv'
  <2>1. /\ handler' = [handler EXCEPT ![s][a].phase = "ended"] /\ UNCHANGED <<published, lock>>
        /\ tasks' = Release(tasks, handler', lock)
    BY <1>5 DEF Solve
  <2>2. TypeInv' /\ LockInv'
    BY <2>1, EndHandler
  <2>3. TasksInv'
    BY <2>1, EndCovered
  <2>4. ResultInv'
    BY <1>5, SolveResult
  <2> QED
    BY <2>2, <2>3, <2>4
<1>6. CASE Answer
  <2>1. UNCHANGED <<published, lock, handler, tasks>> /\ result' = NoResult
    BY <1>6 DEF Answer, apVars
  <2>2. TypeInv' /\ LockInv'
    BY <2>1 DEF TypeInv, LockInv
  <2> QED
    BY <2>1, <2>2 DEF TasksInv, ResultInv, NoResult
<1>7. CASE UNCHANGED vars
  <2>1. UNCHANGED <<published, lock, handler, tasks, result>>
    BY <1>7 DEF vars, apVars
  <2>2. TypeInv' /\ LockInv'
    BY <2>1 DEF TypeInv, LockInv
  <2> QED
    BY <2>1, <2>2 DEF TasksInv, ResultInv
<1> QED
  BY <1>1, <1>2, <1>3, <1>4, <1>5, <1>6, <1>7, Zenon DEF Next, Preprocessing

\* For solutions of every order: what the wallet pays was set aside.
LEMMA ResultPaid == ResultInv => PaidFromAllocation
<1> SUFFICES ASSUME ResultInv, HasResult, UserOrder, result.score # {},
                    NEW g \in result.settled, NEW paid \in sell_amount(g, result.prices)
             PROVE  paid <= available(result.order).sell
  BY DEF PaidFromAllocation
<1>0. PICK a \in Id, o \in KnownOrder, prices \in ClearingPrice :
        \E f \in Proposals(o) : Computed(result, a, o, prices, f)
  BY Zenon DEF ResultInv, HasResult
<1>1. PICK f \in Proposals(o) : Computed(result, a, o, prices, f)
  BY <1>0
<1>2. /\ result.order = o /\ result.prices = prices /\ result.settled = WithFees(f, prices)
      /\ result.score = UNION {scoring(a, h, prices) : h \in WithFees(f, prices)}
      /\ ~ is_zero(available(o))
  BY <1>1 DEF Computed
<1>3. o \in Order /\ prices \in Amounts
  BY Known, ProposalAssumption DEF Amounts
<1>4. Valid(f, o)
  BY <1>3, ProposalValid
<1>5. Valid(g, o) /\ \A h \in WithFees(f, prices) : h = g
  BY <1>2, <1>3, <1>4, FeesValid DEF Single
<1>6. PICK y : y \in scoring(a, g, prices)
  BY <1>2, <1>5
<1>7. PICK t \in SettledTrade(g, prices) : y \in score(t, SurplusPrice(a, g.order))
  <2>1. g.order = o /\ o.kind # "Liquidity"
    BY <1>2, <1>5 DEF Valid, UserOrder
  <2> QED
    BY <1>6, <2>1 DEF scoring
<1>8. surplus_over_limit_price(t) # {}
  BY <1>7 DEF score, native_surplus
<1>9. Keeps(g, prices)
  BY <1>8 DEF Keeps
<1> QED
  BY <1>2, <1>3, <1>5, <1>9, PaidWithin

\* For limit orders without volume fees: a proposal that keeps the limit still does after fees.
LEMMA ResultKeeps == ASSUME UsableQuotes, ResultInv PROVE FeesKeepLimit
<1> SUFFICES ASSUME HasResult, result.order.kind = "Limit", ProposedSurplus # {},
                    \A p \in Range(result.order.protocol_fees) : p.kind # "Volume"
             PROVE  \E f \in result.settled : Keeps(f, result.prices)
  BY DEF FeesKeepLimit, Keeps
<1>0. PICK a \in Id, o \in KnownOrder, prices \in ClearingPrice :
        \E f \in Proposals(o) : Computed(result, a, o, prices, f)
  BY Zenon DEF ResultInv, HasResult
<1>1. PICK f \in Proposals(o) : Computed(result, a, o, prices, f)
  BY <1>0
<1>2. /\ result.order = o /\ result.prices = prices /\ result.settled = WithFees(f, prices)
      /\ result.proposed = f /\ ~ is_zero(available(o))
  BY <1>1 DEF Computed
<1>3. o \in Order /\ prices \in Amounts
  BY Known, ProposalAssumption DEF Amounts
<1>4. Valid(f, o)
  BY <1>3, ProposalValid
<1>5. Keeps(f, prices)
  BY <1>2 DEF ProposedSurplus, Keeps
<1>6. \E g \in WithFees(f, prices) : Keeps(g, prices)
  BY <1>2, <1>3, <1>4, <1>5, FeesKeep
<1> QED
  BY <1>2, <1>6

\* The surplus of the settled trade and the fees that are computed back from it amount to
\* the surplus of the proposal, up to the tolerance.
LEMMA ResultScore == ResultInv => ScoreIsSurplus
<1> DEFINE atomOf == IF result.order.side = "Sell"
                     THEN mul_ratio_ceil(result.prices.sell, 1, result.prices.buy) ELSE 0
<1> SUFFICES ASSUME ResultInv, HasResult, result.order.kind = "Limit",
                    NEW x \in Scored, NEW base \in ProposedSurplus, NEW amount \in ChargedAmount
             PROVE  /\ base <= x + Tolerance(1 + mul_ratio_ceil(amount, 1, SCALE), result.order.protocol_fees)
                    /\ x <= base + Tolerance(1 + atomOf, result.order.protocol_fees)
  BY DEF ScoreIsSurplus
<1>0. PICK a \in Id, o \in KnownOrder, prices \in ClearingPrice :
        \E f \in Proposals(o) : Computed(result, a, o, prices, f)
  BY Zenon DEF ResultInv, HasResult
<1>1. PICK f \in Proposals(o) : Computed(result, a, o, prices, f)
  BY <1>0
<1>2. /\ result.order = o /\ result.prices = prices /\ result.settled = WithFees(f, prices)
      /\ result.proposed = f /\ o.kind = "Limit"
  BY <1>1 DEF Computed
<1>3. o \in Order /\ prices \in Amounts
  BY Known, ProposalAssumption DEF Amounts
<1>4. Valid(f, o) /\ o.side \in {"Buy", "Sell"} /\ o.sell \in Nat /\ o.buy \in Nat
      /\ f.order = o /\ prices.sell \in Nat /\ prices.buy \in Nat
  BY <1>3, ProposalValid DEF Order, Valid, Amounts
<1> DEFINE limits == [sell |-> o.sell, buy |-> o.buy]
           L == Scaled(o.side, limits, Filled(f))
<1>5. PICK t0 \in SettledTrade(f, prices) : base \in surplus_over_limit_price(t0)
  BY <1>2 DEF ProposedSurplus
<1>6. PICK t \in UNION {SettledTrade(g, prices) : g \in WithFees(f, prices)} :
        x \in {s + fee : s \in surplus_over_limit_price(t), fee \in protocol_fees(t)}
  BY <1>2 DEF Scored
<1>7. PICK g \in WithFees(f, prices) : t \in SettledTrade(g, prices)
  BY <1>6
<1>8. PICK s \in surplus_over_limit_price(t), fee \in protocol_fees(t) : x = s + fee
  BY <1>6
<1>9. g \in with_protocol_fees(f, prices) /\ Valid(g, o)
  <2>1. WithFees(f, prices) = with_protocol_fees(f, prices)
    BY <1>2, <1>4, Zenon DEF WithFees
  <2> QED
    BY <1>3, <1>4, <1>7, <2>1, FeesValid
<1> DEFINE U == Tolerance(1 + Atom(o, prices), o.protocol_fees)
           D == Tolerance(1 + Ceil(Most(o, prices, f), SCALE), o.protocol_fees)
           c == WithoutFees(o, Moved(g, prices), fee)
<1>10. /\ Reached(o, f, prices, g) /\ fee \in Nat /\ U \in Nat /\ D \in Nat
       /\ Near(o, Moved(f, prices), c, U, D)
  BY <1>2, <1>3, <1>4, <1>7, <1>8, <1>9, Recovered
<1>11. /\ Priced(o, prices) /\ t0 = Trade(o, Filled(f), Moved(f, prices))
       /\ t = Trade(o, Filled(f), Moved(g, prices))
  BY <1>3, <1>4, <1>5, <1>7, <1>9, <1>10, Settled DEF Reached
<1>12. Moved(f, prices) \in Nat /\ Moved(g, prices) \in Nat /\ Filled(f) \in Nat
  BY <1>3, <1>4, <1>9, <1>11, MovedType
<1>13. /\ base \in surplus_over(Trade(o, Filled(f), Moved(f, prices)), limits)
       /\ s \in surplus_over(Trade(o, Filled(f), Moved(g, prices)), limits)
       /\ limits \in Amounts
  <2>1. t0.sell = o.sell /\ t0.buy = o.buy /\ t.sell = o.sell /\ t.buy = o.buy
    BY <1>11 DEF Trade
  <2>2. limits \in Amounts
    BY <1>4 DEF Amounts
  <2> QED
    BY <1>5, <1>8, <1>11, <2>1, <2>2 DEF surplus_over_limit_price
<1> HIDE DEF limits
<1>14. /\ L \in Nat /\ (o.side = "Buy" => limits.buy # 0)
       /\ base = IF o.side = "Sell" THEN Moved(f, prices) - L ELSE L - Moved(f, prices)
       /\ s = IF o.side = "Sell" THEN Moved(g, prices) - L ELSE L - Moved(g, prices)
  BY <1>3, <1>12, <1>13, SurplusOfTrade
<1>15. amount = Most(o, prices, f) /\ amount \in Nat
  <2>1. CASE o.side = "Sell"
    <3>1. amount \in {Moved(f, prices)}
      BY <1>2, <1>3, <1>4, <1>11, <2>1, MovedType DEF ChargedAmount
    <3> QED
      BY <1>12, <2>1, <3>1 DEF Most
  <2>2. CASE o.side = "Buy"
    <3>1. limits.buy = o.buy /\ limits.sell = o.sell /\ o.buy # 0 /\ Filled(f) = f.executed
      BY <1>4, <1>14, <2>2 DEF limits, Filled
    <3>2. amount \in CheckedDiv(o.sell * Filled(f), o.buy)
      BY <1>2, <2>2, <3>1 DEF ChargedAmount
    <3>3. amount = (o.sell * Filled(f)) \div o.buy
      BY <3>1, <3>2 DEF CheckedDiv
    <3>4. Most(o, prices, f) = (o.sell * Filled(f)) \div o.buy
      BY <2>2, Zenon DEF Most
    <3>5. L = (o.sell * Filled(f)) \div o.buy
      BY <2>2, <3>1 DEF Scaled
    <3> QED
      BY <1>14, <3>3, <3>4, <3>5
  <2> QED
    BY <1>4, <2>1, <2>2
<1>16. atomOf = Atom(o, prices)
  <2>1. CASE o.side = "Sell"
    <3>1. prices.buy # 0
      BY <1>11, <2>1 DEF Priced
    <3>2. prices.sell * 1 = prices.sell
      BY <1>4
    <3> QED
      BY <1>2, <2>1, <3>1, <3>2 DEF Atom, mul_ratio_ceil, Ceil
  <2>2. CASE o.side = "Buy"
    BY <1>2, <2>2 DEF Atom
  <2> QED
    BY <1>4, <2>1, <2>2
<1>17. mul_ratio_ceil(amount, 1, SCALE) = Ceil(Most(o, prices, f), SCALE)
  <2>1. amount * 1 = amount /\ SCALE # 0
    BY <1>15, ScaleAssumption
  <2> QED
    BY <1>15, <2>1, Zenon DEF mul_ratio_ceil, Ceil
<1> HIDE DEF U, D, L, atomOf
<1>18. base <= x + D /\ x <= base + U
  <2>1. CASE o.side = "Sell"
    <3>1. c = Moved(g, prices) + fee
      BY <2>1 DEF WithoutFees
    <3>2. c - Moved(f, prices) <= U /\ Moved(f, prices) - c <= D
      BY <1>10, <2>1, Zenon DEF Near
    <3>3. base = Moved(f, prices) - L /\ s = Moved(g, prices) - L
      BY <1>14, <2>1
    <3> HIDE DEF c
    <3> QED
      BY <1>8, <1>10, <1>12, <1>14, <3>1, <3>2, <3>3
  <2>2. CASE o.side = "Buy"
    <3>1. c = Moved(g, prices) - fee
      BY <2>2 DEF WithoutFees
    <3>2. Moved(f, prices) - c <= U /\ c - Moved(f, prices) <= D
      BY <1>10, <2>2 DEF Near
    <3>3. base = L - Moved(f, prices) /\ s = L - Moved(g, prices)
      BY <1>14, <2>2
    <3> HIDE DEF c
    <3> QED
      BY <1>8, <1>10, <1>12, <1>14, <3>1, <3>2, <3>3
  <2> QED
    BY <1>4, <2>1, <2>2
<1>19. /\ Tolerance(1 + mul_ratio_ceil(amount, 1, SCALE), result.order.protocol_fees) = D
       /\ Tolerance(1 + atomOf, result.order.protocol_fees) = U
  BY <1>2, <1>16, <1>17, Zenon DEF U, D
<1> QED
  BY <1>18, <1>19, Zenon

\* The invariant always holds.
LEMMA InvAlways == Spec => []Inv
BY InvInit, InvNext, PTL DEF Spec

\* All solvers are given the same orders of an auction, unless an outdated request
\* restarted it, and no handler waits for another auction (prioritize_orders).
THEOREM SolversAgree == Spec => []SameForAllSolvers
<1>1. Inv => SameForAllSolvers
  BY LockAgrees DEF Inv
<1> QED
  BY <1>1, InvAlways, PTL

\* What solvers are offered of an account's orders never exceeds the balance that the
\* node reported (fetch_balances, filter_orders), for any orders and balances.
THEOREM OffersAreCovered == Spec => []WithinBalance
<1>1. Inv => WithinBalance
  BY TasksCovered DEF Inv
<1> QED
  BY <1>1, InvAlways, PTL

\* A solution that has a score takes no more from the wallet, fees included, than was
\* set aside for the order, whatever the solver proposes and the policies are.
THEOREM WalletsAreSafe == Spec => []PaidFromAllocation
<1>1. Inv => PaidFromAllocation
  BY ResultPaid DEF Inv
<1> QED
  BY <1>1, InvAlways, PTL

\* Fees from surplus and price improvement (calculate_fee) never push a trade below its
\* limit price, in any number and order, with all their rounding.
THEOREM FeesRespectLimits ==
  ASSUME UsableQuotes
  PROVE  Spec => []FeesKeepLimit
<1>1. Inv => FeesKeepLimit
  BY ResultKeeps DEF Inv
<1> QED
  BY <1>1, InvAlways, PTL

\* The score is what the solver achieved: the surplus of the settled trade and the protocol
\* fees that scoring.rs computes back from it add up to the surplus of the proposal, up to
\* the rounding of each policy, for all amounts, prices, factors and numbers of policies.
THEOREM ScoresAreSurplus == Spec => []ScoreIsSurplus
<1>1. Inv => ScoreIsSurplus
  BY ResultScore DEF Inv
<1> QED
  BY <1>1, InvAlways, PTL
=============================================================================
