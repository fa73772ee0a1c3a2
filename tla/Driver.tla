------------------------------- MODULE Driver -------------------------------
(***************************************************************************)
(* The driver of one solver: its competition and the execution of its      *)
(* settlements, under the calls of the autopilot.                          *)
(***************************************************************************)
EXTENDS Competition, Mempools

CONSTANT SubmissionDeadline   \* the autopilot's submission_deadline, in blocks

ASSUME SubmissionDeadlineAssumption == SubmissionDeadline \in Nat
ASSUME IdsAssumption == Auction = 1..MaxAuction

vars == <<competitionVars, mempoolVars>>

Init == CompetitionInit /\ MempoolsInit

----------------------------------------------------------------------------
Solve(a) ==
  /\ \/ SolverFails(a) \/ Store(a, {}) \/ Store(a, {a}) \/ Void(a) \/ Solved(a)
     \/ DropSolve(a)
  /\ UNCHANGED mempoolVars

Autopilot ==
  /\ \/ StartAuction \/ Win(block + SubmissionDeadline) \/ Reveal \/ Save \/ Abandon
  /\ UNCHANGED mempoolVars

\* Competition::settle
Settle(s) == Take(s) /\ Execute(s, block_deadline)

Settled(s, r) == Answer(s, r) /\ Returns(s, r)

\* The autopilot no longer waits: execute is dropped where it stands.
DropSettle(t) ==
  /\ ~(pc = "wait" /\ t.asked = id)
  /\ Returns(t.settlement, "dropped")
  /\ UNCHANGED competitionVars

\* The process restarts; what it sent stays in the mempools.
Restart ==
  /\ Restarted
  /\ result' = [s \in Auction |-> IF result[s] = "running" THEN "dropped" ELSE result[s]]
  /\ task' = [s \in Auction |-> [m \in Mempool |-> NoTask]]
  /\ deadline' = [s \in Auction |-> 0]
  /\ UNCHANGED <<block, chain>>

Chain ==
  /\ NewBlock(Awaited) \/ \E tx \in sent : Mine(tx)
  /\ UNCHANGED competitionVars

SubmitStep(s, m) == Submit(s, m) /\ UNCHANGED competitionVars

Next ==
  \/ \E a \in Auction : Solve(a)
  \/ Autopilot
  \/ \E s \in Auction : Settle(s)
  \/ \E s \in Auction, r \in {"ok", "err"} : Settled(s, r)
  \/ \E t \in taken : DropSettle(t)
  \/ \E s \in Auction, m \in Mempool : SubmitStep(s, m)
  \/ Chain
  \/ Restart

Spec == Init /\ [][Next]_vars

\* Blocks come while an execution waits for them; every request to a node or
\* mempool has a timeout.  The autopilot and the chain promise nothing else.
FairSpec ==
  /\ Spec
  /\ WF_vars(Awaited /\ NewBlock(TRUE) /\ UNCHANGED competitionVars)
  /\ \A s \in Auction, m \in Mempool : WF_vars(SubmitStep(s, m))
  /\ \A s \in Auction, r \in {"ok", "err"} : WF_vars(Settled(s, r))
  /\ \A s \in Auction : WF_vars(\E t \in taken : t.settlement = s /\ DropSettle(t))

----------------------------------------------------------------------------
(* Properties.                                                             *)

TypeOK == CompetitionTypeOK /\ MempoolsTypeOK

\* An autopilot that is told of a success finds the settlement of its auction
\* executed on chain; a transaction that was mined and reverted is no success.
SuccessIsExecuted ==
  late = {} => \A a \in told : \E tx \in executed : tx.of = a

\* Every execution ends: by the answer of a mempool's task or at the deadline,
\* also if the transaction is never mined and blocks are skipped.
ExecutionEnds ==
  \A s \in Auction : result[s] = "running" ~> result[s] # "running"
============================================================================
