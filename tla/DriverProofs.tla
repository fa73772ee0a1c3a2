---------------------------- MODULE DriverProofs ----------------------------
(* Proofs about Driver, for any number of auctions, mempools and blocks.   *)
EXTENDS Driver, TLAPS

----------------------------------------------------------------------------
(* The competition.                                                        *)

\* The handlers of auctions to come have not started.
Fresh == \A a \in 1..MaxAuction : a > id => solve[a] = "none"

\* The autopilot's auction is one.
Started == pc # "idle" => id \in 1..MaxAuction

\* A voided settlement is not in the slot, and its handler has stored before.
VoidedGone ==
  \A a \in voided : a \notin slot /\ solve[a] \notin {"none", "running"}

\* From the moment the handler of the current auction has stored, the slot holds
\* its settlement or nothing.
SlotCurrent ==
  \/ late # {}
  \/ pc \notin {"compete", "reveal", "save", "settle"}
  \/ pc = "compete" /\ solve[id] \notin {"simulate", "solved"}
  \/ slot \subseteq {id}

SavedFirst == pc = "settle" => id \in saved

CInv ==
  /\ CompetitionTypeOK /\ Fresh /\ Started /\ VoidedGone /\ SlotCurrent /\ SavedFirst
  /\ SettlesWhatWasSaved

LEMMA CompetitionInitCInv == CompetitionInit => CInv
BY MaxAuctionAssumption
   DEF CompetitionInit, CInv, CompetitionTypeOK, Fresh, Started, VoidedGone, SlotCurrent,
       SavedFirst, SettlesWhatWasSaved

\* Storing the result of a handler: it is current, or late is set.
LEMMA StoreCInv ==
  ASSUME CInv, NEW a \in 1..MaxAuction, NEW found \in {{}, {a}}, Store(a, found)
  PROVE  CInv'
<1> USE MaxAuctionAssumption DEF Store, Late, autopilot
<1>1. CompetitionTypeOK'
  BY DEF CInv, CompetitionTypeOK
<1>2. Fresh' /\ Started' /\ SavedFirst'
  BY DEF CInv, CompetitionTypeOK, Fresh, Started, SavedFirst
<1>3. VoidedGone'
  BY DEF CInv, CompetitionTypeOK, VoidedGone
<1>4. SlotCurrent'
  BY DEF CInv, CompetitionTypeOK, SlotCurrent, Expected
<1>5. SettlesWhatWasSaved'
  BY DEF CInv, SettlesWhatWasSaved
<1> QED
  BY <1>1, <1>2, <1>3, <1>4, <1>5 DEF CInv

\* Emptying the slot because of a revert.
LEMMA VoidCInv ==
  ASSUME CInv, NEW a \in 1..MaxAuction, Void(a)
  PROVE  CInv'
<1> USE MaxAuctionAssumption DEF Void, Late, autopilot
<1>1. CompetitionTypeOK'
  BY DEF CInv, CompetitionTypeOK
<1>2. Fresh' /\ Started' /\ SavedFirst'
  BY DEF CInv, CompetitionTypeOK, Fresh, Started, SavedFirst
<1>3. VoidedGone'
  BY DEF CInv, CompetitionTypeOK, VoidedGone
<1>4. SlotCurrent'
  BY DEF SlotCurrent
<1>5. SettlesWhatWasSaved'
  BY DEF CInv, SettlesWhatWasSaved
<1> QED
  BY <1>1, <1>2, <1>3, <1>4, <1>5 DEF CInv

\* The ways in which a handler ends without touching the slot, and a restart.
LEMMA HandlerEndsCInv ==
  ASSUME CInv,
         \/ \E a \in 1..MaxAuction : SolverFails(a) \/ Solved(a) \/ DropSolve(a)
         \/ Restarted
  PROVE  CInv'
<1> USE MaxAuctionAssumption DEF SolverFails, Solved, DropSolve, Restarted, autopilot
<1>1. CompetitionTypeOK'
  BY DEF CInv, CompetitionTypeOK
<1>2. Fresh' /\ Started' /\ SavedFirst'
  BY DEF CInv, CompetitionTypeOK, Fresh, Started, SavedFirst
<1>3. VoidedGone'
  BY DEF CInv, CompetitionTypeOK, VoidedGone
<1>4. SlotCurrent'
  <2>1. CASE Restarted
    <3>1. slot' \subseteq {id}'
      BY <2>1, Zenon DEF Restarted
    <3> QED
      BY <3>1 DEF SlotCurrent
  <2>2. CASE \E a \in 1..MaxAuction : SolverFails(a) \/ Solved(a) \/ DropSolve(a)
    <3>1. UNCHANGED <<late, pc, id, slot>>
      BY <2>2
    <3>2. /\ pc = "compete"
          /\ solve'[id] \in {"simulate", "solved"}
          => solve[id] \in {"simulate", "solved"}
      BY <2>2 DEF CInv, CompetitionTypeOK, Started
    <3> QED
      BY <3>1, <3>2 DEF CInv, SlotCurrent
  <2> QED
    BY <2>1, <2>2
<1>5. SettlesWhatWasSaved'
  BY DEF CInv, SettlesWhatWasSaved
<1> QED
  BY <1>1, <1>2, <1>3, <1>4, <1>5 DEF CInv

\* A new auction: its handler has voided nothing and stored nothing yet.
LEMMA StartCInv ==
  ASSUME CInv, StartAuction
  PROVE  CInv'
<1> USE MaxAuctionAssumption DEF StartAuction
<1>0. id' = id + 1 /\ id + 1 \in 1..MaxAuction /\ solve[id + 1] = "none"
  BY DEF CInv, CompetitionTypeOK, Fresh
<1>1. CompetitionTypeOK'
  BY <1>0 DEF CInv, CompetitionTypeOK
<1>2. Fresh' /\ Started' /\ SavedFirst'
  BY <1>0 DEF CInv, CompetitionTypeOK, Fresh, Started, SavedFirst
<1>3. VoidedGone'
  BY <1>0 DEF CInv, CompetitionTypeOK, VoidedGone
<1>4. SlotCurrent'
  BY <1>0 DEF CInv, CompetitionTypeOK, SlotCurrent
<1>5. SettlesWhatWasSaved'
  BY DEF CInv, SettlesWhatWasSaved
<1> QED
  BY <1>1, <1>2, <1>3, <1>4, <1>5 DEF CInv

\* The autopilot's other steps up to the settle request.
LEMMA AutopilotCInv ==
  ASSUME CInv, NEW d \in Nat, Win(d) \/ Reveal \/ Save \/ Abandon
  PROVE  CInv'
<1> USE MaxAuctionAssumption DEF Win, Reveals, Reveal, Save, Abandon, handlers
<1>1. CompetitionTypeOK'
  BY DEF CInv, CompetitionTypeOK, Started
<1>2. Fresh' /\ Started' /\ SavedFirst'
  BY DEF CInv, CompetitionTypeOK, Fresh, Started, SavedFirst
<1>3. VoidedGone'
  BY DEF CInv, VoidedGone
<1>4. SlotCurrent'
  BY DEF CInv, SlotCurrent
<1>5. SettlesWhatWasSaved'
  BY DEF CInv, SettlesWhatWasSaved
<1> QED
  BY <1>1, <1>2, <1>3, <1>4, <1>5 DEF CInv

\* The settlement that is taken is the current auction's.
LEMMA TakeCInv ==
  ASSUME CInv, NEW s \in 1..MaxAuction, Take(s)
  PROVE  CInv' /\ s \notin voided
<1> USE MaxAuctionAssumption DEF Take
<1>1. CompetitionTypeOK'
  BY DEF CInv, CompetitionTypeOK, Started
<1>2. Fresh' /\ Started' /\ SavedFirst'
  BY DEF CInv, CompetitionTypeOK, Fresh, Started, SavedFirst
<1>3. VoidedGone' /\ s \notin voided
  BY DEF CInv, CompetitionTypeOK, VoidedGone
<1>4. SlotCurrent'
  BY DEF SlotCurrent
<1>5. late = {} => s = id /\ id \in saved
  BY DEF CInv, SlotCurrent, SavedFirst
<1>6. SettlesWhatWasSaved'
  BY <1>5 DEF CInv, SettlesWhatWasSaved
<1> QED
  BY <1>1, <1>2, <1>3, <1>4, <1>6 DEF CInv

LEMMA AnswerCInv ==
  ASSUME CInv, NEW s, NEW r, Answer(s, r)
  PROVE  CInv'
<1> USE MaxAuctionAssumption DEF Answer, handlers
<1>1. CompetitionTypeOK'
  BY DEF CInv, CompetitionTypeOK, Started
<1>2. Fresh' /\ Started' /\ SavedFirst'
  BY DEF CInv, CompetitionTypeOK, Fresh, Started, SavedFirst
<1>3. VoidedGone' /\ SlotCurrent'
  BY DEF CInv, VoidedGone, SlotCurrent
<1>4. SettlesWhatWasSaved'
  BY DEF CInv, SettlesWhatWasSaved
<1> QED
  BY <1>1, <1>2, <1>3, <1>4 DEF CInv

LEMMA StutterCInv ==
  ASSUME CInv, UNCHANGED competitionVars
  PROVE  CInv'
BY DEF competitionVars, CInv, CompetitionTypeOK, Fresh, Started, VoidedGone, SlotCurrent,
       SavedFirst, SettlesWhatWasSaved

----------------------------------------------------------------------------
(* The mempools.                                                           *)

\* A hash stands for a nonce the account has used or uses next.
HashKnown == \A s \in Auction, m \in Mempool : task[s][m].hash <= nonce

\* ExpiredIsCancelled, from the cancellation on.
Cancelled(t) ==
  t.pc \in {"look", "err"} /\ t.error \in {"expired", "sim_revert"} /\ t.hash >= nonce =>
    [of |-> Cancellation, nonce |-> t.hash] \in sent

TasksCancelled == \A s \in Auction, m \in Mempool : Cancelled(task[s][m])

OkExecuted ==
  \A s \in Auction, m \in Mempool :
    task[s][m].pc = "ok" => \E tx \in executed : tx.of = s

MInv == MempoolsTypeOK /\ HashKnown /\ TasksCancelled /\ OkExecuted

LEMMA NoTaskType == NoTask \in Task /\ NoTask.pc = "idle" /\ NoTask.hash = 0
BY DEF NoTask, Task, Pcs, Errors

LEMMA MempoolsInitMInv == MempoolsInit => MInv
<1> SUFFICES ASSUME MempoolsInit PROVE MInv
  OBVIOUS
<1>1. MempoolsTypeOK
  BY NoTaskType DEF MempoolsInit, MempoolsTypeOK
<1>2. \A s \in Auction, m \in Mempool : task[s][m] = NoTask
  BY DEF MempoolsInit
<1>3. HashKnown /\ TasksCancelled /\ OkExecuted
  BY <1>2, NoTaskType DEF MempoolsInit, HashKnown, TasksCancelled, Cancelled, OkExecuted
<1> QED
  BY <1>1, <1>3 DEF MInv

\* What a step of a task must satisfy to keep the invariant.
LEMMA BecomesMInv ==
  ASSUME MInv, NEW s \in Auction, NEW m \in Mempool, NEW t \in Task, Becomes(s, m, t),
         UNCHANGED <<nonce, executed, reverted>>, sent \subseteq sent', sent' \subseteq Tx,
         t.hash <= nonce,
         t.pc \in {"look", "err"} /\ t.error \in {"expired", "sim_revert"} /\ t.hash >= nonce
           => [of |-> Cancellation, nonce |-> t.hash] \in sent',
         t.pc = "ok" => \E tx \in executed : tx.of = s
  PROVE  MInv'
<1> USE DEF Becomes
<1>1. MempoolsTypeOK'
  BY DEF MInv, MempoolsTypeOK
<1>2. \A s2 \in Auction, m2 \in Mempool :
        task'[s2][m2] = IF s2 = s /\ m2 = m THEN t ELSE task[s2][m2]
  BY DEF MInv, MempoolsTypeOK
<1>3. HashKnown'
  BY <1>2 DEF MInv, HashKnown
<1>4. TasksCancelled'
  BY <1>2 DEF MInv, TasksCancelled, Cancelled
<1>5. OkExecuted'
  BY <1>2 DEF MInv, OkExecuted
<1> QED
  BY <1>1, <1>3, <1>4, <1>5 DEF MInv

\* Every step of a task does.
LEMMA SubmitMInv ==
  ASSUME MInv, NEW s \in Auction, NEW m \in Mempool, Submit(s, m)
  PROVE  MInv'
<1>1. task[s][m] \in Task /\ block \in Nat /\ nonce \in Nat /\ sent \subseteq Tx
  BY DEF MInv, MempoolsTypeOK
<1>2. task[s][m].hash <= nonce
  BY DEF MInv, HashKnown
<1>3. Cancelled(task[s][m])
  BY DEF MInv, TasksCancelled
<1> DEFINE tx == [of |-> s, nonce |-> nonce]
           cancel == [of |-> Cancellation, nonce |-> nonce]
<1>4. tx \in Tx /\ cancel \in Tx
  BY <1>1 DEF Tx
<1>5. CASE SubmitTx(s, m)
  <2> DEFINE u == [task[s][m] EXCEPT !.pc = "wait", !.hash = nonce]
  <2>0. u \in Task /\ u.pc = "wait" /\ u.hash = nonce
    BY <1>1 DEF Task, Pcs
  <2>1. PICK t \in Task : Becomes(s, m, t) /\ t.pc = "wait" /\ t.hash = nonce
    BY <1>5, <2>0, Zenon DEF SubmitTx
  <2>2. /\ UNCHANGED <<nonce, executed, reverted>>
        /\ sent \subseteq sent' /\ sent' \subseteq Tx
    BY <1>1, <1>4, <1>5 DEF SubmitTx
  <2>3. t.hash <= nonce
    BY <1>1, <2>1
  <2>4. t.pc \notin {"look", "err"} /\ t.pc # "ok"
    BY <2>1
  <2> QED
    BY <2>1, <2>2, <2>3, <2>4, BecomesMInv
<1>6. CASE SubmitFails(s, m)
  <2> DEFINE u == [NoTask EXCEPT !.pc = "err", !.error = "other"]
  <2>0. u \in Task /\ u.error = "other" /\ u.pc = "err" /\ u.hash = 0
    BY DEF NoTask, Task, Pcs, Errors
  <2>1. PICK t \in Task : Becomes(s, m, t) /\ t.error = "other" /\ t.pc = "err" /\ t.hash = 0
    BY <1>6, <2>0, Zenon DEF SubmitFails
  <2>2. /\ UNCHANGED <<nonce, executed, reverted>>
        /\ sent \subseteq sent' /\ sent' \subseteq Tx
    BY <1>1, <1>4, <1>6 DEF SubmitFails
  <2>3. t.hash <= nonce
    BY <1>1, <2>1
  <2>4. t.error \notin {"expired", "sim_revert"} /\ t.pc # "ok"
    BY <2>1
  <2> QED
    BY <2>1, <2>2, <2>3, <2>4, BecomesMInv
<1>7. CASE SeeBlock(s, m)
  <2>1. [task[s][m] EXCEPT !.pc = "status", !.seen = block] \in Task
    BY <1>1 DEF Task, Pcs
  <2> QED
    BY <1>1, <1>2, <1>7, <2>1, BecomesMInv DEF SeeBlock, Task, chain
<1>8. CASE SeeExecuted(s, m) \/ FindConfirmed(s, m)
  <2>1. PICK t \in Task : Becomes(s, m, t) /\ t.pc = "ok" /\ t.hash = 0
    BY <1>8 DEF SeeExecuted, FindConfirmed, NoTask, Task, Pcs, Errors
  <2>2. \E e \in executed : e.of = s
    BY <1>8 DEF SeeExecuted, FindConfirmed, Hash
  <2>3. UNCHANGED <<nonce, executed, reverted, sent>>
    BY <1>8 DEF SeeExecuted, FindConfirmed, chain
  <2>4. t.hash <= nonce
    BY <1>1, <2>1
  <2>5. t.pc \notin {"look", "err"}
    BY <2>1
  <2>6. sent \subseteq sent' /\ sent' \subseteq Tx
    BY <1>1, <2>3
  <2> QED
    BY <2>1, <2>2, <2>3, <2>4, <2>5, <2>6, BecomesMInv
<1>9. CASE SeeReverted(s, m)
  <2>1. [task[s][m] EXCEPT !.pc = "look", !.seen = 0, !.error = "other"] \in Task
    BY <1>1 DEF Task, Pcs, Errors
  <2> QED
    BY <1>1, <1>2, <1>9, <2>1, BecomesMInv DEF SeeReverted, Task, chain
<1>10. CASE SeePending(s, m)
  <2>1. /\ [task[s][m] EXCEPT !.pc = "cancel", !.seen = 0, !.error = "expired"] \in Task
        /\ [task[s][m] EXCEPT !.pc = "simulate"] \in Task
    BY <1>1 DEF Task, Pcs, Errors
  <2> QED
    BY <1>1, <1>2, <1>10, <2>1, BecomesMInv DEF SeePending, Task, chain
<1>11. CASE StillSimulates(s, m)
  <2>1. [task[s][m] EXCEPT !.pc = "wait"] \in Task
    BY <1>1 DEF Task, Pcs
  <2> QED
    BY <1>1, <1>2, <1>11, <2>1, BecomesMInv DEF StillSimulates, Task, chain
<1>12. CASE StartsReverting(s, m)
  <2>1. [task[s][m] EXCEPT !.pc = "cancel", !.seen = 0, !.error = "sim_revert"] \in Task
    BY <1>1 DEF Task, Pcs, Errors
  <2> QED
    BY <1>1, <1>2, <1>12, <2>1, BecomesMInv DEF StartsReverting, Task, chain
<1>13. CASE Cancel(s, m)
  <2>1. [task[s][m] EXCEPT !.pc = "look"] \in Task
    BY <1>1 DEF Task, Pcs
  <2>2. task[s][m].hash >= nonce => task[s][m].hash = nonce
    BY <1>1, <1>2 DEF Task
  <2> QED
    BY <1>1, <1>2, <1>4, <1>13, <2>1, <2>2, BecomesMInv DEF Cancel, Task
<1>14. CASE CancelFails(s, m)
  <2>1. [task[s][m] EXCEPT !.pc = "look", !.error = "other"] \in Task
    BY <1>1 DEF Task, Pcs, Errors
  <2>2. sent \subseteq sent' /\ sent' \subseteq Tx
    BY <1>1, <1>4, <1>14 DEF CancelFails
  <2> QED
    BY <1>1, <1>2, <1>14, <2>1, <2>2, BecomesMInv DEF CancelFails, Task
<1>15. CASE GiveUp(s, m)
  <2>1. [task[s][m] EXCEPT !.pc = "err"] \in Task
    BY <1>1 DEF Task, Pcs
  <2> QED
    BY <1>1, <1>2, <1>3, <1>15, <2>1, BecomesMInv DEF GiveUp, At, Cancelled, Task, chain
<1> QED
  BY <1>5, <1>6, <1>7, <1>8, <1>9, <1>10, <1>11, <1>12, <1>13, <1>14, <1>15 DEF Submit

\* Starting an execution, and ending it.
LEMMA ExecuteMInv ==
  ASSUME MInv, NEW s \in Auction, NEW d \in Nat, Execute(s, d)
  PROVE  MInv'
<1> USE DEF Execute, chain
<1>1. \A m \in Mempool : /\ Starts(s, m) \in Task
                         /\ Starts(s, m).hash = 0
                         /\ Starts(s, m).error \in {"other", "none"}
                         /\ Starts(s, m).pc # "ok"
  BY DEF MInv, MempoolsTypeOK, Starts, NoTask, Task, Pcs, Errors
<1>2. MempoolsTypeOK'
  BY <1>1 DEF MInv, MempoolsTypeOK
<1>3. \A s2 \in Auction, m \in Mempool :
        task'[s2][m] = IF s2 = s THEN Starts(s, m) ELSE task[s2][m]
  BY DEF MInv, MempoolsTypeOK
<1>4. HashKnown'
  BY <1>1, <1>3 DEF MInv, MempoolsTypeOK, HashKnown
<1>5. TasksCancelled'
  BY <1>1, <1>3 DEF MInv, TasksCancelled, Cancelled
<1>6. OkExecuted'
  BY <1>1, <1>3 DEF MInv, OkExecuted
<1> QED
  BY <1>2, <1>4, <1>5, <1>6 DEF MInv

LEMMA ReturnsMInv ==
  ASSUME MInv, NEW s \in Auction, NEW r \in {"ok", "err", "dropped"}, Returns(s, r)
  PROVE  MInv'
<1> USE NoTaskType DEF Returns, chain
<1>1. MempoolsTypeOK'
  BY DEF MInv, MempoolsTypeOK
<1>2. \A s2 \in Auction, m \in Mempool :
        task'[s2][m] = IF s2 = s THEN NoTask ELSE task[s2][m]
  BY DEF MInv, MempoolsTypeOK
<1>3. HashKnown'
  BY <1>2 DEF MInv, MempoolsTypeOK, HashKnown
<1>4. TasksCancelled'
  BY <1>2 DEF MInv, TasksCancelled, Cancelled
<1>5. OkExecuted'
  BY <1>2 DEF MInv, OkExecuted
<1> QED
  BY <1>1, <1>3, <1>4, <1>5 DEF MInv

\* The chain: nonces only grow, receipts stay.
LEMMA ChainMInv ==
  ASSUME MInv, NewBlock(Awaited) \/ \E tx \in sent : Mine(tx)
  PROVE  MInv' /\ executed \subseteq executed'
<1> USE DEF NewBlock, Mine, chain
<1>1. MempoolsTypeOK' /\ executed \subseteq executed'
  BY DEF MInv, MempoolsTypeOK
<1>2. nonce' >= nonce /\ nonce' \in Nat /\ nonce \in Nat
  BY DEF MInv, MempoolsTypeOK
<1>3. \A s \in Auction, m \in Mempool : task[s][m].hash \in Nat
  BY DEF MInv, MempoolsTypeOK, Task
<1>4. HashKnown'
  BY <1>2, <1>3 DEF MInv, HashKnown
<1>5. TasksCancelled'
  BY <1>2, <1>3 DEF MInv, TasksCancelled, Cancelled
<1>6. OkExecuted'
  BY <1>1 DEF MInv, OkExecuted
<1> QED
  BY <1>1, <1>4, <1>5, <1>6 DEF MInv

LEMMA RestartMInv ==
  ASSUME MInv, Restart
  PROVE  MInv'
<1> USE NoTaskType DEF Restart, chain
<1>1. MempoolsTypeOK'
  BY DEF MInv, MempoolsTypeOK
<1>2. \A s \in Auction, m \in Mempool : task'[s][m] = NoTask
  BY DEF MInv, MempoolsTypeOK
<1>3. HashKnown' /\ TasksCancelled' /\ OkExecuted'
  BY <1>2 DEF MInv, MempoolsTypeOK, HashKnown, TasksCancelled, Cancelled, OkExecuted
<1> QED
  BY <1>1, <1>3 DEF MInv

LEMMA StutterMInv ==
  ASSUME MInv, UNCHANGED mempoolVars
  PROVE  MInv'
BY DEF mempoolVars, chain, MInv, MempoolsTypeOK, HashKnown, TasksCancelled, Cancelled,
       OkExecuted

----------------------------------------------------------------------------
(* The driver.                                                             *)

IInv == CInv /\ MInv /\ SuccessIsExecuted

LEMMA InitIInv == Init => IInv
<1> SUFFICES ASSUME Init PROVE IInv
  OBVIOUS
<1>1. CInv /\ MInv
  BY CompetitionInitCInv, MempoolsInitMInv DEF Init
<1>2. SuccessIsExecuted
  BY DEF Init, CompetitionInit, SuccessIsExecuted
<1> QED
  BY <1>1, <1>2 DEF IInv

\* Steps that tell the autopilot nothing and remove no receipt.
LEMMA SuccessStays ==
  ASSUME SuccessIsExecuted, told' = told, executed \subseteq executed', late \subseteq late'
  PROVE  SuccessIsExecuted'
BY DEF SuccessIsExecuted

\* A step keeps the invariant, and takes no voided settlement.
LEMMA NextIInv ==
  ASSUME IInv, [Next]_vars
  PROVE  IInv' /\ \A t \in taken' \ taken : t.settlement \notin voided
<1> USE MaxAuctionAssumption, IdsAssumption
<1>0. CInv /\ MInv /\ SuccessIsExecuted
  BY DEF IInv
<1>1. ASSUME NEW a \in Auction, Solve(a)
      PROVE  IInv' /\ taken' = taken
  <2>1. CInv'
    BY <1>0, <1>1, StoreCInv, VoidCInv, HandlerEndsCInv DEF Solve
  <2>2. MInv' /\ executed' = executed
    BY <1>0, <1>1, StutterMInv DEF Solve, mempoolVars, chain
  <2>3. told' = told /\ taken' = taken /\ late \subseteq late'
    BY <1>1 DEF Solve, SolverFails, Store, Void, Solved, DropSolve, autopilot
  <2> QED
    BY <1>0, <2>1, <2>2, <2>3, SuccessStays DEF IInv
<1>2. ASSUME Autopilot
      PROVE  IInv' /\ taken' = taken
  <2>1. block + SubmissionDeadline \in Nat
    BY <1>0, SubmissionDeadlineAssumption DEF MInv, MempoolsTypeOK
  <2>2. CInv'
    BY <1>0, <1>2, <2>1, StartCInv, AutopilotCInv DEF Autopilot
  <2>3. MInv' /\ executed' = executed
    BY <1>0, <1>2, StutterMInv DEF Autopilot, mempoolVars, chain
  <2>4. told' = told /\ taken' = taken /\ late' = late
    BY <1>2 DEF Autopilot, StartAuction, Win, Reveal, Save, Abandon, handlers
  <2> QED
    BY <1>0, <2>2, <2>3, <2>4, SuccessStays DEF IInv
<1>3. ASSUME NEW s \in Auction, Settle(s)
      PROVE  IInv' /\ \A t \in taken' \ taken : t.settlement \notin voided
  <2>1. CInv' /\ s \notin voided
    BY <1>0, <1>3, TakeCInv DEF Settle
  <2>2. block_deadline \in Nat
    BY <1>0 DEF CInv, CompetitionTypeOK
  <2>3. MInv' /\ executed' = executed
    BY <1>0, <1>3, <2>2, ExecuteMInv DEF Settle, Execute, chain
  <2>4. told' = told /\ late' = late
    BY <1>3 DEF Settle, Take
  <2>5. \A t \in taken' \ taken : t.settlement = s
    BY <1>3 DEF Settle, Take
  <2> QED
    BY <1>0, <2>1, <2>3, <2>4, <2>5, SuccessStays DEF IInv
<1>4. ASSUME NEW s \in Auction, NEW r \in {"ok", "err"}, Settled(s, r)
      PROVE  IInv' /\ taken' = taken
  <2>1. CInv'
    BY <1>0, <1>4, AnswerCInv DEF Settled
  <2>2. MInv' /\ executed' = executed
    BY <1>0, <1>4, ReturnsMInv DEF Settled, Returns, chain
  <2>3. late' = late /\ taken' = taken
    BY <1>4 DEF Settled, Answer, handlers
  <2>4. late = {} => s = id
    BY <1>0, <1>4 DEF Settled, Answer, CInv, SettlesWhatWasSaved
  <2>5. r = "ok" => \E tx \in executed : tx.of = s
    BY <1>0, <1>4 DEF Settled, Returns, MInv, OkExecuted
  <2>6. SuccessIsExecuted'
    BY <1>0, <1>4, <2>2, <2>3, <2>4, <2>5 DEF Settled, Answer, SuccessIsExecuted
  <2> QED
    BY <2>1, <2>2, <2>3, <2>6 DEF IInv
<1>5. ASSUME NEW t \in taken, DropSettle(t)
      PROVE  IInv' /\ taken' = taken
  <2>1. t.settlement \in Auction
    BY <1>0 DEF CInv, CompetitionTypeOK
  <2>2. CInv' /\ told' = told /\ taken' = taken /\ late' = late
    BY <1>0, <1>5, StutterCInv DEF DropSettle, competitionVars
  <2>3. MInv' /\ executed' = executed
    BY <1>0, <1>5, <2>1, ReturnsMInv DEF DropSettle, Returns, chain
  <2> QED
    BY <1>0, <2>2, <2>3, SuccessStays DEF IInv
<1>6. ASSUME NEW s \in Auction, NEW m \in Mempool, SubmitStep(s, m)
      PROVE  IInv' /\ taken' = taken
  <2>1. CInv' /\ told' = told /\ taken' = taken /\ late' = late
    BY <1>0, <1>6, StutterCInv DEF SubmitStep, competitionVars
  <2>2. MInv'
    BY <1>0, <1>6, SubmitMInv DEF SubmitStep
  <2>3. executed' = executed
    BY <1>6 DEF SubmitStep, Submit, SubmitTx, SubmitFails, SeeBlock, SeeExecuted, SeeReverted,
                SeePending, StillSimulates, StartsReverting, Cancel, CancelFails,
                FindConfirmed, GiveUp, chain
  <2> QED
    BY <1>0, <2>1, <2>2, <2>3, SuccessStays DEF IInv
<1>7. ASSUME Chain
      PROVE  IInv' /\ taken' = taken
  <2>1. CInv' /\ told' = told /\ taken' = taken /\ late' = late
    BY <1>0, <1>7, StutterCInv DEF Chain, competitionVars
  <2>2. MInv' /\ executed \subseteq executed'
    BY <1>0, <1>7, ChainMInv DEF Chain
  <2> QED
    BY <1>0, <2>1, <2>2, SuccessStays DEF IInv
<1>8. ASSUME Restart
      PROVE  IInv' /\ taken' = taken
  <2>1. CInv'
    BY <1>0, <1>8, HandlerEndsCInv DEF Restart
  <2>2. MInv' /\ executed' = executed
    BY <1>0, <1>8, RestartMInv DEF Restart, chain
  <2>3. told' = told /\ taken' = taken /\ late' = late
    BY <1>8 DEF Restart, Restarted, autopilot
  <2> QED
    BY <1>0, <2>1, <2>2, <2>3, SuccessStays DEF IInv
<1>9. ASSUME UNCHANGED vars
      PROVE  IInv' /\ taken' = taken
  <2>1. CInv' /\ told' = told /\ taken' = taken /\ late' = late
    BY <1>0, <1>9, StutterCInv DEF vars, competitionVars
  <2>2. MInv' /\ executed' = executed
    BY <1>0, <1>9, StutterMInv DEF vars, mempoolVars, chain
  <2> QED
    BY <1>0, <2>1, <2>2, SuccessStays DEF IInv
<1> QED
  BY <1>1, <1>2, <1>3, <1>4, <1>5, <1>6, <1>7, <1>8, <1>9 DEF Next

LEMMA IInvHolds == Spec => []IInv
<1>1. IInv /\ [Next]_vars => IInv'
  BY NextIInv
<1> QED
  BY <1>1, InitIInv, PTL DEF Spec

\* As long as no handler outlives its request, /settle executes the settlement of
\* the auction it is asked for, and that auction's competition is saved.
THEOREM SavedIsSettled == Spec => []SettlesWhatWasSaved
<1>1. IInv => SettlesWhatWasSaved
  BY DEF IInv, CInv
<1> QED
  BY <1>1, IInvHolds, PTL

\* A settlement that failed re-simulation is never executed afterwards.
THEOREM NoVoidedExecution == Spec => VoidedNotExecuted
<1>1. IInv /\ [Next]_vars =>
        [\A t \in taken' \ taken : t.settlement \notin voided]_competitionVars
  BY NextIInv
<1> QED
  BY <1>1, IInvHolds, PTL DEF Spec, VoidedNotExecuted

\* A task that reports its settlement as expired or reverting has sent a
\* cancellation that competes with it, whatever the other mempools do.
THEOREM NothingLeftAlone == Spec => []ExpiredIsCancelled
<1>1. IInv => ExpiredIsCancelled
  BY DEF IInv, MInv, TasksCancelled, Cancelled, ExpiredIsCancelled
<1> QED
  BY <1>1, IInvHolds, PTL

\* The autopilot is told of a success only if the settlement of its auction was
\* executed.
THEOREM TruthfulSuccess == Spec => []SuccessIsExecuted
<1>1. IInv => SuccessIsExecuted
  BY DEF IInv
<1> QED
  BY <1>1, IInvHolds, PTL
============================================================================
