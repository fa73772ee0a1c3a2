------------------------- MODULE SettlementUpdater -------------------------
(***************************************************************************)
(* The background task that attributes indexed settlements to auctions     *)
(* (crates/autopilot/src/on_settlement_event_updater.rs) beside the        *)
(* indexer that appends and, after reorganisations, replaces the           *)
(* settlements it works on.  The database is read committed: every query   *)
(* of the task's transaction sees what the indexer committed before it.    *)
(***************************************************************************)
EXTENDS Integers

CONSTANTS
  Slot,        \* positions (block_number, log_index) of settlement events
  Height,      \* Height[s]: the block number of s
  Tx,          \* settlement transactions
  Auction,     \* auction ids
  Claimed,     \* Claimed[t]: the auction id in t's calldata, or Default
  Default,     \* the auction id 0, stored for undecodable calldata
  Solver,
  From,        \* From[t]: the sender of t
  Winner,      \* Winner[a]: the winner the autopilot picks for auction a
  None

ASSUME HeightAssumption == Height \in [Slot -> Nat]
ASSUME ClaimedAssumption == Claimed \in [Tx -> Auction \cup {Default}]
ASSUME SolverAssumption == From \in [Tx -> Solver] /\ Winner \in [Auction -> Solver]
ASSUME DistinctAssumption ==
  Default \notin Auction /\ None \notin Tx /\ None \notin Auction \cup {Default}

VARIABLES
  tx,            \* settlements.tx_hash by position; None: no row
  auction,       \* settlements.auction_id by position; None: NULL or no row
  observations,  \* settlement_observations: the transaction a row was computed from
  executions,    \* order_execution rows <<transaction, auction, block_number>>
  competitions,  \* auctions whose competition and score are saved
  quiet,         \* from now on no reorganisations, failures or new settlements
  permit,        \* the stored permit of Notify
  pc,            \* the task: update, fetch, recover, commit or wait
  slot, hash,    \* local event: its position and tx_hash
  auction_id, add_data, \* the outcome of recover_auction_id_from_calldata
  raced          \* history: an update was written over another transaction's row

tables == <<tx, auction, observations, executions>>
locals == <<slot, hash, auction_id, add_data>>
updaterVars == <<tx, auction, observations, executions, competitions, quiet, permit, pc,
                 slot, hash, auction_id, add_data, raced>>

UpdaterInit ==
  /\ tx = [s \in Slot |-> None]
  /\ auction = [s \in Slot |-> None]
  /\ observations = [s \in Slot |-> None]
  /\ executions = {}
  /\ competitions = {}
  /\ quiet = FALSE
  /\ permit = FALSE
  /\ pc = "update"
  /\ slot \in Slot
  /\ hash = None
  /\ auction_id = None
  /\ add_data = FALSE
  /\ raced = FALSE

----------------------------------------------------------------------------
(* The indexer and the run loop, which write the same tables.              *)

\* A settlement of this autopilot's winner is mined after save_competition;
\* a transaction is mined once.
Minable(new) ==
  /\ \A s \in Slot :
       (/\ new[s] # None
        /\ Claimed[new[s]] \in Auction
        /\ From[new[s]] = Winner[Claimed[new[s]]])
          => Claimed[new[s]] \in competitions
  /\ \A s, r \in Slot : new[s] = new[r] /\ new[s] # None => s = r

\* Mutant of AppendEvents: does not schedule an update.
AppendEventsSilently(new) ==
  /\ quiet => new = tx
  /\ \A s \in Slot : new[s] # tx[s] =>
       tx[s] = None /\ \A r \in Slot : tx[r] # None => Height[r] < Height[s]
  /\ Minable(new)
  /\ tx' = new
  /\ UNCHANGED <<raced, auction, observations, executions, quiet, competitions, permit, pc, locals>>

\* append_events: settlements of blocks above the indexed ones, often none.
AppendEvents(new) ==
  /\ quiet => new = tx
  /\ \A s \in Slot : new[s] # tx[s] =>
       tx[s] = None /\ \A r \in Slot : tx[r] # None => Height[r] < Height[s]
  /\ Minable(new)
  /\ tx' = new
  /\ permit' = TRUE
  /\ UNCHANGED <<raced, auction, observations, executions, quiet, competitions, pc, locals>>

\* Mutant of ReplaceEvents: without delete_observations.
ReplaceEventsOnly(h, new) ==
  /\ ~ quiet
  /\ \A s \in Slot : Height[s] < h => new[s] = tx[s]
  /\ Minable(new)
  /\ tx' = new
  /\ auction' = [s \in Slot |-> IF Height[s] < h THEN auction[s] ELSE None]
  /\ permit' = TRUE
  /\ UNCHANGED <<raced, observations, executions, quiet, competitions, pc, locals>>

\* replace_events from height h, with delete_observations, in one transaction.
ReplaceEvents(h, new) ==
  /\ ~ quiet
  /\ \A s \in Slot : Height[s] < h => new[s] = tx[s]
  /\ Minable(new)
  /\ tx' = new
  /\ auction' = [s \in Slot |-> IF Height[s] < h THEN auction[s] ELSE None]
  /\ observations' = [s \in Slot |-> IF Height[s] < h THEN observations[s] ELSE None]
  /\ executions' = {e \in executions : e[3] < h}
  /\ permit' = TRUE
  /\ UNCHANGED <<raced, quiet, competitions, pc, locals>>

SaveCompetition(a) ==
  /\ a \notin competitions
  /\ competitions' = competitions \cup {a}
  /\ UNCHANGED <<raced, tables, quiet, permit, pc, locals>>

----------------------------------------------------------------------------
(* listen_for_updates / update                                             *)

Unprocessed(s) == tx[s] # None /\ auction[s] = None

\* update is over; its locals are gone.
Forget(next) ==
  /\ pc' = next
  /\ hash' = None
  /\ auction_id' = None
  /\ add_data' = FALSE
  /\ UNCHANGED slot

GetSettlementWithoutAuction ==
  /\ pc = "update"
  /\ \E s \in Slot :
       /\ Unprocessed(s)
       /\ \A r \in Slot : Unprocessed(r) => Height[s] <= Height[r]
       /\ slot' = s
       /\ hash' = tx[s]
  /\ pc' = "fetch"
  /\ UNCHANGED <<raced, tables, quiet, competitions, permit, auction_id, add_data>>

NothingToUpdate ==
  /\ pc = "update"
  /\ \A s \in Slot : ~ Unprocessed(s)
  /\ Forget("wait")
  /\ UNCHANGED <<raced, tables, quiet, competitions, permit>>

\* The node knows the transaction.
FetchTransaction ==
  /\ pc = "fetch"
  /\ pc' = "recover"
  /\ UNCHANGED <<raced, tables, quiet, competitions, permit, locals>>

AlreadyProcessed(a) == \E s \in Slot : auction[s] = a

\* Mutant of AddAuctionData: no check for an earlier settlement.
AddAuctionDataAgain(t) ==
  /\ Claimed[t] \in competitions
  /\ From[t] = Winner[Claimed[t]]

\* There is a score, no settlement of the auction yet, and t is the winner's.
AddAuctionData(t) ==
  /\ Claimed[t] \in competitions
  /\ ~ AlreadyProcessed(Claimed[t])
  /\ From[t] = Winner[Claimed[t]]

RecoverAuctionId ==
  /\ pc = "recover"
  /\ auction_id' = Claimed[hash]
  /\ add_data' = AddAuctionData(hash)
  /\ pc' = "commit"
  /\ UNCHANGED <<raced, tables, quiet, competitions, permit, slot, hash>>

\* UPDATE settlements ... WHERE block_number AND log_index, then the upserts.
UpdateSettlementDetails ==
  /\ pc = "commit"
  /\ auction' = [auction EXCEPT ![slot] = IF tx[slot] # None THEN auction_id ELSE @]
  /\ observations' = [observations EXCEPT ![slot] = IF add_data THEN hash ELSE @]
  /\ executions' =
       IF add_data
       THEN {e \in executions : e[1] # hash \/ e[2] # auction_id}
              \cup {<<hash, auction_id, Height[slot]>>}
       ELSE executions
  /\ raced' = (raced \/ tx[slot] # hash)
  /\ Forget("update")
  /\ UNCHANGED <<tx, quiet, competitions, permit>>

\* The node does not know the transaction, or a query fails.
UpdateFails ==
  /\ ~ quiet
  /\ pc \notin {"update", "wait"}
  /\ Forget("wait")
  /\ UNCHANGED <<raced, tables, quiet, competitions, permit>>

Notified ==
  /\ pc = "wait"
  /\ permit
  /\ permit' = FALSE
  /\ pc' = "update"
  /\ UNCHANGED <<raced, tables, quiet, competitions, locals>>

\* The process restarts: OnSettlementEventUpdater::new runs an update at once.
Restart ==
  /\ ~ quiet
  /\ Forget("update")
  /\ permit' = FALSE
  /\ UNCHANGED <<raced, tables, quiet, competitions>>

BecomeQuiet ==
  /\ ~ quiet
  /\ quiet' = TRUE
  /\ UNCHANGED <<raced, tables, competitions, permit, pc, locals>>

----------------------------------------------------------------------------
Indexer ==
  \E new \in [Slot -> Tx \cup {None}] :
    \/ AppendEvents(new)
    \/ \E h \in {Height[s] : s \in Slot} : ReplaceEvents(h, new)

Updater ==
  \/ GetSettlementWithoutAuction \/ NothingToUpdate \/ FetchTransaction
  \/ RecoverAuctionId \/ UpdateSettlementDetails \/ Notified

UpdaterNext ==
  \/ Indexer
  \/ \E a \in Auction : SaveCompetition(a)
  \/ Updater
  \/ UpdateFails
  \/ Restart
  \/ BecomeQuiet

UpdaterSpec == UpdaterInit /\ [][UpdaterNext]_updaterVars

\* Every block ends in append_events, also without events, so the task is woken
\* again and again; tokio runs it whenever it can run.
FairUpdaterSpec ==
  UpdaterSpec /\ WF_updaterVars(AppendEvents(tx)) /\ WF_updaterVars(Updater)

----------------------------------------------------------------------------
(* Properties.                                                             *)

TypeOK ==
  /\ tx \in [Slot -> Tx \cup {None}]
  /\ auction \in [Slot -> Auction \cup {Default, None}]
  /\ observations \in [Slot -> Tx \cup {None}]
  /\ executions \subseteq Tx \X Auction \X Nat
  /\ competitions \subseteq Auction
  /\ quiet \in BOOLEAN
  /\ permit \in BOOLEAN
  /\ pc \in {"update", "fetch", "recover", "commit", "wait"}
  /\ slot \in Slot
  /\ hash \in Tx \cup {None}
  /\ auction_id \in Auction \cup {Default, None}
  /\ add_data \in BOOLEAN
  /\ raced \in BOOLEAN

\* "Surplus and fees calculation is based on: a) the mined transaction call data":
\* the auction id and the observation stored for a settlement event are those of
\* the transaction that emitted it, also when reorganisations replace events
\* while an update is on its way to the node.
Attributed ==
  \A s \in Slot :
    /\ auction[s] # None => tx[s] # None /\ auction[s] = Claimed[tx[s]]
    /\ observations[s] # None => observations[s] = tx[s] /\ auction[s] # None

\* The write that is not checked against the transaction is the only way for a
\* settlement to get the data of another one.
AttributedUnlessRaced == ~ raced => Attributed

\* An auction is rewarded once: unless an update was misplaced, at most one
\* settlement carries its observation, also after reorganisations and restarts.
OneObservationPerAuction ==
  ~ raced => \A s, r \in Slot :
    (/\ observations[s] # None
     /\ observations[r] # None
     /\ Claimed[observations[s]] = Claimed[observations[r]])
      => s = r

\* No settlement is forgotten, whatever failed or was interrupted while it was
\* being processed: once faults stop every indexed settlement is processed.
EventuallyProcessed == quiet ~> [](\A s \in Slot : ~ Unprocessed(s))
============================================================================
