------------------------- MODULE ServiceMaintenance -------------------------
(***************************************************************************)
(* The loop that runs all maintainers of a service for every new block     *)
(* (crates/shared/src/maintenance.rs).  A run is repeated until all of its *)
(* maintainers succeed or a newer block arrives.                           *)
(***************************************************************************)
EXTENDS BlockStream

CONSTANT Maintainer

VARIABLES
  awaited,             \* the last value taken from the stream, or NoBlock
  retry_block,         \* the block of a failed run, or NoBlock
  running,             \* the block of the current run, or NoBlock
  todo,                \* maintainers whose run has not ended
  failed,              \* maintainers whose run failed
  handled,             \* maintainer -> node's head when it last succeeded
  last_updated_block   \* metric: the block of the last successful run

maintenanceVars == <<head, published, failures, awaited, retry_block, running, todo, failed,
                     handled, last_updated_block>>

NoBlock == [number |-> 0, hash |-> 0]
Blocks == Block \cup {NoBlock}

MaintenanceInit ==
  /\ StreamInit
  /\ awaited = NoBlock /\ retry_block = NoBlock /\ running = NoBlock
  /\ todo = {} /\ failed = {}
  /\ handled = [m \in Maintainer |-> NoBlock]
  /\ last_updated_block = NoBlock

\* The head of run_maintenance_for_blocks: a new block ends the wait for a retry.
StartRun(block) ==
  /\ running = NoBlock
  /\ \/ block = published /\ published # awaited
     \/ block = retry_block /\ retry_block # NoBlock
  /\ awaited' = IF block = published THEN published ELSE awaited
  /\ retry_block' = NoBlock
  /\ running' = block
  /\ todo' = Maintainer /\ failed' = {}
  /\ UNCHANGED <<stream, handled, last_updated_block>>

\* One of the maintainers that join_all runs at once reads the node's head.
RunMaintainer(m) ==
  /\ m \in todo
  /\ todo' = todo \ {m}
  /\ handled' = [handled EXCEPT ![m] = head]
  /\ UNCHANGED <<stream, awaited, retry_block, running, failed, last_updated_block>>

MaintainerFails(m) ==
  /\ m \in todo
  /\ Fails
  /\ todo' = todo \ {m}
  /\ failed' = failed \cup {m}
  /\ UNCHANGED <<head, published, awaited, retry_block, running, handled, last_updated_block>>

\* Mutant of FinishRun: the error of one maintainer is only logged.
FinishRunRegardless ==
  /\ running # NoBlock /\ todo = {}
  /\ running' = NoBlock
  /\ last_updated_block' = running
  /\ UNCHANGED <<stream, awaited, retry_block, todo, failed, handled>>

\* Mutant of FinishRun: a failed run is not repeated.
FinishRunWithoutRetry ==
  /\ running # NoBlock /\ todo = {}
  /\ running' = NoBlock
  /\ last_updated_block' = IF failed = {} THEN running ELSE last_updated_block
  /\ UNCHANGED <<stream, awaited, retry_block, todo, failed, handled>>

\* The end of run_maintenance.
FinishRun ==
  /\ running # NoBlock /\ todo = {}
  /\ running' = NoBlock
  /\ IF failed = {}
     THEN last_updated_block' = running /\ UNCHANGED retry_block
     ELSE retry_block' = running /\ UNCHANGED last_updated_block
  /\ UNCHANGED <<stream, awaited, todo, failed, handled>>

Node == (\E number \in 1..MaxBlocks : NewHead(number))
          /\ UNCHANGED <<awaited, retry_block, running, todo, failed, handled, last_updated_block>>
PollNode == Poll /\ UNCHANGED <<awaited, retry_block, running, todo, failed, handled,
                                last_updated_block>>
Start == \E block \in {published, retry_block} : StartRun(block)
Run == \E m \in Maintainer : RunMaintainer(m) \/ MaintainerFails(m)

MaintenanceNext == Node \/ PollNode \/ Start \/ Run \/ FinishRun

\* Polling goes on, maintainers end, and the loop is never left.
MaintenanceSpec ==
  /\ MaintenanceInit /\ [][MaintenanceNext]_maintenanceVars
  /\ WF_maintenanceVars(PollNode) /\ WF_maintenanceVars(Start)
  /\ WF_maintenanceVars(Run) /\ WF_maintenanceVars(FinishRun)

----------------------------------------------------------------------------

\* last_updated_block does not promise too much: every maintainer has succeeded on
\* that block of the node or on a later one, although runs fail in parts and are
\* repeated for the same block while the node moves on.
UpdatedMeansMaintained ==
  \A m \in Maintainer : handled[m].hash >= last_updated_block.hash

\* Every published block reaches every maintainer, by a run of its own or of a later
\* block, however often runs fail in parts and the node reorganises meanwhile.
PublishedIsMaintained ==
  \A h \in 1..MaxBlocks :
    published.hash = h ~> \A m \in Maintainer : handled[m].hash >= h
============================================================================
