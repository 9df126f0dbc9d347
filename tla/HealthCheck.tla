---------------------------- MODULE HealthCheck ----------------------------
(***************************************************************************)
(* MonitoringClient.perform_health_check (health_check_monitoring.py) and  *)
(* the health indicators main() prints from its result.  The nine probes   *)
(* run one after another, each its own POST awaited in turn; each maps an  *)
(* exception or a reply without a result to a default.  Between probes    *)
(* the node may go down or come back, start or finish syncing, grow its   *)
(* chain and gain or lose peers.                                           *)
(*                                                                         *)
(* The gas price, network id and client version probes are steps like    *)
(* the others, but no indicator looks at their values, so the fields are  *)
(* left out.                                                               *)
(***************************************************************************)
EXTENDS Integers, Sequences

CONSTANTS
    MaxHead,      \* the node's chain grows up to this block number
    MaxChanges    \* changes of the node's state during one health check

ASSUME MaxHead \in Nat /\ MaxChanges \in Nat

\* The probes in the order perform_health_check awaits them.
Probes == <<"connectivity", "sync", "latestBlock", "blockTime", "gasPrice",
            "peers", "pending", "networkId", "clientVersion">>

\* The timestamp of block b; block 0, the genesis, has one too.
Timestamp(b) == 1000 + b

VARIABLES
    node,      \* [up, syncing, head, peers, pending]
    changes,   \* node changes so far, for the bound
    step,      \* index into Probes of the next probe; Len(Probes) + 1: done
    health     \* the HealthStatus fields filled in so far

vars == <<node, changes, step, health>>

NodeStates == [up : BOOLEAN, syncing : BOOLEAN, head : 0..MaxHead,
               peers : BOOLEAN, pending : BOOLEAN]

Done == step = Len(Probes) + 1

TypeOK ==
    /\ node \in NodeStates
    /\ changes \in 0..MaxChanges
    /\ step \in 1..Len(Probes) + 1
    /\ health \in [isConnected : BOOLEAN, isSyncing : BOOLEAN,
                   latestBlock : 0..MaxHead, latestBlockTime : Nat,
                   peerCount : Nat, pendingTransactions : Nat]

Init ==
    /\ node \in NodeStates
    /\ changes = 0
    /\ step = 1
    /\ health = [isConnected |-> FALSE, isSyncing |-> FALSE, latestBlock |-> 0,
                 latestBlockTime |-> 0, peerCount |-> 0, pendingTransactions |-> 0]

\* The node changes between two probes: it goes down or comes back, starts
\* or stops syncing, grows its chain, gains or loses peers and pending
\* transactions.
NodeChange ==
    /\ changes < MaxChanges
    /\ \E n \in NodeStates :
          /\ n # node /\ n.head >= node.head
          /\ node' = n
    /\ changes' = changes + 1
    /\ UNCHANGED <<step, health>>

(***************************************************************************)
(* What one probe sets when the node answers with a result (ok) and when  *)
(* the POST raises or the reply has no result (not ok).                   *)
(***************************************************************************)
\* check_sync_status: result is not False; no result or an exception: True.
SyncField(ok) == IF ok THEN node.syncing ELSE TRUE

\* A faulty get_latest_block returning a -1 sentinel on failure.
LatestBlockFieldSentinel(ok) == IF ok THEN node.head ELSE -1

\* get_latest_block: int(result, 16); otherwise 0.
LatestBlockField(ok) == IF ok THEN node.head ELSE 0

\* A faulty probe that asks for the "latest" block instead of the number
\* get_latest_block returned.
BlockTimeFieldLatest(ok) == IF ok THEN Timestamp(node.head) ELSE 0

\* get_block_timestamp(latest_block): the block's timestamp when the node
\* has it; otherwise 0.
BlockTimeField(ok) ==
    IF ok /\ health.latestBlock <= node.head THEN Timestamp(health.latestBlock) ELSE 0

\* get_peer_count, get_pending_tx_count: the count; otherwise 0.
CountField(ok, has) == IF ok /\ has THEN 1 ELSE 0

\* The field a probe fills in, with the value it gets.
Probed(p, ok) ==
    CASE p = "connectivity"  -> [health EXCEPT !.isConnected = ok]
      [] p = "sync"          -> [health EXCEPT !.isSyncing = SyncField(ok)]
      [] p = "latestBlock"   -> [health EXCEPT !.latestBlock = LatestBlockField(ok)]
      [] p = "blockTime"     -> [health EXCEPT !.latestBlockTime = BlockTimeField(ok)]
      [] p = "peers"         -> [health EXCEPT !.peerCount = CountField(ok, node.peers)]
      [] p = "pending"       -> [health EXCEPT !.pendingTransactions = CountField(ok, node.pending)]
      [] OTHER               -> health

\* The next await of perform_health_check.  A node that is down makes the
\* POST raise; a node that is up may still fail the call.
Probe ==
    /\ ~Done
    /\ \E ok \in IF node.up THEN BOOLEAN ELSE {FALSE} :
          health' = Probed(Probes[step], ok)
    /\ step' = step + 1
    /\ UNCHANGED <<node, changes>>

Next == Probe \/ NodeChange

Spec == Init /\ [][Next]_vars

-----------------------------------------------------------------------------
(***************************************************************************)
(* The report pairs the latest block with that block's own timestamp: the  *)
(* eth_getBlockByNumber probe asks for the number the eth_blockNumber      *)
(* probe returned a step earlier, so a chain that grows between the two   *)
(* awaits cannot give the block the time of a newer one.  A failed number *)
(* probe leaves 0 and the report carries the genesis time; a failed time  *)
(* probe leaves 0.                                                         *)
(***************************************************************************)
BlockTimeOfReportedBlock ==
    Done => health.latestBlockTime \in {0, Timestamp(health.latestBlock)}

=============================================================================
