---------------------------- MODULE MCSyncerProcess ----------------------------
(***************************************************************************)
(* An instance of SyncerProcess for TLC: accepted and refused              *)
(* configurations, quotas with and without a sum that wraps, and objects   *)
(* of one to three bytes under parameters that cut them differently.       *)
(***************************************************************************)
EXTENDS SyncerProcessInv

wholeDB == [mysql |-> TRUE, username |-> TRUE, password |-> TRUE,
            url |-> TRUE, maxIdleConns |-> 1, maxOpenConns |-> 1]

bsc == [chain |-> "BSC", bucket |-> TRUE, start |-> 1, endpoints |-> TRUE,
        beaconAddrs |-> FALSE, rpcAddrs |-> TRUE, tempDir |-> TRUE,
        key |-> "good", interval |-> 200, threshold |-> 61, db |-> wholeDB,
        metrics |-> TRUE, spEndpoint |-> TRUE]

eth == [bsc EXCEPT !.chain = "ETH", !.beaconAddrs = TRUE, !.interval = 0,
                   !.key = "none", !.metrics = FALSE,
                   !.db.password = FALSE]

SomeFiles ==
    {bsc, eth,
     [bsc EXCEPT !.chain = "bsc", !.interval = 500],    \* accepted, dies
     [eth EXCEPT !.interval = 31],
     [eth EXCEPT !.db.maxIdleConns = 0]}

SomeEnvironments ==
    {[username |-> TRUE, password |-> TRUE, key |-> "good"],
     [username |-> FALSE, password |-> TRUE, key |-> "bad"]}

quota(r, m, f, rc, mc, fc) ==
    [read |-> r, monthlyFree |-> m, spFree |-> f, readConsumed |-> rc,
     monthlyConsumed |-> mc, freeConsumed |-> fc]

\* Half used; more granted than a word holds; more consumed than granted.
SomeQuotas ==
    {quota(1, 2, 2, 2, 1, 0), quota(7, 7, 2, 5, 4, 2), quota(1, 0, 0, 1, 1, 0)}

SomeObjects == {<<1, 2, 0>>, <<1, 2>>, <<1, 0>>, <<1>>}

SomeParams ==
    {[seg |-> 2, data |-> 2, parity |-> 1], [seg |-> 1, data |-> 1, parity |-> 1],
     [seg |-> 3, data |-> 2, parity |-> 2], [seg |-> 0, data |-> 0, parity |-> 0]}
=============================================================================
