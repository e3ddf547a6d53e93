----------------------------- MODULE SyncerProcess -----------------------------
(***************************************************************************)
(* The syncer as a process: what main does from the configuration to the   *)
(* loops, which goroutines then run, and what ends them.  A panic in any   *)
(* goroutine ends all of them; the process is started again, perhaps with  *)
(* another configuration, and of what went before only the database's      *)
(* tables are left.  What the two loops do is in BlobSyncer and            *)
(* BlobVerifier; here they are running or not, except that the quota       *)
(* monitor and the comparison of a bundle with Greenfield (IntegrityHash)  *)
(* take their steps.                                                       *)
(***************************************************************************)
EXTENDS Config, IntegrityHash

CONSTANTS
    Files,          \* configuration files the operator may write
    Environments,   \* environments the process may be started in
    Quotas,         \* what the storage provider may say of the bucket's quota
    Word,           \* the unsigned integers are 0 .. Word - 1
    MaxStarts       \* bound: times the process is started

ASSUME ProcessAssumption ==
    /\ Files \subseteq SyncerConfig
    /\ Environments \subseteq Environment
    /\ Word \in Nat \ {0} /\ MaxStarts \in Nat
    /\ Quotas \subseteq [read : 0 .. Word - 1, monthlyFree : 0 .. Word - 1,
                         spFree : 0 .. Word - 1, readConsumed : 0 .. Word - 1,
                         monthlyConsumed : 0 .. Word - 1,
                         freeConsumed : 0 .. Word - 1]

VARIABLES
    main,       \* where main is
    cfg,        \* the configuration, as a set: empty until read
    tables,     \* tables of the database
    alive,      \* goroutines that run
    asked,      \* the quota last read, as a set
    gauge,      \* BucketRemainingQuotaGauge, as a set: empty until set
    starts      \* times the process was started

processVars == <<main, cfg, tables, alive, asked, gauge, starts>>

syncerVars == <<processVars, hashVars>>

Tables == <<"bundle", "block", "blob">>

Goroutines == {"resume", "sync", "verify", "quota", "metrics"}

-----------------------------------------------------------------------------
(* main *)

\* The process ends: by a panic in one of its goroutines, or killed.
Die ==
    /\ main' = "dead"
    /\ cfg' = {} /\ alive' = {} /\ asked' = {} /\ gauge' = {}
    /\ ForgetVerify
    /\ UNCHANGED <<tables, starts>>

\* The next step of main, or a panic.
Panic == main # "dead" /\ Die

Start ==
    /\ main = "dead"
    /\ starts < MaxStarts
    /\ main' = "parse" /\ starts' = starts + 1
    /\ UNCHANGED <<cfg, tables, alive, asked, gauge, hashVars>>

Parse ==
    /\ main = "parse"
    /\ \E file \in Files, env \in Environments :
        cfg' = {ParseSyncerConfigFromFile(file, env)}
    /\ main' = "validate"
    /\ UNCHANGED <<tables, alive, asked, gauge, starts, hashVars>>

Config1 == CHOOSE c \in cfg : TRUE

Validate ==
    /\ main = "validate"
    /\ IF ValidSyncer(Config1)
       THEN /\ main' = "open"
            /\ UNCHANGED <<cfg, tables, alive, asked, gauge, starts, hashVars>>
       ELSE Die

\* InitDBWithConfig: a database that cannot be opened is a panic.
OpenDB ==
    /\ main = "open"
    /\ main' = "migrate"
    /\ UNCHANGED <<cfg, tables, alive, asked, gauge, starts, hashVars>>

\* Mutant: a database that has a table is taken to have all of them.
Migrate_IfEmpty ==
    /\ main = "migrate"
    /\ \/ /\ tables = {}
          /\ tables' = {Tables[1]}
          /\ UNCHANGED <<main, cfg, alive, asked, gauge, starts, hashVars>>
       \/ /\ tables # {}
          /\ main' = "new"
          /\ UNCHANGED <<cfg, tables, alive, asked, gauge, starts, hashVars>>

\* AutoMigrateDB: the tables are made one by one, and one that is there is left
\* as it is.
Migrate ==
    /\ main = "migrate"
    /\ \/ \E i \in 1 .. 3 :
            /\ Tables[i] \notin tables
            /\ \A j \in 1 .. i - 1 : Tables[j] \in tables
            /\ tables' = tables \cup {Tables[i]}
            /\ UNCHANGED <<main, cfg, alive, asked, gauge, starts, hashVars>>
       \/ /\ \A i \in 1 .. 3 : Tables[i] \in tables
          /\ main' = "new"
          /\ UNCHANGED <<cfg, tables, alive, asked, gauge, starts, hashVars>>

\* The node a client is made for: anything but BSC is taken to be ETH, whose
\* beacon node is looked up in a list that may be empty.
ClientOf(c) == IF c.chain = "BSC" THEN "rpc" ELSE "beacon"

HasSPClient(c) == c.metrics /\ c.spEndpoint

\* NewBlobSyncer, StartLoop and the start of the metrics server.
NewBlobSyncer ==
    /\ main = "new"
    /\ IF Config1.key = "good" /\ (ClientOf(Config1) = "beacon" =>
                                        Config1.beaconAddrs)
       THEN /\ main' = "blocked"
            /\ alive' = {"resume", "verify"}
                        \cup (IF HasSPClient(Config1) THEN {"quota"} ELSE {})
                        \cup (IF Config1.metrics THEN {"metrics"} ELSE {})
            /\ UNCHANGED <<cfg, tables, asked, gauge, starts, hashVars>>
       ELSE Die

-----------------------------------------------------------------------------
(* The goroutines *)

\* getNextBlockNumOrSlot and LoadProgressAndResume succeed, and the sync loop
\* begins; if one of them fails it panics.
Resumed ==
    /\ "resume" \in alive
    /\ alive' = (alive \ {"resume"}) \cup {"sync"}
    /\ UNCHANGED <<main, cfg, tables, asked, gauge, starts, hashVars>>

Granted(q) == q.read + q.monthlyFree + q.spFree

Consumed(q) == q.readConsumed + q.monthlyConsumed + q.freeConsumed

\* Mutant: what was consumed is compared with the bought quota alone.
Remaining_Split(q) ==
    IF q.readConsumed > q.read THEN 0
    ELSE (Granted(q) - Consumed(q)) % Word

\* Mutant: a signed difference.
Remaining_Signed(q) == Granted(q) - Consumed(q)

\* The difference of unsigned integers.
Remaining(q) == (Granted(q) - Consumed(q)) % Word

\* A reading that fails is passed over.
MonitorQuota ==
    /\ "quota" \in alive
    /\ \E q \in Quotas :
        /\ asked' = {q}
        /\ gauge' = {Remaining(q)}
    /\ UNCHANGED <<main, cfg, tables, alive, starts, hashVars>>

Verify == "verify" \in alive /\ VerifyStep /\ UNCHANGED processVars

ProcessStep ==
    \/ Parse \/ Validate \/ OpenDB \/ Migrate \/ NewBlobSyncer
    \/ Resumed \/ MonitorQuota

ProcessNext ==
    \/ Start \/ ProcessStep \/ Panic \/ Verify
    \/ ChangeParams /\ UNCHANGED processVars

ProcessInit ==
    /\ main = "dead" /\ cfg = {} /\ tables = {} /\ alive = {}
    /\ asked = {} /\ gauge = {} /\ starts = 0
    /\ HashInit

ProcessSpec == ProcessInit /\ [][ProcessNext]_syncerVars

\* The goroutines are scheduled; the process need not die and Greenfield need
\* not change.
ProcessFairSpec ==
    /\ ProcessSpec
    /\ WF_syncerVars(ProcessStep)
    /\ WF_syncerVars(Verify)

-----------------------------------------------------------------------------
(* Properties *)

\* Types of the variables.
ProcessTypeOK ==
    /\ main \in {"dead", "parse", "validate", "open", "migrate", "new",
                 "blocked"}
    /\ cfg \subseteq SyncerConfig
    /\ tables \subseteq {Tables[i] : i \in 1 .. 3}
    /\ alive \subseteq Goroutines
    /\ asked \subseteq Quotas
    /\ gauge \subseteq 0 .. Word - 1
    /\ starts \in 0 .. MaxStarts
    /\ HashTypeOK

\* The loops only ever run on a database that has every table, whenever an
\* earlier process died while it made them, and with a configuration that was
\* accepted: a chain spelled as the code spells it has bundles of at least one
\* slot and no more than Validate allows, and a nonzero time to be sealed in.
LoopsAsConfigured ==
    alive # {} =>
        /\ \A i \in 1 .. 3 : Tables[i] \in tables
        /\ \A c \in cfg :
            /\ ValidSyncer(c)
            /\ c.chain \in DOMAIN MaxInterval =>
                    GetCreateBundleInterval(c) \in 1 .. MaxInterval[c.chain]
            /\ GetReUploadBundleThresh(c) > 0

\* The gauge is what remains of the quota, although its terms are unsigned and
\* their sums may wrap - as long as no more is consumed than granted.
GaugeIsRemaining ==
    \A q \in asked, g \in gauge :
        0 <= Granted(q) - Consumed(q) /\ Granted(q) - Consumed(q) < Word =>
            g = Granted(q) - Consumed(q)

\* A comparison that is begun ends, unless the process does.
VerifyReturns == vfy.pc # "idle" ~> vfy.pc = "idle"
=============================================================================
