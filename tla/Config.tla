-------------------------------- MODULE Config --------------------------------
(***************************************************************************)
(* The configuration of the two programs (config/config.go): what is read  *)
(* from the file and from the environment, what Validate accepts, and the  *)
(* defaults.  A string or a list that is only tested for being there is a  *)
(* Boolean.                                                                *)
(***************************************************************************)
EXTENDS Integers

\* EqualFold: the chain is compared without regard to case here, and with
\* regard to it everywhere else.
Chain == {"ETH", "BSC", "eth", "bsc", "other"}

SupportedChain(chain) == chain \in {"ETH", "BSC", "eth", "bsc"}

DBConfig == [mysql : BOOLEAN, username : BOOLEAN, password : BOOLEAN,
             url : BOOLEAN, maxIdleConns : Int, maxOpenConns : Int]

\* The key is not given, no hexadecimal key of a curve point, or a good one.
Key == {"none", "bad", "good"}

SyncerConfig ==
    [chain : Chain, bucket : BOOLEAN, start : Nat, endpoints : BOOLEAN,
     beaconAddrs : BOOLEAN, rpcAddrs : BOOLEAN, tempDir : BOOLEAN, key : Key,
     interval : Nat, threshold : Int, db : DBConfig,
     metrics : BOOLEAN, spEndpoint : BOOLEAN]

ServerConfig ==
    [chain : Chain, bucket : BOOLEAN, endpoints : BOOLEAN, local : BOOLEAN,
     cacheSize : Nat, db : DBConfig]

Environment == [username : BOOLEAN, password : BOOLEAN, key : Key]

-----------------------------------------------------------------------------

\* User name and password come from the same place: if either is missing in
\* the file both are taken from the environment.
Credentials(db, env) ==
    IF db.username /\ db.password THEN db
    ELSE [db EXCEPT !.username = env.username, !.password = env.password]

ParseSyncerConfigFromFile(file, env) ==
    [file EXCEPT !.db = Credentials(@, env),
                 !.key = IF @ = "none" THEN env.key ELSE @]

ParseServerConfigFromFile(file, env) ==
    [file EXCEPT !.db = Credentials(@, env)]

ValidDB(db) ==
    /\ db.mysql
    /\ db.username /\ db.url
    /\ db.maxIdleConns # 0 /\ db.maxOpenConns # 0

MaxInterval == [BSC |-> 200, ETH |-> 30]

\* Validate panics with the first message that applies.
ValidSyncer(cfg) ==
    /\ SupportedChain(cfg.chain)
    /\ cfg.bucket
    /\ cfg.start # 0
    /\ cfg.endpoints
    /\ cfg.chain = "ETH" => cfg.beaconAddrs
    /\ cfg.rpcAddrs /\ cfg.tempDir
    /\ cfg.key # "none"
    /\ cfg.chain \in DOMAIN MaxInterval =>
            cfg.interval <= MaxInterval[cfg.chain]
    /\ cfg.threshold > 60
    /\ ValidDB(cfg.db)

ValidServer(cfg) ==
    /\ SupportedChain(cfg.chain)
    /\ cfg.bucket
    /\ cfg.endpoints
    /\ ValidDB(cfg.db)

DefaultCreateBundleSlotInterval == 30
DefaultReUploadBundleThreshold == 3600

GetCreateBundleInterval(cfg) ==
    IF cfg.interval = 0 THEN DefaultCreateBundleSlotInterval ELSE cfg.interval

GetReUploadBundleThresh(cfg) ==
    IF cfg.threshold = 0 THEN DefaultReUploadBundleThreshold ELSE cfg.threshold
=============================================================================
