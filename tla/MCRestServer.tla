----------------------------- MODULE MCRestServer ------------------------------
(***************************************************************************)
(* An instance of RestServer for TLC: all listeners, a configuration that  *)
(* is accepted and one that is refused.                                    *)
(***************************************************************************)
EXTENDS RestServer

AllSchemes == {"unix", "http", "https"}

wholeDB == [mysql |-> TRUE, username |-> FALSE, password |-> FALSE,
            url |-> TRUE, maxIdleConns |-> 1, maxOpenConns |-> 1]

server == [chain |-> "ETH", bucket |-> TRUE, endpoints |-> TRUE,
           local |-> TRUE, cacheSize |-> 0, db |-> wholeDB]

SomeFiles == {server, [server EXCEPT !.local = FALSE],
              [server EXCEPT !.chain = "other"]}

OneEnvironment == {[username |-> TRUE, password |-> FALSE, key |-> "none"]}
=============================================================================
