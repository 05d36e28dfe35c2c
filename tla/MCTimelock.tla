----------------------------- MODULE MCTimelock -----------------------------
(* Two people: pat runs the timelock, quinn approves for market keepers    *)
(* and is the restart admin.                                               *)
EXTENDS Timelock
CONSTANTS pat, quinn, chainlink, pyth

MCBaseRoles == {<<pat, "TIMELOCK_ADMIN">>, <<pat, "TIMELOCK_KEEPER">>,
                <<pat, "__TLD_ADMIN">>, <<quinn, "__TLD_MARKET_KEEPER">>,
                <<"MARKET_KEEPER", "MARKET_KEEPER">>,
                <<quinn, "RESTART_ADMIN">>}

(* What the store may be asked to do.                                      *)
MCOps == {Grant(<<quinn, "__TLD_ADMIN">>),
          Revoke(<<pat, "TIMELOCK_ADMIN">>),
          Revoke(<<quinn, "__TLD_MARKET_KEEPER">>),
          Op("transfer", "ADMIN", "none"),
          Op("transfer", quinn, "none"),
          Op("accept", "none", "none"),
          Op("acknowledge", "none", "none"),
          Op("provider", pyth, "none")}
=============================================================================
