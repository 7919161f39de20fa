----------------------------- MODULE MCPipeline -----------------------------
(* More categories than places in the registry, and two snapshots that route,*)
(* filter and throttle differently                                           *)
EXTENDS Pipeline, TLC

db == <<"db">>
pool == <<"db", "pool">>
long == <<"db", "a name of 64 characters or more">>
MCCategories == {db, pool, long, Star}
MCLongNames == {long}

CONSTANTS a, b
MCLoggers == {a, b}
MCSymmetry == Permutations(MCLoggers)

Rule(kind, path, lo, hi, neg, outs) ==
    [kind |-> kind, path |-> path, lo |-> lo, hi |-> hi, neg |-> neg, outs |-> outs]
Throttle(rate, burst, sampling) == [rate |-> rate, burst |-> burst, sampling |-> sampling]

MCConfs ==
    {[level |-> 1, default_outs |-> 1, throttle |-> Throttle(1, 1, 1),
      rules |-> <<Rule("exact", db, 4, 5, FALSE, 1), Rule("tree", db, 4, 4, TRUE, 2)>>],
     [level |-> 5, default_outs |-> 0, throttle |-> Throttle(0, 1, 2),
      rules |-> <<Rule("tree", db, 2, 5, FALSE, 1), Rule("any", <<>>, 1, 5, FALSE, 0)>>]}
=============================================================================
