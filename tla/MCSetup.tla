------------------------------ MODULE MCSetup ------------------------------
(***************************************************************************)
(* An instance of Setup: three zones of which one covers the domain, one   *)
(* zone per page and a bound of two pages, so that a listing is cut off    *)
(* and shifts under the reader; configurations with and without a manual   *)
(* step, secrets and bindings that share a name, and one that is refused.  *)
(***************************************************************************)
EXTENDS Setup, TLC

ZoneOrder == <<"a", "b", "c">>

MCAccounts ==
    { SelectSeq([i \in 1 .. 3 |-> [name |-> ZoneOrder[i], active |-> st[i] = "active"]],
                LAMBDA z : \E i \in 1 .. 3 : z.name = ZoneOrder[i] /\ st[i] # "absent") :
      st \in [1 .. 3 -> {"absent", "pending", "active"}] }

Config(note, sender, secrets, sources, destination) ==
    [appName |-> "plain", hosts |-> {"plain"}, allowed |-> {"plain"}, segments |-> {"plain"},
     types |-> {"kv", "r2"}, resources |-> {"plain"}, note |-> note, sender |-> sender,
     secrets |-> secrets, sources |-> sources, destination |-> destination]

Secret(store, name) == [store |-> store, name |-> name]

MCConfigs ==
    { Config(TRUE, "plain", <<Secret(1, 2), Secret(2, 1), Secret(1, 1)>>, <<4, 3>>, <<3>>),
      Config(FALSE, "blank", <<>>, <<>>, <<>>),
      Config(TRUE, "workers.dev", <<>>, <<1>>, <<>>) }

=============================================================================
