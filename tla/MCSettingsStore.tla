-------------------------- MODULE MCSettingsStore --------------------------
(***************************************************************************)
(* Instances of SettingsStore for TLC: the process starts on its database  *)
(* and migrates it, and then serves the requests of SettingsStore.         *)
(***************************************************************************)
EXTENDS SettingsStore, Migration

E(k, v) == [key |-> k, value |-> v]

\* Two keys at once, one key twice, a value and a key that are refused.
MCSetRequests ==
  {<<E("batch_size", 1), E("search_limit", 1)>>,
   <<E("batch_size", 2), E("batch_size", 1)>>,
   <<E("batch_size", 2), E("search_limit", 0)>>}
MCRemoveRequests ==
  {<<E("batch_size", NoRow), E("search_limit", NoRow)>>,
   <<E("batch_size", NoRow), E("unknown", NoRow)>>}

MCDefaults == [k \in Key |-> 2]

\* The requests are looked at after the start on a database without instances, which
\* requests create; SettingsStore knows its own crashes.
Serving == line = "up" /\ original.rows = NoRows

MCInit == Init /\ MigrationInit /\ DOMAIN original.rows \cap Instance = instances

MCNext ==
  \/ ~Serving /\ MigrationNext /\ UNCHANGED vars
  \/ Serving /\ Next /\ UNCHANGED migrationVars

MCSpec == MCInit /\ [][MCNext]_<<vars, migrationVars>> /\ Fairness
=============================================================================
