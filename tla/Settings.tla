------------------------------ MODULE Settings ------------------------------
(***************************************************************************)
(* What the settings of huntarr2 promise: stored values, global or for one *)
(* instance, that change a whole batch at a time, and that go with their   *)
(* instance.  SettingsStore implements this with transactions on one       *)
(* connection; SettingsPage is a browser that uses it.                     *)
(***************************************************************************)
EXTENDS SettingValues

CONSTANTS
  SetBatches,      \* the batches that requests set: functions from keys
  RemoveBatches    \* the sets of keys that requests remove

VARIABLES instances, removed, rows

settings == <<instances, removed, rows>>

-----------------------------------------------------------------------------
Init ==
  /\ instances \in SUBSET Instance
  /\ removed = {}
  /\ rows = [s \in Scope |-> NothingStored]

Exists(s) == s = Global \/ s \in instances

SetBatch(s, entries) ==
  /\ Exists(s)
  /\ Accepted(entries)
  /\ rows' = [rows EXCEPT ![s] = Over(entries, rows[s])]
  /\ UNCHANGED <<instances, removed>>

RemoveBatch(s, keys) ==
  /\ keys \subseteq Key
  /\ rows' = [rows EXCEPT ![s] = Without(keys, rows[s])]
  /\ UNCHANGED <<instances, removed>>

CreateInstance(i) ==
  /\ i \notin instances \cup removed
  /\ instances' = instances \cup {i}
  /\ UNCHANGED <<removed, rows>>

\* ON DELETE CASCADE takes the overrides along.
DeleteInstance(i) ==
  /\ i \in instances
  /\ instances' = instances \ {i}
  /\ removed' = removed \cup {i}
  /\ rows' = [rows EXCEPT ![i] = NothingStored]

Next ==
  \/ \E s \in Scope : \/ \E entries \in SetBatches : SetBatch(s, entries)
                      \/ \E keys \in RemoveBatches : RemoveBatch(s, keys)
  \/ \E i \in Instance : CreateInstance(i) \/ DeleteInstance(i)

Spec == Init /\ [][Next]_settings

-----------------------------------------------------------------------------
\* No instance that does not exist has settings of its own, so that an ID or a
\* late request never brings settings back, and only accepted values are stored.
StoredSettings ==
  /\ instances \cap removed = {}
  /\ rows \in [Scope -> Stored]
  /\ \A i \in Instance \ instances : rows[i] = NothingStored
  /\ \A s \in Scope, k \in Key : rows[s][k] = NoRow \/ validateValue(k, rows[s][k])
=============================================================================
