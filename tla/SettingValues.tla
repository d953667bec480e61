--------------------------- MODULE SettingValues ---------------------------
(***************************************************************************)
(* The values of huntarr2's settings (internal/settings): what a request   *)
(* may store, and the settings in force that follow from what is stored:   *)
(* an instance's own value, else the global one, else the default.         *)
(*                                                                         *)
(* Times and durations are numbers of one unit.                            *)
(***************************************************************************)
EXTENDS Integers

CONSTANTS
  Instance,        \* IDs; a deleted ID never returns
  Key,             \* the keys looked at
  Value,           \* the values a request may carry for them
  Blank,           \* the empty text
  Malformed,       \* a text that is no value of its key
  NoRow,
  Defaults,        \* settings.Defaults
  MaxCooldownPeriod, MaxSearchInterval

NumberKeys == {"batch_size", "search_limit"}
DurationKeys == {"cooldown_period", "search_interval"}
WindowKeys == {"search_window_start", "search_window_end"}
FlagKeys == {"enabled", "search_missing"}

ValidKeys == NumberKeys \cup DurationKeys \cup WindowKeys \cup FlagKeys

Global == "global"
Scope == Instance \cup {Global}

maxDuration(k) == IF k = "cooldown_period" THEN MaxCooldownPeriod ELSE MaxSearchInterval

Flag == {0, 1}
TimeOfDay == 0 .. 1439

\* validateValue: what a request may store.
validateValue(k, v) ==
  \/ k \in NumberKeys /\ v \in Nat \ {0}
  \/ k \in DurationKeys /\ v \in 1 .. maxDuration(k)
  \/ k \in WindowKeys /\ v \in TimeOfDay \cup {Blank}
  \/ k \in FlagKeys /\ v \in Flag

ASSUME SettingsAssumption ==
  /\ Global \notin Instance
  /\ Key \subseteq ValidKeys
  /\ Value \subseteq Int \cup {Blank, Malformed}
  /\ Blank \notin Int /\ Malformed \notin Int /\ Blank # Malformed
  /\ NoRow \notin Int \cup {Blank, Malformed}
  /\ MaxCooldownPeriod \in Nat /\ MaxSearchInterval \in Nat
  /\ Defaults \in [Key -> Value]
  /\ \A k \in Key : validateValue(k, Defaults[k])

Stored == [Key -> Value \cup {NoRow}]
Resolved == [Key -> Int \cup {Blank, Malformed}]
NothingStored == [k \in Key |-> NoRow]

\* What applyOverrides makes of a stored value over the layer below: what does
\* not parse is skipped, a duration that is too long is cut.
applied(k, v, below) ==
  IF v = NoRow THEN below
  ELSE IF k \in WindowKeys THEN v
  ELSE IF k \in DurationKeys
       THEN IF v \notin Nat \ {0} THEN below
            ELSE IF v > maxDuration(k) THEN maxDuration(k) ELSE v
  ELSE IF v \in (IF k \in FlagKeys THEN Flag ELSE Int) THEN v
  ELSE below

applyOverrides(below, stored) == [k \in Key |-> applied(k, stored[k], below[k])]

resolve(global, own) == applyOverrides(applyOverrides(Defaults, global), own)

resolveGlobal(global) == applyOverrides(Defaults, global)

\* What is in force in a scope, given the stored values of every scope.
Effective(stored, s) ==
  IF s = Global THEN resolveGlobal(stored[Global]) ELSE resolve(stored[Global], stored[s])

-----------------------------------------------------------------------------
\* The values of a batch over the stored ones.
Over(entries, stored) ==
  [k \in Key |-> IF k \in DOMAIN entries THEN entries[k] ELSE stored[k]]

Accepted(entries) ==
  \A k \in DOMAIN entries : k \in Key /\ validateValue(k, entries[k])

Without(keys, stored) == [k \in Key |-> IF k \in keys THEN NoRow ELSE stored[k]]
=============================================================================
