---------------------------- MODULE InstancePace ----------------------------
(***************************************************************************)
(* What the scheduler promises about the pace of each instance, whatever   *)
(* else it does: cycles run one at a time, none before the wait since the  *)
(* end of the last one is over, and the wait that follows depends on the   *)
(* interval that was in force when the cycle began.  Scheduler implements  *)
(* this with its map of schedules.                                         *)
(***************************************************************************)
EXTENDS Integers

CONSTANTS
  Instance,
  Nobody,          \* no instance is being cycled
  Never            \* when a cycle is due that no cycle went before

VARIABLES
  clock,
  inForce,         \* the search interval of each instance, changed by others
  running,         \* the instance whose cycle runs
  base,            \* the interval that cycle goes by
  wait, due        \* how long each instance waits, and until when

pace == <<clock, inForce, running, base, wait, due>>

-----------------------------------------------------------------------------
\* The waits a cycle may set that goes by the base b after a wait of p: any in the
\* range of b, or from outside of it a factor of two closer.
Waits(b, p) ==
  (b \div 4) .. (4 * b) \cup {w \in {p \div 2} : w > 4 * b}
                        \cup {w \in {2 * p} : w < b \div 4}

Init ==
  /\ clock \in Nat
  /\ inForce \in [Instance -> Nat \ {0}]
  /\ running = Nobody
  /\ base = 0
  /\ wait = [i \in Instance |-> 0]
  /\ due = [i \in Instance |-> Never]

Start(i) ==
  /\ running = Nobody
  /\ due[i] <= clock
  /\ running' = i
  /\ base' = inForce[i]
  /\ UNCHANGED <<clock, inForce, wait, due>>

\* The first wait of an instance is set as if it had waited for the base.
Previous(i) == IF wait[i] = 0 THEN base ELSE wait[i]

\* The wait counts from the end of the cycle, however long it took.
End(i) ==
  /\ running = i
  /\ \E w \in Waits(base, Previous(i)) :
       /\ wait' = [wait EXCEPT ![i] = w]
       /\ due' = [due EXCEPT ![i] = clock + w]
  /\ running' = Nobody
  /\ base' = 0
  /\ UNCHANGED <<clock, inForce>>

Without(S) ==
  /\ wait' = [i \in Instance |-> IF i \in S THEN 0 ELSE wait[i]]
  /\ due' = [i \in Instance |-> IF i \in S THEN Never ELSE due[i]]

\* Instances that are switched off or gone, between two cycles.
Forget(S) ==
  /\ running = Nobody
  /\ Without(S)
  /\ UNCHANGED <<clock, inForce, running, base>>

\* The end of the process.
ForgetAll ==
  /\ Without(Instance)
  /\ running' = Nobody
  /\ base' = 0
  /\ UNCHANGED <<clock, inForce>>

Change ==
  /\ UNCHANGED <<clock, running, base, wait, due>>
  /\ inForce' \in [Instance -> Nat \ {0}]

Tick ==
  /\ clock' = clock + 1
  /\ UNCHANGED <<inForce, running, base, wait, due>>

Next ==
  \/ Change
  \/ Tick
  \/ \E i \in Instance : Start(i) \/ End(i)
  \/ \E S \in SUBSET Instance : Forget(S)
  \/ ForgetAll

Spec == Init /\ [][Next]_pace
=============================================================================
