--------------------------- MODULE MCHistoryPoll ---------------------------
(***************************************************************************)
(* Instances of HistoryPoll for TLC: two instances that come and go, of    *)
(* which the first may always fail, while one thing happens on a server;   *)
(* or one instance that stays, on whose server more happens.               *)
(***************************************************************************)
EXTENDS HistoryPoll

Alone == instances = {2} /\ removed = {}

MCNext == Next /\ (clock' > 1 => Alone /\ Alone')

MCSpec == Init /\ [][MCNext]_vars /\ Fairness /\ StaysUp
=============================================================================
