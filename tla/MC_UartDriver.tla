----------------------------- MODULE MC_UartDriver -----------------------------
(* OneWaySpec: bytes go in one direction only, which keeps the state graph   *)
(* small enough for liveness.  Neither direction has a fairness assumption.  *)
EXTENDS UartDriver

OneWay == arrived = 0 \/ written = 0
OneWaySpec == Init /\ [][Next /\ OneWay']_vars /\ Fairness
=============================================================================
