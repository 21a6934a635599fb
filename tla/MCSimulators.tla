---------------------------- MODULE MCSimulators ----------------------------
(***************************************************************************)
(* Simulators for TLC: the thresholds of config/config.yaml per service,   *)
(* and the packets of the scripts as the traffic of Detectors.             *)
(***************************************************************************)
EXTENDS Simulators

ConfiguredLogins ==
  [s \in {SSH, HTTP, HTTPS} |-> CASE s = SSH -> 5 [] s = HTTP -> 20 [] OTHER -> 100]

ConfiguredWindows ==
  [s \in {SSH, HTTP, HTTPS} |-> (IF s = SSH THEN 30 ELSE 60) * Second]

Sent == UNION {{Scripts[name][i].packet : i \in 1 .. Len(Scripts[name])} : name \in DOMAIN Scripts}

Demonstration == [scripts |-> [packets |-> Sent \cup {Other}, gaps |-> Pauses, left |-> 1000]]
=============================================================================
