----------------------------- MODULE Simulators -----------------------------
(***************************************************************************)
(* scripts/sim_*.py against the five detectors with the thresholds of      *)
(* config/config.yaml.  Each script sends a fixed sequence of packets and  *)
(* sleeps between them; what a send takes is added to every sleep.  Some   *)
(* of the scripts are run one after the other, between two packets that    *)
(* are none of theirs.  The random sources of sim_syn_flood.py are one     *)
(* here: they only ever ask for one port.                                  *)
(*                                                                         *)
(* Time is counted in ticks, of which a second has 20.                     *)
(***************************************************************************)
EXTENDS Detectors, TLC

CONSTANTS
  SendTimes,             \* bound: what a send may take
  Pauses,                \* bound: the time before a script
  MaxScripts             \* bound: the number of scripts run

Second == 20

Pace(p, pause) == [packet |-> p, sleep |-> pause]

(* So many packets, a pause after each.                                    *)
Burst(count, pause, Of(_)) == [i \in 1 .. count |-> Pace(Of(i), pause)]

Target == "192.168.1.1"

PortScanScript == Burst(24, 2, LAMBDA i : Tcp("10.0.0.99", Target, ToString(i), "S", FALSE))

(* A further pause at the end.                                             *)
Then(burst, pause) == [burst EXCEPT ![Len(burst)].sleep = @ + pause]

BruteForceScript ==
  Then(Burst(7, 10, LAMBDA i : Tcp("10.0.0.77", Target, SSH, "S", FALSE)), 3 * Second)
    \o Burst(22, 4, LAMBDA i : Tcp("10.0.0.77", Target, HTTP, "PA", TRUE))

Ask(count, pause, name) ==
  Burst(count, pause, LAMBDA i : WithDns(Udp("10.0.0.88", Target, DNS), name))

DnsScript == Ask(1, 10, "long") \o Ask(1, 10, "encoded") \o Ask(55, 1, "flood-target")

Claim(mac, ip, to) == Burst(1, 0, LAMBDA i : WithArp(Blank, ip, mac, to, TRUE))

ArpScript ==
  Then(Claim("real", Target, "victim"), Second)
    \o Then(Claim("attacker", Target, "victim"), 2 * Second)
    \o Burst(5, 6, LAMBDA i : WithArp(Blank, "victim", "attacker", "victim", TRUE))

Spoofed(count, target, flags) ==
  Burst(count, 0, LAMBDA i : Tcp("spoofed", target, HTTP, flags, FALSE))

SynFloodScript ==
  Then(Spoofed(60, "high", "S"), 3 * Second) \o Spoofed(30, "medium", "S") \o Spoofed(2, "medium", "A")

Scripts == [port_scan |-> PortScanScript, brute_force |-> BruteForceScript,
            dns_tunnel |-> DnsScript, arp_spoof |-> ArpScript, syn_flood |-> SynFloodScript]

(* Somebody's TCP packet, of which the SYN flood detector takes the time.  *)
Other == Tcp("h1", "h2", "8080", "PA", FALSE)

VARIABLES
  script,                \* "idle" before a script is started, the script that runs,
                         \* "over" once no further one is started
  ran,                   \* the scripts that have ended
  todo,                  \* what the script has still to send
  sleep,                 \* the time since the last packet, but for the sends
  send,                  \* what a send takes
  scans                  \* for the property: the number of PORT_SCAN alerts so far

simVars == <<script, ran, todo, sleep, send, scans>>

SimInit ==
  /\ Init
  /\ script = "idle" /\ ran = {} /\ todo = <<Pace(Other, 0)>>
  /\ sleep = 0 /\ send \in SendTimes /\ scans = 0

(* The next packet: what is captured goes to all detectors.                *)
Send ==
  /\ todo # <<>>
  /\ Deliver(Head(todo).packet, sleep + send)
  /\ scans' = scans + (IF psAlert' = NoAlert THEN 0 ELSE 1)
  /\ todo' = Tail(todo)
  /\ sleep' = Head(todo).sleep
  /\ UNCHANGED <<script, ran, send>>

Start(name) ==
  /\ todo = <<>> /\ script = "idle"
  /\ name \notin ran /\ Cardinality(ran) < MaxScripts
  /\ script' = name
  /\ todo' = Scripts[name]
  /\ sleep' \in {sleep + p : p \in Pauses}
  /\ UNCHANGED <<vars, ran, send, scans>>

End ==
  /\ todo = <<>> /\ script \in DOMAIN Scripts
  /\ script' = "idle"
  /\ ran' = ran \cup {script}
  /\ UNCHANGED <<vars, todo, sleep, send, scans>>

(* The detectors go on to look at packets: one more, a window later.       *)
Over ==
  /\ todo = <<>> /\ script = "idle" /\ Cardinality(ran) = MaxScripts
  /\ script' = "over"
  /\ todo' = <<Pace(Other, 0)>>
  /\ sleep' = sleep + FloodWindow
  /\ UNCHANGED <<vars, ran, send, scans>>

SimNext == Send \/ End \/ Over \/ \E name \in DOMAIN Scripts : Start(name)

SimSpec == SimInit /\ [][SimNext]_<<vars, simVars>>
-----------------------------------------------------------------------------
Times(name) == IF name \in ran THEN 1 ELSE 0

Reports(service) ==
  Cardinality({i \in 1 .. Len(bfHistory) : bfHistory[i].alerted > 0 /\ bfHistory[i].key[3] = service})

Anomalies(reason) == Cardinality({i \in 1 .. Len(dnHistory) : dnHistory[i].reason = reason})

Floods(target) == {n \in 1 .. Len(sfReports) : target \in DOMAIN sfReports[n].told}

(* What the scripts say of themselves, with the thresholds of config.yaml: *)
(* once a script has ended, its attack has been reported, by the detector  *)
(* it is for, once, and nobody else has reported any but the SYN flood     *)
(* detector (sim_port_scan.py, line 7; sim_brute_force.py, lines 11 and    *)
(* 16; sim_dns_tunnel.py, lines 7-9; sim_arp_spoof.py, lines 10 and 15).   *)
(* Of sim_syn_flood.py and of the SYNs of sim_port_scan.py the property    *)
(* only says that a target is reported at most once, and none but that of  *)
(* the first scenario as HIGH: when the evaluations fall decides whether.  *)
AsAnnounced ==
  /\ script \in {"idle", "over"} =>
       /\ scans = Times("port_scan")
       /\ Reports(SSH) = Times("brute_force") /\ Reports(HTTP) = Times("brute_force")
       /\ Anomalies("LONG_SUBDOMAIN") = Times("dns_tunnel")
       /\ Anomalies("HIGH_ENTROPY") = Times("dns_tunnel")
       /\ Anomalies("QUERY_FLOOD") = Times("dns_tunnel")
       /\ Cardinality({i \in 1 .. Len(arHistory) : arHistory[i].conflict}) = Times("arp_spoof")
       /\ Cardinality({i \in 1 .. Len(arHistory) : arHistory[i].flood > 0}) = Times("arp_spoof")
  /\ \A target \in {Target, "high", "medium"} : Cardinality(Floods(target)) <= 1
  /\ \A target \in {Target, "medium"} : \A n \in Floods(target) :
       sfReports[n].told[target] = "MEDIUM"
=============================================================================
