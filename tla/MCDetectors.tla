---------------------------- MODULE MCDetectors -----------------------------
(***************************************************************************)
(* Detectors for TLC: for each detector the traffic it looks for, and      *)
(* packets that are none of its business.                                  *)
(***************************************************************************)
EXTENDS Detectors

CONSTANTS a, b,                \* hosts
          m1, m2,              \* MAC addresses
          plain, long, coded   \* names asked for

LoginsByService == [s \in {SSH, HTTP, HTTPS} |-> IF s = SSH THEN 2 ELSE 3]

WindowsByService ==
  [s \in {SSH, HTTP, HTTPS} |-> CASE s = SSH -> 2 [] s = HTTP -> 4 [] s = HTTPS -> 3]

Mix(packets, gaps, count) == [packets |-> packets, gaps |-> gaps, left |-> count]

(* One host tries two ports, the other one; no TCP.                        *)
Scans == Mix({Udp(a, b, "1"), Udp(a, b, "2"), Udp(b, a, "1")}, {1, 2, 3}, 6)

(* Stealth packets; a fragment, IPv6, ICMP.                                *)
Odd ==
  Mix({Tcp(a, b, "1", f, FALSE) : f \in {"", "F", "FPU"}}
        \cup {Tcp(a, b, "2", "PA", FALSE), Udp(a, b, "2"),
              WithIp(Blank, "TCP", a, b), WithTcp(Blank, "1", "F", FALSE),
              WithIp(Blank, "ICMP", a, b)}, {1, 3}, 3)

(* Attempts on two services of different windows.                          *)
Attempts ==
  Mix({Tcp(a, b, SSH, "S", FALSE), Tcp(a, b, HTTP, "PA", TRUE)}, {0, 1, 3}, 5)

(* Answers and pages among the attempts.                                   *)
Sessions ==
  Mix({Tcp(a, b, SSH, "S", FALSE), Tcp(b, a, HTTPS, "S", FALSE), Tcp(a, b, SSH, "A", FALSE),
       Tcp(a, b, HTTP, "S", FALSE), Tcp(a, b, HTTP, "PA", TRUE), Tcp(a, b, "1", "S", TRUE)},
      {0, 2}, 4)

(* A target that is flooded and answers, and another.                      *)
Flood ==
  Mix({Tcp(a, b, HTTP, f, FALSE) : f \in {"S", "A"}}
        \cup {Tcp(b, a, HTTP, "S", FALSE)}, {0, 2}, 5)

(* One target under steady traffic and after pauses.                       *)
Busy == Mix({Tcp(a, b, HTTP, f, FALSE) : f \in {"S", "A"}}, {0, 1, 3}, 5)

(* Every kind of name, another source, and an answer.                      *)
Names ==
  Mix({WithDns(Udp(a, b, DNS), q) : q \in {plain, long, coded}}
        \cup {WithDns(Udp(b, a, DNS), plain), Udp(a, b, DNS)}, {1, 2}, 4)

(* One name over and over.                                                 *)
Lookups == Mix({WithDns(Udp(a, b, DNS), plain)}, {0, 1, 2, 3}, 6)

(* Addresses claimed by two cards, asked for and announced.                *)
Claims ==
  Mix({WithArp(Blank, a, mac, a, TRUE) : mac \in {m1, m2}}
        \cup {WithArp(Blank, b, m1, b, TRUE), WithArp(Blank, a, m2, b, TRUE),
              WithArp(Blank, a, m1, a, FALSE), WithArp(Blank, a, None, b, FALSE)}, {0, 2}, 4)

Announces == Mix({WithArp(Blank, a, mac, a, TRUE) : mac \in {m1, m2}}, {0, 1, 2}, 5)

Everything ==
  [scans |-> Scans, odd |-> Odd, attempts |-> Attempts, sessions |-> Sessions,
   flood |-> Flood, busy |-> Busy, names |-> Names, lookups |-> Lookups,
   claims |-> Claims, announces |-> Announces]

OneTarget ==
  [flood |-> Mix({Tcp(a, b, HTTP, f, FALSE) : f \in {"S", "A"}}, {0, 1, 2}, 7)]
=============================================================================
