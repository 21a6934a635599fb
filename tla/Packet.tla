------------------------------- MODULE Packet -------------------------------
(***************************************************************************)
(* core/capture/parser.py: the dictionary a packet becomes, with the       *)
(* fields the detectors look at.  parse() starts from a blank one and lets *)
(* each layer the packet has fill in its fields; a field no layer fills    *)
(* stays None.  IPv6 has no layer here: such a packet has ports and flags, *)
(* but neither addresses nor protocol.  A fragment has addresses and a     *)
(* protocol, but no ports and flags.  None stands for port 0 and the empty *)
(* address, too, which the detectors treat like missing ones.              *)
(***************************************************************************)

None == "None"

(* login: the payload holds "POST" and "/login"; reply: arp_op = 2.        *)
Blank == [protocol |-> None, src |-> None, dst |-> None, mac |-> None, port |-> None,
          flags |-> None, login |-> FALSE, reply |-> FALSE, qname |-> None]

WithIp(p, protocol, src, dst) ==
  [p EXCEPT !.protocol = protocol, !.src = src, !.dst = dst]

WithTcp(p, port, flags, login) ==
  [p EXCEPT !.port = port, !.flags = flags, !.login = login]

WithUdp(p, port) == [p EXCEPT !.port = port]

WithArp(p, src, mac, dst, reply) ==
  [p EXCEPT !.protocol = "ARP", !.src = src, !.mac = mac, !.dst = dst, !.reply = reply]

WithDns(p, qname) == [p EXCEPT !.qname = qname]

Tcp(src, dst, port, flags, login) ==
  WithTcp(WithIp(Blank, "TCP", src, dst), port, flags, login)

Udp(src, dst, port) == WithUdp(WithIp(Blank, "UDP", src, dst), port)

(* Services and the ports they are known by.                               *)
SSH == "22"
HTTP == "80"
HTTPS == "443"
DNS == "53"
=============================================================================
