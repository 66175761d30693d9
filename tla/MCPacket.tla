------------------------------ MODULE MCPacket ------------------------------
(***************************************************************************)
(* Two parts side by side, one of which is chosen at the start: the data   *)
(* of a packet (module Packet) and its metadata (module Parser).           *)
(***************************************************************************)
EXTENDS Packet

CONSTANTS Attributes

VARIABLES part, frame, hdr, seen, given

Ip(ver, ihl, n, frag, proto, exts) ==
  [ver |-> ver, ihl |-> ihl, len |-> n, frag |-> frag, proto |-> proto, exts |-> exts]
Frame(n, types, ip, hl, udplen) ==
  [len |-> n, types |-> types, claim |-> 46, ip |-> ip, l4 |-> [hl |-> hl, len |-> udplen]]
NoIp == Ip(0, 0, 0, FALSE, "none", <<>>)

MCFrames ==
  {Frame(60, <<"vlan", "arp">>, NoIp, 0, 0),
   Frame(60, <<"outer", "ipv4">>, Ip(4, 5, 30, FALSE, "udp", <<>>), 5, 11),
   Frame(60, <<"ipv4">>, Ip(4, 5, 46, FALSE, "udp", <<>>), 5, 26),
   Frame(60, <<"ipv4">>, Ip(4, 4, 46, FALSE, "udp", <<>>), 5, 26),
   Frame(60, <<"ipv4">>, Ip(4, 5, 47, FALSE, "tcp", <<>>), 5, 0),
   Frame(60, <<"ipv4">>, Ip(4, 5, 46, FALSE, "tcp", <<>>), 4, 0),
   Frame(64, <<"vlan", "ipv4">>, Ip(4, 6, 46, TRUE, "tcp", <<>>), 6, 0),
   Frame(1518, <<"outer", "vlan", "ipv4">>, Ip(4, 5, 40, FALSE, "icmp", <<>>), 4, 0),
   Frame(68, <<"len", "ipv4">>, Ip(4, 5, 46, FALSE, "ipsec", <<>>), 5, 0),
   Frame(59, <<"len", "ipv4">>, Ip(4, 5, 37, FALSE, "ipsec", <<>>), 5, 0),
   Frame(140, <<"ipv6">>, Ip(6, 5, 86, FALSE, "udp", <<8, 16>>), 5, 20),
   Frame(140, <<"ipv6">>, Ip(6, 5, 60, FALSE, "frag", <<24>>), 5, 20),
   Frame(154, <<"ipv6">>, Ip(6, 5, 100, FALSE, "frag", <<24>>), 5, 20),
   Frame(102, <<"ipv6">>, Ip(6, 5, 48, FALSE, "udp", <<>>), 5, 48),
   Frame(100, <<"ipv6">>, Ip(6, 5, 80, FALSE, "frag", <<>>), 5, 20),
   Frame(100, <<"ipv6">>, Ip(6, 5, 46, FALSE, "tcp", <<64, 8>>), 5, 20)}

Meta == INSTANCE Parser WITH Frames <- MCFrames, Offsets <- {<<"l3", 59>>}

SumInit ==
  /\ part \in {"data", "metadata"} /\ Init /\ Meta!Init
  /\ part = "metadata" => /\ seg = (CHOOSE s \in SegSizes : TRUE)
                         /\ mem = (CHOOSE m \in Unknown(seg, segs) : TRUE)
                         /\ segs = (CHOOSE k \in Blocks(seg, PoolLen) : TRUE)
SumNext ==
  \/ part = "data" /\ Next /\ UNCHANGED <<part, frame, hdr, seen, given>>
  \/ part = "metadata" /\ Meta!Next /\ UNCHANGED <<part, seg, segs, mem, head, len, tail, slack, call>>
SumSpec == SumInit /\ [][SumNext]_<<part, seg, segs, mem, head, len, tail, slack, call, frame, hdr, seen, given>>

(* The last call decides nothing about the next, unless it did not return: *)
(* states that differ in nothing else have the same steps.  TLC holds every *)
(* step against DataKept, those to a state it has seen before included.    *)
View == <<part, seg, segs, mem, head, len, tail, slack, call.kind = "stuck", frame, hdr, seen, given>>

(* See modules Packet and Parser.                                          *)
FirstLookTells == Meta!FirstLookTells
=============================================================================
