------------------------------- MODULE Parser -------------------------------
(***************************************************************************)
(* The metadata of a packet: the parser of odp_packet.c, which runs when    *)
(* an attribute of a received packet is first asked for or set, the flags  *)
(* of odp_packet_flags.c, the layer offsets, and what the calls that make  *)
(* a new packet of an old one copy (copy_packet_parser_metadata,           *)
(* odp_packet_copy).                                                       *)
(*                                                                         *)
(* A frame is the headers the parser would read, one after the other:      *)
(*                                                                         *)
(*   len    its length                                                     *)
(*   types  the type fields: tags, "len" (a length: SNAP), the protocol    *)
(*   claim  the length a SNAP frame claims                                 *)
(*   ip     version, header words (ihl), length, fragment or not,          *)
(*          protocol, and for IPv6 the sizes of its extension headers      *)
(*   l4     header words (hl) and length of TCP and UDP                    *)
(*                                                                         *)
(* Tag values and the numbers of protocols are left out, and the segments  *)
(* the headers lie in: they are in the first one.                          *)
(***************************************************************************)
EXTENDS Integers, Sequences, SequencesExt

CONSTANTS
  Frames,
  Attributes,    \* the flags the application sets
  Offsets        \* the layers and offsets it sets

VARIABLES
  frame,     \* the data of the packet
  hdr,       \* input_flags, error_flags, the layer offsets and lengths, user pointer
  seen,      \* history: the frame the parser saw, or None
  given      \* history: what the application has set since, by attribute

vars == <<frame, hdr, seen, given>>

Invalid == -1       \* ODP_PACKET_OFFSET_INVALID
ETH_LEN_MAX == 1514
Layers == {"l2", "l3", "l4"}
NotSeen == [len |-> 0]

input_flags ==
  {"unparsed", "l2", "l3", "l4", "eth", "jumbo", "vlan", "vlan_qinq", "snap", "arp", "ipv4", "ipv6",
   "ipfrag", "ipopt", "ipsec", "udp", "tcp", "tcpopt", "sctp", "icmp"}

-----------------------------------------------------------------------------
(* Each parse_* function gives the flags it sets, the errors, the offset   *)
(* behind its header, the length and the protocol it found.                *)
parse_ipv4(f, offset) ==
  IF f.ip.ihl < 5 \/ f.ip.ver # 4 \/ f.ip.len > f.len - offset
  THEN [flags |-> {}, errs |-> {"ip_err"}, offset |-> offset, len |-> f.ip.len, proto |-> "none"]
  ELSE [flags |-> {x \in {"ipopt", "ipfrag"} : IF x = "ipopt" THEN f.ip.ihl > 5 ELSE f.ip.frag},
        errs |-> {}, offset |-> offset + 4 * f.ip.ihl, len |-> f.ip.len, proto |-> f.ip.proto]

(* The extension headers are skipped while the frame lasts.                *)
RECURSIVE Skip(_, _, _)
Skip(f, offset, i) ==
  IF i > Len(f.ip.exts) \/ (i > 1 /\ offset >= f.len)
  THEN [offset |-> offset, proto |-> IF i > Len(f.ip.exts) THEN f.ip.proto ELSE "ext"]
  ELSE Skip(f, offset + f.ip.exts[i], i + 1)

parse_ipv6(f, offset) ==
  LET next == Skip(f, offset + 40, 1)
      opt == f.ip.exts # <<>>
  IN IF f.ip.ver # 6 \/ f.ip.len > f.len - offset
     THEN [flags |-> {}, errs |-> {"ip_err"}, offset |-> offset, len |-> f.ip.len, proto |-> "none"]
     ELSE IF opt /\ next.offset >= offset + f.ip.len
     THEN [flags |-> {"ipopt"}, errs |-> {"ip_err"}, offset |-> next.offset, len |-> f.ip.len, proto |-> "none"]
     ELSE [flags |-> {x \in {"ipopt", "ipfrag"} : next.proto = "frag" \/ (x = "ipopt" /\ opt)},
           errs |-> {}, offset |-> next.offset, len |-> f.ip.len, proto |-> next.proto]

parse_tcp(f, l3_end, l4_offset) ==
  [flags |-> IF f.l4.hl > 5 THEN {"tcp", "tcpopt"} ELSE {"tcp"},
   errs |-> IF f.l4.hl < 5 THEN {"tcp_err"} ELSE {},
   offset |-> l4_offset + 4 * f.l4.hl, len |-> l3_end - l4_offset]

parse_udp(f, l3_end, l4_offset) ==
  [flags |-> {"udp"},
   errs |-> IF f.l4.len < 8 \/ f.l4.len > l3_end - l4_offset THEN {"udp_err"} ELSE {},
   offset |-> l4_offset + 8, len |-> f.l4.len]

(* Layers 3 and 4 behind the last type field, at this offset.              *)
ParseL3(f, type, offset, hdr2) ==
  LET ip == CASE type = "ipv4" -> parse_ipv4(f, offset)
              [] type = "ipv6" -> parse_ipv6(f, offset)
              [] OTHER -> [flags |-> {}, errs |-> {}, offset |-> offset, len |-> hdr2.l3_len, proto |-> "none"]
      known == type \in {"ipv4", "ipv6", "arp"}
      l4 == CASE ip.proto = "tcp" -> parse_tcp(f, ip.len + offset, ip.offset)
              [] ip.proto = "udp" -> parse_udp(f, ip.len + offset, ip.offset)
              [] ip.proto \in {"icmp", "ipsec"} ->
                   [flags |-> {ip.proto}, errs |-> {}, offset |-> ip.offset, len |-> hdr2.l4_len]
              [] OTHER -> [flags |-> {}, errs |-> {}, offset |-> ip.offset, len |-> hdr2.l4_len]
  IN [hdr2 EXCEPT
        !.flags = @ \cup (IF known THEN {"l3", type} ELSE {}) \cup ip.flags \cup l4.flags
                    \cup IF l4.flags # {} THEN {"l4"} ELSE {},
        !.errs = @ \cup ip.errs \cup l4.errs,
        !.l3 = IF known THEN offset ELSE Invalid,
        !.l4 = IF l4.flags # {} THEN ip.offset ELSE Invalid,
        !.payload = l4.offset, !.l3_len = ip.len, !.l4_len = l4.len]

_odp_packet_parse(h, f) ==
  LET outer == f.types[1] = "outer"
      i == IF outer THEN 2 ELSE 1
      vlan == f.types[i] = "vlan"
      j == IF vlan THEN i + 1 ELSE i
      offset == 14 + 4 * (j - 1)
      snap == f.types[j] = "len"
      start == [h EXCEPT
        !.flags = {"eth", "l2"} \cup (IF f.len > ETH_LEN_MAX THEN {"jumbo"} ELSE {})
                    \cup (IF outer THEN {"vlan", "vlan_qinq"} ELSE {}) \cup (IF vlan THEN {"vlan"} ELSE {})
                    \cup IF snap THEN {"snap"} ELSE {},
        !.errs = IF snap /\ f.claim > f.len - offset THEN {"snap_len"} ELSE {},
        !.l2 = 0, !.l3 = Invalid, !.l4 = Invalid, !.payload = Invalid]
  IN IF start.errs # {} THEN start
     ELSE IF snap THEN ParseL3(f, f.types[j + 1], offset + 8, start)
     ELSE ParseL3(f, f.types[j], offset, start)

-----------------------------------------------------------------------------
packet_init == [flags |-> {}, errs |-> {}, l2 |-> Invalid, l3 |-> Invalid, l4 |-> Invalid,
                payload |-> Invalid, l3_len |-> 0, l4_len |-> 0, user |-> 0]
NoneGiven == [x \in {} |-> 0]

Init ==
  /\ frame = (CHOOSE f \in Frames : TRUE) /\ hdr = packet_init
  /\ seen = NotSeen /\ given = NoneGiven

Give(x, v) == given' = [y \in DOMAIN given \cup {x} |-> IF y = x THEN v ELSE given[y]]
Anew(f) == frame' = f /\ seen' = NotSeen /\ given' = NoneGiven

(* A packet from an interface: every flag is set, "unparsed" too.  The     *)
(* loopback device hands on packets with the metadata they had.            *)
_odp_packet_reset_parse(f) == hdr' = [hdr EXCEPT !.flags = input_flags] /\ Anew(f)

(* A packet of the application's; its buffer's user pointer is not reset.  *)
odp_packet_alloc(f) == hdr' = [packet_init EXCEPT !.user = hdr.user] /\ Anew(f)

(* The application writes another frame into the packet.                   *)
Write(f) == frame' = f /\ UNCHANGED <<hdr, seen, given>>

(* What every accessor does first.                                         *)
Parsed == IF "unparsed" \in hdr.flags THEN _odp_packet_parse(hdr, frame) ELSE hdr
See == seen' = IF "unparsed" \in hdr.flags THEN frame ELSE seen

(* odp_packet_has_* and odp_packet_has_error; odp_packet_l2_ptr,           *)
(* odp_packet_l2_offset and their kin.                                     *)
retflag == hdr' = Parsed /\ See /\ UNCHANGED <<frame, given>>
l_offset == hdr' = Parsed /\ See /\ UNCHANGED <<frame, given>>

SetflagMutant(x, v) ==
  /\ hdr' = [hdr EXCEPT !.flags = IF v = 1 THEN @ \cup {x} ELSE @ \ {x}]
  /\ Give(<<"flag", x>>, v)
  /\ UNCHANGED <<frame, seen>>
setflag(x, v) ==
  /\ hdr' = [Parsed EXCEPT !.flags = IF v = 1 THEN @ \cup {x} ELSE @ \ {x}]
  /\ See /\ Give(<<"flag", x>>, v)
  /\ UNCHANGED frame

(* odp_packet_l2_offset_set and its kin; an offset behind the data is      *)
(* refused before the packet is parsed.                                    *)
l_offset_set(l, offset) ==
  IF offset >= frame.len
  THEN UNCHANGED vars
  ELSE /\ hdr' = [Parsed EXCEPT ![l] = offset]
       /\ See /\ Give(<<"offset", l>>, offset)
       /\ UNCHANGED frame

odp_packet_user_ptr_set(v) ==
  hdr' = [hdr EXCEPT !.user = v] /\ Give(<<"user", "">>, v) /\ UNCHANGED <<frame, seen>>

(* The application goes on with a new packet.  After odp_packet_add_data   *)
(* and odp_packet_rem_data (of data behind the headers), and as the output *)
(* of a crypto operation, it has the parser metadata and user pointer of   *)
(* the old one.                                                            *)
copy_packet_parser_metadata ==
  /\ hdr' = [packet_init EXCEPT
       !.flags = hdr.flags, !.errs = hdr.errs, !.l2 = hdr.l2, !.l3 = hdr.l3, !.l4 = hdr.l4,
       !.payload = hdr.payload, !.l3_len = hdr.l3_len, !.l4_len = hdr.l4_len, !.user = hdr.user]
  /\ UNCHANGED <<frame, seen, given>>

(* After odp_packet_copy it has all that is behind the buffer header; the  *)
(* user pointer, which is in it, is whatever the buffer had.               *)
odp_packet_copy ==
  /\ \E v \in {0, 1} : hdr' = [hdr EXCEPT !.user = v]
  /\ given' = [x \in DOMAIN given \ {<<"user", "">>} |-> given[x]]
  /\ UNCHANGED <<frame, seen>>

Next ==
  \/ \E f \in Frames : _odp_packet_reset_parse(f) \/ odp_packet_alloc(f) \/ Write(f)
  \/ retflag \/ l_offset
  \/ \E x \in Attributes, v \in {0, 1} : setflag(x, v)
  \/ \E o \in Offsets : l_offset_set(o[1], o[2])
  \/ odp_packet_user_ptr_set(1)
  \/ copy_packet_parser_metadata \/ odp_packet_copy

Spec == Init /\ [][Next]_vars

-----------------------------------------------------------------------------
(* The headers of a frame in their order, with their sizes; where a layer  *)
(* begins is the size of all that is before it.                            *)
Headers(f) ==
  LET Tag(t) == IF t \in {"outer", "vlan"} THEN 4 ELSE IF t = "len" THEN 8 ELSE 0
      type == Last(f.types)
      l3 == CASE type = "ipv4" -> <<4 * f.ip.ihl>> [] type = "ipv6" -> <<40>> \o f.ip.exts [] OTHER -> <<>>
  IN <<14>> \o [i \in DOMAIN f.types |-> Tag(f.types[i])] \o l3
Total(s) == FoldSeq(+, 0, s)
L3At(f) == Total(SubSeq(Headers(f), 1, 1 + Len(f.types)))
L4At(f) == Total(Headers(f))

IsIp(f) == Last(f.types) \in {"ipv4", "ipv6"}

(* Where the IP datagram ends: IPv6 gives the length behind its header.    *)
End(f) == L3At(f) + f.ip.len + IF Last(f.types) = "ipv6" THEN 40 ELSE 0

KnownTags(f) == Front(f.types) \in {<<>>, <<"outer">>, <<"vlan">>, <<"outer", "vlan">>, <<"len">>, <<"vlan", "len">>}
Complete(f) ==
  /\ KnownTags(f)
  /\ "len" \in ToSet(f.types) => f.claim <= f.len - (L3At(f) - 8)
  /\ IsIp(f) =>
       /\ IF Last(f.types) = "ipv4" THEN f.ip.ver = 4 /\ f.ip.ihl >= 5 ELSE f.ip.ver = 6
       /\ L4At(f) <= End(f) /\ End(f) <= f.len

(* The errors of its layer 4 header.                                       *)
Earned(f) ==
  {x \in {"tcp_err", "udp_err"} :
     /\ IsIp(f)
     /\ IF x = "tcp_err" THEN f.ip.proto = "tcp" /\ f.l4.hl < 5
        ELSE f.ip.proto = "udp" /\ (f.l4.len < 8 \/ L4At(f) + f.l4.len > End(f))}

(* An IPv6 datagram whose layer 4 begins in, or as UDP reaches into, its   *)
(* last 40 bytes: the parser takes the length it gives for that of the     *)
(* whole datagram, and reports an error it may not have.                   *)
Misjudged(f) ==
  /\ Last(f.types) = "ipv6"
  /\ L4At(f) + (IF f.ip.proto = "udp" /\ f.l4.len > 0 THEN f.l4.len ELSE 1) > End(f) - 40

Told(x, v) == IF x \in DOMAIN given THEN given[x] ELSE v

(* What the first look at a received packet finds stays, whatever the data *)
(* becomes later, except where the application has set something else,     *)
(* which stays too, and goes along to a copy: no accessor parses again,    *)
(* and none sets before it has parsed.  What it finds in a frame whose     *)
(* headers are complete is where each layer begins, and exactly the errors *)
(* its layer 4 header earns (_odp_packet_parse), but for the IPv6          *)
(* datagrams that parse_ipv6 and parse_udp misjudge.                       *)
FirstLookTells ==
  LET found == _odp_packet_parse(packet_init, seen) IN
  /\ hdr.user = Told(<<"user", "">>, hdr.user)
  /\ "unparsed" \in hdr.flags => seen = NotSeen
  /\ seen # NotSeen =>
       /\ \A x \in input_flags : Told(<<"flag", x>>, IF x \in found.flags THEN 1 ELSE 0) = IF x \in hdr.flags THEN 1 ELSE 0
       /\ \A l \in Layers : hdr[l] = Told(<<"offset", l>>, found[l])
       /\ Complete(seen) =>
            /\ found.l2 = 0
            /\ found.l3 = IF IsIp(seen) \/ Last(seen.types) = "arp" THEN L3At(seen) ELSE Invalid
       /\ Complete(seen) /\ ~Misjudged(seen) =>
            /\ found.l4 = IF IsIp(seen) /\ seen.ip.proto \in {"tcp", "udp", "icmp", "ipsec"} THEN L4At(seen) ELSE Invalid
            /\ hdr.errs = Earned(seen)
=============================================================================
