------------------------------- MODULE Packet -------------------------------
(***************************************************************************)
(* The calls that change the data of a packet: odp_packet.c, with          *)
(* packet_init, packet_map and the push and pull operations of             *)
(* odp_packet_internal.h and the segment arithmetic of                     *)
(* odp_buffer_inlines.h.                                                   *)
(*                                                                         *)
(* One packet.  Its buffer is a row of segments of equal size; a byte is   *)
(* named by its offset from the first of them.  How many segments there    *)
(* are is the pool's choice: a buffer from a cache keeps those it had.     *)
(***************************************************************************)
EXTENDS Integers, Sequences, FiniteSetsExt

CONSTANTS
  SegSizes,      \* seg_size of the pools; a pool is named by it
  PoolLen,       \* params.buf.size of the pools
  Headroom,      \* ODP_CONFIG_PACKET_HEADROOM
  Tailroom,      \* ODP_CONFIG_PACKET_TAILROOM
  MaxBuf,        \* bound: bytes of a buffer, for seg_size * ODP_BUFFER_MAX_SEG
  Bytes,
  Offsets, Args, \* offsets and lengths the application passes
  Width          \* bits of a uint32_t

ASSUME PacketAssumption ==
  /\ SegSizes # {} /\ Bytes # {}
  /\ {PoolLen, MaxBuf, Width} \subseteq Nat \ {0} /\ {Headroom, Tailroom} \subseteq Nat
  /\ \A s \in SegSizes : s \in Nat /\ Headroom + Tailroom < s
                         /\ Headroom + PoolLen + Tailroom <= MaxBuf - s
  (* Named assumption: no offset plus length wraps. *)
  /\ \A a \in Offsets \cup Args, b \in Args : a \in Nat /\ a + b + MaxBuf < 2^Width

VARIABLES
  seg, segs,         \* buf_hdr.segsize and segcount
  mem,               \* the bytes of the buffer
  head, len, tail,   \* headroom, frame_len, tailroom
  slack,             \* history: bytes of the buffer the rooms leave out, see
                     \*  odp_packet_copy
  call               \* the last call: its effect on the data, where, how much

buffer == <<seg, segs, mem>>
rooms == <<head, len, tail>>
vars == <<seg, segs, mem, head, len, tail, slack, call>>

Add(a, b) == (a + b) % 2^Width
Sub(a, b) == (a - b) % 2^Width

AnyByte == CHOOSE b \in Bytes : TRUE
Does(kind, at, n) == call' = [kind |-> kind, at |-> at, n |-> n, byte |-> AnyByte]
Refuse == Does("keep", 0, 0) /\ UNCHANGED <<buffer, rooms, slack>>

-----------------------------------------------------------------------------
(* buffer_map of headroom + offset: the data bytes up to the end of their  *)
(* segment.  packet_map leaves the 0 its callers set when the offset is    *)
(* behind the data.                                                        *)
seglen(p, offset) ==
  LET o == (p.head + offset) % p.seg
      buf_left == p.len - offset IN
  IF buf_left < 0 THEN 0
  ELSE IF o + buf_left <= p.seg THEN buf_left ELSE p.seg - o

(* One memcpy of the copying loops.  What lies behind the end of a segment *)
(* belongs to no packet: nothing is known of it, nothing is kept there.    *)
Within(p, i, j) == j \in DOMAIN p.mem /\ j \div p.seg = i \div p.seg

memcpy(dst, doff, src, soff, n) ==
  LET d == dst.head + doff
      s == src.head + soff IN
  [dst EXCEPT !.mem =
     [j \in DOMAIN @ |->
        IF j - d \notin 0 .. n - 1 \/ ~Within(dst, d, j) THEN @[j]
        ELSE IF Within(src, s, s + j - d) THEN src.mem[s + j - d] ELSE AnyByte]]

RECURSIVE copy_loop(_, _, _, _, _)
CopyLoopMutant(src, soff, dst, doff, n) ==
  IF n = 0 THEN dst
  ELSE LET a == seglen(src, soff)
           cpylen == IF n > a THEN a ELSE n
       IN IF cpylen = 0 THEN [dst EXCEPT !.stuck = TRUE]
          ELSE copy_loop(src, soff + cpylen, memcpy(dst, doff, src, soff, cpylen),
                         doff + cpylen, n - cpylen)

(* The loop of _odp_packet_copy_to_packet: as far as both segments go.  At *)
(* the end of the data it makes no progress and does not end.              *)
copy_loop(src, soff, dst, doff, n) ==
  IF n = 0 THEN dst
  ELSE LET a == seglen(src, soff)
           b == seglen(dst, doff)
           minseg == IF b > a THEN a ELSE b
           cpylen == IF n > minseg THEN minseg ELSE n
       IN IF cpylen = 0 THEN [dst EXCEPT !.stuck = TRUE]
          ELSE copy_loop(src, soff + cpylen, memcpy(dst, doff, src, soff, cpylen),
                         doff + cpylen, n - cpylen)

(* The guard of the copying calls, in the arithmetic of uint32_t.          *)
Fits(p, offset, n) == Add(offset, n) <= p.len

Packet(s, m, h, l) == [seg |-> s, mem |-> m, head |-> h, len |-> l, stuck |-> FALSE]
This == Packet(seg, mem, head, len)

-----------------------------------------------------------------------------
(* buffer_alloc: enough segments.  The old bytes of a buffer are unknown,  *)
(* here one value throughout.                                              *)
Blocks(s, n) == {k \in 1 .. MaxBuf \div s : s * k >= Headroom + n + Tailroom}
Unknown(s, k) == {[i \in 0 .. s * k - 1 |-> b] : b \in Bytes}

(* odp_packet_alloc and packet_init; a packet without data gets the        *)
(* segments of one of the pool's length, pulled in by pull_tail.           *)
AllocLen(n) == IF n = 0 THEN PoolLen ELSE n
Fresh(s, n) ==
  UNION {{Packet(s, m, Headroom, n) : m \in Unknown(s, k)} : k \in Blocks(s, AllocLen(n))}

Room(p) == Cardinality(DOMAIN p.mem)
Becomes(p, t) ==
  /\ seg' = p.seg /\ segs' = Room(p) \div p.seg /\ mem' = p.mem
  /\ head' = p.head /\ len' = p.len /\ tail' = t
  /\ slack' = Room(p) - (p.head + p.len + t)

Init ==
  \E s \in SegSizes : \E p \in Fresh(s, 0) :
    /\ seg = s /\ segs = Room(p) \div s /\ mem = p.mem
    /\ head = Headroom /\ len = 0 /\ tail = Room(p) - Headroom /\ slack = 0
    /\ call = [kind |-> "keep", at |-> 0, n |-> 0, byte |-> AnyByte]

(* odp_packet_free of the packet there is, and odp_packet_alloc.           *)
Alloc(s, n) ==
  /\ \E p \in Fresh(s, n) : Becomes(p, Room(p) - (Headroom + n))
  /\ Does("renew", 0, n)

odp_packet_reset(n) ==
  IF Add(Headroom + Tailroom, n) > seg * segs
  THEN Refuse
  ELSE /\ head' = Headroom /\ len' = n /\ tail' = Sub(seg * segs, Headroom + n)
       /\ slack' = 0 /\ Does("renew", 0, n) /\ UNCHANGED buffer

odp_packet_push_head(n) ==
  IF n > head
  THEN Refuse
  ELSE /\ head' = head - n /\ len' = len + n
       /\ Does("grow", 0, n) /\ UNCHANGED <<buffer, tail, slack>>

odp_packet_pull_head(n) ==
  IF n > len
  THEN Refuse
  ELSE /\ head' = head + n /\ len' = len - n
       /\ Does("shrink", 0, n) /\ UNCHANGED <<buffer, tail, slack>>

odp_packet_push_tail(n) ==
  IF n > tail
  THEN Refuse
  ELSE /\ tail' = tail - n /\ len' = len + n
       /\ Does("grow", len, n) /\ UNCHANGED <<buffer, head, slack>>

PullTailMutant(n) ==
  IF n > len
  THEN Refuse
  ELSE /\ len' = len - n
       /\ Does("shrink", len - n, n) /\ UNCHANGED <<buffer, head, tail, slack>>

odp_packet_pull_tail(n) ==
  IF n > len
  THEN Refuse
  ELSE /\ tail' = tail + n /\ len' = len - n
       /\ Does("shrink", len - n, n) /\ UNCHANGED <<buffer, head, slack>>

(* odp_packet_copydata_in of n bytes b, contiguous in the caller's memory. *)
odp_packet_copydata_in(at, n, b) ==
  IF ~Fits(This, at, n)
  THEN Refuse
  ELSE LET src == Packet(n + 1, [i \in 0 .. n - 1 |-> b], 0, n)
           dst == copy_loop(src, 0, This, at, n) IN
       /\ mem' = dst.mem
       /\ call' = [kind |-> IF dst.stuck THEN "stuck" ELSE "write", at |-> at, n |-> n, byte |-> b]
       /\ UNCHANGED <<seg, segs, rooms, slack>>

(* odp_packet_add_data and odp_packet_rem_data: a new packet of the same   *)
(* pool with the first "at" bytes of this one, and m bytes from "from"     *)
(* moved to "to"; this one is freed.  Or the pool has none, and nothing    *)
(* changes.                                                                *)
Rebuild(kind, at, n, newlen, from, to, m) ==
  \/ Refuse
  \/ \E new \in Fresh(seg, newlen) :
       LET all == copy_loop(This, from, copy_loop(This, 0, new, 0, at), to, m) IN
       /\ Fits(This, 0, at) /\ Fits(new, 0, at) /\ Fits(This, from, m) /\ Fits(new, to, m)
       /\ Becomes(all, Room(new) - (Headroom + newlen))
       /\ Does(IF all.stuck THEN "stuck" ELSE kind, at, n)

odp_packet_add_data(at, n) ==
  IF at > len
  THEN Refuse
  ELSE Rebuild("grow", at, n, Add(len, n), at, Add(at, n), len - at)

odp_packet_rem_data(at, n) ==
  IF at > len \/ Add(at, n) > len
  THEN Refuse
  ELSE Rebuild("shrink", at, n, Sub(len, n), Add(at, n), at, Sub(len - at, n))

(* odp_packet_copy: the header behind buf_hdr is copied, headroom and      *)
(* tailroom with it, and then the data; the application goes on with the   *)
(* copy.  A larger buffer than the source's has bytes the rooms leave out; *)
(* in a smaller one they reach over its end, and what is done with such a  *)
(* packet is not followed.                                                 *)
Overrun == -1
odp_packet_copy(s) ==
  /\ \E new \in Fresh(s, len) :
       IF head + len + tail <= Room(new)
       THEN Becomes(copy_loop(This, 0, [new EXCEPT !.head = head], 0, len), tail)
       ELSE slack' = Overrun /\ UNCHANGED <<buffer, rooms>>
  /\ Does("keep", 0, 0)

(* A call that does not return is the last, and a copy that reaches over   *)
(* its buffer is only freed.                                               *)
Next ==
  /\ call.kind # "stuck"
  /\ \/ \E n \in Args, s \in SegSizes : Alloc(s, n)
     \/ /\ slack # Overrun
        /\ \/ \E n \in Args :
                \/ odp_packet_reset(n)
                \/ odp_packet_push_head(n) \/ odp_packet_pull_head(n)
                \/ odp_packet_push_tail(n) \/ odp_packet_pull_tail(n)
           \/ \E at \in Offsets, n \in Args :
                \/ \E b \in Bytes : odp_packet_copydata_in(at, n, b)
                \/ odp_packet_add_data(at, n)
                \/ odp_packet_rem_data(at, n)
           \/ \E s \in SegSizes : odp_packet_copy(s)

Spec == Init /\ [][Next]_vars

-----------------------------------------------------------------------------
TypeOK ==
  /\ seg \in SegSizes /\ segs \in 1 .. MaxBuf \div seg
  /\ mem \in [0 .. seg * segs - 1 -> Bytes]
  /\ {head, len, tail} \subseteq 0 .. 2^Width - 1 /\ slack \in Overrun .. MaxBuf

(* Headroom, data and tailroom fill the buffer, whatever calls came before *)
(* (packet_init, push_head, pull_head, push_tail, pull_tail, the new       *)
(* packets of odp_packet_add_data and odp_packet_rem_data), but for what a *)
(* copy's larger buffer has in addition, which stays unused until          *)
(* odp_packet_reset: no push reaches over either end of the buffer, as     *)
(* long as odp_packet_copy finds one that the rooms of the source fit.  So *)
(* every call returns: the loops of odp_packet_copydata_in and             *)
(* _odp_packet_copy_to_packet, which end when the last byte is copied,     *)
(* never meet a segment without data.                                      *)
RoomsFit ==
  /\ TypeOK /\ call.kind # "stuck"
  /\ slack # Overrun => slack >= 0 /\ head + len + tail + slack = seg * segs

Data == [i \in 1 .. len |-> mem[head + i - 1]]
Abstract ==
  INSTANCE ByteString WITH data <- Data, MaxLen <- MaxBuf

(* The data is the sequence of bytes the calls describe: each adds,        *)
(* removes or writes bytes where it says, moves no others, and changes     *)
(* nothing when it refuses (the copying loops over segments of two         *)
(* packets against headrooms and segment ends anywhere).                   *)
DataKept == Abstract!Spec
=============================================================================
