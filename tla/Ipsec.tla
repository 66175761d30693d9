-------------------------------- MODULE Ipsec -------------------------------
(***************************************************************************)
(* The IPsec example, example/ipsec: options fill the databases of routes, *)
(* policies, associations, tunnels and streams; the policies become cache  *)
(* entries with crypto sessions; the streams' packets are put into the     *)
(* input queues of loop interfaces; worker threads take events from the    *)
(* input queues, the sequence number queue and the completion queue and    *)
(* drive each packet through the states of its context; the main thread    *)
(* collects and verifies what arrives at the output queues.                *)
(*                                                                         *)
(* Addresses are model values, a subnet is a set of them.  A queue of the  *)
(* ATOMIC kind is with one worker at a time, from the event it gets until  *)
(* it calls schedule() again (module Scheduler); polled queues             *)
(* (ODP_IPSEC_USE_POLL_QUEUES) are not.  Printing and the tunnel header's  *)
(* identification field are left out.                                      *)
(*                                                                         *)
(* Named assumptions.  OneStreamPerLoop: no two streams share an output    *)
(* loop (verify_stream_db_outputs counts every packet of a loop for the    *)
(* first stream that has it).  NoEspTunnel: a tunnel has no ESP policy     *)
(* (do_ipsec_out_classify pads it by a length in network byte order).      *)
(* LongPackets: a stream through a tunnel has packets of at least 20 bytes *)
(* (the last 20 are not moved behind the new headers).  NoNesting: what    *)
(* comes in with IPsec headers of an unknown association meets no output   *)
(* policy.                                                                 *)
(***************************************************************************)
EXTENDS Crypto, Integers, FiniteSets, Sequences, SequencesExt

CONSTANTS
  Workers,    \* threads in pktio_thread
  Pkts,       \* packets of pkt_pool
  Outs,       \* packets of out_pool
  Ctxs,       \* buffers of ctx_pool
  Loops,      \* the loop interfaces
  MAX_DB,     \* room in each database
  Setups      \* [opts, api, polled, ctxs, big_endian, eth, frames, refuse]

VARIABLES
  setup,      \* the command line and the world around the example
  phase,      \* where main() is
  args,       \* the options parse_args has not seen yet
  fwd_db, sp_db, sa_db, tun_db, stream_db,   \* lists, newest entry first
  cache, in_list, out_list,                  \* ipsec_cache: array and lists of indices
  seq_no,     \* state.ah_seq and state.esp_seq of each cache entry
  frames,     \* frames the interfaces will still receive
  todo,       \* streams main has to create, or to verify in this round
  data,       \* content of each packet, kept when it is freed
  free,       \* free packets and contexts
  user_ptr,   \* the context a packet points to
  compl,      \* op_result of a packet that is a completion event, or None
  ctx,        \* per packet contexts
  queue,      \* input queues, "seqnum", "completion", output queues
  holder,     \* the worker whose atomic context a queue is, or None
  worker,     \* what each worker has in hand
  sent        \* what was put on each output queue so far

dbs == <<fwd_db, sp_db, sa_db, tun_db>>
caches == <<cache, in_list, out_list>>
vars == <<setup, phase, args, dbs, stream_db, caches, seq_no, frames, todo, data, free, user_ptr,
          compl, ctx, queue, holder, worker, sent>>

InQ(l) == <<"in", l>>
OutQ(l) == <<"out", l>>
SeqQ == <<"seqnum", None>>
ComplQ == <<"completion", None>>
WorkQ == {InQ(l) : l \in Loops} \cup {SeqQ, ComplQ}
Packets == Pkts \cup Outs

NoFrame == [src |-> None, dst |-> None, mut |-> 0, ah |-> None, esp |-> None, enc |-> None,
            inner |-> None, id |-> <<0, 0>>]
NoWork == [pc |-> "idle", pkt |-> None, ctx |-> None, ok |-> TRUE, iv |-> None, seq |-> None]

init_fwd_db == fwd_db = <<>>
init_sp_db == sp_db = <<>>
init_sa_db == sa_db = <<>>
init_tun_db == tun_db = <<>>
init_stream_db == stream_db = <<>>
init_ipsec_cache == cache = <<>> /\ in_list = <<>> /\ out_list = <<>> /\ seq_no = <<>>

Init ==
  /\ setup \in Setups
  /\ phase = "args" /\ args = setup.opts
  /\ init_fwd_db /\ init_sp_db /\ init_sa_db /\ init_tun_db /\ init_stream_db /\ init_ipsec_cache
  /\ todo = 0 /\ frames = setup.frames
  /\ data = [p \in Packets |-> NoFrame]
  /\ free = Packets \cup setup.ctxs
  /\ user_ptr = [p \in Packets |-> None]
  /\ compl = [p \in Packets |-> None]
  /\ ctx = [c \in Ctxs |-> None]
  /\ queue = [q \in WorkQ \cup {OutQ(l) : l \in Loops} |-> <<>>]
  /\ holder = [q \in WorkQ |-> None]
  /\ worker = [w \in Workers |-> NoWork]
  /\ sent = [l \in Loops |-> <<>>]

-----------------------------------------------------------------------------
(* The databases: an entry goes to the head of its list, when there is     *)
(* room and the option has as many fields as it should.                    *)
Added(db, entry) == IF entry.good /\ Len(db) < MAX_DB THEN <<entry>> \o db ELSE db
Refused(db, entry) == ~entry.good \/ Len(db) >= MAX_DB

create_fwd_db_entry(o) == o.opt = "r" /\ fwd_db' = Added(fwd_db, [o EXCEPT !.queue = None]) /\ UNCHANGED <<sp_db, sa_db, tun_db, stream_db>>
create_sp_db_entry(o) == o.opt = "p" /\ sp_db' = Added(sp_db, o) /\ UNCHANGED <<fwd_db, sa_db, tun_db, stream_db>>
create_sa_db_entry(o) == o.opt \in {"a", "e"} /\ sa_db' = Added(sa_db, o) /\ UNCHANGED <<fwd_db, sp_db, tun_db, stream_db>>
create_tun_db_entry(o) == o.opt = "t" /\ tun_db' = Added(tun_db, o) /\ UNCHANGED <<fwd_db, sp_db, sa_db, stream_db>>
create_stream_db_entry(o) == o.opt = "s" /\ stream_db' = Added(stream_db, o) /\ UNCHANGED dbs

DbOf(o) == CASE o.opt = "r" -> fwd_db [] o.opt = "p" -> sp_db [] o.opt = "t" -> tun_db
             [] o.opt = "s" -> stream_db [] OTHER -> sa_db

(* parse_args: one option; a refused one ends the program.                 *)
parse_args ==
  /\ phase = "args"
  /\ IF args = <<>>
     THEN phase' = "post" /\ todo' = 1 /\ UNCHANGED <<args, dbs, stream_db>>
     ELSE LET o == Head(args) IN
          /\ args' = Tail(args) /\ todo' = todo
          /\ phase' = IF Refused(DbOf(o), o) THEN "exit" ELSE phase
          /\ \/ create_fwd_db_entry(o)
             \/ create_sp_db_entry(o)
             \/ create_sa_db_entry(o)
             \/ create_tun_db_entry(o)
             \/ create_stream_db_entry(o)
  /\ UNCHANGED <<setup, caches, seq_no, frames, data, free, user_ptr, compl, ctx, queue, holder, worker, sent>>

(* The first entry of a list that satisfies a test, or None.               *)
First(list, Test(_)) ==
  LET hits == {i \in DOMAIN list : Test(list[i])}
  IN IF hits = {} THEN None ELSE list[CHOOSE i \in hits : \A j \in hits : i <= j]

match_ip_range(addr, range) == addr \in range

find_sa_db_entry(src, dst, cipher) ==
  First(sa_db, LAMBDA e : /\ (e.opt = "e") = cipher
                          /\ match_ip_range(e.src, src) /\ match_ip_range(e.dst, dst))
find_tun_db_entry(src, dst) == First(tun_db, LAMBDA e : e.src = src /\ e.dst = dst)
find_fwd_db_entry(dst) == First(fwd_db, LAMBDA e : match_ip_range(dst, e.net))

find_ipsec_cache_entry_in(src, dst, ah, esp) ==
  First(in_list, LAMBDA i : LET e == cache[i] IN
    /\ (e.src = src /\ e.dst = dst) \/ (e.tsrc = src /\ e.tdst = dst)
    /\ ah # None => e.ah # None /\ e.ah.spi = ah.spi
    /\ esp # None => e.esp # None /\ e.esp.spi = esp.spi)
find_ipsec_cache_entry_out(src, dst) ==
  First(out_list, LAMBDA i : cache[i].src = src /\ cache[i].dst = dst)

(* What a cache entry keeps of an association; the NULL algorithm is none. *)
Alg(sa) == IF sa = None THEN None ELSE IF ~sa.alg THEN None ELSE [spi |-> sa.spi, key |-> sa.key]
Key(alg) == IF alg = None THEN None ELSE alg.key

create_ipsec_cache_entry(cipher_sa, auth_sa, tun, in) ==
  LET any == IF auth_sa # None THEN auth_sa ELSE cipher_sa
      esp == Alg(cipher_sa)
      ah == Alg(auth_sa)
      session == odp_crypto_session_create(IF in THEN "decode" ELSE "encode", TRUE, Key(esp), Key(ah),
                   IF esp = None THEN None ELSE 0,
                   setup.api # "sync", setup.api # "sync")
  IN /\ cache' = Append(cache, [src |-> any.src, dst |-> any.dst, esp |-> esp, ah |-> ah,
                                tsrc |-> IF tun = None THEN None ELSE tun.tsrc,
                                tdst |-> IF tun = None THEN None ELSE tun.tdst,
                                tunnel |-> tun # None, session |-> session, in_place |-> setup.api # "new"])
     /\ seq_no' = Append(seq_no, [ah |-> 0, esp |-> 0])
     /\ IF in THEN in_list' = <<Len(cache) + 1>> \o in_list /\ UNCHANGED out_list
              ELSE out_list' = <<Len(cache) + 1>> \o out_list /\ UNCHANGED in_list

(* One policy of ipsec_init_post: its associations, the tunnel of the last *)
(* one found, and a cache entry.  (A policy without its association is a   *)
(* null pointer there, before the warning that tells of it.)               *)
ipsec_init_post ==
  /\ phase = "post"
  /\ IF todo > Len(sp_db)
     THEN phase' = "intf" /\ UNCHANGED <<caches, seq_no, todo>>
     ELSE LET sp == sp_db[todo]
              cipher_sa == IF sp.esp THEN find_sa_db_entry(sp.src, sp.dst, TRUE) ELSE None
              auth_sa == IF sp.ah THEN find_sa_db_entry(sp.src, sp.dst, FALSE) ELSE None
              last == IF auth_sa # None THEN auth_sa ELSE cipher_sa
              tun == find_tun_db_entry(last.src, last.dst)
          IN IF (sp.esp /\ cipher_sa = None) \/ (sp.ah /\ auth_sa = None)
             THEN phase' = "crash" /\ UNCHANGED <<caches, seq_no, todo>>
             ELSE IF Len(cache) >= MAX_DB
             THEN phase' = "exit" /\ UNCHANGED <<caches, seq_no, todo>>
             ELSE create_ipsec_cache_entry(cipher_sa, auth_sa, tun, sp.in) /\ todo' = todo + 1 /\ UNCHANGED phase
  /\ UNCHANGED <<setup, args, dbs, stream_db, frames, data, free, user_ptr, compl, ctx, queue, holder, worker, sent>>

(* Each interface resolves the routes that go out through it.  Streams     *)
(* find the cache entries their packets will meet.                         *)
resolve_fwd_db == fwd_db' = [i \in DOMAIN fwd_db |-> [fwd_db[i] EXCEPT !.queue = OutQ(fwd_db[i].oif)]]
resolve_stream_db ==
  stream_db' = [i \in DOMAIN stream_db |->
    [stream_db[i] EXCEPT !.in = find_ipsec_cache_entry_in(stream_db[i].src, stream_db[i].dst, None, None),
                         !.out = find_ipsec_cache_entry_out(stream_db[i].src, stream_db[i].dst)]]
initialize_loop ==
  /\ phase = "intf" /\ phase' = "inputs" /\ todo' = 1
  /\ resolve_fwd_db /\ resolve_stream_db
  /\ UNCHANGED <<setup, args, sp_db, sa_db, tun_db, caches, seq_no, frames, data, free, user_ptr, compl, ctx, queue,
                 holder, worker, sent>>

-----------------------------------------------------------------------------
(* The streams' packets.  One on which the input policy will act has the   *)
(* headers of its entry, is enciphered and then hashed, with the mutable   *)
(* fields still 0; they are filled in last.                                *)
StreamHeaders(s, n, e) ==
  LET tunnel == e # None /\ e.tunnel
  IN [src |-> IF tunnel THEN e.tsrc ELSE s.src,
      dst |-> IF tunnel THEN e.tdst ELSE s.dst,
      mut |-> 0,
      ah |-> IF e = None \/ e.ah = None THEN None ELSE [spi |-> e.ah.spi, seq |-> n - 1, icv |-> None],
      esp |-> IF e = None \/ e.esp = None THEN None ELSE [spi |-> e.esp.spi, seq |-> n - 1, iv |-> 10 * s.id + n],
      enc |-> None,
      inner |-> IF tunnel THEN [src |-> s.src, dst |-> s.dst, mut |-> 64] ELSE None,
      id |-> <<s.id, n>>]
create_ipv4_packet(s, n) ==
  LET e == IF s.in = None THEN None ELSE cache[s.in]
      clear == StreamHeaders(s, n, e)
      closed == IF clear.esp = None THEN clear ELSE [clear EXCEPT !.enc = <<e.esp.key, clear.esp.iv>>]
      hashed == IF closed.ah = None THEN closed ELSE [closed EXCEPT !.ah.icv = Hmac(e.ah.key, closed)]
  IN [hashed EXCEPT !.mut = 64]

(* One packet of create_stream_db_inputs; a stream ends early when the     *)
(* pool is empty.  Then the workers are created.                           *)
create_stream_db_inputs ==
  /\ phase = "inputs"
  /\ IF todo > Len(stream_db)
     THEN phase' = "run" /\ todo' = 1 /\ UNCHANGED <<stream_db, data, free, queue>>
     ELSE LET s == stream_db[todo] IN
          IF s.created = s.count \/ free \cap Pkts = {}
          THEN todo' = todo + 1 /\ UNCHANGED <<phase, stream_db, data, free, queue>>
          ELSE LET p == CHOOSE q \in free \cap Pkts : TRUE IN
               /\ data' = [data EXCEPT ![p] = create_ipv4_packet(s, s.created + 1)]
               /\ free' = free \ {p}
               /\ queue' = [queue EXCEPT ![InQ(s.inl)] = Append(@, p)]
               /\ stream_db' = [stream_db EXCEPT ![todo].created = @ + 1]
               /\ UNCHANGED <<phase, todo>>
  /\ UNCHANGED <<setup, args, dbs, caches, seq_no, frames, user_ptr, compl, ctx, holder, worker, sent>>

(* A frame from a network interface, when pkt_pool has a packet for it:    *)
(* the scheduler polls the interface into its input queue (pktin_poll).    *)
Receive ==
  /\ phase = "run" /\ frames # <<>>
  /\ \E p \in free \cap Pkts :
       /\ p = CHOOSE q \in free \cap Pkts : TRUE
       /\ free' = free \ {p} /\ data' = [data EXCEPT ![p] = Head(frames).frame]
       /\ queue' = [queue EXCEPT ![InQ(Head(frames).loop)] = Append(@, p)]
  /\ frames' = Tail(frames)
  /\ UNCHANGED <<setup, phase, args, dbs, stream_db, caches, seq_no, todo, user_ptr, compl, ctx, holder, worker, sent>>

-----------------------------------------------------------------------------
(* pktio_thread.  Every step of a worker leaves these alone.               *)
Apart == <<setup, args, dbs, stream_db, caches, frames, todo>>

Has(w, pc) == phase = "run" /\ worker[w].pc = pc
Now(w, r) == worker' = [worker EXCEPT ![w] = r]
Stays(w, pc) == Now(w, [worker[w] EXCEPT !.pc = pc])

(* schedule(): the atomic context of the last event is given up.           *)
Release(w) ==
  /\ Has(w, "sched") /\ Now(w, NoWork)
  /\ holder' = [q \in WorkQ |-> IF holder[q] = w THEN None ELSE holder[q]]
  /\ UNCHANGED <<Apart, phase, seq_no, data, free, user_ptr, compl, ctx, queue, sent>>

(* schedule(): an event of a queue nobody is working on, any queue's when  *)
(* they are polled.                                                        *)
ScheduleMutant(w, q) ==
  /\ Has(w, "idle") /\ queue[q] # <<>>
  /\ queue' = [queue EXCEPT ![q] = Tail(@)]
  /\ holder' = holder
Schedule(w, q) ==
  /\ Has(w, "idle") /\ queue[q] # <<>>
  /\ setup.polled \/ holder[q] = None
  /\ queue' = [queue EXCEPT ![q] = Tail(@)]
  /\ holder' = IF setup.polled THEN holder ELSE [holder EXCEPT ![q] = w]

(* A completion: its result has the packet and the context, and the packet *)
(* is a packet again (odp_crypto_compl_free).                              *)
TakeCompletion(w, q) ==
  LET p == Head(queue[q]) IN
  /\ Schedule(w, q) /\ compl[p] # None
  /\ Now(w, [NoWork EXCEPT !.pc = "run", !.pkt = p, !.ctx = compl[p].ctx, !.ok = compl[p].ok])
  /\ compl' = [compl EXCEPT ![p] = None]
  /\ UNCHANGED <<Apart, phase, seq_no, data, free, user_ptr, ctx, sent>>

TakeSeqnum(w, q) ==
  LET p == Head(queue[q]) IN
  /\ Schedule(w, q) /\ compl[p] = None /\ q = SeqQ
  /\ Now(w, [NoWork EXCEPT !.pc = "run", !.pkt = p, !.ctx = user_ptr[p]])
  /\ UNCHANGED <<Apart, phase, seq_no, data, free, user_ptr, compl, ctx, sent>>

(* New work gets a context; without one the packet is dropped.             *)
NewCtx == [state |-> "INPUT_VERIFY", mut |-> 0, ah |-> FALSE, esp |-> FALSE, src |-> None, dst |-> None,
           entry |-> 0, out |-> None]
alloc_pkt_ctx(w, q) ==
  LET p == Head(queue[q]) IN
  /\ Schedule(w, q) /\ compl[p] = None /\ q # SeqQ
  /\ IF free \cap Ctxs = {}
     THEN free' = free \cup {p} /\ Stays(w, "sched") /\ UNCHANGED <<user_ptr, ctx>>
     ELSE LET c == CHOOSE d \in free \cap Ctxs : TRUE IN
          /\ free' = free \ {c}
          /\ user_ptr' = [user_ptr EXCEPT ![p] = c]
          /\ ctx' = [ctx EXCEPT ![c] = NewCtx]
          /\ Now(w, [NoWork EXCEPT !.pc = "run", !.pkt = p, !.ctx = c])
  /\ UNCHANGED <<Apart, phase, seq_no, data, compl, sent>>

-----------------------------------------------------------------------------
(* The steps of a packet.                                                  *)
At(w, state) == Has(w, "run") /\ ctx[worker[w].ctx].state = state
Frame(w) == data[worker[w].pkt]
Ctx(w) == ctx[worker[w].ctx]
SetCtx(w, c) == ctx' = [ctx EXCEPT ![worker[w].ctx] = c]
SetData(w, f) == data' = [data EXCEPT ![worker[w].pkt] = f]

DropMutant(w) ==
  /\ free' = free \cup {worker[w].pkt}
  /\ Stays(w, "sched")
  /\ UNCHANGED ctx
Drop(w) ==
  /\ free' = free \cup {worker[w].ctx, worker[w].pkt}
  /\ ctx' = [ctx EXCEPT ![worker[w].ctx] = None]
  /\ Stays(w, "sched")

do_input_verify(w) ==
  /\ At(w, "INPUT_VERIFY")
  /\ IF Frame(w).id = <<0, 0>>
     THEN Drop(w)
     ELSE SetCtx(w, [Ctx(w) EXCEPT !.state = "IPSEC_IN_CLASSIFY"]) /\ UNCHANGED <<free, worker>>
  /\ UNCHANGED <<Apart, phase, seq_no, data, user_ptr, compl, queue, holder, sent>>

(* A packet with IPsec headers and an entry for them: the mutable fields   *)
(* are saved and cleared, and the crypto operation is next.                *)
InState(hit) == IF hit THEN "IPSEC_IN_FINISH" ELSE "ROUTE_LOOKUP"
do_ipsec_in_classify(w) ==
  LET f == Frame(w)
      e == IF f.ah = None /\ f.esp = None THEN None ELSE find_ipsec_cache_entry_in(f.src, f.dst, f.ah, f.esp)
      hit == e # None
  IN /\ At(w, "IPSEC_IN_CLASSIFY")
     /\ IF ~hit
        THEN SetCtx(w, [Ctx(w) EXCEPT !.state = InState(hit)]) /\ UNCHANGED <<data, worker>>
        ELSE /\ SetCtx(w, [Ctx(w) EXCEPT !.state = InState(hit), !.mut = f.mut, !.ah = f.ah # None,
                             !.esp = f.esp # None, !.src = cache[e].src, !.dst = cache[e].dst, !.entry = e])
             /\ SetData(w, IF f.ah = None THEN f ELSE [f EXCEPT !.mut = 0])
             /\ Now(w, [worker[w] EXCEPT !.pc = "crypto", !.iv = IF f.esp = None THEN None ELSE worker[w].pkt])
     /\ UNCHANGED <<Apart, phase, seq_no, free, user_ptr, compl, queue, holder, sent>>

(* Deciphered and authenticated: a tunnelled packet sheds its outer header *)
(* and must be the policy's (the addresses are compared in different byte  *)
(* orders), another its IPsec headers.                                     *)
do_ipsec_in_finish(w) ==
  LET f == Frame(w)
      inner == [f EXCEPT !.src = f.inner.src, !.dst = f.inner.dst, !.mut = f.inner.mut, !.inner = None,
                  !.ah = None, !.esp = None]
      outer == [f EXCEPT !.mut = Ctx(w).mut, !.ah = None, !.esp = None]
  IN /\ At(w, "IPSEC_IN_FINISH")
     /\ IF ~worker[w].ok
        THEN Drop(w) /\ UNCHANGED data
        ELSE IF f.inner # None
        THEN /\ SetData(w, inner)
             /\ IF setup.big_endian /\ inner.src = Ctx(w).src /\ inner.dst = Ctx(w).dst
                THEN SetCtx(w, [Ctx(w) EXCEPT !.state = "ROUTE_LOOKUP"]) /\ UNCHANGED <<free, worker>>
                ELSE Drop(w)
        ELSE SetData(w, outer) /\ SetCtx(w, [Ctx(w) EXCEPT !.state = "ROUTE_LOOKUP"]) /\ UNCHANGED <<free, worker>>
     /\ UNCHANGED <<Apart, phase, seq_no, user_ptr, compl, queue, holder, sent>>

do_route_fwd_db(w) ==
  LET route == find_fwd_db_entry(Frame(w).dst) IN
  /\ At(w, "ROUTE_LOOKUP")
  /\ IF route = None
     THEN Drop(w)
     ELSE SetCtx(w, [Ctx(w) EXCEPT !.state = "IPSEC_OUT_CLASSIFY", !.out = route.queue]) /\ UNCHANGED <<free, worker>>
  /\ UNCHANGED <<Apart, phase, seq_no, data, user_ptr, compl, queue, holder, sent>>

(* The packet of an entry gets the headers, still without numbers, and     *)
(* goes to the sequence number queue; in a tunnel its own header moves     *)
(* behind them.                                                            *)
Headers(f, e) ==
  [f EXCEPT
    !.ah = IF e.ah = None THEN None ELSE [spi |-> e.ah.spi, seq |-> 0, icv |-> None],
    !.esp = IF e.esp = None THEN None ELSE [spi |-> e.esp.spi, seq |-> 0, iv |-> 0],
    !.mut = IF e.ah = None THEN @ ELSE 0,
    !.src = IF e.tunnel THEN e.tsrc ELSE @,
    !.dst = IF e.tunnel THEN e.tdst ELSE @,
    !.inner = IF e.tunnel THEN [src |-> f.src, dst |-> f.dst, mut |-> f.mut] ELSE None]
do_ipsec_out_classify(w) ==
  LET f == Frame(w)
      e == find_ipsec_cache_entry_out(f.src, f.dst)
  IN /\ At(w, "IPSEC_OUT_CLASSIFY")
     /\ IF e = None
        THEN SetCtx(w, [Ctx(w) EXCEPT !.state = "TRANSMIT"]) /\ UNCHANGED <<data, queue, worker>>
        ELSE /\ SetCtx(w, [Ctx(w) EXCEPT !.state = "IPSEC_OUT_SEQ", !.mut = f.mut, !.entry = e,
                             !.ah = cache[e].ah # None, !.esp = cache[e].esp # None])
             /\ SetData(w, Headers(f, cache[e]))
             /\ queue' = [queue EXCEPT ![SeqQ] = Append(@, worker[w].pkt)]
             /\ Stays(w, "sched")
     /\ UNCHANGED <<Apart, phase, seq_no, free, user_ptr, compl, holder, sent>>

(* The numbers: read from the entry into the headers, and stored one       *)
(* higher.                                                                 *)
do_ipsec_out_seq(w) ==
  LET f == Frame(w)
      n == seq_no[Ctx(w).entry]
  IN /\ At(w, "IPSEC_OUT_SEQ")
     /\ SetCtx(w, [Ctx(w) EXCEPT !.state = "IPSEC_OUT_FINISH"])
     /\ data' = [data EXCEPT ![worker[w].pkt].ah = IF f.ah = None THEN @ ELSE [@ EXCEPT !.seq = n.ah],
                             ![worker[w].pkt].esp = IF f.esp = None THEN @ ELSE [@ EXCEPT !.seq = n.esp]]
     /\ Now(w, [worker[w] EXCEPT !.pc = "store", !.seq = n])
     /\ UNCHANGED <<Apart, phase, seq_no, free, user_ptr, compl, queue, holder, sent>>

StoreSeq(w) ==
  /\ Has(w, "store")
  /\ seq_no' = [seq_no EXCEPT ![Ctx(w).entry] =
       [ah |-> IF Ctx(w).ah THEN worker[w].seq.ah + 1 ELSE @.ah,
        esp |-> IF Ctx(w).esp THEN worker[w].seq.esp + 1 ELSE @.esp]]
  /\ Now(w, [worker[w] EXCEPT !.pc = "crypto", !.iv = None, !.seq = None])
  /\ UNCHANGED <<Apart, phase, data, free, user_ptr, compl, ctx, queue, holder, sent>>

do_ipsec_out_finish(w) ==
  /\ At(w, "IPSEC_OUT_FINISH")
  /\ IF ~worker[w].ok
     THEN Drop(w) /\ UNCHANGED data
     ELSE /\ SetData(w, [Frame(w) EXCEPT !.mut = Ctx(w).mut])
          /\ SetCtx(w, [Ctx(w) EXCEPT !.state = "TRANSMIT"])
          /\ UNCHANGED <<free, worker>>
  /\ UNCHANGED <<Apart, phase, seq_no, user_ptr, compl, queue, holder, sent>>

(* A loop keeps the packet, an interface sends it, or refuses it.  A       *)
(* refused packet is freed as an event and then again as a packet.       *)
Transmit(w) ==
  /\ At(w, "TRANSMIT")
  /\ \/ /\ IF Ctx(w).out[2] \in setup.eth
           THEN free' = free \cup {worker[w].ctx, worker[w].pkt} /\ UNCHANGED queue
           ELSE /\ free' = free \cup {worker[w].ctx}
                /\ queue' = [queue EXCEPT ![Ctx(w).out] = Append(@, worker[w].pkt)]
        /\ sent' = [sent EXCEPT ![Ctx(w).out[2]] = Append(@, [id |-> Frame(w).id, entry |-> Ctx(w).entry,
             seq |-> IF Frame(w).esp # None THEN Frame(w).esp.seq
                     ELSE IF Frame(w).ah # None THEN Frame(w).ah.seq ELSE -1])]
        /\ ctx' = [ctx EXCEPT ![worker[w].ctx] = None]
        /\ Stays(w, "sched") /\ UNCHANGED phase
     \/ setup.refuse /\ Ctx(w).out[2] \in setup.eth /\ phase' = "crash" /\ UNCHANGED <<queue, sent, free, ctx, worker>>
  /\ UNCHANGED <<Apart, seq_no, data, user_ptr, compl, holder>>

-----------------------------------------------------------------------------
(* odp_crypto_operation.  With a new buffer the packet is copied to one of *)
(* out_pool and freed before the functions run.                            *)
CryptoCopy(w) ==
  /\ Has(w, "crypto") /\ ~cache[Ctx(w).entry].in_place
  /\ IF free \cap Outs = {}
     THEN phase' = "crash" /\ UNCHANGED <<data, free, user_ptr, worker>>
     ELSE LET o == CHOOSE q \in free \cap Outs : TRUE
              p == worker[w].pkt
          IN /\ data' = [data EXCEPT ![o] = data[p]]
             /\ user_ptr' = [user_ptr EXCEPT ![o] = user_ptr[p]]
             /\ free' = (free \ {o}) \cup {p}
             /\ Now(w, [worker[w] EXCEPT !.pkt = o, !.pc = "cipher"])
             /\ UNCHANGED phase
  /\ UNCHANGED <<Apart, seq_no, compl, ctx, queue, holder, sent>>

(* The functions run on the output packet, with the IV where the caller's  *)
(* pointer says, and the result is returned or posted.                     *)
OverrideIv(w) ==
  IF worker[w].iv = None THEN None
  ELSE IF data[worker[w].iv].esp = None THEN -1 ELSE data[worker[w].iv].esp.iv
odp_crypto_operation(w) ==
  LET s == cache[Ctx(w).entry].session
      r == Operate(s, Frame(w), OverrideIv(w))
      p == worker[w].pkt
  IN /\ \/ Has(w, "crypto") /\ cache[Ctx(w).entry].in_place
        \/ Has(w, "cipher")
     /\ data' = [data EXCEPT ![p] = r.p]
     /\ IF s.compl_queue
        THEN /\ compl' = [compl EXCEPT ![p] = [ctx |-> worker[w].ctx, ok |-> r.ok]]
             /\ queue' = [queue EXCEPT ![ComplQ] = Append(@, p)]
             /\ Stays(w, "sched")
        ELSE Now(w, [worker[w] EXCEPT !.pc = "run", !.ok = r.ok]) /\ UNCHANGED <<compl, queue>>
     /\ UNCHANGED <<Apart, phase, seq_no, free, user_ptr, ctx, holder, sent>>

-----------------------------------------------------------------------------
(* verify_stream_db_outputs.                                               *)
StreamAddresses(s, f) ==
  \A i \in {s.in, s.out} \ {None} :
    /\ s.src = f.src \/ cache[i].tsrc = f.src
    /\ s.dst = f.dst \/ cache[i].tdst = f.dst
verify_ipv4_packet(s, f) ==
  LET e == IF s.in # None THEN cache[s.in] ELSE IF s.out # None THEN cache[s.out] ELSE None
      clear == f.ah = None /\ f.esp = None
  IN /\ StreamAddresses(s, f)
     /\ clear => f.enc = None /\ f.inner = None
     /\ ~clear =>
          /\ e # None
          /\ (f.ah # None) = (e.ah # None) /\ (f.esp # None) = (e.esp # None)
          /\ f.ah # None => f.ah.spi = e.ah.spi /\ f.ah.icv = Hmac(e.ah.key, [f EXCEPT !.mut = 0])
          /\ IF f.esp # None THEN f.esp.spi = e.esp.spi /\ f.enc = <<e.esp.key, f.esp.iv>> ELSE f.enc = None
          /\ e.tunnel = (f.inner # None)
     /\ f.id # <<0, 0>>

Streams == \E i \in DOMAIN stream_db : stream_db[i].created > 0

(* The queue of the stream whose turn it is gives a packet, or is empty;   *)
(* after the last stream main ends if all have what they sent.             *)
verify_stream_db_outputs ==
  /\ phase = "run" /\ Streams
  /\ LET s == stream_db[todo]
         q == OutQ(s.outl)
     IN IF queue[q] # <<>>
        THEN /\ queue' = [queue EXCEPT ![q] = Tail(@)]
             /\ free' = free \cup {Head(queue[q])}
             /\ stream_db' = [stream_db EXCEPT ![todo].verified =
                                @ + IF verify_ipv4_packet(s, data[Head(queue[q])]) THEN 1 ELSE 0]
             /\ UNCHANGED <<phase, todo>>
        ELSE /\ todo' = IF todo = Len(stream_db) THEN 1 ELSE todo + 1
             /\ phase' = IF todo = Len(stream_db) /\ \A i \in DOMAIN stream_db : stream_db[i].created = stream_db[i].verified
                         THEN "done" ELSE phase
             /\ UNCHANGED <<queue, free, stream_db>>
  /\ UNCHANGED <<setup, args, dbs, caches, seq_no, frames, data, user_ptr, compl, ctx, holder, worker, sent>>

(* main() has returned, or given up, or waits for its workers for ever.    *)
Ended == phase \in {"done", "exit", "crash"} \/ (phase = "run" /\ ~Streams)

MainStep ==
  parse_args \/ ipsec_init_post \/ initialize_loop \/ create_stream_db_inputs \/ verify_stream_db_outputs

WorkerStep(w) ==
  \/ Release(w)
  \/ \E q \in WorkQ : TakeCompletion(w, q) \/ TakeSeqnum(w, q) \/ alloc_pkt_ctx(w, q)
  \/ do_input_verify(w) \/ do_ipsec_in_classify(w) \/ do_ipsec_in_finish(w) \/ do_route_fwd_db(w)
  \/ do_ipsec_out_classify(w) \/ do_ipsec_out_seq(w) \/ StoreSeq(w) \/ do_ipsec_out_finish(w) \/ Transmit(w)
  \/ CryptoCopy(w) \/ odp_crypto_operation(w)

Next == MainStep \/ Receive \/ (\E w \in Workers : WorkerStep(w)) \/ (Ended /\ UNCHANGED vars)

Spec == Init /\ [][Next]_vars /\ WF_vars(MainStep) /\ \A w \in Workers : WF_vars(WorkerStep(w))

-----------------------------------------------------------------------------
Queued(p) == {q \in DOMAIN queue : \E i \in DOMAIN queue[q] : queue[q][i] = p}
With(p) == {w \in Workers : worker[w].pkt = p /\ worker[w].pc \notin {"idle", "sched"}}
CtxOf(p) == IF compl[p] # None THEN compl[p].ctx ELSE user_ptr[p]
Waiting == {p \in Packets : Queued(p) \cap {SeqQ, ComplQ} # {}}

(* A packet is in one place (free, in one queue, with one worker), a       *)
(* context belongs to one packet, and what waits for a later step has a    *)
(* context in the state that step needs: pktio_thread sets it before it    *)
(* posts the packet, frees both on every way out, and never touches what   *)
(* it has posted.                                                          *)
Conserved ==
  phase = "run" =>
    /\ \A p \in Packets :
         (IF p \in free THEN 1 ELSE 0) + Cardinality(Queued(p)) + Cardinality(With(p)) = 1
    /\ \A q \in DOMAIN queue : IsInjective(queue[q])
    /\ \A p \in Waiting : ctx[CtxOf(p)].state \in
         IF SeqQ \in Queued(p) THEN {"IPSEC_OUT_SEQ"} ELSE {"IPSEC_IN_FINISH", "IPSEC_OUT_FINISH"}
    /\ LET used == {CtxOf(p) : p \in Waiting} \cup {worker[w].ctx : w \in {v \in Workers : worker[v].pc \notin {"idle", "sched"}}}
       IN /\ used \cap free = {}
          /\ used = setup.ctxs \ free
          /\ Cardinality(used) = Cardinality(Waiting) + Cardinality({w \in Workers : worker[w].pc \notin {"idle", "sched"}})

(* "Post the packet to ATOMIC queue so that sequence numbers can be        *)
(* applied in packet order": with scheduled queues the packets of a stream *)
(* leave in the order they came in, and those of an association with the   *)
(* numbers 0, 1, 2, ... in that order, whatever the workers and the crypto *)
(* mode.  (Polled queues promise neither.)                                 *)
InSequence ==
  ~setup.polled => \A l \in Loops : \A j \in DOMAIN sent[l] :
    /\ \A i \in 1 .. j - 1 : sent[l][i].id[1] = sent[l][j].id[1] => sent[l][i].id[2] < sent[l][j].id[2]
    /\ sent[l][j].seq # -1 =>
         sent[l][j].seq = Cardinality({i \in 1 .. j - 1 : sent[l][i].entry = sent[l][j].entry})

Sound ==
  /\ setup.ctxs = Ctxs /\ ~setup.refuse
  /\ setup.api = "new" => setup.frames = <<>>
  /\ \A i \in DOMAIN stream_db : LET s == stream_db[i] IN
       s.in # None => s.out = None /\ (cache[s.in].tunnel => setup.big_endian)

(* The streams are received whole: what the policies do to a packet on its *)
(* way, verify_ipv4_packet can undo, and no packet is left in a queue or   *)
(* with a worker.  Not when contexts run short, nor, in new buffer mode,   *)
(* when other traffic reuses the packets: their IVs are read after they    *)
(* were freed; nor for what comes in through a tunnel on a little endian   *)
(* machine.                                                                *)
AllReceived == (Sound /\ phase = "run" /\ Streams) ~> phase = "done"
=============================================================================
