------------------------------- MODULE MCIpsec ------------------------------
(***************************************************************************)
(* Instances of module Ipsec: the command lines of the example's run_*     *)
(* scripts, shortened, in the crypto modes and queue modes, and some that  *)
(* the program refuses.                                                    *)
(***************************************************************************)
EXTENDS Ipsec

CONSTANTS na, nb, nc, nd, ta, tb, l1, l2, l3, c1, c2, c3

Route(net, oif) == [opt |-> "r", net |-> net, oif |-> oif, queue |-> None, good |-> TRUE]
Policy(in, esp, ah) == [opt |-> "p", src |-> {na}, dst |-> {nb}, in |-> in, esp |-> esp, ah |-> ah, good |-> TRUE]
Auth(alg) == [opt |-> "a", src |-> na, dst |-> nb, alg |-> alg, spi |-> 300, key |-> "ka", good |-> TRUE]
Cipher == [opt |-> "e", src |-> na, dst |-> nb, alg |-> TRUE, spi |-> 301, key |-> "kc", good |-> TRUE]
Tunnel == [opt |-> "t", src |-> na, dst |-> nb, tsrc |-> ta, tdst |-> tb, good |-> TRUE]
Stream(id, src, dst, inl, outl, count) ==
  [opt |-> "s", id |-> id, src |-> src, dst |-> dst, inl |-> inl, outl |-> outl, count |-> count,
   created |-> 0, verified |-> 0, in |-> None, out |-> None, good |-> TRUE]

Routes == <<Route({nb, tb}, l2), Route({nd}, l3)>>
Simple == <<Stream(1, na, nb, l1, l2, 2)>> \o Routes
Long(opts) == [i \in DOMAIN opts |-> IF opts[i].opt = "s" THEN [opts[i] EXCEPT !.count = 3] ELSE opts[i]]
Both(in) == <<Policy(in, TRUE, TRUE), Auth(TRUE), Cipher>> \o Simple
Ah(in) == <<Policy(in, FALSE, TRUE), Auth(TRUE), Tunnel>> \o Simple
Esp(in) == <<Policy(in, TRUE, FALSE), Cipher>> \o Simple
Null == <<Policy(FALSE, FALSE, TRUE), Auth(FALSE)>> \o Simple
Two == <<Policy(FALSE, TRUE, TRUE), Auth(TRUE), Cipher, Stream(1, na, nb, l1, l2, 2), Stream(2, nc, nd, l1, l3, 1)>> \o Routes
InOut == <<Policy(TRUE, FALSE, TRUE), Policy(FALSE, FALSE, TRUE), Auth(TRUE)>> \o Simple
Live == <<Policy(TRUE, FALSE, TRUE), Auth(TRUE)>> \o Routes

BadIcv == [NoFrame EXCEPT !.src = na, !.dst = nb, !.mut = 64, !.id = <<9, 1>>,
             !.ah = [spi |-> 300, seq |-> 0, icv |-> <<"other", NoFrame>>]]
Unknown == [BadIcv EXCEPT !.id = <<9, 2>>, !.ah.spi = 7, !.dst = nc]
Clear == [NoFrame EXCEPT !.src = nc, !.dst = nd, !.mut = 64, !.id = <<8, 1>>]
Frames(fs) == [i \in DOMAIN fs |-> [loop |-> l3, frame |-> fs[i]]]

Setup(opts, api, polled) ==
  [opts |-> opts, api |-> api, polled |-> polled, ctxs |-> Ctxs, big_endian |-> FALSE, eth |-> {l3},
   frames |-> <<>>, refuse |-> FALSE]

MCSetups ==
  {Setup(Simple, "sync", TRUE), Setup(Null, "sync", FALSE)}
  \cup {Setup(Long(Both(FALSE)), api, FALSE) : api \in {"sync", "async", "new"}}
  \cup {Setup(Both(TRUE), api, FALSE) : api \in {"sync", "async", "new"}}
  \cup {Setup(Both(FALSE), "async", TRUE), Setup(Esp(TRUE), "sync", TRUE), Setup(Esp(FALSE), "new", TRUE)}
  \cup {Setup(Ah(FALSE), "sync", FALSE), Setup(Ah(TRUE), "async", FALSE)}
  \cup {[Setup(Ah(TRUE), "sync", FALSE) EXCEPT !.big_endian = TRUE]}
  \cup {[Setup(Two, "async", FALSE) EXCEPT !.eth = {}], Setup(InOut, "sync", FALSE)}
  \cup {[Setup(Both(TRUE), "new", FALSE) EXCEPT !.frames = Frames(<<Clear>>)],
        [Setup(Both(FALSE), "async", FALSE) EXCEPT !.ctxs = {c1}],
        [Setup(Live, "async", FALSE) EXCEPT !.frames = Frames(<<Clear, BadIcv, Unknown, NoFrame>>), !.refuse = TRUE]}
  \cup {Setup(<<[Tunnel EXCEPT !.good = FALSE]>>, "sync", FALSE),
        Setup(<<Tunnel, Tunnel, Tunnel, Tunnel>>, "sync", FALSE),
        Setup(<<Policy(TRUE, TRUE, FALSE), Auth(TRUE)>> \o Simple, "sync", FALSE)}
=============================================================================
