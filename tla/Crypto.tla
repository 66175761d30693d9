------------------------------- MODULE Crypto -------------------------------
(***************************************************************************)
(* The sessions and operations of odp_crypto.c, as functions of a packet's *)
(* content.  A content is an IPv4 packet of the IPsec example:             *)
(*                                                                         *)
(*   src, dst  the addresses of the (outer) IPv4 header                    *)
(*   mut       its mutable fields (TTL, TOS, flags), or 0 while cleared    *)
(*   ah, esp   the IPsec headers, or None                                  *)
(*   enc       the key and IV its payload is enciphered with, None, or <<>>  *)
(*             when it was deciphered with others                          *)
(*   inner     the tunnelled IPv4 header, or None                          *)
(*   id        which packet it is; <<0, 0>> when it is no IPv4 packet       *)
(*                                                                         *)
(* Lengths, offsets and padding follow from which headers are there and    *)
(* are left out.  OpenSSL's ciphers and HMAC are perfect: only the same    *)
(* key and IV decipher, and a hash is what it was computed from.           *)
(***************************************************************************)
EXTENDS Naturals

CONSTANT None

Hmac(key, p) == <<key, [p EXCEPT !.ah.icv = None]>>

null_crypto_routine(p, key, iv) == [p |-> p, ok |-> TRUE]

(* The hash goes to its place in the AH header.                            *)
md5_gen(p, key, iv) == [p |-> [p EXCEPT !.ah.icv = Hmac(key, p)], ok |-> TRUE]

(* The received hash is taken out and cleared, and compared with the one   *)
(* computed.                                                               *)
md5_check(p, key, iv) == [p |-> [p EXCEPT !.ah.icv = None], ok |-> p.ah.icv = Hmac(key, p)]

(* A session without an IV, and no IV in the call: IV_INVALID.             *)
des_encrypt(p, key, iv) ==
  IF iv = None THEN [p |-> p, ok |-> FALSE] ELSE [p |-> [p EXCEPT !.enc = <<key, iv>>], ok |-> TRUE]

des_decrypt(p, key, iv) ==
  IF iv = None THEN [p |-> p, ok |-> FALSE]
  ELSE [p |-> [p EXCEPT !.enc = IF p.enc = <<key, iv>> THEN None ELSE <<>>], ok |-> TRUE]

(* The order in which a session works: authentication covers the cipher    *)
(* text when auth_cipher_text is set.                                      *)
do_cipher_firstMutant(op, auth_cipher_text) == auth_cipher_text
do_cipher_first(op, auth_cipher_text) ==
  IF op = "encode" THEN auth_cipher_text ELSE ~auth_cipher_text

(* odp_crypto_session_create for algorithms the library knows.             *)
odp_crypto_session_create(op, auth_cipher_text, cipher, auth, iv, async, pool) ==
  [op |-> op, first |-> do_cipher_first(op, auth_cipher_text), cipher |-> cipher, auth |-> auth,
   iv |-> iv, compl_queue |-> async, output_pool |-> pool]

CipherFunc(s, p, override_iv) ==
  LET iv == IF override_iv = None THEN s.iv ELSE override_iv
  IN IF s.cipher = None THEN null_crypto_routine(p, s.cipher, iv)
     ELSE IF s.op = "encode" THEN des_encrypt(p, s.cipher, iv) ELSE des_decrypt(p, s.cipher, iv)

AuthFunc(s, p) ==
  IF s.auth = None THEN null_crypto_routine(p, s.auth, None)
  ELSE IF s.op = "encode" THEN md5_gen(p, s.auth, None) ELSE md5_check(p, s.auth, None)

(* The work of odp_crypto_operation on the output packet: both functions   *)
(* run, also when the first one failed, and the result is their            *)
(* conjunction.                                                            *)
Operate(s, p, override_iv) ==
  LET one == IF s.first THEN CipherFunc(s, p, override_iv) ELSE AuthFunc(s, p)
      two == IF s.first THEN AuthFunc(s, one.p) ELSE CipherFunc(s, one.p, override_iv)
  IN [p |-> two.p, ok |-> one.ok /\ two.ok]
=============================================================================
