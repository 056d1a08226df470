------------------------------ MODULE PBCrypto ------------------------------
(***************************************************************************)
(* evp_crypt of src/pbcrypto.c and the four cipher wrappers that call it,  *)
(* as an operator over the outcomes of the OpenSSL calls it makes.         *)
(*                                                                         *)
(* Only lengths are modelled: what a cipher computes does not decide how   *)
(* many bytes it writes.  OpenSSL's one-shot behaviour is the environment: *)
(* on a fresh context EVP_CipherUpdate writes the whole blocks of its      *)
(* input, except that decryption holds back the last block when the input *)
(* is a whole number of blocks; EVP_CipherFinal_ex then writes one padded  *)
(* block (encryption), or strips the padding of the held-back block       *)
(* (decryption, 0 to bs-1 bytes) and fails when no block was held back or  *)
(* the padding is wrong.  EVP_CIPHER_CTX_set_key_length fails for a        *)
(* fixed-length cipher given another length.                               *)
(*                                                                         *)
(* Update stores its count through out_len cast to int*: on a 64-bit     *)
(* little-endian build that sets the low 32 bits of the caller's size_t  *)
(* and leaves the high ones (hi) as the caller had them.                  *)
(***************************************************************************)
EXTENDS Integers

\* The ciphers the wrappers use: block size and the key lengths accepted.
Ciphers == [bf_cbc      |-> [bs |-> 8,  keyLens |-> 4..56],
            aes_256_cbc |-> [bs |-> 16, keyLens |-> {32}]]

Word == 2^32

\* OpenSSL: what EVP_CipherUpdate writes for d bytes on a fresh context,
\* and the counts EVP_CipherFinal_ex may write (-1: it fails).
UpdateLen(enc, bs, d) ==
    IF ~enc /\ d % bs = 0 /\ d > 0 THEN d - bs ELSE (d \div bs) * bs

FinalLens(enc, bs, d) ==
    CASE enc                        -> {bs}
      [] d % bs = 0 /\ d > 0        -> (0..(bs - 1)) \cup {-1}
      [] OTHER                      -> {-1}

\* Mutant: no padding block when the data is a whole number of blocks.
PaddingModulo(enc, bs, d) == IF enc THEN (bs - (d % bs)) % bs ELSE 0

\* The room evp_crypt allocates beyond the data.
Padding(enc, bs, d) == IF enc THEN bs - (d % bs) ELSE 0

(***************************************************************************)
(* evp_crypt(cipher, key, keyLen, data, d, out_len, enc), given whether    *)
(* EVP_CipherInit_ex, malloc and EVP_CipherUpdate succeed, what            *)
(* EVP_CipherFinal_ex writes (fl, -1 for failure) and the high half hi of  *)
(* the caller's *out_len.  The result records the bytes allocated, the    *)
(* bytes written into them, what is returned and *out_len.  Every break    *)
(* frees outbuf (free(NULL) before the malloc), and every path calls       *)
(* EVP_CIPHER_CTX_cleanup once; neither changes what is recorded.          *)
(***************************************************************************)
evp_crypt(c, keyLen, d, enc, initOK, mallocOK, updateOK, fl, hi) ==
    LET bs      == Ciphers[c].bs
        alloc   == d + Padding(enc, bs, d)
        upd     == UpdateLen(enc, bs, d)
        outLen  == IF hi = 0 THEN upd ELSE hi * Word + upd
        Fail(a, w) == [ret |-> "NULL", alloc |-> a, written |-> w,
                       outLen |-> outLen]
    IN  CASE ~initOK \/ keyLen \notin Ciphers[c].keyLens -> Fail(0, 0)
          [] ~mallocOK                                   -> Fail(0, 0)
          [] ~updateOK                                   -> Fail(alloc, 0)
          [] fl = -1                                     -> Fail(alloc, upd)
          [] OTHER ->
               \* Final writes at outbuf + *out_len.
               [ret |-> "buf", alloc |-> alloc, written |-> outLen + fl,
                outLen |-> outLen + fl]

\* blowfish_enc, blowfish_dec, aes_256_enc, aes_256_dec.
Wrappers == {[c |-> "bf_cbc", enc |-> TRUE], [c |-> "bf_cbc", enc |-> FALSE],
             [c |-> "aes_256_cbc", enc |-> TRUE],
             [c |-> "aes_256_cbc", enc |-> FALSE]}
=============================================================================
