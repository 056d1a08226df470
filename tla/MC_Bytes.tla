------------------------------ MODULE MC_Bytes ------------------------------
(***************************************************************************)
(* The byte-buffer facilities of the library together: sbuf buffers are    *)
(* built through the sbuf API, and the contents of every live sbuf are the *)
(* input of the pure codecs, in_cksum and Base64Encode/Base64Decode, which *)
(* are compared with their RFC reference definitions.                      *)
(*                                                                         *)
(* The bytes 0x00, 0x01 and 0xff make both carry folds of in_cksum happen  *)
(* (ff ff ff ff 01 sums to 0x1ffff), odd and even lengths occur, and the   *)
(* 32-byte block, appended twice, overfills the first 64-byte allocation  *)
(* and makes sbuf_extendby double it.  Strings holds a string with an      *)
(* embedded NUL, which appendstr cuts.                                     *)
(***************************************************************************)
EXTENDS InCksum, Base64, SBuf, PBCrypto

MCStrings == {<<255, 255>>, <<1, 0, 255>>, [i \in 1..32 |-> 1]}

MCFormats == {<<Conv>>, <<255, Conv>>}

\* A negative length, which sbuf_truncate ignores, and two valid ones.
MCTruncLens == {-1, 0, 1}

\* The contents of every live sbuf.
Tested == {Content(sb[b]) : b \in {x \in Bufs : sb[x].live}}

\* The non-empty ones: Base64Encode returns NULL for empty data.
NonEmpty == {buf \in Tested : Len(buf) > 0}

\* in_cksum, reading host-order (little-endian) words, returns exactly the
\* RFC 1071 checksum of the network-order buffer once its two bytes are
\* read back in network order: the carry folds and the odd-byte mop-up of
\* in_cksum lose nothing and put the odd byte in the right place.
CksumIsRfcChecksum == \A buf \in Tested : ByteSwap(in_cksum(buf)) = RfcChecksum(buf)

\* The receiver's check: a buffer whose 16-bit checksum field (at any even
\* offset, zero while the checksum was computed, as send_tcp.check is) has
\* been filled with in_cksum's result checksums to zero.
CksumSelfVerifies ==
    \A buf \in Tested :
    \A k \in {i \in 1..Len(buf) : i % 2 = 1 /\ i + 1 <= Len(buf)} :
        LET zeroed == [buf EXCEPT ![k] = 0, ![k + 1] = 0]
        IN  in_cksum(StoreHostWord(zeroed, k, in_cksum(zeroed))) = 0

\* Base64Encode's shift-and-carry loop emits the RFC 4648 base64 text of
\* the data (unpadded), and that text with its NUL fits in the buffer
\* B64_allocEncodedBuffer sized for it.
EncodeIsRfc4648 ==
    \A buf \in NonEmpty : \A text \in {Base64Encode(buf)} :
        text = RfcBase64(buf) /\ Len(text) + 1 <= AllocEncoded(Len(buf))

\* Base64Decode gives back the data from its encoding, within the buffers
\* it allocates, for every text of at least one full group of four
\* characters (data of three bytes or more).
DecodeInvertsEncode ==
    \A buf \in NonEmpty : \A text \in {Base64Encode(buf)} :
        LET d == Base64Decode(text)
        IN  Len(text) >= 4 =>
                ~d.overrun /\ d.out = buf /\ Len(d.out) <= AllocDecoded(Len(text))

\* The codec's contract (webcodec.c's comment: base64 "for safe entry in
\* web forms"): every non-empty data decodes back from its encoding.
Base64RoundTrip ==
    \A buf \in NonEmpty : \A text \in {Base64Encode(buf)} :
        LET d == Base64Decode(text)
        IN  ~d.overrun /\ d.out = buf
\* Every cipher wrapper of pbcrypto, on the contents of every live sbuf
\* (to decrypt: those and the ciphertext their encryption has), with every key
\* length tried (a Blowfish and an AES-256 one) and every outcome of the
\* OpenSSL calls: the bytes EVP_CipherUpdate and EVP_CipherFinal_ex write
\* fit in the buffer evp_crypt allocates (bs - data_len % bs of padding to
\* encrypt, none to decrypt, which the comments at pbcrypto.c:57 and 60
\* doubt); a returned buffer comes with *out_len equal to the bytes
\* written, so the caller reads no byte the cipher did not write.  The
\* caller's *out_len is taken as zeroed (hi = 0).
EvpOutputFits ==
    \A w \in Wrappers, buf \in Tested, k \in {8, 32} :
    \A d \in IF w.enc THEN {Len(buf)}
             ELSE {Len(buf), (Len(buf) \div Ciphers[w.c].bs + 1) * Ciphers[w.c].bs} :
    \A initOK, mallocOK, updateOK \in BOOLEAN :
    \A fl \in FinalLens(w.enc, Ciphers[w.c].bs, d) :
        LET r == evp_crypt(w.c, k, d, w.enc, initOK, mallocOK, updateOK, fl, 0)
        IN  /\ r.written <= r.alloc
            /\ r.ret = "buf" => r.outLen = r.written

=============================================================================
