---------------------------- MODULE CryptoStream ----------------------------
(***************************************************************************)
(* The streaming crypter of the store (crypto.aesCrypter): encryptReader   *)
(* and decryptReader, one Read call at a time, over byte counts.           *)
(*                                                                         *)
(* The bytes themselves are abstracted: both readers are FIFO buffers, so  *)
(* what can go wrong is in the counts (the block rounding, the padding,    *)
(* the HMAC look-ahead, the CopyN results) and in the errors and panics    *)
(* a count can lead to.  AES-CBC and HMAC-SHA1 are assumed sound: the      *)
(* HMAC of a stream verifies exactly when the stream is the envelope the   *)
(* keys made, whole; the last plaintext byte of such an envelope is the    *)
(* pad length padBuffer wrote.                                             *)
(*                                                                         *)
(* A Read returns [st, n, err]: the reader's next state, the bytes given   *)
(* to the caller and the error: "nil", "EOF", "input" (the source failed), *)
(* "short", "blocks", "auth", "padding", or "panic" when the Go code       *)
(* panics (a CryptBlocks of a partial block, a failed sanity check, an     *)
(* index out of range).                                                    *)
(***************************************************************************)
EXTENDS Integers, FiniteSetsExt

\* aes.BlockSize and c_HMAC_SIZE (sha1.Size).
BlockSize == 16
HmacSize == 20

\* Go's % truncates towards zero: -16 % 16 = 0 but -4 % 16 = -4.
GoRem(a, b) == IF a >= 0 THEN a % b ELSE -((-a) % b)

Smaller(a, b) == Min({a, b})

\* padBuffer: the PKCS#7 pad appended to a buffer of len bytes.
PadLen(len) == BlockSize - (len % BlockSize)

\* The envelope EncryptReader produces for plen bytes: IV, ciphertext, HMAC.
EnvLen(plen) == BlockSize + plen + PadLen(plen) + HmacSize

\* io.CopyN(dst, src, n) from a source with avail bytes: the count copied.
CopyN(n, avail) == IF n <= 0 THEN 0 ELSE Smaller(n, avail)

-----------------------------------------------------------------------------
(***************************************************************************)
(* EncryptReader: the IV is the first BlockSize bytes of the buffer.  The  *)
(* state is [text, tail, buf, fin]: the plaintext bytes the source still   *)
(* has, how it ends ("EOF" or "input" for an error), the bytes in e.buf    *)
(* and e.fin.                                                              *)
(***************************************************************************)
EncryptReader(plen, tail) == [text |-> plen, tail |-> tail, buf |-> BlockSize, fin |-> FALSE]

\* Mutant: the read target is not rounded up past a partial block.
EncReadNoRoundUp(e, k) ==
    LET n == Smaller(e.buf, k)
        rest == e.buf - n
    IN IF n = k \/ e.fin
       THEN [st |-> [e EXCEPT !.buf = rest], n |-> n,
             err |-> IF n = 0 THEN "EOF" ELSE "nil"]
       ELSE LET target == ((k - n) \div BlockSize) * BlockSize
                got    == CopyN(target, e.text)
                ended  == got < target
                fin    == ended /\ e.tail = "EOF"
                body   == rest + got
                padded == IF fin THEN body + PadLen(body) ELSE body
                out    == IF fin THEN padded + HmacSize ELSE padded
                m      == Smaller(out, k - n)
            IN CASE ended /\ e.tail = "input" ->
                      [st |-> [e EXCEPT !.text = @ - got, !.buf = body], n |-> n, err |-> "input"]
                 [] padded % BlockSize # 0 -> [st |-> e, n |-> n, err |-> "panic"]
                 [] OTHER ->
                      [st |-> [text |-> e.text - got, tail |-> e.tail, buf |-> out - m, fin |-> fin],
                       n |-> n + m, err |-> IF out = 0 THEN "EOF" ELSE "nil"]

\* encryptReader.Read(b) with len(b) = k: drain the buffer; unless that
\* filled b or the input ended, read the rest rounded up to whole blocks,
\* pad and sign at the end of the input, encrypt, and read again.
EncRead(e, k) ==
    LET n == Smaller(e.buf, k)
        rest == e.buf - n
    IN IF n = k \/ e.fin
       THEN [st |-> [e EXCEPT !.buf = rest], n |-> n,
             err |-> IF n = 0 THEN "EOF" ELSE "nil"]
       ELSE LET target == ((k - n) \div BlockSize + 1) * BlockSize
                got    == CopyN(target, e.text)
                ended  == got < target
                fin    == ended /\ e.tail = "EOF"
                body   == rest + got
                padded == IF fin THEN body + PadLen(body) ELSE body
                out    == IF fin THEN padded + HmacSize ELSE padded
                m      == Smaller(out, k - n)
            IN CASE ended /\ e.tail = "input" ->
                      [st |-> [e EXCEPT !.text = @ - got, !.buf = body], n |-> n, err |-> "input"]
                 [] padded % BlockSize # 0 -> [st |-> e, n |-> n, err |-> "panic"]
                 [] OTHER ->
                      [st |-> [text |-> e.text - got, tail |-> e.tail, buf |-> out - m, fin |-> fin],
                       n |-> n + m, err |-> IF out = 0 THEN "EOF" ELSE "nil"]

-----------------------------------------------------------------------------
(***************************************************************************)
(* DecryptReader over a source of len bytes.  The state is [text, enc,     *)
(* buf, fin]: the source bytes not yet read, e.enc (read, not decrypted),  *)
(* e.buf (decrypted, not yet returned) and e.fin.  authentic is whether    *)
(* the source is the whole envelope of the reader's keys, padVal the last  *)
(* plaintext byte (the pad length) of that envelope.                      *)
(***************************************************************************)
\* The IV is read first: fewer than BlockSize bytes is "ciphertext too short".
DecryptOpens(len) == len >= BlockSize

DecryptReader(len) == [text |-> len - BlockSize, enc |-> 0, buf |-> 0, fin |-> FALSE]

\* unpadBuffer on a buffer of len bytes whose last byte is pad; the pad
\* bytes all equal pad when the envelope is authentic.
Unpad(len, pad) ==
    CASE len = 0                    -> "panic"
      [] pad > BlockSize \/ pad <= 0 -> "padding"
      [] pad > len                  -> "panic"
      [] OTHER                      -> "nil"

\* Mutant: the look-ahead keeps only HmacSize bytes, not HmacSize + 1.
DecReadLookaheadHmacOnly(d, k, authentic, padVal) ==
    LET n == Smaller(d.buf, k)
    IN IF n = k \/ d.fin
       THEN [st |-> [d EXCEPT !.buf = @ - n], n |-> n, err |-> IF n = 0 THEN "EOF" ELSE "nil"]
       ELSE LET target0 == ((k - n) \div BlockSize + 1) * BlockSize
                want    == target0 + HmacSize
                got     == CopyN(want, d.text)
                fin     == got < want
                enc1    == d.enc + got
                target  == IF fin THEN enc1 - HmacSize ELSE target0
                copied  == CopyN(target, enc1)
                buf1    == (d.buf - n) + copied
                pad     == IF fin /\ authentic THEN Unpad(buf1, padVal) ELSE "nil"
                buf2    == IF fin THEN buf1 - padVal ELSE buf1
                m       == Smaller(buf2, k - n)
                st1     == [text |-> d.text - got, enc |-> enc1, buf |-> 0, fin |-> fin]
            IN CASE fin /\ GoRem(target, BlockSize) # 0 -> [st |-> st1, n |-> n, err |-> "blocks"]
                 [] copied # target                     -> [st |-> st1, n |-> n, err |-> "panic"]
                 [] buf1 % BlockSize # 0                -> [st |-> st1, n |-> n, err |-> "panic"]
                 [] fin /\ ~authentic                   -> [st |-> st1, n |-> n, err |-> "auth"]
                 [] pad # "nil"                         -> [st |-> st1, n |-> n, err |-> pad]
                 [] OTHER ->
                      [st |-> [st1 EXCEPT !.enc = enc1 - copied, !.buf = buf2 - m],
                       n |-> n + m, err |-> IF buf2 = 0 THEN "EOF" ELSE "nil"]

\* Mutant: the HMAC of the stream is never compared.
DecReadNoAuth(d, k, authentic, padVal) ==
    LET n == Smaller(d.buf, k)
    IN IF n = k \/ d.fin
       THEN [st |-> [d EXCEPT !.buf = @ - n], n |-> n, err |-> IF n = 0 THEN "EOF" ELSE "nil"]
       ELSE LET target0 == ((k - n) \div BlockSize + 1) * BlockSize
                want    == target0 + HmacSize + 1
                got     == CopyN(want, d.text)
                fin     == got < want
                enc1    == d.enc + got
                target  == IF fin THEN enc1 - HmacSize ELSE target0
                copied  == CopyN(target, enc1)
                buf1    == (d.buf - n) + copied
                pad     == IF fin /\ authentic THEN Unpad(buf1, padVal) ELSE "nil"
                buf2    == IF fin THEN buf1 - padVal ELSE buf1
                m       == Smaller(buf2, k - n)
                st1     == [text |-> d.text - got, enc |-> enc1, buf |-> 0, fin |-> fin]
            IN CASE fin /\ GoRem(target, BlockSize) # 0 -> [st |-> st1, n |-> n, err |-> "blocks"]
                 [] copied # target                     -> [st |-> st1, n |-> n, err |-> "panic"]
                 [] buf1 % BlockSize # 0                -> [st |-> st1, n |-> n, err |-> "panic"]
                 [] pad # "nil"                         -> [st |-> st1, n |-> n, err |-> pad]
                 [] OTHER ->
                      [st |-> [st1 EXCEPT !.enc = enc1 - copied, !.buf = buf2 - m],
                       n |-> n + m, err |-> IF buf2 = 0 THEN "EOF" ELSE "nil"]

\* decryptReader.Read(b) with len(b) = k: drain the buffer; unless that
\* filled b or the input ended, read ahead the rest rounded up to whole
\* blocks plus HmacSize + 1 bytes.  At the end of the input all but the
\* last HmacSize bytes are decrypted, after a check that they are whole
\* blocks; otherwise target bytes are.  At the end the HMAC is checked and
\* the padding removed.
DecRead(d, k, authentic, padVal) ==
    LET n == Smaller(d.buf, k)
    IN IF n = k \/ d.fin
       THEN [st |-> [d EXCEPT !.buf = @ - n], n |-> n, err |-> IF n = 0 THEN "EOF" ELSE "nil"]
       ELSE LET target0 == ((k - n) \div BlockSize + 1) * BlockSize
                want    == target0 + HmacSize + 1
                got     == CopyN(want, d.text)
                fin     == got < want
                enc1    == d.enc + got
                target  == IF fin THEN enc1 - HmacSize ELSE target0
                copied  == CopyN(target, enc1)
                buf1    == (d.buf - n) + copied
                pad     == IF fin /\ authentic THEN Unpad(buf1, padVal) ELSE "nil"
                buf2    == IF fin THEN buf1 - padVal ELSE buf1
                m       == Smaller(buf2, k - n)
                st1     == [text |-> d.text - got, enc |-> enc1, buf |-> 0, fin |-> fin]
            IN CASE fin /\ GoRem(target, BlockSize) # 0 -> [st |-> st1, n |-> n, err |-> "blocks"]
                 [] copied # target                     -> [st |-> st1, n |-> n, err |-> "panic"]
                 [] buf1 % BlockSize # 0                -> [st |-> st1, n |-> n, err |-> "panic"]
                 [] fin /\ ~authentic                   -> [st |-> st1, n |-> n, err |-> "auth"]
                 [] pad # "nil"                         -> [st |-> st1, n |-> n, err |-> pad]
                 [] OTHER ->
                      [st |-> [st1 EXCEPT !.enc = enc1 - copied, !.buf = buf2 - m],
                       n |-> n + m, err |-> IF buf2 = 0 THEN "EOF" ELSE "nil"]

=============================================================================
