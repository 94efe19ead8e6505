-------------------------------- MODULE Md5 --------------------------------
(***************************************************************************)
(* The MD5 of a file, by which the server knows a file that it has got     *)
(* before: read in chunks, collected in a buffer of one block, padded, and *)
(* its length counted in bits in two words of 32 bits. What is done with a *)
(* full block is Md5Block's.                                               *)
(*                                                                         *)
(* A word is <<hi, lo>>, two halves of 16 bits; a byte is a number; texts  *)
(* and blocks are sequences of bytes.                                      *)
(***************************************************************************)
EXTENDS Integers, Sequences

CONSTANTS READ_DATA_SIZE,   \* bytes asked of one read()
          Transform(_, _),  \* the state after a block: MD5Transform()
          Files             \* texts to digest, after blocks that have been mixed before

VARIABLE digests   \* what Compute_file_md5() has returned last, or nothing

Byte == 0 .. 255

\* Bytes whose bits are as many as a word counts.
WordBytes == 536870912

\* Blocks of 2^37 bytes, but one: the length of the whole takes five bytes.
MostBlocks == 2147483647

\* READ_DATA_SIZE is 1024; its bits are counted in one word. A file is shorter than 2^37 bytes.
ASSUME Md5Assumption == READ_DATA_SIZE \in Nat \ {0} /\ READ_DATA_SIZE < WordBytes
ASSUME FilesAssumption == \A f \in Files : /\ f.before \in Nat /\ f.text \in Seq(Byte)
                                          /\ f.before + (Len(f.text) \div 64) < MostBlocks

Half == 65536
Word(n) == <<n \div Half, n % Half>>
Plus(x, y) == LET lo == x[2] + y[2] IN <<(x[1] + y[1] + (lo \div Half)) % Half, lo % Half>>
Less(x, y) == x[1] < y[1] \/ (x[1] = y[1] /\ x[2] < y[2])

\* The bytes of a sequence of words, low byte first.
EncodeWord(w) == <<w[2] % 256, w[2] \div 256, w[1] % 256, w[1] \div 256>>
MD5Encode(words) == [j \in 1 .. 4 * Len(words) |-> EncodeWord(words[((j - 1) \div 4) + 1])[((j - 1) % 4) + 1]]

\* The state after the n blocks from byte at + 1 on.
Blocks(state, bytes, at, n) ==
    LET after[k \in 0 .. n] ==
            IF k = 0 THEN state
            ELSE Transform(after[k - 1], SubSeq(bytes, at + 64 * k - 63, at + 64 * k))
    IN  after[n]
-----------------------------------------------------------------------------
MD5Init == [count |-> <<<<0, 0>>, <<0, 0>>>>,
            state |-> <<<<\h6745, \h2301>>, <<\hefcd, \hab89>>, <<\h98ba, \hdcfe>>, <<\h1032, \h5476>>>>,
            buffer |-> <<>>]

\* The bytes of the buffer that count; those behind index are never read.
Index(context) == (context.count[1][2] \div 8) % 64

\* The length is counted in bits, in two words. Blocks are mixed as they fill,
\* the first one from the buffer.
MD5Update(context, input) ==
    LET inputlen == Len(input)
        bits     == Word(inputlen * 8)
        low      == Plus(context.count[1], bits)
        carry    == IF Less(low, bits) THEN 1 ELSE 0
        partlen  == 64 - Index(context)
        more     == (inputlen - partlen) \div 64
        first    == Transform(context.state, context.buffer \o SubSeq(input, 1, partlen))
    IN  [count  |-> <<low, Plus(Plus(context.count[2], Word(carry)), Word(inputlen \div WordBytes))>>,
         state  |-> IF inputlen >= partlen THEN Blocks(first, input, partlen, more) ELSE context.state,
         buffer |-> IF inputlen >= partlen THEN SubSeq(input, partlen + 64 * more + 1, inputlen)
                                           ELSE context.buffer \o input]

PADDING == <<128>> \o [i \in 1 .. 63 |-> 0]

\* Mutant of PadLength: no block more when there is no room for the length.
PadLengthOffByOne(index) == IF index <= 56 THEN 56 - index ELSE 120 - index

PadLength(index) == IF index < 56 THEN 56 - index ELSE 120 - index

MD5Final(context) ==
    LET bits == MD5Encode(context.count)
        padded == MD5Update(context, SubSeq(PADDING, 1, PadLength(Index(context))))
    IN  MD5Encode(MD5Update(padded, bits).state)

\* Reads until one is short. The context is that of MD5Init(), or a later one.
Compute_file_md5(context, file) ==
    LET whole == Len(file) \div READ_DATA_SIZE
        chunk(k) == SubSeq(file, READ_DATA_SIZE * (k - 1) + 1,
                           IF k <= whole THEN READ_DATA_SIZE * k ELSE Len(file))
        after[k \in 0 .. whole + 1] == IF k = 0 THEN context ELSE MD5Update(after[k - 1], chunk(k))
    IN  MD5Final(after[whole + 1])

\* The context when that many blocks have been mixed.
Resumed(blocks) ==
    [count  |-> <<<<(blocks \div 128) % 65536, (blocks % 128) * 512>>, Word(blocks \div 8388608)>>,
     state  |-> MD5Init.state,
     buffer |-> <<>>]

NoDigest == digests = {}
Digest == \E f \in Files :
              digests' = {[file |-> f, md5_str |-> Compute_file_md5(Resumed(f.before), f.text)]}

DigestSpec == NoDigest /\ [][Digest]_digests
-----------------------------------------------------------------------------
\* RFC 1321: a one bit, zeros, and the length in bits in 64 bits, low byte
\* first, after the message, which is n bytes (below 2^37) and ends with text;
\* the blocks before text left the state as it was at the start.
LengthBytes(n) == <<(n % 32) * 8, (n \div 32) % 256, (n \div 8192) % 256,
                    (n \div 2097152) % 256, (n \div 536870912) % 256, 0, 0, 0>>

Padded(text, n) ==
    LET zeros == (55 - n) % 64
    IN  text \o <<128>> \o [i \in 1 .. zeros |-> 0]
             \o LengthBytes(n)

RfcDigest(text, n) ==
    LET all == Padded(text, n) IN MD5Encode(Blocks(MD5Init.state, all, 0, Len(all) \div 64))

\* The digest of a file is that of RFC 1321: however its length lies to the
\* ends of reads and blocks, where the padding takes a block more or the last
\* read is empty, and where the count of bits carries into its second word.
DigestIsRight ==
    \A d \in digests : d.md5_str = RfcDigest(d.file.text, 64 * d.file.before + Len(d.file.text))
=============================================================================
