------------------------------ MODULE Md5Block ------------------------------
(***************************************************************************)
(* What MD5Transform() does to the state with one block of 64 bytes, in    *)
(* words of 32 bits that wrap around.                                      *)
(***************************************************************************)
EXTENDS Md5, Bitwise

AndW(x, y) == <<x[1] & y[1], x[2] & y[2]>>
OrW(x, y)  == <<x[1] | y[1], x[2] | y[2]>>
XorW(x, y) == <<x[1] ^^ y[1], x[2] ^^ y[2]>>
NotW(x)    == <<Half - 1 - x[1], Half - 1 - x[2]>>

\* By less than 16 bits, or by 16 first.
ROTATE_LEFT(x, n) ==
    LET y == IF n < 16 THEN x ELSE <<x[2], x[1]>>
        up == 2 ^ (n % 16)
        over(half) == half \div (Half \div up)
    IN  <<((y[1] * up) % Half) + over(y[2]), ((y[2] * up) % Half) + over(y[1])>>

\* F, G, H and I, one for each round.
Mix(round, x, y, z) ==
    CASE round = 0 -> OrW(AndW(x, y), AndW(NotW(x), z))
      [] round = 1 -> OrW(AndW(x, z), AndW(y, NotW(z)))
      [] round = 2 -> XorW(XorW(x, y), z)
      [] round = 3 -> XorW(y, OrW(x, NotW(z)))

\* The constant, the word of the block and the rotation of each of 64 steps.
AC == <<
    <<\hd76a, \ha478>>, <<\he8c7, \hb756>>, <<\h2420, \h70db>>, <<\hc1bd, \hceee>>,
    <<\hf57c, \h0faf>>, <<\h4787, \hc62a>>, <<\ha830, \h4613>>, <<\hfd46, \h9501>>,
    <<\h6980, \h98d8>>, <<\h8b44, \hf7af>>, <<\hffff, \h5bb1>>, <<\h895c, \hd7be>>,
    <<\h6b90, \h1122>>, <<\hfd98, \h7193>>, <<\ha679, \h438e>>, <<\h49b4, \h0821>>,
    <<\hf61e, \h2562>>, <<\hc040, \hb340>>, <<\h265e, \h5a51>>, <<\he9b6, \hc7aa>>,
    <<\hd62f, \h105d>>, <<\h0244, \h1453>>, <<\hd8a1, \he681>>, <<\he7d3, \hfbc8>>,
    <<\h21e1, \hcde6>>, <<\hc337, \h07d6>>, <<\hf4d5, \h0d87>>, <<\h455a, \h14ed>>,
    <<\ha9e3, \he905>>, <<\hfcef, \ha3f8>>, <<\h676f, \h02d9>>, <<\h8d2a, \h4c8a>>,
    <<\hfffa, \h3942>>, <<\h8771, \hf681>>, <<\h6d9d, \h6122>>, <<\hfde5, \h380c>>,
    <<\ha4be, \hea44>>, <<\h4bde, \hcfa9>>, <<\hf6bb, \h4b60>>, <<\hbebf, \hbc70>>,
    <<\h289b, \h7ec6>>, <<\heaa1, \h27fa>>, <<\hd4ef, \h3085>>, <<\h0488, \h1d05>>,
    <<\hd9d4, \hd039>>, <<\he6db, \h99e5>>, <<\h1fa2, \h7cf8>>, <<\hc4ac, \h5665>>,
    <<\hf429, \h2244>>, <<\h432a, \hff97>>, <<\hab94, \h23a7>>, <<\hfc93, \ha039>>,
    <<\h655b, \h59c3>>, <<\h8f0c, \hcc92>>, <<\hffef, \hf47d>>, <<\h8584, \h5dd1>>,
    <<\h6fa8, \h7e4f>>, <<\hfe2c, \he6e0>>, <<\ha301, \h4314>>, <<\h4e08, \h11a1>>,
    <<\hf753, \h7e82>>, <<\hbd3a, \hf235>>, <<\h2ad7, \hd2bb>>, <<\heb86, \hd391>> >>
Pick(i) == <<i, 5 * i + 1, 3 * i + 5, 7 * i>>[(i \div 16) + 1] % 16

Turn(i) == << <<7, 12, 17, 22>>, <<5, 9, 14, 20>>, <<4, 11, 16, 23>>, <<6, 10, 15, 21>> >>[(i \div 16) + 1][(i % 4) + 1]

\* Little-endian words of a block.
MD5Decode(block) ==
    [i \in 0 .. 15 |-> <<block[4 * i + 3] + 256 * block[4 * i + 4], block[4 * i + 1] + 256 * block[4 * i + 2]>>]
\* FF, GG, HH and II: what stands first gets a new value and last place.
Step(i, v, x) ==
    LET sum == Plus(Plus(Plus(v[1], Mix(i \div 16, v[2], v[3], v[4])), x[Pick(i)]), AC[i + 1])
    IN  <<v[4], Plus(ROTATE_LEFT(sum, Turn(i)), v[2]), v[2], v[3]>>

MD5Transform(state, block) ==
    LET x == MD5Decode(block)
        after[i \in 0 .. 64] == IF i = 0 THEN state ELSE Step(i - 1, after[i - 1], x)
        v == after[64]
    IN  <<Plus(state[1], v[1]), Plus(state[2], v[2]), Plus(state[3], v[3]), Plus(state[4], v[4])>>
=============================================================================
