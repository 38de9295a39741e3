------------------------------ MODULE MCPrimitives ------------------------------
\* The parts of pqcrypto/ side by side: the hash components of common/, ML-DSA-65
\* and SLH-DSA.  A behaviour runs one of them.
EXTENDS Keccak, Sponge, Sha2, MlDsaNtt, MlDsaSign, MlDsaSample, MlDsaPack, SlhDsa

VARIABLE part

hashVars  == <<keccakVars, spongeVars, sha2Vars>>
mlDsaVars == <<nttVars, signVars, sampleVars, packVars>>
vars      == <<part, hashVars, mlDsaVars, slhVars>>

\* Three permuted states: all zero, one bit in every lane, and bits that differ by lane.
MCStarts == {[l \in Lanes |-> {}], [l \in Lanes |-> {2 * l}],
             [l \in Lanes |-> {b \in Bits : (b * b + l) % 7 < 3}]}

\* The real functions, cut around their block boundaries, and small rates, cut every way.
MCFunctions == {Shake128, Shake256, Sha3_256, Sha3_384, Sha3_512}
                 \cup {[rate |-> n, digest |-> 0] : n \in {1, 3, 4}}
MCPieces(n) == IF n <= 4 THEN 1..(2 * n + 1) ELSE {n - 1, n, n + 1}
MCMax(n)    == 3 * n

MCHashSet  == {Sha224, Sha256, Sha384, Sha512}
MCRests(b) == LET room == b - b \div 8 IN {0, 1, room - 1, room, b - 1, b, b + room}
MCSigma0(x) == 5 * x + 2
MCSigma1(x) == 3 * x * x + 1

\* Products: monomials and dense polynomials, and rows of three whose sums grow most.
Monomial(c, i) == [j \in Index |-> IF j = i THEN c ELSE 0]
Constant(c)    == [j \in Index |-> c]
Alternating(c) == [j \in Index |-> IF j % 2 = 0 THEN c ELSE -c]
Mixed(a, b)    == [j \in Index |-> (a * j + b) % Q]
Short == {Monomial(1, i) : i \in Index} \cup {Constant(4), Constant(-4), Alternating(4)}
Long  == {Monomial(1, N - 1), Constant(Q - 1), Mixed(37, 5), Mixed(11, 7)}
MCJobs ==
  {[row |-> <<>>, less |-> << <<c, v>> >>] : c \in Short, v \in Short \cup Long}
    \cup {[row |-> << <<a, v>>, <<b, v>>, <<a, b>> >>, less |-> minus] :
            a \in Long, b \in Long, v \in Long, minus \in {<<>>, << <<Constant(1), Constant(Q - 1)>> >>}}
    \cup {[row |-> [i \in 1..3 |-> <<Monomial(c, 0), Monomial(d, 0)>>], less |-> <<>>] :
            c \in 0..(Q - 1), d \in {1, Q - 1}}

\* Two keys, masks around the bounds of z, challenges of either sign.
MCMatrices   == {<< <<1000, -999>>, <<37, 500>> >>, << <<-3, 1>>, <<512, 16>> >>}
MCSecrets    == {[s1 |-> <<4, -4>>, s2 |-> <<-4, 3>>], [s1 |-> <<0, 4>>, s2 |-> <<4, 4>>]}
MCMasks      == {-524287, -524091, 0, 130815, 261889, 524092, 524288}
MCChallenges == {-49, 1, 48}
MCMessages   == {<< <<>>, <<1>> >>, << <<1>>, <<>> >>, << <<1, 1, 1>>, <<>> >>, << <<>>, <<>> >>}

\* Rates that leave bytes over and rates that do not, as the code's 168 does not.
Sampling(kind, rate, blocks, n, tau, max) ==
  [kind |-> kind, rate |-> rate, blocks |-> blocks, n |-> n, tau |-> tau, signBytes |-> 1, max |-> max]
MCSamplings ==
  {Sampling("uniform", 3, 1, 3, 0, 12), Sampling("uniform", 4, 2, 4, 0, 16), Sampling("uniform", 5, 1, 3, 0, 15),
   Sampling("eta", 2, 1, 5, 0, 6), Sampling("challenge", 3, 1, 4, 3, 9), Sampling("challenge", 2, 1, 4, 2, 8)}

\* Trees of four leaves over a forest of three: two messages that share a tree, and one whose
\* indexes have bits to be cut off; values of a hash whose digits are least, greatest and mixed.
MCDigests == {[fors |-> <<109>>, tree |-> <<0>>, leaf |-> <<2>>], [fors |-> <<109>>, tree |-> <<7>>, leaf |-> <<2>>],
              [fors |-> <<228>>, tree |-> <<4>>, leaf |-> <<253>>]}
MCHashBytes == {<<0>>, <<255>>, <<27>>, <<19>>}

AJob      == [row |-> <<>>, less |-> << <<Constant(4), Constant(4)>> >>]
ASampling == Sampling("eta", 2, 1, 5, 0, 6)

\* The parts that do not run stay in one of their initial states.
Init ==
  /\ part \in {"keccak", "sponge", "sha2", "schedule", "ntt", "sign", "sample", "pack", "slh"}
  /\ KeccakInit /\ (part = "keccak" \/ state = [l \in Lanes |-> {}])
  /\ SpongeInit /\ (part = "sponge" \/ fn = Shake256)
  /\ Sha2Init /\ (part \in {"sha2", "schedule"} \/ hash = Sha256)
  /\ NttInit /\ (part = "ntt" \/ job = AJob)
  /\ SignInit
  /\ SampleInit /\ (part = "sample" \/ how = ASampling)
  /\ PackInit /\ (part = "pack" \/ (format = "w1" /\ plain = [c \in 0..1 |-> 0..3]))
  /\ SlhInit

HashNext ==
  \/ part = "keccak" /\ Permute /\ UNCHANGED <<spongeVars, sha2Vars>>
  \/ part = "sponge" /\ SpongeNext /\ UNCHANGED <<keccakVars, sha2Vars>>
  \/ part = "sha2" /\ ContextNext /\ UNCHANGED <<keccakVars, spongeVars>>
  \/ part = "schedule" /\ ExpandWords /\ UNCHANGED <<keccakVars, spongeVars>>

MlDsaNext ==
  \/ part = "ntt" /\ NttNext /\ UNCHANGED <<signVars, sampleVars, packVars>>
  \/ part = "sign" /\ SignNext /\ UNCHANGED <<nttVars, sampleVars, packVars>>
  \/ part = "sample" /\ SampleNext /\ UNCHANGED <<nttVars, signVars, packVars>>
  \/ part = "pack" /\ PackNext /\ UNCHANGED <<nttVars, signVars, sampleVars>>

Next ==
  \/ HashNext /\ UNCHANGED <<part, mlDsaVars, slhVars>>
  \/ MlDsaNext /\ UNCHANGED <<part, hashVars, slhVars>>
  \/ part = "slh" /\ SlhNext /\ UNCHANGED <<part, hashVars, mlDsaVars>>

Spec == Init /\ [][Next]_vars
-----------------------------------------------------------------------------
\* The unrolled Keccak and the buffered SHA-2 compute the functions of their standards.
StandardHashes == PermutesAsStandard /\ HashesAsStandard
=============================================================================
