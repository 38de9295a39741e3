----------------------------- MODULE MlDsaSample -----------------------------
(***************************************************************************)
(* How ML-DSA turns a SHAKE stream into polynomials, poly.c: poly_uniform, *)
(* poly_uniform_eta and poly_challenge take bytes off blocks squeezed as   *)
(* they are needed, reject those that stand for no coefficient, and go on  *)
(* in the middle of a block.  A byte of the stream is its index; what it   *)
(* stands for is chosen when it is read.                                   *)
(***************************************************************************)
EXTENDS Integers, Sequences, FiniteSets

CONSTANTS
  Samplings    \* bound: the samplings, records of a kind, the stream's rate, the blocks
               \* squeezed at first, the coefficients n, tau and the bytes of signs, and
               \* max, a bound on the bytes of the stream

ASSUME SampleAssumption ==
  \A s \in Samplings :
       /\ s.kind \in {"uniform", "eta", "challenge"}
       /\ s.rate \in Nat \ {0} /\ s.blocks \in Nat \ {0} /\ s.n \in Nat \ {0}
       /\ s.tau \in 0..s.n /\ s.signBytes \in Nat /\ s.signBytes <= s.rate /\ s.max \in Nat
-----------------------------------------------------------------------------
VARIABLES
  how,        \* the sampling
  buf,        \* the buffer: bytes of the stream
  pos,        \* next byte of it to read
  squeezed,   \* bytes of the stream squeezed so far
  coeffs,     \* uniform, eta: the candidates taken so far; challenge: by coefficient, 0
              \* or the number of the sign it got
  next,       \* challenge: the coefficient to place next, i
  read,       \* bytes read, in order (history)
  offered     \* candidates in the order they were read, and whether they were good (history)

sampleVars == <<how, buf, pos, squeezed, coeffs, next, read, offered>>

Stream(from, n) == [i \in 1..n |-> from + i - 1]

SampleInit ==
  /\ how \in Samplings
  /\ squeezed = how.blocks * how.rate
  /\ buf = Stream(0, squeezed)
  /\ offered = <<>> /\ next = how.n - how.tau
  /\ IF how.kind = "challenge"
     THEN pos = how.signBytes /\ read = Stream(0, how.signBytes) /\ coeffs = [i \in 0..(how.n - 1) |-> 0]
     ELSE pos = 0 /\ read = <<>> /\ coeffs = <<>>

Bytes(k) == [i \in 1..k |-> buf[pos + i]]

\* The loop of rej_uniform: three bytes, one candidate, good if below Q.
RejUniform ==
  /\ how.kind = "uniform"
  /\ Len(coeffs) < how.n /\ pos + 3 <= Len(buf)
  /\ \E good \in BOOLEAN :
       /\ offered' = Append(offered, <<Bytes(3), good>>)
       /\ coeffs' = IF good THEN Append(coeffs, Bytes(3)) ELSE coeffs
  /\ read' = read \o Bytes(3) /\ pos' = pos + 3
  /\ UNCHANGED <<how, buf, squeezed, next>>

\* poly_uniform: keep the bytes that are no whole candidate, squeeze a block after them.
\* (SHAKE128's rate, 168, is a multiple of three: with it nothing is ever left.)
\* Mutant: the bytes that are left are dropped.
DropRest == 0
Rest == Len(buf) % 3

RefillUniform ==
  /\ how.kind = "uniform"
  /\ Len(coeffs) < how.n /\ pos + 3 > Len(buf) /\ squeezed + how.rate <= how.max
  /\ buf' = SubSeq(buf, Len(buf) - Rest + 1, Len(buf)) \o Stream(squeezed, how.rate)
  /\ squeezed' = squeezed + how.rate /\ pos' = 0
  /\ UNCHANGED <<how, coeffs, next, read, offered>>

\* The loop of rej_eta: two candidates in a byte, the second only if it is still needed.
RejEta ==
  /\ how.kind = "eta"
  /\ Len(coeffs) < how.n /\ pos < Len(buf)
  /\ \E good \in BOOLEAN \X BOOLEAN :
       LET low   == <<Bytes(1)[1], "low">>
           high  == <<Bytes(1)[1], "high">>
           first == IF good[1] THEN Append(coeffs, low) ELSE coeffs
           more  == Len(first) < how.n
       IN  /\ coeffs' = IF good[2] /\ more THEN Append(first, high) ELSE first
           /\ offered' = Append(Append(offered, <<low, good[1]>>), <<high, good[2]>>)
  /\ read' = read \o Bytes(1) /\ pos' = pos + 1
  /\ UNCHANGED <<how, buf, squeezed, next>>

\* poly_uniform_eta and poly_challenge: the next block over the last.
Refill ==
  /\ \/ how.kind = "eta" /\ Len(coeffs) < how.n
     \/ how.kind = "challenge" /\ next < how.n
  /\ pos >= Len(buf) /\ squeezed + how.rate <= how.max
  /\ buf' = Stream(squeezed, how.rate)
  /\ squeezed' = squeezed + how.rate /\ pos' = 0
  /\ UNCHANGED <<how, coeffs, next, read, offered>>

\* poly_challenge: a byte above i is passed over, any other is the place b that moves to i
\* and takes the next sign.
Place ==
  /\ how.kind = "challenge" /\ next < how.n /\ pos < Len(buf)
  /\ \E b \in 0..(how.n - 1) :
       IF b > next
       THEN UNCHANGED <<coeffs, next, offered>>
       ELSE /\ coeffs' = [coeffs EXCEPT ![next] = coeffs[b], ![b] = next - (how.n - how.tau) + 1]
            /\ next' = next + 1
            /\ offered' = Append(offered, b)
  /\ read' = read \o Bytes(1) /\ pos' = pos + 1
  /\ UNCHANGED <<how, buf, squeezed>>

SampleNext == RejUniform \/ RefillUniform \/ RejEta \/ Refill \/ Place

SampleSpec == SampleInit /\ [][SampleNext]_sampleVars
-----------------------------------------------------------------------------
First(n, s) == SubSeq(s, 1, IF n < Len(s) THEN n ELSE Len(s))
GoodOnes(offers) ==
  LET good[i \in 0..Len(offers)] ==
        IF i = 0 THEN <<>> ELSE IF offers[i][2] THEN Append(good[i - 1], offers[i][1]) ELSE good[i - 1]
  IN  good[Len(offers)]

\* The candidates that the stream holds: triplets of bytes, and halves of bytes.
Candidate(i) ==
  IF how.kind = "uniform" THEN Stream(3 * (i - 1), 3)
  ELSE <<(i - 1) \div 2, IF i % 2 = 1 THEN "low" ELSE "high">>

\* However the blocks fall, a polynomial is made of the stream in order: no byte is
\* skipped or read twice, what is tried are the stream's candidates one after another, and
\* the coefficients are the first good ones.  A challenge
\* always has as many signs as were placed, each once, none past i, and the bytes its
\* signs come from are not used as places.
SampledInOrder ==
  /\ read = Stream(0, Len(read))
  /\ how.kind # "challenge" => /\ \A i \in DOMAIN offered : offered[i][1] = Candidate(i)
                                /\ coeffs = First(how.n, GoodOnes(offered))
  /\ how.kind = "challenge" =>
       LET placed == {j \in 0..(how.n - 1) : coeffs[j] # 0}
       IN  /\ Cardinality(placed) = next - (how.n - how.tau)
           /\ {coeffs[j] : j \in placed} = 1..(next - (how.n - how.tau))
           /\ \A j \in placed : j < next
=============================================================================
