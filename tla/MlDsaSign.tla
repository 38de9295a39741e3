------------------------------ MODULE MlDsaSign ------------------------------
(***************************************************************************)
(* Key generation, signing and verification of ML-DSA-65, sign.c, with the *)
(* code's own moduli and bounds.  A polynomial is one coefficient here     *)
(* (products of polynomials are MlDsaNtt's matter), and the challenge, TAU *)
(* coefficients of 1 and -1 in the code, is a number up to TAU, so that a  *)
(* product with it grows as much.  SHAKE is taken as free of collisions:   *)
(* what it hashes stands for the hash.  What the transforms leave after    *)
(* the way back is some representative near zero, not always the nearest.  *)
(***************************************************************************)
EXTENDS MlDsaRound, Sequences, FiniteSets

CONSTANTS
  K, L,          \* rows and columns of the matrix (6, 5)
  MaxHints,      \* OMEGA (55)
  NonceSpan,     \* values of a uint16_t
  MaxContext,    \* the longest context string (255)
  Slack,         \* how far past Prime / 2 the way back may leave a coefficient
  Matrices,      \* bound: matrices expanded from a seed
  Secrets,       \* bound: pairs of short vectors s1, s2
  Masks,         \* bound: coefficients of y
  Challenges,    \* bound: challenges
  Messages,      \* bound: pairs of a context string and a message
  MaxAttempts    \* bound: masks tried by one signing call

ASSUME SignAssumption ==
  /\ K \in Nat \ {0} /\ L \in Nat \ {0} /\ MaxHints \in Nat /\ MaxContext \in Nat
  /\ Slack \in Nat /\ Slack + ETA < Prime \div 2
  /\ NonceSpan \in Nat \ {0} /\ MaxAttempts \in Nat
  /\ L * MaxAttempts <= NonceSpan
  /\ Masks \subseteq -(GAMMA1 - 1)..GAMMA1
  /\ Challenges \subseteq -TAU..TAU
  /\ Matrices \subseteq [1..K -> [1..L -> Int]]
  /\ Secrets \subseteq [s1 : [1..L -> -ETA..ETA], s2 : [1..K -> -ETA..ETA]]
  /\ Messages \subseteq Seq(Nat) \X Seq(Nat)
-----------------------------------------------------------------------------
\* polyvecl_pointwise_acc_montgomery: the sum after each of the L products.
Accumulated(row, v) ==
  LET w[j \in 0..L] == IF j = 0 THEN 0 ELSE w[j - 1] + row[j] * v[j] IN w
RowTimes(row, v) == Accumulated(row, v)[L]
Product(A, v)        == [i \in 1..K |-> RowTimes(A[i], v)]

\* What polyvec*_invntt_tomont may leave of a class: representatives near zero.
Nearest(x)   == LET m == x % Prime IN IF m > Prime \div 2 THEN m - Prime ELSE m
Left(x)      == {r \in {Nearest(x) - Prime, Nearest(x), Nearest(x) + Prime} :
                   Magnitude(r) <= Prime \div 2 + Slack}
LeftVec(v)   == {w \in [DOMAIN v -> UNION {Left(v[i]) : i \in DOMAIN v}] : \A i \in DOMAIN v : w[i] \in Left(v[i])}

CaddqVec(v)  == [i \in DOMAIN v |-> Field!Caddq(v[i])]
ReduceVec(v) == [i \in DOMAIN v |-> Field!Reduce32(v[i])]
AddVec(u, v) == [i \in DOMAIN u |-> u[i] + v[i]]
SubVec(u, v) == [i \in DOMAIN u |-> u[i] - v[i]]
Scale(c, v)  == [i \in DOMAIN v |-> c * v[i]]
Exceeds(v, B) == \E i \in DOMAIN v : ChkNorm(v[i], B)

\* t1 and t0 of a matrix and the vectors, whichever representative As1 has.
PublicOf(A, left, s2) ==
  LET t == CaddqVec(AddVec(left, s2))
  IN  [t1 |-> [i \in 1..K |-> Power2High(t[i])], t0 |-> [i \in 1..K |-> Power2Low(t[i])]]

\* mu: tr, a zero byte, the length of the context, the context, the message.
Mu(tr, context, message) == <<tr, <<0, Len(context)>> \o context \o message>>
-----------------------------------------------------------------------------
VARIABLES
  pc,         \* where the running call is
  key,        \* the secret key: A and tr for rho and tr, s1, s2, t0; and the public one
  request,    \* context and message being signed
  nonce,      \* nonce of the next mask
  drawn,      \* nonces the masks of this call were expanded from (history)
  try,        \* the attempt: y, w1, w0, the challenge, z, h
  sig,        \* the signature written, or NoSig
  live,       \* buffers of the running call that hold secrets
  answer,     \* what the last call returned
  public      \* the public key recovered from the secret one, or nothing

signVars == <<pc, key, request, nonce, drawn, try, sig, live, answer, public>>

NoSig == [c |-> <<>>]
NoKey == [tr |-> <<>>]

SignInit ==
  /\ pc = "idle" /\ key = NoKey /\ sig = NoSig /\ request = <<>>
  /\ nonce = 0 /\ drawn = <<>> /\ try = <<>> /\ live = {} /\ answer = "none" /\ public = <<>>

\* crypto_sign_keypair and crypto_sign_keypair_from_seed.
Generate ==
  /\ pc = "idle" /\ key = NoKey
  /\ \E A \in Matrices, s \in Secrets : \E left \in LeftVec(Product(A, s.s1)) :
       LET p == PublicOf(A, left, s.s2)
       IN  key' = [A |-> A, s1 |-> s.s1, s2 |-> s.s2, t0 |-> p.t0, t1 |-> p.t1, tr |-> <<A, p.t1>>]
  /\ answer' = "made" /\ live' = {"seedbuf", "s1", "s1hat", "s2", "t0"} /\ pc' = "keypair"
  /\ UNCHANGED <<request, nonce, drawn, try, sig, public>>

\* crypto_sign_keypair on failure of the random source.
GenerateFails ==
  /\ pc = "idle" /\ key = NoKey
  /\ answer' = "failed" /\ live' = {"seedbuf"} /\ pc' = "entropy"
  /\ UNCHANGED <<key, request, nonce, drawn, try, sig, public>>

\* crypto_sign_sk_to_pk: the public key again, from the secret one.
RecoverPublic ==
  /\ pc = "idle" /\ key # NoKey
  /\ \E left \in LeftVec(Product(key.A, key.s1)) :
       public' = <<key.A, PublicOf(key.A, left, key.s2).t1>>
  /\ live' = {"key", "s1", "s1hat", "s2", "t0", "t0dummy"} /\ pc' = "public"
  /\ UNCHANGED <<key, request, nonce, drawn, try, sig, answer>>

\* The buffers cleansed before each return.
\* Mutant: signing without randomness leaves the unpacked key.
CleansedLess ==
  [keypair |-> {"seedbuf", "s1", "s1hat", "s2", "t0"}, entropy |-> {"seedbuf"},
   public  |-> {"key", "s1", "s1hat", "s2", "t0", "t0dummy"}, random |-> {"seedbuf"},
   signed  |-> {"seedbuf", "s1", "s2", "t0", "y", "z", "w0"}]
Cleansed ==
  [keypair |-> {"seedbuf", "s1", "s1hat", "s2", "t0"}, entropy |-> {"seedbuf"},
   public  |-> {"key", "s1", "s1hat", "s2", "t0", "t0dummy"},
   random  |-> {"seedbuf", "s1", "s2", "t0"},
   signed  |-> {"seedbuf", "s1", "s2", "t0", "y", "z", "w0"}]

Wipe ==
  /\ pc \in DOMAIN Cleansed
  /\ live' = live \ Cleansed[pc] /\ pc' = "idle"
  /\ UNCHANGED <<key, request, nonce, drawn, try, sig, answer, public>>

\* crypto_sign_signature_ctx, up to the random source: a context too long is refused
\* before the key is unpacked.
SignBegin ==
  /\ pc = "idle" /\ key # NoKey /\ sig = NoSig
  /\ \E m \in Messages :
       /\ request' = m
       /\ IF Len(m[1]) > MaxContext
          THEN answer' = "refused" /\ UNCHANGED <<pc, live>>
          ELSE pc' = "unpacked" /\ live' = {"seedbuf", "s1", "s2", "t0"} /\ UNCHANGED answer
  /\ nonce' = 0 /\ drawn' = <<>> /\ try' = <<>>
  /\ UNCHANGED <<key, sig, public>>

RandomFails ==
  /\ pc = "unpacked"
  /\ pc' = "random" /\ answer' = "failed"
  /\ UNCHANGED <<key, request, nonce, drawn, try, sig, live, public>>

RandomDrawn ==
  /\ pc = "unpacked"
  /\ pc' = "reject"
  /\ UNCHANGED <<key, request, nonce, drawn, try, sig, live, answer, public>>

\* polyvecl_uniform_gamma1: entry i of attempt n is expanded from nonce L * n + i.
\* Mutant: the vectors of two attempts overlap.
MaskNonceOverlaps(n, i) == (n + i) % NonceSpan
MaskNonce(n, i) == (L * n + i) % NonceSpan

\* rej: a mask, the commitment w1, the challenge, and z.
Attempt ==
  /\ pc = "reject" /\ Len(drawn) < L * MaxAttempts
  /\ \E y \in [1..L -> Masks], c \in Challenges :
       LET w == [i \in 1..K |-> Nearest(Product(key.A, y)[i]) % Prime]
       IN  \E cs1 \in LeftVec(Scale(c, key.s1)) :
             try' = [y |-> y, c |-> c, h |-> <<>>,
                     w1 |-> [i \in 1..K |-> HighBits(w[i])], w0 |-> [i \in 1..K |-> LowBits(w[i])],
                     z |-> ReduceVec(AddVec(cs1, y))]
  /\ drawn' = drawn \o [i \in 1..L |-> MaskNonce(nonce, i - 1)]
  /\ nonce' = (nonce + 1) % NonceSpan
  /\ live' = live \cup {"y", "z", "w0"} /\ pc' = "check z"
  /\ UNCHANGED <<key, request, sig, answer, public>>

ZBound == GAMMA1 - BETA

\* goto rej: the next attempt overwrites this one.
Reject == pc' = "reject" /\ try' = <<>>

CheckZ ==
  /\ pc = "check z"
  /\ IF Exceeds(try.z, ZBound) THEN Reject ELSE pc' = "check w0" /\ UNCHANGED try
  /\ UNCHANGED <<key, request, nonce, drawn, sig, live, answer, public>>

\* Mutant: low bits that c * s2 moves over the edge are not rejected.
CheckW0Never ==
  /\ pc = "check w0"
  /\ \E cs2 \in LeftVec(Scale(try.c, key.s2)) :
       try' = [try EXCEPT !.w0 = ReduceVec(SubVec(try.w0, cs2))]
  /\ pc' = "check h"
  /\ UNCHANGED <<key, request, nonce, drawn, sig, live, answer, public>>
CheckW0 ==
  /\ pc = "check w0"
  /\ \E cs2 \in LeftVec(Scale(try.c, key.s2)) :
       LET w0 == ReduceVec(SubVec(try.w0, cs2))
       IN  IF Exceeds(w0, GAMMA2 - BETA) THEN Reject
           ELSE pc' = "check h" /\ try' = [try EXCEPT !.w0 = w0]
  /\ UNCHANGED <<key, request, nonce, drawn, sig, live, answer, public>>

Ones(h) == Cardinality({i \in DOMAIN h : h[i] = 1})

CheckHints ==
  /\ pc = "check h"
  /\ \E left \in LeftVec(Scale(try.c, key.t0)) :
       LET ct0 == ReduceVec(left)
           w0  == AddVec(try.w0, ct0)
           h   == [i \in 1..K |-> MakeHint(w0[i], try.w1[i])]
       IN  IF Exceeds(ct0, GAMMA2) \/ Ones(h) > MaxHints
           THEN Reject
           ELSE pc' = "write" /\ try' = [try EXCEPT !.w0 = w0, !.h = h]
  /\ UNCHANGED <<key, request, nonce, drawn, sig, live, answer, public>>

\* The signature: the hash of mu and w1, the challenge it expands to, z and the hints.
Write ==
  /\ pc = "write"
  /\ sig' = [c |-> <<Mu(key.tr, request[1], request[2]), try.w1>>, cp |-> try.c,
             z |-> try.z, h |-> try.h]
  /\ pc' = "signed" /\ answer' = "signed" /\ try' = <<>>
  /\ UNCHANGED <<key, request, nonce, drawn, live, public>>

\* crypto_sign_verify_ctx of the signature for a context and a message.
Recovered ==
  LET Az  == Product(key.A, sig.z)
      ct1 == Scale(sig.cp * 2 ^ D, key.t1)
      w   == [i \in 1..K |-> Nearest(Az[i] - ct1[i]) % Prime]
  IN  [i \in 1..K |-> UseHint(w[i], sig.h[i])]

Accepts(m) ==
  /\ Len(m[1]) <= MaxContext
  /\ ~Exceeds(sig.z, ZBound)
  /\ sig.c = <<Mu(<<key.A, key.t1>>, m[1], m[2]), Recovered>>

Verify ==
  /\ pc = "idle" /\ sig # NoSig
  /\ \E m \in Messages : request' = m /\ answer' = IF Accepts(m) THEN "valid" ELSE "invalid"
  /\ UNCHANGED <<pc, key, nonce, drawn, try, sig, live, public>>

SignNext ==
  \/ Generate \/ GenerateFails \/ RecoverPublic \/ Wipe
  \/ SignBegin \/ RandomFails \/ RandomDrawn \/ Attempt
  \/ CheckZ \/ CheckW0 \/ CheckHints \/ Write \/ Verify

SignSpec == SignInit /\ [][SignNext]_signVars
-----------------------------------------------------------------------------
\* "subtracting cs2 does not change high bits of w" (sign.c:307): the commitment of a
\* written signature is also that of w - c * s2, which is A z - c t.
CommitmentStands ==
  LET t == [i \in 1..K |-> key.t1[i] * 2 ^ D + key.t0[i]]
      w == [i \in 1..K |-> Product(key.A, sig.z)[i] - sig.cp * t[i]]
  IN  [i \in 1..K |-> HighBits(w[i] % Prime)] = sig.c[2]

\* A signature sign.c wrote is accepted for its context and message, and for no other
\* pair, by the verifier that knows t1 only: the hints make up for t0.  The public key
\* recovered from a secret key is the one generated with it.
SignedVerifies ==
  /\ sig # NoSig => CommitmentStands /\ \A m \in Messages :
       Len(m[1]) <= MaxContext => (Accepts(m) <=> Mu(key.tr, m[1], m[2]) = sig.c[1])
  /\ \A m, n \in Messages : Len(m[1]) <= MaxContext /\ Len(n[1]) <= MaxContext
       => (Mu("tr", m[1], m[2]) = Mu("tr", n[1], n[2]) => m = n)
  /\ public # <<>> => public = key.tr

\* "wipe the secret intermediates" (sign.c:73, 189, 256, 335): whichever way a call
\* returns, none of its buffers still holds key material, masks or a rejected candidate.
NoSecretLeft == pc = "idle" => live = {}

\* One signing call never expands two masks from the same nonce, over all its vectors and
\* attempts: two signatures with one mask give the key away.
MasksAreFresh == \A i, j \in 1..Len(drawn) : drawn[i] = drawn[j] => i = j
=============================================================================
