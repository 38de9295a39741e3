-------------------------------- MODULE SlhDsa --------------------------------
(***************************************************************************)
(* SLH-DSA of slh-dsa-sha2-128s/: a tree of one-time keys, Layers trees    *)
(* high, over a forest of few-time keys that signs the message.  The       *)
(* wallet only makes key pairs; signing and verifying are the rest of the  *)
(* library.                                                                *)
(*                                                                         *)
(* A hash is a term of its address and its input, so two values are equal  *)
(* only when they were computed alike.  Addresses keep the fields of the   *)
(* code's byte layout, the ones that share bytes included: what one call   *)
(* leaves in them the next call hashes.  The bytes that a hash happens to  *)
(* have are chosen where the code looks at them.                           *)
(***************************************************************************)
EXTENDS Integers, Sequences, FiniteSetsExt

CONSTANTS
  AddrByte,                \* values of a byte of an address (256)
  ChainBits,               \* SPX_WOTS_LOGW (4)
  MsgDigits, SumDigits,    \* SPX_WOTS_LEN1 and LEN2 (32, 3)
  TreeHeight, Layers,      \* SPX_TREE_HEIGHT and SPX_D (9, 7)
  ForsHeight, ForsTrees,   \* SPX_FORS_HEIGHT and SPX_FORS_TREES (12, 14)
  Digests,                 \* bound: digests, [fors, tree, leaf |-> sequences of bytes]
  HashBytes,               \* bound: values of a hash, sequences of bytes
  MaxSigned                \* bound: messages signed

SlhAssumption ==
  /\ \A c \in {ChainBits, MsgDigits, SumDigits, TreeHeight, Layers, ForsHeight, ForsTrees, AddrByte, MaxSigned} : c \in Nat \ {0}
  /\ (MsgDigits * (2 ^ ChainBits - 1)) < 2 ^ (ChainBits * SumDigits)
ASSUME SlhAssumption

\* Every number an address holds fits its field: 256 is enough for the sizes of the code.
AddressWidths ==
  /\ Layers <= AddrByte /\ MsgDigits + SumDigits <= AddrByte /\ 2 ^ ChainBits <= AddrByte
  /\ TreeHeight < AddrByte /\ ForsHeight < AddrByte
  /\ 2 ^ TreeHeight <= AddrByte ^ 2 /\ 2 ^ (TreeHeight * (Layers - 1)) <= AddrByte ^ 8
  /\ 2 ^ TreeHeight <= AddrByte * AddrByte ^ 3 /\ ForsTrees * 2 ^ ForsHeight <= AddrByte * AddrByte ^ 3
ASSUME AddressWidths
-----------------------------------------------------------------------------
\* address.c.  Bytes 17 and 18..21 are the chain and the hash of a one-time key, or the
\* height and the index of a node.
NoAddr == [layer |-> 0, tree |-> 0, type |-> "wots", keypair |-> 0, at17 |-> 0, at18 |-> 0, at21 |-> 0]

SetLayer(a, x)      == [a EXCEPT !.layer = x % AddrByte]
SetTree(a, x)       == [a EXCEPT !.tree = x % AddrByte ^ 8]
SetType(a, t)       == [a EXCEPT !.type = t]
SetKeypair(a, x)    == [a EXCEPT !.keypair = x % AddrByte ^ 2]
SetChain(a, x)      == [a EXCEPT !.at17 = x % AddrByte]
SetHash(a, x)       == [a EXCEPT !.at21 = x % AddrByte]
SetTreeHeight(a, x) == [a EXCEPT !.at17 = x % AddrByte]

\* Mutant: only the low byte of the index.
SetLowIndex(a, x)   == [a EXCEPT !.at21 = x % AddrByte]
SetTreeIndex(a, x) == [a EXCEPT !.at18 = (x \div AddrByte) % AddrByte ^ 3, !.at21 = x % AddrByte]
SetNode(a, h, x)    == SetTreeIndex(SetTreeHeight(a, h), x)

CopySubtree(a, from) == [a EXCEPT !.layer = from.layer, !.tree = from.tree]
CopyKeypair(a, from) == [CopySubtree(a, from) EXCEPT !.keypair = from.keypair]

\* prf_addr and thash, over the state seeded with the public seed.
Prf(a)       == <<"prf", a>>
Thash(a, in) == <<"thash", a, in>>
Nothing      == <<>>
-----------------------------------------------------------------------------
\* Bytes to numbers: big endian, and the first bits of a byte are its high ones.
BitOf(bytes, b)     == (bytes[(b \div 8) + 1] \div 2 ^ (7 - (b % 8))) % 2
BitField(bytes, b, n)  == MapThenSumSet(LAMBDA j : BitOf(bytes, b + j) * 2 ^ (n - 1 - j), 0..(n - 1))
BytesToUll(bytes)   == BitField(bytes, 0, 8 * Len(bytes))
ASSUME DigestAssumption == \A d \in Digests : BytesToUll(d.tree) \in Nat /\ BytesToUll(d.leaf) \in Nat

UllToBytes(x, n)    == [i \in 1..n |-> (x \div 2 ^ (8 * (n - i))) % 256]

BaseW(bytes, n)      == [i \in 1..n |-> BitField(bytes, (i - 1) * ChainBits, ChainBits)]
MessageToIndices(bytes) == [t \in 1..ForsTrees |-> BitField(bytes, (t - 1) * ForsHeight, ForsHeight)]

\* The checksum, moved so that the bits it does not need are its last ones.
ChainEnd == 2 ^ ChainBits - 1
SumBits  == SumDigits * ChainBits
WotsChecksum(digits) ==
  LET sum == MapThenSumSet(LAMBDA i : ChainEnd - digits[i], 1..MsgDigits)
  IN  BaseW(UllToBytes(sum * 2 ^ ((8 - (SumBits % 8)) % 8), (SumBits + 7) \div 8), SumDigits)

\* Mutant: the checksum of the digits is not signed.
NoChecksum(bytes)   == BaseW(bytes, MsgDigits) \o [i \in 1..SumDigits |-> 0]
ChainLengths(bytes) == BaseW(bytes, MsgDigits) \o WotsChecksum(BaseW(bytes, MsgDigits))
Chains == MsgDigits + SumDigits

\* gen_chain.
GenChain(a, in, start, steps) ==
  LET v[i \in start..(start + steps)] == IF i = start THEN in ELSE Thash(SetHash(a, i - 1), <<v[i - 1]>>)
  IN  v[start + steps]

\* wots_gen_leafx1: the value of chain i at position k, from the secret on, and the leaf.
WotsChain(a, i, k) ==
  LET here == SetChain(a, i - 1)
  IN  GenChain(SetType(here, "wots"), Prf(SetType(SetHash(here, 0), "wotsprf")), 0, k)
WotsLeaf(leafAddr, pkAddr, kp) ==
  Thash(SetKeypair(pkAddr, kp), [i \in 1..Chains |-> WotsChain(SetKeypair(leafAddr, kp), i, ChainEnd)])

\* fors_gen_leafx1.
ForsSecret(a)   == Prf(SetType(a, "forsprf"))
ForsLeaf(a, sk) == Thash(SetType(a, "forstree"), <<sk>>)

\* compute_root: from a leaf up its path.
ComputeRoot(leaf, index, offset, path, a) ==
  LET height == Len(path)
      node[h \in 0..height] ==
        IF h = 0 THEN leaf
        ELSE LET below == node[h - 1]
             IN  Thash(SetNode(a, h, (index \div 2 ^ h) + (offset \div 2 ^ h)),
                       IF (index \div 2 ^ (h - 1)) % 2 = 1 THEN <<path[h], below>> ELSE <<below, path[h]>>)
  IN  node[height]
-----------------------------------------------------------------------------
VARIABLES
  work,      \* "none", "keygen", "keyed", "fors", "merkle", "signed", "verify", "accepted", "refused"
  pubRoot,   \* the root in the public key
  hashing,   \* the running treehashx1: its arguments, its stack, path and next leaf
  index,     \* tree and leaf of the layer at work
  layer,     \*   and that layer
  digest,    \* of the message being signed, or verified
  forest,    \* roots of the few-time trees so far, then the root to be signed next
  signature, \* what is signed so far: the secrets, chains and paths
  known,     \* the bytes of roots that were looked at
  calls,     \* addresses hashed under by the key's owner, and what for (history)
  count      \* messages signed

slhVars == <<work, pubRoot, hashing, index, layer, digest, forest, signature, known, calls, count>>

NoSignature == [digest |-> Nothing, fors |-> <<>>, merkle |-> <<>>]
SlhInit ==
  /\ work = "none" /\ pubRoot = Nothing /\ hashing = Nothing /\ index = [tree |-> 0, leaf |-> 0]
  /\ layer = 0 /\ digest = Nothing /\ forest = <<>> /\ signature = NoSignature
  /\ known = {} /\ calls = {} /\ count = 0

\* ~0U as the leaf: no node is the neighbour of one on its way to the root.
NoLeaf == 2 ^ (TreeHeight + 1) - 1

\* A treehashx1 is started: of the trees of few-time keys, or of one-time keys.
TreeHash(of, leaf, offset, height, a, leafAddr, pkAddr) ==
  [of |-> of, leaf |-> leaf, offset |-> offset, height |-> height, addr |-> a, leafAddr |-> leafAddr,
   pkAddr |-> pkAddr, next |-> 0, stack |-> <<>>, path |-> [h \in 1..height |-> Nothing], root |-> Nothing]

\* merkle_sign's addresses and call.
MerkleHash(treeAddr, wotsAddr, leaf) ==
  TreeHash("wots", leaf, 0, TreeHeight, SetType(treeAddr, "hashtree"),
           CopySubtree(NoAddr, wotsAddr), CopySubtree(SetType(NoAddr, "wotspk"), wotsAddr))

\* crypto_sign_seed_keypair, merkle_gen_root: the tree on top, with no leaf to sign.
SeedKeypair ==
  /\ work = "none"
  /\ work' = "keygen"
  /\ layer' = Layers - 1
  /\ hashing' = MerkleHash(SetLayer(NoAddr, Layers - 1), SetLayer(NoAddr, Layers - 1), NoLeaf)
  /\ UNCHANGED <<pubRoot, index, digest, forest, signature, known, calls, count>>

\* The loop of treehashx1.
Running == work \in {"keygen", "fors", "merkle"} /\ hashing.root = Nothing

\* Where the new leaf's climb ends: at a left child, or at the top.
ClimbEnd(idx, height) ==
  CHOOSE h \in 0..height :
    /\ h = height \/ ((idx \div 2 ^ h) % 2 = 0 /\ idx < 2 ^ height - 1)
    /\ \A lower \in 0..(h - 1) : ~((idx \div 2 ^ lower) % 2 = 0 /\ idx < 2 ^ height - 1)

NewLeaf(t, idx) ==
  IF t.of = "wots" THEN WotsLeaf(t.leafAddr, t.pkAddr, idx)
  ELSE LET a == SetTreeIndex(t.leafAddr, idx + t.offset) IN ForsLeaf(a, ForsSecret(a))

NodeAddr(t, h, idx) == SetNode(t.addr, h, (idx \div 2 ^ h) + (t.offset \div 2 ^ h))

\* What a leaf and the nodes above it are hashed for, with their addresses.
WotsCalls(t, idx) ==
  LET a == SetKeypair(t.leafAddr, idx)
  IN  {<<[SetChain(a, i - 1) EXCEPT !.type = "wotsprf", !.at21 = 0],
          <<"secret", layer, index.tree, idx, i>> >> : i \in 1..Chains}
        \cup {<<[SetHash(SetChain(a, i - 1), k) EXCEPT !.type = "wots"],
                <<"chain", layer, index.tree, idx, i, k>> >> : i \in 1..Chains, k \in 0..(ChainEnd - 1)}
        \cup {<<SetKeypair(t.pkAddr, idx), <<"key", layer, index.tree, idx>> >>}
ForsCalls(t, idx) ==
  LET a == SetTreeIndex(t.leafAddr, idx + t.offset)
  IN  {<<SetType(a, "forsprf"), <<"forsSecret", index.tree, index.leaf, t.offset, idx>> >>,
       <<SetType(a, "forstree"), <<"forsLeaf", index.tree, index.leaf, t.offset, idx>> >>}
LeafCalls(t, idx) == IF t.of = "wots" THEN WotsCalls(t, idx) ELSE ForsCalls(t, idx)
NodeCalls(t, idx, top) ==
  {<<NodeAddr(t, h, idx),
     IF t.of = "wots" THEN <<"node", layer, index.tree, h, idx \div 2 ^ h>>
     ELSE <<"forsNode", index.tree, index.leaf, t.offset, h, idx \div 2 ^ h>> >> : h \in 1..top}

\* The new leaf and the nodes it completes.
Climb(t, idx, top) ==
  LET node[h \in 0..top] ==
        IF h = 0 THEN NewLeaf(t, idx) ELSE Thash(NodeAddr(t, h, idx), <<t.stack[h], node[h - 1]>>)
  IN  node

\* One leaf, joined with the left nodes waiting for it.
TreeLeaf ==
  /\ Running
  /\ LET t   == hashing
         idx == t.next
         top == ClimbEnd(idx, t.height)
         node == Climb(t, idx, top)
     IN  /\ hashing' = [t EXCEPT
              !.next  = idx + 1,
              !.stack = IF top = t.height THEN @
                        ELSE IF top < Len(@) THEN [@ EXCEPT ![top + 1] = node[top]] ELSE Append(@, node[top]),
              !.path  = [h \in 1..t.height |->
                           IF h - 1 <= top /\ (idx \div 2 ^ (h - 1)) # (t.leaf \div 2 ^ (h - 1))
                              /\ (idx \div 2 ^ h) = (t.leaf \div 2 ^ h)
                           THEN node[h - 1] ELSE @[h]],
              !.root  = IF top = t.height THEN node[top] ELSE @]
         /\ calls' = calls \cup LeafCalls(t, idx) \cup NodeCalls(t, idx, top)
  /\ UNCHANGED <<work, pubRoot, index, layer, digest, forest, signature, known, count>>

Finished(w) == work = w /\ hashing.root # Nothing

KeypairDone ==
  /\ Finished("keygen")
  /\ pubRoot' = hashing.root /\ work' = "keyed" /\ hashing' = Nothing
  /\ UNCHANGED <<index, layer, digest, forest, signature, known, calls, count>>

\* The bytes of a root: any, but always the same and not those of another root.
BytesOf(root, bytes) ==
  /\ bytes \in HashBytes
  /\ \A k \in known : k.root = root <=> k.bytes = bytes
Looked(root, bytes) == known' = known \cup {[root |-> root, bytes |-> bytes]}

\* hash_message: the digest, and the tree and leaf that sign it, cut to their bits.
IndexOf(d) == [tree |-> BytesToUll(d.tree) % 2 ^ (TreeHeight * (Layers - 1)),
               leaf |-> BytesToUll(d.leaf) % 2 ^ TreeHeight]

\* The address crypto_sign_signature gives to fors_sign, and those made from it.
ForsAddr(ix)   == CopyKeypair(NoAddr, SetKeypair(SetTree(NoAddr, ix.tree), ix.leaf))
ForsPkAddr(ix) == SetType(ForsAddr(ix), "forspk")
ForsIndex(d, t)   == MessageToIndices(d.fors)[t]
ForsOffset(t)     == (t - 1) * 2 ^ ForsHeight
ForsNode(d, ix, t) == SetNode(ForsAddr(ix), 0, ForsIndex(d, t) + ForsOffset(t))

ForsHash(d, ix, t) ==
  TreeHash("fors", ForsIndex(d, t), ForsOffset(t), ForsHeight, SetType(ForsNode(d, ix, t), "forstree"), ForsAddr(ix), Nothing)

Sign ==
  /\ work \in {"keyed", "accepted", "refused"} /\ count < MaxSigned
  /\ \E d \in Digests :
       /\ digest' = d /\ index' = IndexOf(d)
       /\ signature' = [NoSignature EXCEPT !.digest = d]
       /\ hashing' = ForsHash(d, IndexOf(d), 1)
  /\ work' = "fors" /\ layer' = 0 /\ forest' = <<>> /\ count' = count + 1
  /\ UNCHANGED <<pubRoot, known, calls>>

\* The loop of fors_sign: the secret and the path of the tree that is finished.
ForsSigned(t) == Append(signature.fors, [secret |-> ForsSecret(ForsNode(digest, index, t)), path |-> hashing.path])

NextForsTree ==
  /\ Finished("fors") /\ Len(forest) + 1 < ForsTrees
  /\ signature' = [signature EXCEPT !.fors = ForsSigned(Len(forest) + 1)]
  /\ forest' = Append(forest, hashing.root)
  /\ hashing' = ForsHash(digest, index, Len(forest) + 2)
  /\ UNCHANGED <<work, pubRoot, index, layer, digest, known, calls, count>>

\* The addresses of a layer.
TreeAddr(l, ix) == SetTree(SetLayer(NoAddr, l), ix.tree)
WotsAddr(l, ix) == SetKeypair(CopySubtree(NoAddr, TreeAddr(l, ix)), ix.leaf)

SignRoot(root, l, ix) ==
  \E bytes \in HashBytes :
    /\ BytesOf(root, bytes) /\ Looked(root, bytes)
    /\ forest' = <<root, bytes>>
    /\ hashing' = MerkleHash(TreeAddr(l, ix), WotsAddr(l, ix), ix.leaf)

ForestDone ==
  /\ Finished("fors") /\ Len(forest) + 1 = ForsTrees
  /\ signature' = [signature EXCEPT !.fors = ForsSigned(ForsTrees)]
  /\ SignRoot(Thash(ForsPkAddr(index), Append(forest, hashing.root)), 0, index)
  /\ calls' = calls \cup {<<ForsPkAddr(index), <<"forsKey", index.tree, index.leaf>> >>}
  /\ work' = "merkle"
  /\ UNCHANGED <<pubRoot, index, layer, digest, count>>

\* Up a layer: idx_leaf = tree & (2^height - 1), tree >>= height.
Above(ix) == [tree |-> ix.tree \div 2 ^ TreeHeight, leaf |-> ix.tree % 2 ^ TreeHeight]

\* The chains of the leaf that signs, each stopped at its digit, and its path.
MerkleSigned ==
  Append(signature.merkle,
    [chains |-> [i \in 1..Chains |-> WotsChain(SetKeypair(hashing.leafAddr, index.leaf), i, ChainLengths(forest[2])[i])],
     path |-> hashing.path])

NextLayer ==
  /\ Finished("merkle") /\ layer + 1 < Layers
  /\ signature' = [signature EXCEPT !.merkle = MerkleSigned]
  /\ SignRoot(hashing.root, layer + 1, Above(index))
  /\ index' = Above(index) /\ layer' = layer + 1
  /\ UNCHANGED <<work, pubRoot, digest, calls, count>>

SignDone ==
  /\ Finished("merkle") /\ layer + 1 = Layers
  /\ signature' = [signature EXCEPT !.merkle = MerkleSigned]
  /\ work' = "signed" /\ hashing' = Nothing /\ forest' = <<>>
  /\ UNCHANGED <<pubRoot, index, layer, digest, known, calls, count>>

\* crypto_sign_verify, of the message signed or of another: fors_pk_from_sig ...
ForsRoot(d, ix, t) ==
  LET a == SetType(ForsNode(d, ix, t), "forstree")
  IN  ComputeRoot(ForsLeaf(a, signature.fors[t].secret), ForsIndex(d, t), ForsOffset(t), signature.fors[t].path, a)

VerifyForest ==
  /\ work = "signed"
  /\ \E d \in Digests :
       /\ digest' = d /\ index' = IndexOf(d)
       /\ forest' = <<Thash(ForsPkAddr(IndexOf(d)), [t \in 1..ForsTrees |-> ForsRoot(d, IndexOf(d), t)])>>
  /\ work' = "verify" /\ layer' = 0
  /\ UNCHANGED <<pubRoot, hashing, signature, known, calls, count>>

\* ... then wots_pk_from_sig and compute_root in every layer ...
WotsPkFromSig(bytes, a) ==
  [i \in 1..Chains |->
     LET n == ChainLengths(bytes)[i]
     IN  GenChain(SetChain(SetType(a, "wots"), i - 1), signature.merkle[layer + 1].chains[i], n, ChainEnd - n)]

VerifyLayer ==
  /\ work = "verify" /\ layer < Layers
  /\ \E bytes \in HashBytes :
       /\ BytesOf(forest[1], bytes) /\ Looked(forest[1], bytes)
       /\ LET a    == WotsAddr(layer, index)
              pk   == CopyKeypair(SetType(NoAddr, "wotspk"), a)
              leaf == Thash(pk, WotsPkFromSig(bytes, a))
          IN  forest' = <<ComputeRoot(leaf, index.leaf, 0, signature.merkle[layer + 1].path,
                                      SetType(TreeAddr(layer, index), "hashtree"))>>
  /\ index' = Above(index) /\ layer' = layer + 1
  /\ UNCHANGED <<work, pubRoot, hashing, digest, signature, calls, count>>

\* ... and the comparison with the public root.
Compare ==
  /\ work = "verify" /\ layer = Layers
  /\ work' = IF forest[1] = pubRoot THEN "accepted" ELSE "refused"
  /\ UNCHANGED <<pubRoot, hashing, index, layer, digest, forest, signature, known, calls, count>>

SlhNext ==
  \/ SeedKeypair \/ TreeLeaf \/ KeypairDone \/ Sign \/ NextForsTree \/ ForestDone \/ NextLayer \/ SignDone
  \/ VerifyForest \/ VerifyLayer \/ Compare

SlhSpec == SlhInit /\ [][SlhNext]_slhVars
-----------------------------------------------------------------------------
SameMessage == IndexOf(digest) = IndexOf(signature.digest)
                 /\ MessageToIndices(digest.fors) = MessageToIndices(signature.digest.fors)

\* What crypto_sign_signature returns, crypto_sign_verify accepts for the message that was
\* signed and for no other, through trees built leaf by leaf and paths climbed from below;
\* and a root that a one-time key signs gives away, in no layer, all that signing another needs.
SlhVerifies ==
  /\ work = "accepted" => SameMessage
  /\ work = "refused" => ~SameMessage
  /\ work = "merkle" => \A other \in HashBytes \ {forest[2]} :
       \E i \in 1..Chains : ChainLengths(other)[i] < ChainLengths(forest[2])[i]

\* "unrelated types of hashes don't accidentally get the same address structure"
\* (address.c:22-24): the address of a hash says what it is for, with a field too few bytes
\* wide or a byte left over from the call before.
AddressesApart ==
  /\ Cardinality({c[1] : c \in calls}) = Cardinality(calls)
  /\ Cardinality({c[2] : c \in calls}) = Cardinality(calls)
=============================================================================
