------------------------------- MODULE Bip32 -------------------------------
(***************************************************************************)
(* bip32.c: a tree of keys.  A child is derived from the private node, or  *)
(* from the public one when its index is not hardened; a path is derived   *)
(* through a cache of parents; a node is written as text and read back.    *)
(*                                                                         *)
(* The keys are those of Ecdsa.  HMAC-SHA512 is an external function of    *)
(* small numbers that does, now and then, return a left half which is no   *)
(* key, so that the derivation must be tried again.                        *)
(***************************************************************************)
EXTENDS Ecdsa

CONSTANTS BipHard,        \* indices from here on are hardened: 2^31 in the code
          BipIndices,     \* bound: the indices that are derived
          BipChains,      \* values of a chain code
          BipSeeds,       \* bound: the seeds of the private node
          BipRoots,       \* bound: the seeds of the roots of cached derivations
          BipPathIndices, \* bound: the indices in their paths
          BipCacheSize,   \* nodes in the cache: 10 in the code
          BipCacheDepth,  \* longest path of a cached node: 8 in the code
          BipDepthBytes,  \* the depth is written modulo this: 256 in the code
          BipMaxDepth     \* bound: derivations from one master

VARIABLES bipNode,   \* a private node
          bipWatch,  \* the public node that follows it
          bipCache,  \* the static cache of hdnode_private_ckd_cached
          bipAnswer  \* what it answered last

bipVars == <<bipNode, bipWatch, bipCache, bipAnswer>>

NoPub == <<0, 0>>
Hardened(i) == i >= BipHard

\* hmac_sha512 (external): the key, and the data as its first byte, 32 bytes and an index.
BipHmac(chain, data) ==
  LET h == 151 * chain + 89 * data[1] + 47 * data[2] + 13 * data[3]
  IN [il |-> (37 * h + 11) % 2^EcBits, ir |-> (5 * h + 3) % BipChains]

\* ed25519 has no curve parameters; its public key is external.
HasParams(node) == node.curve = "secp256k1"

\* hdnode_fill_public_key
FillPublicKey(node) ==
  IF node.pub[1] # 0 THEN node
  ELSE [node EXCEPT !.pub = IF HasParams(node) THEN PublicKey33(node.priv) ELSE <<1, node.priv>>]

\* hdnode_from_seed: again until the left half is a key, except for ed25519.
RECURSIVE SeedTried(_, _, _)
SeedTried(name, data, params) ==
  LET I == BipHmac(name, data)
  IN IF params /\ ~InRange(I.il) THEN SeedTried(name, <<I.il, I.ir, 0>>, params) ELSE I
FromSeed(seed, curve) ==
  LET I == SeedTried(IF curve = "ed25519" THEN 1 ELSE 2, <<seed, 0, 0>>, curve # "ed25519")
  IN [curve |-> curve, depth |-> 0, child |-> 0, chain |-> I.ir, priv |-> I.il, pub |-> NoPub]

----------------------------------------------------------------------------
\* The loop of hdnode_private_ckd: the tweak is added to the key a; one that is no
\* number below the order, or that makes the key 0, is replaced by a hash of the right half.
RECURSIVE PrivateTweaked(_, _, _)
PrivateTweaked(chain, data, a) ==
  LET I == BipHmac(chain, data)
      b == (I.il + a) % EcN
  IN IF I.il >= EcN \/ b = 0 THEN PrivateTweaked(chain, <<1, I.ir, data[3]>>, a)
     ELSE [key |-> b, chain |-> I.ir]

\* The result of a derivation: whether it succeeded, and the node as it is left.
Derived(ok, node) == [ok |-> ok, node |-> node]

\* The key and the chain code of child i; without curve parameters the halves are taken.
Halves(I) == [key |-> I.il, chain |-> I.ir]
ChildData(node, i) ==
  IF Hardened(i) THEN <<0, node.priv, i>> ELSE FillPublicKey(node).pub \o <<i>>
ChildTweak(node, data) ==
  IF HasParams(node) THEN PrivateTweaked(node.chain, data, node.priv)
  ELSE Halves(BipHmac(node.chain, data))

\* The node becomes its child i.
Descended(node, i, priv, pub, chain) ==
  [node EXCEPT !.priv = priv, !.pub = pub, !.chain = chain, !.depth = @ + 1, !.child = i]
PrivateChild(node, i, t) == Descended(node, i, t.key, NoPub, t.chain)

\* hdnode_private_ckd
PrivateCkd(node, i) ==
  IF ~Hardened(i) /\ ~HasParams(node) THEN Derived(FALSE, node)
  ELSE Derived(TRUE, PrivateChild(node, i, ChildTweak(node, ChildData(node, i))))

\* Mutant of PublicTweaked: the same data is hashed with the right half as its key.
RECURSIVE PublicTweakedChained(_, _, _)
PublicTweakedChained(chain, data, a) ==
  LET I == BipHmac(chain, data)
      b == PointAdd(a, ScalarMultiply(I.il))
  IN IF I.il >= EcN THEN PublicTweakedChained(I.ir, data, a)
     ELSE IF b = EcInfinity THEN PublicTweakedChained(I.ir, data, a)
     ELSE [key |-> b, chain |-> I.ir]

\* The loop of hdnode_public_ckd: the same on points.
RECURSIVE PublicTweaked(_, _, _)
PublicTweaked(chain, data, a) ==
  LET I == BipHmac(chain, data)
      b == PointAdd(a, ScalarMultiply(I.il))
  IN IF I.il >= EcN THEN PublicTweaked(chain, <<1, I.ir, data[3]>>, a)
     ELSE IF b = EcInfinity THEN PublicTweaked(chain, <<1, I.ir, data[3]>>, a)
     ELSE [key |-> b, chain |-> I.ir]

\* hdnode_public_ckd: the private key is wiped before the public one is looked at.
PublicCkd(node, i) ==
  LET a == ReadPubkey(node.pub)
      t == PublicTweaked(node.chain, node.pub \o <<i>>, a)
  IN IF Hardened(i) \/ ~HasParams(node) THEN Derived(FALSE, node)
     ELSE IF a = EcInfinity THEN Derived(FALSE, [node EXCEPT !.priv = 0])
     ELSE Derived(TRUE, Descended(node, i, 0, Compressed(t.key), t.chain))

\* hdnode_public_ckd_address_optimized: the child's key alone.
PublicCkdAddress(node, i) ==
  Compressed(PublicTweaked(node.chain, node.pub \o <<i>>, ReadPubkey(node.pub)).key)

\* Down a path, as long as the derivations succeed.
PathCkd(node, path) ==
  FoldLeft(LAMBDA d, i : IF d.ok THEN PrivateCkd(d.node, i) ELSE d, Derived(TRUE, node), path)

----------------------------------------------------------------------------
(* The cache: the parents of the last paths from one root.                 *)

EmptySlot == [set |-> FALSE]
EmptyCache == [root |-> <<>>, index |-> 0, slots |-> [j \in 0..BipCacheSize - 1 |-> EmptySlot]]

\* Mutant of CacheHits: the depth is not compared.
CacheHitsAtAnyDepth(slot, path) ==
  slot.set /\ \A k \in 1..Len(path) - 1 : k > Len(slot.path) \/ slot.path[k] = path[k]

CacheHits(slot, path) == slot.set /\ slot.path = SubSeq(path, 1, Len(path) - 1)

\* hdnode_private_ckd_cached: a root that is not, byte for byte, the last one clears the
\* cache; the parent is found in it, or derived and saved in the next slot.
CachedCkd(cache, node, path) ==
  LET same == cache.root = <<node>>
      kept == IF same THEN cache ELSE [EmptyCache EXCEPT !.root = <<node>>]
      hits == {j \in 0..BipCacheSize - 1 : same /\ CacheHits(cache.slots[j], path)}
      parentPath == SubSeq(path, 1, Len(path) - 1)
      first == CHOOSE j \in hits : \A k \in hits : j <= k
      parent == IF hits # {} THEN Derived(TRUE, cache.slots[first].node) ELSE PathCkd(node, parentPath)
      saved == [kept EXCEPT !.slots[kept.index] = [set |-> TRUE, path |-> parentPath, node |-> parent.node],
                            !.index = (@ + 1) % BipCacheSize]
      last == PrivateCkd(parent.node, path[Len(path)])
  IN IF Len(path) = 0 THEN [cache |-> cache, answer |-> Derived(TRUE, node)]
     ELSE IF Len(path) = 1 THEN [cache |-> cache, answer |-> PrivateCkd(node, path[1])]
     ELSE IF ~parent.ok THEN [cache |-> kept, answer |-> parent]
     ELSE [cache |-> IF hits # {} THEN kept ELSE saved, answer |-> last]

----------------------------------------------------------------------------
(* Text: version, depth in one byte, fingerprint, index, chain code, key;  *)
(* Base58 carries the bytes.                                               *)

\* hdnode_serialize
Serialize(node, fingerprint, public) ==
  <<IF public THEN "xpub" ELSE "xprv", node.depth % BipDepthBytes, fingerprint, node.child, node.chain>>
    \o (IF public THEN node.pub ELSE <<0, node.priv>>)

\* Mutant of Deserialize: the fingerprint is read as the index.
DeserializeShifted(text) ==
  [curve |-> "secp256k1", depth |-> text[2], child |-> text[3], chain |-> text[5],
   priv |-> IF text[1] = "xprv" THEN text[7] ELSE 0,
   pub |-> IF text[1] = "xpub" THEN <<text[6], text[7]>> ELSE NoPub]

\* hdnode_deserialize
Deserialize(text) ==
  [curve |-> "secp256k1", depth |-> text[2], child |-> text[4], chain |-> text[5],
   priv |-> IF text[1] = "xprv" THEN text[7] ELSE 0,
   pub |-> IF text[1] = "xpub" THEN <<text[6], text[7]>> ELSE NoPub]

----------------------------------------------------------------------------
Masters == {FromSeed(s, c) : s \in BipRoots, c \in {"secp256k1", "ed25519"}}
             \union {FillPublicKey(FromSeed(s, "secp256k1")) : s \in BipRoots}
Neutered(node) == [FillPublicKey(node) EXCEPT !.priv = 0]

BipInit ==
  /\ bipNode \in {FromSeed(s, "secp256k1") : s \in BipSeeds}
  /\ bipWatch = Neutered(bipNode)
  /\ bipCache = EmptyCache /\ bipAnswer = <<>>

\* A child of the private node, and the same child of the node that watches it; after
\* a hardened child the watching node is told its public key.
BipDerive ==
  /\ bipAnswer = <<>> /\ bipNode.depth < BipMaxDepth
  /\ \E i \in BipIndices :
       /\ bipNode' = PrivateCkd(bipNode, i).node
       /\ bipWatch' = IF Hardened(i) THEN Neutered(bipNode') ELSE PublicCkd(bipWatch, i).node
  /\ UNCHANGED <<bipCache, bipAnswer>>

\* The private node is written and read back, as a backup.
BipRestore ==
  /\ bipAnswer = <<>>
  /\ bipNode' = Deserialize(Serialize(bipNode, 0, FALSE))
  /\ UNCHANGED <<bipWatch, bipCache, bipAnswer>>

\* A call of hdnode_private_ckd_cached.
BipCached ==
  /\ bipNode = FromSeed(CHOOSE s \in BipSeeds : TRUE, "secp256k1")
  /\ \E root \in Masters, n \in 1..BipCacheDepth + 1 : \E path \in [1..n -> BipPathIndices] :
       \E c \in {CachedCkd(bipCache, root, path)} :
         /\ bipCache' = c.cache
         /\ bipAnswer' = <<root, path, c.answer>>
  /\ UNCHANGED <<bipNode, bipWatch>>

BipNext == BipDerive \/ BipRestore \/ BipCached

----------------------------------------------------------------------------
\* A public node derives, without the private key, the public keys of the private one's
\* children, with their chain codes: also when the first tweaks are refused, when
\* the private node has been written and read back, and after hardened steps.
WatchFollowsKeys ==
  /\ bipWatch = Neutered(bipNode)
  /\ \A i \in BipIndices : ~Hardened(i) =>
       PublicCkdAddress(bipWatch, i) = Neutered(PrivateCkd(bipNode, i).node).pub

\* Whatever was asked before, from this root or another one, a cached derivation
\* answers what the derivation itself does.
CacheIsTransparent ==
  bipAnswer # <<>> => bipAnswer[3] = PathCkd(bipAnswer[1], bipAnswer[2])

\* A node that was written and read is the node, with the half that its version has.
TextKeepsNodes ==
  /\ Deserialize(Serialize(bipWatch, 1, TRUE)) = bipWatch
  /\ Deserialize(Serialize(bipNode, 1, FALSE)) = [bipNode EXCEPT !.pub = NoPub]

\* A node of the tree is the same whichever way it was derived: with or without the
\* private key, through the cache or past it, through its text or not (bip32.c).
TreeIsOne == WatchFollowsKeys /\ CacheIsTransparent /\ TextKeepsNodes
=============================================================================
