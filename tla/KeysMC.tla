------------------------------- MODULE KeysMC -------------------------------
(***************************************************************************)
(* The numbers and keys of the address generator: seven components that do   *)
(* not interact, checked in one run.  part says which one takes steps; the *)
(* variables of the others keep one value.                                 *)
(***************************************************************************)
EXTENDS Bignum, Vli, MicroEcc, Bip32, Nonce, Ed25519

VARIABLE part

keysVars == <<part, bnVars, vliVars, eccVars, ecVars, bipVars, nonceVars, edVars>>

\* Bytes of three bits, for Ed25519.
EdPattern(length, a, b, c) == [i \in 1..length |-> (a * i * i + b * i + c) % 8]

Idle == [at |-> "idle"]

BnIdle == bnX = 0 /\ bnY = 1 /\ bnLoop = Idle
VliIdle == left = 0 /\ right = 1 /\ modulus = 131 /\ vliLoop = Idle
EccIdle == eccKey = 2 /\ eccPoint = EccG /\ eccZ = 1 /\ ecc = Idle
EcIdle == ecScalar = 0 /\ ecPoint = EcG /\ ecWork = Idle
IdleNode == FromSeed(3, "secp256k1")
IdleWatch == Neutered(IdleNode)
BipIdle == bipNode = IdleNode /\ bipWatch = IdleWatch /\ bipCache = EmptyCache /\ bipAnswer = <<>>
NonceIdle == /\ nonceBy = "ecdsa" /\ nonceMem = EcdsaStart /\ nonceTry = 0 /\ nonceOut = <<>>
             /\ randBound = 1
EdIdle == /\ edSecret = EdPattern(8, 0, 0, 0) /\ edHashR = EdPattern(16, 0, 0, 0)
          /\ edHram = edHashR /\ EdInit

KeysInit ==
  \/ part = "bignum" /\ BnInit /\ VliIdle /\ EccIdle /\ EcIdle /\ BipIdle /\ NonceIdle /\ EdIdle
  \/ part = "vli" /\ BnIdle /\ VliInit /\ EccIdle /\ EcIdle /\ BipIdle /\ NonceIdle /\ EdIdle
  \/ part = "uecc" /\ BnIdle /\ VliIdle /\ EccInit /\ EcIdle /\ BipIdle /\ NonceIdle /\ EdIdle
  \/ part = "ecdsa" /\ BnIdle /\ VliIdle /\ EccIdle /\ EcInit /\ BipIdle /\ NonceIdle /\ EdIdle
  \/ part = "bip32" /\ BnIdle /\ VliIdle /\ EccIdle /\ EcIdle /\ BipInit /\ NonceIdle /\ EdIdle
  \/ part = "nonce" /\ BnIdle /\ VliIdle /\ EccIdle /\ EcIdle /\ BipIdle /\ NonceInit /\ EdIdle
  \/ part = "ed25519" /\ BnIdle /\ VliIdle /\ EccIdle /\ EcIdle /\ BipIdle /\ NonceIdle /\ EdInit

KeysNext ==
  /\ UNCHANGED part
  /\ \/ part = "bignum" /\ BnNext /\ UNCHANGED <<vliVars, eccVars, ecVars, bipVars, nonceVars, edVars>>
     \/ part = "vli" /\ VliNext /\ UNCHANGED <<bnVars, eccVars, ecVars, bipVars, nonceVars, edVars>>
     \/ part = "uecc" /\ EccNext /\ UNCHANGED <<bnVars, vliVars, ecVars, bipVars, nonceVars, edVars>>
     \/ part = "ecdsa" /\ EcNext /\ UNCHANGED <<bnVars, vliVars, eccVars, bipVars, nonceVars, edVars>>
     \/ part = "bip32" /\ BipNext /\ UNCHANGED <<bnVars, vliVars, eccVars, ecVars, nonceVars, edVars>>
     \/ part = "nonce" /\ NonceNext /\ UNCHANGED <<bnVars, vliVars, eccVars, ecVars, bipVars, edVars>>
     \/ part = "ed25519" /\ EdNext /\ UNCHANGED <<bnVars, vliVars, eccVars, ecVars, bipVars, nonceVars>>

KeysSpec == KeysInit /\ [][KeysNext]_keysVars

\* Both curve codes, uECC.c and ecdsa.c, compute the group of their curve: multiples,
\* keys, signatures and what is recovered from them are those of its definition.
CurvesFollowTheGroup == UeccFollowsTheGroup /\ EcdsaFollowsTheGroup

----------------------------------------------------------------------------
(* Values of the constants.                                                 *)

BnSamples ==
  {0, 1, 2, 3, 31, 63, 64, 32760, 32761, 65535, 65536}
    \cup {BnPrime - 1, BnPrime, BnPrime + 1, 2 * BnPrime - 2, 2 * BnPrime - 1}
    \cup {(k * 50021) % (2 * BnPrime) : k \in 1..20}
VliNumbers ==
  0..20 \cup {31, 47, 64, 112, 127, 128, 129, 130, 143, 175, 208, 239, 240, 241, 242, 248, 249, 250}

\* y^2 = x^3 + 29 over 127, with 109 points; y^2 = x^3 - 3x + 56 over 251, with 239:
\* a point, its double and 77 times it.
UeccG == <<1, 41>>
UeccPoints == {<<1, 41>>, <<33, 122>>, <<83, 58>>}
EcdsaA == -3
EcdsaG == <<2, 73>>
EcdsaPoints == {<<2, 73>>, <<71, 62>>, <<57, 51>>}
EcdsaScalars == 0..18 \cup {33, 34} \cup 118..122 \cup {200, 201} \cup 219..238
\* No bit, every bit, one bit of every byte, and others.
EdSecretSet == {EdPattern(8, 0, 0, 0), EdPattern(8, 0, 0, 7), EdPattern(8, 0, 0, 4),
                EdPattern(8, 1, 3, 2), EdPattern(8, 0, 1, 5), EdPattern(8, 2, 1, 0)}
EdHashSet == {EdPattern(16, 0, 0, 0), EdPattern(16, 0, 0, 7), EdPattern(16, 0, 0, 4), EdPattern(16, 0, 1, 0),
              EdPattern(16, 1, 2, 1), EdPattern(16, 0, 3, 2), EdPattern(16, 3, 1, 5), EdPattern(16, 1, 1, 1)}
=============================================================================
