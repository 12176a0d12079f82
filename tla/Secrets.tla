------------------------------ MODULE Secrets ------------------------------
(***************************************************************************)
(* How secrets are stored (backend/src/libs/crypto.rs).                    *)
(*                                                                         *)
(* A byte is the set of its one bits, so that XOR is the symmetric         *)
(* difference.  SHA-256 is any function to a non-empty digest; of UTF-8    *)
(* the model keeps that some bytes occur in no text.  What may fail is the *)
(* set of its results: empty for an error or for None.                     *)
(***************************************************************************)
EXTENDS Integers, Sequences

CONSTANTS
    Bits,         \* the positions of a byte: 0 .. 7 in the code
    Keys,         \* master keys: the values of secret_key
    DefaultKey,   \* "development-secret-change-me"
    Digest,       \* the SHA-256 digest of each of them
    TextBytes     \* the bytes that may stand in a text

Byte == SUBSET Bits

ASSUME SecretsAssumption ==
    /\ DefaultKey \in Keys
    /\ TextBytes \subseteq Byte
    /\ Digest \in [Keys -> Seq(Byte) \ {<<>>}]

Text == Seq(TextBytes)

Xor(a, b) == (a \ b) \cup (b \ a)

(* Each byte is combined with one of the digest, which is used in a circle.*)
Masked(key, bytes) ==
    [i \in DOMAIN bytes |-> Xor(bytes[i], Digest[key][((i - 1) % Len(Digest[key])) + 1])]

(* Variant: the digest is used from its second byte on.                    *)
MaskedFromOne(key, bytes) ==
    [i \in DOMAIN bytes |-> Xor(bytes[i], Digest[key][(i % Len(Digest[key])) + 1])]

EncryptSecret(key, plaintext) == [base64 |-> Masked(key, plaintext)]

(* Variant: the digest runs one byte ahead of the one encryption used.     *)
DecryptSecretShifted(key, ciphertext) ==
    {t \in {MaskedFromOne(key, ciphertext.base64)} : t \in Text}

(* What was encrypted here always decodes from base64; the bytes must be a *)
(* text.  Nothing else tells that the key is not the one of encryption.    *)
DecryptSecret(key, ciphertext) ==
    {t \in {Masked(key, ciphertext.base64)} : t \in Text}

=============================================================================
