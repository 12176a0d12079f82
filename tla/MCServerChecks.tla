--------------------------- MODULE MCServerChecks ---------------------------
(* A small instance of ServerChecks for TLC.                               *)
EXTENDS ServerChecks, TLC

CONSTANTS k1, k2

(* Bytes of two bits; the one with both bits set occurs in no text.        *)
MCTextBytes == (SUBSET {0, 1}) \ {{0, 1}}
MCMark == {0}

(* Digests of two bytes.                                                   *)
MCDigest == (k1 :> << {0}, {} >>) @@ (k2 :> << {0}, {1} >>)

(* A key longer than the digest, which the other key turns into another    *)
(* text; a short one with a passphrase that the other key cannot decrypt;  *)
(* and two payloads that are refused.                                      *)
MCPayloads ==
    {[public_key |-> "ssh-", private_key |-> << {0}, {}, {0} >>, private_key_passphrase |-> {}],
     [public_key |-> "ssh-", private_key |-> << {0} >>, private_key_passphrase |-> {<< {}, {0} >>}],
     [public_key |-> "rsa", private_key |-> << {0} >>, private_key_passphrase |-> {}],
     [public_key |-> "ssh-", private_key |-> << {1} >>, private_key_passphrase |-> {}]}

=============================================================================
