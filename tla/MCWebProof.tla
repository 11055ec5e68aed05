----------------------------- MODULE MCWebProof -----------------------------
(***************************************************************************)
(* Two claims, two verifier keys, a message of another protocol that       *)
(* carries the bytes of a claim, and one header of every shape the program *)
(* must tell apart.                                                        *)
(***************************************************************************)
EXTENDS WebProof, TLC

CONSTANTS b1, b2

MCI64Max == 1000
MCStrings == {"host", "key", "value"}
MCLen == [s \in MCStrings |-> 9]
MCBytes32 == {b1, b2}

Claim1 == [version |-> 1, source_host |-> "host", request_path_hash |-> b1,
           claim_key |-> "key", claim_value |-> "value", issued_at |-> 30,
           expires_at |-> 36, nonce |-> b1, provenance_hash |-> b1]
Claim2 == [Claim1 EXCEPT !.issued_at = 31, !.expires_at = 34, !.nonce = b2]

MCClaims == {Claim1, Claim2}
MCMessages == {signing_message(Claim1), signing_message(Claim2),
               <<"ANOTHER_PROTOCOL", canonical_bytes(Claim1)>>}

(* Claim1 is in the future at -1, usable at 0 and 34, too old at 35;       *)
(* Claim2 is in the future at 0, in its last second at 34, expired at 35.  *)
MCTimes == {-1, 0, 34, 35}
MCMaxAges == {0, 4}

Honest == [num |-> 1, sig_ix |-> "this", key_ix |-> "this", msg_ix |-> "this"]
MCHeaders == {Honest, [Honest EXCEPT !.num = 0], [Honest EXCEPT !.num = 2],
              [Honest EXCEPT !.sig_ix = "other"], [Honest EXCEPT !.key_ix = "other"],
              [Honest EXCEPT !.msg_ix = "other"]}

(* Nothing in the program tells two keys or two wallets apart.             *)
Symmetry == Permutations(Keys) \cup Permutations(Accounts)
=============================================================================
