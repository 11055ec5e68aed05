--------------------------- MODULE MCClaimLifetime --------------------------
EXTENDS ClaimLifetime

CONSTANTS b1

MCI64Max == 100
MCStrings == {"empty", "one", "s128", "s129", "s256", "s257"}
MCLen == [s \in MCStrings |->
            CASE s = "empty" -> 0 [] s = "one" -> 1 [] s = "s128" -> 128
              [] s = "s129" -> 129 [] s = "s256" -> 256 [] s = "s257" -> 257]

(* Every pair of interesting instants with fields of ordinary length, and  *)
(* every boundary of the lengths and of the version with ordinary times.   *)
Instants == {-101, -100, -71, -31, -1, 0, 1, 30, 70, 71, 99, 100}
Base == [version |-> 1, source_host |-> "s128", request_path_hash |-> b1,
         claim_key |-> "s128", claim_value |-> "s256", issued_at |-> 0,
         expires_at |-> 70, nonce |-> b1, provenance_hash |-> b1]
MCClaimInputs ==
  {[Base EXCEPT !.issued_at = i, !.expires_at = e] : i, e \in Instants}
  \cup {[Base EXCEPT !.version = v] : v \in {0, 1, 2, 255}}
  \cup {[Base EXCEPT !.source_host = s] : s \in MCStrings}
  \cup {[Base EXCEPT !.claim_key = s] : s \in MCStrings}
  \cup {[Base EXCEPT !.claim_value = s] : s \in MCStrings}
MCBytes32 == {b1}
MCMaxAges == {1, 70, 99, 100}
MCTimes == Instants \cup {-30, 31, 69, 98}
=============================================================================
