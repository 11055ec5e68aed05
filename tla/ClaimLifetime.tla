---------------------------- MODULE ClaimLifetime ---------------------------
(***************************************************************************)
(* One claim, seen by both copies of the validation rule while the clock   *)
(* runs from one end of i64 to the other.                                  *)
(***************************************************************************)
EXTENDS Claim

CONSTANTS
  ClaimInputs,   (* the claims considered                                   *)
  MaxAges,       (* values of config.max_claim_age_seconds                  *)
  Times          (* the instants at which the clock is read                 *)

ASSUME InputAssumption ==
  /\ ClaimInputs \subseteq ClaimV1
  /\ MaxAges \subseteq 1 .. I64Max
  /\ Times \subseteq I64

VARIABLES
  claim,     (* the claim under validation                                  *)
  max_age,   (* the configured maximum age                                  *)
  now        (* unix time                                                   *)

vars == <<claim, max_age, now>>

core == validate(claim, now, max_age)
chain == validate_claim(claim, now, max_age)

Init ==
  /\ claim \in ClaimInputs
  /\ max_age \in MaxAges
  /\ now \in Times

Tick ==
  /\ now' \in Times
  /\ now' > now
  /\ UNCHANGED <<claim, max_age>>

Next == Tick

Spec == Init /\ [][Next]_vars /\ WF_vars(Tick)

-----------------------------------------------------------------------------
(* The variables keep the types of the Rust declarations.                  *)
TypeOK == claim \in ClaimInputs /\ max_age \in MaxAges /\ now \in Times

(* The error the program reports for each error of webproof-core.          *)
OnChainName ==
  [Version |-> "InvalidVersion", Length |-> "InvalidLength",
   TimeWindow |-> "InvalidTimeWindow", Expired |-> "Expired",
   Future |-> "Future", TooOld |-> "TooOld", Ok |-> "Ok"]

(* The two hand-written copies of the rule give the same verdict on every  *)
(* input: the verifier never signs what the program would refuse at the    *)
(* same instant and under the same maximum age, and conversely.            *)
CopiesAgree == chain = OnChainName[core]

(* The saturating arithmetic of the code decides exactly what the same     *)
(* rule says over unbounded integers, at both ends of i64.                 *)
SaturationIsExact == chain = "Ok" <=> Usable(claim, now, max_age)

Stale == chain \in {"Expired", "TooOld"}

(* A claim rejected as expired or as too old is never accepted later, and  *)
(* never reported as issued in the future, however far the clock runs.     *)
StaleForever == [][Stale => Stale']_vars

(* Claims always expire: a claim whose expiry lies before the last second  *)
(* of i64 is in the end rejected for good.                                 *)
ClaimsAlwaysExpire ==
  claim.expires_at < I64Max ~> [](chain # "Ok")
=============================================================================
