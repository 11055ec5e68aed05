---------------------------- MODULE Notarization ----------------------------
(***************************************************************************)
(* What a call of notarize promises its caller: it ends at most once, and  *)
(* returns nothing but a session that the notary has attested.  The notary *)
(* may attest a session whose caller has given up; it never attests one    *)
(* that the caller must not get.                                           *)
(***************************************************************************)
CONSTANTS
  Acceptable,   (* sessions of the asked-for server that a caller may get   *)
  Pending,      (* the call has not returned                                *)
  Failed        (* the call has returned an error                           *)

VARIABLES
  outcome,      (* Pending, Failed or the session that was returned         *)
  attested      (* sessions the notary has signed                           *)

vars == <<outcome, attested>>

Init == outcome = Pending /\ attested = {}

Attest ==
  /\ \E s \in Acceptable : attested' = attested \cup {s}
  /\ UNCHANGED outcome

Return ==
  /\ outcome = Pending
  /\ outcome' \in attested
  /\ UNCHANGED attested

GiveUp ==
  /\ outcome = Pending
  /\ outcome' = Failed
  /\ UNCHANGED attested

Next == Attest \/ Return \/ GiveUp

Spec == Init /\ [][Next]_vars
=============================================================================
