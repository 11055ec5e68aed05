------------------------------- MODULE Ledger -------------------------------
(***************************************************************************)
(* What every part of the system may rely on about the chain: the verifier *)
(* key is set once, entries are only added, and an entry is added only     *)
(* with a signature of that key.  The program implements it, and so do the *)
(* clients' and the whole system's simpler views of the program.           *)
(***************************************************************************)
CONSTANT NoKey   (* no verifier key is set                                  *)

VARIABLES
  key,       (* the verifier key, or NoKey                                  *)
  entries,   (* identifiers of the stored claims                            *)
  attested   (* pairs <<key, identifier>> for which a signature exists      *)

vars == <<key, entries, attested>>

Init == key = NoKey /\ entries = {}

Attest ==
  /\ attested \subseteq attested'
  /\ UNCHANGED <<key, entries>>

Publish ==
  /\ key' # key => key = NoKey
  /\ entries \subseteq entries'
  /\ \A id \in entries' \ entries : <<key', id>> \in attested
  /\ UNCHANGED attested

Spec == Init /\ [][Attest \/ Publish]_vars
=============================================================================
