------------------------------- MODULE System -------------------------------
(***************************************************************************)
(* The whole pipeline, as the demo command runs it: webproof-notarize,     *)
(* then webproof-verify-sign if that succeeded, then the transactions for  *)
(* whatever signed-claim.json holds by then.  Several demos share the      *)
(* artifact directory and the chain; each is at once a run of ArtifactDir's*)
(* two programs and a command of Client.                                   *)
(***************************************************************************)
EXTENDS ArtifactDir

CONSTANTS
  MaxSafe,   (* as in Sdk                                                   *)
  NoKey,     (* as in Client                                                *)
  Window     (* as in Client                                                *)

Demos == Provers

(* A demo is one run of each program.  NoKey is the seed of no key pair.   *)
ASSUME SystemAssumption == Verifiers = Provers /\ NoKey \notin SignerSeeds

VARIABLES
  config,   (* as in Client                                                 *)
  stored,
  stale,
  run

dirVars == <<files, prover, verifier, signed>>
clientVars == <<config, stored, stale, run>>
systemVars == <<dirVars, clientVars>>

C == INSTANCE Client WITH
       Runs <- Demos, Files <- {}, Unreadable <- Torn, config <- config,
       stored <- stored, stale <- stale, run <- run

SystemInit == Init /\ C!Init

-----------------------------------------------------------------------------
RunNotarize(d) ==
  /\ ProverStep(d) \/ ProverExit(d)
  /\ UNCHANGED clientVars

(* demo that goes on although webproof-notarize has failed.                *)
RunVerifySign_unchecked(d) ==
  /\ prover[d].step \in {Done, Exited}
  /\ VerifierStep(d) \/ VerifierKilled(d)
  /\ UNCHANGED clientVars

(* runRust throws when a program fails: the next one is not started.       *)
RunVerifySign(d) ==
  /\ prover[d].step = Done
  /\ VerifierStep(d) \/ VerifierKilled(d)
  /\ UNCHANGED clientVars

ReadSignedClaim(d) ==
  /\ run[d].pc = "start"
  /\ verifier[d].pc = "done"
  /\ C!Begin(d, "demo", IF Readable("signed_claim") THEN files["signed_claim"] ELSE Torn)
  /\ UNCHANGED <<dirVars, config, stored, stale>>

Submit(d) ==
  /\ C!Progress(d) \/ C!Interrupted(d)
  /\ UNCHANGED dirVars

(* The chain: transactions land, blocks are produced, claims expire.       *)
Chain ==
  /\ C!NewBlock \/ \E d \in Demos : C!Land(d) \/ C!ClaimExpires(d)
  /\ UNCHANGED dirVars

SystemNext ==
  \/ \E d \in Demos :
       RunNotarize(d) \/ RunVerifySign(d) \/ ReadSignedClaim(d) \/ Submit(d)
  \/ Chain

SystemSpec == SystemInit /\ [][SystemNext]_systemVars

-----------------------------------------------------------------------------
(* From the TLS session to the account: however demos overlap, crash and   *)
(* race, every stored claim is what some run signed with the configured    *)
(* key, field by field, and it is true of a genuine session with an        *)
(* allowed host.                                                           *)
StoredClaimsGenuine ==
  \A data \in stored : \E s \in signed :
    /\ C!Shows(C!decodeVerifiedClaim(data), s.file.claim)
    /\ s.file.verifier_public_key = config
    /\ Attested(s.file.claim)

(* No other demo has got anywhere yet.                                     *)
Alone(d) == \A e \in Demos \ {d} : prover[e].step = 0

(* A demo that ends well, and is alone, has stored a claim about the very  *)
(* session that its own run of webproof-notarize has authenticated, never  *)
(* about a leftover of an earlier run.                                     *)
DemoStoresOwn ==
  \A d \in Demos : run[d].pc = "ok" /\ Alone(d) =>
    /\ prover[d].step = Done
    /\ \E data \in stored :
         Preimage(C!decodeVerifiedClaim(data).provenanceHash).session
           = prover[d].artifact.session

-----------------------------------------------------------------------------
(* Why that is so, as one inductive invariant.  A demo runs its programs   *)
(* one after the other.                                                    *)
InOrder ==
  /\ \A d \in Demos :
       /\ verifier[d].pc # "start" => prover[d].step = Done
       /\ run[d].pc # "start" => verifier[d].pc = "done"
  /\ signed # {} => \E d \in Demos : verifier[d].pc # "start"

(* What a demo submits is, byte for byte, what some run has signed.        *)
Submission(x) ==
  /\ DOMAIN x = {"pc", "kind", "file", "tx", "deadline"}
  /\ DOMAIN x.tx = {"kind", "status", "life"}
  /\ x.kind = "demo"
  /\ x.pc = "unparsed" => x.tx.status = "none"
  /\ x.pc \in {"sent", "confirming"} => x.tx.kind \in {"init", "submit"}
  /\ x.pc = "ok" => stored # {}
  /\ x.pc # "unparsed" => \E s \in signed :
       /\ C!serializeClaim(x.file.claim) = canonical_bytes(s.file.claim)
       /\ x.file.verifier_public_key = s.file.verifier_public_key
Submitting ==
  /\ DOMAIN run = Demos
  /\ \A d \in Demos : run[d].pc # "start" => Submission(run[d])

(* While a demo is alone, everything is about its own session: the         *)
(* presentation it has written, the one it has read, and what is signed.   *)
OwnSession ==
  \A d \in Demos : Alone(d) =>
    LET own(a) == a.session = prover[d].artifact.session
    IN /\ prover[d].step \in 3 .. Done => own(files["presentation"])
       /\ verifier[d].pc \in {"request", "keys", "sign"} => own(verifier[d].artifact)
       /\ \A s \in signed : own(Preimage(s.file.claim.provenance_hash))

SystemInvariant ==
  Invariant /\ InOrder /\ Submitting /\ OwnSession /\ StoredClaimsGenuine

(* The pipeline as a whole implements the ledger: webproof-verify-sign     *)
(* attests, a transaction that lands publishes, and everything else that   *)
(* demos do, or fail to do, leaves the chain's promises untouched.         *)
L == INSTANCE Ledger WITH
       key <- config, entries <- {data[2] : data \in stored},
       attested <- {<<s.file.verifier_public_key, claim_id(s.file.claim)>> : s \in signed}
ImplementsLedger == L!Spec
=============================================================================
