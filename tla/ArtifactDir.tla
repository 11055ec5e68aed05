---------------------------- MODULE ArtifactDir -----------------------------
(***************************************************************************)
(* The two programs of the off-chain pipeline and the directory they share *)
(* (WEBPROOF_ARTIFACT_DIR): webproof-notarize writes presentation.tlsn.bin,*)
(* notary-key.hex and request.json, one after the other; webproof-verify-  *)
(* sign reads them and writes signed-claim.json.  Nothing locks the        *)
(* directory: runs overlap, die half way, and find what earlier runs left. *)
(*                                                                         *)
(* std::fs::write truncates the file and then fills it, so a reader may    *)
(* meet a torn file; two overlapping writers may leave the tail of the     *)
(* longer content behind the shorter one.                                  *)
(***************************************************************************)
EXTENDS Target

CONSTANTS
  Provers,        (* runs of webproof-notarize                              *)
  Verifiers,      (* runs of webproof-verify-sign                           *)
  SignerKeys,     (* values of WEBPROOF_SIGNER_KEY                          *)
  TrustedKeys,    (* WEBPROOF_TRUSTED_NOTARY_KEYS, when set                 *)
  AllowedHosts,   (* WEBPROOF_ALLOWED_HOSTS                                 *)
  TTLs,           (* values of CLAIM_TTL_SECONDS                            *)
  Times,          (* values of SystemTime::now                              *)
  OldArtifacts,   (* presentations the directory may hold at the start      *)
  OldRequests,    (* requests the directory may hold at the start           *)
  Missing,        (* the file does not exist                                *)
  Torn            (* the file is empty or holds part of its content         *)

(* The verifying keys of the in-process notaries.                          *)
InProcessKeys == {t.notarize.notary_key : t \in Targets}

ASSUME DirAssumption ==
  /\ TTLs \subseteq I64
  /\ Times \subseteq 0 .. I64Max
  /\ TrustedKeys \cup InProcessKeys \cup {s.notary : s \in Sessions} \subseteq NotaryKeys
  /\ Torn \notin NotaryKeys
  /\ \A a \in OldArtifacts : IsArtifact(a)

VARIABLES
  files,     (* content of each file of the directory                       *)
  prover,    (* progress of each run of webproof-notarize                   *)
  verifier,  (* progress of each run of webproof-verify-sign                *)
  signed     (* what was signed: [file, url], url being the expected one    *)

vars == <<files, prover, verifier, signed>>

Outputs == <<"presentation", "notary_key", "request">>
FileNames == {"presentation", "notary_key", "request", "signed_claim"}

Exited == -1   (* the run failed or was killed                              *)
Done == 7      (* webproof-notarize has written its three files             *)

Init ==
  /\ files \in [presentation: OldArtifacts \cup {Missing},
                notary_key: InProcessKeys \cup {Missing},
                request: OldRequests \cup {Missing},
                signed_claim: {Missing}]
  /\ prover = [p \in Provers |-> [step |-> 0]]
  /\ verifier = [v \in Verifiers |-> [pc |-> "start"]]
  /\ signed = {}

-----------------------------------------------------------------------------
(* webproof-notarize.  step 0: started; 1: notarised; 2k: the k-th output  *)
(* is open and truncated; 2k + 1: it is written.                           *)

notarize(p) ==
  /\ prover[p].step = 0
  /\ \E env \in Envs : \E t \in resolve_target(env) : \E s \in Sessions :
       /\ SessionFor(s, t.notarize)
       /\ prover' = [prover EXCEPT ![p] =
                       [step |-> 1, target |-> t, artifact |-> build_presentation(s)]]
  /\ UNCHANGED <<files, verifier, signed>>

(* The session fails or times out, a write fails, the process is killed.   *)
ProverExit(p) ==
  /\ prover[p].step \in 0 .. 6
  /\ prover' = [prover EXCEPT ![p] = [step |-> Exited]]
  /\ UNCHANGED <<files, verifier, signed>>

Content(p, name) ==
  CASE name = "presentation" -> prover[p].artifact
    [] name = "notary_key" -> prover[p].artifact.key
    [] name = "request" -> [url |-> prover[p].target.url, field |-> prover[p].target.field,
                            fixture |-> prover[p].target.fixture]

OpenOutput(p) ==
  /\ prover[p].step \in {1, 3, 5}
  /\ files' = [files EXCEPT ![Outputs[(prover[p].step + 1) \div 2]] = Torn]
  /\ prover' = [prover EXCEPT ![p].step = @ + 1]
  /\ UNCHANGED <<verifier, signed>>

(* Another run has written, or is writing, the file p has open.            *)
Contended(p, name) ==
  \/ files[name] # Torn
  \/ \E q \in Provers \ {p} : prover[q].step = prover[p].step

(* A tail makes request.json unreadable; behind a presentation it is       *)
(* ignored; notary keys have all the same length.                          *)
WithTail(name, content) ==
  CASE name = "presentation" -> [content EXCEPT !.tail = TRUE]
    [] name = "notary_key" -> content
    [] name = "request" -> Torn

WriteOutput(p) ==
  /\ prover[p].step \in {2, 4, 6}
  /\ LET name == Outputs[prover[p].step \div 2]
         content == Content(p, name)
     IN \/ files' = [files EXCEPT ![name] = content]
        \/ /\ Contended(p, name)
           /\ files' = [files EXCEPT ![name] = WithTail(name, content)]
  /\ prover' = [prover EXCEPT ![p].step = @ + 1]
  /\ UNCHANGED <<verifier, signed>>

-----------------------------------------------------------------------------
(* webproof-verify-sign                                                    *)

VerifierFails(v) ==
  /\ verifier' = [verifier EXCEPT ![v] = [pc |-> "exited"]]
  /\ UNCHANGED <<files, prover, signed>>

Readable(name) == files[name] \notin {Missing, Torn}

(* A torn presentation is read like any other; it fails to deserialize     *)
(* later, which changes nothing but the moment of the failure.             *)
ReadPresentation(v) ==
  /\ verifier[v].pc = "start"
  /\ \/ /\ Readable("presentation")
        /\ verifier' = [verifier EXCEPT ![v] =
                          [pc |-> "request", artifact |-> files["presentation"]]]
        /\ UNCHANGED <<files, prover, signed>>
     \/ ~Readable("presentation") /\ VerifierFails(v)

(* Url::parse lower-cases the host, and the allowlist is compared without  *)
(* regard to case.                                                         *)
ReadRequest(v) ==
  /\ verifier[v].pc = "request"
  /\ \/ /\ Readable("request")
        /\ files["request"].url.host \in AllowedHosts
        /\ verifier' = [verifier EXCEPT ![v] =
                          [pc |-> "keys", artifact |-> @.artifact,
                           request |-> files["request"]]]
        /\ UNCHANGED <<files, prover, signed>>
     \/ /\ Readable("request") => files["request"].url.host \notin AllowedHosts
        /\ VerifierFails(v)

(* The trusted keys come from the environment or, when it has none, from   *)
(* the directory.  A torn key file holds a key that no notary has.         *)
ReadKeys(v) ==
  /\ verifier[v].pc = "keys"
  /\ \/ /\ \E keys \in {TrustedKeys} \cup
                       (IF files["notary_key"] = Missing THEN {}
                        ELSE {{files["notary_key"]}}) :
             verifier' = [verifier EXCEPT ![v] =
                            [pc |-> "sign", artifact |-> @.artifact,
                             request |-> @.request, keys |-> keys]]
        /\ UNCHANGED <<files, prover, signed>>
     \/ files["notary_key"] = Missing /\ VerifierFails(v)

(* The nonce is 32 random bytes: the run's own.                            *)
verify_and_sign(v) ==
  /\ verifier[v].pc = "sign"
  /\ \E now \in Times, ttl \in TTLs, raw \in SignerKeys :
       LET a == verifier[v].artifact
           r == verifier[v].request
           data == from_verified_presentation(a)
           accepted == /\ verify(verifier_for(r.fixture, verifier[v].keys), a) = "Ok"
                       /\ sign_verified(data, r.url, r.field, now, ttl, v) = "Ok"
       IN \/ /\ accepted
             /\ \E key \in parse_signing_key(raw) :
                  LET file == SignedClaim(unsigned_claim(data, r.field, now, ttl, v), key)
                  IN /\ signed' = signed \cup {[file |-> file, url |-> r.url]}
                     /\ verifier' = [verifier EXCEPT ![v] = [pc |-> "open", file |-> file]]
             /\ UNCHANGED <<files, prover>>
          \/ (~accepted \/ parse_signing_key(raw) = {}) /\ VerifierFails(v)

OpenSignedClaim(v) ==
  /\ verifier[v].pc = "open"
  /\ files' = [files EXCEPT !["signed_claim"] = Torn]
  /\ verifier' = [verifier EXCEPT ![v].pc = "write"]
  /\ UNCHANGED <<prover, signed>>

(* A tail behind a JSON document makes it unreadable.                      *)
WriteSignedClaim(v) ==
  /\ verifier[v].pc = "write"
  /\ \/ files' = [files EXCEPT !["signed_claim"] = verifier[v].file]
     \/ /\ \/ files["signed_claim"] # Torn
           \/ \E w \in Verifiers \ {v} : verifier[w].pc = "write"
        /\ files' = [files EXCEPT !["signed_claim"] = Torn]
  /\ verifier' = [verifier EXCEPT ![v] = [pc |-> "done"]]
  /\ UNCHANGED <<prover, signed>>

VerifierKilled(v) ==
  /\ verifier[v].pc \notin {"done", "exited"}
  /\ VerifierFails(v)

-----------------------------------------------------------------------------
ProverStep(p) == notarize(p) \/ OpenOutput(p) \/ WriteOutput(p)
VerifierStep(v) ==
  \/ ReadPresentation(v) \/ ReadRequest(v) \/ ReadKeys(v)
  \/ verify_and_sign(v) \/ OpenSignedClaim(v) \/ WriteSignedClaim(v)

Next ==
  \/ \E p \in Provers : ProverStep(p) \/ ProverExit(p)
  \/ \E v \in Verifiers : VerifierStep(v) \/ VerifierKilled(v)

Spec == Init /\ [][Next]_vars

-----------------------------------------------------------------------------
(* Files, runs and signatures have the shapes the two programs give them.  *)
TypeOK ==
  /\ DOMAIN files = FileNames
  /\ files["presentation"] \in {Missing, Torn} \/ IsArtifact(files["presentation"])
  /\ files["notary_key"] \in InProcessKeys \cup {Missing, Torn}
  /\ files["request"] \in {[url |-> t.url, field |-> t.field, fixture |-> t.fixture] :
                             t \in Targets} \cup OldRequests \cup {Missing, Torn}
  /\ DOMAIN prover = Provers
  /\ \A p \in Provers : prover[p].step \in Exited .. Done
  /\ DOMAIN verifier = Verifiers
  /\ \A v \in Verifiers : verifier[v].pc \in
       {"start", "request", "keys", "sign", "open", "write", "done", "exited"}
  /\ \A s \in signed :
       /\ DOMAIN s.file = {"claim", "claim_id", "signature", "verifier_public_key",
                           "tlsn_artifact_hash"}
       /\ {s.file.claim.issued_at, s.file.claim.expires_at} \subseteq I64

(* The artifact behind a provenance hash.                                  *)
Preimage(hash) == hash[2]

(* Claim c is true: one genuine session, attested by a trusted notary,     *)
(* with an allowed host, returned this value for this field at this path,  *)
(* and every byte the claim rests on was disclosed and authenticated.      *)
Attested(c) ==
  LET a == Preimage(c.provenance_hash)
  IN /\ a.genuine
     /\ a.key \in TrustedKeys \cup InProcessKeys
     /\ a.identity /\ a.request_line /\ a.response
     /\ c.source_host = a.session.host
     /\ c.source_host \in AllowedHosts
     /\ c.request_path_hash = sha256(a.session.path)
     /\ a.session.response[c.claim_key].kind \in Scalars
     /\ c.claim_value = claim_text(a.session.response[c.claim_key])

(* Whatever mixture of files a run of webproof-verify-sign reads, what it  *)
(* signs is true.                                                          *)
SignedClaimsAttested == \A s \in signed : Attested(s.file.claim)

(* The verifier signs nothing the program would refuse: from its issue to  *)
(* its expiry a signed claim passes the on-chain rule, whatever the        *)
(* configured maximum age allows of that time.                             *)
SignedClaimsSubmittable ==
  \A s \in signed :
    LET c == s.file.claim
    IN /\ validate_claim(c, c.issued_at, 1) = "Ok"
       /\ \A t \in c.issued_at .. c.expires_at : validate_claim(c, t, I64Max) = "Ok"

(* A session from which a claim about field can be made.                   *)
Claimable(s, field) ==
  /\ len[s.host] \in 1 .. MAX_SOURCE_HOST
  /\ len[field] \in 1 .. MAX_CLAIM_KEY
  /\ s.response \notin {NoBody, NotJson}
  /\ s.response[field] # Absent
  /\ s.response[field].kind \in Scalars
  /\ len[claim_text(s.response[field])] \in 1 .. MAX_CLAIM_VALUE

(* The three files of one run of webproof-notarize fit together: unless    *)
(* something else wrote in between, verify-sign accepts them.              *)
OwnOutputAccepted ==
  \A p \in Provers :
    (/\ prover[p].step = Done
     /\ \A name \in {"presentation", "notary_key", "request"} :
          files[name] = Content(p, name)
     /\ Claimable(prover[p].artifact.session, prover[p].target.field))
    => LET a == files["presentation"]
           r == files["request"]
       IN /\ verify(verifier_for(r.fixture, {files["notary_key"]}), a) = "Ok"
          /\ \A now \in Times, ttl \in TTLs : ttl > 0 /\ now < I64Max =>
               sign_verified(from_verified_presentation(a), r.url, r.field,
                             now, ttl, "nonce") = "Ok"

(* The key pairs behind the values of WEBPROOF_SIGNER_KEY.                 *)
SignerSeeds == {raw.bytes[1] : raw \in {raw \in SignerKeys : Len(raw.bytes) > 0}}

(* signed-claim.json never holds a claim that was not signed, however runs *)
(* overlap: it is missing, unreadable, or a claim under its own id with a  *)
(* signature of the operator's key over exactly that claim.                *)
ProperlySigned(f) ==
  /\ f.claim_id = claim_id(f.claim)
  /\ f.verifier_public_key \in SignerSeeds
  /\ f.signature = Signature(f.verifier_public_key, signing_message(f.claim))
SignedFileIsSigned ==
  Readable("signed_claim") =>
    /\ \E s \in signed : s.file = files["signed_claim"]
    /\ ProperlySigned(files["signed_claim"])

-----------------------------------------------------------------------------
(* Why that is so, as one inductive invariant.  A run of webproof-notarize *)
(* that got past its session holds the presentation of it.                 *)
ProverOutput ==
  \A p \in Provers : prover[p].step \in 1 .. Done =>
    /\ DOMAIN prover[p] = {"step", "target", "artifact"}
    /\ prover[p].target \in Targets
    /\ \E s \in Sessions : /\ SessionFor(s, prover[p].target.notarize)
                           /\ prover[p].artifact = build_presentation(s)

(* A run of webproof-verify-sign holds a presentation of some run, a       *)
(* request for an allowed host, and keys of notaries or a torn key.        *)
VerifierInput ==
  \A v \in Verifiers :
    /\ verifier[v].pc \in {"request", "keys", "sign"} => IsArtifact(verifier[v].artifact)
    /\ verifier[v].pc \in {"keys", "sign"} => verifier[v].request.url.host \in AllowedHosts
    /\ verifier[v].pc = "sign" =>
         verifier[v].keys \subseteq TrustedKeys \cup InProcessKeys \cup {Torn}

(* It holds, and the directory has, only claims that were signed.          *)
OutputSigned ==
  /\ \A s \in signed : ProperlySigned(s.file)
  /\ \A v \in Verifiers : verifier[v].pc \in {"open", "write"} =>
       /\ DOMAIN verifier[v] = {"pc", "file"}
       /\ \E s \in signed : s.file = verifier[v].file
  /\ \/ files["signed_claim"] \in {Missing, Torn}
     \/ \E s \in signed : s.file = files["signed_claim"]

Invariant ==
  /\ TypeOK /\ ProverOutput /\ VerifierInput /\ OutputSigned
  /\ SignedClaimsAttested /\ SignedClaimsSubmittable

-----------------------------------------------------------------------------
(* DemoTarget.url is documented as the URL the claim is expected to come   *)
(* from: a signed claim is then about the expected path.                   *)
ClaimFromExpectedUrl ==
  \A s \in signed : s.file.claim.request_path_hash = sha256(s.url.path)

(* request.json is documented as never being trusted data: what it says    *)
(* then has no influence on whether a presentation is believed.            *)
RequestNotTrusted ==
  \A v \in Verifiers : verifier[v].pc = "sign" =>
    \A f, g \in BOOLEAN :
      verify(verifier_for(f, verifier[v].keys), verifier[v].artifact) = "Ok"
        => verify(verifier_for(g, verifier[v].keys), verifier[v].artifact) = "Ok"
=============================================================================
