------------------------- MODULE ArtifactDirProofs --------------------------
(***************************************************************************)
(* What leaves the artifact directory is true, for any number of           *)
(* overlapping runs, any leftovers and any environments.                   *)
(***************************************************************************)
EXTENDS ArtifactDir, TLAPS

-----------------------------------------------------------------------------
(* Facts about the operators.                                              *)

(* What a presentation must have for verify to accept it.                  *)
LEMMA VerifyMeans ==
  ASSUME NEW a, NEW fixture, NEW keys, verify(verifier_for(fixture, keys), a) = "Ok"
  PROVE  /\ a.key \in keys
         /\ a.genuine /\ a.identity /\ a.request_line /\ a.response
<1>1. verifier_for(fixture, keys).trusted_notary_keys = keys
  BY DEF verifier_for, with_custom_roots, with_mozilla_roots
<1> QED BY <1>1 DEF verify, presentation_verify

(* What sign_verified has checked when it signs.                           *)
LEMMA SignMeans ==
  ASSUME NEW data, NEW url, NEW field, NEW now, NEW ttl, NEW nonce,
         sign_verified(data, url, field, now, ttl, nonce) = "Ok"
  PROVE  /\ url.host = data.host
         /\ data.response[field].kind \in Scalars
         /\ validate(unsigned_claim(data, field, now, ttl, nonce), now, ttl) = "Ok"
BY DEF sign_verified

(* A claim that validate accepts at its issue passes the program's rule    *)
(* from then to its expiry: saturation at the end of i64 included.         *)
LEMMA FreshSubmittable ==
  ASSUME NEW c, NEW ttl, c.issued_at \in 0 .. I64Max, c.expires_at \in I64,
         validate(c, c.issued_at, ttl) = "Ok"
  PROVE  /\ validate_claim(c, c.issued_at, 1) = "Ok"
         /\ \A t \in c.issued_at .. c.expires_at : validate_claim(c, t, I64Max) = "Ok"
<1> DEFINE i == c.issued_at
           e == c.expires_at
<1>1. /\ c.version = 1
      /\ len[c.source_host] # 0 /\ len[c.source_host] <= 128
      /\ len[c.claim_key] # 0 /\ len[c.claim_key] <= 128
      /\ len[c.claim_value] # 0 /\ len[c.claim_value] <= 256
      /\ ~(e <= i)
  BY DEF validate, bounded, VERSION, MAX_SOURCE_HOST, MAX_CLAIM_KEY, MAX_CLAIM_VALUE
<1>2. i \in Int /\ e \in Int /\ i < e /\ e <= I64Max /\ 0 <= i
  BY <1>1, I64Assumption DEF I64, I64Min
<1>3. ASSUME NEW t \in i .. e
      PROVE  i <= saturating_add(t, 30) /\ saturating_sub(t, i) <= I64Max
  BY <1>2, I64Assumption DEF saturating_add, saturating_sub, saturate, I64Min
<1>4. saturating_sub(i, i) <= 1
  BY <1>2, I64Assumption DEF saturating_sub, saturate, I64Min
<1>5. i \in i .. e /\ e > i
  BY <1>2
<1>6. \A t \in i .. e : t <= e
  BY <1>2
<1> QED BY <1>1, <1>3, <1>4, <1>5, <1>6 DEF validate_claim, FUTURE_SKEW

(* The instants of a claim that is built from the clock and a ttl.         *)
LEMMA Instants ==
  ASSUME NEW now \in Times, NEW ttl \in TTLs
  PROVE  now \in 0 .. I64Max /\ saturating_add(now, ttl) \in I64
BY DirAssumption, I64Assumption DEF saturating_add, saturate, I64, I64Min

(* A key that parse_signing_key returns is the seed of a configured key.   *)
LEMMA ParsedKeyIsSeed ==
  ASSUME NEW raw \in SignerKeys, NEW key \in parse_signing_key(raw)
  PROVE  key \in SignerSeeds
<1>1. key = raw.bytes[1] /\ Len(raw.bytes) \in {1, 2}
  BY DEF parse_signing_key
<1>2. Len(raw.bytes) > 0
  BY <1>1
<1> QED BY <1>1, <1>2 DEF SignerSeeds

(* What resolve_target has made sure of.                                   *)
LEMMA TargetFields ==
  ASSUME NEW t \in Targets
  PROVE  /\ t.url.scheme = "https"
         /\ t.notarize.server_name = t.url.host
         /\ root_store(t.notarize.server_trust) = crypto_provider(verifier_for(t.fixture, {}))
<1>1. PICK env \in Envs : t \in resolve_target(env)
  BY DEF Targets
<1>2. PICK e, key, max_sent, max_recv :
        /\ e \in Endpoint(env)
        /\ t = [url |-> e.url, field |-> e.field, fixture |-> e.fixture,
                notarize |-> NotarizeConfig(e, key, max_sent, max_recv)]
  BY <1>1 DEF resolve_target
<1>3. e.url.scheme = "https"
  BY <1>2 DEF Endpoint
<1>4. /\ t.url = e.url /\ t.fixture = e.fixture
      /\ t.notarize = NotarizeConfig(e, key, max_sent, max_recv)
  BY <1>2
<1>5. root_store(NotarizeConfig(e, key, max_sent, max_recv).server_trust)
        = IF e.fixture THEN {CA_CERT_DER} ELSE {"mozilla"}
  BY DEF NotarizeConfig, root_store, Mozilla, Custom
<1>6. crypto_provider(verifier_for(e.fixture, {}))
        = IF e.fixture THEN {CA_CERT_DER} ELSE {"mozilla"}
  <2>1. {CA_CERT_DER} # {}
    OBVIOUS
  <2> QED BY <2>1 DEF crypto_provider, verifier_for, with_custom_roots, with_mozilla_roots
<1>7. NotarizeConfig(e, key, max_sent, max_recv).server_name = e.url.host
  BY DEF NotarizeConfig
<1> QED BY <1>3, <1>4, <1>5, <1>6, <1>7

(* The presentation of a session is one, with or without a tail.           *)
LEMMA PresentationIsArtifact ==
  ASSUME NEW s \in Sessions
  PROVE  /\ IsArtifact(build_presentation(s))
         /\ IsArtifact([build_presentation(s) EXCEPT !.tail = TRUE])
         /\ build_presentation(s).key = s.notary
<1> DEFINE a(x, y) == [session |-> s, key |-> s.notary, genuine |-> x, identity |-> x,
                       transcript |-> x, request_line |-> x,
                       shown |-> s.headers \ SECRET_HEADERS, response |-> x, tail |-> y]
<1>1. s.notary \in NotaryKeys
  BY DirAssumption
<1>2. \A x, y, z : [a(x, y) EXCEPT !.tail = z] = a(x, z)
  OBVIOUS
<1>3. \A x, y \in BOOLEAN : IsArtifact(a(x, y))
  BY <1>1 DEF IsArtifact
<1>4. build_presentation(s) = a(TRUE, FALSE)
  BY DEF build_presentation
<1>5. build_presentation(s).key = s.notary
  BY DEF build_presentation
<1> HIDE DEF a
<1>6. TRUE \in BOOLEAN /\ FALSE \in BOOLEAN
  OBVIOUS
<1>7. IsArtifact(a(TRUE, FALSE)) /\ IsArtifact(a(TRUE, TRUE))
  BY <1>3, <1>6, Zenon
<1>8. [a(TRUE, FALSE) EXCEPT !.tail = TRUE] = a(TRUE, TRUE)
  BY <1>2, Zenon
<1>9. [build_presentation(s) EXCEPT !.tail = TRUE] = a(TRUE, TRUE)
  BY <1>4, <1>8, Zenon
<1> QED BY <1>4, <1>5, <1>7, <1>9, Zenon

-----------------------------------------------------------------------------
(* The invariant.                                                          *)

(* The invariant holds in every directory the runs may find.               *)
LEMMA InitInvariant == Init => Invariant
<1> SUFFICES ASSUME Init PROVE Invariant
  OBVIOUS
<1>1. TypeOK
  BY DirAssumption DEF Init, TypeOK, FileNames, Exited, Done
<1>2. ProverOutput /\ VerifierInput
  BY DEF Init, ProverOutput, VerifierInput, Done
<1>3. OutputSigned /\ SignedClaimsAttested /\ SignedClaimsSubmittable
  BY DEF Init, OutputSigned, SignedClaimsAttested, SignedClaimsSubmittable
<1> QED BY <1>1, <1>2, <1>3 DEF Invariant

(* The fields of a SignedClaim.                                            *)
FileFields == {"claim", "claim_id", "signature", "verifier_public_key", "tlsn_artifact_hash"}

(* While nothing is signed, what was signed is as true as it was.          *)
LEMMA SignedKept ==
  ASSUME Invariant, UNCHANGED signed
  PROVE  /\ SignedClaimsAttested'
         /\ SignedClaimsSubmittable'
         /\ \A s \in signed' : ProperlySigned(s.file)
         /\ \A s \in signed' :
              /\ DOMAIN s.file = FileFields
              /\ {s.file.claim.issued_at, s.file.claim.expires_at} \subseteq I64
BY DEF FileFields, Invariant, TypeOK, OutputSigned, SignedClaimsAttested, SignedClaimsSubmittable

(* What a run of webproof-notarize may hold, and what it may write.        *)
Held(x) ==
  /\ x.step \in Exited .. Done
  /\ x.step \in 1 .. Done =>
       /\ DOMAIN x = {"step", "target", "artifact"}
       /\ x.target \in Targets
       /\ \E s \in Sessions : /\ SessionFor(s, x.target.notarize)
                              /\ x.artifact = build_presentation(s)
Fits(name, content) ==
  \/ name = "presentation" /\ (content = Torn \/ IsArtifact(content))
  \/ name = "notary_key" /\ content \in InProcessKeys \cup {Torn}
  \/ /\ name = "request"
     /\ content \in {[url |-> t.url, field |-> t.field, fixture |-> t.fixture] :
                       t \in Targets} \cup {Torn}

(* webproof-notarize changes its own progress and, perhaps, one of its     *)
(* three files.                                                            *)
LEMMA ProverStepPreserves ==
  ASSUME Invariant, NEW p \in Provers, NEW new, Held(new),
         prover' = [prover EXCEPT ![p] = new], UNCHANGED <<verifier, signed>>,
         \/ files' = files
         \/ \E name, content : Fits(name, content) /\ files' = [files EXCEPT ![name] = content]
  PROVE  Invariant'
<1>1. \A q \in Provers : prover'[q] = IF q = p THEN new ELSE prover[q]
  BY DEF Invariant, TypeOK
<1>2. /\ DOMAIN files' = FileNames
      /\ \A n \in FileNames : files'[n] = files[n] \/ Fits(n, files'[n])
  BY DEF Invariant, TypeOK, FileNames
<1>3. TypeOK'
  <2>1. /\ files'["presentation"] \in {Missing, Torn} \/ IsArtifact(files'["presentation"])
        /\ files'["notary_key"] \in InProcessKeys \cup {Missing, Torn}
        /\ files'["request"] \in
             {[url |-> t.url, field |-> t.field, fixture |-> t.fixture] : t \in Targets}
               \cup OldRequests \cup {Missing, Torn}
    BY <1>2 DEF Invariant, TypeOK, FileNames, Fits
  <2>2. DOMAIN prover' = Provers /\ \A q \in Provers : prover'[q].step \in Exited .. Done
    BY <1>1 DEF Invariant, TypeOK, Held
  <2> QED BY <1>2, <2>1, <2>2 DEF Invariant, TypeOK
<1>4. ProverOutput'
  BY <1>1 DEF Invariant, ProverOutput, Held
<1>5. VerifierInput'
  BY DEF Invariant, VerifierInput
<1>6. OutputSigned'
  <2>1. files'["signed_claim"] = files["signed_claim"]
    BY <1>2 DEF FileNames, Fits
  <2> QED BY <2>1 DEF Invariant, OutputSigned
<1> QED BY <1>3, <1>4, <1>5, <1>6, SignedKept DEF Invariant

(* webproof-notarize: its session, its writes and its failures.            *)
LEMMA NotarizePreserves ==
  ASSUME Invariant, NEW p \in Provers, ProverStep(p) \/ ProverExit(p)
  PROVE  Invariant'
<1>1. CASE notarize(p)
  <2>1. PICK t \in Targets, s \in Sessions :
          /\ SessionFor(s, t.notarize)
          /\ prover' = [prover EXCEPT ![p] =
               [step |-> 1, target |-> t, artifact |-> build_presentation(s)]]
    BY <1>1 DEF notarize, Targets
  <2> DEFINE new == [step |-> 1, target |-> t, artifact |-> build_presentation(s)]
  <2>2. Held(new)
    BY <2>1 DEF Held, Exited, Done
  <2>3. UNCHANGED <<files, verifier, signed>> /\ prover' = [prover EXCEPT ![p] = new]
    BY <1>1, <2>1 DEF notarize
  <2> HIDE DEF new
  <2> QED BY <2>2, <2>3, ProverStepPreserves
<1>2. CASE ProverExit(p)
  <2> DEFINE new == [step |-> Exited]
  <2>1. Held(new)
    BY DEF Held, Exited, Done
  <2>2. UNCHANGED <<files, verifier, signed>> /\ prover' = [prover EXCEPT ![p] = new]
    BY <1>2 DEF ProverExit
  <2> HIDE DEF new
  <2> QED BY <2>1, <2>2, ProverStepPreserves
<1> DEFINE next == [prover[p] EXCEPT !.step = @ + 1]
<1>3. ASSUME prover[p].step \in 1 .. 6
      PROVE  Held(next)
  <2>1. /\ DOMAIN prover[p] = {"step", "target", "artifact"}
        /\ prover[p].target \in Targets
        /\ \E s \in Sessions : /\ SessionFor(s, prover[p].target.notarize)
                               /\ prover[p].artifact = build_presentation(s)
    BY <1>3 DEF Invariant, ProverOutput, Done
  <2>2. /\ next.step = prover[p].step + 1
        /\ DOMAIN next = {"step", "target", "artifact"}
        /\ next.target = prover[p].target
        /\ next.artifact = prover[p].artifact
    BY <2>1
  <2>3. next.step \in Exited .. Done
    BY <1>3, <2>2 DEF Exited, Done
  <2> HIDE DEF next
  <2> QED BY <2>1, <2>2, <2>3 DEF Held
<1>4. CASE OpenOutput(p)
  <2>1. PICK name \in {"presentation", "notary_key", "request"} :
          files' = [files EXCEPT ![name] = Torn]
    <3>1. (prover[p].step + 1) \div 2 \in {1, 2, 3}
      BY <1>4 DEF OpenOutput
    <3>2. Outputs[(prover[p].step + 1) \div 2] \in {"presentation", "notary_key", "request"}
      BY <3>1 DEF Outputs
    <3> QED BY <1>4, <3>2 DEF OpenOutput
  <2>2. prover[p].step \in 1 .. 6
    BY <1>4 DEF OpenOutput
  <2>3. UNCHANGED <<verifier, signed>> /\ prover' = [prover EXCEPT ![p] = next]
    BY <1>4 DEF OpenOutput
  <2>4. Fits(name, Torn)
    BY DEF Fits
  <2> HIDE DEF next
  <2> QED BY <1>3, <2>1, <2>2, <2>3, <2>4, ProverStepPreserves
<1>5. CASE WriteOutput(p)
  <2>1. PICK name \in {"presentation", "notary_key", "request"} :
          files' \in {[files EXCEPT ![name] = Content(p, name)],
                      [files EXCEPT ![name] = WithTail(name, Content(p, name))]}
    BY <1>5 DEF WriteOutput, Outputs
  <2>2. prover[p].step \in 1 .. 6
    BY <1>5 DEF WriteOutput
  <2>3. UNCHANGED <<verifier, signed>> /\ prover' = [prover EXCEPT ![p] = next]
    BY <1>5 DEF WriteOutput
  <2>4. PICK s \in Sessions : /\ prover[p].target \in Targets
                              /\ s.notary = prover[p].target.notarize.notary_key
                              /\ prover[p].artifact = build_presentation(s)
    BY <2>2 DEF Invariant, ProverOutput, SessionFor, Done
  <2>5. Fits(name, Content(p, name)) /\ Fits(name, WithTail(name, Content(p, name)))
    <3>1. CASE name = "presentation"
      <4>1. /\ Content(p, name) = build_presentation(s)
            /\ WithTail(name, Content(p, name)) = [build_presentation(s) EXCEPT !.tail = TRUE]
        BY <2>4, <3>1 DEF Content, WithTail
      <4> QED BY <3>1, <4>1, PresentationIsArtifact, Zenon DEF Fits
    <3>2. CASE name = "notary_key"
      <4>1. Content(p, name) = s.notary /\ WithTail(name, Content(p, name)) = s.notary
        BY <2>4, <3>2, PresentationIsArtifact DEF Content, WithTail
      <4> QED BY <2>4, <3>2, <4>1 DEF Fits, InProcessKeys
    <3>3. CASE name = "request"
      BY <2>4, <3>3 DEF Content, WithTail, Fits
    <3> QED BY <3>1, <3>2, <3>3
  <2> HIDE DEF next
  <2> QED BY <1>3, <2>1, <2>2, <2>3, <2>5, ProverStepPreserves
<1> QED BY <1>1, <1>2, <1>4, <1>5 DEF ProverStep

(* webproof-verify-sign changes its own progress and leaves the rest.      *)
LEMMA VerifierStepPreserves ==
  ASSUME Invariant, NEW v \in Verifiers, NEW new,
         verifier' = [verifier EXCEPT ![v] = new], UNCHANGED <<files, prover, signed>>,
         \/ new.pc = "exited"
         \/ new.pc = "request" /\ IsArtifact(new.artifact)
         \/ /\ new.pc = "keys" /\ IsArtifact(new.artifact)
            /\ new.request.url.host \in AllowedHosts
         \/ /\ new.pc = "sign" /\ IsArtifact(new.artifact)
            /\ new.request.url.host \in AllowedHosts
            /\ new.keys \subseteq TrustedKeys \cup InProcessKeys \cup {Torn}
  PROVE  Invariant'
<1>1. \A w \in Verifiers : verifier'[w] = IF w = v THEN new ELSE verifier[w]
  BY DEF Invariant, TypeOK
<1>2. new.pc \in {"exited", "request", "keys", "sign"}
  OBVIOUS
<1>3. TypeOK'
  BY <1>1, <1>2 DEF Invariant, TypeOK
<1>4. VerifierInput'
  BY <1>1 DEF Invariant, VerifierInput
<1>5. OutputSigned'
  BY <1>1, <1>2 DEF Invariant, OutputSigned
<1>6. ProverOutput'
  BY DEF Invariant, ProverOutput
<1> QED BY <1>3, <1>4, <1>5, <1>6, SignedKept DEF Invariant

(* Claim c, issued now and signed with key, is true and submittable.       *)
SoundClaim(c, now, key) ==
  /\ Attested(c)
  /\ c.issued_at = now /\ now \in 0 .. I64Max /\ c.expires_at \in I64
  /\ validate_claim(c, c.issued_at, 1) = "Ok"
  /\ \A t \in c.issued_at .. c.expires_at : validate_claim(c, t, I64Max) = "Ok"
  /\ ProperlySigned(SignedClaim(c, key))
  /\ SignedClaim(c, key).claim = c

(* What verify_and_sign signs is true, submittable and under its own id.   *)
LEMMA SignedIsTrue ==
  ASSUME Invariant, NEW v \in Verifiers, verifier[v].pc = "sign",
         NEW now \in Times, NEW ttl \in TTLs, NEW raw \in SignerKeys,
         NEW key \in parse_signing_key(raw),
         verify(verifier_for(verifier[v].request.fixture, verifier[v].keys),
                verifier[v].artifact) = "Ok",
         NEW nonce,
         sign_verified(from_verified_presentation(verifier[v].artifact),
                       verifier[v].request.url, verifier[v].request.field,
                       now, ttl, nonce) = "Ok"
  PROVE  SoundClaim(unsigned_claim(from_verified_presentation(verifier[v].artifact),
                                   verifier[v].request.field, now, ttl, nonce), now, key)
<1> DEFINE a == verifier[v].artifact
           r == verifier[v].request
           data == from_verified_presentation(a)
           c == unsigned_claim(data, r.field, now, ttl, nonce)
<1>1. /\ IsArtifact(a)
      /\ r.url.host \in AllowedHosts
      /\ verifier[v].keys \subseteq TrustedKeys \cup InProcessKeys \cup {Torn}
  BY DEF Invariant, VerifierInput
<1>2. /\ a.key \in verifier[v].keys
      /\ a.genuine /\ a.identity /\ a.request_line /\ a.response
  BY VerifyMeans
<1>3. a.key \in TrustedKeys \cup InProcessKeys
  BY <1>1, <1>2, DirAssumption DEF IsArtifact
<1>4. /\ r.url.host = data.host
      /\ data.response[r.field].kind \in Scalars
      /\ validate(c, now, ttl) = "Ok"
  BY SignMeans
<1>5. /\ data.host = a.session.host /\ data.path = a.session.path
      /\ data.response = a.session.response /\ data.artifact = a
  BY DEF from_verified_presentation
<1>6. /\ c.source_host = data.host /\ c.request_path_hash = sha256(data.path)
      /\ c.claim_key = r.field /\ c.claim_value = claim_text(data.response[r.field])
      /\ c.issued_at = now /\ c.expires_at = saturating_add(now, ttl)
      /\ c.provenance_hash = sha256(data.artifact)
  BY DEF unsigned_claim
<1>7. Preimage(c.provenance_hash) = a
  BY <1>5, <1>6 DEF Preimage, sha256
<1>8. now \in 0 .. I64Max /\ c.expires_at \in I64
  BY <1>6, Instants
<1>9. ProperlySigned(SignedClaim(c, key)) /\ SignedClaim(c, key).claim = c
  <2> HIDE DEF c
  <2>1. key \in SignerSeeds
    BY ParsedKeyIsSeed
  <2> QED BY <2>1 DEF ProperlySigned, SignedClaim
<1> HIDE DEF c, data, a
<1>10. Attested(c)
  BY <1>1, <1>2, <1>3, <1>4, <1>5, <1>6, <1>7 DEF Attested
<1>11. /\ validate_claim(c, c.issued_at, 1) = "Ok"
       /\ \A t \in c.issued_at .. c.expires_at : validate_claim(c, t, I64Max) = "Ok"
  BY <1>4, <1>6, <1>8, FreshSubmittable
<1>12. SoundClaim(c, now, key)
  BY <1>6, <1>8, <1>9, <1>10, <1>11 DEF SoundClaim
<1> QED BY <1>12 DEF c, data, a

(* webproof-verify-sign: its three reads, the signing, the write and the   *)
(* ways it fails.                                                          *)
LEMMA VerifySignPreserves ==
  ASSUME Invariant, NEW v \in Verifiers, VerifierStep(v) \/ VerifierKilled(v)
  PROVE  Invariant'
<1>1. ASSUME VerifierFails(v) PROVE Invariant'
  BY <1>1, VerifierStepPreserves DEF VerifierFails
<1>2. CASE ReadPresentation(v) /\ ~VerifierFails(v)
  <2>1. IsArtifact(files["presentation"])
    BY <1>2 DEF ReadPresentation, Readable, Invariant, TypeOK
  <2> DEFINE new == [pc |-> "request", artifact |-> files["presentation"]]
  <2>2. UNCHANGED <<files, prover, signed>> /\ verifier' = [verifier EXCEPT ![v] = new]
    BY <1>2 DEF ReadPresentation
  <2>3. new.pc = "request" /\ IsArtifact(new.artifact)
    BY <2>1
  <2> HIDE DEF new
  <2> QED BY <2>2, <2>3, VerifierStepPreserves
<1>3. CASE ReadRequest(v) /\ ~VerifierFails(v)
  <2> DEFINE new == [pc |-> "keys", artifact |-> verifier[v].artifact,
                     request |-> files["request"]]
  <2>1. /\ files["request"].url.host \in AllowedHosts
        /\ UNCHANGED <<files, prover, signed>>
        /\ verifier' = [verifier EXCEPT ![v] = new]
    BY <1>3 DEF ReadRequest
  <2>2. IsArtifact(verifier[v].artifact)
    BY <1>3 DEF ReadRequest, Invariant, VerifierInput
  <2>3. /\ new.pc = "keys" /\ IsArtifact(new.artifact)
        /\ new.request.url.host \in AllowedHosts
    BY <2>1, <2>2
  <2> HIDE DEF new
  <2> QED BY <2>1, <2>3, VerifierStepPreserves
<1>4. CASE ReadKeys(v) /\ ~VerifierFails(v)
  <2>1. PICK keys \in {TrustedKeys} \cup (IF files["notary_key"] = Missing THEN {}
                                         ELSE {{files["notary_key"]}}) :
          verifier' = [verifier EXCEPT ![v] =
                         [pc |-> "sign", artifact |-> verifier[v].artifact,
                          request |-> verifier[v].request, keys |-> keys]]
    BY <1>4 DEF ReadKeys
  <2>2. keys \subseteq TrustedKeys \cup InProcessKeys \cup {Torn}
    BY <2>1 DEF Invariant, TypeOK
  <2> DEFINE new == [pc |-> "sign", artifact |-> verifier[v].artifact,
                     request |-> verifier[v].request, keys |-> keys]
  <2>3. UNCHANGED <<files, prover, signed>> /\ verifier' = [verifier EXCEPT ![v] = new]
    BY <1>4, <2>1 DEF ReadKeys
  <2>4. /\ IsArtifact(verifier[v].artifact)
        /\ verifier[v].request.url.host \in AllowedHosts
    BY <1>4 DEF ReadKeys, Invariant, VerifierInput
  <2>5. /\ new.pc = "sign" /\ IsArtifact(new.artifact)
        /\ new.request.url.host \in AllowedHosts
        /\ new.keys \subseteq TrustedKeys \cup InProcessKeys \cup {Torn}
    BY <2>2, <2>4
  <2> HIDE DEF new
  <2> QED BY <2>3, <2>5, VerifierStepPreserves
<1>5. CASE verify_and_sign(v) /\ ~VerifierFails(v)
  <2> DEFINE a == verifier[v].artifact
             r == verifier[v].request
             data == from_verified_presentation(a)
  <2>1. PICK now \in Times, ttl \in TTLs, raw \in SignerKeys :
          /\ verify(verifier_for(r.fixture, verifier[v].keys), a) = "Ok"
          /\ sign_verified(data, r.url, r.field, now, ttl, v) = "Ok"
          /\ \E key \in parse_signing_key(raw) :
               LET file == SignedClaim(unsigned_claim(data, r.field, now, ttl, v), key)
               IN /\ signed' = signed \cup {[file |-> file, url |-> r.url]}
                  /\ verifier' = [verifier EXCEPT ![v] = [pc |-> "open", file |-> file]]
    BY <1>5 DEF verify_and_sign
  <2> DEFINE c == unsigned_claim(data, r.field, now, ttl, v)
  <2>2. PICK key \in parse_signing_key(raw) :
          /\ signed' = signed \cup {[file |-> SignedClaim(c, key), url |-> r.url]}
          /\ verifier' = [verifier EXCEPT ![v] = [pc |-> "open", file |-> SignedClaim(c, key)]]
    BY <2>1
  <2>3. /\ Attested(c)
        /\ c.issued_at = now /\ now \in 0 .. I64Max /\ c.expires_at \in I64
        /\ validate_claim(c, c.issued_at, 1) = "Ok"
        /\ \A t \in c.issued_at .. c.expires_at : validate_claim(c, t, I64Max) = "Ok"
        /\ ProperlySigned(SignedClaim(c, key))
        /\ SignedClaim(c, key).claim = c
    <3>1. verifier[v].pc = "sign"
      BY <1>5 DEF verify_and_sign
    <3>2. /\ verify(verifier_for(r.fixture, verifier[v].keys), a) = "Ok"
          /\ sign_verified(data, r.url, r.field, now, ttl, v) = "Ok"
      BY <2>1
    <3>3. SoundClaim(c, now, key)
      BY <3>1, <3>2, SignedIsTrue
    <3> HIDE DEF c
    <3> QED BY <3>3 DEF SoundClaim
  <2> HIDE DEF c
  <2> DEFINE f == SignedClaim(c, key)
             entry == [file |-> f, url |-> r.url]
             new == [pc |-> "open", file |-> f]
  <2>4. /\ entry.file = f /\ f.claim = c
        /\ new.pc = "open" /\ new.file = f /\ DOMAIN new = {"pc", "file"}
    BY <2>3
  <2>5. /\ signed' = signed \cup {entry}
        /\ verifier' = [verifier EXCEPT ![v] = new]
        /\ UNCHANGED <<files, prover>>
    BY <1>5, <2>2 DEF verify_and_sign, VerifierFails
  <2> HIDE DEF f, entry, new
  <2>6. \A w \in Verifiers : verifier'[w] = IF w = v THEN new ELSE verifier[w]
    BY <2>5 DEF Invariant, TypeOK
  <2>7. TypeOK'
    <3>1. {c.issued_at, c.expires_at} \subseteq I64
      BY <2>3, I64Assumption DEF I64, I64Min
    <3>2. DOMAIN f = FileFields
      BY DEF f, SignedClaim, FileFields
    <3>3. \A s \in signed' :
            /\ DOMAIN s.file = FileFields
            /\ {s.file.claim.issued_at, s.file.claim.expires_at} \subseteq I64
      BY <2>4, <2>5, <3>1, <3>2 DEF Invariant, TypeOK, FileFields
    <3>4. \A w \in Verifiers : verifier'[w].pc \in
            {"start", "request", "keys", "sign", "open", "write", "done", "exited"}
      BY <2>4, <2>6 DEF Invariant, TypeOK
    <3> QED BY <2>5, <3>3, <3>4 DEF Invariant, TypeOK, FileFields
  <2>8. ProverOutput' /\ VerifierInput'
    BY <2>4, <2>5, <2>6 DEF Invariant, ProverOutput, VerifierInput
  <2>9. OutputSigned'
    BY <2>3, <2>4, <2>5, <2>6 DEF Invariant, OutputSigned, f
  <2>10. SignedClaimsAttested'
    BY <2>3, <2>4, <2>5 DEF Invariant, SignedClaimsAttested
  <2>11. SignedClaimsSubmittable'
    BY <2>3, <2>4, <2>5 DEF Invariant, SignedClaimsSubmittable
  <2> QED BY <2>7, <2>8, <2>9, <2>10, <2>11 DEF Invariant
<1>6. CASE OpenSignedClaim(v)
  <2> DEFINE new == [verifier[v] EXCEPT !.pc = "write"]
  <2>1. DOMAIN verifier[v] = {"pc", "file"} /\ \E s \in signed : s.file = verifier[v].file
    BY <1>6 DEF OpenSignedClaim, Invariant, OutputSigned
  <2>2. new.pc = "write" /\ new.file = verifier[v].file /\ DOMAIN new = {"pc", "file"}
    BY <2>1
  <2>3. /\ verifier' = [verifier EXCEPT ![v] = new]
        /\ files' = [files EXCEPT !["signed_claim"] = Torn]
        /\ UNCHANGED <<prover, signed>>
    BY <1>6 DEF OpenSignedClaim
  <2> HIDE DEF new
  <2>4. \A w \in Verifiers : verifier'[w] = IF w = v THEN new ELSE verifier[w]
    BY <2>3 DEF Invariant, TypeOK
  <2>5. TypeOK'
    BY <2>2, <2>3, <2>4 DEF Invariant, TypeOK, FileNames
  <2>6. ProverOutput' /\ VerifierInput'
    BY <2>2, <2>3, <2>4 DEF Invariant, ProverOutput, VerifierInput
  <2>7. OutputSigned'
    BY <2>1, <2>2, <2>3, <2>4 DEF Invariant, OutputSigned, TypeOK, FileNames
  <2> QED BY <2>3, <2>5, <2>6, <2>7, SignedKept DEF Invariant
<1>7. CASE WriteSignedClaim(v)
  <2> DEFINE new == [pc |-> "done"]
  <2>1. \E s \in signed : s.file = verifier[v].file
    BY <1>7 DEF WriteSignedClaim, Invariant, OutputSigned
  <2>2. new.pc = "done"
    OBVIOUS
  <2>3. /\ verifier' = [verifier EXCEPT ![v] = new]
        /\ files' \in {[files EXCEPT !["signed_claim"] = Torn],
                       [files EXCEPT !["signed_claim"] = verifier[v].file]}
        /\ UNCHANGED <<prover, signed>>
    BY <1>7 DEF WriteSignedClaim
  <2> HIDE DEF new
  <2>4. \A w \in Verifiers : verifier'[w] = IF w = v THEN new ELSE verifier[w]
    BY <2>3 DEF Invariant, TypeOK
  <2>5. TypeOK'
    BY <2>2, <2>3, <2>4 DEF Invariant, TypeOK, FileNames
  <2>6. ProverOutput' /\ VerifierInput'
    BY <2>2, <2>3, <2>4 DEF Invariant, ProverOutput, VerifierInput
  <2>7. OutputSigned'
    BY <2>1, <2>2, <2>3, <2>4 DEF Invariant, OutputSigned, TypeOK, FileNames
  <2> QED BY <2>3, <2>5, <2>6, <2>7, SignedKept DEF Invariant
<1>8. CASE VerifierKilled(v)
  BY <1>1, <1>8 DEF VerifierKilled
<1> QED BY <1>1, <1>2, <1>3, <1>4, <1>5, <1>6, <1>7, <1>8 DEF VerifierStep

(* Every step of either program preserves the invariant.                   *)
LEMMA NextPreserves == Invariant /\ [Next]_vars => Invariant'
<1> SUFFICES ASSUME Invariant, [Next]_vars PROVE Invariant'
  OBVIOUS
<1>1. CASE UNCHANGED vars
  <2>1. TypeOK' /\ ProverOutput' /\ VerifierInput' /\ OutputSigned'
    BY <1>1 DEF vars, Invariant, TypeOK, ProverOutput, VerifierInput, OutputSigned
  <2> QED BY <1>1, <2>1, SignedKept DEF vars, Invariant
<1>2. CASE Next
  BY <1>2, NotarizePreserves, VerifySignPreserves DEF Next
<1> QED BY <1>1, <1>2

-----------------------------------------------------------------------------
(* The inductive invariant: runs of webproof-notarize hold presentations   *)
(* of their sessions, runs of webproof-verify-sign hold presentations and  *)
(* keys of notaries, and the directory holds only what was signed.         *)
THEOREM InvariantHolds == Spec => []Invariant
BY InitInvariant, NextPreserves, PTL DEF Spec

(* Files, runs and signatures keep their shapes.                           *)
THEOREM TypeCorrect == Spec => []TypeOK
<1>1. Invariant => TypeOK
  BY DEF Invariant
<1> QED BY <1>1, InvariantHolds, PTL

(* Whatever mixture of files, old and new, torn or with a tail, a run of   *)
(* webproof-verify-sign reads, what it signs is true of a genuine session  *)
(* of an allowed host, attested by a trusted notary.                       *)
THEOREM SignedMeansAttested == Spec => []SignedClaimsAttested
<1>1. Invariant => SignedClaimsAttested
  BY DEF Invariant
<1> QED BY <1>1, InvariantHolds, PTL

(* Every signed claim passes the program's rule from its issue to its      *)
(* expiry, at the end of i64 too.                                          *)
THEOREM SignedMeansSubmittable == Spec => []SignedClaimsSubmittable
<1>1. Invariant => SignedClaimsSubmittable
  BY DEF Invariant
<1> QED BY <1>1, InvariantHolds, PTL

(* signed-claim.json is missing, unreadable or one of the signed claims,   *)
(* under its own id and with the operator's signature over all of it.      *)
THEOREM OutputIsSigned == Spec => []SignedFileIsSigned
<1>1. Invariant => SignedFileIsSigned
  BY DEF Invariant, OutputSigned, SignedFileIsSigned, Readable
<1> QED BY <1>1, InvariantHolds, PTL

(* The files of one run of webproof-notarize are accepted by verify and    *)
(* signed, whenever a claim can be made of its session at all.             *)
THEOREM OwnOutputIsAccepted == Spec => []OwnOutputAccepted
<1>1. ASSUME Invariant PROVE OwnOutputAccepted
  <2> SUFFICES ASSUME NEW p \in Provers, prover[p].step = Done,
                      \A name \in {"presentation", "notary_key", "request"} :
                        files[name] = Content(p, name),
                      Claimable(prover[p].artifact.session, prover[p].target.field)
               PROVE  /\ verify(verifier_for(files["request"].fixture,
                                             {files["notary_key"]}),
                                files["presentation"]) = "Ok"
                      /\ \A now \in Times, ttl \in TTLs : ttl > 0 /\ now < I64Max =>
                           sign_verified(from_verified_presentation(files["presentation"]),
                                         files["request"].url, files["request"].field,
                                         now, ttl, "nonce") = "Ok"
    BY DEF OwnOutputAccepted
  <2> DEFINE t == prover[p].target
  <2>1. PICK s \in Sessions : /\ t \in Targets
                              /\ SessionFor(s, t.notarize)
                              /\ prover[p].artifact = build_presentation(s)
    BY <1>1 DEF Invariant, ProverOutput, Done
  <2> DEFINE a == build_presentation(s)
  <2>2. /\ files["presentation"] = a
        /\ files["notary_key"] = s.notary
        /\ files["request"].url = t.url
        /\ files["request"].field = t.field
        /\ files["request"].fixture = t.fixture
    <3>1. /\ files["presentation"] = Content(p, "presentation")
          /\ files["notary_key"] = Content(p, "notary_key")
          /\ files["request"] = Content(p, "request")
      OBVIOUS
    <3>2. Content(p, "presentation") = a /\ Content(p, "notary_key") = a.key
      BY <2>1 DEF Content
    <3>3. Content(p, "request") = [url |-> t.url, field |-> t.field, fixture |-> t.fixture]
      BY DEF Content
    <3> HIDE DEF a, t
    <3>4. a.key = s.notary
      BY PresentationIsArtifact DEF a
    <3> QED BY <3>1, <3>2, <3>3, <3>4
  <2>3. /\ a.session = s /\ a.key = s.notary
        /\ a.genuine /\ a.identity /\ a.transcript /\ a.request_line /\ a.response
    BY DEF build_presentation
  <2>4. /\ t.url.scheme = "https"
        /\ s.host = t.url.host
        /\ s.root \in crypto_provider(verifier_for(t.fixture, {}))
    BY <2>1, TargetFields DEF SessionFor
  <2>5. Claimable(s, t.field)
    BY <2>1, <2>3
  <2> HIDE DEF a, t
  <2>6. verify(verifier_for(t.fixture, {s.notary}), a) = "Ok"
    <3>1. crypto_provider(verifier_for(t.fixture, {s.notary}))
            = crypto_provider(verifier_for(t.fixture, {}))
      BY DEF crypto_provider, verifier_for, with_custom_roots, with_mozilla_roots
    <3>2. verifier_for(t.fixture, {s.notary}).trusted_notary_keys = {s.notary}
      BY DEF verifier_for, with_custom_roots, with_mozilla_roots
    <3>3. presentation_verify(a, crypto_provider(verifier_for(t.fixture, {s.notary})))
      BY <2>3, <2>4, <3>1 DEF presentation_verify
    <3>4. s.response # NoBody /\ s.response # NotJson
      BY <2>5 DEF Claimable
    <3> QED BY <2>3, <3>2, <3>3, <3>4 DEF verify
  <2>7. ASSUME NEW now \in Times, NEW ttl \in TTLs, ttl > 0, now < I64Max
        PROVE  sign_verified(from_verified_presentation(a), t.url, t.field,
                             now, ttl, "nonce") = "Ok"
    <3> DEFINE data == from_verified_presentation(a)
               c == unsigned_claim(data, t.field, now, ttl, "nonce")
    <3>1. data.host = s.host /\ data.response = s.response
      BY <2>3 DEF from_verified_presentation
    <3>2. /\ c.version = 1 /\ c.source_host = s.host /\ c.claim_key = t.field
          /\ c.claim_value = claim_text(s.response[t.field])
          /\ c.issued_at = now /\ c.expires_at = saturating_add(now, ttl)
      BY <3>1 DEF unsigned_claim, VERSION
    <3> HIDE DEF c
    <3>3. now \in 0 .. I64Max /\ ttl \in I64
      BY DirAssumption
    <3>4. /\ ~(c.expires_at <= c.issued_at)
          /\ ~(now > c.expires_at)
          /\ ~(c.issued_at > saturating_add(now, 30))
          /\ ~(saturating_sub(now, c.issued_at) > ttl)
      BY <2>7, <3>2, <3>3, I64Assumption
      DEF saturating_add, saturating_sub, saturate, I64, I64Min
    <3>5. /\ bounded(c.source_host, 128) /\ bounded(c.claim_key, 128)
          /\ bounded(c.claim_value, 256)
      <4>1. /\ len[s.host] \in 1 .. 128
            /\ len[t.field] \in 1 .. 128
            /\ len[claim_text(s.response[t.field])] \in 1 .. 256
        BY <2>5 DEF Claimable, MAX_SOURCE_HOST, MAX_CLAIM_KEY, MAX_CLAIM_VALUE
      <4>2. len[c.source_host] \in 1 .. 128
        BY <3>2, <4>1
      <4>3. len[c.claim_key] \in 1 .. 128
        BY <3>2, <4>1
      <4>4. len[c.claim_value] \in 1 .. 256
        BY <3>2, <4>1
      <4> QED BY <4>2, <4>3, <4>4 DEF bounded
    <3>6. validate(c, now, ttl) = "Ok"
      BY <3>2, <3>4, <3>5
      DEF validate, VERSION, MAX_SOURCE_HOST, MAX_CLAIM_KEY, MAX_CLAIM_VALUE,
          MAX_FUTURE_SKEW_SECONDS
    <3>7. data.response[t.field] # Absent /\ data.response[t.field].kind \in Scalars
      BY <2>5, <3>1 DEF Claimable
    <3> HIDE DEF data
    <3>8. validate(unsigned_claim(data, t.field, now, ttl, "nonce"), now, ttl) = "Ok"
      BY <3>6 DEF c
    <3> QED BY <2>4, <3>1, <3>7, <3>8 DEF sign_verified, data
  <2> QED BY <2>2, <2>6, <2>7
<1> QED BY <1>1, InvariantHolds, PTL
=============================================================================
