---------------------------- MODULE SystemProofs ----------------------------
(***************************************************************************)
(* From the TLS session to the account, for any number of demos in one     *)
(* directory and on one chain.                                             *)
(***************************************************************************)
EXTENDS System, ArtifactDirProofs

-----------------------------------------------------------------------------
(* The two programs.                                                       *)

(* The claims of two encodings that agree are the same, field by field.    *)
LEMMA EncodingDetermines ==
  ASSUME NEW c, NEW e, C!serializeClaim(c) = canonical_bytes(e)
  PROVE  /\ c.source_host = e.source_host
         /\ c.request_path_hash = e.request_path_hash
         /\ c.claim_key = e.claim_key
         /\ c.claim_value = e.claim_value
         /\ c.issued_at = e.issued_at
         /\ c.expires_at = e.expires_at
         /\ c.provenance_hash = e.provenance_hash
         /\ C!claim_id(c) = C!claim_id(e)
         /\ C!claim_id(e) = claim_id(e)
<1>1. canonical_bytes(c) = canonical_bytes(e)
  BY DEF C!serializeClaim, canonical_bytes
<1>2. /\ c.source_host = e.source_host
      /\ c.request_path_hash = e.request_path_hash
      /\ c.claim_key = e.claim_key
      /\ c.claim_value = e.claim_value
      /\ c.issued_at = e.issued_at
      /\ c.expires_at = e.expires_at
      /\ c.provenance_hash = e.provenance_hash
  BY <1>1 DEF canonical_bytes
<1>3. \A x : C!claim_id(x) = claim_id(x)
  BY DEF C!claim_id, C!canonical_bytes, C!sha256, claim_id, canonical_bytes, sha256
<1>4. claim_id(c) = claim_id(e)
  BY <1>1 DEF claim_id
<1> QED BY <1>2, <1>3, <1>4

(* The hash in a claim leads back to the presentation it was made from.    *)
LEMMA HashOfArtifact ==
  ASSUME NEW a, NEW field, NEW now, NEW ttl, NEW nonce, NEW key
  PROVE  Preimage(SignedClaim(unsigned_claim(from_verified_presentation(a), field, now, ttl,
                                             nonce), key).claim.provenance_hash) = a
<1> DEFINE c == unsigned_claim(from_verified_presentation(a), field, now, ttl, nonce)
<1>1. c.provenance_hash = sha256(a)
  BY DEF unsigned_claim, from_verified_presentation
<1> HIDE DEF c
<1>2. SignedClaim(c, key).claim = c
  BY DEF SignedClaim
<1>3. Preimage(sha256(a)) = a
  BY DEF Preimage, sha256
<1> QED BY <1>1, <1>2, <1>3 DEF c

(* The session of a presentation, with or without a tail.                  *)
LEMMA SessionKept ==
  ASSUME NEW s
  PROVE  /\ build_presentation(s).session = s
         /\ [build_presentation(s) EXCEPT !.tail = TRUE].session = s
<1> DEFINE a(x, y) == [session |-> s, key |-> s.notary, genuine |-> x, identity |-> x,
                       transcript |-> x, request_line |-> x,
                       shown |-> s.headers \ SECRET_HEADERS, response |-> x, tail |-> y]
<1>1. build_presentation(s) = a(TRUE, FALSE)
  BY DEF build_presentation
<1>2. \A x, y, z : a(x, y).session = s /\ [a(x, y) EXCEPT !.tail = z].session = s
  OBVIOUS
<1> HIDE DEF a
<1>3. a(TRUE, FALSE).session = s /\ [a(TRUE, FALSE) EXCEPT !.tail = TRUE].session = s
  BY <1>2, Zenon
<1> QED BY <1>1, <1>3, Zenon

(* A step of the directory, during which what was signed stays signed,     *)
(* leaves submissions and accounts as well founded as they were.           *)
LEMMA ClientKept ==
  ASSUME SystemInvariant, UNCHANGED clientVars, signed \subseteq signed',
         Invariant', InOrder', OwnSession'
  PROVE  SystemInvariant'
<1>1. Submitting'
  BY DEF SystemInvariant, Submitting, Submission, clientVars
<1>2. StoredClaimsGenuine'
  BY DEF SystemInvariant, StoredClaimsGenuine, clientVars
<1> QED BY <1>1, <1>2 DEF SystemInvariant

(* webproof-notarize, run by demo d.                                       *)
LEMMA RunNotarizePreserves ==
  ASSUME SystemInvariant, NEW d \in Demos, RunNotarize(d)
  PROVE  SystemInvariant'
<1>1. ProverStep(d) \/ ProverExit(d)
  BY DEF RunNotarize
<1>2. Invariant'
  BY <1>1, NotarizePreserves DEF SystemInvariant, Demos
<1>3. DOMAIN prover = Demos /\ DOMAIN prover' = Demos
  BY <1>2 DEF SystemInvariant, Invariant, TypeOK, Demos
<1>4. /\ prover[d].step \in 0 .. 6
      /\ \A e \in Demos \ {d} : prover'[e] = prover[e]
      /\ UNCHANGED <<verifier, signed>>
  BY <1>1, <1>3 DEF ProverStep, ProverExit, notarize, OpenOutput, WriteOutput
<1>5. verifier[d].pc = "start"
  BY <1>4 DEF SystemInvariant, InOrder, Done
<1>6. InOrder'
  BY <1>4, <1>5 DEF SystemInvariant, InOrder, RunNotarize, clientVars
<1>7. Alone(d)' => signed = {}
  BY <1>4 DEF Alone, SystemInvariant, InOrder, Done
<1>8. CASE ProverExit(d)
  <2>1. prover'[d].step = -1
    BY <1>3, <1>8 DEF ProverExit, Exited
  <2> QED BY <1>2, <1>4, <1>5, <1>6, <1>7, <2>1, ClientKept
          DEF OwnSession, Alone, RunNotarize, Done
<1>9. CASE notarize(d)
  <2>1. prover'[d].step = 1
    BY <1>3, <1>9 DEF notarize
  <2> QED BY <1>2, <1>4, <1>5, <1>6, <1>7, <2>1, ClientKept
          DEF OwnSession, Alone, RunNotarize, Done
<1>10. ASSUME prover[d].step \in 1 .. 6, prover' = [prover EXCEPT ![d].step = @ + 1]
       PROVE  prover'[d].step = prover[d].step + 1 /\ prover'[d].artifact = prover[d].artifact
  <2>1. DOMAIN prover[d] = {"step", "target", "artifact"}
    BY <1>10 DEF SystemInvariant, Invariant, ProverOutput, Demos, Done
  <2> QED BY <1>3, <1>10, <2>1
<1>11. DOMAIN files = FileNames
  BY DEF SystemInvariant, Invariant, TypeOK
<1>12. CASE OpenOutput(d)
  <2>1. prover'[d].step = prover[d].step + 1 /\ prover'[d].artifact = prover[d].artifact
    BY <1>10, <1>12 DEF OpenOutput
  <2>2. prover'[d].step \in 3 .. Done =>
          prover[d].step \in {3, 5} /\ files'["presentation"] = files["presentation"]
    <3>1. prover'[d].step \in 3 .. Done => prover[d].step \in {3, 5}
      BY <1>12, <2>1 DEF OpenOutput, Done
    <3>2. ASSUME prover[d].step = 3 PROVE Outputs[(prover[d].step + 1) \div 2] = "notary_key"
      BY <3>2 DEF Outputs
    <3>3. ASSUME prover[d].step = 5 PROVE Outputs[(prover[d].step + 1) \div 2] = "request"
      BY <3>3 DEF Outputs
    <3> QED BY <1>11, <1>12, <3>1, <3>2, <3>3 DEF OpenOutput
  <2>3. OwnSession'
    BY <1>4, <1>5, <1>7, <2>1, <2>2 DEF SystemInvariant, OwnSession, Alone, Done
  <2> QED BY <1>2, <1>4, <1>6, <2>3, ClientKept DEF RunNotarize
<1>13. CASE WriteOutput(d)
  <2>1. prover'[d].step = prover[d].step + 1 /\ prover'[d].artifact = prover[d].artifact
    BY <1>10, <1>13 DEF WriteOutput
  <2>2. prover[d].step = 2 => files'["presentation"].session = prover[d].artifact.session
    <3> SUFFICES ASSUME prover[d].step = 2
                 PROVE  files'["presentation"].session = prover[d].artifact.session
      OBVIOUS
    <3>1. PICK s : prover[d].artifact = build_presentation(s)
      BY DEF SystemInvariant, Invariant, ProverOutput, Demos, Done
    <3>2. Outputs[prover[d].step \div 2] = "presentation"
      BY DEF Outputs
    <3>3. files' \in {[files EXCEPT !["presentation"] = Content(d, "presentation")],
                     [files EXCEPT !["presentation"] =
                        WithTail("presentation", Content(d, "presentation"))]}
      BY <1>13, <3>2 DEF WriteOutput
    <3>4. /\ Content(d, "presentation") = build_presentation(s)
          /\ WithTail("presentation", build_presentation(s))
               = [build_presentation(s) EXCEPT !.tail = TRUE]
      BY <3>1 DEF Content, WithTail
    <3>5. /\ Content(d, "presentation").session = s
          /\ WithTail("presentation", Content(d, "presentation")).session = s
      BY <3>4, SessionKept, Zenon
    <3>6. files'["presentation"].session = s
      BY <1>11, <3>3, <3>5 DEF FileNames
    <3> QED BY <3>1, <3>6, SessionKept
  <2>3. prover[d].step # 2 => files'["presentation"] = files["presentation"]
    <3>1. ASSUME prover[d].step = 4 PROVE Outputs[prover[d].step \div 2] = "notary_key"
      BY <3>1 DEF Outputs
    <3>2. ASSUME prover[d].step = 6 PROVE Outputs[prover[d].step \div 2] = "request"
      BY <3>2 DEF Outputs
    <3>3. prover[d].step # 2 => Outputs[prover[d].step \div 2] \in {"notary_key", "request"}
      BY <1>13, <3>1, <3>2 DEF WriteOutput
    <3>4. \E content : files' = [files EXCEPT ![Outputs[prover[d].step \div 2]] = content]
      BY <1>13 DEF WriteOutput
    <3> QED BY <1>11, <3>3, <3>4 DEF FileNames
  <2>4. prover[d].step \in {2, 4, 6}
    BY <1>13 DEF WriteOutput
  <2>5. OwnSession'
    BY <1>4, <1>5, <1>7, <2>1, <2>2, <2>3, <2>4 DEF SystemInvariant, OwnSession, Alone, Done
  <2> QED BY <1>2, <1>4, <1>6, <2>5, ClientKept DEF RunNotarize
<1> QED BY <1>1, <1>8, <1>9, <1>12, <1>13 DEF ProverStep

(* webproof-verify-sign, run by demo d.                                    *)
LEMMA RunVerifySignPreserves ==
  ASSUME SystemInvariant, NEW d \in Demos, RunVerifySign(d)
  PROVE  SystemInvariant'
<1>1. /\ prover[d].step = Done
      /\ VerifierStep(d) \/ VerifierKilled(d)
      /\ UNCHANGED clientVars
  BY DEF RunVerifySign
<1>2. d \in Verifiers
  BY SystemAssumption DEF Demos
<1>3. Invariant'
  BY <1>1, <1>2, VerifySignPreserves DEF SystemInvariant
<1>4. DOMAIN verifier = Demos
  BY SystemAssumption DEF SystemInvariant, Invariant, TypeOK, Demos
<1>5. /\ verifier[d].pc # "done"
      /\ verifier'[d].pc # "start"
      /\ \A e \in Demos \ {d} : verifier'[e] = verifier[e]
      /\ UNCHANGED prover
      /\ files'["presentation"] = files["presentation"]
  <2>1. CASE VerifierFails(d) /\ verifier[d].pc # "done"
    BY <1>4, <2>1 DEF VerifierFails
  <2>2. CASE ReadPresentation(d) \/ ReadRequest(d) \/ ReadKeys(d)
    BY <1>4, <2>1, <2>2 DEF ReadPresentation, ReadRequest, ReadKeys
  <2>3. CASE verify_and_sign(d)
    BY <1>4, <2>1, <2>3 DEF verify_and_sign
  <2>4. CASE OpenSignedClaim(d)
    <3>1. DOMAIN verifier[d] = {"pc", "file"}
      BY <1>2, <2>4 DEF OpenSignedClaim, SystemInvariant, Invariant, OutputSigned
    <3> QED BY <1>4, <2>4, <3>1 DEF OpenSignedClaim, SystemInvariant, Invariant, TypeOK, FileNames
  <2>5. CASE WriteSignedClaim(d)
    BY <1>4, <2>5 DEF WriteSignedClaim, SystemInvariant, Invariant, TypeOK, FileNames
  <2>6. CASE VerifierKilled(d)
    BY <2>1, <2>6 DEF VerifierKilled
  <2> QED BY <1>1, <2>2, <2>3, <2>4, <2>5, <2>6 DEF VerifierStep
<1>6. InOrder'
  BY <1>1, <1>5 DEF SystemInvariant, InOrder, clientVars
<1>7. ASSUME NEW e \in Demos, Alone(e)' PROVE e = d /\ Alone(d)
  BY <1>1, <1>5, <1>7 DEF Alone, Done
<1>8. Alone(d) => files["presentation"].session = prover[d].artifact.session
  BY <1>1 DEF SystemInvariant, OwnSession, Done
<1>9. Alone(d) =>
        /\ verifier[d].pc \in {"request", "keys", "sign"} =>
             verifier[d].artifact.session = prover[d].artifact.session
        /\ \A s \in signed : Preimage(s.file.claim.provenance_hash).session
                              = prover[d].artifact.session
  BY DEF SystemInvariant, OwnSession
<1>10. CASE signed' = signed
  <2>1. verifier'[d].pc \in {"request", "keys", "sign"} =>
          \/ verifier'[d].artifact = files["presentation"]
          \/ /\ verifier[d].pc \in {"request", "keys", "sign"}
             /\ verifier'[d].artifact = verifier[d].artifact
    <3>1. CASE VerifierFails(d)
      BY <1>4, <3>1 DEF VerifierFails
    <3>2. CASE ReadPresentation(d) /\ ~VerifierFails(d)
      BY <1>4, <3>2 DEF ReadPresentation
    <3>3. CASE ReadRequest(d) /\ ~VerifierFails(d)
      BY <1>4, <3>3 DEF ReadRequest
    <3>4. CASE ReadKeys(d) /\ ~VerifierFails(d)
      BY <1>4, <3>4 DEF ReadKeys
    <3>5. CASE verify_and_sign(d) /\ ~VerifierFails(d)
      BY <1>4, <3>5 DEF verify_and_sign
    <3>6. CASE OpenSignedClaim(d)
      <4>1. DOMAIN verifier[d] = {"pc", "file"}
        BY <1>2, <3>6 DEF OpenSignedClaim, SystemInvariant, Invariant, OutputSigned
      <4> QED BY <1>4, <3>6, <4>1 DEF OpenSignedClaim
    <3>7. CASE WriteSignedClaim(d)
      BY <1>4, <3>7 DEF WriteSignedClaim
    <3> QED BY <1>1, <3>1, <3>2, <3>3, <3>4, <3>5, <3>6, <3>7 DEF VerifierStep, VerifierKilled
  <2>2. OwnSession'
    BY <1>5, <1>7, <1>8, <1>9, <1>10, <2>1 DEF OwnSession
  <2> QED BY <1>1, <1>3, <1>6, <1>10, <2>2, ClientKept
<1>11. CASE signed' # signed
  <2>1. verify_and_sign(d) /\ ~VerifierFails(d)
    BY <1>1, <1>11 DEF VerifierStep, VerifierKilled, VerifierFails, ReadPresentation, ReadRequest,
       ReadKeys, OpenSignedClaim, WriteSignedClaim
  <2> DEFINE a == verifier[d].artifact
             r == verifier[d].request
             file(now, ttl, key) ==
               SignedClaim(unsigned_claim(from_verified_presentation(a), r.field, now, ttl, d),
                           key)
  <2>2. PICK now, ttl, key :
          /\ signed' = signed \cup {[file |-> file(now, ttl, key), url |-> r.url]}
          /\ verifier' = [verifier EXCEPT ![d] = [pc |-> "open", file |-> file(now, ttl, key)]]
    BY <2>1 DEF verify_and_sign
  <2> DEFINE f == file(now, ttl, key)
  <2>3. verifier[d].pc = "sign"
    BY <2>1 DEF verify_and_sign
  <2>4. Preimage(f.claim.provenance_hash) = a
    BY HashOfArtifact
  <2> HIDE DEF f, file, a, r
  <2>5. signed' = signed \cup {[file |-> f, url |-> r.url]}
    BY <2>2 DEF f
  <2>6. \A s \in signed' : s \in signed \/ s.file = f
    BY <2>5
  <2>7. verifier'[d].pc = "open"
    BY <1>4, <2>2
  <2>8. Alone(d) => \A s \in signed' :
          Preimage(s.file.claim.provenance_hash).session = prover[d].artifact.session
    BY <1>9, <2>3, <2>4, <2>6 DEF a
  <2>9. OwnSession'
    BY <1>5, <1>7, <1>8, <2>7, <2>8 DEF OwnSession
  <2>10. signed \subseteq signed'
    BY <2>5
  <2> QED BY <1>1, <1>3, <1>6, <2>9, <2>10, ClientKept
<1> QED BY <1>10, <1>11

-----------------------------------------------------------------------------
(* The command and the chain.                                              *)

(* The fields of a command and of its transaction.                         *)
CommandNames == {"pc", "kind", "file", "tx", "deadline"}
TxNames == {"kind", "status", "life"}

(* The claim and the key that x submits are those of some signed claim.    *)
FromSigned(x) ==
  \E s \in signed :
    /\ C!serializeClaim(x.file.claim) = canonical_bytes(s.file.claim)
    /\ x.file.verifier_public_key = s.file.verifier_public_key

(* A step that leaves the directory alone.                                 *)
LEMMA DirKept ==
  ASSUME SystemInvariant, UNCHANGED dirVars
  PROVE  Invariant' /\ OwnSession'
<1>1. Invariant'
  BY NextPreserves DEF SystemInvariant, dirVars, vars
<1>2. OwnSession'
  BY DEF SystemInvariant, OwnSession, Alone, dirVars
<1> QED BY <1>1, <1>2

(* A step of one command, during which accounts may be added.              *)
LEMMA CommandStepPreserves ==
  ASSUME SystemInvariant, UNCHANGED dirVars, NEW d \in Demos, NEW new,
         run' = [run EXCEPT ![d] = new], verifier[d].pc = "done", new.pc # "start",
         DOMAIN new = CommandNames, DOMAIN new.tx = TxNames, new.kind = "demo",
         new.pc = "unparsed" => new.tx.status = "none",
         new.pc \in {"sent", "confirming"} => new.tx.kind \in {"init", "submit"},
         new.pc = "ok" => stored # {},
         new.pc # "unparsed" => FromSigned(new),
         stored \subseteq stored',
         StoredClaimsGenuine'
  PROVE  SystemInvariant'
<1>1. DOMAIN run = Demos
  BY DEF SystemInvariant, Submitting
<1>2. DOMAIN run' = Demos /\ \A e \in Demos : run'[e] = IF e = d THEN new ELSE run[e]
  BY <1>1
<1>3. InOrder'
  BY <1>2 DEF SystemInvariant, InOrder, dirVars
<1>4. Submitting'
  <2> SUFFICES ASSUME NEW e \in Demos, run'[e].pc # "start" PROVE Submission(run[e])'
    BY <1>2 DEF Submitting
  <2>1. stored # {} => stored' # {}
    OBVIOUS
  <2>2. signed' = signed
    BY DEF dirVars
  <2>3. CASE e = d
    <3>1. run'[e] = new
      BY <1>2, <2>3
    <3> QED BY <2>1, <2>2, <3>1 DEF Submission, FromSigned, CommandNames, TxNames
  <2>4. CASE e # d
    <3>1. run'[e] = run[e]
      BY <1>2, <2>4
    <3>2. Submission(run[e])
      BY <3>1 DEF SystemInvariant, Submitting
    <3> QED BY <2>1, <2>2, <3>1, <3>2 DEF Submission
  <2> QED BY <2>3, <2>4
<1> QED BY <1>3, <1>4, DirKept DEF SystemInvariant

(* What the invariant says of a command under way.                         *)
LEMMA UnderWay ==
  ASSUME SystemInvariant, NEW d \in Demos, run[d].pc # "start"
  PROVE  /\ DOMAIN run[d] = CommandNames /\ DOMAIN run[d].tx = TxNames
         /\ run[d].kind = "demo" /\ verifier[d].pc = "done"
         /\ run[d].pc = "unparsed" => run[d].tx.status = "none"
         /\ run[d].pc \in {"sent", "confirming"} => run[d].tx.kind \in {"init", "submit"}
         /\ run[d].pc = "ok" => stored # {}
         /\ run[d].pc # "unparsed" => FromSigned(run[d])
BY DEF SystemInvariant, Submitting, Submission, InOrder, CommandNames, TxNames, FromSigned

(* While the accounts stay as they are, so do their claims.                *)
LEMMA ChainKept ==
  ASSUME SystemInvariant, UNCHANGED <<dirVars, config, stored>>
  PROVE  StoredClaimsGenuine' /\ stored \subseteq stored'
BY DEF SystemInvariant, StoredClaimsGenuine, dirVars

(* The command reads what signed-claim.json holds: nothing it can use, or  *)
(* a signed claim that has survived its way through JSON.                  *)
LEMMA ReadPreserves ==
  ASSUME SystemInvariant, NEW d \in Demos, ReadSignedClaim(d)
  PROVE  SystemInvariant'
<1> DEFINE file == IF Readable("signed_claim") THEN files["signed_claim"] ELSE Torn
           usable == IF file = Torn THEN {} ELSE C!parseSignedClaim(file)
           c == CHOOSE x \in usable : TRUE
           loaded == IF usable = {} THEN file ELSE [file EXCEPT !.claim = c]
           new == [pc |-> IF usable = {} THEN "unparsed" ELSE "check_config", kind |-> "demo",
                   file |-> loaded, tx |-> C!NoTx, deadline |-> 0]
<1>1. /\ run' = [run EXCEPT ![d] = new]
      /\ verifier[d].pc = "done"
      /\ UNCHANGED <<dirVars, config, stored>>
  BY DEF ReadSignedClaim, C!Begin
<1>2. usable # {} =>
        \E s \in signed :
          /\ C!serializeClaim(c) = canonical_bytes(s.file.claim)
          /\ loaded.claim = c
          /\ loaded.verifier_public_key = s.file.verifier_public_key
  <2> SUFFICES ASSUME usable # {}
               PROVE  \E s \in signed :
                        /\ C!serializeClaim(c) = canonical_bytes(s.file.claim)
                        /\ loaded.claim = c
                        /\ loaded.verifier_public_key = s.file.verifier_public_key
    OBVIOUS
  <2>1. file # Torn
    OBVIOUS
  <2>2. PICK s \in signed : s.file = file
    BY <2>1 DEF SystemInvariant, Invariant, OutputSigned, Readable
  <2>3. DOMAIN file = FileFields
    BY <2>2 DEF SystemInvariant, Invariant, TypeOK, FileFields
  <2>4. file.claim_id = claim_id(file.claim)
    BY <2>2 DEF SystemInvariant, Invariant, OutputSigned, ProperlySigned
  <2>5. c \in usable
    OBVIOUS
  <2> HIDE DEF c, file
  <2>6. C!claimId(c) = file.claim_id
    BY <2>5 DEF C!parseSignedClaim
  <2>7. C!serializeClaim(c) = canonical_bytes(file.claim)
    BY <2>4, <2>6 DEF C!claimId, C!sha256, claim_id, sha256
  <2>8. loaded = [file EXCEPT !.claim = c]
    OBVIOUS
  <2> HIDE DEF loaded
  <2>9. loaded.claim = c /\ loaded.verifier_public_key = file.verifier_public_key
    BY <2>3, <2>8 DEF FileFields
  <2> QED BY <2>2, <2>7, <2>9
<1> HIDE DEF usable, c, loaded
<1>3. /\ new.pc = IF usable = {} THEN "unparsed" ELSE "check_config"
      /\ new.kind = "demo" /\ new.file = loaded /\ new.tx = C!NoTx
      /\ DOMAIN new = CommandNames
  BY DEF CommandNames
<1>4. DOMAIN C!NoTx = TxNames /\ C!NoTx.status = "none"
  BY DEF C!NoTx, TxNames
<1> HIDE DEF new
<1>5. usable # {} => FromSigned(new)
  BY <1>2, <1>3 DEF FromSigned
<1> QED BY <1>1, <1>3, <1>4, <1>5, CommandStepPreserves, ChainKept

(* A command moves on without touching its transaction or the chain.       *)
LEMMA GotoPreserves ==
  ASSUME SystemInvariant, NEW d \in Demos, NEW pc, C!Goto(d, pc), UNCHANGED dirVars,
         run[d].pc \notin {"start", "unparsed"},
         pc \notin {"start", "unparsed", "sent", "confirming"},
         pc = "ok" => stored # {}
  PROVE  SystemInvariant'
<1> DEFINE moved == [run[d] EXCEPT !.pc = pc]
           new == [moved EXCEPT !.deadline = 0]
<1>1. run' = [run EXCEPT ![d] = new] /\ UNCHANGED <<config, stored>>
  BY DEF C!Goto
<1>2. /\ DOMAIN run[d] = CommandNames /\ DOMAIN run[d].tx = TxNames
      /\ run[d].kind = "demo" /\ verifier[d].pc = "done" /\ FromSigned(run[d])
  BY UnderWay
<1>3. /\ DOMAIN moved = CommandNames /\ moved.pc = pc
      /\ moved.kind = run[d].kind /\ moved.file = run[d].file /\ moved.tx = run[d].tx
  BY <1>2 DEF CommandNames
<1> HIDE DEF moved
<1>4. /\ DOMAIN new = CommandNames /\ new.pc = pc
      /\ new.kind = run[d].kind /\ new.file = run[d].file /\ new.tx = run[d].tx
  BY <1>3 DEF CommandNames
<1> HIDE DEF new
<1>5. FromSigned(new)
  BY <1>2, <1>4 DEF FromSigned
<1> QED BY <1>1, <1>2, <1>4, <1>5, CommandStepPreserves, ChainKept

(* A transaction passes the simulation and is on its way, or the command   *)
(* ends.                                                                   *)
LEMMA SendPreserves ==
  ASSUME SystemInvariant, NEW d \in Demos, NEW kind \in {"init", "submit"}, C!Send(d, kind),
         UNCHANGED dirVars, run[d].pc \in {"send_init", "send_submit"}
  PROVE  SystemInvariant'
<1>1. CASE C!Goto(d, "failed")
  BY <1>1, GotoPreserves
<1>2. CASE ~C!Goto(d, "failed")
  <2> DEFINE tx == [kind |-> kind, status |-> "pending", life |-> Window]
  <2>1. PICK pc \in {"sent", "failed"} :
          run' = [run EXCEPT ![d].pc = pc, ![d].tx = tx]
    BY <1>2 DEF C!Send
  <2>2. UNCHANGED <<config, stored>>
    BY <1>2 DEF C!Send
  <2> DEFINE moved == [run[d] EXCEPT !.pc = pc]
             new == [moved EXCEPT !.tx = tx]
  <2>3. run' = [run EXCEPT ![d] = new]
    BY <2>1
  <2>4. /\ DOMAIN run[d] = CommandNames /\ run[d].kind = "demo"
        /\ verifier[d].pc = "done" /\ FromSigned(run[d])
    BY UnderWay
  <2>5. DOMAIN tx = TxNames /\ tx.kind = kind
    BY DEF TxNames
  <2> HIDE DEF tx
  <2>6. /\ DOMAIN moved = CommandNames /\ moved.pc = pc
        /\ moved.kind = run[d].kind /\ moved.file = run[d].file
    BY <2>4 DEF CommandNames
  <2> HIDE DEF moved
  <2>7. /\ DOMAIN new = CommandNames /\ new.pc = pc
        /\ new.kind = run[d].kind /\ new.file = run[d].file /\ new.tx = tx
    BY <2>6 DEF CommandNames
  <2> HIDE DEF new
  <2>8. FromSigned(new)
    BY <2>4, <2>7 DEF FromSigned
  <2> QED BY <2>2, <2>3, <2>4, <2>5, <2>7, <2>8, CommandStepPreserves, ChainKept
<1> QED BY <1>1, <1>2

(* Whatever a command does next.                                           *)
LEMMA SubmitPreserves ==
  ASSUME SystemInvariant, NEW d \in Demos, Submit(d)
  PROVE  SystemInvariant'
<1>1. UNCHANGED dirVars /\ (C!Progress(d) \/ C!Interrupted(d))
  BY DEF Submit
<1>2. CASE C!CheckConfig(d)
  <2>1. PICK pc \in {"send_init", "send_submit"} : C!Goto(d, pc)
    BY <1>2 DEF C!CheckConfig
  <2> QED BY <1>1, <1>2, <2>1, GotoPreserves DEF C!CheckConfig
<1>3. CASE C!initializeConfig(d)
  BY <1>1, <1>3, SendPreserves DEF C!initializeConfig
<1>4. CASE C!submitClaim(d)
  <2>1. run[d].pc = "send_submit" /\ (C!Send(d, "submit") \/ C!Goto(d, "too_large"))
    BY <1>4 DEF C!submitClaim
  <2> QED BY <1>1, <2>1, SendPreserves, GotoPreserves
<1>5. CASE C!confirm(d)
  <2> DEFINE moved == [run[d] EXCEPT !.pc = "confirming"]
             new == [moved EXCEPT !.deadline = Window]
  <2>1. run[d].pc = "sent" /\ run' = [run EXCEPT ![d] = new] /\ UNCHANGED <<config, stored>>
    BY <1>5 DEF C!confirm
  <2>2. /\ DOMAIN run[d] = CommandNames /\ DOMAIN run[d].tx = TxNames
        /\ run[d].kind = "demo" /\ run[d].tx.kind \in {"init", "submit"}
        /\ verifier[d].pc = "done" /\ FromSigned(run[d])
    BY <2>1, UnderWay
  <2>3. /\ DOMAIN moved = CommandNames /\ moved.pc = "confirming"
        /\ moved.kind = run[d].kind /\ moved.file = run[d].file /\ moved.tx = run[d].tx
    BY <2>2 DEF CommandNames
  <2> HIDE DEF moved
  <2>4. /\ DOMAIN new = CommandNames /\ new.pc = "confirming"
        /\ new.kind = run[d].kind /\ new.file = run[d].file /\ new.tx = run[d].tx
    BY <2>3 DEF CommandNames
  <2> HIDE DEF new
  <2>5. FromSigned(new)
    BY <2>2, <2>4 DEF FromSigned
  <2> QED BY <1>1, <2>1, <2>2, <2>4, <2>5, CommandStepPreserves, ChainKept
<1>6. CASE C!Confirmed(d)
  <2>1. run[d].pc = "confirming"
    BY <1>6 DEF C!Confirmed
  <2>2. run[d].kind = "demo" /\ run[d].tx.kind \in {"init", "submit"}
    BY <2>1, UnderWay
  <2>3. CASE run[d].tx.kind = "init"
    <3>1. C!Goto(d, "send_submit")
      BY <1>6, <2>2, <2>3 DEF C!Confirmed
    <3> QED BY <1>1, <2>1, <3>1, GotoPreserves
  <2>4. CASE run[d].tx.kind = "submit"
    <3>1. C!Goto(d, "check_stored")
      BY <1>6, <2>2, <2>4 DEF C!Confirmed
    <3> QED BY <1>1, <2>1, <3>1, GotoPreserves
  <2> QED BY <2>2, <2>3, <2>4
<1>7. CASE C!Expired(d)
  BY <1>1, <1>7, GotoPreserves DEF C!Expired
<1>8. CASE C!CheckStored(d)
  <2>1. run[d].pc = "check_stored"
    BY <1>8 DEF C!CheckStored
  <2>2. C!Goto(d, "failed") \/ (C!Goto(d, "ok") /\ stored # {})
    BY <1>8 DEF C!CheckStored
  <2> QED BY <1>1, <2>1, <2>2, GotoPreserves
<1>9. CASE C!Interrupted(d)
  BY <1>1, <1>9, GotoPreserves DEF C!Interrupted, C!Final
<1> QED BY <1>1, <1>2, <1>3, <1>4, <1>5, <1>6, <1>7, <1>8, <1>9 DEF C!Progress

(* Before there is a key, nothing is stored.                               *)
LEMMA NothingWithoutKey ==
  ASSUME SystemInvariant, config = NoKey
  PROVE  stored = {}
<1>1. ASSUME NEW data \in stored PROVE FALSE
  <2>1. PICK s \in signed : s.file.verifier_public_key = config
    BY <1>1 DEF SystemInvariant, StoredClaimsGenuine
  <2>2. config \in SignerSeeds
    BY <2>1 DEF SystemInvariant, Invariant, OutputSigned, ProperlySigned
  <2> QED BY <2>2, SystemAssumption
<1> QED BY <1>1

(* A transaction lands: init sets the key if there is none, submit stores  *)
(* a claim that some run has signed with it.                               *)
LEMMA LandPreserves ==
  ASSUME SystemInvariant, NEW d \in Demos, C!Land(d), UNCHANGED dirVars
  PROVE  SystemInvariant'
<1> DEFINE kind == run[d].tx.kind
           ok == C!Succeeds(d, kind)
           status == IF ok THEN "ok" ELSE "err"
           landed == [run[d].tx EXCEPT !.status = status]
           tx == [landed EXCEPT !.life = 0]
           new == [run[d] EXCEPT !.tx = tx]
           c == run[d].file.claim
<1>1. run[d].pc # "start" /\ run[d].tx.status = "pending"
  BY DEF C!Land, C!Pending
<1>2. /\ run' = [run EXCEPT ![d] = new]
      /\ config' = IF ok /\ kind = "init" THEN run[d].file.verifier_public_key ELSE config
      /\ stored' = IF ok /\ kind = "submit"
                   THEN stored \cup {C!account_data(c, C!claim_id(c), d)} ELSE stored
  BY DEF C!Land
<1>3. /\ DOMAIN run[d] = CommandNames /\ DOMAIN run[d].tx = TxNames
      /\ run[d].kind = "demo" /\ verifier[d].pc = "done"
      /\ run[d].pc # "unparsed" /\ FromSigned(run[d])
      /\ run[d].pc \in {"sent", "confirming"} => run[d].tx.kind \in {"init", "submit"}
      /\ run[d].pc = "ok" => stored # {}
  BY <1>1, UnderWay
<1> HIDE DEF status, ok
<1>4. DOMAIN landed = TxNames /\ landed.kind = kind
  BY <1>3 DEF TxNames
<1> HIDE DEF landed
<1>5. DOMAIN tx = TxNames /\ tx.kind = kind
  BY <1>4 DEF TxNames
<1> HIDE DEF tx
<1>6. /\ DOMAIN new = CommandNames /\ new.pc = run[d].pc
      /\ new.kind = run[d].kind /\ new.file = run[d].file /\ new.tx = tx
  BY <1>3 DEF CommandNames
<1> HIDE DEF new
<1>7. FromSigned(new)
  BY <1>3, <1>6 DEF FromSigned
<1>8. StoredClaimsGenuine'
  <2>1. CASE ok /\ kind = "init"
    <3>1. config = NoKey
      BY <2>1 DEF ok, C!Succeeds
    <3>2. stored' = {}
      BY <1>2, <2>1, <3>1, NothingWithoutKey
    <3> QED BY <3>2 DEF StoredClaimsGenuine
  <2>2. CASE ok /\ kind = "submit"
    <3> DEFINE data == C!account_data(c, C!claim_id(c), d)
    <3>1. config = run[d].file.verifier_public_key
      BY <2>2 DEF ok, C!Succeeds, C!submit_accepted
    <3>2. PICK s \in signed :
            /\ C!serializeClaim(c) = canonical_bytes(s.file.claim)
            /\ run[d].file.verifier_public_key = s.file.verifier_public_key
      BY <1>3 DEF FromSigned
    <3>3. config' = config /\ stored' = stored \cup {data} /\ signed' = signed
      BY <1>2, <2>2 DEF dirVars
    <3>4. C!Shows(C!decodeVerifiedClaim(data), s.file.claim)
      <4> HIDE DEF c
      <4>1. /\ c.source_host = s.file.claim.source_host
            /\ c.request_path_hash = s.file.claim.request_path_hash
            /\ c.claim_key = s.file.claim.claim_key
            /\ c.claim_value = s.file.claim.claim_value
            /\ c.issued_at = s.file.claim.issued_at
            /\ c.expires_at = s.file.claim.expires_at
            /\ c.provenance_hash = s.file.claim.provenance_hash
            /\ C!claim_id(c) = C!claim_id(s.file.claim)
        BY <3>2, EncodingDetermines
      <4> QED BY <4>1 DEF C!Shows, C!decodeVerifiedClaim, C!account_data
    <3>5. Attested(s.file.claim)
      BY DEF SystemInvariant, Invariant, SignedClaimsAttested
    <3> HIDE DEF data
    <3> QED BY <3>1, <3>2, <3>3, <3>4, <3>5 DEF SystemInvariant, StoredClaimsGenuine
  <2>3. CASE ~(ok /\ kind \in {"init", "submit"})
    BY <1>2, <2>3, ChainKept
  <2> QED BY <2>1, <2>2, <2>3
<1>9. stored \subseteq stored'
  BY <1>2
<1>10. run' = [run EXCEPT ![d] = new]
  BY <1>2
<1>11. /\ new.pc # "start" /\ new.pc # "unparsed" /\ new.kind = "demo"
       /\ DOMAIN new.tx = TxNames
       /\ new.pc \in {"sent", "confirming"} => new.tx.kind \in {"init", "submit"}
       /\ new.pc = "ok" => stored # {}
  BY <1>1, <1>3, <1>5, <1>6
<1> QED BY <1>3, <1>6, <1>7, <1>8, <1>9, <1>10, <1>11, CommandStepPreserves

(* A block makes every transaction and every deadline older by one.        *)
LEMMA NewBlockPreserves ==
  ASSUME SystemInvariant, C!NewBlock, UNCHANGED dirVars
  PROVE  SystemInvariant'
<1> DEFINE aged(d) == [run[d].tx EXCEPT !.life = C!Older(@)]
           waited(d) == [run[d] EXCEPT !.tx = aged(d)]
           new(d) == [waited(d) EXCEPT !.deadline = C!Older(@)]
<1>1. /\ run' = [d \in Demos |-> IF run[d].pc = "start" THEN run[d] ELSE new(d)]
      /\ UNCHANGED <<config, stored>>
  BY DEF C!NewBlock
<1>2. ASSUME NEW d \in Demos, run[d].pc # "start"
      PROVE  /\ DOMAIN new(d) = CommandNames /\ DOMAIN new(d).tx = TxNames
             /\ new(d).pc = run[d].pc /\ new(d).kind = run[d].kind
             /\ new(d).file = run[d].file
             /\ new(d).tx.kind = run[d].tx.kind /\ new(d).tx.status = run[d].tx.status
  <2>1. DOMAIN run[d] = CommandNames /\ DOMAIN run[d].tx = TxNames
    BY <1>2, UnderWay
  <2>2. /\ DOMAIN aged(d) = TxNames /\ aged(d).kind = run[d].tx.kind
        /\ aged(d).status = run[d].tx.status
    BY <2>1 DEF TxNames
  <2> HIDE DEF aged
  <2>3. /\ DOMAIN waited(d) = CommandNames /\ waited(d).pc = run[d].pc
        /\ waited(d).kind = run[d].kind /\ waited(d).file = run[d].file
        /\ waited(d).tx = aged(d)
    BY <2>1 DEF CommandNames
  <2> HIDE DEF waited
  <2> QED BY <2>2, <2>3 DEF CommandNames
<1> HIDE DEF new
<1>3. DOMAIN run' = Demos /\ \A d \in Demos : run'[d].pc = run[d].pc
  BY <1>1, <1>2
<1>4. \A d \in Demos : run[d].pc # "start" => run'[d] = new(d)
  BY <1>1
<1>5. InOrder'
  BY <1>3 DEF SystemInvariant, InOrder, dirVars
<1>6. Submitting'
  <2> SUFFICES ASSUME NEW d \in Demos, run'[d].pc # "start" PROVE Submission(run[d])'
    BY <1>3 DEF Submitting
  <2>1. run[d].pc # "start" /\ run'[d] = new(d)
    BY <1>3, <1>4
  <2>2. Submission(run[d])
    BY <2>1 DEF SystemInvariant, Submitting
  <2>3. stored' = stored /\ signed' = signed
    BY <1>1 DEF dirVars
  <2>4. /\ DOMAIN run'[d] = CommandNames /\ DOMAIN run'[d].tx = TxNames
        /\ run'[d].pc = run[d].pc /\ run'[d].kind = run[d].kind
        /\ run'[d].file = run[d].file
        /\ run'[d].tx.kind = run[d].tx.kind /\ run'[d].tx.status = run[d].tx.status
    BY <1>2, <2>1
  <2> QED BY <2>2, <2>3, <2>4 DEF Submission, CommandNames, TxNames
<1> QED BY <1>1, <1>5, <1>6, DirKept, ChainKept DEF SystemInvariant

-----------------------------------------------------------------------------
(* The invariant holds before any demo starts.                             *)
LEMMA SystemInitInvariant == SystemInit => SystemInvariant
<1> SUFFICES ASSUME SystemInit PROVE SystemInvariant
  OBVIOUS
<1>1. Invariant
  BY InitInvariant DEF SystemInit
<1>2. InOrder /\ OwnSession
  BY SystemAssumption DEF SystemInit, Init, C!Init, InOrder, OwnSession, Demos, Done
<1>3. Submitting /\ StoredClaimsGenuine
  BY DEF SystemInit, C!Init, Submitting, StoredClaimsGenuine
<1> QED BY <1>1, <1>2, <1>3 DEF SystemInvariant

(* Every step of a demo or of the chain preserves the invariant.           *)
LEMMA SystemNextPreserves == SystemInvariant /\ [SystemNext]_systemVars => SystemInvariant'
<1> SUFFICES ASSUME SystemInvariant, [SystemNext]_systemVars PROVE SystemInvariant'
  OBVIOUS
<1>1. ASSUME UNCHANGED <<dirVars, config, stored, run>> PROVE SystemInvariant'
  <2>1. InOrder' /\ Submitting'
    BY <1>1 DEF SystemInvariant, InOrder, Submitting, Submission, dirVars
  <2> QED BY <1>1, <2>1, DirKept, ChainKept DEF SystemInvariant
<1>2. CASE UNCHANGED systemVars
  BY <1>1, <1>2 DEF systemVars, clientVars
<1>3. ASSUME NEW d \in Demos,
             RunNotarize(d) \/ RunVerifySign(d) \/ ReadSignedClaim(d) \/ Submit(d)
      PROVE  SystemInvariant'
  BY <1>3, RunNotarizePreserves, RunVerifySignPreserves, ReadPreserves, SubmitPreserves
<1>4. CASE Chain
  <2>1. CASE C!NewBlock
    BY <1>4, <2>1, NewBlockPreserves DEF Chain
  <2>2. ASSUME NEW d \in Demos, C!Land(d) PROVE SystemInvariant'
    BY <1>4, <2>2, LandPreserves DEF Chain
  <2>3. ASSUME NEW d \in Demos, C!ClaimExpires(d) PROVE SystemInvariant'
    BY <1>1, <1>4, <2>3 DEF Chain, C!ClaimExpires
  <2> QED BY <1>4, <2>1, <2>2, <2>3 DEF Chain
<1> QED BY <1>2, <1>3, <1>4 DEF SystemNext

(* The inductive invariant of the pipeline: programs run in their order,   *)
(* what is submitted was signed, and a lone demo meets only its own        *)
(* session.                                                                *)
THEOREM SystemInvariantHolds == SystemSpec => []SystemInvariant
BY SystemInitInvariant, SystemNextPreserves, PTL DEF SystemSpec

(* Every stored claim was signed with the configured key and is true of a  *)
(* genuine session with an allowed host, however demos overlap, crash and  *)
(* race.                                                                   *)
THEOREM StoredAreGenuine == SystemSpec => []StoredClaimsGenuine
<1>1. SystemInvariant => StoredClaimsGenuine
  BY DEF SystemInvariant
<1> QED BY <1>1, SystemInvariantHolds, PTL

(* A demo that ends well, and is alone, has stored a claim about the       *)
(* session it has notarised itself.                                        *)
THEOREM DemoStoresItsOwn == SystemSpec => []DemoStoresOwn
<1>1. ASSUME SystemInvariant PROVE DemoStoresOwn
  <2> SUFFICES ASSUME NEW d \in Demos, run[d].pc = "ok", Alone(d)
               PROVE  /\ prover[d].step = Done
                      /\ \E data \in stored :
                           Preimage(C!decodeVerifiedClaim(data).provenanceHash).session
                             = prover[d].artifact.session
    BY DEF DemoStoresOwn
  <2>1. stored # {} /\ verifier[d].pc = "done"
    BY <1>1, UnderWay
  <2>2. prover[d].step = Done
    BY <1>1, <2>1 DEF SystemInvariant, InOrder
  <2>3. PICK data \in stored : TRUE
    BY <2>1
  <2>4. PICK s \in signed : C!Shows(C!decodeVerifiedClaim(data), s.file.claim)
    BY <1>1 DEF SystemInvariant, StoredClaimsGenuine
  <2>5. C!decodeVerifiedClaim(data).provenanceHash = s.file.claim.provenance_hash
    BY <2>4 DEF C!Shows
  <2>6. Preimage(s.file.claim.provenance_hash).session = prover[d].artifact.session
    BY <1>1 DEF SystemInvariant, OwnSession
  <2> QED BY <2>2, <2>5, <2>6
<1> QED BY <1>1, SystemInvariantHolds, PTL

(* signed-claim.json holds only signed claims in the composed system too.  *)
THEOREM SystemOutputIsSigned == SystemSpec => []SignedFileIsSigned
<1>1. SystemInvariant => SignedFileIsSigned
  BY DEF SystemInvariant, Invariant, OutputSigned, SignedFileIsSigned, Readable
<1> QED BY <1>1, SystemInvariantHolds, PTL

(* What lands was signed, by the key that is configured.                   *)
LEMMA LandPublishes ==
  ASSUME SystemInvariant, NEW d \in Demos, C!Land(d), UNCHANGED dirVars
  PROVE  LET Entries == {data[2] : data \in stored}
         IN /\ config' # config => config = NoKey
            /\ Entries \subseteq Entries'
            /\ \A id \in Entries' \ Entries :
                 <<config', id>> \in
                   {<<s.file.verifier_public_key, claim_id(s.file.claim)>> : s \in signed}
<1> DEFINE Entries == {data[2] : data \in stored}
           c == run[d].file.claim
           data0 == C!account_data(c, C!claim_id(c), d)
<1>1. config' # config => config = NoKey
  BY DEF C!Land, C!Succeeds
<1>2. CASE stored' = stored
  BY <1>1, <1>2
<1>3. CASE stored' # stored
  <2>1. /\ C!submit_accepted(run[d].file)
        /\ stored' = stored \cup {data0}
        /\ config' = config
    BY <1>3 DEF C!Land, C!Succeeds
  <2>2. config = run[d].file.verifier_public_key
    BY <2>1 DEF C!submit_accepted
  <2>3. run[d].pc # "start" /\ run[d].tx.status = "pending"
    BY DEF C!Land, C!Pending
  <2>4. FromSigned(run[d])
    BY <2>3, UnderWay
  <2>5. PICK s \in signed :
          /\ C!serializeClaim(c) = canonical_bytes(s.file.claim)
          /\ run[d].file.verifier_public_key = s.file.verifier_public_key
    BY <2>4 DEF FromSigned
  <2>6. C!claim_id(c) = claim_id(s.file.claim)
    BY <2>5, EncodingDetermines
  <2>7. data0[2] = C!claim_id(c)
    BY DEF C!account_data
  <2> HIDE DEF data0
  <2>8. Entries' = Entries \cup {claim_id(s.file.claim)}
    BY <2>1, <2>6, <2>7
  <2> QED BY <2>1, <2>2, <2>5, <2>8
<1> QED BY <1>2, <1>3

(* webproof-notarize signs nothing, and webproof-verify-sign takes back    *)
(* nothing that it has signed.                                             *)
LEMMA SignedOnlyGrows ==
  ASSUME NEW d \in Demos, RunNotarize(d) \/ RunVerifySign(d)
  PROVE  signed \subseteq signed'
<1>1. CASE RunNotarize(d)
  BY <1>1 DEF RunNotarize, ProverStep, ProverExit, notarize, OpenOutput, WriteOutput
<1>2. CASE RunVerifySign(d)
  BY <1>2 DEF RunVerifySign, VerifierStep, VerifierKilled, VerifierFails, ReadPresentation,
     ReadRequest, ReadKeys, verify_and_sign, OpenSignedClaim, WriteSignedClaim
<1> QED BY <1>1, <1>2

(* The pipeline as a whole implements the ledger that the program          *)
(* implements for its callers: signing attests, landing publishes.         *)
THEOREM SystemImplementsLedger == SystemSpec => ImplementsLedger
<1> DEFINE Entries == {data[2] : data \in stored}
           Signatures ==
             {<<s.file.verifier_public_key, claim_id(s.file.claim)>> : s \in signed}
<1>1. SystemInit => L!Init
  BY DEF SystemInit, C!Init, L!Init
<1>2. SystemInvariant /\ [SystemNext]_systemVars => [L!Attest \/ L!Publish]_L!vars
  <2> SUFFICES ASSUME SystemInvariant, [SystemNext]_systemVars
               PROVE  \/ /\ Signatures \subseteq Signatures'
                         /\ UNCHANGED <<config, Entries>>
                      \/ /\ config' # config => config = NoKey
                         /\ Entries \subseteq Entries'
                         /\ \A id \in Entries' \ Entries : <<config', id>> \in Signatures
                         /\ UNCHANGED Signatures
    BY DEF L!vars, L!Attest, L!Publish
  <2>1. CASE signed \subseteq signed' /\ UNCHANGED <<config, stored>>
    BY <2>1
  <2>2. ASSUME NEW d \in Demos, RunNotarize(d) \/ RunVerifySign(d)
        PROVE  signed \subseteq signed' /\ UNCHANGED <<config, stored>>
    BY <2>2, SignedOnlyGrows DEF RunNotarize, RunVerifySign, clientVars
  <2>3. ASSUME NEW d \in Demos, ReadSignedClaim(d) \/ Submit(d)
        PROVE  UNCHANGED <<signed, config, stored>>
    BY <2>3 DEF ReadSignedClaim, Submit, C!Progress, C!Interrupted, C!CheckConfig,
       C!initializeConfig, C!submitClaim, C!confirm, C!Confirmed, C!Expired, C!CheckStored,
       C!Send, C!Goto, dirVars
  <2>4. CASE Chain
    <3>1. UNCHANGED dirVars
      BY <2>4 DEF Chain
    <3>2. ASSUME NEW d \in Demos, C!Land(d)
          PROVE  /\ config' # config => config = NoKey
                 /\ Entries \subseteq Entries'
                 /\ \A id \in Entries' \ Entries : <<config', id>> \in Signatures
                 /\ UNCHANGED Signatures
      BY <3>1, <3>2, LandPublishes DEF dirVars
    <3>3. ASSUME C!NewBlock \/ \E d \in Demos : C!ClaimExpires(d)
          PROVE  UNCHANGED <<signed, config, stored>>
      BY <3>1, <3>3 DEF C!NewBlock, C!ClaimExpires, dirVars
    <3> QED BY <2>1, <2>4, <3>2, <3>3 DEF Chain
  <2>5. CASE UNCHANGED systemVars
    BY <2>1, <2>5 DEF systemVars, dirVars, clientVars
  <2> QED BY <2>1, <2>2, <2>3, <2>4, <2>5 DEF SystemNext
<1> QED BY <1>1, <1>2, SystemInvariantHolds, PTL DEF SystemSpec, ImplementsLedger, L!Spec
=============================================================================
