--------------------------- MODULE WebProofProofs ---------------------------
(***************************************************************************)
(* The program's safety properties, for every set of claims, keys,         *)
(* wallets, messages, Ed25519 headers and instants, and that the program   *)
(* implements the registry.                                                *)
(***************************************************************************)
EXTENDS WebProof, ClaimProofs

(* The work area of a transaction as its two components.                   *)
LEMMA WorkFields ==
  ASSUME TypeOK
  PROVE  /\ work = [config |-> work.config, claims |-> work.claims]
         /\ work.config \in WebProofConfig \cup {NoConfig}
         /\ work.claims \in [Ids -> VerifiedClaim \cup {NoClaim}]
BY DEF TypeOK

(* The initial state: no account exists and no transaction runs.           *)
LEMMA InitInvariant == Init => Invariant
<1> SUFFICES ASSUME Init PROVE Invariant
  OBVIOUS
<1>1. TypeOK
  BY DEF Init, TypeOK
<1>2. MaxAgePositive(config) /\ MaxAgePositive(work.config)
  BY DEF Init, MaxAgePositive
<1>3. WorkExtendsCommitted /\ AdditionsVouched
  BY DEF Init, WorkExtendsCommitted, AdditionsVouched
<1>4. PrecedingVerified
  BY IxAssumption DEF Init, PrecedingVerified
<1>5. StoredClaimsSigned /\ StoredClaimsFresh
  BY DEF Init, StoredClaimsSigned, StoredClaimsFresh
<1> QED BY <1>1, <1>2, <1>3, <1>4, <1>5 DEF Invariant

(* The committed accounts keep their properties in a step that leaves them *)
(* and the clock alone and only adds signatures.                           *)
LEMMA CommittedUnchanged ==
  ASSUME Invariant, UNCHANGED <<config, claims, now>>, signed \subseteq signed'
  PROVE  MaxAgePositive(config)' /\ StoredClaimsSigned' /\ StoredClaimsFresh'
<1>1. MaxAgePositive(config)'
  BY DEF Invariant, MaxAgePositive
<1>2. StoredClaimsSigned'
  BY DEF Invariant, StoredClaimsSigned
<1>3. StoredClaimsFresh'
  BY DEF Invariant, StoredClaimsFresh
<1> QED BY <1>1, <1>2, <1>3

(* Undoing a transaction leads back to the committed state.                *)
LEMMA AbortPreserves == Invariant /\ Abort => Invariant'
<1> SUFFICES ASSUME Invariant, Abort PROVE Invariant'
  OBVIOUS
<1> USE DEF Abort, chainVars
<1>1. TypeOK'
  BY DEF Invariant, TypeOK
<1>2. MaxAgePositive(config)' /\ StoredClaimsSigned' /\ StoredClaimsFresh'
  BY CommittedUnchanged
<1>3. MaxAgePositive(work.config)'
  BY DEF Invariant, MaxAgePositive
<1>4. WorkExtendsCommitted'
  BY DEF WorkExtendsCommitted
<1>5. AdditionsVouched'
  BY DEF AdditionsVouched
<1>6. PrecedingVerified'
  BY IxAssumption DEF PrecedingVerified
<1> QED BY <1>1, <1>2, <1>3, <1>4, <1>5, <1>6 DEF Invariant

(* A submission that succeeds is for a usable claim that the configured    *)
(* verifier signed, under an id that was free.                             *)
LEMMA AcceptedMeans ==
  ASSUME Invariant, NEW c \in Claims, NEW id \in Ids, submit_result(c, id) = "Ok"
  PROVE  /\ id = claim_id(c)
         /\ work.config \in WebProofConfig
         /\ work.config # NoConfig
         /\ work.claims[id] = NoClaim
         /\ <<work.config.verifier_pubkey, signing_message(c)>> \in signed
         /\ Usable(c, now, work.config.max_claim_age_seconds)
<1> DEFINE cfg == work.config
           verdict == validate_claim(c, now, cfg.max_claim_age_seconds)
           native == verify_preceding_ed25519(cfg.verifier_pubkey,
                                              <<PROGRAM_DOMAIN, canonical_bytes(c)>>)
<1>1. /\ cfg # NoConfig
      /\ work.claims[id] = NoClaim
      /\ verdict = "Ok"
      /\ id = sha256(canonical_bytes(c))
      /\ native = "Ok"
  <2> HIDE DEF cfg, verdict, native
  <2>1. submit_result(c, id) =
          IF cfg = NoConfig THEN "AccountNotInitialized"
          ELSE IF work.claims[id] # NoClaim THEN "AlreadyInUse"
          ELSE IF verdict # "Ok" THEN verdict
          ELSE IF id # sha256(canonical_bytes(c)) THEN "ClaimIdMismatch"
          ELSE native
    BY DEF submit_result, cfg, verdict, native
  <2> QED BY <2>1
<1>2. cfg \in WebProofConfig
  BY <1>1, WorkFields DEF Invariant
<1>3. cfg.max_claim_age_seconds \in 1 .. I64Max
  BY <1>1, <1>2, I64Assumption DEF Invariant, MaxAgePositive, WebProofConfig, I64, I64Min
<1>4. c \in ClaimV1 /\ now \in I64
  BY StateAssumption DEF Invariant, TypeOK
<1>5. Usable(c, now, cfg.max_claim_age_seconds)
  BY <1>1, <1>3, <1>4, ValidateClaimExact
<1>6. /\ pre \in Ed25519Ix
      /\ pre.header.num = 1
      /\ pre.header.key_ix = "this"
      /\ pre.header.msg_ix = "this"
      /\ pre.key = cfg.verifier_pubkey
      /\ pre.msg = <<PROGRAM_DOMAIN, canonical_bytes(c)>>
  BY <1>1 DEF verify_preceding_ed25519
<1>7. PICK s \in signed : s[1] = pre.key /\ s[2] = pre.msg
  BY <1>6 DEF Invariant, PrecedingVerified, Verified
<1>8. s = <<pre.key, pre.msg>>
  BY <1>7 DEF Invariant, TypeOK
<1>9. <<cfg.verifier_pubkey, signing_message(c)>> \in signed
  BY <1>6, <1>7, <1>8 DEF signing_message, PROGRAM_DOMAIN, DOMAIN_SEPARATOR
<1> QED BY <1>1, <1>2, <1>5, <1>9 DEF claim_id

(* submit_claim, successful or not, preserves the invariant.               *)
LEMMA SubmitPreserves ==
  ASSUME Invariant, NEW u \in Accounts, NEW c \in Claims, NEW id \in Ids,
         submit_claim(u, c, id)
  PROVE  Invariant'
<1>1. CASE Abort
  BY <1>1, AbortPreserves
<1>2. CASE /\ submit_result(c, id) = "Ok"
           /\ work' = [work EXCEPT !.claims[id] = verified_claim(c, id, u)]
           /\ Advance
  <2> DEFINE e == verified_claim(c, id, u)
  <2>0. UNCHANGED <<config, claims, now, signed, inner>>
    BY <1>2 DEF Advance, chainVars
  <2>1. /\ work'.config = work.config
        /\ work'.claims = [work.claims EXCEPT ![id] = e]
        /\ work' \in [config: {work.config}, claims: {work'.claims}]
    BY <1>2, WorkFields DEF Invariant
  <2>2. e \in VerifiedClaim
    BY StateAssumption DEF Invariant, TypeOK, verified_claim, VerifiedClaim, ClaimV1
  <2>3. TypeOK'
    <3>1. work'.claims \in [Ids -> VerifiedClaim \cup {NoClaim}]
      <4> HIDE DEF e
      <4> QED BY <2>1, <2>2, WorkFields DEF Invariant
    <3>2. pre' \in Ed25519Ix \cup {NoIx, OtherIx}
      BY <1>2 DEF Advance, Invariant, TypeOK
    <3> QED BY <2>0, <2>1, <3>1, <3>2, WorkFields DEF Invariant, TypeOK
  <2>4. MaxAgePositive(config)' /\ StoredClaimsSigned' /\ StoredClaimsFresh'
    BY <2>0, CommittedUnchanged
  <2>5. MaxAgePositive(work.config)'
    BY <2>1 DEF Invariant, MaxAgePositive
  <2>6. WorkExtendsCommitted'
    <3>1. ~Idle'
      BY <1>2, <2>0, IxAssumption DEF Advance, Idle
    <3>2. work.claims[id] = NoClaim
      BY <1>2, AcceptedMeans
    <3>3. claims[id] = NoClaim
      BY <3>2 DEF Invariant, WorkExtendsCommitted
    <3> HIDE DEF e
    <3> QED BY <2>0, <2>1, <3>1, <3>3, WorkFields DEF Invariant, WorkExtendsCommitted
  <2>7. AdditionsVouched'
    <3> SUFFICES ASSUME NEW i \in Ids, work'.claims[i] # claims[i]
                 PROVE  \E d \in Claims, s \in Accounts :
                          /\ i = claim_id(d)
                          /\ work'.claims[i] = verified_claim(d, i, s)
                          /\ work.config # NoConfig
                          /\ <<work.config.verifier_pubkey, signing_message(d)>> \in signed
                          /\ Usable(d, now, work.config.max_claim_age_seconds)
      BY <2>0, <2>1 DEF AdditionsVouched, verified_claim
    <3>1. CASE i = id
      <4>1. work'.claims[i] = e
        <5> HIDE DEF e
        <5> QED BY <2>1, <3>1, WorkFields DEF Invariant
      <4> QED BY <1>2, <3>1, <4>1, AcceptedMeans
    <3>2. CASE i # id
      <4>1. work'.claims[i] = work.claims[i]
        <5> HIDE DEF e
        <5> QED BY <2>1, <3>2, WorkFields DEF Invariant
      <4> QED BY <4>1 DEF Invariant, AdditionsVouched
    <3> QED BY <3>1, <3>2
  <2>8. PrecedingVerified'
    BY <1>2, <2>0, IxAssumption DEF Advance, Invariant, PrecedingVerified, Verified
  <2> QED BY <2>3, <2>4, <2>5, <2>6, <2>7, <2>8 DEF Invariant
<1> QED BY <1>1, <1>2 DEF submit_claim
(* The step relation preserves the invariant, one action at a time.        *)
LEMMA NextPreserves == Invariant /\ [Next]_vars => Invariant'
<1> SUFFICES ASSUME Invariant, [Next]_vars PROVE Invariant'
  OBVIOUS
<1>1. CASE \E k \in Keys, m \in Messages : Sign(k, m)
  <2>1. PICK k \in Keys, m \in Messages : Sign(k, m)
    BY <1>1
  <2>2. /\ signed' = signed \cup {<<k, m>>}
        /\ UNCHANGED <<config, claims, now, work, pre, inner>>
    BY <2>1 DEF Sign, chainVars, txVars
  <2>3. TypeOK'
    BY <2>2 DEF Invariant, TypeOK
  <2>4. MaxAgePositive(config)' /\ StoredClaimsSigned' /\ StoredClaimsFresh'
    BY <2>2, CommittedUnchanged
  <2>5. MaxAgePositive(work.config)' /\ WorkExtendsCommitted'
    BY <2>2 DEF Invariant, MaxAgePositive, WorkExtendsCommitted, Idle
  <2>6. AdditionsVouched'
    BY <2>2 DEF Invariant, AdditionsVouched, verified_claim
  <2>7. PrecedingVerified'
    BY <2>2 DEF Invariant, PrecedingVerified, Verified
  <2> QED BY <2>3, <2>4, <2>5, <2>6, <2>7 DEF Invariant
<1>2. CASE Tick
  <2>1. /\ Idle /\ now' \in Times /\ now' > now
        /\ UNCHANGED <<config, claims, signed, work, pre, inner>>
    BY <1>2 DEF Tick, chainVars, txVars
  <2>2. TypeOK'
    BY <2>1 DEF Invariant, TypeOK
  <2>3. /\ MaxAgePositive(config)' /\ MaxAgePositive(work.config)'
        /\ WorkExtendsCommitted' /\ StoredClaimsSigned'
    BY <2>1 DEF Invariant, MaxAgePositive, WorkExtendsCommitted, Idle, StoredClaimsSigned
  <2>4. StoredClaimsFresh'
    <3>1. \A id \in Ids : claims[id] # NoClaim => claims[id].created_at \in Int
      <4>1. \A id \in Ids : claims[id] # NoClaim => claims[id] \in VerifiedClaim
        BY DEF Invariant, TypeOK
      <4>2. Times \subseteq Int
        BY StateAssumption, I64Assumption DEF I64, I64Min
      <4> QED BY <4>1, <4>2 DEF VerifiedClaim
    <3>2. now \in Int /\ now' \in Int
      BY <2>1, StateAssumption, I64Assumption DEF Invariant, TypeOK, I64, I64Min
    <3>3. \A id \in Ids : claims[id] # NoClaim => claims[id].created_at <= now'
      BY <2>1, <3>1, <3>2 DEF Invariant, StoredClaimsFresh
    <3> QED BY <2>1, <3>3 DEF Invariant, StoredClaimsFresh
  <2>5. AdditionsVouched'
    BY <2>1 DEF Invariant, WorkExtendsCommitted, AdditionsVouched
  <2>6. PrecedingVerified'
    BY <2>1, IxAssumption DEF PrecedingVerified, Idle
  <2> QED BY <2>2, <2>3, <2>4, <2>5, <2>6 DEF Invariant
<1>3. CASE Enter
  <2>1. /\ ~inner /\ inner' = TRUE
        /\ UNCHANGED <<config, claims, now, signed, work, pre>>
    BY <1>3 DEF Enter, chainVars
  <2>2. TypeOK'
    BY <2>1 DEF Invariant, TypeOK
  <2>3. MaxAgePositive(config)' /\ StoredClaimsSigned' /\ StoredClaimsFresh'
    BY <2>1, CommittedUnchanged
  <2>4. MaxAgePositive(work.config)' /\ WorkExtendsCommitted'
    BY <2>1 DEF Invariant, MaxAgePositive, WorkExtendsCommitted, Idle
  <2>5. AdditionsVouched' /\ PrecedingVerified'
    BY <2>1 DEF Invariant, AdditionsVouched, verified_claim, PrecedingVerified, Verified
  <2> QED BY <2>2, <2>3, <2>4, <2>5 DEF Invariant
<1>4. CASE Return
  <2>1. /\ inner /\ inner' = FALSE /\ pre' = OtherIx
        /\ UNCHANGED <<config, claims, now, signed, work>>
    BY <1>4 DEF Return, chainVars
  <2>2. TypeOK'
    BY <2>1 DEF Invariant, TypeOK
  <2>3. MaxAgePositive(config)' /\ StoredClaimsSigned' /\ StoredClaimsFresh'
    BY <2>1, CommittedUnchanged
  <2>4. MaxAgePositive(work.config)' /\ WorkExtendsCommitted'
    BY <2>1, IxAssumption DEF Invariant, MaxAgePositive, WorkExtendsCommitted, Idle
  <2>5. AdditionsVouched' /\ PrecedingVerified'
    BY <2>1, IxAssumption
    DEF Invariant, AdditionsVouched, verified_claim, PrecedingVerified
  <2> QED BY <2>2, <2>3, <2>4, <2>5 DEF Invariant
<1>5. CASE Commit
  <2>1. /\ config' = work.config /\ claims' = work.claims /\ pre' = NoIx
        /\ UNCHANGED <<now, signed, work, inner>>
    BY <1>5 DEF Commit
  <2>2. TypeOK'
    BY <2>1, WorkFields DEF Invariant, TypeOK
  <2>3. MaxAgePositive(config)' /\ MaxAgePositive(work.config)'
    BY <2>1 DEF Invariant, MaxAgePositive
  <2>4. WorkExtendsCommitted' /\ AdditionsVouched'
    BY <2>1, WorkFields DEF Invariant, WorkExtendsCommitted, AdditionsVouched
  <2>5. PrecedingVerified'
    BY <2>1, IxAssumption DEF PrecedingVerified
  <2>6. ASSUME NEW id \in Ids, work.claims[id] # NoClaim
        PROVE  /\ work.config # NoConfig
               /\ work.claims[id].created_at <= now
               /\ \E c \in Claims :
                    /\ Records(work.claims[id], id, c)
                    /\ <<work.config.verifier_pubkey, signing_message(c)>> \in signed
               /\ \E c \in Claims :
                    /\ Records(work.claims[id], id, c)
                    /\ Usable(c, work.claims[id].created_at,
                              work.config.max_claim_age_seconds)
    <3>1. CASE work.claims[id] = claims[id]
      <4>1. config # NoConfig /\ work.config = config
        BY <2>6, <3>1 DEF Invariant, StoredClaimsSigned, WorkExtendsCommitted
      <4> QED BY <2>6, <3>1, <4>1 DEF Invariant, StoredClaimsSigned, StoredClaimsFresh
    <3>2. CASE work.claims[id] # claims[id]
      <4>1. PICK c \in Claims, s \in Accounts :
              /\ id = claim_id(c)
              /\ work.claims[id] = verified_claim(c, id, s)
              /\ work.config # NoConfig
              /\ <<work.config.verifier_pubkey, signing_message(c)>> \in signed
              /\ Usable(c, now, work.config.max_claim_age_seconds)
        BY <3>2 DEF Invariant, AdditionsVouched
      <4>2. Records(work.claims[id], id, c) /\ work.claims[id].created_at = now
        BY <4>1 DEF Records, verified_claim
      <4>3. now <= now
        BY StateAssumption, I64Assumption DEF Invariant, TypeOK, I64, I64Min
      <4> QED BY <4>1, <4>2, <4>3
    <3> QED BY <3>1, <3>2
  <2>7. StoredClaimsSigned' /\ StoredClaimsFresh'
    BY <2>1, <2>6 DEF StoredClaimsSigned, StoredClaimsFresh
  <2> QED BY <2>2, <2>3, <2>4, <2>5, <2>7 DEF Invariant
<1>6. CASE Fail
  BY <1>6, AbortPreserves DEF Fail
<1>7. CASE \E ix \in Ed25519Ix : Ed25519(ix)
  <2>1. PICK ix \in Ed25519Ix : Ed25519(ix)
    BY <1>7
  <2>2. CASE Abort
    BY <2>2, AbortPreserves
  <2>3. CASE /\ ~inner /\ Verified(ix) /\ pre' = ix
             /\ UNCHANGED <<chainVars, now, signed, work, inner>>
    <3>1. UNCHANGED <<config, claims, now, signed, work, inner>>
      BY <2>3 DEF chainVars
    <3>2. TypeOK'
      BY <2>3, <3>1 DEF Invariant, TypeOK
    <3>3. MaxAgePositive(config)' /\ StoredClaimsSigned' /\ StoredClaimsFresh'
      BY <3>1, CommittedUnchanged
    <3>4. MaxAgePositive(work.config)' /\ WorkExtendsCommitted'
      BY <2>3, <3>1, IxAssumption
      DEF Invariant, MaxAgePositive, WorkExtendsCommitted, Idle
    <3>5. AdditionsVouched'
      BY <3>1 DEF Invariant, AdditionsVouched, verified_claim
    <3>6. PrecedingVerified'
      BY <2>3, <3>1 DEF PrecedingVerified, Verified
    <3> QED BY <3>2, <3>3, <3>4, <3>5, <3>6 DEF Invariant
  <2> QED BY <2>1, <2>2, <2>3 DEF Ed25519
<1>8. CASE \E a \in Accounts, k \in Keys, age \in MaxAges : initialize_config(a, k, age)
  <2>1. PICK a \in Accounts, k \in Keys, age \in MaxAges : initialize_config(a, k, age)
    BY <1>8
  <2>2. CASE Abort
    BY <2>2, AbortPreserves
  <2>3. CASE /\ work.config = NoConfig /\ age > 0
             /\ work' = [work EXCEPT !.config =
                   [authority |-> a, verifier_pubkey |-> k,
                    max_claim_age_seconds |-> age]]
             /\ Advance
    <3> DEFINE cfg == [authority |-> a, verifier_pubkey |-> k,
                       max_claim_age_seconds |-> age]
    <3>0. UNCHANGED <<config, claims, now, signed, inner>>
      BY <2>3 DEF Advance, chainVars
    <3>1. /\ work'.config = cfg
          /\ work'.claims = work.claims
          /\ work' \in [config: {cfg}, claims: {work.claims}]
      BY <2>3, WorkFields DEF Invariant
    <3>2. cfg \in WebProofConfig /\ cfg # NoConfig
      BY StateAssumption, IxAssumption DEF WebProofConfig
    <3>3. TypeOK'
      <4>1. pre' \in Ed25519Ix \cup {NoIx, OtherIx}
        BY <2>3 DEF Advance, Invariant, TypeOK
      <4> HIDE DEF cfg
      <4> QED BY <3>0, <3>1, <3>2, <4>1, WorkFields DEF Invariant, TypeOK
    <3>4. MaxAgePositive(config)' /\ StoredClaimsSigned' /\ StoredClaimsFresh'
      BY <3>0, CommittedUnchanged
    <3>5. MaxAgePositive(work.config)'
      BY <2>3, <3>1 DEF MaxAgePositive
    <3>6. config = NoConfig
      BY <2>3 DEF Invariant, WorkExtendsCommitted
    <3>7. \A id \in Ids : work.claims[id] = claims[id]
      BY <2>3 DEF Invariant, AdditionsVouched
    <3>8. WorkExtendsCommitted'
      <4>1. ~Idle'
        BY <2>3, <3>0, IxAssumption DEF Advance, Idle
      <4> HIDE DEF cfg
      <4> QED BY <3>0, <3>1, <3>6, <3>7, <4>1 DEF WorkExtendsCommitted
    <3>9. AdditionsVouched'
      <4> HIDE DEF cfg
      <4> QED BY <3>0, <3>1, <3>7 DEF AdditionsVouched
    <3>10. PrecedingVerified'
      BY <2>3, <3>0, IxAssumption DEF Advance, Invariant, PrecedingVerified, Verified
    <3> QED BY <3>3, <3>4, <3>5, <3>8, <3>9, <3>10 DEF Invariant
  <2> QED BY <2>1, <2>2, <2>3 DEF initialize_config
<1>9. CASE \E s \in Accounts, c \in Claims, id \in Ids : submit_claim(s, c, id)
  BY <1>9, SubmitPreserves
<1>10. CASE UNCHANGED vars
  <2>1. UNCHANGED <<config, claims, now, signed, work, pre, inner>>
    BY <1>10 DEF vars
  <2> QED
    BY <2>1
    DEF Invariant, TypeOK, MaxAgePositive, WorkExtendsCommitted, AdditionsVouched,
        PrecedingVerified, StoredClaimsSigned, StoredClaimsFresh, Idle, Verified,
        verified_claim
<1> QED
  BY <1>1, <1>2, <1>3, <1>4, <1>5, <1>6, <1>7, <1>8, <1>9, <1>10 DEF Next

(* The invariant holds in every reachable state.                           *)
THEOREM InvariantHolds == Spec => []Invariant
BY InitInvariant, NextPreserves, PTL DEF Spec

(* Accounts and bookkeeping keep their types.                              *)
THEOREM TypeCorrect == Spec => []TypeOK
<1>1. Invariant => TypeOK
  BY DEF Invariant
<1> QED BY <1>1, InvariantHolds, PTL

(* No claim is ever stored without a signature of the configured verifier  *)
(* over its exact bytes under WebProof's domain.                           *)
THEOREM OnlySignedClaimsStored == Spec => []StoredClaimsSigned
<1>1. Invariant => StoredClaimsSigned
  BY DEF Invariant
<1> QED BY <1>1, InvariantHolds, PTL

(* No claim is ever stored outside its window of use.                      *)
THEOREM OnlyFreshClaimsStored == Spec => []StoredClaimsFresh
<1>1. Invariant => StoredClaimsFresh
  BY DEF Invariant
<1> QED BY <1>1, InvariantHolds, PTL

(* A well-formed submission of a usable, signed, unstored claim is never   *)
(* refused.                                                                *)
THEOREM HonestSubmissionsSucceed == Spec => []HonestSubmissionAccepted
<1>1. Invariant => HonestSubmissionAccepted
  <2> SUFFICES ASSUME Invariant, NEW c \in Claims,
                      config # NoConfig,
                      work.claims[claim_id(c)] = NoClaim,
                      Usable(c, now, config.max_claim_age_seconds),
                      pre \in Ed25519Ix,
                      pre.header = [num |-> 1, sig_ix |-> "this",
                                    key_ix |-> "this", msg_ix |-> "this"],
                      pre.key = config.verifier_pubkey,
                      pre.msg = signing_message(c)
               PROVE  submit_result(c, claim_id(c)) = "Ok"
    BY DEF HonestSubmissionAccepted
  <2>1. work.config = config /\ config \in WebProofConfig
    BY DEF Invariant, TypeOK, WorkExtendsCommitted
  <2>2. config.max_claim_age_seconds \in 1 .. I64Max
    BY <2>1, I64Assumption DEF Invariant, MaxAgePositive, WebProofConfig, I64, I64Min
  <2>3. c \in ClaimV1 /\ now \in I64
    BY StateAssumption DEF Invariant, TypeOK
  <2>4. validate_claim(c, now, config.max_claim_age_seconds) = "Ok"
    BY <2>2, <2>3, ValidateClaimExact
  <2>5. verify_preceding_ed25519(config.verifier_pubkey,
                                 <<PROGRAM_DOMAIN, canonical_bytes(c)>>) = "Ok"
    BY DEF verify_preceding_ed25519, signing_message, PROGRAM_DOMAIN, DOMAIN_SEPARATOR
  <2> QED BY <2>1, <2>4, <2>5 DEF submit_result, claim_id
<1> QED BY <1>1, InvariantHolds, PTL

(* The definitions the registry shares with the program.                   *)
LEMMA SharedDefinitions ==
  /\ R!Ids = Ids
  /\ R!WebProofConfig = WebProofConfig
  /\ R!VerifiedClaim = VerifiedClaim
  /\ \A c \in Claims : R!claim_id(c) = claim_id(c)
  /\ \A c \in Claims : R!signing_message(c) = signing_message(c)
  /\ \A c \in Claims : \A t, a : R!Usable(c, t, a) <=> Usable(c, t, a)
<1>1. \A c \in Claims : R!claim_id(c) = claim_id(c)
  BY DEF R!claim_id, claim_id, R!sha256, sha256, R!canonical_bytes, canonical_bytes
<1>2. R!Ids = Ids
  BY <1>1 DEF R!Ids, Ids
<1>3. R!I64 = I64
  BY DEF R!I64, I64, R!I64Min, I64Min
<1>4. R!WebProofConfig = WebProofConfig
  BY <1>3 DEF R!WebProofConfig, WebProofConfig
<1>5. R!VerifiedClaim = VerifiedClaim
  BY <1>2, <1>3 DEF R!VerifiedClaim, VerifiedClaim
<1>6. \A c \in Claims : R!signing_message(c) = signing_message(c)
  BY DEF R!signing_message, signing_message, R!DOMAIN_SEPARATOR, DOMAIN_SEPARATOR,
         R!canonical_bytes, canonical_bytes
<1>7. \A c \in Claims : \A t, a : R!Usable(c, t, a) <=> Usable(c, t, a)
  BY DEF R!Usable, Usable, R!WellFormed, WellFormed
<1> QED BY <1>1, <1>2, <1>4, <1>5, <1>6, <1>7

(* The Anchor program implements the registry: a committed transaction     *)
(* publishes, a signature attests, the clock advances, and every step      *)
(* inside a transaction is invisible.                                      *)
THEOREM ProgramImplementsRegistry == Spec => ImplementsRegistry
<1>1. Init => R!Init
  BY SharedDefinitions DEF Init, R!Init
<1>2. Invariant /\ [Next]_vars => [R!Next]_R!vars
  <2> SUFFICES ASSUME Invariant, [Next]_vars
               PROVE  R!Next \/ UNCHANGED <<config, claims, now, signed>>
    BY DEF R!vars
  <2>1. CASE \E k \in Keys, m \in Messages : Sign(k, m)
    BY <2>1 DEF Sign, chainVars, R!Next, R!Attest
  <2>2. CASE Tick
    BY <2>2 DEF Tick, chainVars, R!Next, R!Advance
  <2>3. CASE Commit
    <3>1. config' = work.config /\ claims' = work.claims /\ UNCHANGED <<now, signed>>
      BY <2>3 DEF Commit
    <3>2. config' # config => /\ config = NoConfig
                              /\ config' \in WebProofConfig
                              /\ config'.max_claim_age_seconds > 0
      BY <3>1, WorkFields DEF Invariant, WorkExtendsCommitted, MaxAgePositive
    <3>3. claims' \in [Ids -> VerifiedClaim \cup {NoClaim}]
      BY <3>1, WorkFields DEF Invariant
    <3>4. ASSUME NEW id \in Ids, claims'[id] # claims[id]
          PROVE  claims[id] = NoClaim /\ R!MayRecord(id, claims'[id], config')
      <4>1. PICK c \in Claims, s \in Accounts :
              /\ id = claim_id(c)
              /\ work.claims[id] = verified_claim(c, id, s)
              /\ work.config # NoConfig
              /\ <<work.config.verifier_pubkey, signing_message(c)>> \in signed
              /\ Usable(c, now, work.config.max_claim_age_seconds)
        BY <3>1, <3>4 DEF Invariant, AdditionsVouched
      <4>2. R!MayRecord(id, work.claims[id], work.config)
        BY <4>1, SharedDefinitions DEF R!MayRecord, verified_claim
      <4>3. claims[id] = NoClaim
        BY <3>1, <3>4 DEF Invariant, WorkExtendsCommitted
      <4> QED BY <3>1, <4>2, <4>3
    <3> QED BY <3>1, <3>2, <3>3, <3>4, SharedDefinitions DEF R!Next, R!Publish
  <2>4. CASE Enter \/ Return \/ Fail
    BY <2>4 DEF Enter, Return, Fail, Abort, chainVars
  <2>5. CASE \E ix \in Ed25519Ix : Ed25519(ix)
    BY <2>5 DEF Ed25519, Abort, chainVars
  <2>6. CASE \E a \in Accounts, k \in Keys, age \in MaxAges : initialize_config(a, k, age)
    BY <2>6 DEF initialize_config, Advance, Abort, chainVars
  <2>7. CASE \E s \in Accounts, c \in Claims, id \in Ids : submit_claim(s, c, id)
    BY <2>7 DEF submit_claim, Advance, Abort, chainVars
  <2>8. CASE UNCHANGED vars
    BY <2>8 DEF vars
  <2> QED BY <2>1, <2>2, <2>3, <2>4, <2>5, <2>6, <2>7, <2>8 DEF Next
<1> QED BY <1>1, <1>2, InvariantHolds, PTL DEF Spec, ImplementsRegistry, R!Spec

(* What the ledger calls the key, the entries and the attestations.        *)
Key == IF config = NoConfig THEN NoConfig ELSE config.verifier_pubkey
Entries == {id \in Ids : claims[id] # NoClaim}
Attestations == {ki \in Keys \X Ids : \E c \in Claims :
                   ki[2] = claim_id(c) /\ <<ki[1], signing_message(c)>> \in signed}

(* The Anchor program implements the ledger that the clients' model of the *)
(* chain implements too: a committed transaction publishes, a signature    *)
(* attests, and everything else is invisible.                              *)
THEOREM ProgramImplementsLedger == Spec => ImplementsLedger
<1>1. Init => L!Init
  BY DEF Init, L!Init
<1>2. Invariant /\ [Next]_vars => [L!Attest \/ L!Publish]_L!vars
  <2> SUFFICES ASSUME Invariant, [Next]_vars
               PROVE  \/ Attestations \subseteq Attestations' /\ UNCHANGED <<Key, Entries>>
                      \/ /\ Key' # Key => Key = NoConfig
                         /\ Entries \subseteq Entries'
                         /\ \A id \in Entries' \ Entries : <<Key', id>> \in Attestations
                         /\ UNCHANGED Attestations
    BY DEF L!vars, L!Attest, L!Publish, Key, Entries, Attestations
  <2>1. CASE \E k \in Keys, m \in Messages : Sign(k, m)
    <3>1. config' = config /\ claims' = claims /\ signed \subseteq signed'
      BY <2>1 DEF Sign, chainVars
    <3> QED BY <3>1 DEF Key, Entries, Attestations
  <2>2. CASE Commit
    <3>1. config' = work.config /\ claims' = work.claims /\ signed' = signed
      BY <2>2 DEF Commit
    <3>2. Key' # Key => Key = NoConfig
      BY <3>1 DEF Invariant, WorkExtendsCommitted, Key
    <3>3. Entries \subseteq Entries'
      BY <3>1 DEF Invariant, WorkExtendsCommitted, Entries
    <3>4. ASSUME NEW id \in Entries' \ Entries
          PROVE  <<Key', id>> \in Attestations
      <4>1. id \in Ids /\ work.claims[id] # claims[id]
        BY <3>1, <3>4 DEF Entries
      <4>2. PICK c \in Claims :
              /\ id = claim_id(c)
              /\ work.config # NoConfig
              /\ <<work.config.verifier_pubkey, signing_message(c)>> \in signed
        BY <4>1 DEF Invariant, AdditionsVouched
      <4>3. Key' = work.config.verifier_pubkey
        BY <3>1, <4>2 DEF Key
      <4>4. work.config.verifier_pubkey \in Keys
        BY <4>2, WorkFields DEF Invariant, WebProofConfig
      <4> QED BY <4>1, <4>2, <4>3, <4>4 DEF Attestations
    <3> QED BY <3>1, <3>2, <3>3, <3>4 DEF Attestations
  <2>3. CASE UNCHANGED <<config, claims, signed>>
    BY <2>3 DEF Key, Entries, Attestations
  <2>4. CASE Tick \/ Enter \/ Return \/ Fail
    BY <2>3, <2>4 DEF Tick, Enter, Return, Fail, Abort, chainVars
  <2>5. CASE \E ix \in Ed25519Ix : Ed25519(ix)
    BY <2>3, <2>5 DEF Ed25519, Abort, chainVars
  <2>6. CASE \E a \in Accounts, k \in Keys, age \in MaxAges : initialize_config(a, k, age)
    BY <2>3, <2>6 DEF initialize_config, Advance, Abort, chainVars
  <2>7. CASE \E s \in Accounts, c \in Claims, id \in Ids : submit_claim(s, c, id)
    BY <2>3, <2>7 DEF submit_claim, Advance, Abort, chainVars
  <2>8. CASE UNCHANGED vars
    BY <2>3, <2>8 DEF vars
  <2> QED BY <2>1, <2>2, <2>4, <2>5, <2>6, <2>7, <2>8 DEF Next
<1> QED BY <1>1, <1>2, InvariantHolds, PTL DEF Spec, ImplementsLedger, L!Spec
=============================================================================
