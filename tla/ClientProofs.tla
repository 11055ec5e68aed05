---------------------------- MODULE ClientProofs ----------------------------
(***************************************************************************)
(* The commands keep their promises, for any number of commands, files and *)
(* blocks.                                                                 *)
(***************************************************************************)
EXTENDS Client, TLAPS

-----------------------------------------------------------------------------
(* Reading a file.                                                         *)

(* A double carries every integer up to MaxSafe exactly.                   *)
LEMMA SmallNumbersExact ==
  ASSUME NEW t \in -MaxSafe .. MaxSafe
  PROVE  json_number(t) = t
<1>1. ASSUME NEW m \in 0 .. MaxSafe PROVE RoundNat(m) = m
  <2> DEFINE U == {u \in Spacings : m < MaxSafe * u \/ u = 1024}
  <2>1. MaxSafe \in Nat \ {0} /\ MaxSafe % 2 = 0
    BY MaxSafeAssumption
  <2>2. CASE m < MaxSafe
    <3>1. 1 \in U /\ \A u \in U : u \in Nat /\ 1 <= u
      BY <2>1, <2>2 DEF Spacings
    <3>2. ulp(m) = 1
      BY <3>1 DEF ulp, Min
    <3> QED BY <1>1, <3>2 DEF RoundNat
  <2>3. CASE m = MaxSafe
    <3>1. 2 \in U /\ \A u \in U : u \in Nat /\ 2 <= u
      BY <2>1, <2>3 DEF Spacings
    <3>2. ulp(m) = 2
      BY <3>1 DEF ulp, Min
    <3> QED BY <2>1, <2>3, <3>2 DEF RoundNat
  <2> QED BY <2>1, <2>2, <2>3
<1>2. MaxSafe \in Nat
  BY MaxSafeAssumption
<1>3. CASE t < 0
  <2>1. -t \in 0 .. MaxSafe
    BY <1>2, <1>3
  <2>2. RoundNat(-t) = -t
    BY <1>1, <2>1
  <2> QED BY <1>2, <1>3, <2>2 DEF json_number
<1>4. CASE ~(t < 0)
  BY <1>1, <1>2, <1>4 DEF json_number
<1> QED BY <1>3, <1>4

(* The two encodings of a claim are the same.                              *)
LEMMA EncodingsAgree ==
  ASSUME NEW c
  PROVE  claimId(c) = claim_id(c) /\ signingMessage(c) = signing_message(c)
BY DEF claimId, claim_id, signingMessage, signing_message, serializeClaim, canonical_bytes

(* A file with its claim replaced by one that was read from it.            *)
LEMMA FileFields ==
  ASSUME NEW f \in Files, NEW c
  PROVE  /\ [f EXCEPT !.claim = c].claim = c
         /\ [f EXCEPT !.claim = c].claim_id = f.claim_id
         /\ [f EXCEPT !.claim = c].signature = f.signature
         /\ [f EXCEPT !.claim = c].verifier_public_key = f.verifier_public_key
BY ClientAssumption

(* A refused file is damaged or has an instant beyond MaxSafe.             *)
LEMMA RefusedMeansUnsound ==
  ASSUME NEW f \in Files, parseSignedClaim(f) = {},
         {f.claim.issued_at, f.claim.expires_at} \subseteq -MaxSafe .. MaxSafe
  PROVE  f.claim_id # claim_id(f.claim)
<1>1. f.claim \in ClaimV1
  BY ClientAssumption
<1>2. json_number(f.claim.issued_at) = f.claim.issued_at
      /\ json_number(f.claim.expires_at) = f.claim.expires_at
  BY SmallNumbersExact
<1>3. parsed(f) = f.claim
  BY <1>1, <1>2 DEF parsed, ClaimV1
<1>4. f.claim.issued_at \in I64 /\ f.claim.expires_at \in I64
  BY <1>1 DEF ClaimV1
<1> QED BY <1>3, <1>4, EncodingsAgree DEF parseSignedClaim

-----------------------------------------------------------------------------
(* The state of a command.                                                 *)

(* A blockhash is valid for at least one block.                           *)
LEMMA WindowNat == Window \in Nat \ {0}
BY ClientAssumption

(* A command that is not at its start is a complete record.                *)
LEMMA Started ==
  ASSUME TypeOK, NEW r \in Runs, run[r].pc # "start"
  PROVE  run[r] \in Command
BY DEF TypeOK

(* Updates of a single field of a command.                                 *)
LEMMA CommandFields ==
  ASSUME NEW x \in Command
  PROVE  /\ \A pc \in (Final \cup {"check_config", "send_init", "send_submit", "sent",
                                   "confirming", "check_stored"}) :
              LET y == [x EXCEPT !.pc = pc]
              IN /\ y \in Command /\ y.pc = pc
                 /\ y.kind = x.kind /\ y.file = x.file /\ y.tx = x.tx
                 /\ y.deadline = x.deadline
         /\ \A tx \in Tx :
              LET y == [x EXCEPT !.tx = tx]
              IN /\ y \in Command /\ y.tx = tx
                 /\ y.kind = x.kind /\ y.file = x.file /\ y.pc = x.pc
                 /\ y.deadline = x.deadline
         /\ \A d \in 0 .. Window :
              LET y == [x EXCEPT !.deadline = d]
              IN /\ y \in Command /\ y.deadline = d
                 /\ y.kind = x.kind /\ y.file = x.file /\ y.pc = x.pc /\ y.tx = x.tx
BY DEF Command

(* The invariant holds before any command starts.                          *)
LEMMA InitInvariant == Init => Invariant
BY DEF Init, Invariant, TypeOK, FilesParsed, Waiting, Sending, DemoKey, StoredSigned,
       SoundFilesParse, DemoSuccessMeansStored

(* The key in the file of a command is a key.                              *)
LEMMA HasKey ==
  ASSUME FilesParsed, NEW r \in Runs, run[r].pc \notin {"start", "unparsed"}
  PROVE  /\ run[r].file.verifier_public_key # NoKey
         /\ run[r].file.verifier_public_key \in {f.verifier_public_key : f \in Files}
<1>1. PICK f, c : f \in Files /\ run[r].file = [f EXCEPT !.claim = c]
  BY DEF FilesParsed
<1>2. run[r].file.verifier_public_key = f.verifier_public_key
  BY <1>1, FileFields
<1> QED BY <1>1, <1>2, ClientAssumption

(* A step of one command, during which the chain may grow.  What the       *)
(* command's new state has to satisfy is all there is to show.             *)
LEMMA StepPreserves ==
  ASSUME Invariant, NEW r \in Runs, NEW new \in Command,
         run' = [run EXCEPT ![r] = new],
         run[r].pc \notin {"start", "unparsed"},
         new.pc # "unparsed" /\ new.file = run[r].file /\ new.kind = run[r].kind,
         new.pc = "confirming" => new.tx.life <= new.deadline,
         new.pc = "expired" => new.tx.life = 0,
         new.pc \in {"check_config", "send_init", "send_submit", "sent", "confirming"} =>
           new.kind # "get",
         new.pc \in {"sent", "confirming"} => new.tx.kind # "none",
         (/\ \/ new.pc \in {"check_stored", "ok"}
             \/ new.pc \in {"sent", "confirming"} /\ new.tx.kind = "submit"
          /\ new.kind = "demo") => config = new.file.verifier_public_key,
         new.pc = "ok" /\ new.kind = "demo" => IsStored(new.file.claim_id),
         config' \in {f.verifier_public_key : f \in Files} \cup {NoKey},
         config # NoKey => config' = config,
         stored \subseteq stored',
         StoredSigned'
  PROVE  Invariant'
<1>1. \A q \in Runs : run'[q] = IF q = r THEN new ELSE run[q]
  BY DEF Invariant, TypeOK
<1>2. TypeOK'
  BY DEF Invariant, TypeOK
<1>3. new.pc # "start"
  BY DEF Command, Final
<1>4. FilesParsed'
  <2> SUFFICES ASSUME NEW q \in Runs, run'[q].pc \notin {"start", "unparsed"}
               PROVE  \E f \in Files : \E c \in Readings(f) :
                        /\ run'[q].file = [f EXCEPT !.claim = c]
                        /\ run'[q].kind \in {"submit", "demo"} => claimId(c) = f.claim_id
    BY DEF FilesParsed
  <2>1. /\ run'[q].file = run[q].file
        /\ run'[q].kind = run[q].kind
        /\ run[q].pc \notin {"start", "unparsed"}
    BY <1>1
  <2> QED BY <2>1 DEF Invariant, FilesParsed
<1>5. Waiting' /\ Sending'
  BY <1>1 DEF Invariant, Waiting, Sending
<1>6. \A q \in Runs : run[q].pc \notin {"start", "unparsed"} =>
        run[q].file.verifier_public_key # NoKey
  BY HasKey DEF Invariant
<1>7. DemoKey'
  BY <1>1, <1>6 DEF Invariant, DemoKey
<1>8. SoundFilesParse'
  BY <1>1 DEF Invariant, SoundFilesParse
<1>9. DemoSuccessMeansStored'
  BY <1>1, <1>6 DEF Invariant, DemoSuccessMeansStored, IsStored
<1> QED BY <1>2, <1>4, <1>5, <1>7, <1>8, <1>9 DEF Invariant

(* While the chain is left alone, it holds what it held.                   *)
LEMMA ChainKept ==
  ASSUME Invariant, UNCHANGED <<config, stored>>
  PROVE  /\ config' \in {f.verifier_public_key : f \in Files} \cup {NoKey}
         /\ config # NoKey => config' = config
         /\ stored \subseteq stored'
         /\ StoredSigned'
BY DEF Invariant, TypeOK, StoredSigned

(* A command moves on without touching its transaction or the chain.       *)
LEMMA GotoPreserves ==
  ASSUME Invariant, NEW r \in Runs, NEW pc, Goto(r, pc),
         run[r].pc \notin {"start", "unparsed"},
         pc \in (Final \cup {"send_init", "send_submit", "check_stored"}) \ {"unparsed"},
         pc = "expired" => run[r].tx.life = 0,
         pc \in {"send_init", "send_submit"} => run[r].kind # "get",
         pc \in {"check_stored", "ok"} /\ run[r].kind = "demo" =>
           config = run[r].file.verifier_public_key,
         pc = "ok" /\ run[r].kind = "demo" => IsStored(run[r].file.claim_id)
  PROVE  Invariant'
<1> DEFINE moved == [run[r] EXCEPT !.pc = pc]
           new == [moved EXCEPT !.deadline = 0]
<1>1. run[r] \in Command
  BY Started DEF Invariant
<1>2. /\ moved \in Command
      /\ moved.pc = pc /\ moved.kind = run[r].kind
      /\ moved.file = run[r].file /\ moved.tx = run[r].tx
  BY <1>1, CommandFields
<1> HIDE DEF moved
<1>3. /\ new \in Command
      /\ new.pc = pc /\ new.kind = run[r].kind
      /\ new.file = run[r].file /\ new.tx = run[r].tx
  BY <1>2, CommandFields, WindowNat
<1>4. run' = [run EXCEPT ![r] = new] /\ UNCHANGED <<config, stored, stale>>
  BY DEF Goto, moved
<1> HIDE DEF new
<1> QED BY <1>3, <1>4, StepPreserves, ChainKept DEF Final
-----------------------------------------------------------------------------
(* The steps of a command.                                                 *)

(* The claim of the file that r holds, with its signature checked.         *)
LEMMA AcceptedMeans ==
  ASSUME Invariant, NEW r \in Runs, run[r].pc \notin {"start", "unparsed"},
         submit_accepted(run[r].file)
  PROVE  \E f \in Files : \E c \in Readings(f) :
           /\ run[r].file.claim = c
           /\ f.verifier_public_key = config
           /\ f.signature = Signature(config, signing_message(c))
           /\ config = run[r].file.verifier_public_key
<1>1. PICK f \in Files : \E c \in Readings(f) : run[r].file = [f EXCEPT !.claim = c]
  BY DEF Invariant, FilesParsed
<1>2. PICK c \in Readings(f) : run[r].file = [f EXCEPT !.claim = c]
  BY <1>1
<1>3. /\ run[r].file.claim = c
      /\ run[r].file.signature = f.signature
      /\ run[r].file.verifier_public_key = f.verifier_public_key
  BY <1>2, FileFields
<1>4. /\ run[r].file.signature =
           Signature(run[r].file.verifier_public_key, signingMessage(run[r].file.claim))
      /\ config = run[r].file.verifier_public_key
  BY DEF submit_accepted
<1> QED BY <1>3, <1>4, EncodingsAgree

(* A transaction that passes the simulation is on its way, whether or not  *)
(* the command hears of it; one that does not ends the command.            *)
LEMMA SendPreserves ==
  ASSUME Invariant, NEW r \in Runs, NEW kind \in {"init", "submit"}, Send(r, kind),
         run[r].pc \in {"send_init", "send_submit"}
  PROVE  Invariant'
<1>1. CASE Goto(r, "failed")
  BY <1>1, GotoPreserves DEF Final
<1>2. CASE ~Goto(r, "failed")
  <2> DEFINE tx == [kind |-> kind, status |-> "pending", life |-> Window]
  <2>1. PICK pc \in {"sent", "failed"} :
          run' = [run EXCEPT ![r].pc = pc, ![r].tx = tx]
    BY <1>2 DEF Send
  <2>2. Succeeds(r, kind) /\ UNCHANGED <<config, stored>>
    BY <1>2 DEF Send
  <2> DEFINE moved == [run[r] EXCEPT !.pc = pc]
             new == [moved EXCEPT !.tx = tx]
  <2>3. run[r] \in Command
    BY Started DEF Invariant
  <2>4. tx \in Tx /\ tx.kind = kind
    BY WindowNat DEF Tx
  <2>5. /\ moved \in Command
        /\ moved.pc = pc /\ moved.kind = run[r].kind /\ moved.file = run[r].file
    BY <2>3, CommandFields DEF Final
  <2>6. run' = [run EXCEPT ![r] = new]
    BY <2>1
  <2> HIDE DEF moved, tx
  <2>7. /\ new \in Command
        /\ new.pc = pc /\ new.kind = run[r].kind /\ new.file = run[r].file /\ new.tx = tx
    BY <2>4, <2>5, CommandFields
  <2> HIDE DEF new
  <2>8. kind = "submit" => config = run[r].file.verifier_public_key
    BY <2>2 DEF Succeeds, submit_accepted
  <2>9. run[r].kind # "get"
    BY DEF Invariant, Sending
  <2> QED BY <2>2, <2>4, <2>6, <2>7, <2>8, <2>9, StepPreserves, ChainKept
<1> QED BY <1>1, <1>2

(* confirm takes a deadline at least as late as the transaction's.         *)
LEMMA ConfirmPreserves ==
  ASSUME Invariant, NEW r \in Runs, confirm(r)
  PROVE  Invariant'
<1> DEFINE moved == [run[r] EXCEPT !.pc = "confirming"]
           new == [moved EXCEPT !.deadline = Window]
<1>1. run[r].pc = "sent" /\ UNCHANGED <<config, stored>>
  BY DEF confirm
<1>2. run[r] \in Command
  BY <1>1, Started DEF Invariant
<1>3. /\ moved \in Command /\ moved.pc = "confirming" /\ moved.kind = run[r].kind
      /\ moved.file = run[r].file /\ moved.tx = run[r].tx
  BY <1>2, CommandFields
<1>4. run' = [run EXCEPT ![r] = new]
  BY DEF confirm
<1> HIDE DEF moved
<1>5. /\ new \in Command /\ new.pc = "confirming" /\ new.kind = run[r].kind
      /\ new.file = run[r].file /\ new.tx = run[r].tx /\ new.deadline = Window
  BY <1>3, CommandFields, WindowNat
<1> HIDE DEF new
<1>6. new.tx.life <= new.deadline
  BY <1>2, <1>5, WindowNat DEF Command, Tx
<1>7. new.kind # "get" /\ new.tx.kind # "none"
  BY <1>1, <1>5 DEF Invariant, Sending
<1>8. new.tx.kind = "submit" /\ new.kind = "demo" => config = new.file.verifier_public_key
  BY <1>1, <1>5 DEF Invariant, DemoKey
<1> QED BY <1>1, <1>4, <1>5, <1>6, <1>7, <1>8, StepPreserves, ChainKept

(* The outcome of a confirmation, by kind of command.                      *)
LEMMA ConfirmedPreserves ==
  ASSUME Invariant, NEW r \in Runs, Confirmed(r)
  PROVE  Invariant'
<1>1. run[r].pc = "confirming"
  BY DEF Confirmed
<1>2. run[r] \in Command
  BY <1>1, Started DEF Invariant
<1>3. run[r].kind \in {"init", "submit", "demo"} /\ run[r].tx.kind \in {"init", "submit"}
  BY <1>1, <1>2 DEF Invariant, Sending, Command, Tx
<1>4. CASE run[r].kind \in {"init", "submit"}
  <2>1. Goto(r, "ok")
    BY <1>4 DEF Confirmed
  <2> QED BY <1>1, <1>4, <2>1, GotoPreserves DEF Final
<1>5. CASE run[r].kind = "demo" /\ run[r].tx.kind = "init"
  <2>1. Goto(r, "send_submit")
    BY <1>5 DEF Confirmed
  <2> QED BY <1>1, <1>5, <2>1, GotoPreserves
<1>6. CASE run[r].kind = "demo" /\ run[r].tx.kind = "submit"
  <2>1. Goto(r, "check_stored")
    BY <1>6 DEF Confirmed
  <2>2. config = run[r].file.verifier_public_key
    BY <1>1, <1>6 DEF Invariant, DemoKey
  <2> QED BY <1>1, <2>1, <2>2, GotoPreserves
<1> QED BY <1>3, <1>4, <1>5, <1>6

(* The end of get and demo: what was found is under the id of the file.    *)
LEMMA CheckStoredPreserves ==
  ASSUME Invariant, NEW r \in Runs, CheckStored(r)
  PROVE  Invariant'
<1>1. run[r].pc = "check_stored"
  BY DEF CheckStored
<1>2. CASE Goto(r, "failed")
  BY <1>1, <1>2, GotoPreserves DEF Final
<1>3. CASE ~Goto(r, "failed")
  <2>1. Goto(r, "ok") /\ \E data \in stored : data[2] = claimId(run[r].file.claim)
    BY <1>3 DEF CheckStored
  <2>2. run[r].kind = "demo" => config = run[r].file.verifier_public_key
    BY <1>1 DEF Invariant, DemoKey
  <2>3. ASSUME run[r].kind = "demo" PROVE IsStored(run[r].file.claim_id)
    <3>1. PICK f \in Files : \E c \in Readings(f) :
            run[r].file = [f EXCEPT !.claim = c] /\ claimId(c) = f.claim_id
      BY <1>1, <2>3 DEF Invariant, FilesParsed
    <3>2. PICK c : run[r].file = [f EXCEPT !.claim = c] /\ claimId(c) = f.claim_id
      BY <3>1
    <3>3. run[r].file.claim = c /\ run[r].file.claim_id = f.claim_id
      BY <3>2, FileFields
    <3> QED BY <2>1, <3>2, <3>3 DEF IsStored
  <2> QED BY <1>1, <2>1, <2>2, <2>3, GotoPreserves DEF Final
<1> QED BY <1>2, <1>3
(* Whatever a command does next.                                           *)
LEMMA ProgressPreserves ==
  ASSUME Invariant, NEW r \in Runs, Progress(r) \/ Interrupted(r)
  PROVE  Invariant'
<1>1. CASE CheckConfig(r)
  <2>1. run[r].pc = "check_config" /\ run[r].kind # "get"
    BY <1>1 DEF CheckConfig, Invariant, Sending
  <2>2. PICK pc \in {"send_init", "send_submit"} : Goto(r, pc)
    BY <1>1 DEF CheckConfig
  <2> QED BY <2>1, <2>2, GotoPreserves
<1>2. CASE initializeConfig(r)
  BY <1>2, SendPreserves DEF initializeConfig
<1>3. CASE submitClaim(r)
  <2>1. run[r].pc = "send_submit"
    BY <1>3 DEF submitClaim
  <2>2. Send(r, "submit") \/ Goto(r, "too_large")
    BY <1>3 DEF submitClaim
  <2> QED BY <2>1, <2>2, SendPreserves, GotoPreserves DEF Final
<1>4. CASE confirm(r) \/ Confirmed(r) \/ CheckStored(r)
  BY <1>4, ConfirmPreserves, ConfirmedPreserves, CheckStoredPreserves
<1>5. CASE Expired(r)
  <2>1. run[r].pc = "confirming" /\ run[r].deadline = 0 /\ Goto(r, "expired")
    BY <1>5 DEF Expired
  <2>2. run[r] \in Command
    BY <2>1, Started DEF Invariant
  <2>3. run[r].tx.life = 0
    BY <2>1, <2>2, WindowNat DEF Invariant, Waiting, Command, Tx
  <2> QED BY <2>1, <2>3, GotoPreserves DEF Final
<1>6. CASE Interrupted(r)
  BY <1>6, GotoPreserves DEF Interrupted, Final
<1> QED BY <1>1, <1>2, <1>3, <1>4, <1>5, <1>6 DEF Progress

(* A transaction lands: init sets the key if there is none, submit adds    *)
(* what the key has signed.                                                *)
LEMMA LandPreserves ==
  ASSUME Invariant, NEW r \in Runs, Land(r)
  PROVE  Invariant'
<1> DEFINE kind == run[r].tx.kind
           ok == Succeeds(r, kind)
           tx == [kind |-> kind, status |-> IF ok THEN "ok" ELSE "err", life |-> 0]
           new == [run[r] EXCEPT !.tx = tx]
           c == run[r].file.claim
<1>1. run[r].pc # "start" /\ run[r].tx.status = "pending"
  BY DEF Land, Pending
<1>2. run[r].pc # "unparsed"
  BY <1>1 DEF Invariant, Waiting
<1>3. run[r] \in Command
  BY <1>1, Started DEF Invariant
<1>4. tx \in Tx /\ tx.kind = kind /\ tx.life = 0
  BY <1>3, WindowNat DEF Command, Tx
<1>5. run' = [run EXCEPT ![r] = new]
  <2>1. run' = [run EXCEPT ![r].tx =
                  [run[r].tx EXCEPT !.status = IF ok THEN "ok" ELSE "err", !.life = 0]]
    BY DEF Land
  <2>2. [[run[r].tx EXCEPT !.status = IF ok THEN "ok" ELSE "err"] EXCEPT !.life = 0] = tx
    <3> DEFINE s == IF ok THEN "ok" ELSE "err"
               t == [run[r].tx EXCEPT !.status = s]
    <3> HIDE DEF ok, s
    <3>1. run[r].tx \in Tx
      BY <1>3 DEF Command
    <3>2. t = [kind |-> run[r].tx.kind, status |-> s, life |-> run[r].tx.life]
      BY <3>1 DEF Tx
    <3> HIDE DEF t
    <3>3. [t EXCEPT !.life = 0] = [kind |-> run[r].tx.kind, status |-> s, life |-> 0]
      BY <3>2
    <3> QED BY <3>3 DEF s, t
  <2> QED BY <2>1, <2>2
<1> HIDE DEF tx
<1>6. /\ new \in Command /\ new.pc = run[r].pc /\ new.kind = run[r].kind
      /\ new.file = run[r].file /\ new.tx = tx /\ new.deadline = run[r].deadline
  BY <1>3, <1>4, CommandFields
<1> HIDE DEF new
<1>7. /\ new.pc = "confirming" => new.tx.life <= new.deadline
      /\ new.pc = "expired" => new.tx.life = 0
  BY <1>4, <1>6, WindowNat DEF Command
<1>8. /\ new.pc \in {"check_config", "send_init", "send_submit", "sent", "confirming"} =>
           new.kind # "get"
      /\ new.pc \in {"sent", "confirming"} => new.tx.kind # "none"
      /\ (/\ \/ new.pc \in {"check_stored", "ok"}
             \/ new.pc \in {"sent", "confirming"} /\ new.tx.kind = "submit"
          /\ new.kind = "demo") => config = new.file.verifier_public_key
      /\ new.pc = "ok" /\ new.kind = "demo" => IsStored(new.file.claim_id)
  BY <1>4, <1>6 DEF Invariant, Sending, DemoKey, DemoSuccessMeansStored
<1>9. CASE ok /\ kind = "init"
  <2>1. config = NoKey /\ config' = run[r].file.verifier_public_key /\ stored' = stored
    BY <1>9 DEF Land, Succeeds
  <2>2. config' \in {f.verifier_public_key : f \in Files}
    BY <1>1, <1>2, <2>1, HasKey DEF Invariant
  <2>3. stored = {}
    BY <2>1 DEF Invariant, StoredSigned
  <2>4. StoredSigned'
    BY <2>1, <2>3 DEF StoredSigned
  <2> HIDE DEF ok, kind
  <2> QED BY <1>1, <1>2, <1>5, <1>6, <1>7, <1>8, <2>1, <2>2, <2>4, StepPreserves
<1>10. CASE ok /\ kind = "submit"
  <2>1. config' = config /\ stored' = stored \cup {account_data(c, claim_id(c), r)}
    BY <1>10 DEF Land
  <2>2. submit_accepted(run[r].file)
    BY <1>10 DEF Succeeds
  <2>3. PICK f \in Files : \E d \in Readings(f) :
          /\ c = d
          /\ f.verifier_public_key = config
          /\ f.signature = Signature(config, signing_message(d))
    BY <1>1, <1>2, <2>2, AcceptedMeans
  <2>4. /\ c \in Readings(f)
        /\ f.signature = Signature(config, signing_message(c))
        /\ config # NoKey
    BY <2>3, ClientAssumption
  <2> HIDE DEF ok, kind, c
  <2>5. StoredSigned'
    BY <2>1, <2>4 DEF Invariant, StoredSigned
  <2>6. config' \in {g.verifier_public_key : g \in Files} \cup {NoKey}
    BY <2>1 DEF Invariant, TypeOK
  <2> QED BY <1>1, <1>2, <1>5, <1>6, <1>7, <1>8, <2>1, <2>5, <2>6, StepPreserves
<1>11. CASE ~(ok /\ kind \in {"init", "submit"})
  <2>1. UNCHANGED <<config, stored>>
    BY <1>11 DEF Land
  <2> HIDE DEF ok, kind
  <2> QED BY <1>1, <1>2, <1>5, <1>6, <1>7, <1>8, <2>1, StepPreserves, ChainKept
<1> QED BY <1>9, <1>10, <1>11
(* A block makes every transaction and every deadline older by one.        *)
LEMMA NewBlockPreserves ==
  ASSUME Invariant, NewBlock
  PROVE  Invariant'
<1> DEFINE aged(r) == [run[r].tx EXCEPT !.life = Older(@)]
           new(r) == [run[r] EXCEPT !.tx.life = Older(@), !.deadline = Older(@)]
<1>1. UNCHANGED <<config, stored, stale>>
  BY DEF NewBlock
<1>2. ASSUME NEW r \in Runs, run[r].pc # "start"
      PROVE  /\ new(r) \in Command
             /\ new(r).pc = run[r].pc /\ new(r).kind = run[r].kind
             /\ new(r).file = run[r].file
             /\ new(r).tx.kind = run[r].tx.kind
             /\ new(r).tx.status = run[r].tx.status
             /\ new(r).tx.life = Older(run[r].tx.life)
             /\ new(r).deadline = Older(run[r].deadline)
  <2> DEFINE y == [run[r] EXCEPT !.tx = aged(r)]
  <2>1. run[r] \in Command
    BY <1>2, Started DEF Invariant
  <2>2. run[r].tx \in Tx /\ run[r].deadline \in 0 .. Window
    BY <2>1 DEF Command
  <2>3. /\ aged(r) \in Tx /\ aged(r).kind = run[r].tx.kind
        /\ aged(r).status = run[r].tx.status /\ aged(r).life = Older(run[r].tx.life)
    BY <2>2, WindowNat DEF Tx, Older
  <2>4. Older(run[r].deadline) \in 0 .. Window
    BY <2>2, WindowNat DEF Older
  <2>5. new(r) = [y EXCEPT !.deadline = Older(y.deadline)]
    OBVIOUS
  <2> HIDE DEF aged, new
  <2>6. /\ y \in Command /\ y.pc = run[r].pc /\ y.kind = run[r].kind
        /\ y.file = run[r].file /\ y.tx = aged(r) /\ y.deadline = run[r].deadline
    BY <2>1, <2>3, CommandFields
  <2> HIDE DEF y
  <2> QED BY <2>3, <2>4, <2>5, <2>6, CommandFields
<1>3. run' = [r \in Runs |-> IF run[r].pc = "start" THEN run[r] ELSE new(r)]
  BY DEF NewBlock
<1> HIDE DEF new
<1>4. TypeOK'
  BY <1>1, <1>2, <1>3 DEF Invariant, TypeOK
<1>5. \A r \in Runs : run[r].pc # "start" => run'[r] = new(r)
  BY <1>3
<1>6. \A r \in Runs : run'[r].pc = run[r].pc
  BY <1>2, <1>3
<1>7. \A r \in Runs : run[r].pc # "start" =>
        /\ run'[r].kind = run[r].kind /\ run'[r].file = run[r].file
        /\ run'[r].tx.kind = run[r].tx.kind /\ run'[r].tx.status = run[r].tx.status
        /\ run'[r].tx.life = Older(run[r].tx.life)
        /\ run'[r].deadline = Older(run[r].deadline)
  BY <1>2, <1>5
<1>8. FilesParsed'
  <2> SUFFICES ASSUME NEW r \in Runs, run'[r].pc \notin {"start", "unparsed"}
               PROVE  \E f \in Files : \E c \in Readings(f) :
                        /\ run'[r].file = [f EXCEPT !.claim = c]
                        /\ run'[r].kind \in {"submit", "demo"} => claimId(c) = f.claim_id
    BY DEF FilesParsed
  <2>1. /\ run'[r].file = run[r].file
        /\ run'[r].kind = run[r].kind
        /\ run[r].pc \notin {"start", "unparsed"}
    BY <1>6, <1>7
  <2> QED BY <2>1 DEF Invariant, FilesParsed
<1>9. Waiting'
  <2> SUFFICES ASSUME NEW r \in Runs
               PROVE  /\ run'[r].pc = "unparsed" => run'[r].tx.status = "none"
                      /\ run'[r].pc = "confirming" => run'[r].tx.life <= run'[r].deadline
                      /\ run'[r].pc = "expired" => run'[r].tx.life = 0
    BY DEF Waiting
  <2>1. run[r].pc # "start" => run[r].tx.life \in 0 .. Window /\ run[r].deadline \in 0 .. Window
    BY Started DEF Invariant, Command, Tx
  <2> QED BY <1>6, <1>7, <2>1, WindowNat DEF Invariant, Waiting, Older
<1>10. Sending' /\ DemoKey'
  BY <1>1, <1>6, <1>7 DEF Invariant, Sending, DemoKey
<1>11. StoredSigned'
  BY <1>1, ChainKept
<1>12. SoundFilesParse' /\ DemoSuccessMeansStored'
  BY <1>1, <1>6, <1>7 DEF Invariant, SoundFilesParse, DemoSuccessMeansStored, IsStored
<1> QED BY <1>4, <1>8, <1>9, <1>10, <1>11, <1>12 DEF Invariant

(* A command starts with a file it can read, or ends at once.              *)
LEMMA StartPreserves ==
  ASSUME Invariant, NEW r \in Runs, Start(r)
  PROVE  Invariant'
<1>1. PICK kind \in {"init", "submit", "get", "demo"}, file \in Files \cup {Unreadable} :
        Begin(r, kind, file)
  BY DEF Start
<1>2. run[r].pc = "start" /\ UNCHANGED <<config, stored, stale>>
  BY DEF Start
<1> DEFINE usable == IF file = Unreadable THEN {}
                     ELSE IF kind \in {"init", "get"} THEN {file.claim}
                     ELSE parseSignedClaim(file)
           first == CASE kind = "init" -> "send_init"
                      [] kind = "get" -> "check_stored"
                      [] kind = "submit" -> "send_submit"
                      [] kind = "demo" -> "check_config"
           c == CHOOSE c \in usable : TRUE
           loaded == IF usable = {} THEN file ELSE [file EXCEPT !.claim = c]
           new == [pc |-> IF usable = {} THEN "unparsed" ELSE first, kind |-> kind,
                   file |-> loaded, tx |-> NoTx, deadline |-> 0]
<1>3. run' = [run EXCEPT ![r] = new]
  BY <1>1 DEF Begin
<1>4. usable # {} => /\ file \in Files
                     /\ c \in Readings(file)
                     /\ kind \in {"submit", "demo"} => claimId(c) = file.claim_id
  <2> SUFFICES ASSUME usable # {}
               PROVE  /\ file \in Files
                      /\ c \in Readings(file)
                      /\ kind \in {"submit", "demo"} => claimId(c) = file.claim_id
    OBVIOUS
  <2>1. file # Unreadable
    OBVIOUS
  <2>2. c \in usable
    OBVIOUS
  <2> HIDE DEF c
  <2>3. CASE kind \in {"init", "get"}
    BY <2>1, <2>2, <2>3 DEF Readings
  <2>4. CASE kind \notin {"init", "get"}
    <3>1. c \in parseSignedClaim(file)
      BY <2>1, <2>2, <2>4
    <3> QED BY <2>1, <3>1 DEF parseSignedClaim, Readings
  <2> QED BY <2>3, <2>4
<1>5. usable = {} => \/ file = Unreadable
                     \/ file.claim_id # claim_id(file.claim)
                     \/ \E t \in {file.claim.issued_at, file.claim.expires_at} :
                          t \notin -MaxSafe .. MaxSafe
  BY RefusedMeansUnsound
<1>6. first \in {"send_init", "check_stored", "send_submit", "check_config"}
      /\ (first = "check_stored" <=> kind = "get")
  OBVIOUS
<1> HIDE DEF usable, c, first
<1>7. loaded \in Loaded
  BY <1>4 DEF Loaded
<1>8. NoTx \in Tx
  BY WindowNat DEF NoTx, Tx
<1>9. new \in Command
  BY <1>6, <1>7, <1>8, WindowNat DEF Command, Final
<1>10. /\ new.pc = IF usable = {} THEN "unparsed" ELSE first
       /\ new.kind = kind /\ new.file = loaded /\ new.tx = NoTx
  OBVIOUS
<1> HIDE DEF new
<1>11. \A q \in Runs : run'[q] = IF q = r THEN new ELSE run[q]
  BY <1>3 DEF Invariant, TypeOK
<1>12. TypeOK'
  BY <1>2, <1>3, <1>9 DEF Invariant, TypeOK
<1>13. FilesParsed'
  BY <1>4, <1>10, <1>11 DEF Invariant, FilesParsed
<1>14. Waiting' /\ Sending' /\ DemoKey'
  BY <1>2, <1>6, <1>10, <1>11 DEF Invariant, Waiting, Sending, DemoKey, NoTx
<1>15. StoredSigned'
  BY <1>2, ChainKept
<1>16. SoundFilesParse' /\ DemoSuccessMeansStored'
  BY <1>2, <1>5, <1>6, <1>10, <1>11
  DEF Invariant, SoundFilesParse, DemoSuccessMeansStored, IsStored
<1> QED BY <1>12, <1>13, <1>14, <1>15, <1>16 DEF Invariant

(* Every step preserves the invariant.                                     *)
LEMMA NextPreserves == Invariant /\ [Next]_vars => Invariant'
<1> SUFFICES ASSUME Invariant, [Next]_vars PROVE Invariant'
  OBVIOUS
<1>1. ASSUME NEW r \in Runs, Start(r) \/ Progress(r) \/ Interrupted(r) \/ Land(r)
      PROVE  Invariant'
  BY <1>1, StartPreserves, ProgressPreserves, LandPreserves
<1>2. CASE NewBlock
  BY <1>2, NewBlockPreserves
<1>3. CASE UNCHANGED <<config, stored, run>>
  BY <1>3 DEF Invariant, TypeOK, FilesParsed, Waiting, Sending, DemoKey, StoredSigned,
     SoundFilesParse, DemoSuccessMeansStored, IsStored
<1> QED BY <1>1, <1>2, <1>3 DEF Next, ClaimExpires, vars

-----------------------------------------------------------------------------
(* The invariant holds in every reachable state.                           *)
THEOREM InvariantHolds == Spec => []Invariant
BY InitInvariant, NextPreserves, PTL DEF Spec

(* Commands and their transactions keep their types.                       *)
THEOREM TypeCorrect == Spec => []TypeOK
<1>1. Invariant => TypeOK
  BY DEF Invariant
<1> QED BY <1>1, InvariantHolds, PTL

(* demo reports success only for a claim that is stored under the          *)
(* configured key, however many commands race for the accounts.            *)
THEOREM DemoSuccessIsReal == Spec => []DemoSuccessMeansStored
<1>1. Invariant => DemoSuccessMeansStored
  BY DEF Invariant
<1> QED BY <1>1, InvariantHolds, PTL

(* A command that gives up has no transaction that could still land.       *)
THEOREM ExpiryIsFinal == Spec => []ExpiredMeansOver
<1>1. Invariant => ExpiredMeansOver
  BY DEF Invariant, Waiting, ExpiredMeansOver, Pending
<1> QED BY <1>1, InvariantHolds, PTL

(* parseSignedClaim refuses no sound file.                                 *)
THEOREM NoSoundFileRefused == Spec => []SoundFilesParse
<1>1. Invariant => SoundFilesParse
  BY DEF Invariant
<1> QED BY <1>1, InvariantHolds, PTL

(* Whatever getClaim returns was signed by the configured key, field by    *)
(* field.                                                                  *)
THEOREM StoredIsSigned == Spec => []StoredExact
<1>1. Invariant => StoredExact
  <2> SUFFICES ASSUME Invariant, NEW data \in stored
               PROVE  \E f \in Files : \E c \in Readings(f) :
                        /\ Shows(decodeVerifiedClaim(data), c)
                        /\ f.signature = Signature(config, signing_message(c))
    BY DEF StoredExact
  <2>1. PICK f \in Files, s \in Runs : \E c \in Readings(f) :
          /\ data = account_data(c, claim_id(c), s)
          /\ f.signature = Signature(config, signing_message(c))
    BY DEF Invariant, StoredSigned
  <2>2. PICK c \in Readings(f) :
          /\ data = account_data(c, claim_id(c), s)
          /\ f.signature = Signature(config, signing_message(c))
    BY <2>1
  <2>3. Shows(decodeVerifiedClaim(data), c)
    BY <2>2 DEF Shows, decodeVerifiedClaim, account_data
  <2> QED BY <2>2, <2>3
<1> QED BY <1>1, InvariantHolds, PTL

(* The commands' view of the chain implements the ledger, as the program   *)
(* does: transactions that land publish, everything else is invisible.     *)
THEOREM ClientImplementsLedger == Spec => ImplementsLedger
<1> DEFINE Entries == {data[2] : data \in stored}
           Attested == UNION {{<<f.verifier_public_key, claim_id(c)>> : c \in SignedIn(f)} :
                                f \in Files}
<1>1. Init => L!Init
  BY DEF Init, L!Init
<1>2. Invariant /\ [Next]_vars => [L!Attest \/ L!Publish]_L!vars
  <2> SUFFICES ASSUME Invariant, [Next]_vars
               PROVE  \/ UNCHANGED <<config, Entries, Attested>>
                      \/ /\ config' # config => config = NoKey
                         /\ Entries \subseteq Entries'
                         /\ \A id \in Entries' \ Entries : <<config', id>> \in Attested
                         /\ UNCHANGED Attested
    BY DEF L!vars, L!Attest, L!Publish
  <2>1. UNCHANGED Attested
    OBVIOUS
  <2>2. CASE UNCHANGED <<config, stored>>
    BY <2>1, <2>2
  <2>3. ASSUME NEW r \in Runs, Land(r)
        PROVE  /\ config' # config => config = NoKey
               /\ Entries \subseteq Entries'
               /\ \A id \in Entries' \ Entries : <<config', id>> \in Attested
    <3> DEFINE c == run[r].file.claim
    <3>1. run[r].pc \notin {"start", "unparsed"}
      BY <2>3 DEF Land, Pending, Invariant, Waiting
    <3>2. config' # config => config = NoKey
      BY <2>3 DEF Land, Succeeds
    <3>3. CASE stored' = stored
      BY <3>2, <3>3
    <3>4. CASE stored' # stored
      <4>1. /\ submit_accepted(run[r].file)
            /\ stored' = stored \cup {account_data(c, claim_id(c), r)}
            /\ config' = config
        BY <2>3, <3>4 DEF Land, Succeeds
      <4>2. PICK f \in Files : \E d \in Readings(f) :
              /\ c = d
              /\ f.verifier_public_key = config
              /\ f.signature = Signature(config, signing_message(d))
        BY <3>1, <4>1, AcceptedMeans
      <4>3. c \in SignedIn(f)
        BY <4>2 DEF SignedIn
      <4>4. <<config, claim_id(c)>> \in Attested
        BY <4>2, <4>3
      <4>5. Entries' = Entries \cup {claim_id(c)}
        <5>1. account_data(c, claim_id(c), r)[2] = claim_id(c)
          BY DEF account_data
        <5> QED BY <4>1, <5>1
      <4> QED BY <4>1, <4>4, <4>5
    <3> QED BY <3>3, <3>4
  <2>4. CASE NewBlock
    BY <2>2, <2>4 DEF NewBlock
  <2>5. ASSUME NEW r \in Runs, Start(r) \/ Progress(r) \/ Interrupted(r) \/ ClaimExpires(r)
        PROVE  UNCHANGED <<config, stored>>
    BY <2>5 DEF Start, Progress, Interrupted, ClaimExpires, CheckConfig, initializeConfig,
       submitClaim, confirm, Confirmed, Expired, CheckStored, Send, Goto
  <2> QED BY <2>1, <2>2, <2>3, <2>4, <2>5 DEF Next, vars
<1> QED BY <1>1, <1>2, InvariantHolds, PTL DEF Spec, ImplementsLedger, L!Spec

-----------------------------------------------------------------------------
(* How far a command has come.                                             *)

(* What is left of a command depends on its pc, and while it waits for a   *)
(* transaction, on which one that is.                                      *)
LEMMA StageOf ==
  ASSUME NEW x
  PROVE  /\ x.pc = "start" => Stage(x) = 9
         /\ x.pc = "check_config" => Stage(x) = 8
         /\ x.pc = "send_init" => Stage(x) = 7
         /\ x.pc = "sent" => Stage(x) = IF x.tx.kind = "init" THEN 6 ELSE 3
         /\ x.pc = "confirming" => Stage(x) = IF x.tx.kind = "init" THEN 5 ELSE 2
         /\ x.pc = "send_submit" => Stage(x) = 4
         /\ x.pc = "check_stored" => Stage(x) = 1
         /\ x.pc \in Final => Stage(x) = 0
BY DEF Stage, Final

(* A command that moves on keeps its transaction.                          *)
LEMMA GotoMoves ==
  ASSUME Invariant, NEW r \in Runs, run[r].pc # "start",
         NEW pc \in Final \cup {"send_init", "send_submit", "check_stored"}, Goto(r, pc)
  PROVE  run'[r].pc = pc
<1> DEFINE moved == [run[r] EXCEPT !.pc = pc]
           new == [moved EXCEPT !.deadline = 0]
<1>1. run[r] \in Command
  BY Started DEF Invariant
<1>2. moved \in Command /\ moved.pc = pc
  BY <1>1, CommandFields
<1>3. run' = [run EXCEPT ![r] = new]
  BY DEF Goto
<1> HIDE DEF moved
<1>4. new.pc = pc
  BY <1>2, CommandFields, WindowNat
<1> HIDE DEF new
<1> QED BY <1>3, <1>4 DEF Invariant, TypeOK

(* A transaction is sent, and the command waits or ends.                   *)
LEMMA SendMoves ==
  ASSUME Invariant, NEW r \in Runs, run[r].pc # "start",
         NEW kind \in {"init", "submit"}, Send(r, kind)
  PROVE  \/ run'[r].pc = "failed"
         \/ run'[r].pc = "sent" /\ run'[r].tx.kind = kind
<1>1. CASE Goto(r, "failed")
  BY <1>1, GotoMoves DEF Final
<1>2. CASE ~Goto(r, "failed")
  <2> DEFINE tx == [kind |-> kind, status |-> "pending", life |-> Window]
  <2>1. PICK pc \in {"sent", "failed"} :
          run' = [run EXCEPT ![r].pc = pc, ![r].tx = tx]
    BY <1>2 DEF Send
  <2> DEFINE moved == [run[r] EXCEPT !.pc = pc]
             new == [moved EXCEPT !.tx = tx]
  <2>2. run[r] \in Command
    BY Started DEF Invariant
  <2>3. tx \in Tx /\ tx.kind = kind
    BY WindowNat DEF Tx
  <2>4. moved \in Command /\ moved.pc = pc
    BY <2>2, CommandFields DEF Final
  <2>5. run' = [run EXCEPT ![r] = new]
    BY <2>1
  <2> HIDE DEF moved, tx
  <2>6. new.pc = pc /\ new.tx = tx
    BY <2>3, <2>4, CommandFields
  <2> HIDE DEF new
  <2> QED BY <2>3, <2>5, <2>6 DEF Invariant, TypeOK
<1> QED BY <1>1, <1>2

(* confirm waits for the transaction that was sent.                        *)
LEMMA ConfirmMoves ==
  ASSUME Invariant, NEW r \in Runs, confirm(r)
  PROVE  run'[r].pc = "confirming" /\ run'[r].tx = run[r].tx
<1> DEFINE moved == [run[r] EXCEPT !.pc = "confirming"]
           new == [moved EXCEPT !.deadline = Window]
<1>1. run[r] \in Command
  BY Started DEF Invariant, confirm
<1>2. moved \in Command /\ moved.pc = "confirming" /\ moved.tx = run[r].tx
  BY <1>1, CommandFields
<1>3. run' = [run EXCEPT ![r] = new]
  BY DEF confirm
<1> HIDE DEF moved
<1>4. new.pc = "confirming" /\ new.tx = run[r].tx
  BY <1>2, CommandFields, WindowNat
<1> HIDE DEF new
<1> QED BY <1>3, <1>4 DEF Invariant, TypeOK

(* Each step of a command leaves it less to do.                            *)
LEMMA ProgressAdvances ==
  ASSUME Invariant, NEW r \in Runs, Progress(r)
  PROVE  Stage(run'[r]) < Stage(run[r])
<1>1. ASSUME CheckConfig(r) PROVE Stage(run'[r]) < Stage(run[r])
  <2>1. run[r].pc = "check_config"
    BY <1>1 DEF CheckConfig
  <2>2. run'[r].pc \in {"send_init", "send_submit"}
    BY <1>1, <2>1, GotoMoves DEF CheckConfig
  <2> QED BY <2>1, <2>2, StageOf
<1>2. ASSUME initializeConfig(r) PROVE Stage(run'[r]) < Stage(run[r])
  <2>1. run[r].pc = "send_init" /\ Send(r, "init")
    BY <1>2 DEF initializeConfig
  <2>2. \/ run'[r].pc = "failed"
        \/ run'[r].pc = "sent" /\ run'[r].tx.kind = "init"
    BY <2>1, SendMoves
  <2> QED BY <2>1, <2>2, StageOf DEF Final
<1>3. ASSUME submitClaim(r) PROVE Stage(run'[r]) < Stage(run[r])
  <2>1. run[r].pc = "send_submit" /\ (Send(r, "submit") \/ Goto(r, "too_large"))
    BY <1>3 DEF submitClaim
  <2>2. \/ run'[r].pc \in {"failed", "too_large"}
        \/ run'[r].pc = "sent" /\ run'[r].tx.kind = "submit"
    BY <2>1, SendMoves, GotoMoves DEF Final
  <2> QED BY <2>1, <2>2, StageOf DEF Final
<1>4. ASSUME confirm(r) PROVE Stage(run'[r]) < Stage(run[r])
  <2>1. run[r].pc = "sent"
    BY <1>4 DEF confirm
  <2>2. run'[r].pc = "confirming" /\ run'[r].tx = run[r].tx
    BY <1>4, ConfirmMoves
  <2> QED BY <2>1, <2>2, StageOf
<1>5. ASSUME Confirmed(r) PROVE Stage(run'[r]) < Stage(run[r])
  <2>1. run[r].pc = "confirming"
    BY <1>5 DEF Confirmed
  <2>2. run[r] \in Command
    BY <2>1, Started DEF Invariant
  <2>3. /\ run[r].kind \in {"init", "submit", "demo"}
        /\ run[r].tx.kind \in {"init", "submit"}
    BY <2>1, <2>2 DEF Invariant, Sending, Command, Tx
  <2>4. CASE Goto(r, "ok")
    BY <2>1, <2>4, GotoMoves, StageOf DEF Final
  <2>5. CASE run[r].tx.kind = "init" /\ Goto(r, "send_submit")
    BY <2>1, <2>5, GotoMoves, StageOf
  <2>6. CASE run[r].tx.kind = "submit" /\ Goto(r, "check_stored")
    BY <2>1, <2>6, GotoMoves, StageOf
  <2> QED BY <1>5, <2>3, <2>4, <2>5, <2>6 DEF Confirmed
<1>6. ASSUME Expired(r) PROVE Stage(run'[r]) < Stage(run[r])
  BY <1>6, GotoMoves, StageOf DEF Expired, Final
<1>7. ASSUME CheckStored(r) PROVE Stage(run'[r]) < Stage(run[r])
  <2>1. run[r].pc = "check_stored" /\ (Goto(r, "ok") \/ Goto(r, "failed"))
    BY <1>7 DEF CheckStored
  <2>2. run'[r].pc \in {"ok", "failed"}
    BY <2>1, GotoMoves DEF Final
  <2> QED BY <2>1, <2>2, StageOf DEF Final
<1> QED BY <1>1, <1>2, <1>3, <1>4, <1>5, <1>6, <1>7 DEF Progress

(* Two states of a command with the same pc and the same transaction.      *)
LEMMA SameStage ==
  ASSUME NEW x, NEW y, y.pc = x.pc, x.pc # "start" => y.tx.kind = x.tx.kind
  PROVE  Stage(y) = Stage(x)
BY DEF Stage

(* Of the other commands a step says nothing.                              *)
LEMMA OthersKept ==
  ASSUME Invariant, NEW r \in Runs, NEW s \in Runs \ {r},
         Start(r) \/ Progress(r) \/ Interrupted(r) \/ Land(r) \/ ClaimExpires(r)
  PROVE  run'[s] = run[s]
BY DEF Invariant, TypeOK, Start, Begin, Progress, Interrupted, Land, ClaimExpires, CheckConfig,
   initializeConfig, submitClaim, confirm, Confirmed, Expired, CheckStored, Send, Goto

(* A transaction that lands moves no command.                              *)
LEMMA LandMovesNone ==
  ASSUME Invariant, NEW r \in Runs, Land(r)
  PROVE  /\ run[r].pc # "start"
         /\ run'[r].pc = run[r].pc /\ run'[r].tx.kind = run[r].tx.kind
         /\ run'[r].deadline = run[r].deadline
<1> DEFINE status == IF Succeeds(r, run[r].tx.kind) THEN "ok" ELSE "err"
           tx == [run[r].tx EXCEPT !.status = status, !.life = 0]
           new == [run[r] EXCEPT !.tx = tx]
<1>1. run[r].pc # "start"
  BY DEF Land, Pending
<1>2. run[r] \in Command
  BY <1>1, Started DEF Invariant
<1>3. tx \in Tx /\ tx.kind = run[r].tx.kind
  <2>1. run[r].tx \in Tx
    BY <1>2 DEF Command
  <2>2. status \in {"ok", "err"}
    OBVIOUS
  <2> HIDE DEF status
  <2> DEFINE t == [run[r].tx EXCEPT !.status = status]
  <2>3. t \in Tx /\ t.kind = run[r].tx.kind
    BY <2>1, <2>2 DEF Tx
  <2>4. tx = [t EXCEPT !.life = 0]
    OBVIOUS
  <2> HIDE DEF t, tx
  <2> QED BY <2>3, <2>4, WindowNat DEF Tx
<1>4. run' = [run EXCEPT ![r] = new]
  BY DEF Land
<1> HIDE DEF tx
<1>5. new.pc = run[r].pc /\ new.tx = tx /\ new.deadline = run[r].deadline
  BY <1>2, <1>3, CommandFields
<1> HIDE DEF new
<1> QED BY <1>1, <1>3, <1>4, <1>5 DEF Invariant, TypeOK

(* A block brings every deadline nearer.                                   *)
LEMMA BlockAges ==
  ASSUME Invariant, NewBlock, NEW s \in Runs
  PROVE  /\ Stage(run'[s]) = Stage(run[s])
         /\ run[s].pc # "start" => /\ run'[s].deadline <= run[s].deadline
                                   /\ run[s].deadline > 0 => run'[s].deadline < run[s].deadline
<1>1. CASE run[s].pc = "start"
  BY <1>1 DEF NewBlock
<1>2. CASE run[s].pc # "start"
  <2> DEFINE new == [run[s] EXCEPT !.tx.life = Older(@), !.deadline = Older(@)]
  <2>1. run[s] \in Command
    BY <1>2, Started DEF Invariant
  <2>2. run'[s] = new
    BY <1>2 DEF NewBlock
  <2>3. new.pc = run[s].pc /\ new.tx.kind = run[s].tx.kind /\ new.deadline = Older(run[s].deadline)
    BY <2>1 DEF Command, Tx
  <2>4. run[s].deadline \in Nat
    BY <2>1, WindowNat DEF Command
  <2> HIDE DEF new
  <2>5. Stage(run'[s]) = Stage(run[s])
    BY <2>2, <2>3, SameStage
  <2> QED BY <2>2, <2>3, <2>4, <2>5 DEF Older
<1> QED BY <1>1, <1>2

(* Each step of a command brings it nearer to its end, each block brings   *)
(* the deadline of a confirmation nearer, and nothing sets a command back: *)
(* not its own transaction, not a race it loses, not an expired claim.     *)
THEOREM CommandsOnlyAdvance == Spec => CommandsAdvance
<1>1. ASSUME Invariant, [Next]_vars, NEW s \in Runs
      PROVE  Advances(s) \/ UNCHANGED vars
  <2>1. CASE Progress(s)
    BY <1>1, <2>1, ProgressAdvances DEF Advances
  <2>2. CASE ~Progress(s) /\ NewBlock
    BY <1>1, <2>2, BlockAges DEF Advances
  <2>3. ASSUME ~Progress(s), ~NewBlock, NEW r \in Runs,
               Start(r) \/ Progress(r) \/ Interrupted(r) \/ Land(r) \/ ClaimExpires(r)
        PROVE  Advances(s)
    <3>1. run[s].pc = "confirming" => run[s].deadline \in Nat
      BY <1>1, Started, WindowNat DEF Invariant, Command
    <3>2. CASE run'[s] = run[s]
      BY <2>3, <3>1, <3>2 DEF Advances
    <3>3. CASE r = s /\ Start(s)
      <4>1. run[s].pc = "start"
        BY <3>3 DEF Start
      <4>2. run'[s].pc \in {"unparsed", "send_init", "check_stored", "send_submit", "check_config"}
        BY <1>1, <3>3 DEF Start, Begin, Invariant, TypeOK
      <4> QED BY <4>1, <4>2, StageOf DEF Final, Advances
    <3>4. CASE r = s /\ Interrupted(s)
      <4>1. run[s].pc \notin Final \cup {"start"} /\ Goto(s, "failed")
        BY <3>4 DEF Interrupted
      <4>2. run'[s].pc = "failed"
        BY <1>1, <4>1, GotoMoves DEF Final
      <4>3. Stage(run[s]) \in 1 .. 8
        BY <1>1, <4>1, Started, StageOf DEF Invariant, Command
      <4> QED BY <4>2, <4>3, StageOf DEF Final, Advances
    <3>5. CASE r = s /\ Land(s)
      <4>1. /\ run'[s].pc = run[s].pc /\ run'[s].tx.kind = run[s].tx.kind
            /\ run'[s].deadline = run[s].deadline
        BY <1>1, <3>5, LandMovesNone
      <4>2. Stage(run'[s]) = Stage(run[s])
        BY <4>1, SameStage
      <4> QED BY <2>3, <3>1, <4>1, <4>2 DEF Advances
    <3>6. CASE r = s /\ ClaimExpires(s)
      BY <3>2, <3>6 DEF ClaimExpires
    <3>7. CASE r # s
      BY <1>1, <2>3, <3>2, <3>7, OthersKept
    <3> QED BY <2>3, <3>3, <3>4, <3>5, <3>6, <3>7
  <2> QED BY <1>1, <2>1, <2>2, <2>3 DEF Next
<1>2. Invariant /\ [Next]_vars => [\A r \in Runs : Advances(r)]_vars
  BY <1>1
<1> QED BY <1>2, InvariantHolds, PTL DEF Spec, CommandsAdvance
=============================================================================
