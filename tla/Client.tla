------------------------------- MODULE Client -------------------------------
(***************************************************************************)
(* The command line (cli) and the SDK it uses, talking to an RPC node: the *)
(* commands init, submit, get and demo of several users at once.           *)
(*                                                                         *)
(* A command sends one transaction at a time.  The node simulates it       *)
(* first; it may then land in any later block while its blockhash lives,   *)
(* and by then the accounts may have changed.  Lifetimes count the blocks  *)
(* that are left.  The program's part is what WebProof establishes: config *)
(* is written once, and a claim is stored when it is live, not yet stored  *)
(* and signed by the configured key.                                       *)
(***************************************************************************)
EXTENDS Sdk

CONSTANTS
  Runs,       (* invocations of the command line                            *)
  Files,      (* contents of signed-claim.json, SignedClaim or damaged      *)
  Unreadable, (* signed-claim.json is missing or not JSON                   *)
  NoKey,      (* the config account does not exist                          *)
  Window      (* blocks for which a blockhash is valid                      *)

(* A file has the fields of a SignedClaim, with whatever values: one that  *)
(* lacks a field, or holds no claim, is Unreadable.                        *)
ASSUME ClientAssumption ==
  /\ \A f \in Files :
       /\ f = [claim |-> f.claim, claim_id |-> f.claim_id, signature |-> f.signature,
               verifier_public_key |-> f.verifier_public_key,
               tlsn_artifact_hash |-> f.tlsn_artifact_hash]
       /\ f.claim \in ClaimV1
       /\ f.verifier_public_key # NoKey
  /\ Window \in Nat \ {0}

VARIABLES
  config,   (* verifier_pubkey of the config account, or NoKey              *)
  stored,   (* data of the claim accounts                                   *)
  stale,    (* claims the program no longer accepts as fresh                *)
  run       (* progress of each command                                     *)

vars == <<config, stored, stale, run>>

Final == {"ok", "failed", "unparsed", "too_large", "expired"}
NoTx == [kind |-> "none", status |-> "none", life |-> 0]

Init ==
  /\ config = NoKey
  /\ stored = {}
  /\ stale = {}
  /\ run = [r \in Runs |-> [pc |-> "start"]]

Goto(r, pc) ==
  /\ run' = [run EXCEPT ![r].pc = pc, ![r].deadline = 0]
  /\ UNCHANGED <<config, stored, stale>>

-----------------------------------------------------------------------------
(* The chain.                                                              *)

IsStored(id) == \E data \in stored : data[2] = id

(* The program's verdict on [Ed25519, submit_claim]: the native program    *)
(* has checked the signature, submit_claim compares key and message with   *)
(* what it expects, validate_claim looks at version, lengths, time window  *)
(* and, with the clock, freshness, and the account must not exist.         *)
submit_accepted(file) ==
  LET c == file.claim
  IN /\ file.signature = Signature(file.verifier_public_key, signingMessage(c))
     /\ config = file.verifier_public_key
     /\ signingMessage(c) = signing_message(c)
     /\ claimId(c) = claim_id(c)
     /\ WellFormed(c)
     /\ c.issued_at < c.expires_at
     /\ c \notin stale
     /\ ~IsStored(claim_id(c))

(* Succeeds with an initialize_config that may run again.                  *)
Succeeds_reinit(r, kind) ==
  kind = "init" \/ (kind = "submit" /\ submit_accepted(run[r].file))

(* Whether the transaction of r would succeed now.                         *)
Succeeds(r, kind) ==
  \/ kind = "init" /\ config = NoKey
  \/ kind = "submit" /\ submit_accepted(run[r].file)

Pending(r) ==
  run[r].pc # "start" /\ run[r].tx.status = "pending" /\ run[r].tx.life > 0

(* A pending transaction is executed, successfully or not.                 *)
Land(r) ==
  /\ Pending(r)
  /\ LET ok == Succeeds(r, run[r].tx.kind)
     IN /\ run' = [run EXCEPT ![r].tx =
                     [@ EXCEPT !.status = IF ok THEN "ok" ELSE "err", !.life = 0]]
        /\ config' = IF ok /\ run[r].tx.kind = "init"
                     THEN run[r].file.verifier_public_key ELSE config
        /\ stored' = IF ok /\ run[r].tx.kind = "submit"
                     THEN stored \cup {account_data(run[r].file.claim,
                                                    claim_id(run[r].file.claim), r)}
                     ELSE stored
  /\ UNCHANGED stale

(* A block is produced: every blockhash is one block older.                *)
Older(n) == IF n = 0 THEN 0 ELSE n - 1
NewBlock ==
  /\ run' = [r \in Runs |->
       IF run[r].pc = "start" THEN run[r]
       ELSE [run[r] EXCEPT !.tx.life = Older(@), !.deadline = Older(@)]]
  /\ UNCHANGED <<config, stored, stale>>

(* The clock passes the window of a claim that a command is submitting.    *)
ClaimExpires(r) ==
  /\ run[r].pc \in {"check_config", "send_init", "send_submit", "sent", "confirming"}
       \/ Pending(r)
  /\ run[r].kind # "init"
  /\ run[r].file.claim \notin stale
  /\ stale' = stale \cup {run[r].file.claim}
  /\ UNCHANGED <<config, stored, run>>

-----------------------------------------------------------------------------
(* The commands.                                                           *)

(* A command starts, with the claim file it finds.  init and get need no   *)
(* parsed claim; demo has run the off-chain pipeline before.               *)
Begin(r, kind, file) ==
  LET usable == IF file = Unreadable THEN {}
                ELSE IF kind \in {"init", "get"} THEN {file.claim}
                ELSE parseSignedClaim(file)
      first == CASE kind = "init" -> "send_init"
                 [] kind = "get" -> "check_stored"
                 [] kind = "submit" -> "send_submit"
                 [] kind = "demo" -> "check_config"
  IN run' = [run EXCEPT ![r] =
               [pc |-> IF usable = {} THEN "unparsed" ELSE first, kind |-> kind,
                file |-> IF usable = {} THEN file
                         ELSE [file EXCEPT !.claim = CHOOSE c \in usable : TRUE],
                tx |-> NoTx, deadline |-> 0]]

Start(r) ==
  /\ run[r].pc = "start"
  /\ \E kind \in {"init", "submit", "get", "demo"}, file \in Files \cup {Unreadable} :
       Begin(r, kind, file)
  /\ UNCHANGED <<config, stored, stale>>

(* demo initialises the config if there is none yet.                       *)
CheckConfig(r) ==
  /\ run[r].pc = "check_config"
  /\ Goto(r, IF config = NoKey THEN "send_init" ELSE "send_submit")

(* sendTransaction: the node simulates the transaction first.              *)
Send(r, kind) ==
  \/ /\ Succeeds(r, kind)
     /\ \E pc \in {"sent", "failed"} :   (* "failed": the reply is lost      *)
          run' = [run EXCEPT
                    ![r].pc = pc,
                    ![r].tx = [kind |-> kind, status |-> "pending", life |-> Window]]
     /\ UNCHANGED <<config, stored, stale>>
  \/ ~Succeeds(r, kind) /\ Goto(r, "failed")

initializeConfig(r) == run[r].pc = "send_init" /\ Send(r, "init")

(* A transaction that is too large is not even sent.                       *)
submitClaim(r) ==
  /\ run[r].pc = "send_submit"
  /\ \/ transaction_size(run[r].file.claim) <= PACKET_DATA_SIZE /\ Send(r, "submit")
     \/ transaction_size(run[r].file.claim) > PACKET_DATA_SIZE /\ Goto(r, "too_large")

(* confirm that uses a blockhash fetched one block before the send.        *)
confirm_stale_blockhash(r) ==
  /\ run[r].pc = "sent"
  /\ run' = [run EXCEPT ![r].pc = "confirming", ![r].deadline = Older(run[r].tx.life)]
  /\ UNCHANGED <<config, stored, stale>>

(* confirm that adds the validity window to lastValidBlockHeight again.    *)
confirm_two_windows(r) ==
  /\ run[r].pc = "sent"
  /\ run' = [run EXCEPT ![r].pc = "confirming", ![r].deadline = 2 * Window]
  /\ UNCHANGED <<config, stored, stale>>

(* confirm: the latest blockhash, fetched after the send, sets the         *)
(* deadline.                                                               *)
confirm(r) ==
  /\ run[r].pc = "sent"
  /\ run' = [run EXCEPT ![r].pc = "confirming", ![r].deadline = Window]
  /\ UNCHANGED <<config, stored, stale>>

(* confirmTransaction resolves once the transaction has landed; whether it *)
(* succeeded is in the result, which confirm does not look at.             *)
Confirmed(r) ==
  /\ run[r].pc = "confirming"
  /\ run[r].tx.status \in {"ok", "err"}
  /\ Goto(r, CASE run[r].kind = "init" -> "ok"
               [] run[r].kind = "submit" -> "ok"
               [] run[r].kind = "demo" /\ run[r].tx.kind = "init" -> "send_submit"
               [] run[r].kind = "demo" /\ run[r].tx.kind = "submit" -> "check_stored")

(* confirmTransaction without a block height to give up at.                *)
NeverExpires(r) == FALSE /\ Goto(r, "expired")

(* confirmTransaction that sends the transaction again instead.            *)
Expired_resends(r) ==
  /\ run[r].pc = "confirming"
  /\ run[r].deadline = 0
  /\ Goto(r, IF run[r].tx.kind = "init" THEN "send_init" ELSE "send_submit")

(* It rejects when the deadline has passed, perhaps before the notice of   *)
(* a transaction that has landed arrives.                                  *)
Expired(r) ==
  /\ run[r].pc = "confirming"
  /\ run[r].deadline = 0
  /\ Goto(r, "expired")

(* demo without its end-to-end assertion.                                  *)
SkipCheck(r) == run[r].pc = "check_stored" /\ Goto(r, "ok")

(* getClaim, and the comparison of four fields at the end of demo.         *)
CheckStored(r) ==
  /\ run[r].pc = "check_stored"
  /\ LET c == run[r].file.claim
         same(v) == /\ v.sourceHost = c.source_host
                    /\ v.claimKey = c.claim_key
                    /\ v.claimValue = c.claim_value
                    /\ v.provenanceHash = c.provenance_hash
         found == {decodeVerifiedClaim(data) :
                     data \in {data \in stored : data[2] = claimId(c)}}
     IN Goto(r, IF found # {} /\ (run[r].kind = "demo" => \A v \in found : same(v))
                THEN "ok" ELSE "failed")

(* A call to the RPC node fails, or the command is interrupted.            *)
Interrupted(r) ==
  /\ run[r].pc \notin Final \cup {"start"}
  /\ Goto(r, "failed")

-----------------------------------------------------------------------------
Progress(r) ==
  \/ CheckConfig(r) \/ initializeConfig(r) \/ submitClaim(r)
  \/ confirm(r) \/ Confirmed(r) \/ Expired(r) \/ CheckStored(r)

Next ==
  \/ \E r \in Runs :
       Start(r) \/ Progress(r) \/ Interrupted(r) \/ Land(r) \/ ClaimExpires(r)
  \/ NewBlock

Spec ==
  /\ Init
  /\ [][Next]_vars
  /\ WF_vars(NewBlock)
  /\ \A r \in Runs : WF_vars(Progress(r))

-----------------------------------------------------------------------------
(* The claims a command may take from file f, and the files as read.       *)
Readings(f) == {f.claim, parsed(f)}
Loaded ==
  Files \cup {Unreadable}
    \cup UNION {{[f EXCEPT !.claim = c] : c \in Readings(f)} : f \in Files}

(* A command that has started.                                             *)
Tx == [kind: {"none", "init", "submit"}, status: {"none", "pending", "ok", "err"},
       life: 0 .. Window]
Command ==
  [pc: Final \cup {"check_config", "send_init", "send_submit", "sent", "confirming",
                   "check_stored"},
   kind: {"init", "submit", "get", "demo"}, file: Loaded, tx: Tx, deadline: 0 .. Window]

(* Commands and transactions are in the states the code names, and a       *)
(* confirmation never waits longer than a blockhash lives.                 *)
TypeOK ==
  /\ config \in {f.verifier_public_key : f \in Files} \cup {NoKey}
  /\ run \in [Runs -> [pc: {"start"}] \cup Command]

(* What the SDK decodes is claim c, field by field.                        *)
Shows(v, c) ==
  /\ v.claimId = claim_id(c)
  /\ v.sourceHost = c.source_host
  /\ v.requestPathHash = c.request_path_hash
  /\ v.claimKey = c.claim_key
  /\ v.claimValue = c.claim_value
  /\ v.issuedAt = c.issued_at
  /\ v.expiresAt = c.expires_at
  /\ v.provenanceHash = c.provenance_hash

(* From the verifier's claim through the file, the SDK's two encodings and *)
(* the account to the decoded claim nothing is lost or made up: whatever   *)
(* getClaim returns is exactly a claim that the configured key has signed, *)
(* even if it came from a file that somebody has altered.                  *)
StoredExact ==
  \A data \in stored : \E f \in Files : \E c \in Readings(f) :
    /\ Shows(decodeVerifiedClaim(data), c)
    /\ f.signature = Signature(config, signing_message(c))

(* demo never reports success for a claim that is not stored, although it  *)
(* ignores the outcome of both of its transactions and races with others   *)
(* for the config account and for the claim account.                       *)
DemoSuccessMeansStored ==
  \A r \in Runs : run[r].pc = "ok" /\ run[r].kind = "demo" =>
    /\ IsStored(run[r].file.claim_id)
    /\ config = run[r].file.verifier_public_key

(* A sound file is read: parseSignedClaim refuses only what is damaged or  *)
(* has an instant that a JSON number does not carry.                       *)
SoundFilesParse ==
  \A r \in Runs : run[r].pc = "unparsed" =>
    LET f == run[r].file
    IN \/ f = Unreadable
       \/ f.claim_id # claim_id(f.claim)
       \/ \E t \in {f.claim.issued_at, f.claim.expires_at} : t \notin -MaxSafe .. MaxSafe

(* A command that gives up waiting is right to: its transaction cannot     *)
(* land any more, so running the command again does not do things twice.   *)
ExpiredMeansOver ==
  \A r \in Runs : run[r].pc = "expired" => ~Pending(r)

(* Why that is so, as one inductive invariant.  A command that got past    *)
(* its file has one of the files, with a claim read from it and, where the *)
(* file is parsed, under its own id.                                       *)
FilesParsed ==
  \A r \in Runs : run[r].pc \notin {"start", "unparsed"} =>
    \E f \in Files : \E c \in Readings(f) :
      /\ run[r].file = [f EXCEPT !.claim = c]
      /\ run[r].kind \in {"submit", "demo"} => claimId(c) = f.claim_id

(* The deadline of a confirmation is not before that of its transaction.   *)
Waiting ==
  \A r \in Runs :
    /\ run[r].pc = "unparsed" => run[r].tx.status = "none"
    /\ run[r].pc = "confirming" => run[r].tx.life <= run[r].deadline
    /\ run[r].pc = "expired" => run[r].tx.life = 0

(* get sends nothing, and what was sent is one of two transactions.        *)
Sending ==
  \A r \in Runs :
    /\ run[r].pc \in {"check_config", "send_init", "send_submit", "sent", "confirming"} =>
         run[r].kind # "get"
    /\ run[r].pc \in {"sent", "confirming"} => run[r].tx.kind # "none"

(* A demo whose claim has passed the simulation has the configured key.    *)
DemoKey ==
  \A r \in Runs :
    (/\ \/ run[r].pc \in {"check_stored", "ok"}
        \/ run[r].pc \in {"sent", "confirming"} /\ run[r].tx.kind = "submit"
     /\ run[r].kind = "demo") => config = run[r].file.verifier_public_key

(* Accounts hold what was signed, and only once there is a key.            *)
StoredSigned ==
  \A data \in stored :
    /\ config # NoKey
    /\ \E f \in Files, s \in Runs : \E c \in Readings(f) :
         /\ data = account_data(c, claim_id(c), s)
         /\ f.signature = Signature(config, signing_message(c))

Invariant ==
  /\ TypeOK /\ FilesParsed /\ Waiting /\ Sending /\ DemoKey /\ StoredSigned
  /\ SoundFilesParse /\ DemoSuccessMeansStored

(* Every command ends, whatever happens to its transaction.                *)
CommandsEnd == \A r \in Runs : run[r].pc # "start" ~> run[r].pc \in Final

(* What a command has still before it.                                     *)
Stage(x) ==
  CASE x.pc = "start" -> 9
    [] x.pc = "check_config" -> 8
    [] x.pc = "send_init" -> 7
    [] x.pc = "sent" -> IF x.tx.kind = "init" THEN 6 ELSE 3
    [] x.pc = "confirming" -> IF x.tx.kind = "init" THEN 5 ELSE 2
    [] x.pc = "send_submit" -> 4
    [] x.pc = "check_stored" -> 1
    [] OTHER -> 0

(* Command r has come nearer to its end, or it has not moved, and then its *)
(* deadline is not further away, and nearer if the step is a block.        *)
Advances(r) ==
  \/ Stage(run'[r]) < Stage(run[r])
  \/ /\ Stage(run'[r]) = Stage(run[r])
     /\ ~Progress(r)
     /\ run[r].pc = "confirming" =>
          /\ run'[r].deadline <= run[r].deadline
          /\ NewBlock /\ run[r].deadline > 0 => run'[r].deadline < run[r].deadline

(* Nothing that happens, to its own transaction or to others', sets a      *)
(* command back: each of its own steps brings it nearer to its end, and    *)
(* while it waits for a confirmation, each block does.                     *)
CommandsAdvance == [][\A r \in Runs : Advances(r)]_vars

(* The clients' view of the chain implements the ledger: the key is set    *)
(* once and claims are only added, each with that key's signature.         *)
SignedIn(f) ==
  {c \in Readings(f) :
     f.signature = Signature(f.verifier_public_key, signing_message(c))}
L == INSTANCE Ledger WITH
       key <- config, entries <- {data[2] : data \in stored},
       attested <- UNION {{<<f.verifier_public_key, claim_id(c)>> : c \in SignedIn(f)} :
                            f \in Files}
ImplementsLedger == L!Spec

(* init announces that the config has been initialised with the given      *)
(* verifier key.                                                           *)
InitReportsTruth ==
  \A r \in Runs : run[r].pc = "ok" /\ run[r].kind = "init" =>
    config = run[r].file.verifier_public_key

(* The documented limits of a claim's strings are 128, 128 and 256 bytes:  *)
(* a claim within them can be submitted.                                   *)
BoundedClaimsFit ==
  \A r \in Runs : run[r].pc = "too_large" => ~WellFormed(run[r].file.claim)
=============================================================================
