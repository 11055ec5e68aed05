# WebProof in TLA+

WebProof turns data served over HTTPS into claims stored on Solana. This
directory models the parts of the repository that decide *which* claims get
signed and stored, checks them with TLC on small instances, and proves the
central results with TLAPS for every instance.

## The system

| Part | State it keeps | Operations | Hard behaviour |
|---|---|---|---|
| `crates/webproof-core` | none | encode, identify and validate a `ClaimV1` | i64 arithmetic at its ends; its rule is duplicated on chain |
| `programs/webproof` | config account, claim accounts | `initialize_config`, `submit_claim` | any transaction may surround it; inner invocations; replays; atomic rollback |
| `crates/webproof-verifier` | signing key | `verify_and_sign` | must sign only what was verified |
| `webproof-tlsn` (`present.rs`, `verify.rs`) | none | build and verify presentations | partial disclosure, untrusted notaries, two trust anchors |
| `webproof-tlsn` (`notarize.rs`, `fixture.rs`) | tasks, a duplex stream, a server | `notarize` | tasks that wait for each other, tasks nobody awaits any more, a timeout that drops one of them |
| `webproof-notarize`, `webproof-verify-sign`, `spike` | the artifact directory | write three files; read them and write a fourth | no locking, non-atomic writes, crashes in between |
| `sdk/typescript`, `cli` | none of their own | `prove`, `verify`, `init`, `submit`, `get`, `demo` | check-then-act against a shared chain, transactions that land late, fail or vanish; JSON numbers; packet size |

They interact through files (notarize → verify-sign → command line), through
signatures (verifier → program), and through accounts (program ↔ every client).
`scripts/` and the build files keep no state and are not modelled.

What makes each part correct:

* **claims**: the two copies of the validation rule agree, compute what the same
  rule says over the integers, and a claim that has become stale stays stale;
* **program**: nothing is stored unless the configured verifier signed exactly
  these bytes under WebProof's domain and the claim was usable at that moment;
  what is stored never changes; what should be accepted is accepted;
* **notarization**: only attested sessions with the asked-for server are returned,
  every call returns, it waits for its timeout only where TLSNotary makes it wait, and
  a success leaves nothing running;
* **pipeline**: whatever files a run finds, it signs only the truth about one
  genuine session, and only what the program would accept;
* **clients**: what is stored and shown is exactly what was signed, success is
  reported only when it happened, giving up is final, and every command ends;
* **the whole**: every stored claim goes back to a genuine session.

## Modules

| Module | Models |
|---|---|
| `Claim` | `ClaimV1`, its encoding, id and signing message; `validate` (webproof-core) and `validate_claim` (program); `Usable`, the reference definition of both |
| `ClaimLifetime` | one claim under both rules while the clock runs |
| `ProgramState` | the accounts of the program (`state.rs`) |
| `Registry` | abstract specification: a write-once configuration and an append-only table of vouched-for claims |
| `Ledger` | abstract specification, coarser: a key that is set once and identifiers that key has attested; what clients rely on |
| `WebProof` | the Anchor program inside the Solana runtime; implements `Registry` and `Ledger` |
| `Presentation` | what a TLSNotary presentation discloses (`present.rs`), what is demanded of it (`verify.rs`), the claim built from it and its signed form (`webproof-verifier`) |
| `Target` | what the demo programs make of their environment (`demo/src/lib.rs`) and of `NotarizeConfig` |
| `Notarization` | abstract specification: a call ends once and returns only an attested, acceptable session |
| `Notarize` | the tasks of one call of `notarize`, the fixture's accept loop, and `spike`; implements `Notarization` |
| `ArtifactDir` | `webproof-notarize` and `webproof-verify-sign` over the shared directory |
| `Sdk` | the pure part of the SDK: parsing, encoding, transaction size, account decoding |
| `Client` | `init`, `submit`, `get` and `demo` against an RPC node; implements `Ledger` |
| `System` | `ArtifactDir` and `Client` composed as `demo` composes them; implements `Ledger` |
| `ClaimProofs`, `ClaimLifetimeProofs`, `WebProofProofs`, `NotarizeProofs`, `ClientProofs`, `ArtifactDirProofs`, `SystemProofs` | theorems and proofs |
| `MC...` | instances for TLC |

### How state and actions correspond to the code

*Claim.* Strings are atoms with a byte length, 32-byte arrays are atoms, SHA-256
and the Borsh encoding are free constructors (no collisions, every field can be
read back). `i64` keeps its two ends; its width is a parameter.

*WebProof.* `config` and `claims` are the committed accounts; the address of a
claim account is a function of its id. A transaction is executed instruction by
instruction on `work`; `Commit` makes it visible, `Abort` discards it. `pre` is
the instruction at `current - 1` as the instructions sysvar shows it, and `inner`
says that the current top-level instruction belongs to another program, from
which this program may be invoked: the sysvar does not move then. `Ed25519` is
the native program: it accepts an instruction if what its header points to is
signed; if a header index points elsewhere, the key or message in the
instruction's own data has not been checked. `submit_result` lists the checks of
`submit_claim` in their order: account constraints, `validate_claim`, the id, and
`verify_preceding_ed25519`. Transactions do not overlap, since those that write
the same account are serialised by the runtime, and the Clock does not move
inside one.

*Target.* An environment maps variable names to values or `Unset`. A function that
may fail returns the set of its results, empty on failure; `Targets` are all results
of `resolve_target`. `SessionFor` says which sessions a configuration asks for:
`ArtifactDir` takes a call of `notarize` for one step that yields such a session, and
`Notarize` shows that a call attests no other (`AttestedAsConfigured`).

*Notarize.* `task` holds where prover and notary are, in the order of the `await`s
of the two functions; `driver` and `mpc` are the spawned tasks, `stream` the duplex
stream once the drivers have handed it back: what each side has left to write, what
lies in the buffer, what the other side has read, and whether the writing half is
shut. TLSNotary's exchanges are external: a side gets on when the other side has
come as far and both drivers run. `Stall` lets the traffic through a driver stop for
good at any moment, with no error to anybody: the "rare scheduler deadlocks under
constrained CPU" for which `notarize.rs:90-92` gives the timeout as the remedy.
`Timeout` drops the prover in whatever place it is; a stream end is closed when
neither its task nor its driver has it, and a reader then sees the end of the
stream. `Fault` lets prover or notary fail or panic in any place, also the notary
when the prover has its attestation already. `spike` is what follows a successful
call.

*ArtifactDir.* Each `std::fs::write` is two steps, truncate and fill. A run may
end at any step. If two runs write one file at the same time, the tail of the
longer content may stay behind the shorter one: bincode ignores such a tail,
JSON does not. The directory may start with leftovers: presentations of another
notary, of another host, with undisclosed parts or with forged proofs, and requests
for other targets. TLSNotary's verification is external: `genuine` says that
signature, certificate chain and transcript proofs check out for the root the
session used. What was signed is kept as the content of the signed file.

*Sdk.* An encoding is the sequence of the fields it writes. The SDK's encoding and
`canonical_bytes` are separate definitions, as they are separate code.
`json_number` rounds an integer as a double does; the width of the significand is
a parameter, `MaxSafe`. Sizes are counted in bytes.

*Client.* Lifetimes of blockhashes count down with every block. `Send` simulates
first, as `sendTransaction` does, and the reply may be lost although the
transaction is on its way. `confirm` fetches its own blockhash after the send.
`Confirmed` ignores the outcome of the transaction, as the code does. The program's
part is one verdict, `Succeeds`: the checks of `submit_claim`, with the clock reduced
to the moment at which a claim becomes stale; that this is a fair summary is what `Ledger` is
for, which `WebProof` implements as well.

*System.* Each demo is a run of both programs and a command. `RunVerifySign` needs
the first program to have succeeded, as `runRust` throws otherwise;
`ReadSignedClaim` takes whatever the file holds at that moment. The commands `prove`
and `verify` start one program each and do nothing else; they are the runs of
`ArtifactDir`, in any order, and not part of `System`.

## Runs

| Run | Question | Result |
|---|---|---|
| `claim_lifetime` | Do the two copies of the rule agree, is saturation exact, is staleness final, do claims expire? | holds |
| `program` | Does the program store only signed and fresh claims, accept honest submissions, and implement `Registry` and `Ledger`? | holds |
| `notarize` | Does a call return only attested sessions of the right server, leave nothing behind when it succeeds, hang only in TLSNotary's part, come nearer to its end with every step, always return, and never leave a notary waiting for a caller that is gone? | holds |
| `artifact_dir` | Does a run sign only true and submittable claims, and accept the output of an undisturbed run? | holds |
| `client` | Does `demo` report only real success, is an expired confirmation final, do commands only advance and do they end, is `Ledger` implemented? | holds |
| `claim_file` | Is what is stored and decoded exactly what was signed, for instants up to the ends of i64? Is every sound file read? | holds |
| `system` | Does every stored claim go back to a genuine session, does a demo that is alone store its own claim, does `signed-claim.json` only ever hold signed claims, and does the whole implement `Ledger`? | holds |
| `expected_url` | Does a claim come from the expected URL (`demo/src/lib.rs:12`)? | violated: the path is not compared |
| `request_not_trusted` | Is `request.json` "never trusted data" (`webproof_notarize.rs:12`)? | violated: its `fixture` flag selects the trust anchor |
| `init_report` | Does `init` say "Config initialized" only if it is so? | violated: the error of a landed transaction is ignored |
| `only_host_disclosed` | Is `Host` the only request header whose value is shown (`present.rs:3`, `README.md:80`)? | violated: all but three are shown |
| `bounded_claims_fit` | Can every claim within the documented limits be submitted (`README.md:141`)? | violated: a packet holds 233 bytes of strings |

The violations, in steps:

* `expected_url`: `request.json` of an earlier run names `/a`; a new run for `/b` has
  written its presentation and not yet its request when verify-sign reads
  presentation, request and keys. It finds the hosts equal and signs a claim about
  `/b`. The claim is true (it carries the hash of `/b`), it is just not the expected
  one. Nothing has to fail for this; a run that dies between the two writes leaves the
  same files.
* `request_not_trusted`: verify-sign has read a presentation, a request and the notary
  keys; with the same keys, the same presentation is accepted under one value of
  `fixture` in `request.json` and refused under the other (a session under a public
  root, for instance, only if the flag is false).
* `init_report`: two `init` commands with different keys pass the simulation, the
  first one lands, the second lands with an error and prints success.
* `only_host_disclosed`: any successful call; `Accept`, `Connection` and
  `User-Agent` are disclosed with their values, and so would be any extra header
  that is not on the list of secret ones.
* `bounded_claims_fit`: the claim is in the transaction twice, so its strings may
  take (1232 - 765) / 2 bytes together, against 512 in the documentation.

`DemoStoresOwn` speaks of a demo that is alone: two demos that overlap in one
directory may each end with the other's claim, since `demo` compares the account
with what it read from the directory. The stored claim is genuine nevertheless
(`StoredClaimsGenuine`).

### Bounds

* `claim_lifetime`: `I64Max = 100` with twelve instants at and around both ends,
  zero and the skew of 30, so that every sum and difference in the rule both fits
  and overflows; lengths 0, 1, 128, 129, 256, 257 for every string.
* `program`: two claims, two keys, two wallets, three messages of which one is a
  claim's bytes under another domain, at most three signatures (`MaxSigned`), one
  header for each index field that points elsewhere and for 0, 1 and 2 signatures,
  four instants that put each claim before, inside and after its window. Keys and
  wallets are symmetric. The number of instructions in a transaction is not bounded.
* `notarize`: one call; messages of three and two units over a stream that holds
  two, so that a writer meets a full buffer; six servers and five configurations,
  covering a wrong name, a wrong root, an error status, a body that is not JSON,
  and limits one below what is sent and received. Calls do not share state, so one
  is enough.
* `artifact_dir`: two notarize runs and one verify run. Two targets on one host
  with different paths, one on the fixture, six environments that must be refused,
  five forms of the signing key. The interplay needs two writers per file, or one
  writer and leftovers.
* `client`: two commands of any kind, two claims of two verifiers, blockhashes that
  live two blocks (`Window`): long enough to race, short enough to expire.
* `claim_file`: one command, every instant from just inside the exactly
  representable range (`MaxSafe = 64`) to both ends of an i64 of 9 bits, so that
  rounding hits, misses and leaves i64; files that were altered after signing,
  within and beyond what rounding hides; a claim of another version; strings one byte
  below and above the limit of a packet.
* `system`: two demos with any of two targets and any of two signing keys, leftovers
  of a third target, blockhashes that live one block. Two keys are needed for demos to
  compete for the config account. The demos are symmetric.

### Fairness and deadlock

`ClaimLifetime` assumes that the clock advances (weakly fair `Tick`). `Client`
assumes that blocks are produced and that a command whose next call can return
proceeds; it does not assume that a transaction ever lands, since the network
guarantees no such thing: commands end because block heights pass. `Notarize`
assumes that tokio runs a task that can go on (prover, notary, the MPC-TLS task,
the caller) and that the timer fires in the end; nothing is assumed of drivers,
which may stall or go on for ever, nor of faults. The other specifications are about safety
only. Deadlock is not checked where the modelled programs really stop: the clock
at `i64::MAX`, a call that is over, a directory in which every run has ended, and a
single command that has ended.

`HangsOnlyInProtocol` is the deadlock check of `Notarize`; it does not let the timeout
hide that everybody waits. The code's own comment (`notarize.rs:90-92`) says that calls
do hang at times and that the timeout is there for them, so the property says where
this can be: in an exchange of TLSNotary that has stalled, or after the notary has
failed while a driver still has an end of the stream. Both happen in the model. The
code of this repository adds no other: a refused connection, a failed session, a failed
prover, a full buffer or a side that ends while the other one reads or writes never
make the call wait for its timeout. The property names the guards of the tasks
(`SomebodyReady`) instead of using `ENABLED`, so that it can be proved.

## Proofs

All proofs hold for arbitrary constants: any number of runs, commands, demos, files,
sessions, servers and blocks, any width of i64. They rest on the named `ASSUME`s, which
TLC evaluates on every run. Most of them give types and say that the "does not exist"
values are distinct from the others. Those that say more:

* `NotarizeAssumption`: a configuration trusts the public roots or the fixture's own
  certificate, as `resolve_target` and `spike` build it;
* `DirAssumption`: a torn `notary-key.hex` is no notary's key, and what the directory
  starts with are presentations, forged or not, not arbitrary bytes (those fail to
  deserialize, which is like a missing file);
* `ClientAssumption`: a file that can be read at all has the fields of a `SignedClaim`;
* `MaxSafeAssumption`: `MaxSafe` is even, as 2^53 is;
* `SystemAssumption`: a demo is one run of each program, and `NoKey` is no key.

Each component's proof has the same shape: an invariant that is a conjunction of named
parts, one lemma per group of actions that it is preserved, and the published
properties as consequences. The published properties are not inductive by themselves;
what has to be added says most about why the code works.

* `ClaimProofs` reduces the saturating rule to linear arithmetic: `SaturationLemma`
  treats the two saturating operations, `ValidateClaimExact` shows that
  `validate_claim` accepts exactly the `Usable` claims, `CopiesLemma` that both
  copies give the same verdict. A maximum age of `i64::MAX` is the one case in which
  a saturated age passes, and `Usable` says so: it means "no limit".
* `ClaimLifetimeProofs`: `CopiesAlwaysAgree`, `SaturationAlwaysExact`,
  `StaleStaysStale`.
* `WebProofProofs`. Added: the work area extends the committed state and equals
  it between transactions (`WorkExtendsCommitted`), each of its additions may
  be recorded at the current instant (`AdditionsVouched`), and an Ed25519
  instruction visible in the sysvar was checked by the runtime
  (`PrecedingVerified`). `AcceptedMeans` is the heart of it: from the checks of
  `submit_claim` in the state of the sysvar it derives that the configured key
  signed this message. `ProgramImplementsRegistry` maps `Commit` to `Publish`,
  `Sign` to `Attest`, `Tick` to `Advance` and everything else to a stutter;
  `ProgramImplementsLedger` does the same for `Ledger`, from the same invariant.
* `NotarizeProofs`. Added: a side has its stream exactly from the place in the code
  where the driver hands it back (`HandedBack`), neither side passes an exchange
  before the other has come as far (`Phases`), whoever is beyond a check of the server
  knows its outcome (`ServerChecked`), and a message read to its end is whole
  (`MessagesRead`, from the conservation of units in `TypeOK`), and nobody is beyond
  what the others wait for (`Announced`). Hence `SuccessLeavesNothing` and
  `CallImplementsNotarization`: `notary_sign` is the abstract attestation, the end of
  the call the abstract return. `OnlyConfiguredAttested` is the contract behind the
  one-step view of a call in `ArtifactDir`; status and sizes are in it, which the
  notary does not check itself: it is always behind a prover that has.
  `CallHangsOnlyInProtocol` has two halves. If no side has failed and no exchange has
  stalled (`SomebodyGoesOn`), it goes through the prover's places in the code and names,
  for each, who can go on: in an exchange, whichever side is behind; in the stream
  phase, the reader of a buffer that holds something, or the writer of one that is
  empty. If the notary has failed and no driver has an end of the stream
  (`FailedNotaryNoticed`), the prover finds the stream closed. That a side keeps its
  driver until it ends (`HandedBack`) is needed for both. It holds for every capacity
  and message size, so the stream may be as small as it likes once it is handed back;
  what TLSNotary needs of it before that is not modelled. `OrphanNotaryNeverWaits` is its counterpart for a notary that nobody
  awaits. `CallStepsRunOut` gives the measure (`Remaining`): the places each side has
  left, two for a unit not yet written and one for a unit not yet read, and as many for
  everything else as it can still change. Faults and the timeout lower it too.
* `ClientProofs`. Added: a command holds a claim that was read from its file and, when
  parsed, is under the file's id (`FilesParsed`); the deadline of a confirmation is
  not before that of its transaction (`Waiting`); a demo whose claim has passed the
  simulation has the configured key (`DemoKey`), which is why ignoring the outcome of
  the transactions does no harm. Hence `DemoSuccessIsReal`, `ExpiryIsFinal`,
  `StoredIsSigned`, `NoSoundFileRefused` (a double carries every integer up to
  `MaxSafe`: `SmallNumbersExact`) and `ClientImplementsLedger`. With
  `ProgramImplementsLedger`, both views of the chain are proved to be the same ledger.
  `CommandsOnlyAdvance` orders the places of a command (`Stage`): its own steps go down
  this order, what happens on the chain leaves it alone, and a block brings the deadline
  of a waiting command nearer. That `confirm` gives up rather than sends again is
  essential to it.
* `ArtifactDirProofs`. Added: a run of webproof-notarize past its session holds the
  presentation of it (`ProverOutput`); a run of webproof-verify-sign holds a
  presentation, a request for an allowed host and keys of notaries, or a torn one that
  nobody has (`VerifierInput`); it writes only what was signed (`OutputSigned`).
  `SignedIsTrue` collects what `verify` and `sign_verified` have checked when a
  signature is made, and from that `SignedMeansAttested`, `SignedMeansSubmittable` and
  `OutputIsSigned` follow; `TargetFields` and the invariant give `OwnOutputIsAccepted`.
* `SystemProofs` reuses the lemmas of `ArtifactDirProofs` as they stand: a step of the
  pipeline is a step of the directory or leaves it alone. Added: programs run in their
  order (`InOrder`); the bytes a demo submits are those of a signed claim
  (`Submitting`), so the rounding of JSON numbers cannot put a claim on chain that
  nobody signed; while a demo is alone, presentation, input and signatures are about
  its own session (`OwnSession`). Hence `StoredAreGenuine`, `DemoStoresItsOwn`,
  `SystemOutputIsSigned` and `SystemImplementsLedger`, in which webproof-verify-sign
  attests and a landing transaction publishes: the pipeline keeps the promises that
  the program makes to everybody. The command's part of the invariant is proved anew rather
  than taken from `ClientProofs`, since there the files are given and here they appear
  while the system runs.

Proof attempts that failed showed where statements were too strong for the code:

* an altered file can still be accepted if the alteration is within the rounding of
  JSON's numbers. `StoredExact` and the mapping to `Ledger` therefore speak of the
  claim as it was read, which is the signed one; the stronger form, that the *file*
  was signed as it is, is false, and `claim_file` now includes such files;
* `OwnOutputAccepted` needs host and field within their limits, and a clock before the
  last second of i64: at `i64::MAX` a saturated expiry is not after its issue, and
  nothing can be signed.

Only model-checked:

* liveness under fairness (`ClaimsAlwaysExpire`, `CommandsEnd`, `CallReturns`,
  `OrphanNotaryEnds`), which is out of the prover's reach. The safety half of the
  argument is proved: who can go on when (`HangsOnlyInProtocol`,
  `OrphanNeverWaits`) and that every step counts (`StepsRunOut`, `CommandsAdvance`). What
  is left to TLC is the step from there to "eventually";
* what `json_number` does beyond `MaxSafe`: no theorem needs it, since a claim that
  rounding has changed has another id.

## Not modelled

Out of the model for good: TLS, MPC and hash cryptography, the bytes within a field
(Borsh, the offsets inside an Ed25519 instruction: pinned by the golden vectors),
rent and bumps, forks of the chain. The age of a presentation is not bounded by
anything in the repository (`issued_at` is the time of signing), so there is no
property about it.

Every property of the passing runs except the four liveness properties is
stated by a theorem.
