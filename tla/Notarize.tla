------------------------------ MODULE Notarize ------------------------------
(***************************************************************************)
(* One call of notarize (webproof-tlsn): the prover, which runs in the     *)
(* caller's task, the notary in a task of its own, one driver task each    *)
(* that multiplexes their common stream, the task that runs MPC-TLS with   *)
(* the server, the server, and the timeout around it all; then what spike  *)
(* makes of the result.                                                    *)
(*                                                                         *)
(* TLSNotary is outside the repository.  In an exchange of its protocol a  *)
(* side gets on when the other side takes part and both drivers run; when  *)
(* both have closed their handle, the drivers return the two ends of the   *)
(* stream, and request and attestation pass over it as bytes.  Until then  *)
(* its exchanges may stall for good at any moment: the scheduler deadlocks *)
(* that the comment on NOTARIZE_TIMEOUT_SECS names.  A task that is not    *)
(* awaited any more goes on; a stream end is dropped when neither its task *)
(* nor its driver has it.                                                  *)
(***************************************************************************)
EXTENDS Target

CONSTANTS
  Configs,      (* values of NotarizeConfig                                 *)
  Servers,      (* [host, root, status, response, sent, received]: what the *)
                (* server presents and answers, and the bytes that takes    *)
  Field,        (* the field that spike prints                              *)
  Capacity,     (* of the duplex stream, in each direction                  *)
  wire,         (* lengths of the serialized request and attestation        *)
  Pending,      (* the outcome of a call that has not returned              *)
  Failed        (* the outcome of a call that has returned an error         *)

Sides == {"prover", "notary"}
Other(side) == IF side = "prover" THEN "notary" ELSE "prover"

ASSUME NotarizeAssumption ==
  /\ Capacity \in Nat \ {0}
  /\ wire \in [Sides -> Nat \ {0}]
  /\ \A c \in Configs : c.server_trust \in {Mozilla, Custom({CA_CERT_DER})}

VARIABLES
  config,    (* the argument of the call                                    *)
  server,    (* one of Servers, and how far its connection is               *)
  call,      (* "running", "ok", "err" or "timeout"                         *)
  task,      (* of each side: where it is, and whether it runs              *)
  mpc,       (* the MPC-TLS task: "none", "running", "done" or "failed"     *)
  driver,    (* of each side: "running", "stalled", "returned" or "gone"    *)
  stream,    (* of each side: what it has to send, and what has arrived     *)
  attested,  (* sessions the notary has signed                              *)
  verdict    (* what spike says of the result                               *)

vars == <<config, server, call, task, mpc, driver, stream, attested, verdict>>

Init ==
  /\ config \in Configs
  /\ server \in {[peer |-> s, st |-> "listening"] : s \in Servers}
  /\ call = "running"
  /\ task = [side \in Sides |-> [at |-> "commit", st |-> "running"]]
  /\ mpc = "none"
  /\ driver = [side \in Sides |-> "running"]
  /\ stream = [side \in Sides |-> [left |-> wire[side], buf |-> 0, got |-> 0, shut |-> FALSE]]
  /\ attested = {}
  /\ verdict = "none"

Alive(side) == task[side].st = "running"
At(side, at) == Alive(side) /\ task[side].at = at
Goto(side, at) == task' = [task EXCEPT ![side].at = at]
Ends(side, st) == task' = [task EXCEPT ![side].st = st]

(* The end of the stream that side had is closed for good.                 *)
Dropped(side) == ~Alive(side) /\ driver[side] \in {"returned", "gone"}

(* The session that prover and notary see.                                 *)
SessionOf(c, s) ==
  [notary |-> c.notary_key, root |-> s.root, host |-> s.host, path |-> c.uri,
   headers |-> request_headers(c), response |-> s.response]
Session == SessionOf(config, server.peer)

-----------------------------------------------------------------------------
(* The protocol exchanges.  Rank tells how far a side has come.            *)

Rank(at) ==
  CASE at = "commit" -> 1
    [] at \in {"connect", "request", "session", "run"} -> 2
    [] at = "prove" -> 3
    [] at = "close" -> 4
    [] at = "reclaim" -> 5
    [] OTHER -> 6

TakesPart(side, rank) ==
  Rank(task[side].at) >= rank /\ driver[side] \in {"running", "returned"}

Exchange(side, from, to) ==
  /\ At(side, from)
  /\ driver[side] = "running"
  /\ TakesPart(Other(side), Rank(from))
  /\ Goto(side, to)
  /\ UNCHANGED <<config, server, call, mpc, driver, stream, attested, verdict>>

prover_commit == Exchange("prover", "commit", "connect")
notary_commit == Exchange("notary", "commit", "run")
prover_prove == Exchange("prover", "prove", "close")
notary_verify == Exchange("notary", "prove", "close")
prover_close == Exchange("prover", "close", "reclaim")
notary_close == Exchange("notary", "close", "reclaim")

(* handle.close(), then the driver returns the stream.                     *)
Reclaim(side, to) ==
  /\ At(side, "reclaim")
  /\ driver[side] = "running"
  /\ TakesPart(Other(side), 5)
  /\ driver' = [driver EXCEPT ![side] = "returned"]
  /\ Goto(side, to)
  /\ UNCHANGED <<config, server, call, mpc, stream, attested, verdict>>

prover_reclaim == Reclaim("prover", "write")
notary_reclaim == Reclaim("notary", "read")

-----------------------------------------------------------------------------
(* The server.                                                             *)

Listens == server.st = "listening"

(* fixture::start: one failed accept ends the loop.                        *)
Accept ==
  /\ server.st = "queued"
  /\ server' = [server EXCEPT !.st = "serving"]
  /\ UNCHANGED <<config, call, task, mpc, driver, stream, attested, verdict>>

AcceptFails ==
  /\ server.st \in {"listening", "queued"}
  /\ server' = [server EXCEPT !.st = "gone"]
  /\ UNCHANGED <<config, call, task, mpc, driver, stream, attested, verdict>>

(* The TCP connection, and the task that runs MPC-TLS over it.             *)
prover_connect ==
  /\ At("prover", "connect")
  /\ \/ /\ Listens
        /\ server' = [server EXCEPT !.st = "queued"]
        /\ mpc' = "running"
        /\ Goto("prover", "request")
     \/ /\ ~Listens
        /\ Ends("prover", "failed")
        /\ UNCHANGED <<server, mpc>>
  /\ UNCHANGED <<config, call, driver, stream, attested, verdict>>

(* TlsAccepted with any certificate that leads to the roots.               *)
TlsAccepted_any_name ==
  /\ server.peer.root \in root_store(config.server_trust)
  /\ server.peer.sent <= config.max_sent_data

(* The certificate is for the asked-for name under the configured roots,   *)
(* and the request fits what was preprocessed.                             *)
TlsAccepted ==
  /\ server.peer.host = config.server_name
  /\ server.peer.root \in root_store(config.server_trust)
  /\ server.peer.sent <= config.max_sent_data

MpcRuns ==
  mpc = "running" /\ At("notary", "run") /\ \A side \in Sides : driver[side] = "running"

(* The server answers; the head of its response comes through.             *)
Answer ==
  /\ MpcRuns
  /\ server.st = "serving"
  /\ TlsAccepted
  /\ server' = [server EXCEPT !.st = "answered"]
  /\ UNCHANGED <<config, call, task, mpc, driver, stream, attested, verdict>>

(* The connection closes, with the complete response or because something  *)
(* was wrong or too large.                                                 *)
MpcEnds ==
  /\ MpcRuns
  /\ \/ /\ server.st = "answered"
        /\ mpc' = IF server.peer.received <= config.max_recv_data THEN "done" ELSE "failed"
     \/ /\ server.st = "gone" \/ (server.st = "serving" /\ ~TlsAccepted)
        /\ mpc' = "failed"
  /\ UNCHANGED <<config, server, call, task, driver, stream, attested, verdict>>

(* prover_request without the check of the status.                         *)
prover_request_any_status ==
  /\ At("prover", "request")
  /\ server.st = "answered" \/ mpc = "failed"
  /\ IF server.st = "answered" THEN Goto("prover", "session") ELSE Ends("prover", "failed")
  /\ UNCHANGED <<config, server, call, mpc, driver, stream, attested, verdict>>

(* send_request, and the check of the status.                              *)
prover_request ==
  /\ At("prover", "request")
  /\ server.st = "answered" \/ mpc = "failed"
  /\ IF server.st = "answered" /\ server.peer.status = 200
     THEN Goto("prover", "session") ELSE Ends("prover", "failed")
  /\ UNCHANGED <<config, server, call, mpc, driver, stream, attested, verdict>>

(* prover_session that waits for a response again when MPC-TLS has failed. *)
prover_session_retry ==
  /\ At("prover", "session")
  /\ mpc \in {"done", "failed"}
  /\ Goto("prover", IF mpc = "done" THEN "prove" ELSE "request")
  /\ UNCHANGED <<config, server, call, mpc, driver, stream, attested, verdict>>

(* prover_task.await                                                       *)
prover_session ==
  /\ At("prover", "session")
  /\ mpc \in {"done", "failed"}
  /\ IF mpc = "done" THEN Goto("prover", "prove") ELSE Ends("prover", "failed")
  /\ UNCHANGED <<config, server, call, mpc, driver, stream, attested, verdict>>

notary_run ==
  /\ At("notary", "run")
  /\ mpc \in {"done", "failed"}
  /\ IF mpc = "done" THEN Goto("notary", "prove") ELSE Ends("notary", "failed")
  /\ UNCHANGED <<config, server, call, mpc, driver, stream, attested, verdict>>

-----------------------------------------------------------------------------
(* The stream: write_all, close, read_to_end.                              *)

Write(side) ==
  /\ At(side, "write")
  /\ stream[side].left > 0
  /\ \/ /\ ~Dropped(Other(side))
        /\ stream[side].buf < Capacity
        /\ stream' = [stream EXCEPT ![side].left = @ - 1, ![side].buf = @ + 1]
        /\ UNCHANGED task
     \/ /\ Dropped(Other(side))
        /\ Ends(side, "failed")
        /\ UNCHANGED stream
  /\ UNCHANGED <<config, server, call, mpc, driver, attested, verdict>>

(* Close that keeps the writing half of the stream open.                   *)
CloseNothing(side, to) ==
  /\ At(side, "write")
  /\ stream[side].left = 0
  /\ Goto(side, to)
  /\ UNCHANGED <<config, server, call, mpc, driver, stream, attested, verdict>>

(* Close that discards what the other side has not read yet.               *)
Close_discarding(side, to) ==
  /\ At(side, "write")
  /\ stream[side].left = 0
  /\ stream' = [stream EXCEPT ![side].shut = TRUE, ![side].buf = 0]
  /\ Goto(side, to)
  /\ UNCHANGED <<config, server, call, mpc, driver, attested, verdict>>

Close(side, to) ==
  /\ At(side, "write")
  /\ stream[side].left = 0
  /\ stream' = [stream EXCEPT ![side].shut = TRUE]
  /\ Goto(side, to)
  /\ UNCHANGED <<config, server, call, mpc, driver, attested, verdict>>

Read(side) ==
  /\ At(side, "read")
  /\ stream[Other(side)].buf > 0
  /\ stream' = [stream EXCEPT ![Other(side)].buf = @ - 1, ![Other(side)].got = @ + 1]
  /\ UNCHANGED <<config, server, call, task, mpc, driver, attested, verdict>>

(* ReadEnd that ends at a close of the other side, but not at its end.     *)
ReadEnd_closed_only(side, to) ==
  /\ At(side, "read")
  /\ stream[Other(side)].buf = 0
  /\ stream[Other(side)].shut
  /\ Goto(side, to)
  /\ UNCHANGED <<config, server, call, mpc, driver, stream, attested, verdict>>

(* End of file; what was cut short does not deserialize.                   *)
ReadEnd(side, to) ==
  /\ At(side, "read")
  /\ stream[Other(side)].buf = 0
  /\ stream[Other(side)].shut \/ Dropped(Other(side))
  /\ IF stream[Other(side)].got = wire[Other(side)]
     THEN Goto(side, to) ELSE Ends(side, "failed")
  /\ UNCHANGED <<config, server, call, mpc, driver, stream, attested, verdict>>

(* The notary signs what it has seen, whatever the request says.           *)
notary_sign ==
  /\ At("notary", "sign")
  /\ attested' = attested \cup {Session}
  /\ Goto("notary", "write")
  /\ UNCHANGED <<config, server, call, mpc, driver, stream, verdict>>

prover_exchange == Write("prover") \/ Close("prover", "read")
                   \/ Read("prover") \/ ReadEnd("prover", "validate")
notary_exchange == Read("notary") \/ ReadEnd("notary", "sign")
                   \/ Write("notary") \/ Close("notary", "end")

(* The attestation agrees with the prover's request: both saw Session.     *)
prover_validate ==
  /\ At("prover", "validate")
  /\ Session \in attested
  /\ Ends("prover", "done")
  /\ UNCHANGED <<config, server, call, mpc, driver, stream, attested, verdict>>

notary_end ==
  /\ At("notary", "end")
  /\ Ends("notary", "done")
  /\ UNCHANGED <<config, server, call, mpc, driver, stream, attested, verdict>>

-----------------------------------------------------------------------------
(* The call.                                                               *)

(* notarize_inner without the await of the notary.                         *)
notarize_inner_no_join ==
  /\ call = "running"
  /\ ~Alive("prover")
  /\ call' = IF task["prover"].st = "done" THEN "ok" ELSE "err"
  /\ UNCHANGED <<config, server, task, mpc, driver, stream, attested, verdict>>

(* The prover's error is returned at once; otherwise the notary is awaited.*)
notarize_inner ==
  /\ call = "running"
  /\ \/ task["prover"].st = "failed" /\ call' = "err"
     \/ /\ task["prover"].st = "done"
        /\ ~Alive("notary")
        /\ call' = IF task["notary"].st = "done" THEN "ok" ELSE "err"
  /\ UNCHANGED <<config, server, task, mpc, driver, stream, attested, verdict>>

(* notarize without its time limit.                                        *)
Forever == FALSE /\ UNCHANGED vars

(* A timeout that leaves the prover running, as a task of its own would be.*)
Timeout_detached ==
  /\ call = "running"
  /\ call' = "timeout"
  /\ UNCHANGED <<config, server, task, mpc, driver, stream, attested, verdict>>

(* The prover is dropped where it is; the other tasks go on.               *)
Timeout ==
  /\ call = "running"
  /\ call' = "timeout"
  /\ IF Alive("prover") THEN Ends("prover", "failed") ELSE UNCHANGED task
  /\ UNCHANGED <<config, server, mpc, driver, stream, attested, verdict>>

(* spike: present, verify independently, look up the field.                *)
spike ==
  /\ call = "ok"
  /\ verdict = "none"
  /\ LET a == build_presentation(Session)
         v == verify(verifier_for(config.server_trust.kind = "Custom", {Session.notary}), a)
     IN verdict' = IF v = "Ok" /\ Session.response[Field] = Absent THEN "Field" ELSE v
  /\ UNCHANGED <<config, server, call, task, mpc, driver, stream, attested>>

-----------------------------------------------------------------------------
(* What may go wrong: any call of a library fails, an exchange stalls, and *)
(* the driver of a side that has ended stops, or goes on for ever.         *)

(* An error or a panic, wherever the side is.                              *)
Fault(side) ==
  /\ Alive(side)
  /\ Ends(side, "failed")
  /\ UNCHANGED <<config, server, call, mpc, driver, stream, attested, verdict>>

MpcFault ==
  /\ mpc = "running"
  /\ mpc' = "failed"
  /\ UNCHANGED <<config, server, call, task, driver, stream, attested, verdict>>

(* Nothing passes through the driver any more, and nobody gets an error.   *)
Stall(side) ==
  /\ driver[side] = "running"
  /\ driver' = [driver EXCEPT ![side] = "stalled"]
  /\ UNCHANGED <<config, server, call, task, mpc, stream, attested, verdict>>

DriverStops(side) ==
  /\ ~Alive(side)
  /\ driver[side] \in {"running", "stalled"}
  /\ driver' = [driver EXCEPT ![side] = "gone"]
  /\ UNCHANGED <<config, server, call, task, mpc, stream, attested, verdict>>

-----------------------------------------------------------------------------
prover_step ==
  \/ prover_commit \/ prover_connect \/ prover_request \/ prover_session
  \/ prover_prove \/ prover_close \/ prover_reclaim \/ prover_exchange \/ prover_validate
notary_step ==
  \/ notary_commit \/ notary_run \/ notary_verify \/ notary_close
  \/ notary_reclaim \/ notary_exchange \/ notary_sign \/ notary_end
mpc_step == Accept \/ Answer \/ MpcEnds

Work == prover_step \/ notary_step \/ mpc_step \/ notarize_inner \/ spike
Faults ==
  \/ \E side \in Sides : Fault(side) \/ Stall(side) \/ DriverStops(side)
  \/ MpcFault \/ AcceptFails \/ Timeout

Next == Work \/ Faults

Fairness ==
  /\ WF_vars(prover_step) /\ WF_vars(notary_step) /\ WF_vars(mpc_step)
  /\ WF_vars(notarize_inner) /\ WF_vars(spike)

Spec == Init /\ [][Next]_vars /\ Fairness /\ WF_vars(Timeout)

-----------------------------------------------------------------------------
(* Tasks are where the code can be, and no direction of the stream holds   *)
(* more than its capacity, loses a unit or has one twice.                  *)
ProverPlaces ==
  {"commit", "connect", "request", "session", "prove", "close", "reclaim",
   "write", "read", "validate"}
NotaryPlaces ==
  {"commit", "run", "prove", "close", "reclaim", "read", "sign", "write", "end"}
TypeOK ==
  /\ config \in Configs
  /\ server \in [peer: Servers, st: {"listening", "queued", "serving", "answered", "gone"}]
  /\ call \in {"running", "ok", "err", "timeout"}
  /\ mpc \in {"none", "running", "done", "failed"}
  /\ task \in [Sides -> [at: ProverPlaces \cup NotaryPlaces,
                        st: {"running", "done", "failed"}]]
  /\ task["prover"].at \in ProverPlaces
  /\ task["notary"].at \in NotaryPlaces
  /\ driver \in [Sides -> {"running", "stalled", "returned", "gone"}]
  /\ stream \in [Sides -> [left: Nat, buf: 0 .. Capacity, got: Nat, shut: BOOLEAN]]
  /\ \A side \in Sides :
       stream[side].left + stream[side].buf + stream[side].got = wire[side]

(* A call that succeeds leaves nothing behind: both sides, their drivers   *)
(* and MPC-TLS are over, both messages were read to their end, what the    *)
(* caller gets was attested, and spike verifies the presentation of it.    *)
NothingLeftBehind ==
  call = "ok" =>
    /\ \A side \in Sides :
         /\ task[side].st = "done"
         /\ driver[side] = "returned"
         /\ stream[side].got = wire[side]
    /\ mpc = "done"
    /\ Session \in attested
    /\ Session.response \in {NoBody, NotJson} \/ verdict \in {"none", "Ok", "Field"}

(* Why that is so, as one inductive invariant.  A side has its stream back *)
(* exactly from "write" or "read" on, and keeps its driver until it ends.  *)
HandedBack ==
  \A side \in Sides :
    /\ driver[side] = "returned" <=>
         task[side].at \in {"write", "read", "sign", "validate", "end"}
    /\ driver[side] = "gone" => ~Alive(side)

(* The notary verifies the transcript only with a prover that has seen the *)
(* session end, and both see it end only if MPC-TLS did.                   *)
BeyondSession == {"prove", "close", "reclaim", "write", "read", "validate"}
BeyondVerify == {"close", "reclaim", "read", "sign", "write", "end"}
Phases ==
  /\ task["prover"].at \in {"commit", "connect"} => mpc = "none"
  /\ task["prover"].at \in BeyondSession => mpc = "done"
  /\ task["notary"].at \in BeyondVerify \cup {"prove"} => mpc = "done"
  /\ task["notary"].at \in BeyondVerify => task["prover"].at \in BeyondSession

(* Whoever is beyond a check of the server knows what was checked.         *)
ServerChecked ==
  /\ server.st = "answered" => TlsAccepted
  /\ mpc = "done" => server.st = "answered" /\ server.peer.received <= config.max_recv_data
  /\ task["prover"].at \in BeyondSession \cup {"session"} =>
       server.st = "answered" /\ server.peer.status = 200

(* A message that has been read to its end has arrived as a whole.         *)
MessagesRead ==
  /\ task["prover"].at = "validate" => stream["notary"].got = wire["notary"]
  /\ task["notary"].at \in {"sign", "write", "end"} =>
       stream["prover"].got = wire["prover"]

(* Nobody is beyond what the others wait for: MPC-TLS has a connection, a  *)
(* side that has written its message has shut its half of the stream, and  *)
(* the notary writes only what it has signed.                              *)
Announced ==
  /\ task["prover"].at \in {"request", "session"} => mpc # "none"
  /\ mpc # "none" => ~Listens
  /\ task["prover"].at \in {"read", "validate"} => stream["prover"].shut
  /\ task["notary"].at = "end" => stream["notary"].shut
  /\ stream["notary"].left # wire["notary"] => task["notary"].at \in {"write", "end"}
  /\ attested = IF task["notary"].at \in {"write", "end"} THEN {Session} ELSE {}

(* A side is done only at its end, the call only when both are, and the    *)
(* result is verified as it should be.                                     *)
Results ==
  /\ task["prover"].st = "done" => task["prover"].at = "validate" /\ Session \in attested
  /\ task["notary"].st = "done" => task["notary"].at = "end"
  /\ call = "ok" => \A side \in Sides : task[side].st = "done"
  /\ call # "running" => ~Alive("prover")
  /\ Session.response \in {NoBody, NotJson} \/ verdict \in {"none", "Ok", "Field"}

Invariant ==
  /\ TypeOK /\ HandedBack /\ Phases /\ ServerChecked /\ MessagesRead
  /\ Announced /\ Results

(* The call implements the promise of Notarization: it returns only what   *)
(* the notary attested, and only sessions of the asked-for server, checked *)
(* against the configured roots, with status 200 and within the limits are *)
(* ever attested.                                                          *)
outcome == CASE call = "running" -> Pending [] call = "ok" -> Session [] OTHER -> Failed
Acceptable ==
  UNION {{SessionOf(c, s) : s \in {s \in Servers :
            /\ s.host = c.server_name
            /\ s.root \in root_store(c.server_trust)
            /\ s.status = 200
            /\ s.sent <= c.max_sent_data
            /\ s.received <= c.max_recv_data}} : c \in Configs}
N == INSTANCE Notarization WITH outcome <- outcome, attested <- attested
ImplementsNotarization == N!Spec

(* Every call returns: the timeout ends what would wait for ever, such as  *)
(* a prover whose notary has failed while its driver goes on.              *)
CallReturns == <>(call # "running")

(* A caller that gives up once the stream has been handed back does not    *)
(* leave a notary that waits for ever: it finds the stream closed.         *)
OrphanNotaryEnds ==
  (/\ call \in {"err", "timeout"}
   /\ \A side \in Sides : driver[side] = "returned") ~> ~Alive("notary")

(* What the pipeline relies on when it takes a call for one step: whatever *)
(* is attested, even for a caller that has given up, is a session of the   *)
(* asked-for host under the configured roots, whose answer had status 200  *)
(* and stayed within this call's limits, although the notary itself looks  *)
(* at neither when it signs.                                               *)
AttestedAsConfigured ==
  \A s \in attested :
    /\ SessionFor(s, config)
    /\ server.peer.status = 200
    /\ server.peer.sent <= config.max_sent_data
    /\ server.peer.received <= config.max_recv_data

-----------------------------------------------------------------------------
(* Who can go on: the guards of Work, actor by actor.                      *)
ExchangeReady(side) ==
  /\ task[side].at \in {"commit", "prove", "close", "reclaim"}
  /\ driver[side] = "running"
  /\ TakesPart(Other(side), Rank(task[side].at))
StreamReady(side) ==
  \/ /\ task[side].at = "write"
     /\ stream[side].left = 0 \/ stream[side].buf < Capacity \/ Dropped(Other(side))
  \/ /\ task[side].at = "read"
     /\ \/ stream[Other(side)].buf > 0 \/ stream[Other(side)].shut
        \/ Dropped(Other(side))
ProverReady ==
  /\ Alive("prover")
  /\ \/ ExchangeReady("prover") \/ StreamReady("prover") \/ At("prover", "connect")
     \/ At("prover", "request") /\ (server.st = "answered" \/ mpc = "failed")
     \/ At("prover", "session") /\ mpc \in {"done", "failed"}
     \/ At("prover", "validate") /\ Session \in attested
NotaryReady ==
  /\ Alive("notary")
  /\ \/ ExchangeReady("notary") \/ StreamReady("notary")
     \/ At("notary", "run") /\ mpc \in {"done", "failed"}
     \/ task["notary"].at \in {"sign", "end"}
MpcReady ==
  server.st = "queued" \/ (MpcRuns /\ server.st \in {"serving", "answered", "gone"})
CallReady ==
  call = "running" /\ ~Alive("prover") /\ (task["prover"].st = "done" => ~Alive("notary"))
SomebodyReady ==
  ProverReady \/ NotaryReady \/ MpcReady \/ CallReady \/ (call = "ok" /\ verdict = "none")

(* A call hangs only in TLSNotary's part: because an exchange has stalled, *)
(* or because the notary has failed and a driver that nobody stops still   *)
(* holds an end of the stream.  Otherwise somebody can always go on: no    *)
(* failure of the server, of MPC-TLS or of the prover makes the call wait, *)
(* and once both ends are handed back prover and notary never wait for     *)
(* each other, however small the stream's buffer is.                       *)
HangsOnlyInProtocol ==
  call = "running" /\ ~SomebodyReady =>
    \/ \E side \in Sides : driver[side] = "stalled"
    \/ task["notary"].st = "failed" /\ \E side \in Sides : driver[side] = "running"

(* A notary whose caller has given up once the stream was handed back has  *)
(* never to wait again: it reads, writes or finds the stream closed.       *)
OrphanNeverWaits ==
  (/\ call \in {"err", "timeout"}
   /\ \A side \in Sides : driver[side] = "returned"
   /\ Alive("notary")) => NotaryReady

(* What a call has still before it, faults included: places that its two   *)
(* sides have not reached, units not yet written and read, and as many for *)
(* everything else as it can still change.                                 *)
PlacesLeft ==
  [prover |-> [commit |-> 10, connect |-> 9, request |-> 8, session |-> 7, prove |-> 6,
               close |-> 5, reclaim |-> 4, write |-> 3, read |-> 2, validate |-> 1],
   notary |-> [commit |-> 9, run |-> 8, prove |-> 7, close |-> 6, reclaim |-> 5,
               read |-> 4, sign |-> 3, write |-> 2, end |-> 1]]
TaskLeft(side) == IF Alive(side) THEN PlacesLeft[side][task[side].at] ELSE 0
StreamLeft(side) == 2 * stream[side].left + stream[side].buf
ServerLeft == [listening |-> 3, queued |-> 2, serving |-> 1, answered |-> 0, gone |-> 0]
MpcLeft == [none |-> 2, running |-> 1, done |-> 0, failed |-> 0]
DriverLeft(side) == [running |-> 2, stalled |-> 1, returned |-> 0, gone |-> 0][driver[side]]
CallLeft == (IF call = "running" THEN 1 ELSE 0) + (IF verdict = "none" THEN 1 ELSE 0)
SideLeft(side) == TaskLeft(side) + StreamLeft(side) + DriverLeft(side)
Remaining ==
  SideLeft("prover") + SideLeft("notary") + ServerLeft[server.st] + MpcLeft[mpc] + CallLeft

(* Every step, faults included, leaves less to do: nothing is sent back,   *)
(* retried or started again, so a call takes only finitely many steps      *)
(* whatever happens: the timeout cuts off waiting, never a loop.           *)
StepsRunOut == [][Remaining' \in Nat /\ Remaining' < Remaining]_vars

(* The documented disclosure policy names the request line, the Host       *)
(* header and the response: no value of another request header is shown.   *)
OnlyHostDisclosed ==
  verdict # "none" => build_presentation(Session).shown \subseteq {"host"}
=============================================================================
