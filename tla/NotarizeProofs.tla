--------------------------- MODULE NotarizeProofs ---------------------------
(***************************************************************************)
(* A call of notarize keeps its promise, for every server, configuration,  *)
(* message length and stream capacity, whatever fails and whenever the     *)
(* timeout fires.                                                          *)
(***************************************************************************)
EXTENDS Notarize, TLAPS

(* The invariant holds when a call starts.                                 *)
LEMMA InitInvariant == Init => Invariant
<1> SUFFICES ASSUME Init PROVE Invariant
  OBVIOUS
<1>1. TypeOK
  BY NotarizeAssumption DEF Init, TypeOK, Sides, ProverPlaces, NotaryPlaces
<1>2. HandedBack /\ Phases /\ ServerChecked /\ MessagesRead /\ Announced /\ Results
  BY DEF Init, HandedBack, Phases, ServerChecked, MessagesRead, Announced, Results,
         Sides, Alive, Session, Listens, BeyondSession, BeyondVerify
<1> QED BY <1>1, <1>2 DEF Invariant

(* TLSNotary's exchanges move one side; the notary passes the verification *)
(* of the transcript only behind the prover.                               *)
LEMMA ExchangesPreserve ==
  ASSUME Invariant,
         \/ prover_commit \/ notary_commit \/ prover_prove \/ notary_verify
         \/ prover_close \/ notary_close \/ prover_reclaim \/ notary_reclaim
  PROVE  Invariant'
<1> USE DEF Invariant, TypeOK, HandedBack, Phases, ServerChecked, MessagesRead, Announced,
            Results, Sides, ProverPlaces, NotaryPlaces, BeyondSession, BeyondVerify,
            Session, TlsAccepted, Listens, Alive, At, Goto
<1>1. CASE prover_commit
  BY <1>1 DEF prover_commit, Exchange
<1>2. CASE notary_commit
  BY <1>2 DEF notary_commit, Exchange
<1>3. CASE prover_prove
  BY <1>3 DEF prover_prove, Exchange
<1>4. CASE notary_verify
  <2>1. Rank(task["prover"].at) >= 3
    BY <1>4 DEF notary_verify, Exchange, TakesPart, Other, Rank
  <2>2. task["prover"].at \in BeyondSession
    BY <2>1 DEF Rank
  <2> QED BY <1>4, <2>2 DEF notary_verify, Exchange
<1>5. CASE prover_close
  BY <1>5 DEF prover_close, Exchange
<1>6. CASE notary_close
  BY <1>6 DEF notary_close, Exchange
<1>7. CASE prover_reclaim
  BY <1>7 DEF prover_reclaim, Reclaim
<1>8. CASE notary_reclaim
  BY <1>8 DEF notary_reclaim, Reclaim
<1> QED BY <1>1, <1>2, <1>3, <1>4, <1>5, <1>6, <1>7, <1>8

(* The connection, MPC-TLS, and what prover and notary make of its end.    *)
LEMMA SessionPreserves ==
  ASSUME Invariant,
         \/ Accept \/ AcceptFails \/ prover_connect \/ Answer \/ MpcEnds \/ MpcFault
         \/ prover_request \/ prover_session \/ notary_run
  PROVE  Invariant'
<1> USE DEF Invariant, TypeOK, HandedBack, Phases, ServerChecked, MessagesRead, Announced,
            Results, Sides, ProverPlaces, NotaryPlaces, BeyondSession, BeyondVerify,
            Session, TlsAccepted, Listens, Alive, At, Goto, Ends
<1>1. CASE Accept
  BY <1>1 DEF Accept
<1>2. CASE AcceptFails
  BY <1>2 DEF AcceptFails
<1>3. CASE prover_connect
  BY <1>3 DEF prover_connect
<1>4. CASE Answer
  BY <1>4 DEF Answer
<1>5. CASE MpcEnds
  BY <1>5 DEF MpcEnds, MpcRuns
<1>6. CASE MpcFault
  BY <1>6 DEF MpcFault
<1>7. CASE prover_request
  BY <1>7 DEF prover_request
<1>8. CASE prover_session
  BY <1>8 DEF prover_session
<1>9. CASE notary_run
  <2>1. CASE mpc = "done"
    BY <1>9, <2>1 DEF notary_run
  <2>2. CASE mpc # "done"
    BY <1>9, <2>2 DEF notary_run
  <2> QED BY <2>1, <2>2
<1> QED BY <1>1, <1>2, <1>3, <1>4, <1>5, <1>6, <1>7, <1>8, <1>9

(* The stream: units move from a writer through the buffer to a reader,    *)
(* and a reader gets on only with a complete message.                      *)
LEMMA StreamPreserves ==
  ASSUME Invariant, prover_exchange \/ notary_exchange
  PROVE  Invariant'
<1> USE DEF Invariant, TypeOK, HandedBack, Phases, ServerChecked, MessagesRead, Announced,
            Results, Sides, ProverPlaces, NotaryPlaces, BeyondSession, BeyondVerify,
            Session, TlsAccepted, Listens, Alive, At, Goto, Ends, Other
<1> USE NotarizeAssumption
<1>1. ASSUME NEW side \in Sides, Write(side) PROVE Invariant'
  <2>1. CASE UNCHANGED stream
    BY <1>1, <2>1 DEF Write
  <2>2. CASE UNCHANGED task
    BY <1>1, <2>2 DEF Write
  <2> QED BY <1>1, <2>1, <2>2 DEF Write
<1>2. ASSUME NEW side \in Sides, Read(side) PROVE Invariant'
  BY <1>2 DEF Read
<1>3. ASSUME NEW side \in Sides, NEW to, Close(side, to),
             <<side, to>> \in {<<"prover", "read">>, <<"notary", "end">>}
      PROVE  Invariant'
  <2> DEFINE closed == [stream[side] EXCEPT !.shut = TRUE]
  <2>1. /\ stream[side] \in [left: Nat, buf: 0 .. Capacity, got: Nat, shut: BOOLEAN]
        /\ stream' = [stream EXCEPT ![side] = closed]
        /\ task[side].at = "write" /\ task' = [task EXCEPT ![side].at = to]
        /\ UNCHANGED <<config, server, call, mpc, driver, attested, verdict>>
    BY <1>3 DEF Close
  <2>2. closed = [left |-> stream[side].left, buf |-> stream[side].buf,
                  got |-> stream[side].got, shut |-> TRUE]
    <3>1. \A x : [stream[side] EXCEPT !.shut = x] =
                  [left |-> stream[side].left, buf |-> stream[side].buf,
                   got |-> stream[side].got, shut |-> x]
      BY <2>1
    <3> QED BY <3>1, Zenon
  <2>3. closed \in [left: Nat, buf: 0 .. Capacity, got: Nat, shut: BOOLEAN]
    <3>1. /\ stream[side].left \in Nat
          /\ stream[side].buf \in 0 .. Capacity
          /\ stream[side].got \in Nat
      BY <2>1
    <3> QED BY <2>2, <3>1, Zenon
  <2>4. closed.left = stream[side].left /\ closed.buf = stream[side].buf
        /\ closed.got = stream[side].got /\ closed.shut
    BY <2>2
  <2> HIDE DEF closed
  <2>5. TypeOK'
    BY <1>3, <2>1, <2>3, <2>4
  <2>6. HandedBack' /\ Phases' /\ ServerChecked' /\ MessagesRead' /\ Announced' /\ Results'
    BY <1>3, <2>1, <2>4
  <2> QED BY <2>5, <2>6
<1>4. CASE ReadEnd("prover", "validate")
  BY <1>4 DEF ReadEnd
<1>5. CASE ReadEnd("notary", "sign")
  BY <1>5 DEF ReadEnd
<1> QED BY <1>1, <1>2, <1>3, <1>4, <1>5 DEF prover_exchange, notary_exchange

(* The ends of the two sides and of the call, and what may go wrong.       *)
LEMMA EndsPreserve ==
  ASSUME Invariant,
         \/ notary_sign \/ prover_validate \/ notary_end \/ notarize_inner \/ Timeout
         \/ \E side \in Sides : Fault(side) \/ Stall(side) \/ DriverStops(side)
  PROVE  Invariant'
<1> USE DEF Invariant, TypeOK, HandedBack, Phases, ServerChecked, MessagesRead, Announced,
            Results, Sides, ProverPlaces, NotaryPlaces, BeyondSession, BeyondVerify,
            Session, TlsAccepted, Listens, Alive, At, Goto, Ends
<1>1. CASE notary_sign
  <2>1. UNCHANGED <<config, server>> /\ attested' = attested \cup {Session}
    BY <1>1 DEF notary_sign
  <2>2. Session \in attested' /\ attested \subseteq attested'
    BY <2>1
  <2>3. Session' = Session
    BY <2>1
  <2> HIDE DEF Session
  <2> QED BY <1>1, <2>2, <2>3 DEF notary_sign
<1>2. CASE prover_validate
  <2>1. Session' = Session
    BY <1>2 DEF prover_validate
  <2>2. /\ task["prover"].at = "validate" /\ task'["prover"].at = "validate"
        /\ task'["prover"].st = "done" /\ task'["notary"] = task["notary"]
        /\ Session \in attested
        /\ UNCHANGED <<config, server, call, mpc, driver, stream, attested, verdict>>
    BY <1>2 DEF prover_validate
  <2>3. TypeOK'
    <3> HIDE DEF HandedBack, Phases, ServerChecked, MessagesRead, Announced, Results, Session
    <3> QED BY <1>2 DEF prover_validate
  <2> HIDE DEF Session, TypeOK
  <2> QED BY <2>1, <2>2, <2>3
<1>3. CASE notary_end
  <2>1. Session' = Session
    BY <1>3 DEF notary_end
  <2> HIDE DEF Session
  <2> QED BY <1>3, <2>1 DEF notary_end
<1>4. CASE notarize_inner
  <2>1. Session' = Session
    BY <1>4 DEF notarize_inner
  <2> HIDE DEF Session
  <2> QED BY <1>4, <2>1 DEF notarize_inner
<1>5. CASE Timeout
  <2>1. CASE Alive("prover")
    BY <1>5, <2>1 DEF Timeout
  <2>2. CASE ~Alive("prover")
    BY <1>5, <2>2 DEF Timeout
  <2> QED BY <2>1, <2>2
<1>6. ASSUME NEW side \in Sides, Fault(side) PROVE Invariant'
  BY <1>6 DEF Fault
<1>7. ASSUME NEW side \in Sides, DriverStops(side) PROVE Invariant'
  BY <1>7 DEF DriverStops
<1>8. ASSUME NEW side \in Sides, Stall(side) PROVE Invariant'
  BY <1>8 DEF Stall
<1> QED BY <1>1, <1>2, <1>3, <1>4, <1>5, <1>6, <1>7, <1>8

(* The verifier that spike chooses trusts the roots that the session was   *)
(* checked against, so a presentation of a JSON response is accepted.      *)
LEMMA SpikePreserves ==
  ASSUME Invariant, spike
  PROVE  Invariant'
<1> DEFINE a == build_presentation(Session)
           v == verifier_for(config.server_trust.kind = "Custom", {Session.notary})
<1>1. call = "ok" /\ UNCHANGED <<config, server, call, task, mpc, driver, stream, attested>>
  BY DEF spike
<1>2. server.peer.root \in root_store(config.server_trust)
  BY <1>1 DEF Invariant, Results, ServerChecked, Phases, TlsAccepted, BeyondSession, Sides
<1>3. config.server_trust \in {Mozilla, Custom({CA_CERT_DER})}
  BY NotarizeAssumption DEF Invariant, TypeOK
<1>4. Session.root \in crypto_provider(v)
  BY <1>2, <1>3 DEF Session, SessionOf, verifier_for, root_store, crypto_provider, Mozilla,
     Custom, with_custom_roots, with_mozilla_roots
<1>5. Session.response \notin {NoBody, NotJson} => verify(v, a) = "Ok"
  BY <1>4 DEF verify, presentation_verify, build_presentation, verifier_for,
     with_custom_roots, with_mozilla_roots
<1>6. verdict' = IF verify(v, a) = "Ok" /\ Session.response[Field] = Absent
                 THEN "Field" ELSE verify(v, a)
  BY DEF spike
<1> HIDE DEF a, v
<1>7. Session' = Session
  BY <1>1 DEF Session
<1>8. Results'
  BY <1>1, <1>5, <1>6, <1>7 DEF Invariant, Results, Alive
<1> QED
  BY <1>1, <1>7, <1>8 DEF Invariant, TypeOK, HandedBack, Phases, ServerChecked, MessagesRead,
     Announced, TlsAccepted, Listens, Alive

(* Every step preserves the invariant.                                     *)
LEMMA NextPreserves == Invariant /\ [Next]_vars => Invariant'
<1> SUFFICES ASSUME Invariant, [Next]_vars PROVE Invariant'
  OBVIOUS
<1>1. CASE prover_step
  BY <1>1, ExchangesPreserve, SessionPreserves, StreamPreserves, EndsPreserve DEF prover_step
<1>2. CASE notary_step
  BY <1>2, ExchangesPreserve, SessionPreserves, StreamPreserves, EndsPreserve DEF notary_step
<1>3. CASE mpc_step \/ notarize_inner \/ spike
  BY <1>3, SessionPreserves, EndsPreserve, SpikePreserves DEF mpc_step
<1>4. CASE Faults
  BY <1>4, SessionPreserves, EndsPreserve DEF Faults
<1>5. CASE UNCHANGED vars
  BY <1>5 DEF vars, Invariant, TypeOK, HandedBack, Phases, ServerChecked, MessagesRead,
     Announced, Results, TlsAccepted, Listens, Alive, Session
<1> QED BY <1>1, <1>2, <1>3, <1>4, <1>5 DEF Next, Work

(* The invariant holds in every reachable state.                           *)
THEOREM InvariantHolds == Spec => []Invariant
BY InitInvariant, NextPreserves, PTL DEF Spec

(* Tasks, drivers and stream keep their types, and the stream conserves    *)
(* what is written to it.                                                  *)
THEOREM TypeCorrect == Spec => []TypeOK
<1>1. Invariant => TypeOK
  BY DEF Invariant
<1> QED BY <1>1, InvariantHolds, PTL

(* A successful call leaves nothing running and nothing unread.            *)
THEOREM SuccessLeavesNothing == Spec => []NothingLeftBehind
<1>1. Invariant => NothingLeftBehind
  BY DEF Invariant, NothingLeftBehind, TypeOK, HandedBack, Phases, MessagesRead, Results,
     Sides, BeyondSession
<1> QED BY <1>1, InvariantHolds, PTL

(* What the notary signs is acceptable: it gets there only behind a prover *)
(* that has checked the server's certificate, status and sizes.            *)
LEMMA SignedAcceptable ==
  ASSUME Invariant, notary_sign
  PROVE  Session \in Acceptable
<1>1. task["notary"].at = "sign"
  BY DEF notary_sign, At
<1>2. /\ TlsAccepted
      /\ server.peer.status = 200
      /\ server.peer.received <= config.max_recv_data
  BY <1>1 DEF Invariant, Phases, ServerChecked, BeyondVerify
<1>3. config \in Configs /\ server.peer \in Servers
  BY DEF Invariant, TypeOK
<1> QED BY <1>2, <1>3 DEF Acceptable, Session, TlsAccepted

(* The call implements Notarization: signing attests, the end of the call  *)
(* returns or gives up, and everything else is invisible.                  *)
THEOREM CallImplementsNotarization == Spec => ImplementsNotarization
<1>1. Init => N!Init
  BY DEF Init, N!Init, outcome
<1>2. Invariant /\ [Next]_vars => [N!Next]_N!vars
  <2> SUFFICES ASSUME Invariant, [Next]_vars
               PROVE  N!Next \/ UNCHANGED <<outcome, attested>>
    BY DEF N!vars
  <2> DEFINE Quiet == UNCHANGED <<config, server.peer, call, attested>>
  <2>1. ASSUME Quiet PROVE UNCHANGED <<outcome, attested>>
    BY <2>1 DEF outcome, Session
  <2>2. CASE notary_sign
    <3>1. UNCHANGED <<config, server, call>> /\ attested' = attested \cup {Session}
      BY <2>2 DEF notary_sign
    <3>2. outcome' = outcome
      BY <3>1 DEF outcome, Session
    <3> QED BY <2>2, <3>1, <3>2, SignedAcceptable DEF N!Next, N!Attest
  <2>3. CASE notarize_inner
    <3>1. call = "running" /\ call' \in {"ok", "err"} /\ UNCHANGED <<config, server, attested>>
      BY <2>3 DEF notarize_inner
    <3>2. outcome = Pending
      BY <3>1 DEF outcome
    <3>3. CASE call' = "ok"
      <4>1. task["prover"].st = "done"
        BY <2>3, <3>3 DEF notarize_inner
      <4>2. outcome' = Session
        BY <3>1, <3>3 DEF outcome, Session
      <4> QED BY <3>1, <3>2, <4>1, <4>2 DEF Invariant, Results, N!Next, N!Return
    <3>4. CASE call' = "err"
      <4>1. outcome' = Failed
        BY <3>4 DEF outcome
      <4> QED BY <3>1, <3>2, <4>1 DEF N!Next, N!GiveUp
    <3> QED BY <3>1, <3>3, <3>4
  <2>4. CASE Timeout
    <3>1. outcome = Pending /\ outcome' = Failed /\ UNCHANGED attested
      BY <2>4 DEF Timeout, outcome
    <3> QED BY <3>1 DEF N!Next, N!GiveUp
  <2>5. CASE prover_step
    BY <2>1, <2>5 DEF prover_step, prover_commit, prover_connect, prover_request,
       prover_session, prover_prove, prover_close, prover_reclaim, prover_exchange,
       prover_validate, Exchange, Reclaim, Write, Close, Read, ReadEnd, Invariant, TypeOK
  <2>6. CASE notary_step /\ ~notary_sign
    BY <2>1, <2>6 DEF notary_step, notary_commit, notary_run, notary_verify, notary_close,
       notary_reclaim, notary_exchange, notary_end, Exchange, Reclaim, Write, Close, Read,
       ReadEnd
  <2>7. CASE mpc_step \/ spike
    BY <2>1, <2>7 DEF mpc_step, Accept, Answer, MpcEnds, spike, Invariant, TypeOK
  <2>8. CASE Faults /\ ~Timeout
    BY <2>1, <2>8 DEF Faults, Fault, Stall, DriverStops, MpcFault, AcceptFails, Invariant, TypeOK
  <2>9. CASE UNCHANGED vars
    BY <2>1, <2>9 DEF vars
  <2> QED BY <2>2, <2>3, <2>4, <2>5, <2>6, <2>7, <2>8, <2>9 DEF Next, Work
<1> QED BY <1>1, <1>2, InvariantHolds, PTL DEF Spec, ImplementsNotarization, N!Spec

(* The notary attests only sessions as the configuration asks for, status  *)
(* and sizes included: the promise on which the pipeline's one-step view   *)
(* of a call rests.                                                        *)
THEOREM OnlyConfiguredAttested == Spec => []AttestedAsConfigured
<1>1. Invariant => AttestedAsConfigured
  <2> SUFFICES ASSUME Invariant, attested # {}
               PROVE  /\ SessionFor(Session, config) /\ attested = {Session}
                      /\ server.peer.status = 200
                      /\ server.peer.sent <= config.max_sent_data
                      /\ server.peer.received <= config.max_recv_data
    BY DEF AttestedAsConfigured
  <2>1. task["notary"].at \in {"write", "end"} /\ attested = {Session}
    BY DEF Invariant, Announced
  <2>2. /\ TlsAccepted
        /\ server.peer.status = 200
        /\ server.peer.received <= config.max_recv_data
    BY <2>1 DEF Invariant, Phases, ServerChecked, BeyondVerify
  <2> QED BY <2>1, <2>2 DEF TlsAccepted, SessionFor, Session, SessionOf
<1> QED BY <1>1, InvariantHolds, PTL

-----------------------------------------------------------------------------
(* Nobody waits in vain.                                                   *)

(* The phases of the protocol in numbers.                                  *)
LEMMA RankValues ==
  /\ Rank("commit") = 1 /\ Rank("prove") = 3 /\ Rank("close") = 4 /\ Rank("reclaim") = 5
  /\ \A at \in {"connect", "request", "session", "run"} : Rank(at) = 2
  /\ \A at \in {"write", "read", "validate", "sign", "end"} : Rank(at) = 6
BY DEF Rank

(* No side has failed and no exchange has stalled; the server and MPC-TLS  *)
(* may have failed.                                                        *)
Undisturbed == \A side \in Sides : task[side].st # "failed" /\ driver[side] # "stalled"

(* Then no driver is missing, and a side that is not beyond the other one  *)
(* gets on with an exchange.                                               *)
LEMMA ExchangesGoOn ==
  ASSUME Invariant, Undisturbed, NEW side \in Sides,
         task[side].at \in {"commit", "prove", "close", "reclaim"},
         Rank(task[Other(side)].at) >= Rank(task[side].at)
  PROVE  ExchangeReady(side)
<1>1. \A x \in Sides : driver[x] \in {"running", "returned"}
  <2>1. \A x \in Sides : task[x].st = "done" => driver[x] = "returned"
    BY DEF Invariant, Results, HandedBack, Sides
  <2> QED BY <2>1 DEF Undisturbed, Invariant, TypeOK, HandedBack, Alive, Sides
<1>2. driver[side] = "running"
  BY <1>1 DEF Invariant, HandedBack
<1> QED BY <1>1, <1>2 DEF ExchangeReady, TakesPart, Other, Sides

(* So does the notary, up to the stream, behind a prover that has seen the *)
(* session end.                                                            *)
LEMMA NotaryFollows ==
  ASSUME Invariant, Undisturbed, Alive("notary"),
         task["prover"].at \in BeyondSession,
         Rank(task["prover"].at) >= Rank(task["notary"].at),
         task["notary"].at \in {"commit", "run", "prove", "close", "reclaim"}
  PROVE  NotaryReady
<1>1. CASE task["notary"].at = "run"
  BY <1>1 DEF Invariant, Phases, NotaryReady, At
<1>2. CASE task["notary"].at # "run"
  <2>1. ExchangeReady("notary")
    BY <1>2, ExchangesGoOn DEF Sides, Other
  <2> QED BY <2>1 DEF NotaryReady
<1> QED BY <1>1, <1>2

(* A prover that has read an attestation to its end has one to validate.   *)
LEMMA AttestationArrived ==
  ASSUME Invariant, Alive("prover"), task["prover"].at = "validate"
  PROVE  SomebodyReady
<1>1. /\ stream["notary"].left \in Nat /\ stream["notary"].got \in Nat
      /\ stream["notary"].buf \in 0 .. Capacity
      /\ stream["notary"].left + stream["notary"].buf + stream["notary"].got = wire["notary"]
      /\ Capacity \in Nat /\ wire["notary"] \in Nat \ {0}
  BY NotarizeAssumption DEF Invariant, TypeOK, Sides
<1>2. stream["notary"].left # wire["notary"]
  <2>1. stream["notary"].got = wire["notary"]
    BY DEF Invariant, MessagesRead
  <2>2. \A l, g, w \in Nat, b \in 0 .. Capacity : l + b + g = w /\ g = w /\ w # 0 => l # w
    BY <1>1
  <2> QED BY <1>1, <2>1, <2>2
<1>3. Session \in attested
  BY <1>2 DEF Invariant, Announced
<1> QED BY <1>3 DEF SomebodyReady, ProverReady, At

(* Place by place of the prover: it can go on, or the one it waits for.    *)
LEMMA SomebodyGoesOn ==
  ASSUME Invariant, call = "running", Undisturbed
  PROVE  SomebodyReady
<1> DEFINE early == {"commit", "run", "prove", "close", "reclaim"}
<1>1. /\ task["prover"].at \in ProverPlaces /\ task["notary"].at \in NotaryPlaces
      /\ task["prover"].st \in {"running", "done"}
      /\ Alive("notary") \/ task["notary"].at = "end"
      /\ mpc \in {"none", "running", "done", "failed"}
      /\ server.st \in {"listening", "queued", "serving", "answered", "gone"}
  BY DEF Invariant, TypeOK, Results, Undisturbed, Sides, Alive
<1>2. \A side \in Sides : /\ stream[side].left \in Nat /\ stream[side].got \in Nat
                          /\ stream[side].buf \in 0 .. Capacity
                          /\ stream[side].left + stream[side].buf + stream[side].got
                               = wire[side]
  BY DEF Invariant, TypeOK
<1>3. Capacity > 0 /\ wire["notary"] > 0 /\ Capacity \in Nat /\ wire \in [Sides -> Nat]
  BY NotarizeAssumption DEF Sides
<1>4. ASSUME task["prover"].at \in {"write", "read", "validate"}, task["notary"].at \in early
      PROVE  NotaryReady
  <2>1. Rank(task["prover"].at) >= Rank(task["notary"].at)
    BY <1>4, RankValues
  <2> QED BY <1>1, <1>4, <2>1, NotaryFollows DEF BeyondSession
<1>5. ASSUME Alive("notary"), task["notary"].at \in {"sign", "end"} PROVE NotaryReady
  BY <1>5 DEF NotaryReady
<1>6. CASE task["prover"].st = "done"
  <2>1. task["prover"].at = "validate" /\ driver["prover"] = "returned" /\ stream["prover"].shut
    BY <1>6 DEF Invariant, Results, HandedBack, Announced, Sides
  <2>2. CASE ~Alive("notary")
    BY <1>6, <2>2 DEF SomebodyReady, CallReady, Alive
  <2>3. CASE Alive("notary") /\ task["notary"].at \in {"read", "write"}
    <3>1. Dropped("prover")
      BY <1>6, <2>1 DEF Dropped, Alive
    <3> QED BY <2>3, <3>1 DEF SomebodyReady, NotaryReady, StreamReady, Other
  <2> QED BY <1>1, <1>4, <1>5, <2>1, <2>2, <2>3 DEF SomebodyReady, NotaryPlaces
<1>7. CASE Alive("prover") /\ task["prover"].at \in {"commit", "connect"}
  <2>1. Rank(task["notary"].at) >= 1
    BY <1>1, RankValues DEF NotaryPlaces
  <2>2. task["prover"].at = "commit" => ExchangeReady("prover")
    BY <2>1, ExchangesGoOn, RankValues DEF Other, Sides
  <2> QED BY <1>7, <2>2 DEF SomebodyReady, ProverReady, At
<1>8. CASE Alive("prover") /\ task["prover"].at \in {"request", "session"}
  <2>1. CASE mpc \in {"done", "failed"}
    BY <1>8, <2>1 DEF Invariant, ServerChecked, SomebodyReady, ProverReady, At
  <2>2. CASE mpc = "running"
    <3>1. task["notary"].at \in {"commit", "run"} /\ Alive("notary")
      BY <1>1, <2>2 DEF Invariant, Phases, BeyondVerify, NotaryPlaces
    <3>2. CASE task["notary"].at = "commit"
      <4>1. ExchangeReady("notary")
        BY <1>8, <3>2, ExchangesGoOn, RankValues DEF Other, Sides
      <4> QED BY <3>1, <4>1 DEF SomebodyReady, NotaryReady
    <3>3. CASE task["notary"].at = "run"
      <4>1. \A side \in Sides : driver[side] = "running"
        BY <1>8, <3>1, <3>3 DEF Invariant, TypeOK, HandedBack, Undisturbed, Sides
      <4>2. server.st \in {"queued", "serving", "answered", "gone"}
        BY <1>1, <2>2 DEF Invariant, Announced, Listens
      <4> QED BY <2>2, <3>1, <3>3, <4>1, <4>2 DEF SomebodyReady, MpcReady, MpcRuns, At
    <3> QED BY <3>1, <3>2, <3>3
  <2> QED BY <1>1, <1>8, <2>1, <2>2 DEF Invariant, Announced
<1>9. CASE Alive("prover") /\ task["prover"].at \in {"prove", "close", "reclaim"}
  <2>1. CASE Rank(task["notary"].at) >= Rank(task["prover"].at)
    <3>1. ExchangeReady("prover")
      BY <1>9, <2>1, ExchangesGoOn DEF Other, Sides
    <3> QED BY <1>9, <3>1 DEF SomebodyReady, ProverReady
  <2>2. CASE ~(Rank(task["notary"].at) >= Rank(task["prover"].at))
    <3>1. task["notary"].at \in early /\ Rank(task["prover"].at) >= Rank(task["notary"].at)
      BY <1>1, <1>9, <2>2, RankValues DEF NotaryPlaces
    <3>2. NotaryReady
      BY <1>1, <1>9, <3>1, NotaryFollows DEF BeyondSession
    <3> QED BY <3>2 DEF SomebodyReady
  <2> QED BY <2>1, <2>2
<1>10. CASE Alive("prover") /\ task["prover"].at = "write"
  <2>1. CASE stream["prover"].left = 0 \/ stream["prover"].buf < Capacity
    BY <1>10, <2>1 DEF SomebodyReady, ProverReady, StreamReady
  <2>2. CASE stream["prover"].left # 0 /\ stream["prover"].buf >= Capacity
    <3>1. stream["prover"].buf > 0 /\ stream["prover"].got # wire["prover"]
      BY <1>2, <1>3, <2>2 DEF Sides
    <3>2. task["notary"].at \in early \cup {"read"}
      BY <1>1, <3>1 DEF Invariant, MessagesRead, NotaryPlaces
    <3>3. CASE task["notary"].at = "read"
      BY <1>1, <3>1, <3>3 DEF SomebodyReady, NotaryReady, StreamReady, Other
    <3> QED BY <1>4, <1>10, <3>2, <3>3 DEF SomebodyReady
  <2> QED BY <1>2, <1>3, <2>1, <2>2 DEF Sides
<1>11. CASE Alive("prover") /\ task["prover"].at = "read"
  <2>1. CASE task["notary"].at = "read"
    <3>1. stream["prover"].shut
      BY <1>11 DEF Invariant, Announced
    <3> QED BY <1>1, <2>1, <3>1 DEF SomebodyReady, NotaryReady, StreamReady, Other
  <2>2. CASE task["notary"].at = "write"
    <3>1. CASE stream["notary"].buf > 0
      BY <1>11, <3>1 DEF SomebodyReady, ProverReady, StreamReady, Other
    <3>2. CASE ~(stream["notary"].buf > 0)
      <4>1. stream["notary"].buf < Capacity
        BY <1>2, <1>3, <3>2 DEF Sides
      <4> QED BY <1>1, <2>2, <4>1 DEF SomebodyReady, NotaryReady, StreamReady
    <3> QED BY <3>1, <3>2
  <2>3. CASE task["notary"].at = "end"
    <3>1. stream["notary"].shut
      BY <2>3 DEF Invariant, Announced
    <3> QED BY <1>11, <3>1 DEF SomebodyReady, ProverReady, StreamReady, Other
  <2> QED BY <1>1, <1>4, <1>5, <1>11, <2>1, <2>2, <2>3 DEF SomebodyReady, NotaryPlaces
<1>12. CASE Alive("prover") /\ task["prover"].at = "validate"
  BY <1>12, AttestationArrived
<1> QED
  BY <1>1, <1>6, <1>7, <1>8, <1>9, <1>10, <1>11, <1>12 DEF ProverPlaces, Alive

(* When both ends of the stream are out of the drivers' hands, a failed    *)
(* notary's end is closed, and the prover finds that out.                  *)
LEMMA FailedNotaryNoticed ==
  ASSUME Invariant, call = "running", task["notary"].st = "failed",
         \A side \in Sides : driver[side] \in {"returned", "gone"}
  PROVE  SomebodyReady
<1>1. CASE ~Alive("prover")
  BY <1>1 DEF SomebodyReady, CallReady, Alive
<1>2. CASE Alive("prover")
  <2>1. task["prover"].at \in {"write", "read", "validate"}
    BY <1>2 DEF Invariant, TypeOK, HandedBack, Sides, ProverPlaces
  <2>2. Dropped("notary")
    BY DEF Dropped, Alive, Sides
  <2> QED BY <1>2, <2>1, <2>2, AttestationArrived DEF SomebodyReady, ProverReady, StreamReady, Other
<1> QED BY <1>1, <1>2

(* A call that has not returned is stuck only in an exchange that stalled, *)
(* or with a failed notary while a driver has an end of the stream.        *)
THEOREM CallHangsOnlyInProtocol == Spec => []HangsOnlyInProtocol
<1>1. Invariant => HangsOnlyInProtocol
  <2> SUFFICES ASSUME Invariant, call = "running", ~SomebodyReady,
                      \A side \in Sides : driver[side] # "stalled"
               PROVE  /\ task["notary"].st = "failed"
                      /\ \E side \in Sides : driver[side] = "running"
    BY DEF HangsOnlyInProtocol
  <2>1. task["prover"].st # "failed"
    BY DEF SomebodyReady, CallReady, Alive
  <2>2. task["notary"].st = "failed"
    BY <2>1, SomebodyGoesOn DEF Undisturbed, Sides
  <2>3. \E side \in Sides : driver[side] = "running"
    BY <2>2, FailedNotaryNoticed DEF Invariant, TypeOK
  <2> QED BY <2>2, <2>3
<1> QED BY <1>1, InvariantHolds, PTL

(* A notary that is left behind with its stream never waits again: the     *)
(* prover's end of the stream is closed.                                   *)
THEOREM OrphanNotaryNeverWaits == Spec => []OrphanNeverWaits
<1>1. Invariant => OrphanNeverWaits
  <2> SUFFICES ASSUME Invariant, call \in {"err", "timeout"}, Alive("notary"),
                      \A side \in Sides : driver[side] = "returned"
               PROVE  NotaryReady
    BY DEF OrphanNeverWaits
  <2>1. Dropped("prover")
    BY DEF Invariant, Results, Dropped, Sides
  <2>2. task["notary"].at \in {"write", "read", "sign", "end"}
    BY DEF Invariant, TypeOK, HandedBack, Sides, NotaryPlaces
  <2> QED BY <2>1, <2>2 DEF NotaryReady, StreamReady, Other
<1> QED BY <1>1, InvariantHolds, PTL

-----------------------------------------------------------------------------
(* A call takes finitely many steps.                                       *)

(* The parts of Remaining are natural numbers.                             *)
Natural ==
  /\ TaskLeft("prover") \in Nat /\ (Alive("prover") => TaskLeft("prover") > 0)
  /\ TaskLeft("notary") \in Nat /\ (Alive("notary") => TaskLeft("notary") > 0)
  /\ StreamLeft("prover") \in Nat /\ StreamLeft("notary") \in Nat
  /\ DriverLeft("prover") \in Nat /\ DriverLeft("notary") \in Nat
  /\ ServerLeft[server.st] \in Nat /\ MpcLeft[mpc] \in Nat /\ CallLeft \in Nat
LEMMA PartsAreNatural == TypeOK => Natural
<1> SUFFICES ASSUME TypeOK PROVE Natural
  OBVIOUS
<1>1. ASSUME NEW side \in Sides
      PROVE  PlacesLeft[side][task[side].at] \in Nat /\ PlacesLeft[side][task[side].at] > 0
  BY <1>1 DEF TypeOK, Sides, ProverPlaces, NotaryPlaces, PlacesLeft
<1>2. \A side \in Sides : TaskLeft(side) \in Nat /\ (Alive(side) => TaskLeft(side) > 0)
  BY <1>1 DEF TaskLeft
<1>3. \A side \in Sides : StreamLeft(side) \in Nat
  BY NotarizeAssumption DEF TypeOK, StreamLeft
<1>4. ServerLeft[server.st] \in Nat /\ MpcLeft[mpc] \in Nat
  BY DEF TypeOK, ServerLeft, MpcLeft
<1>5. \A side \in Sides : DriverLeft(side) \in Nat
  BY DEF TypeOK, DriverLeft
<1> QED BY <1>2, <1>3, <1>4, <1>5 DEF Natural, Sides, CallLeft

(* Its parts, and how a step may change them: none grows, one falls.       *)
NoneGrows ==
  /\ TaskLeft("prover")' <= TaskLeft("prover") /\ TaskLeft("notary")' <= TaskLeft("notary")
  /\ StreamLeft("prover")' <= StreamLeft("prover")
  /\ StreamLeft("notary")' <= StreamLeft("notary")
  /\ DriverLeft("prover")' <= DriverLeft("prover")
  /\ DriverLeft("notary")' <= DriverLeft("notary")
  /\ ServerLeft[server.st]' <= ServerLeft[server.st]
  /\ MpcLeft[mpc]' <= MpcLeft[mpc] /\ CallLeft' <= CallLeft
TaskFalls ==
  TaskLeft("prover")' < TaskLeft("prover") \/ TaskLeft("notary")' < TaskLeft("notary")
StreamFalls ==
  \/ StreamLeft("prover")' < StreamLeft("prover")
  \/ StreamLeft("notary")' < StreamLeft("notary")
OtherFalls ==
  \/ DriverLeft("prover")' < DriverLeft("prover")
  \/ DriverLeft("notary")' < DriverLeft("notary")
  \/ ServerLeft[server.st]' < ServerLeft[server.st]
  \/ MpcLeft[mpc]' < MpcLeft[mpc] \/ CallLeft' < CallLeft

LEMMA RemainingFalls ==
  ASSUME TypeOK, TypeOK', NoneGrows, TaskFalls \/ StreamFalls \/ OtherFalls
  PROVE  Remaining' \in Nat /\ Remaining' < Remaining
<1>1. Natural /\ Natural'
  BY PartsAreNatural, PTL
<1> QED
  BY <1>1 DEF Natural, Remaining, SideLeft, NoneGrows, TaskFalls, StreamFalls, OtherFalls

(* What is not touched does not grow.                                      *)
LEMMA Untouched ==
  ASSUME TypeOK
  PROVE  /\ UNCHANGED task => /\ TaskLeft("prover")' <= TaskLeft("prover")
                              /\ TaskLeft("notary")' <= TaskLeft("notary")
         /\ UNCHANGED stream => /\ StreamLeft("prover")' <= StreamLeft("prover")
                                /\ StreamLeft("notary")' <= StreamLeft("notary")
         /\ UNCHANGED driver => /\ DriverLeft("prover")' <= DriverLeft("prover")
                                /\ DriverLeft("notary")' <= DriverLeft("notary")
         /\ UNCHANGED server => ServerLeft[server.st]' <= ServerLeft[server.st]
         /\ UNCHANGED mpc => MpcLeft[mpc]' <= MpcLeft[mpc]
         /\ UNCHANGED <<call, verdict>> => CallLeft' <= CallLeft
<1>1. Natural
  BY PartsAreNatural
<1>2. /\ UNCHANGED task => /\ TaskLeft("prover")' = TaskLeft("prover")
                           /\ TaskLeft("notary")' = TaskLeft("notary")
      /\ UNCHANGED stream => /\ StreamLeft("prover")' = StreamLeft("prover")
                             /\ StreamLeft("notary")' = StreamLeft("notary")
      /\ UNCHANGED driver => /\ DriverLeft("prover")' = DriverLeft("prover")
                             /\ DriverLeft("notary")' = DriverLeft("notary")
      /\ UNCHANGED server => ServerLeft[server.st]' = ServerLeft[server.st]
      /\ UNCHANGED mpc => MpcLeft[mpc]' = MpcLeft[mpc]
      /\ UNCHANGED <<call, verdict>> => CallLeft' = CallLeft
  BY DEF TaskLeft, Alive, StreamLeft, DriverLeft, CallLeft, ServerLeft, MpcLeft
<1> QED BY <1>1, <1>2 DEF Natural

(* A side that moves on or ends has less before it.                        *)
LEMMA TaskMoves ==
  ASSUME TypeOK, TypeOK', NEW side \in Sides, Alive(side),
         task'[Other(side)] = task[Other(side)],
         \/ task'[side].st # "running"
         \/ /\ task'[side].st = "running"
            /\ PlacesLeft[side][task'[side].at] < PlacesLeft[side][task[side].at]
  PROVE  /\ TaskLeft("prover")' <= TaskLeft("prover")
         /\ TaskLeft("notary")' <= TaskLeft("notary")
         /\ TaskFalls
<1>1. Natural /\ Natural'
  BY PartsAreNatural, PTL
<1>2. CASE side = "prover"
  <2>1. TaskLeft("notary")' = TaskLeft("notary")
    BY <1>2 DEF TaskLeft, Alive, Other
  <2>2. TaskLeft("prover")' < TaskLeft("prover")
    <3>1. CASE task'[side].st # "running"
      <4>1. TaskLeft("prover")' = 0
        BY <1>2, <3>1 DEF TaskLeft, Alive
      <4> QED BY <1>1, <1>2, <4>1 DEF Natural
    <3>2. CASE task'[side].st = "running"
      BY <1>2, <3>2 DEF TaskLeft, Alive
    <3> QED BY <3>1, <3>2
  <2> QED BY <1>1, <2>1, <2>2 DEF Natural, TaskFalls
<1>3. CASE side = "notary"
  <2>1. TaskLeft("prover")' = TaskLeft("prover")
    BY <1>3 DEF TaskLeft, Alive, Other
  <2>2. TaskLeft("notary")' < TaskLeft("notary")
    <3>1. CASE task'[side].st # "running"
      <4>1. TaskLeft("notary")' = 0
        BY <1>3, <3>1 DEF TaskLeft, Alive
      <4> QED BY <1>1, <1>3, <4>1 DEF Natural
    <3>2. CASE task'[side].st = "running"
      BY <1>3, <3>2 DEF TaskLeft, Alive
    <3> QED BY <3>1, <3>2
  <2> QED BY <1>1, <2>1, <2>2 DEF Natural, TaskFalls
<1> QED BY <1>2, <1>3 DEF Sides

(* The steps of TLSNotary's protocol and of the session: one side moves on *)
(* or ends.                                                                *)
MovesOn(side) ==
  /\ Alive(side)
  /\ task'[Other(side)] = task[Other(side)]
  /\ \/ task'[side].st # "running"
     \/ /\ task'[side].st = "running"
        /\ PlacesLeft[side][task'[side].at] < PlacesLeft[side][task[side].at]

LEMMA ProverMoves ==
  ASSUME TypeOK,
         \/ prover_commit \/ prover_connect \/ prover_request \/ prover_session
         \/ prover_prove \/ prover_close \/ prover_reclaim \/ prover_validate
         \/ Close("prover", "read") \/ ReadEnd("prover", "validate") \/ Fault("prover")
  PROVE  MovesOn("prover")
<1> USE DEF MovesOn, TypeOK, Sides, Alive, At, Goto, Ends, Other, PlacesLeft
<1>1. CASE prover_commit \/ prover_prove \/ prover_close \/ prover_reclaim
  BY <1>1 DEF prover_commit, prover_prove, prover_close, prover_reclaim, Exchange, Reclaim
<1>2. CASE prover_connect \/ prover_request \/ prover_session
  BY <1>2 DEF prover_connect, prover_request, prover_session
<1>3. CASE prover_validate \/ Fault("prover")
  BY <1>3 DEF prover_validate, Fault
<1>4. CASE Close("prover", "read") \/ ReadEnd("prover", "validate")
  BY <1>4 DEF Close, ReadEnd
<1> QED BY <1>1, <1>2, <1>3, <1>4

LEMMA NotaryMoves ==
  ASSUME TypeOK,
         \/ notary_commit \/ notary_run \/ notary_verify \/ notary_close
         \/ notary_reclaim \/ notary_sign \/ notary_end
         \/ Close("notary", "end") \/ ReadEnd("notary", "sign") \/ Fault("notary")
  PROVE  MovesOn("notary")
<1> USE DEF MovesOn, TypeOK, Sides, Alive, At, Goto, Ends, Other, PlacesLeft
<1>1. CASE notary_commit \/ notary_verify \/ notary_close \/ notary_reclaim
  BY <1>1 DEF notary_commit, notary_verify, notary_close, notary_reclaim, Exchange, Reclaim
<1>2. CASE notary_run \/ notary_sign
  BY <1>2 DEF notary_run, notary_sign
<1>3. CASE notary_end \/ Fault("notary")
  BY <1>3 DEF notary_end, Fault
<1>4. CASE Close("notary", "end") \/ ReadEnd("notary", "sign")
  BY <1>4 DEF Close, ReadEnd
<1> QED BY <1>1, <1>2, <1>3, <1>4

(* Nothing else grows when a side moves on.                                *)
LEMMA MovesFall ==
  ASSUME TypeOK, TypeOK', NEW side \in Sides, MovesOn(side),
         \/ UNCHANGED stream
         \/ /\ StreamLeft("prover")' <= StreamLeft("prover")
            /\ StreamLeft("notary")' <= StreamLeft("notary"),
         \/ UNCHANGED driver
         \/ /\ DriverLeft("prover")' <= DriverLeft("prover")
            /\ DriverLeft("notary")' <= DriverLeft("notary"),
         \/ UNCHANGED <<server, mpc>>
         \/ /\ ServerLeft[server.st]' <= ServerLeft[server.st]
            /\ MpcLeft[mpc]' <= MpcLeft[mpc],
         UNCHANGED <<call, verdict>>
  PROVE  NoneGrows /\ TaskFalls
<1>1. /\ TaskLeft("prover")' <= TaskLeft("prover")
      /\ TaskLeft("notary")' <= TaskLeft("notary")
      /\ TaskFalls
  BY TaskMoves DEF MovesOn
<1>2. CallLeft' <= CallLeft
  BY Untouched
<1>3. StreamLeft("prover")' <= StreamLeft("prover") /\ StreamLeft("notary")' <= StreamLeft("notary")
  BY Untouched
<1>4. DriverLeft("prover")' <= DriverLeft("prover") /\ DriverLeft("notary")' <= DriverLeft("notary")
  BY Untouched
<1>5. ServerLeft[server.st]' <= ServerLeft[server.st] /\ MpcLeft[mpc]' <= MpcLeft[mpc]
  BY Untouched
<1> QED BY <1>1, <1>2, <1>3, <1>4, <1>5 DEF NoneGrows

(* The steps of the two sides.                                             *)
LEMMA SidesFall ==
  ASSUME Invariant, TypeOK', prover_step \/ notary_step \/ \E side \in Sides : Fault(side)
  PROVE  NoneGrows /\ (TaskFalls \/ StreamFalls)
<1>1. TypeOK /\ "prover" \in Sides /\ "notary" \in Sides
  BY DEF Sides, Invariant
<1>2. CASE \/ prover_commit \/ prover_request \/ prover_session \/ prover_prove
           \/ prover_close \/ prover_validate \/ ReadEnd("prover", "validate")
           \/ Fault("prover")
  <2>1. UNCHANGED <<stream, driver, server, mpc, call, verdict>>
    BY <1>2 DEF prover_commit, prover_request, prover_session, prover_prove, prover_close,
       prover_validate, Exchange, ReadEnd, Fault
  <2> QED BY <1>1, <1>2, <2>1, ProverMoves, MovesFall
<1>3. CASE \/ notary_commit \/ notary_run \/ notary_verify \/ notary_close \/ notary_sign
           \/ notary_end \/ ReadEnd("notary", "sign") \/ Fault("notary")
  <2>1. UNCHANGED <<stream, driver, server, mpc, call, verdict>>
    BY <1>3 DEF notary_commit, notary_run, notary_verify, notary_close, notary_sign,
       notary_end, Exchange, ReadEnd, Fault
  <2> QED BY <1>1, <1>3, <2>1, NotaryMoves, MovesFall
<1>4. CASE prover_connect
  <2>1. UNCHANGED <<stream, driver, call, verdict>>
    BY <1>4 DEF prover_connect
  <2>2. \/ UNCHANGED <<server, mpc>>
        \/ /\ ServerLeft[server.st]' <= ServerLeft[server.st]
           /\ MpcLeft[mpc]' <= MpcLeft[mpc]
    BY <1>1, <1>4 DEF prover_connect, Listens, At, Invariant, Phases, TypeOK, ServerLeft, MpcLeft
  <2> QED BY <1>1, <1>4, <2>1, <2>2, ProverMoves, MovesFall
<1>5. ASSUME NEW side \in Sides, NEW to, Reclaim(side, to), MovesOn(side)
      PROVE  NoneGrows /\ TaskFalls
  <2>1. UNCHANGED <<stream, server, mpc, call, verdict>>
    BY <1>5 DEF Reclaim
  <2>2. DriverLeft("prover")' <= DriverLeft("prover") /\ DriverLeft("notary")' <= DriverLeft("notary")
    BY <1>1, <1>5 DEF Reclaim, DriverLeft, TypeOK, Sides
  <2> QED BY <1>1, <1>5, <2>1, <2>2, MovesFall
<1>6. ASSUME NEW side \in Sides, NEW to, Close(side, to), MovesOn(side)
      PROVE  NoneGrows /\ TaskFalls
  <2>1. UNCHANGED <<driver, server, mpc, call, verdict>>
    BY <1>6 DEF Close
  <2>2. \A x \in Sides : stream'[x].left = stream[x].left /\ stream'[x].buf = stream[x].buf
    BY <1>1, <1>6 DEF Close, TypeOK
  <2>3. \A x \in Sides : stream[x].left \in Nat /\ stream[x].buf \in Nat
    BY <1>1, NotarizeAssumption DEF TypeOK
  <2>4. StreamLeft("prover")' <= StreamLeft("prover") /\ StreamLeft("notary")' <= StreamLeft("notary")
    BY <1>1, <2>2, <2>3 DEF StreamLeft
  <2> QED BY <1>1, <1>6, <2>1, <2>4, MovesFall
<1>7. CASE prover_reclaim \/ notary_reclaim
  BY <1>1, <1>5, <1>7, ProverMoves, NotaryMoves DEF prover_reclaim, notary_reclaim
<1>8. CASE Close("prover", "read") \/ Close("notary", "end")
  BY <1>1, <1>6, <1>8, ProverMoves, NotaryMoves
<1>9. ASSUME NEW side \in Sides, Write(side) PROVE NoneGrows /\ (TaskFalls \/ StreamFalls)
  <2>1. UNCHANGED <<driver, server, mpc, call, verdict>>
    BY <1>9 DEF Write
  <2>2. CASE UNCHANGED task
    <3>1. /\ \A x \in Sides : stream'[x].left <= stream[x].left
          /\ stream'[side].left = stream[side].left - 1
          /\ stream'[side].buf = stream[side].buf + 1
          /\ stream'[Other(side)] = stream[Other(side)]
      BY <1>1, <1>9, <2>2 DEF Write, TypeOK, Sides, Other, Ends, At, Alive
    <3>2. \A x \in Sides : stream[x].left \in Nat /\ stream[x].buf \in Nat
      BY <1>1, NotarizeAssumption DEF TypeOK
    <3>3. /\ StreamLeft("prover")' <= StreamLeft("prover")
          /\ StreamLeft("notary")' <= StreamLeft("notary") /\ StreamFalls
      BY <1>1, <3>1, <3>2 DEF StreamLeft, StreamFalls, Sides, Other
    <3> QED BY <1>1, <2>1, <2>2, <3>3, Untouched DEF NoneGrows
  <2>3. CASE Ends(side, "failed") /\ UNCHANGED stream
    <3>1. MovesOn(side)
      BY <1>1, <1>9, <2>3 DEF Write, MovesOn, At, Alive, Ends, TypeOK, Sides, Other
    <3> QED BY <1>1, <2>1, <2>3, <3>1, MovesFall
  <2> QED BY <1>9, <2>2, <2>3 DEF Write
<1>10. ASSUME NEW side \in Sides, Read(side) PROVE NoneGrows /\ StreamFalls
  <2>1. UNCHANGED <<task, driver, server, mpc, call, verdict>>
    BY <1>10 DEF Read
  <2>2. /\ \A x \in Sides : stream'[x].left = stream[x].left
        /\ stream'[Other(side)].buf = stream[Other(side)].buf - 1
        /\ stream'[side] = stream[side]
    BY <1>1, <1>10 DEF Read, TypeOK, Sides, Other
  <2>3. \A x \in Sides : stream[x].left \in Nat /\ stream[x].buf \in Nat
    BY <1>1, NotarizeAssumption DEF TypeOK
  <2>4. /\ StreamLeft("prover")' <= StreamLeft("prover")
        /\ StreamLeft("notary")' <= StreamLeft("notary") /\ StreamFalls
    BY <1>1, <2>2, <2>3 DEF StreamLeft, StreamFalls, Sides, Other
  <2> QED BY <1>1, <2>1, <2>4, Untouched DEF NoneGrows
<1> QED
  BY <1>1, <1>2, <1>3, <1>4, <1>7, <1>8, <1>9, <1>10
  DEF prover_step, notary_step, prover_exchange, notary_exchange, Sides

(* Server, MPC-TLS, drivers and the call.  A verdict of spike is final.    *)
LEMMA OthersFall ==
  ASSUME TypeOK, TypeOK',
         \/ mpc_step \/ notarize_inner \/ spike \/ MpcFault \/ AcceptFails \/ Timeout
         \/ \E side \in Sides : Stall(side) \/ DriverStops(side)
  PROVE  NoneGrows /\ OtherFalls
<1>1. CASE Accept \/ AcceptFails \/ Answer
  <2>1. UNCHANGED <<task, stream, driver, mpc, call, verdict>>
    BY <1>1 DEF Accept, AcceptFails, Answer
  <2>2. ServerLeft[server.st]' < ServerLeft[server.st]
    BY <1>1 DEF Accept, AcceptFails, Answer, TypeOK, ServerLeft
  <2>3. Natural /\ Natural'
    BY PartsAreNatural, PTL
  <2>4. ServerLeft[server.st]' <= ServerLeft[server.st]
    BY <2>2, <2>3 DEF Natural
  <2> QED BY <2>1, <2>2, <2>4, Untouched DEF NoneGrows, OtherFalls
<1>2. CASE MpcEnds \/ MpcFault
  <2>1. UNCHANGED <<task, stream, driver, server, call, verdict>>
    BY <1>2 DEF MpcEnds, MpcFault
  <2>2. mpc = "running" /\ mpc' \in {"done", "failed"}
    BY <1>2 DEF MpcEnds, MpcFault, MpcRuns
  <2>3. MpcLeft[mpc]' < MpcLeft[mpc] /\ MpcLeft[mpc]' <= MpcLeft[mpc]
    BY <2>2 DEF MpcLeft
  <2> QED BY <2>1, <2>3, Untouched DEF NoneGrows, OtherFalls
<1>3. CASE notarize_inner
  <2>1. UNCHANGED <<task, stream, driver, server, mpc, verdict>>
    BY <1>3 DEF notarize_inner
  <2>2. CallLeft' < CallLeft /\ CallLeft' <= CallLeft
    BY <1>3 DEF notarize_inner, CallLeft
  <2> QED BY <2>1, <2>2, Untouched DEF NoneGrows, OtherFalls
<1>4. CASE spike
  <2>1. UNCHANGED <<task, stream, driver, server, mpc, call>>
    BY <1>4 DEF spike
  <2>2. verdict = "none" /\ verdict' # "none"
    BY <1>4 DEF spike, verify
  <2>3. CallLeft' < CallLeft /\ CallLeft' <= CallLeft
    BY <2>1, <2>2 DEF CallLeft
  <2> QED BY <2>1, <2>3, Untouched DEF NoneGrows, OtherFalls
<1>5. CASE Timeout
  <2>1. UNCHANGED <<stream, driver, server, mpc, verdict>>
    BY <1>5 DEF Timeout
  <2>2. CallLeft' < CallLeft /\ CallLeft' <= CallLeft
    BY <1>5 DEF Timeout, CallLeft
  <2>3. TaskLeft("prover")' <= TaskLeft("prover") /\ TaskLeft("notary")' <= TaskLeft("notary")
    <3>1. CASE Alive("prover")
      <4>1. MovesOn("prover")
        BY <1>5, <3>1 DEF Timeout, MovesOn, Alive, Ends, TypeOK, Sides, Other
      <4> QED BY <4>1, TaskMoves DEF MovesOn, Sides
    <3>2. CASE ~Alive("prover")
      BY <1>5, <3>2, Untouched DEF Timeout
    <3> QED BY <3>1, <3>2
  <2> QED BY <2>1, <2>2, <2>3, Untouched DEF NoneGrows, OtherFalls
<1>6. ASSUME NEW side \in Sides, Stall(side) \/ DriverStops(side)
      PROVE  NoneGrows /\ OtherFalls
  <2>1. UNCHANGED <<task, stream, server, mpc, call, verdict>>
    BY <1>6 DEF Stall, DriverStops
  <2>2. /\ DriverLeft("prover")' <= DriverLeft("prover")
        /\ DriverLeft("notary")' <= DriverLeft("notary")
        /\ \/ DriverLeft("prover")' < DriverLeft("prover")
           \/ DriverLeft("notary")' < DriverLeft("notary")
    BY <1>6 DEF Stall, DriverStops, DriverLeft, TypeOK, Sides
  <2> QED BY <2>1, <2>2, Untouched DEF NoneGrows, OtherFalls
<1> QED BY <1>1, <1>2, <1>3, <1>4, <1>5, <1>6 DEF mpc_step

(* Every step of a call, a fault too, leaves less to do, so a call takes   *)
(* finitely many steps.                                                    *)
THEOREM CallStepsRunOut == Spec => StepsRunOut
<1>1. Invariant /\ Invariant' /\ [Next]_vars =>
        [Remaining' \in Nat /\ Remaining' < Remaining]_vars
  <2> SUFFICES ASSUME Invariant, Invariant', Next
               PROVE  Remaining' \in Nat /\ Remaining' < Remaining
    OBVIOUS
  <2>1. TypeOK /\ TypeOK'
    BY DEF Invariant
  <2>2. NoneGrows /\ (TaskFalls \/ StreamFalls \/ OtherFalls)
    BY <2>1, SidesFall, OthersFall DEF Next, Work, Faults
  <2> QED BY <2>1, <2>2, RemainingFalls
<1> QED BY <1>1, InvariantHolds, PTL DEF Spec, StepsRunOut
=============================================================================
