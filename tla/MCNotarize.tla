----------------------------- MODULE MCNotarize -----------------------------
(***************************************************************************)
(* One call against a public server and one against the fixture, servers   *)
(* that answer, answer too much, answer with an error or present the wrong *)
(* certificate, a caller with a secret header and one with small limits.   *)
(* The stream holds one unit less than a message has.                      *)
(***************************************************************************)
EXTENDS Notarize

MCI64Max == 100
MCStrings == {}
MCLen == <<>>
MCPointer == <<>>
MCWire == [side \in {"prover", "notary"} |-> IF side = "prover" THEN 3 ELSE 2]

Body(text) == [x \in {"/meta/version"} |-> [kind |-> "string", text |-> text]]
Server(host, root, status, response, received) ==
  [host |-> host, root |-> root, status |-> status, response |-> response,
   sent |-> 5, received |-> received]
Good == Server("fixture", "fixture", 200, Body("1"), 9)
MCServers ==
  {Good, [Good EXCEPT !.status = 500, !.response = Body("error")],
   [Good EXCEPT !.response = NotJson],
   [Good EXCEPT !.root = "unknown"], [Good EXCEPT !.host = "other"],
   [Good EXCEPT !.host = "api", !.root = "mozilla"]}

Env(url) ==
  [DEMO_URL |-> url, DEMO_FIELD |-> "/meta/version", WEBPROOF_NOTARY_KEY |-> Unset,
   DEMO_MAX_SENT |-> Unset, DEMO_MAX_RECV |-> Unset]
Api == [scheme |-> "https", host |-> "api", credentials |-> FALSE, path |-> "/a"]
MCEnvs ==
  {Env(Unset), Env(Api), [Env(Unset) EXCEPT !.DEMO_MAX_SENT = 4],
   [Env(Unset) EXCEPT !.DEMO_MAX_RECV = 8]}
MCConfigs ==
  {t.notarize : t \in UNION {resolve_target(env) : env \in MCEnvs}}
    \cup {[t.notarize EXCEPT !.extra_headers = {"cookie"}] : t \in resolve_target(Env(Unset))}
=============================================================================
