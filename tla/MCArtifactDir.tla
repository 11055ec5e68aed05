--------------------------- MODULE MCArtifactDir ----------------------------
(***************************************************************************)
(* Runs of webproof-notarize and webproof-verify-sign in one directory:    *)
(* two paths of one public host and the local fixture, environments and    *)
(* signing keys of every form, leftovers of every kind the verifier must   *)
(* refuse.                                                                 *)
(***************************************************************************)
EXTENDS ArtifactDir

MCI64Max == 100
MCStrings == {"api", "fixture", "other", "/f", "/g", "/meta/version",
              "42", "43", "null", ""}
MCLen == [s \in MCStrings |-> IF s = "" THEN 0 ELSE 4]
MCBytes32 == {}
MCPointer == [x \in {"g"} |-> "/g"]

Number(t) == [kind |-> "number", text |-> t]
Null == [kind |-> "null", text |-> ""]
Object == [kind |-> "object", text |-> ""]
Body(f, g) == [x \in {"/f", "/g", "/meta/version"} |-> IF x = "/g" THEN g ELSE f]

Public(path, response) ==
  [notary |-> "dev", root |-> "mozilla", host |-> "api", path |-> path,
   headers |-> request_headers([extra_headers |-> {}]), response |-> response]
Price == Public("/a", Body(Number("42"), Object))
Status == Public("/b", Body(Null, Null))
Broken == Public("/b", NotJson)
Empty == Public("/b", NoBody)
Partial == Public("/b", Body(Null, Absent))
Fixture == [Price EXCEPT !.root = "fixture", !.host = "fixture", !.path = "/formats/json"]
Rogue == [Price EXCEPT !.notary = "rogue", !.response = Body(Number("43"), Object)]
Elsewhere == [Price EXCEPT !.host = "other"]
MCSessions == {Price, Status, Broken, Empty, Partial, Fixture, Rogue, Elsewhere}

Url(scheme, host, path) ==
  [scheme |-> scheme, host |-> host, credentials |-> FALSE, path |-> path]
Env(url, field) ==
  [DEMO_URL |-> url, DEMO_FIELD |-> field, WEBPROOF_NOTARY_KEY |-> Unset,
   DEMO_MAX_SENT |-> Unset, DEMO_MAX_RECV |-> Unset]
EnvA == Env(Url("https", "api", "/a"), "/f")
MCEnvs ==
  {EnvA, Env(Url("https", "api", "/b"), "g"), Env(Unset, Unset),
   Env(Url("http", "api", "/a"), "/f"), Env(Malformed, "/f"),
   Env(Url("https", "api", "/a"), Unset),
   Env([Url("https", "api", "/a") EXCEPT !.credentials = TRUE], "/f"),
   [EnvA EXCEPT !.DEMO_MAX_SENT = Malformed], [EnvA EXCEPT !.WEBPROOF_NOTARY_KEY = <<>>]}

Raw(form, bytes) == [form |-> form, bytes |-> bytes]
MCSignerKeys ==
  {Raw("hex", <<"seed">>), Raw("json", <<"seed", "public">>), Raw("hex", <<"seed", "public">>),
   Raw("base58", <<>>), Raw("none", <<"seed">>)}

Honest == build_presentation(Price)
MCOldArtifacts ==
  {build_presentation(Rogue), build_presentation(Elsewhere),
   [Honest EXCEPT !.response = FALSE], [Honest EXCEPT !.request_line = FALSE],
   [build_presentation(Rogue) EXCEPT !.key = "dev", !.genuine = FALSE],
   [Honest EXCEPT !.identity = FALSE], [Honest EXCEPT !.transcript = FALSE]}
Request(url) == [url |-> url, field |-> "/f", fixture |-> FALSE]
MCOldRequests ==
  {Request(Url("http", "api", "/a")), Request(Url("https", "api", "/a")),
   Request(Url("https", "other", "/a"))}
=============================================================================
