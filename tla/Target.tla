------------------------------- MODULE Target -------------------------------
(***************************************************************************)
(* The shared configuration of the demo programs (demo/src/lib.rs): what   *)
(* they make of their environment variables.  A function that may fail     *)
(* returns the set of its results: empty, or a singleton.                  *)
(*                                                                         *)
(* An environment gives each variable its value or Unset.  Keys are        *)
(* sequences of 32-byte parts; a URL is                                    *)
(* [scheme, host, credentials, path], its path including the query.        *)
(***************************************************************************)
EXTENDS Presentation, Sequences

CONSTANTS
  Envs,         (* environments of webproof-notarize                        *)
  Unset,        (* the variable is not set                                  *)
  Malformed,    (* not a number, not a URL, or a URL without a host         *)
  pointer       (* the JSON pointer of each bare dotted key                 *)

(* The in-process server (fixture.rs).                                     *)
SERVER_DOMAIN == "fixture"
FIXTURE_JSON_PATH == "/formats/json"
CA_CERT_DER == "fixture"
DEV_NOTARY_KEY == "dev"
DEFAULT_MAX_SENT_DATA == 4096
DEFAULT_MAX_RECV_DATA == 16384

normalize_field(field) == IF field \in DOMAIN pointer THEN pointer[field] ELSE field

notary_key(raw) ==
  IF raw = Unset THEN {DEV_NOTARY_KEY} ELSE IF Len(raw) = 1 THEN {raw[1]} ELSE {}

env_usize(raw, default) ==
  IF raw = Unset THEN {default} ELSE IF raw = Malformed THEN {} ELSE {raw}

Mozilla == [kind |-> "Mozilla"]
Custom(roots) == [kind |-> "Custom", roots |-> roots]

(* The URL and the field of DEMO_URL and DEMO_FIELD, and whether the       *)
(* in-process server stands in for a public one.                           *)
Endpoint(env) ==
  IF env.DEMO_URL = Unset
  THEN {[url |-> [scheme |-> "https", host |-> SERVER_DOMAIN, credentials |-> FALSE,
                  path |-> FIXTURE_JSON_PATH],
         field |-> normalize_field(IF env.DEMO_FIELD = Unset THEN "/meta/version"
                                   ELSE env.DEMO_FIELD),
         fixture |-> TRUE]}
  ELSE IF \/ env.DEMO_URL = Malformed
          \/ env.DEMO_URL.scheme # "https"
          \/ env.DEMO_URL.credentials
          \/ env.DEMO_FIELD = Unset THEN {}
  ELSE {[url |-> env.DEMO_URL, field |-> normalize_field(env.DEMO_FIELD),
         fixture |-> FALSE]}

NotarizeConfig(t, key, max_sent, max_recv) ==
  [server_name |-> t.url.host, uri |-> t.url.path, extra_headers |-> {},
   server_trust |-> IF t.fixture THEN Custom({CA_CERT_DER}) ELSE Mozilla,
   max_sent_data |-> max_sent, max_recv_data |-> max_recv, notary_key |-> key]

resolve_target(env) ==
  {[url |-> t.url, field |-> t.field, fixture |-> t.fixture,
    notarize |-> NotarizeConfig(t, key, max_sent, max_recv)] :
     t \in Endpoint(env), key \in notary_key(env.WEBPROOF_NOTARY_KEY),
     max_sent \in env_usize(env.DEMO_MAX_SENT, DEFAULT_MAX_SENT_DATA),
     max_recv \in env_usize(env.DEMO_MAX_RECV, DEFAULT_MAX_RECV_DATA)}

Targets == UNION {resolve_target(env) : env \in Envs}

(* ServerTrust::root_store.                                                *)
root_store(trust) == IF trust.kind = "Mozilla" THEN {"mozilla"} ELSE trust.roots

(* The headers of the request that notarize sends, in lower case as on the *)
(* wire.                                                                   *)
request_headers(config) ==
  {"host", "accept", "accept-encoding", "connection", "user-agent"}
    \cup config.extra_headers

(* Session s is one that notarize may return for this configuration: what  *)
(* Notarize establishes and ArtifactDir relies on.                         *)
SessionFor(s, config) ==
  /\ s.notary = config.notary_key
  /\ s.host = config.server_name
  /\ s.path = config.uri
  /\ s.root \in root_store(config.server_trust)
  /\ s.headers = request_headers(config)

(* The verifier that webproof-verify-sign and spike choose.                *)
verifier_for(fixture, keys) ==
  IF fixture THEN with_custom_roots({CA_CERT_DER}, keys) ELSE with_mozilla_roots(keys)

(* parse_signing_key that takes the public half of a key pair.             *)
parse_signing_key_last(raw) ==
  IF \/ raw.form \notin {"json", "hex", "base58"}
     \/ raw.form = "hex" /\ Len(raw.bytes) # 1
     \/ Len(raw.bytes) \notin {1, 2} THEN {}
  ELSE {raw.bytes[Len(raw.bytes)]}

(* A 64-byte key pair starts with its seed.  Only 64 hex digits, 32 bytes, *)
(* are taken for hex.  A seed stands for the key pair it generates.        *)
parse_signing_key(raw) ==
  IF \/ raw.form \notin {"json", "hex", "base58"}
     \/ raw.form = "hex" /\ Len(raw.bytes) # 1
     \/ Len(raw.bytes) \notin {1, 2} THEN {}
  ELSE {raw.bytes[1]}
=============================================================================
