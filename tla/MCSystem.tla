------------------------------ MODULE MCSystem ------------------------------
(***************************************************************************)
(* Two demos in one directory, for an allowed host and for one that is not *)
(* allowed, with two signing keys and one that does not parse and, perhaps,*)
(* what an earlier run for another path has left.                          *)
(***************************************************************************)
EXTENDS System, MCArtifactDir, TLC

MCSystemEnvs == {EnvA, Env(Url("https", "other", "/a"), "/f")}
MCSystemSignerKeys ==
  {Raw("hex", <<"seed">>), Raw("json", <<"other", "public">>), Raw("base58", <<>>)}
MCSystemArtifacts == {build_presentation(Status)}
MCSystemRequests == {Request(Url("https", "api", "/b"))}

(* Demos differ only in what happens to them.                              *)
DemoSymmetry == Permutations(Demos)
=============================================================================
