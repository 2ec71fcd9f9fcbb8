----------------------------- MODULE MCBootstrap -----------------------------
(***************************************************************************)
(* Instances of Bootstrap for TLC: keys by variables, by files, half by    *)
(* each, broken; every other variable as documented, except in Mistyped.   *)
(***************************************************************************)
EXTENDS Bootstrap

Plain == [https |-> "false", key |-> Unset, cert |-> Unset, src |-> Unset, mail |-> Blank,
          root |-> Unset, stray |-> Unset]

Https(k, c) == [Plain EXCEPT !.https = "true", !.key = k, !.cert = c]

MCEnvironments ==
  {Plain, [Plain EXCEPT !.stray = "production"],
   Https("A", "A"), Https(Unset, Blank), Https("A", Unset), Https("A", "B"), Https("junk", "junk")}

Documented ==
  [Plain EXCEPT !.src = "mitre-attack", !.mail = "ops", !.root = [path |-> "api/v21", slash |-> TRUE]]

Mistyped == [Documented EXCEPT !.src = "github"]

MCFewEnvironments == {Plain, Documented, Mistyped, Https(Unset, Unset)}
=============================================================================
