----------------------------- MODULE MCEasyRpc -----------------------------
(* EasyRpc with three calls: mixes of what their requests become. *)
EXTENDS EasyRpc

CONSTANTS k1, k2, k3

Mix(a, b, c) == k1 :> a @@ k2 :> b @@ k3 :> c
Mixes == {Mix("done", "cancelled", "longnamed"),
          Mix("done", "unserved", "foreign"),
          Mix("done", "unknown", "longnamed")}
=============================================================================
