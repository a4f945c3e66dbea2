---------------------------- MODULE MCAdministration ----------------------------
(* Three users and one invite, two requests at once, an API process with three   *)
(* connections and a worker with one.                                          *)
EXTENDS Administration, TLC

CONSTANTS u1, u2, u3, s1, s2, k1, api, worker, a1, a2, a3, w1

MCUsers == {u1, u2, u3}
MCSlots == {s1, s2}
MCTokens == {k1}
MCProcs == {api, worker}
MCConnsOf == api :> {a1, a2, a3} @@ worker :> {w1}
MCSymmetry == Permutations({s1, s2}) \cup Permutations({u1, u2, u3})
===============================================================================
