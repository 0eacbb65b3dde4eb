------------------------------ MODULE MCPortal ------------------------------
(* An instance of Portal for TLC.                                          *)
EXTENDS Portal

(* Names 1 and 2 differ in case only.                                      *)
CaseFold == <<1, 1, 3>>

App(n, c, t) == [name |-> n, conf |-> c, token |-> t]

SmallDocs == {App(1, "v1", 0), App(3, "v2", 1)}

(* An export of another time with a token, and a file with a bad entry.    *)
SmallFiles == {<<App(2, "v2", 1), App(3, "v1", 0)>>, <<App(3, "v1", 0), App(1, Invalid, 0)>>}

Load(a, s, l, r, ends) ==
  [apps |-> a, session |-> s, link |-> l, registry |-> r,
   polls |-> IF r > 0 THEN 1 ELSE 0, restarts |-> ends]

SmallLoads ==
  {Load(3, 0, 0, 0, 0), Load(2, 0, 0, 0, 1), Load(0, 4, 0, 0, 1), Load(0, 2, 0, 0, 2),
   Load(0, 0, 3, 0, 0), Load(0, 0, 2, 0, 1), Load(0, 0, 0, 3, 0), Load(0, 0, 0, 2, 1),
   Load(1, 1, 0, 0, 0), Load(1, 0, 1, 0, 0)}
=============================================================================
