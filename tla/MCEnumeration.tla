--------------------------- MODULE MCEnumeration ---------------------------
(* Four assets of three masters: a2 and b2 are siblings. *)
EXTENDS Enumeration, TLC

CONSTANTS m1, m2, m3, a1, a2, b2, a3, x1

MCMasterOf == a1 :> m1 @@ a2 :> m2 @@ b2 :> m2 @@ a3 :> m3

(* Whole families, a gap, an asset before its master, a late sibling, and a   *)
(* half that never meets the other. *)
MCLayouts == {<<{m1, a1}, {m2, a2}, {m3, a3}>>,
              <<{m1, a1}, {}, {m2, a2}>>,
              <<{m2, a2}, {}, {b2}>>,
              <<{a1}, {m2, a2}, {b2}, {m1}>>,
              <<{m2}, {a1}, {a2}, {m3}>>}

Request(l, c, n, x) == [limit |-> l, count |-> c, concurrency |-> n, album |-> x]
MCRequests == {Request(Null, Null, 1, FALSE), Request(Null, 4, 1, TRUE),
               Request(Null, 3, 1, TRUE), Request(2, 3, 1, FALSE), Request(3, 3, 1, FALSE),
               Request(0, Null, 1, FALSE), Request(Null, 0, 2, FALSE),
               Request(Null, 1, 2, FALSE)}
MCFaults == {{"change", "noToken"}, {"error", "drop"}, {"malformed", "panic"}}
=============================================================================
