------------------------ MODULE MCIncrementalDelta ------------------------
(* a1 and b1 are siblings, a2 has a master of its own. *)
EXTENDS IncrementalDelta, TLC

CONSTANTS m1, m2, a1, b1, a2

MCMasterOf == [a \in Assets |-> IF a = a2 THEN m2 ELSE m1]

Setup(config, live, album, legacy, snapshot) ==
    [config |-> config, live |-> live, album |-> album, legacy |-> legacy, snapshot |-> snapshot]

Unfiled == [album |-> FALSE, unfiled |-> TRUE, recent |-> Null, maxClock |-> 5]
Recent == [Unfiled EXCEPT !.recent = 2, !.maxClock = 4]
Album == [album |-> TRUE, unfiled |-> FALSE, recent |-> Null, maxClock |-> 4]
Both == [Album EXCEPT !.unfiled = TRUE]

MCSetups == {Setup(Unfiled, {}, {}, {}, FALSE), Setup(Unfiled, {a1}, {}, {a1}, FALSE),
             Setup(Recent, {}, {}, {}, FALSE),
             Setup(Album, {}, {}, {}, TRUE), Setup(Album, {a1}, {}, {a1}, TRUE),
             Setup(Album, {a1}, {a1}, {}, FALSE), Setup(Both, {a1}, {}, {}, TRUE)}
===========================================================================
