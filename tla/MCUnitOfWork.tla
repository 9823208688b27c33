---------------------------- MODULE MCUnitOfWork ----------------------------
(* Two units that share a connection and one on a connection of its own.   *)
EXTENDS UnitOfWork

CONSTANTS u1, u2, u3, c1, c2, w1, w2

MCConnOf == [u \in Units |-> IF u = u3 THEN c2 ELSE c1]
=============================================================================
