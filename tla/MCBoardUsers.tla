---------------------------- MODULE MCBoardUsers ----------------------------
(* Tabs for TLC: t1 and t2 of two users at one address, t3 another tab in the *)
(* browser of t1, elsewhere.                                                  *)
EXTENDS BoardUsers

CONSTANTS t1, t2, t3, s1, s2, i1, i2, n1, n2

Secrets   == [t \in Tab |-> IF t = t2 THEN s2 ELSE s1]
Addresses == [t \in Tab |-> IF t = t3 THEN i2 ELSE i1]
Conns     == [t \in Tab |-> IF t = t1 THEN 2 ELSE 1]
Opened    == [t \in Tab |-> IF t = t1 THEN n1 ELSE None]
=============================================================================
