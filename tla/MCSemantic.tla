---------------------------- MODULE MCSemantic ----------------------------
(***************************************************************************)
(* Four requests: two identical ones, one that means the same as they do,  *)
(* and one that overlaps with the last only.                               *)
(***************************************************************************)
EXTENDS Semantic

CONSTANTS a, b, c, d, f, g, h

MCFp == [r \in Requests |-> IF r \in {a, b} THEN f ELSE IF r = c THEN g ELSE h]
Both(S) == S \cup {<<p[2], p[1]>> : p \in S}
MCNear == Both({<<a, b>>, <<a, c>>, <<b, c>>})
MCOverlap == Both({<<c, d>>})
=============================================================================
