------------------------------- MODULE MCPull -------------------------------
(***************************************************************************)
(* Instances of Pull for TLC.  Prefix pulls: two objects under one prefix, *)
(* "a" (two parts; it may be replaced by content of the same size, or of   *)
(* one part) and "b" (one part).  Single-file pulls: one object, pulled to *)
(* two paths of one directory.                                             *)
(***************************************************************************)
EXTENDS PullProps

CONSTANTS a1, a2, a3, b1

MCVersions == {a1, a2, a3, b1}
MCPartsOf == [v \in MCVersions |-> IF v \in {a1, a2} THEN 2 ELSE 1]
MCSigned == {a1, a2, b1}

MCNames == {"a", "b"}
MCSelf  == [n \in MCNames |-> n]
MCBoth  == {{"a", "b"}}
MCCalmStock  == [a |-> {a1, a2}, b |-> {b1}]
MCHarshStock == [a |-> {a1, a2, a3}, b |-> {b1}]
MCOneStock   == [a |-> {a1}, b |-> {b1}]
MCForeign == {a2}
MCNone == {}

\* b2x pull w/a dir/x and b2x pull w/a dir/y: the key's base name is the rel.
MCCopies  == {"x", "y"}
MCOneKey  == {"a"}
MCOneKeyOf == [n \in MCCopies |-> "a"]
MCCopyOf  == [n \in MCCopies |-> n]
MCCopyStock == [k \in MCOneKey |-> {a1}]
MCSingles == {{"x"}, {"y"}}
=============================================================================
