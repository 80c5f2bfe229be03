---------------------------- MODULE MCPutbackJSON ----------------------------
(* Model-checking instance of PutbackJSON: two scalars, null and the arrays *)
(* [] and [s1]; one top-level key whose value may be an object of two keys, *)
(* so that every path is reached by one recursive call of applyChanges.    *)
EXTENDS PutbackJSON

CONSTANTS s1, s2

MCScalars    == {s1, s2}
MCArrayElems == {s1}
MCTopKeys    == {"a"}
MCSubKeys    == {"a", "b"}
=============================================================================
