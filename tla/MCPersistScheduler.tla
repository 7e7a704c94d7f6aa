------------------------- MODULE MCPersistScheduler -------------------------
(* The scheduler with two concurrent flush() calls.  Two save identities   *)
(* would allow a second concurrent save, three continuations allow a       *)
(* cancelled one, a current one and one more to be outstanding together.   *)
EXTENDS PersistScheduler

CONSTANTS s1, s2, c1, c2, c3, f1, f2

MCSaves == {s1, s2}
MCContinuations == {c1, c2, c3}
MCFlushers == {f1, f2}
=============================================================================
