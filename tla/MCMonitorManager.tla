-------------------------- MODULE MCMonitorManager --------------------------
(***************************************************************************)
(* Small instances of the agent's condition pipeline.  Two monitors share  *)
(* one condition type, as a plugin monitor and the kernel monitor do; one  *)
(* of them debounces its reason, the other also warns under its fatal one. *)
(***************************************************************************)
EXTENDS MonitorManager

CONSTANTS t1, r1, r2, r3, m1, kernel, plugin

Problem(r, n) == [reason |-> r, message |-> IF r = r3 THEN NoMessage ELSE m1,
                  severity |-> "Fatal", min |-> n, resolved |-> FALSE]
Recovery(r)   == [reason |-> r, message |-> NoMessage, severity |-> "Fatal",
                  min |-> 0, resolved |-> TRUE]
Remark(r, s)  == [reason |-> r, message |-> NoMessage, severity |-> s,
                  min |-> 0, resolved |-> FALSE]

MCTypeOf == [m \in Monitors |-> t1]

MCCatalog == [m \in Monitors |->
  IF m = kernel THEN {Problem(r1, 1), Recovery(r1)}
  ELSE {Problem(r2, 0), Recovery(r2), Remark(r2, "Warning")}]

\* A plugin's poll: a problem it never notifies, and a condition without a
\* valid severity beside it.
MCPolls ==
  {<<[monitor |-> plugin, condition |-> Problem(r3, 0)],
     [monitor |-> plugin, condition |-> Remark(r3, "Unset")]>>}
=============================================================================
