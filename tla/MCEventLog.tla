----------------------------- MODULE MCEventLog -----------------------------
(***************************************************************************)
(* EventLog for TLC: a plain event, a batch of two that starts with a      *)
(* contested entry, a batch that repeats a key, and an event whose         *)
(* precondition is that another is not recorded yet (handoff.self_register *)
(* against handoff.cancel).                                                *)
(***************************************************************************)
EXTENDS EventLog

E(k) == [key |-> k]
MCEvent == {E("launch"), E("cancel"), E("own")}
MCRequest == { <<E("launch")>>, <<E("cancel")>>, <<E("cancel"), E("own")>>,
               <<E("own"), E("own")>> }

MCAdmits(b, l) == b = <<E("launch")>> => "cancel" \notin Keys(l)
=============================================================================
