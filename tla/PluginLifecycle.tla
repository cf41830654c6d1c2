-------------------------- MODULE PluginLifecycle --------------------------
(***************************************************************************)
(* What the bootstrap promises about plugins, with no mechanism: plugins  *)
(* are registered under distinct names, then initialised one at a time in *)
(* the order they were registered, each at most once, until all are      *)
(* initialised or the start-up halts for good.                            *)
(***************************************************************************)
EXTENDS Naturals, Sequences

CONSTANT Names      \* plugin names

VARIABLES
    order,    \* the registered plugins, in registration order
    inited,   \* the first `inited' of them are initialised
    status    \* "registering", "running", "ok" or "halted"

vars == <<order, inited, status>>

Registered == {order[i] : i \in DOMAIN order}

Init ==
    /\ order = <<>>
    /\ inited = 0
    /\ status = "registering"

Register(n) ==
    /\ status = "registering"
    /\ n \notin Registered
    /\ order' = Append(order, n)
    /\ UNCHANGED <<inited, status>>

Start ==
    /\ status = "registering"
    /\ status' = "running"
    /\ UNCHANGED <<order, inited>>

InitNext ==
    /\ status = "running"
    /\ inited < Len(order)
    /\ inited' = inited + 1
    /\ UNCHANGED <<order, status>>

Finish ==
    /\ status = "running"
    /\ inited = Len(order)
    /\ status' = "ok"
    /\ UNCHANGED <<order, inited>>

Halt ==
    /\ status \in {"registering", "running"}
    /\ status' = "halted"
    /\ UNCHANGED <<order, inited>>

Next ==
    \/ \E n \in Names : Register(n)
    \/ Start
    \/ InitNext
    \/ Finish
    \/ Halt

Spec == Init /\ [][Next]_vars

=============================================================================
