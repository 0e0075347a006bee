----------------------------- MODULE GpuLeasing -----------------------------
(***************************************************************************)
(* What the control plane promises about GPUs, whichever database it runs  *)
(* on and however many replicas it has.  Work is given a lease on one GPU  *)
(* of one worker, may lose it, and may be given another one until it is    *)
(* over.  A commit may end and give several leases at once.                *)
(*                                                                         *)
(*  - two leases never share a GPU;                                        *)
(*  - every lease has an id of its own;                                    *)
(*  - a lease is given and ended, never moved or edited;                   *)
(*  - work that is over is never given a lease again;                      *)
(*  - a GPU that was reserved for an execution stays out of reach of every *)
(*    later lease.                                                         *)
(***************************************************************************)
CONSTANTS Work, Workers, Gpus

VARIABLES
    grant,    \* the lease of each piece of work, NoGrant while it has none
    over,     \* work that has reached a final state
    used,     \* ids of all leases ever given
    reserved  \* <<worker, gpu>> pairs an execution was reserved on

vars == <<grant, over, used, reserved>>

NoGrant == [worker |-> "none", gpu |-> "none", lease |-> 0]

Has(g, x) == g[x] # NoGrant

Init ==
    /\ grant = [x \in Work |-> NoGrant]
    /\ over = {}
    /\ used = {}
    /\ reserved = {}

(* The work that has a lease after this step it did not have before. *)
Given == {x \in Work : Has(grant', x) /\ grant'[x] # grant[x]}

Exclusive(g) ==
    \A x, y \in Work : Has(g, x) /\ Has(g, y) /\ g[x].gpu = g[y].gpu => x = y

(* Leases end, some of them for good, and new ones are given. *)
Round ==
    /\ Exclusive(grant')
    /\ \A x, y \in Given : grant'[x].lease = grant'[y].lease => x = y
    /\ \A x \in Given :
            /\ grant'[x].lease \notin used
            /\ <<grant'[x].worker, grant'[x].gpu>> \notin reserved
    /\ over \subseteq over'
    /\ \A x \in over' : ~Has(grant', x)
    /\ used' = used \cup {grant'[x].lease : x \in Given}
    /\ UNCHANGED reserved

(* The holder of a lease has an execution reserved on its GPU. *)
Reserve(x) ==
    /\ Has(grant, x)
    /\ <<grant[x].worker, grant[x].gpu>> \notin reserved
    /\ reserved' = reserved \cup {<<grant[x].worker, grant[x].gpu>>}
    /\ UNCHANGED <<grant, over, used>>

Next == Round \/ \E x \in Work : Reserve(x)

Spec == Init /\ [][Next]_vars
=============================================================================
