--------------------------- MODULE AtomicInstall ----------------------------
(***************************************************************************)
(* What installing promises: each source operand, in turn, replaces its    *)
(* target at once by the finished file; a request may be given up between  *)
(* two of them. Nothing else happens to the targets, and nothing to the    *)
(* sources.                                                                *)
(***************************************************************************)
EXTENDS InstallRequests

CONSTANTS Procs, InitialViews

VARIABLES view,       \* path |-> the file somebody who opens it reads
          pending     \* process |-> its request and the sources to come

Nothing == <<"nothing">>

Init ==
  /\ view \in InitialViews
  /\ pending = [p \in Procs |-> Nothing]

Ask(p, r) ==
  /\ pending[p] = Nothing
  /\ pending' = [pending EXCEPT ![p] = <<r, r.srcs>>]
  /\ UNCHANGED view

Put(p) ==
  LET r == pending[p][1]  rest == pending[p][2] IN
  /\ pending[p] # Nothing /\ rest # <<>>
  /\ view' = [view EXCEPT ![Target(r, Head(rest))] = Finished(r, Head(rest))]
  /\ pending' = [pending EXCEPT ![p] = <<r, Tail(rest)>>]

Leave(p) ==
  /\ pending[p] # Nothing
  /\ pending' = [pending EXCEPT ![p] = Nothing]
  /\ UNCHANGED view

Next ==
  \E p \in Procs : Put(p) \/ Leave(p) \/ \E r \in Requests : Ask(p, r)

Spec == Init /\ [][Next]_<<view, pending>>
=============================================================================
