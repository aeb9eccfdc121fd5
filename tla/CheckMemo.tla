----------------------------- MODULE CheckMemo ------------------------------
(***************************************************************************)
(* What the feature tests promise to the makefiles that call them: an      *)
(* answer is worked out once, is the truth at that time, and is repeated   *)
(* until the entry is deleted. With MKC_NOCACHE=1 it is worked out anew    *)
(* and not remembered.                                                     *)
(***************************************************************************)
EXTENDS CheckTests

CONSTANTS Procs, NoCacheValues, None

VARIABLES memo,     \* cache file |-> the remembered answer, or None
          world,    \* request |-> what the toolchain has to say about it
          client    \* process |-> the state of its conversation

memoVars == <<memo, world, client>>

Files == Keys \X NoCacheValues
Idle == <<"idle">>

Init ==
  /\ memo = [f \in Files |-> None]
  /\ world \in [Req -> UNION {Things(r) : r \in Req}]
  /\ \A r \in Req : world[r] \in Things(r)
  /\ client = [p \in Procs |-> Idle]

Ask(p, r, v) ==
  /\ client[p] = Idle
  /\ client' = [client EXCEPT ![p] = <<"asked", r, v>>]
  /\ UNCHANGED <<memo, world>>

Recall(p, r, v) ==
  /\ client[p] = <<"asked", r, v>>
  /\ v # "1" /\ memo[<<KeyOf[r], v>>] # None
  /\ client' = [client EXCEPT ![p] = <<"told", r, v, memo[<<KeyOf[r], v>>]>>]
  /\ UNCHANGED <<memo, world>>

WorkOut(p, r, v) ==
  /\ client[p] = <<"asked", r, v>>
  /\ v = "1" \/ memo[<<KeyOf[r], v>>] = None
  /\ client' = [client EXCEPT ![p] = <<"told", r, v, Answer(r, world[r])>>]
  /\ memo' = IF v = "1" THEN memo
             ELSE [memo EXCEPT ![<<KeyOf[r], v>>] = Answer(r, world[r])]
  /\ UNCHANGED world

Leave(p) ==
  /\ client[p] # Idle
  /\ client' = [client EXCEPT ![p] = Idle]
  /\ UNCHANGED <<memo, world>>

Forget(f) ==
  /\ memo' = [memo EXCEPT ![f] = None]
  /\ UNCHANGED <<world, client>>

Change(r, thing) ==
  /\ \A p \in Procs : client[p][1] # "asked"
  /\ world' = [world EXCEPT ![r] = thing]
  /\ UNCHANGED <<memo, client>>

Next ==
  \/ \E p \in Procs, r \in Req, v \in NoCacheValues :
       Ask(p, r, v) \/ Recall(p, r, v) \/ WorkOut(p, r, v)
  \/ \E p \in Procs : Leave(p)
  \/ \E f \in Files : Forget(f)
  \/ \E r \in Req : \E thing \in Things(r) : Change(r, thing)

Spec == Init /\ [][Next]_memoVars
=============================================================================
