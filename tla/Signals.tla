------------------------------ MODULE Signals -------------------------------
(***************************************************************************)
(* raise_default_signal (features/raise_default_signal), called by a       *)
(* program or by one of its signal handlers, while signals arrive from     *)
(* outside. The kernel: a mask, handlers, and signals that are pending,    *)
(* any number of the same signal as one.                                   *)
(***************************************************************************)
EXTENDS Integers, Sequences

CONSTANTS
  Sigs,
  Fatal,        \* signals whose default is to end the process; that of the others
                \* is to stop it until somebody continues it
  MaxDepth,     \* calls and handlers that have begun and not ended
  MaxArrivals   \* signals from outside

ASSUME FatalAssumption == Fatal \subseteq Sigs

VARIABLES
  handler,      \* of each signal: "SIG_DFL" or "own"
  mask, pending,
  stack,        \* what the process is in: calls of raise_default_signal, handlers
  alive,
  arrivals

signalVars == <<handler, mask, pending, stack, alive, arrivals>>

(* A call of the function. origmask and origact are its variables; dfl     *)
(* says that the default has been run for sig since it began, the mask and *)
(* the handler it found are in found.                                      *)
Call(sig) ==
  [is |-> "raise", sig |-> sig, pc |-> "block", origmask |-> {}, origact |-> "SIG_DFL",
   retval |-> -1, dfl |-> FALSE, found |-> [mask |-> mask, act |-> handler[sig]]]

Handler(sig) == [Call(sig) EXCEPT !.is = "handler", !.pc = "run"]

Top == stack[Len(stack)]
Popped == SubSeq(stack, 1, Len(stack) - 1)
Within(pc) == stack # <<>> /\ Top.is = "raise" /\ Top.pc = pc
Goto(frame) == stack' = [stack EXCEPT ![Len(stack)] = frame]
Ready == alive /\ UNCHANGED arrivals

SignalInit ==
  /\ handler \in [Sigs -> {"SIG_DFL", "own"}]
  /\ mask \in SUBSET Sigs /\ pending = {}
  /\ stack = <<>> /\ alive = TRUE /\ arrivals = 0

(* From outside, at any time.                                              *)
Arrive(s) ==
  /\ alive /\ arrivals < MaxArrivals
  /\ arrivals' = arrivals + 1
  /\ pending' = pending \cup {s}
  /\ UNCHANGED <<handler, mask, stack, alive>>

(* The kernel delivers a signal that is pending and not blocked: the       *)
(* handler runs with the signal blocked, or the default is done.           *)
Deliver(s) ==
  /\ Ready /\ s \in pending \ mask
  /\ pending' = pending \ {s}
  /\ IF handler[s] = "own"
     THEN /\ Len(stack) < MaxDepth
          /\ stack' = Append(stack, Handler(s)) /\ mask' = mask \cup {s}
          /\ UNCHANGED alive
     ELSE /\ stack' = [i \in DOMAIN stack |-> [stack[i] EXCEPT !.dfl = @ \/ stack[i].sig = s]]
          /\ alive' = (s \notin Fatal)
          /\ UNCHANGED mask
  /\ UNCHANGED handler

(* The function is called by the program, or by the handler of the signal. *)
CallRaise(sig) ==
  /\ Ready /\ Len(stack) < MaxDepth
  /\ \/ stack = <<>>
     \/ stack # <<>> /\ Top.is = "handler" /\ Top.sig = sig /\ Top.pc = "run"
  /\ stack' = Append(IF stack = <<>> THEN stack ELSE [stack EXCEPT ![Len(stack)].pc = "called"],
                     Call(sig))
  /\ UNCHANGED <<handler, mask, pending, alive>>

HandlerReturns ==
  /\ Ready /\ stack # <<>> /\ Top.is = "handler"
  /\ stack' = Popped /\ mask' = Top.found.mask
  /\ UNCHANGED <<handler, pending, alive>>
-----------------------------------------------------------------------------
(* The steps of the function; each of its calls may fail.                  *)
Block ==
  /\ Ready /\ Within("block")
  /\ \/ mask' = Sigs /\ Goto([Top EXCEPT !.pc = "default", !.origmask = mask])
     \/ UNCHANGED mask /\ Goto([Top EXCEPT !.pc = "return"])
  /\ UNCHANGED <<handler, pending, alive>>

Default ==
  /\ Ready /\ Within("default")
  /\ \/ /\ handler' = [handler EXCEPT ![Top.sig] = "SIG_DFL"]
        /\ Goto([Top EXCEPT !.pc = "raise", !.origact = handler[Top.sig]])
     \/ UNCHANGED handler /\ Goto([Top EXCEPT !.pc = "setmask"])
  /\ UNCHANGED <<mask, pending, alive>>

Raise ==
  /\ Ready /\ Within("raise")
  /\ \/ pending' = pending \cup {Top.sig} /\ Goto([Top EXCEPT !.pc = "unblock"])
     \/ UNCHANGED pending /\ Goto([Top EXCEPT !.pc = "restore"])
  /\ UNCHANGED <<handler, mask, alive>>

(* Mutant: the signal stays blocked.                                       *)
UnblockNothing ==
  /\ Ready /\ Within("unblock")
  /\ Goto([Top EXCEPT !.pc = "restore", !.retval = 0])
  /\ UNCHANGED <<handler, mask, pending, alive>>

Unblock ==
  /\ Ready /\ Within("unblock")
  /\ \/ mask' = mask \ {Top.sig} /\ Goto([Top EXCEPT !.pc = "unblocked"])
     \/ UNCHANGED mask /\ Goto([Top EXCEPT !.pc = "restore"])
  /\ UNCHANGED <<handler, pending, alive>>

(* sigprocmask does not return before a signal it has unblocked has been   *)
(* delivered.                                                              *)
Unblocked ==
  /\ Ready /\ Within("unblocked") /\ pending \subseteq mask
  /\ Goto([Top EXCEPT !.pc = "restore", !.retval = 0])
  /\ UNCHANGED <<handler, mask, pending, alive>>

RestoreAct ==
  /\ Ready /\ Within("restore")
  /\ handler' = [handler EXCEPT ![Top.sig] = Top.origact]
  /\ Goto([Top EXCEPT !.pc = "setmask"])
  /\ UNCHANGED <<mask, pending, alive>>

RestoreMask ==
  /\ Ready /\ Within("setmask")
  /\ mask' = Top.origmask
  /\ Goto([Top EXCEPT !.pc = "return"])
  /\ UNCHANGED <<handler, pending, alive>>

Return ==
  /\ Ready /\ Within("return")
  /\ stack' = Popped
  /\ UNCHANGED <<handler, mask, pending, alive>>

SignalNext ==
  \/ \E s \in Sigs : Arrive(s) \/ Deliver(s) \/ CallRaise(s)
  \/ HandlerReturns
  \/ Block \/ Default \/ Raise \/ Unblock \/ Unblocked \/ RestoreAct \/ RestoreMask \/ Return

SignalSpec == SignalInit /\ [][SignalNext]_signalVars
-----------------------------------------------------------------------------
(* A call between its first and its last sigprocmask.                      *)
Inside(f) ==
  f.is = "raise" /\ f.pc \in {"default", "raise", "unblock", "unblocked", "restore", "setmask"}

RaisedStep ==
  /\ Return => /\ mask = Top.found.mask /\ handler[Top.sig] = Top.found.act
               /\ Top.retval = 0 => Top.dfl
  /\ \A s \in Sigs : Deliver(s) =>
       \A i \in DOMAIN stack : Inside(stack[i]) =>
         /\ s = stack[i].sig
         /\ stack[i].pc # "setmask" => handler[s] = "SIG_DFL"
         /\ stack[i].pc = "setmask" =>
              /\ stack[i].retval = 0
              /\ i = Len(stack) => handler[s] = stack[i].found.act

(***************************************************************************)
(* raise_default_signal returns with the mask and the handler it found,    *)
(* whether it succeeds or not, and 0 only after the default was done for   *)
(* the signal. From its first sigprocmask to its last nothing is delivered *)
(* but its signal, whatever handlers and further calls run in between: by  *)
(* default until sigaction puts the handler back; from there on, as the    *)
(* signal is still unblocked, to the handler the call found, even if the   *)
(* caller had it blocked, and this only if the call has succeeded.         *)
(***************************************************************************)
DefaultRaised == [][RaisedStep]_signalVars
=============================================================================
