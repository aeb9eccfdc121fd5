---------------------------- MODULE MCCheckKinds ----------------------------
(* One test at a time, each in turn: the requests differ in kind and share *)
(* no files, so nothing is lost by leaving their product out.              *)
EXTENDS MCCheckCache

VARIABLE subject

OneInit ==
  /\ subject \in Req
  /\ \E thing \in Things(subject) :
       tool = [r \in Req |-> IF r = subject THEN thing ELSE "absent"]
  /\ Init

OneNext ==
  /\ Next
  /\ \A p \in Procs : pc'[p] # "idle" => req'[p] = subject
  /\ \A r \in Req \ {subject} : tool'[r] = tool[r]
  /\ UNCHANGED subject

OneSpec == OneInit /\ [][OneNext]_<<vars, subject>>
=============================================================================
