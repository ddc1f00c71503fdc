----------------------------- MODULE CallQueue -----------------------------
(***************************************************************************)
(* What a client of the RPC framework may rely on (RPCFramework/rpc.h):    *)
(* its calls are executed in the order it made them, each at most once,    *)
(* and answered in that order, each with its own answer.  The first call   *)
(* of a function that is not exported is the last that is looked at.  Once *)
(* calls have failed none succeeds any more, but a call that failed may    *)
(* have been executed.                                                     *)
(***************************************************************************)
EXTENDS Integers, Sequences

CONSTANT Functions

VARIABLES
  made,      \* the function of every call made
  executed,  \* how many of them were executed
  results,   \* the result of each: Unset, Failed, or the number of the call it answers
  failed     \* calls have failed

vars == <<made, executed, results, failed>>

Unset == 0
Failed == -1

Make(f) ==
  /\ made' = Append(made, f)
  /\ results' = Append(results, Unset)
  /\ UNCHANGED <<executed, failed>>

Execute ==
  /\ executed < Len(made)
  /\ made[executed + 1].exported
  /\ executed' = executed + 1
  /\ UNCHANGED <<made, results, failed>>

\* The oldest call without a result gets the answer to it.
Answer(i) ==
  /\ ~failed
  /\ i <= executed
  /\ results[i] = Unset
  /\ \A j \in 1..(i - 1) : results[j] # Unset
  /\ results' = [results EXCEPT ![i] = i]
  /\ UNCHANGED <<made, executed, failed>>

\* Every call without a result fails.
GiveUp ==
  /\ failed' = TRUE
  /\ results' = [i \in DOMAIN results |-> IF results[i] = Unset THEN Failed ELSE results[i]]
  /\ UNCHANGED <<made, executed>>

Init == made = <<>> /\ executed = 0 /\ results = <<>> /\ failed = FALSE

Next ==
  \/ \E f \in Functions : Make(f)
  \/ Execute
  \/ \E i \in DOMAIN results : Answer(i)
  \/ GiveUp

Spec == Init /\ [][Next]_vars

=============================================================================
