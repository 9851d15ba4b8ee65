------------------------------ MODULE JobDelivery ------------------------------
(***************************************************************************)
(* What the worker promises about the jobs on its queue, without slots,    *)
(* processes, stale copies or asynq's counter.  An attempt writes to the   *)
(* row only while it has the job; it declares a job dead only when the     *)
(* budget is used up; the owner is told what the row says at that moment;  *)
(* and a job leaves the queue for good, its row at rest, only after the    *)
(* owner was told, unless two attempts of it were missed: ended by a crash *)
(* or a failed call before they could record anything.                     *)
(***************************************************************************)
EXTENDS Naturals

CONSTANT Jobs

VARIABLES place,         \* queued, with an attempt at work on it, or gone
          status, count, \* the row
          told,          \* outcomes the owner's webhooks were sent
          missed,        \* attempts that ended without a trace in the row
          budget         \* max_retries of the job

record == <<status, count>>
vars   == <<place, status, count, told, missed, budget>>

Init == /\ place = [j \in Jobs |-> "queued"]
        /\ status = [j \in Jobs |-> "pending"]
        /\ count = [j \in Jobs |-> 0]
        /\ told = [j \in Jobs |-> {}]
        /\ missed = [j \in Jobs |-> 0]
        /\ budget \in [Jobs -> Nat \ {0}]

-----------------------------------------------------------------------------
Move(j, from, to) == /\ place[j] = from
                     /\ place' = [place EXCEPT ![j] = to]
                     /\ UNCHANGED <<record, told, missed, budget>>

Attempt(j) == Move(j, "queued", "working")
Return(j)  == Move(j, "working", "queued")
Leave(j)   == (told[j] # {} \/ missed[j] > 1) /\ Move(j, "working", "gone")

Mark(j) == /\ status' = [status EXCEPT ![j] = "processing"]
           /\ UNCHANGED count

Count(j) == /\ status[j] = "processing"
            /\ count[j] + 1 < budget[j]
            /\ count' = [count EXCEPT ![j] = @ + 1]
            /\ UNCHANGED status

Settle(j, s) == /\ status[j] = "processing"
                /\ s = "dead" => count[j] + 1 >= budget[j]
                /\ status' = [status EXCEPT ![j] = s]
                /\ UNCHANGED count

(* A call of an attempt writes to the row, or does not; it is the last thing
   the attempt does when it fails.                                         *)
Write(j) == /\ place[j] = "working"
            /\ \/ Mark(j) \/ Count(j) \/ UNCHANGED record
               \/ \E s \in {"done", "dead", "failed"} : Settle(j, s)
            /\ missed' \in {missed, [missed EXCEPT ![j] = @ + 1]}
            /\ UNCHANGED <<place, told, budget>>

Tell(j) == /\ place[j] = "working"
           /\ status[j] \in {"done", "dead"}
           /\ told' = [told EXCEPT ![j] = @ \cup {status[j]}]
           /\ UNCHANGED <<place, record, missed, budget>>

(* The process dies, with attempts at several jobs. *)
Die == /\ \E js \in SUBSET {j \in Jobs : place[j] = "working"} :
            missed' = [j \in Jobs |-> IF j \in js THEN missed[j] + 1 ELSE missed[j]]
       /\ UNCHANGED <<place, record, told, budget>>

Next == Die \/ \E j \in Jobs : \/ Attempt(j) \/ Return(j) \/ Leave(j)
                               \/ Write(j) \/ Tell(j)

Spec == Init /\ [][Next]_vars
=============================================================================
