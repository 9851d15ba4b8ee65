---------------------------- MODULE MCJobWorker ------------------------------
(* A small world for JobWorker: one job, two slots, and a job of every kind
   whose handlers differ.                                                  *)
EXTENDS JobWorker, TLC

CONSTANTS j1, t1, w1, w2

OneJob   == {j1}
OneTask  == {t1}
TwoSlots == {w1, w2}
JobOf1   == t1 :> j1
First1   == j1 :> t1

Work(type, bad, max, later) ==
  [type |-> type, bad |-> bad, max |-> max, key |-> NoKey, later |-> later]

(* A receiver that may refuse (budgets of one, two and, clamped, three
   attempts), a payload that never decodes, and a type that cannot fail.   *)
AnyWork == {Work("webhook", FALSE, n, FALSE) : n \in 0 .. 2}
           \cup {Work("email", TRUE, 2, FALSE), Work("sms", TRUE, 1, TRUE)}
=============================================================================
