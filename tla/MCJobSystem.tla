----------------------------- MODULE MCJobSystem -----------------------------
(* Small worlds for JobSystem: who asks for what, about which jobs. *)
EXTENDS JobSystem, TLC

CONSTANTS j1, j2, j3, t1, t2, t3, r1, r2, w1, w2, c1, c2, c3, k

OneJob    == {j1}
ThreeJobs == {j1, j2, j3}
OneSlot   == {w1}
TwoSlots  == {w1, w2}
TwoUsers  == {c1, c2}
Users     == {c1, c2, c3}

(* Three clients enqueue under the same key. *)
KeyTasks == {t1, t2, t3}
KeyJobOf == t1 :> j1 @@ t2 :> j2 @@ t3 :> j3
KeyFirst == j1 :> t1 @@ j2 :> t2 @@ j3 :> t3
KeyNewId == c1 :> j1 @@ c2 :> j2 @@ c3 :> j3
KeyOps   == [c \in Users |-> {"enqueue"}]

(* One client enqueues a job, one or two others cancel it. *)
OneTask   == {t1}
OneJobOf  == t1 :> j1
OneFirst  == j1 :> t1
OneNewId  == [c \in Users |-> j1]
CancelOps == c1 :> {"enqueue"} @@ c2 :> {"cancel"} @@ c3 :> {"cancel"}
PairNewId == [c \in TwoUsers |-> j1]
PairOps   == c1 :> {"enqueue"} @@ c2 :> {"cancel"}

(* One client enqueues a job, two administrators retry it. *)
RetryTaskIds == {t1, r1, r2}
RetryJobOf   == [t \in RetryTaskIds |-> j1]
RetryOps     == c1 :> {"enqueue"} @@ c2 :> {"retry"} @@ c3 :> {"retry"}

Ask(type, bad, max, key, later) ==
  [type |-> type, bad |-> bad, max |-> max, key |-> key, later |-> later]

Keyed == {Ask("webhook", FALSE, 1, k, FALSE)}
Timed == {Ask("webhook", FALSE, 2, NoKey, b) : b \in BOOLEAN}
Plain == {Ask("webhook", FALSE, 2, NoKey, FALSE)}
=============================================================================
