---------------------------- MODULE JobRepository ----------------------------
(***************************************************************************)
(* The jobs table (internal/repository/postgres/job_repository.go) and the *)
(* entity it stores (internal/domain/entity/jobs.go).  Each operator is    *)
(* one call of the repository: one SQL statement, atomic in Postgres.      *)
(*                                                                         *)
(* A call can fail: Postgres is unreachable, or the context the call was   *)
(* given is cancelled (the HTTP client went away, the worker aborted the   *)
(* task).  A write that fails may have been committed before the answer    *)
(* was lost, so it leaves either the old value or the new one.  At most    *)
(* MaxDbFaults calls fail in a behaviour.                                  *)
(***************************************************************************)
EXTENDS Naturals

CONSTANTS Jobs,          \* job ids
          Keys,          \* idempotency keys
          NoKey,         \* the nil IdempotencyKey
          MaxDbFaults    \* bound: calls of the repository that may fail

ASSUME RepositoryAssumption == /\ NoKey \notin Keys
                               /\ MaxDbFaults \in Nat

VARIABLES status,        \* the status column; "absent" and "deleted" have no row
          retryCount,    \* the retry_count column
          details,       \* the columns no statement updates
          dbFaults       \* calls that may still fail

repoVars == <<status, retryCount, details, dbFaults>>

JobStatus == {"pending", "processing", "done", "failed", "dead", "cancelled"}
JobType   == {"email", "sms", "webhook", "report"}

(* The fields fixed at creation.  bad: the payload does not decode for this
   type; later: scheduled_at is set (the HTTP handler keeps it only when it is
   in the future).                                                          *)
Details == [type: JobType, bad: BOOLEAN, max: Nat \ {0},
            key: Keys \cup {NoKey}, later: BOOLEAN]
Unset   == [type |-> "email", bad |-> FALSE, max |-> 1,
            key |-> NoKey, later |-> FALSE]

(* An id is a fresh UUID: a deleted one never names a row again. *)
HasRow(j) == status[j] \in JobStatus

RepoTypeOK == /\ status \in [Jobs -> JobStatus \cup {"absent", "deleted"}]
              /\ retryCount \in [Jobs -> Nat]
              /\ details \in [Jobs -> Details]
              /\ dbFaults \in 0 .. MaxDbFaults

RepoInit == /\ status = [j \in Jobs |-> "absent"]
            /\ retryCount = [j \in Jobs |-> 0]
            /\ details = [j \in Jobs |-> Unset]
            /\ dbFaults = MaxDbFaults

Fault == dbFaults > 0 /\ dbFaults' = dbFaults - 1

-----------------------------------------------------------------------------
(* GetByID: ErrJobNotFound or a failed SELECT is an error to every caller. *)
GetByID(j)       == HasRow(j) /\ UNCHANGED repoVars
GetByIDFails(j)  == \/ ~HasRow(j) /\ UNCHANGED repoVars
                    \/ Fault /\ UNCHANGED <<status, retryCount, details>>

(* The rows SELECT ... WHERE idempotency_key = k can return. *)
WithKey(k) == {j \in Jobs : HasRow(j) /\ details[j].key = k}

(* Mutant: no unique index. *)
KeyFree_NoIndex(k) == TRUE

(* The unique index on idempotency_key; NULLs never collide. *)
KeyFree(k) == k = NoKey \/ WithKey(k) = {}

(* Mutant: a status literal nothing else knows. *)
Inserted_Queued(j, d) == /\ status' = [status EXCEPT ![j] = "queued"]
                         /\ retryCount' = [retryCount EXCEPT ![j] = 0]
                         /\ details' = [details EXCEPT ![j] = d]

(* The row Create inserts. *)
Inserted(j, d) == /\ status' = [status EXCEPT ![j] = "pending"]
                  /\ retryCount' = [retryCount EXCEPT ![j] = 0]
                  /\ details' = [details EXCEPT ![j] = d]

Create(j, d) == /\ status[j] = "absent"
                /\ KeyFree(d.key)
                /\ Inserted(j, d)
                /\ UNCHANGED dbFaults

(* The INSERT errs for another reason than the index, committed or not. *)
CreateFails(j, d) == /\ status[j] = "absent"
                     /\ Fault
                     /\ \/ KeyFree(d.key) /\ Inserted(j, d)
                        \/ UNCHANGED <<status, retryCount, details>>

(* UPDATE jobs SET status = s WHERE id = j; no row is ErrJobNotFound. *)
UpdateStatus(j, s) == /\ HasRow(j)
                      /\ status' = [status EXCEPT ![j] = s]
                      /\ UNCHANGED <<retryCount, details, dbFaults>>

UpdateStatusFails(j, s) ==
  \/ ~HasRow(j) /\ UNCHANGED repoVars
  \/ Fault /\ UNCHANGED <<status, retryCount, details>>
  \/ Fault /\ HasRow(j) /\ status' = [status EXCEPT ![j] = s]
     /\ UNCHANGED <<retryCount, details>>

(* UPDATE jobs SET retry_count = n WHERE id = j. *)
UpdateRetryCount(j, n) == /\ HasRow(j)
                          /\ retryCount' = [retryCount EXCEPT ![j] = n]
                          /\ UNCHANGED <<status, details, dbFaults>>

UpdateRetryCountFails(j, n) ==
  \/ ~HasRow(j) /\ UNCHANGED repoVars
  \/ Fault /\ UNCHANGED <<status, retryCount, details>>
  \/ Fault /\ HasRow(j) /\ retryCount' = [retryCount EXCEPT ![j] = n]
     /\ UNCHANGED <<status, details>>

(* Delete is a hard delete: the idempotency key is free again. *)
Delete(j) == /\ HasRow(j)
             /\ status' = [status EXCEPT ![j] = "deleted"]
             /\ UNCHANGED <<retryCount, details, dbFaults>>

DeleteFails(j) == UpdateStatusFails(j, "deleted")
=============================================================================
