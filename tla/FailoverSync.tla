---------------------------- MODULE FailoverSync ----------------------------
(***************************************************************************)
(* FAILOVER_SYNC (failover_writer_handler.cc): a counter of failover tasks *)
(* that have not ended, guarded by a mutex.  Every method holds the mutex  *)
(* for its whole body, so each of them is one atomic operation on the      *)
(* counter; a caller that tests is_completed() and then acts does so in    *)
(* two steps, and anything may happen in between.                          *)
(***************************************************************************)
EXTENDS Integers

\* is_completed()
IsCompleted(num_tasks) == num_tasks <= 0

\* increment_task()
IncrementTask(num_tasks) == num_tasks + 1

\* mark_as_complete(true): the caller has a connection, the others may stop.
MarkAsCompleteCancel == 0

\* mark_as_complete(false) throws std::runtime_error when nothing is left to
\* complete ...
MarkAsCompleteThrows(num_tasks) == num_tasks <= 0

\* ... and takes the caller off the counter otherwise.
MarkAsComplete(num_tasks) == num_tasks - 1

\* wait_and_complete(ms): the caller sleeps until nothing is left to complete
\* or its time is over, and then cancels whatever is still running.
WaitEnds(num_tasks, expired) == IsCompleted(num_tasks) \/ expired
WaitAndComplete == 0
=============================================================================
