---------------------------- MODULE ThreadWorker ----------------------------
(***************************************************************************)
(* A ThreadWorker: one thread that takes tasks from a FIFO under a mutex   *)
(* and a condition variable, the threads that add tasks, and the thread    *)
(* that destroys it when no one will add any more.                         *)
(***************************************************************************)
EXTENDS Integers, Sequences

CONSTANTS
  Callers,    (* The threads that call AddTask.                   *)
  Free,       (* The owner of a mutex that nobody holds.          *)
  MaxTasks    (* Bound: the tasks all callers add.                *)

Worker == "worker"
Owner == "owner"

ASSUME ThreadWorkerAssumption ==
  /\ MaxTasks \in Nat
  /\ Worker \notin Callers /\ Owner \notin Callers
  /\ Free \notin Callers \cup {Worker, Owner}

VARIABLES
  mutex,       (* Who holds mFifoMutex.                                             *)
  fifo,        (* mTaskFifo; tasks are numbered in the order they are added.        *)
  destroying,  (* mDestroing                                                        *)
  pc,          (* Where each thread is.  A caller: "idle" or "add" (the mutex       *)
               (* taken).  The worker: "lock", "check", "wait" (in mFifoCV.wait),   *)
               (* "relock" (notified), "run", "done".  The owner: "idle", "notify"  *)
               (* (the mutex taken), "join", "joined".                              *)
  added,       (* How many tasks have been added.                                   *)
  ran          (* History: the tasks whose Finish was called, in order.             *)

vars == <<mutex, fifo, destroying, pc, added, ran>>

Init ==
  /\ mutex = Free
  /\ fifo = << >>
  /\ destroying = FALSE
  /\ pc = [t \in Callers \cup {Worker, Owner} |-> IF t = Worker THEN "lock" ELSE "idle"]
  /\ added = 0
  /\ ran = << >>

Goto(t, l) == pc' = [pc EXCEPT ![t] = l]

(* notify_all: the thread waiting on mFifoCV, if it waits, goes on to *)
(* lock the mutex again, when t goes on to l.                         *)
NotifyAll(t, l) ==
  pc' = [pc EXCEPT ![t] = l,
                   ![Worker] = IF pc[Worker] = "wait" THEN "relock" ELSE @]

-----------------------------------------------------------------------------
(* AddTask *)

AddLock(c) ==
  /\ pc[c] = "idle" /\ pc[Owner] = "idle"
  /\ added < MaxTasks
  /\ mutex = Free
  /\ mutex' = c
  /\ Goto(c, "add")
  /\ UNCHANGED <<fifo, destroying, added, ran>>

(* Mutant: the task is put in front. *)
AddTaskInFront(c) ==
  /\ pc[c] = "add"
  /\ added' = added + 1
  /\ fifo' = <<added'>> \o fifo
  /\ NotifyAll(c, "idle")
  /\ mutex' = Free
  /\ UNCHANGED <<destroying, ran>>

(* Mutant: notify_all is forgotten. *)
AddTaskSilently(c) ==
  /\ pc[c] = "add"
  /\ added' = added + 1
  /\ fifo' = Append(fifo, added')
  /\ Goto(c, "idle")
  /\ mutex' = Free
  /\ UNCHANGED <<destroying, ran>>

AddTask(c) ==
  /\ pc[c] = "add"
  /\ added' = added + 1
  /\ fifo' = Append(fifo, added')
  /\ NotifyAll(c, "idle")
  /\ mutex' = Free
  /\ UNCHANGED <<destroying, ran>>

-----------------------------------------------------------------------------
(* FinishTasks *)

WorkerLock ==
  /\ pc[Worker] \in {"lock", "relock"}
  /\ mutex = Free
  /\ mutex' = Worker
  /\ Goto(Worker, "check")
  /\ UNCHANGED <<fifo, destroying, added, ran>>

(* Mutant: the worker waits without looking whether there is a task. *)
WorkerWaitsFirst ==
  /\ pc[Worker] = "check"
  /\ mutex' = Free
  /\ IF ~destroying /\ (fifo = << >> \/ ran = << >>)
       THEN Goto(Worker, "wait") /\ UNCHANGED <<fifo, ran>>
       ELSE IF destroying
         THEN Goto(Worker, "done") /\ UNCHANGED <<fifo, ran>>
         ELSE ran' = Append(ran, Head(fifo)) /\ fifo' = Tail(fifo) /\ Goto(Worker, "run")
  /\ UNCHANGED <<destroying, added>>

(* With the mutex held: wait for a task, leave the loop, or take the front *)
(* task.  wait(lock) lets the mutex go and starts to wait in one step.     *)
WorkerCheck ==
  /\ pc[Worker] = "check"
  /\ mutex' = Free
  /\ IF fifo = << >> /\ ~destroying
       THEN Goto(Worker, "wait") /\ UNCHANGED <<fifo, ran>>
       ELSE IF destroying
         THEN Goto(Worker, "done") /\ UNCHANGED <<fifo, ran>>
         ELSE /\ ran' = Append(ran, Head(fifo))
              /\ fifo' = Tail(fifo)
              /\ Goto(Worker, "run")
  /\ UNCHANGED <<destroying, added>>

(* A wait may end without a notification. *)
SpuriousWake ==
  /\ pc[Worker] = "wait"
  /\ Goto(Worker, "relock")
  /\ UNCHANGED <<mutex, fifo, destroying, added, ran>>

(* task->Finish() returns. *)
WorkerFinish ==
  /\ pc[Worker] = "run"
  /\ Goto(Worker, "lock")
  /\ UNCHANGED <<mutex, fifo, destroying, added, ran>>

-----------------------------------------------------------------------------
(* ~ThreadWorker, called once no caller will be inside AddTask. *)

DestroyLock ==
  /\ pc[Owner] = "idle"
  /\ \A c \in Callers : pc[c] = "idle"
  /\ mutex = Free
  /\ mutex' = Owner
  /\ Goto(Owner, "notify")
  /\ UNCHANGED <<fifo, destroying, added, ran>>

(* Mutant: the mutex is let go before join. *)
DestroyUnlocked ==
  /\ pc[Owner] = "notify" \/ (pc[Owner] = "join" /\ pc[Worker] = "done")
  /\ IF pc[Owner] = "notify"
       THEN destroying' = TRUE /\ NotifyAll(Owner, "join") /\ mutex' = Free
       ELSE Goto(Owner, "joined") /\ UNCHANGED <<mutex, destroying>>
  /\ UNCHANGED <<fifo, added, ran>>

(* mDestroing, notify_all, then mTaskThread.join(): the mutex stays taken, *)
(* its lock is released when the destructor returns.                       *)
DestroyRest ==
  /\ pc[Owner] = "notify" \/ (pc[Owner] = "join" /\ pc[Worker] = "done")
  /\ IF pc[Owner] = "notify"
       THEN /\ destroying' = TRUE
            /\ NotifyAll(Owner, "join")
            /\ UNCHANGED mutex
       ELSE /\ Goto(Owner, "joined")
            /\ mutex' = Free
            /\ UNCHANGED destroying
  /\ UNCHANGED <<fifo, added, ran>>

WorkerNext ==
  \/ WorkerLock
  \/ WorkerCheck
  \/ SpuriousWake
  \/ WorkerFinish

Next ==
  \/ \E c \in Callers : AddLock(c)
  \/ \E c \in Callers : AddTask(c)
  \/ WorkerNext
  \/ DestroyLock
  \/ DestroyRest

Spec == Init /\ [][Next]_vars

(* The threads run, a task returns, and a thread that waits for a mutex    *)
(* that comes free again and again gets it.  No wait has to end without a  *)
(* notification.                                                           *)
Fairness ==
  /\ SF_vars(WorkerLock) /\ WF_vars(WorkerCheck) /\ WF_vars(WorkerFinish)
  /\ \A c \in Callers : WF_vars(AddTask(c))
  /\ WF_vars(DestroyRest)

FairSpec == Spec /\ Fairness

-----------------------------------------------------------------------------

Threads == Callers \cup {Worker, Owner}

TypeOK ==
  /\ mutex \in Threads \cup {Free}
  /\ fifo \in Seq(1 .. MaxTasks)
  /\ destroying \in BOOLEAN
  /\ \A c \in Callers : pc[c] \in {"idle", "add"}
  /\ pc[Worker] \in {"lock", "check", "wait", "relock", "run", "done"}
  /\ pc[Owner] \in {"idle", "notify", "join", "joined"}
  /\ added \in 0 .. MaxTasks
  /\ ran \in Seq(1 .. MaxTasks)

(* Every task added was run once, in the order the tasks were added, or    *)
(* waits in the FIFO: none is lost or run twice, whichever threads add.    *)
ExactlyOnceInOrder == ran \o fifo = [i \in 1 .. added |-> i]

(* The worker never waits on mFifoCV while there is a task, so that no     *)
(* notification is missed between its look at the FIFO and its wait.       *)
NoLostWakeup == pc[Worker] = "wait" => fifo = << >>

(* The types, and the wait of the worker. *)
Inv == TypeOK /\ NoLostWakeup

(* A task that was added is run, unless the destructor is called.          *)
TaskIsRun ==
  \A n \in 1 .. MaxTasks :
    (added >= n) ~> ((\E i \in 1 .. Len(ran) : ran[i] = n) \/ pc[Owner] # "idle")

(* The destructor joins while its lock holds the mutex the worker needs to *)
(* see mDestroing (ThreadWorker.cpp:27-30), so that neither goes on: join  *)
(* never returns.                                                          *)
JoinNeverReturns == pc[Owner] # "joined"

=============================================================================
