--------------------------- MODULE Subscriptions ---------------------------
(***************************************************************************)
(* crates/ontogen-core/src/events.rs: the registry of live IPC event       *)
(* subscriptions, the tasks it spawns and the frames they forward.         *)
(*                                                                         *)
(* A subscribe command takes a receiver from the event fn, then spawns     *)
(* `forward` under the registry's lock; the task removes its own entry     *)
(* when it ends, and an unsubscribe command aborts it.  Commands and tasks *)
(* run on different threads.  A task that is being aborted goes on to its  *)
(* next await, so it may still send a frame or end by itself.              *)
(*                                                                         *)
(* MaxSubs and MaxSent bound the model.                                    *)
(***************************************************************************)
EXTENDS Broadcast, Sequences

CONSTANTS
  MaxSubs,    \* subscribe commands
  MaxSent     \* items sent on the channel

Subs == 1..MaxSubs     \* the n-th subscription has id n
Nobody == 0

ASSUME SubscriptionsAssumption ==
  MaxSubs \in Nat /\ MaxSent \in Nat

VARIABLES
  sent,      \* items sent so far
  closed,    \* every sender is dropped
  nextId,    \* Subscriptions::next_id
  tasks,     \* Subscriptions::tasks: the ids in the map
  lock,      \* the spawn that holds the registry's lock, or Nobody
  task,      \* id |-> where its forwarding task is
  rx,        \* id |-> its receiver
  since,     \* id |-> the first item sent after it subscribed
  aborting,  \* ids whose task has been aborted and has not stopped yet
  gone,      \* ids whose webview is gone: a send fails
  frames     \* id |-> the frames sent through its channel

vars == <<sent, closed, nextId, tasks, lock, task, rx, since, aborting, gone, frames>>

Init ==
  /\ sent = 0 /\ closed = FALSE
  /\ nextId = 1
  /\ tasks = {} /\ lock = Nobody
  /\ task = [s \in Subs |-> "none"]
  /\ rx = [s \in Subs |-> 0] /\ since = [s \in Subs |-> 0]
  /\ aborting = {} /\ gone = {}
  /\ frames = [s \in Subs |-> <<>>]

(* A task that runs no more.                                               *)
Over == {"stopped", "panicked"}

Move(s, from, to) == task[s] = from /\ task' = [task EXCEPT ![s] = to]

-----------------------------------------------------------------------------
(* The channel and the webview.                                            *)

Send ==
  /\ ~closed /\ sent < MaxSent
  /\ sent' = sent + 1
  /\ UNCHANGED <<closed, nextId, tasks, lock, task, rx, since, aborting, gone, frames>>

Close ==
  /\ ~closed
  /\ closed' = TRUE
  /\ UNCHANGED <<sent, nextId, tasks, lock, task, rx, since, aborting, gone, frames>>

WebviewCloses(s) ==
  /\ s \notin gone /\ task[s] # "none"
  /\ gone' = gone \cup {s}
  /\ UNCHANGED <<sent, closed, nextId, tasks, lock, task, rx, since, aborting, frames>>

-----------------------------------------------------------------------------
(* `{fn}_subscribe`: the receiver, the id, then the spawn.                 *)

Subscribe ==
  /\ nextId <= MaxSubs /\ ~closed
  /\ nextId' = nextId + 1
  /\ Move(nextId, "none", "starting")
  /\ rx' = [rx EXCEPT ![nextId] = Subscribed(sent)]
  /\ since' = [since EXCEPT ![nextId] = Subscribed(sent)]
  /\ UNCHANGED <<sent, closed, tasks, lock, aborting, gone, frames>>

(* The lock is held across the spawn: the task runs before its entry is in *)
(* the map, and cannot take the lock to remove it.                         *)
Spawn(s) ==
  /\ lock = Nobody
  /\ lock' = s
  /\ Move(s, "starting", "forward")
  /\ UNCHANGED <<sent, closed, nextId, tasks, rx, since, aborting, gone, frames>>

Insert(s) ==
  /\ lock = s
  /\ tasks' = tasks \cup {s}
  /\ lock' = Nobody
  /\ UNCHANGED <<sent, closed, nextId, task, rx, since, aborting, gone, frames>>

-----------------------------------------------------------------------------
(* `forward`, then the removal of the task's own entry.                    *)

(* Mutant: a failed send is tried again.                                   *)
ForwardRetries(s) ==
  /\ task[s] = "forward" /\ Ready(rx[s], sent)
  /\ IF s \in gone THEN UNCHANGED <<rx, frames>>
     ELSE LET frame == NextFrame(rx[s], sent) IN
            /\ rx' = [rx EXCEPT ![s] = frame.last + 1]
            /\ frames' = [frames EXCEPT ![s] = Append(@, frame)]
  /\ UNCHANGED <<sent, closed, nextId, tasks, lock, task, since, aborting, gone>>

Forward(s) ==
  /\ task[s] = "forward" /\ Ready(rx[s], sent)
  /\ LET frame == NextFrame(rx[s], sent) IN
       /\ rx' = [rx EXCEPT ![s] = frame.last + 1]
       /\ IF s \in gone
          THEN Move(s, "forward", "ended") /\ UNCHANGED frames
          ELSE /\ frames' = [frames EXCEPT ![s] = Append(@, frame)]
               /\ UNCHANGED task
  /\ UNCHANGED <<sent, closed, nextId, tasks, lock, since, aborting, gone>>

(* Mutant: the end of the channel is waited out like an empty one.         *)
SendersClosedMissed(s) ==
  /\ closed /\ ~Ready(rx[s], sent)
  /\ task[s] = "forward"
  /\ UNCHANGED vars

SendersClosed(s) ==
  /\ closed /\ ~Ready(rx[s], sent)
  /\ Move(s, "forward", "ended")
  /\ UNCHANGED <<sent, closed, nextId, tasks, lock, rx, since, aborting, gone, frames>>

(* Mutant: the spawn locks only to insert, so the task can come first.     *)
RemoveSelfEarly(s) ==
  /\ Move(s, "ended", "stopped")
  /\ tasks' = tasks \ {s}
  /\ aborting' = aborting \ {s}
  /\ UNCHANGED <<sent, closed, nextId, lock, rx, since, gone, frames>>

RemoveSelf(s) ==
  /\ lock = Nobody
  /\ Move(s, "ended", "stopped")
  /\ tasks' = tasks \ {s}
  /\ aborting' = aborting \ {s}
  /\ UNCHANGED <<sent, closed, nextId, lock, rx, since, gone, frames>>

(* An item's Clone, its event_id or the send panics.  tokio catches it;    *)
(* what follows `task.await` is never run.                                 *)
Panic(s) ==
  /\ Ready(rx[s], sent)
  /\ Move(s, "forward", "panicked")
  /\ aborting' = aborting \ {s}
  /\ UNCHANGED <<sent, closed, nextId, tasks, lock, rx, since, gone, frames>>

-----------------------------------------------------------------------------
(* `{fn}_unsubscribe`: `cancel` removes the entry and aborts the task.     *)

Cancel(s) ==
  /\ lock = Nobody
  /\ s \in tasks
  /\ tasks' = tasks \ {s}
  /\ aborting' = IF task[s] = "panicked" THEN aborting ELSE aborting \cup {s}
  /\ UNCHANGED <<sent, closed, nextId, lock, task, rx, since, gone, frames>>

(* The aborted task reaches an await.                                      *)
Aborted(s) ==
  /\ s \in aborting
  /\ Move(s, "forward", "stopped")
  /\ aborting' = aborting \ {s}
  /\ UNCHANGED <<sent, closed, nextId, tasks, lock, rx, since, gone, frames>>

Quiesce ==
  /\ closed
  /\ \A s \in Subs : task[s] \in {"none"} \cup Over
  /\ UNCHANGED vars

Task(s) == Forward(s) \/ SendersClosed(s) \/ RemoveSelf(s) \/ Aborted(s)

Next ==
  \/ Send \/ Close \/ Subscribe
  \/ \E s \in Subs : \/ Spawn(s) \/ Insert(s) \/ Task(s) \/ Panic(s)
                     \/ Cancel(s) \/ WebviewCloses(s)
  \/ Quiesce

Spec == Init /\ [][Next]_vars

(* The runtime polls every task that can go on, and every command returns. *)
FairSpec ==
  /\ Spec
  /\ \A s \in Subs : WF_vars(Spawn(s)) /\ WF_vars(Insert(s)) /\ WF_vars(Task(s))

-----------------------------------------------------------------------------
(* Properties.                                                             *)

(* Every variable has its type.                                            *)
TypeOK ==
  /\ sent \in 0..MaxSent /\ closed \in BOOLEAN
  /\ nextId \in 1..MaxSubs + 1
  /\ tasks \subseteq Subs /\ lock \in Subs \cup {Nobody}
  /\ task \in [Subs -> {"none", "starting", "forward", "ended"} \cup Over]
  /\ rx \in [Subs -> 0..MaxSent + 1] /\ since \in [Subs -> 0..MaxSent + 1]
  /\ aborting \subseteq Subs /\ gone \subseteq Subs
  /\ frames \in [Subs -> Seq(Frame)]

(* `is_live`: between two spawns the map holds the subscriptions whose     *)
(* task runs and has not been cancelled, and no other but a panicked one.  *)
(* A task that ends at once leaves no entry behind, and a late removal     *)
(* removes no other's.                                                     *)
LiveIffRunning ==
  lock = Nobody =>
    {s \in tasks : task[s] # "panicked"}
      = {s \in Subs : task[s] \in {"forward", "ended"} /\ s \notin aborting}

(* "Each task removes itself when it ends."                                *)
EndedIsRemoved == \A s \in Subs : task[s] \in Over => s \notin tasks

(* "An explicit Lag instead of a silent drop": the frames a subscriber was *)
(* sent cover, in order and without a gap, everything since it subscribed. *)
NothingSkippedSilently ==
  \A s \in Subs :
    LET fs == frames[s] IN
      /\ \A n \in 1..Len(fs) :
           fs[n].first = IF n = 1 THEN since[s] ELSE fs[n - 1].last + 1
      /\ task[s] = "forward" =>
           rx[s] = IF fs = <<>> THEN since[s] ELSE fs[Len(fs)].last + 1

(* A task ends once it is cancelled or the senders are gone, whether or    *)
(* not its webview, its items and the other tasks behave.                  *)
SubscriptionsEnd ==
  \A s \in Subs : (task[s] # "none" /\ (closed \/ s \in aborting)) ~> task[s] \in Over

(* Every item is sent to every running subscriber, or reported dropped.    *)
EveryItemReported ==
  \A s \in Subs, i \in 1..MaxSent :
    (task[s] = "forward" /\ i \in since[s]..sent) ~> (rx[s] > i \/ task[s] \in Over)
=============================================================================
