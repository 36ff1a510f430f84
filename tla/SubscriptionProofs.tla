------------------------- MODULE SubscriptionProofs -------------------------
(***************************************************************************)
(* Theorems about Subscriptions, for any number of subscriptions and items *)
(* and any capacity of the channel.                                        *)
(*                                                                         *)
(* The argument, one subscription at a time: whoever holds the registry's  *)
(* lock has not inserted its entry yet, and apart from that the entry is   *)
(* there exactly while the task runs and is not being aborted (Entry); the *)
(* receiver stands behind the last frame sent (Gapless).                   *)
(***************************************************************************)
EXTENDS Subscriptions, TLAPS

-----------------------------------------------------------------------------
(* The frame a receiver takes begins where it stands and ends before it    *)
(* goes on, at the latest behind the last item sent.                       *)
LEMMA NextFrameCovers ==
  ASSUME NEW next \in Nat, NEW count \in Nat, Ready(next, count)
  PROVE  LET frame == NextFrame(next, count)
         IN  /\ frame \in Frame /\ frame.first = next
             /\ next <= frame.last /\ frame.last <= count
<1> USE CapAssumption
<1>1. CASE next < Oldest(count)
  <2>1. Oldest(count) \in 1 .. count + 1
    BY DEF Oldest
  <2>2. Oldest(count) - 1 \in Nat /\ next <= Oldest(count) - 1 /\ Oldest(count) - 1 <= count
    BY <1>1, <2>1
  <2>3. NextFrame(next, count) = [kind |-> "lag", first |-> next, last |-> Oldest(count) - 1]
    BY <1>1 DEF NextFrame, Lag
  <2>4. QED
    BY <2>2, <2>3 DEF Frame
<1>2. CASE ~(next < Oldest(count))
  <2>1. NextFrame(next, count) = [kind |-> "event", first |-> next, last |-> next]
    BY <1>2 DEF NextFrame, Event
  <2>2. QED
    BY <2>1 DEF Frame, Ready
<1>3. QED
  BY <1>1, <1>2

-----------------------------------------------------------------------------
(* The types.                                                              *)

LEMMA InitType == Init => TypeOK
<1> SUFFICES ASSUME Init PROVE TypeOK
  OBVIOUS
<1>1. 0 \in 0 .. MaxSent /\ 0 \in 0 .. MaxSent + 1 /\ 1 \in 1 .. MaxSubs + 1
  BY SubscriptionsAssumption
<1>2. frames \in [Subs -> Seq(Frame)]
  <2>1. << >> \in Seq(Frame)
    OBVIOUS
  <2>2. frames = [s \in Subs |-> << >>]
    BY DEF Init
  <2>3. QED
    BY <2>1, <2>2, Zenon
<1>3. QED
  BY <1>1, <1>2 DEF Init, TypeOK, Over

LEMMA ForwardType ==
  ASSUME TypeOK, NEW s \in Subs, Forward(s) PROVE TypeOK'
<1> DEFINE frame == NextFrame(rx[s], sent)
<1>1. rx[s] \in Nat /\ sent \in Nat /\ Ready(rx[s], sent)
  BY SubscriptionsAssumption DEF TypeOK, Forward
<1>2. frame \in Frame /\ rx[s] <= frame.last /\ frame.last <= sent
  BY <1>1, NextFrameCovers
<1>3. frame.last \in Nat
  BY <1>2 DEF Frame
<1> HIDE DEF frame
<1>4. rx' = [rx EXCEPT ![s] = frame.last + 1]
  BY DEF Forward, frame
<1>5. frame.last + 1 \in 0 .. MaxSent + 1
  BY <1>1, <1>2, <1>3, SubscriptionsAssumption DEF TypeOK
<1>6. rx' \in [Subs -> 0 .. MaxSent + 1]
  BY <1>4, <1>5 DEF TypeOK
<1>7. CASE s \in gone
  BY <1>6, <1>7 DEF Forward, Move, TypeOK
<1>8. CASE s \notin gone
  <2>1. frames' = [frames EXCEPT ![s] = Append(frames[s], frame)] /\ task' = task
    BY <1>8 DEF Forward, frame
  <2>2. Append(frames[s], frame) \in Seq(Frame)
    BY <1>2 DEF TypeOK
  <2>3. frames' \in [Subs -> Seq(Frame)]
    BY <2>1, <2>2 DEF TypeOK
  <2>4. QED
    BY <1>6, <2>1, <2>3 DEF Forward, TypeOK
<1>9. QED
  BY <1>7, <1>8

LEMMA NextType == TypeOK /\ [Next]_vars => TypeOK'
<1> SUFFICES ASSUME TypeOK, [Next]_vars PROVE TypeOK'
  OBVIOUS
<1> USE SubscriptionsAssumption
<1>1. CASE UNCHANGED vars \/ Quiesce
  BY <1>1 DEF vars, Quiesce, TypeOK
<1>2. CASE Send
  BY <1>2 DEF Send, TypeOK
<1>3. CASE Close
  BY <1>3 DEF Close, TypeOK
<1>4. CASE Subscribe
  <2>1. nextId \in Subs /\ nextId + 1 \in 1 .. MaxSubs + 1
    BY <1>4 DEF Subscribe, TypeOK, Subs
  <2>2. Subscribed(sent) \in 0 .. MaxSent + 1
    BY DEF Subscribed, TypeOK
  <2>3. QED
    BY <1>4, <2>1, <2>2 DEF Subscribe, Move, TypeOK
<1>5. ASSUME NEW s \in Subs,
             Spawn(s) \/ Insert(s) \/ SendersClosed(s) \/ RemoveSelf(s) \/ Aborted(s)
               \/ Panic(s) \/ Cancel(s) \/ WebviewCloses(s)
      PROVE  TypeOK'
  BY <1>5 DEF Spawn, Insert, SendersClosed, RemoveSelf, Aborted, Panic, Cancel, WebviewCloses,
              Move, Over, TypeOK
<1>6. QED
  BY <1>1, <1>2, <1>3, <1>4, <1>5, ForwardType DEF Next, Task

(* Every variable of Subscriptions has its type: no receiver stands beyond *)
(* the next item, and no id is given twice.                                *)
THEOREM TypeCorrect == Spec => []TypeOK
  BY InitType, NextType, PTL DEF Spec

-----------------------------------------------------------------------------
(* The registry.                                                           *)

Running == {"forward", "ended"}

Entry(s) ==
  /\ lock = s => s \notin tasks /\ s \notin aborting /\ task[s] \in Running \cup {"panicked"}
  /\ s \in tasks => task[s] \in Running \cup {"panicked"} /\ s \notin aborting
  /\ s \in aborting => task[s] \in Running
  /\ task[s] \in Running /\ s \notin aborting /\ lock # s => s \in tasks

Registered == \A s \in Subs : Entry(s)

LEMMA InitRegistered == Init => Registered
  BY DEF Init, Registered, Entry, Running, Subs, Nobody

LEMMA NextRegistered == TypeOK /\ Registered /\ [Next]_vars => Registered'
<1> SUFFICES ASSUME TypeOK, Registered, [Next]_vars, NEW t \in Subs PROVE Entry(t)'
  BY DEF Registered
<1>1. Entry(t) /\ Nobody \notin Subs
  BY DEF Registered, Nobody, Subs
<1>2. CASE UNCHANGED vars \/ Quiesce \/ Send \/ Close
  BY <1>1, <1>2 DEF vars, Quiesce, Send, Close, Entry
<1>3. CASE Subscribe
  <2>1. nextId \in Subs /\ task[nextId] = "none"
    BY <1>3, SubscriptionsAssumption DEF Subscribe, Move, TypeOK, Subs
  <2>2. QED
    BY <1>1, <1>3, <2>1 DEF Subscribe, Move, Entry, Running, TypeOK
<1>4. ASSUME NEW s \in Subs, Spawn(s) \/ Insert(s) PROVE Entry(t)'
  BY <1>1, <1>4 DEF Spawn, Insert, Move, Entry, Running, TypeOK
<1>5. ASSUME NEW s \in Subs, Forward(s) \/ SendersClosed(s) PROVE Entry(t)'
  BY <1>1, <1>5 DEF Forward, SendersClosed, Move, Entry, Running, TypeOK
<1>6. ASSUME NEW s \in Subs, RemoveSelf(s) \/ Aborted(s) \/ Panic(s) PROVE Entry(t)'
  BY <1>1, <1>6 DEF RemoveSelf, Aborted, Panic, Move, Entry, Running, TypeOK
<1>7. ASSUME NEW s \in Subs, Cancel(s) \/ WebviewCloses(s) PROVE Entry(t)'
  BY <1>1, <1>7 DEF Cancel, WebviewCloses, Entry, Running, TypeOK
<1>8. QED
  BY <1>2, <1>3, <1>4, <1>5, <1>6, <1>7 DEF Next, Task

(* Between two spawns the registry lists the subscriptions whose task runs *)
(* and is not cancelled, and but for panicked ones no other.               *)
THEOREM RegistryIsLive == Spec => []LiveIffRunning
<1>1. TypeOK /\ Registered => LiveIffRunning
  <2> SUFFICES ASSUME TypeOK, Registered, lock = Nobody
               PROVE  {s \in tasks : task[s] # "panicked"}
                        = {s \in Subs : task[s] \in {"forward", "ended"} /\ s \notin aborting}
    BY DEF LiveIffRunning
  <2>1. Nobody \notin Subs /\ tasks \subseteq Subs
    BY DEF Nobody, Subs, TypeOK
  <2>2. ASSUME NEW s \in Subs
        PROVE  (s \in tasks /\ task[s] # "panicked")
                 <=> (task[s] \in {"forward", "ended"} /\ s \notin aborting)
    <3>1. Entry(s) /\ lock # s
      BY <2>1 DEF Registered
    <3>2. QED
      BY <3>1 DEF Entry, Running
  <2>3. QED
    BY <2>1, <2>2
<1>2. QED
  BY <1>1, InitType, NextType, InitRegistered, NextRegistered, PTL DEF Spec

-----------------------------------------------------------------------------
(* The frames.                                                             *)

(* Where the receiver stands behind the frames fs.                         *)
Behind(s, fs) == IF fs = << >> THEN since[s] ELSE fs[Len(fs)].last + 1

Gapless(s) ==
  /\ \A n \in 1 .. Len(frames[s]) :
       frames[s][n].first = IF n = 1 THEN since[s] ELSE frames[s][n - 1].last + 1
  /\ task[s] \in {"starting", "forward"} => rx[s] = Behind(s, frames[s])
  /\ task[s] \in {"none", "starting"} => frames[s] = << >>

AllGapless == \A s \in Subs : Gapless(s)

LEMMA InitGapless == Init => AllGapless
  BY DEF Init, AllGapless, Gapless

(* A frame taken where the receiver stands leaves no gap.                  *)
LEMMA ForwardGapless ==
  ASSUME TypeOK, NEW s \in Subs, Gapless(s), Forward(s) PROVE Gapless(s)'
<1> DEFINE frame == NextFrame(rx[s], sent)
           fs == frames[s]
<1>1. rx[s] \in Nat /\ sent \in Nat /\ Ready(rx[s], sent)
  BY SubscriptionsAssumption DEF TypeOK, Forward
<1>2. frame \in Frame /\ frame.first = rx[s]
  BY <1>1, NextFrameCovers
<1>3. fs \in Seq(Frame) /\ task[s] = "forward" /\ rx[s] = Behind(s, fs)
  BY DEF TypeOK, Forward, Gapless
<1>4. rx'[s] = frame.last + 1 /\ since' = since
  BY DEF Forward, TypeOK
<1>5. CASE s \in gone
  <2>1. frames' = frames /\ task'[s] = "ended"
    BY <1>5 DEF Forward, Move, TypeOK
  <2>2. QED
    BY <1>4, <2>1 DEF Gapless
<1>6. CASE s \notin gone
  <2> HIDE DEF frame
  <2>1. frames'[s] = Append(fs, frame) /\ task' = task
    BY <1>6 DEF Forward, TypeOK, frame
  <2>2. /\ Len(Append(fs, frame)) = Len(fs) + 1 /\ Append(fs, frame)[Len(fs) + 1] = frame
        /\ \A n \in 1 .. Len(fs) : Append(fs, frame)[n] = fs[n]
        /\ Len(fs) \in Nat /\ (Len(fs) = 0 <=> fs = << >>) /\ Append(fs, frame) # << >>
    BY <1>2, <1>3
  <2> DEFINE new == Append(fs, frame)
  <2> HIDE DEF new
  <2>3. ASSUME NEW n \in 1 .. Len(new)
        PROVE  new[n].first = IF n = 1 THEN since[s] ELSE new[n - 1].last + 1
    <3>1. CASE n \in 1 .. Len(fs)
      <4>1. new[n] = fs[n] /\ (n # 1 => new[n - 1] = fs[n - 1])
        BY <2>2, <3>1 DEF new
      <4>2. fs[n].first = IF n = 1 THEN since[s] ELSE fs[n - 1].last + 1
        BY <3>1 DEF Gapless
      <4>3. QED
        BY <4>1, <4>2
    <3>2. CASE n = Len(fs) + 1
      <4>1. new[n].first = Behind(s, fs)
        BY <1>2, <1>3, <2>2, <3>2 DEF new
      <4>2. n # 1 => new[n - 1] = fs[Len(fs)] /\ fs # << >>
        BY <2>2, <3>2 DEF new
      <4>3. n = 1 => fs = << >>
        BY <2>2, <3>2
      <4>4. QED
        BY <4>1, <4>2, <4>3 DEF Behind
    <3>3. QED
      BY <2>2, <3>1, <3>2 DEF new
  <2>4. frames'[s] = new /\ new # << >> /\ new[Len(new)] = frame
    BY <2>1, <2>2 DEF new
  <2>5. QED
    BY <1>3, <1>4, <2>1, <2>3, <2>4 DEF Gapless, Behind
<1>7. QED
  BY <1>5, <1>6

LEMMA NextGapless == TypeOK /\ AllGapless /\ [Next]_vars => AllGapless'
<1> SUFFICES ASSUME TypeOK, AllGapless, [Next]_vars, NEW t \in Subs PROVE Gapless(t)'
  BY DEF AllGapless
<1>1. Gapless(t)
  BY DEF AllGapless
<1>2. CASE UNCHANGED vars \/ Quiesce \/ Send \/ Close
  BY <1>1, <1>2 DEF vars, Quiesce, Send, Close, Gapless, Behind
<1>3. CASE Subscribe
  <2>1. nextId \in Subs /\ task[nextId] = "none"
    BY <1>3, SubscriptionsAssumption DEF Subscribe, Move, TypeOK, Subs
  <2>2. QED
    BY <1>1, <1>3, <2>1 DEF Subscribe, Move, Gapless, Behind, TypeOK
<1>4. ASSUME NEW s \in Subs, Forward(s) PROVE Gapless(t)'
  <2>1. CASE s = t
    BY <1>1, <1>4, <2>1, ForwardGapless
  <2>2. CASE s # t
    <3>1. rx'[t] = rx[t] /\ frames'[t] = frames[t] /\ task'[t] = task[t] /\ since' = since
      BY <1>4, <2>2 DEF Forward, Move, TypeOK
    <3>2. QED
      BY <1>1, <3>1 DEF Gapless, Behind
  <2>3. QED
    BY <2>1, <2>2
<1>5. ASSUME NEW s \in Subs,
             Spawn(s) \/ Insert(s) \/ SendersClosed(s) \/ RemoveSelf(s) \/ Aborted(s)
               \/ Panic(s) \/ Cancel(s) \/ WebviewCloses(s)
      PROVE  Gapless(t)'
  <2>1. /\ rx' = rx /\ frames' = frames /\ since' = since
        /\ \/ task'[t] = task[t]
           \/ task[t] = "starting" /\ task'[t] = "forward"
           \/ task'[t] \in {"ended"} \cup Over
    BY <1>5 DEF Spawn, Insert, SendersClosed, RemoveSelf, Aborted, Panic, Cancel, WebviewCloses,
                Move, Over, TypeOK
  <2>2. QED
    BY <1>1, <2>1 DEF Gapless, Behind, Over
<1>6. QED
  BY <1>2, <1>3, <1>4, <1>5 DEF Next, Task

(* The frames a subscriber was sent cover, without a gap, everything sent  *)
(* since it subscribed, however far it falls behind.                       *)
THEOREM NoSilentGap == Spec => []NothingSkippedSilently
<1>1. AllGapless => NothingSkippedSilently
  BY DEF AllGapless, Gapless, Behind, NothingSkippedSilently
<1>2. QED
  BY <1>1, InitType, NextType, InitGapless, NextGapless, PTL DEF Spec
=============================================================================
