----------------------------- MODULE SseProofs -----------------------------
(***************************************************************************)
(* Theorems about SseClient, for any number of items, any capacity of the  *)
(* channel and of the wire, and however often the connection breaks.       *)
(*                                                                         *)
(* The argument: the frames on the wire follow one another in the order of *)
(* their items and end before the receiver (InOrder), so what the client   *)
(* has been given never runs ahead of what is still to come; every item    *)
(* behind the receiver is then on the wire, handled, or older than the     *)
(* subscription (Covered).                                                 *)
(***************************************************************************)
EXTENDS SseClient, TLAPS

WireFrame == [kind : {"event", "lag", "error"}, first : 1 .. MaxSent, last : 1 .. MaxSent]

(* The frames w follow one another and end before `next`.                  *)
InOrder(w, next) ==
  /\ \A n \in 1 .. Len(w) : w[n].first <= w[n].last /\ w[n].last < next
                            /\ (w[n].kind # "lag" => w[n].first = w[n].last)
  /\ \A m, n \in 1 .. Len(w) : m < n => w[m].last < w[n].first

(* Some frame of w brings the item i.                                      *)
Brings(w, i) == \E n \in 1 .. Len(w) : i \in w[n].first .. w[n].last

-----------------------------------------------------------------------------
(* Frames on a wire.                                                       *)

(* The frame a receiver takes begins where it stands and ends at the       *)
(* latest with the last item sent.                                         *)
LEMMA NextFrameCovers ==
  ASSUME NEW next \in Nat \ {0}, NEW count \in 1 .. MaxSent, Ready(next, count)
  PROVE  LET frame == NextFrame(next, count)
         IN  /\ frame.first = next /\ frame \in WireFrame
             /\ next <= frame.last /\ frame.last <= count
             /\ (frame.kind # "lag" => frame.first = frame.last)
             /\ frame.kind \in {"event", "lag"}
<1> USE CapAssumption, SseAssumption DEF Ready, WireFrame
<1>1. Oldest(count) \in 1 .. count + 1
  BY DEF Oldest
<1>2. CASE next < Oldest(count)
  <2>1. NextFrame(next, count) = [kind |-> "lag", first |-> next, last |-> Oldest(count) - 1]
    BY <1>2 DEF NextFrame, Lag
  <2>2. Oldest(count) - 1 \in 1 .. MaxSent
    BY <1>1, <1>2
  <2>3. QED
    BY <1>1, <1>2, <2>1, <2>2
<1>3. CASE ~(next < Oldest(count))
  <2>1. NextFrame(next, count) = [kind |-> "event", first |-> next, last |-> next]
    BY <1>3 DEF NextFrame, Event
  <2>2. QED
    BY <2>1
<1>4. QED
  BY <1>2, <1>3

(* A frame that begins where the wire ends keeps the order.                *)
LEMMA AppendInOrder ==
  ASSUME NEW w \in Seq(WireFrame), NEW next \in Nat, InOrder(w, next),
         NEW frame \in WireFrame, frame.first = next, next <= frame.last,
         frame.kind # "lag" => frame.first = frame.last
  PROVE  /\ InOrder(Append(w, frame), frame.last + 1)
         /\ \A i \in Nat : Brings(Append(w, frame), i)
                             <=> Brings(w, i) \/ i \in frame.first .. frame.last
<1> DEFINE new == Append(w, frame)
<1>1. /\ Len(new) = Len(w) + 1 /\ Len(w) \in Nat /\ new[Len(w) + 1] = frame
      /\ \A n \in 1 .. Len(w) : new[n] = w[n] /\ w[n] \in WireFrame
  OBVIOUS
<1>2. frame.last \in Nat /\ frame.first \in Nat
  BY SseAssumption DEF WireFrame
<1>3. \A n \in 1 .. Len(w) : w[n].first \in Nat /\ w[n].last \in Nat
  BY <1>1, SseAssumption DEF WireFrame
<1> HIDE DEF new
<1>4. ASSUME NEW n \in 1 .. Len(new)
      PROVE  \/ n \in 1 .. Len(w) /\ new[n] = w[n]
             \/ n = Len(w) + 1 /\ new[n] = frame
  <2>1. n \in 1 .. Len(w) \/ n = Len(w) + 1
    BY <1>1
  <2>2. QED
    BY <1>1, <2>1
<1>5. \A n \in 1 .. Len(new) : new[n].first <= new[n].last /\ new[n].last < frame.last + 1
                               /\ (new[n].kind # "lag" => new[n].first = new[n].last)
  BY <1>2, <1>3, <1>4 DEF InOrder
<1>6. ASSUME NEW m \in 1 .. Len(new), NEW n \in 1 .. Len(new), m < n
      PROVE  new[m].last < new[n].first
  <2>1. m \in 1 .. Len(w) /\ new[m] = w[m]
    BY <1>1, <1>6
  <2>2. CASE n \in 1 .. Len(w) /\ new[n] = w[n]
    BY <1>6, <2>1, <2>2 DEF InOrder
  <2>3. CASE n = Len(w) + 1 /\ new[n] = frame
    BY <1>2, <1>3, <2>1, <2>3 DEF InOrder
  <2>4. QED
    BY <1>4, <2>2, <2>3
<1>7. \A i \in Nat : Brings(new, i) <=> Brings(w, i) \/ i \in frame.first .. frame.last
  <2> TAKE i \in Nat
  <2>1. ASSUME Brings(new, i) PROVE Brings(w, i) \/ i \in frame.first .. frame.last
    BY <1>4, <2>1 DEF Brings
  <2>2. ASSUME Brings(w, i) PROVE Brings(new, i)
    BY <1>1, <2>2 DEF Brings
  <2>3. ASSUME i \in frame.first .. frame.last PROVE Brings(new, i)
    BY <1>1, <2>3 DEF Brings
  <2>4. QED
    BY <2>1, <2>2, <2>3
<1>8. InOrder(new, frame.last + 1)
  BY <1>5, <1>6 DEF InOrder
<1>9. QED
  BY <1>7, <1>8 DEF new

(* Taking the first frame off a wire leaves only later items on it.        *)
LEMMA TailInOrder ==
  ASSUME NEW w \in Seq(WireFrame), NEW next \in Nat, InOrder(w, next), w # << >>
  PROVE  /\ Head(w) \in WireFrame /\ Tail(w) \in Seq(WireFrame)
         /\ Head(w).last < next
         /\ Head(w).first <= Head(w).last
         /\ (Head(w).kind # "lag" => Head(w).first = Head(w).last)
         /\ InOrder(Tail(w), next)
         /\ \A i \in Nat : /\ Brings(w, i) => Brings(Tail(w), i)
                                               \/ i \in Head(w).first .. Head(w).last
                           /\ Brings(w, i) => i >= Head(w).first
<1> DEFINE rest == Tail(w)
<1>1. /\ Len(w) \in Nat \ {0} /\ Head(w) = w[1] /\ rest \in Seq(WireFrame)
      /\ Len(rest) = Len(w) - 1
      /\ \A n \in 1 .. Len(rest) : rest[n] = w[n + 1]
  OBVIOUS
<1>2. \A n \in 1 .. Len(w) : w[n] \in WireFrame /\ w[n].first \in Nat /\ w[n].last \in Nat
  <2>1. \A n \in 1 .. Len(w) : w[n] \in WireFrame
    OBVIOUS
  <2>2. QED
    BY <2>1, SseAssumption DEF WireFrame
<1> HIDE DEF rest
<1>3. \A n \in 1 .. Len(rest) : n + 1 \in 1 .. Len(w)
  BY <1>1
<1>4. /\ w[1].last < next /\ w[1].first <= w[1].last
      /\ (w[1].kind # "lag" => w[1].first = w[1].last)
  BY <1>1 DEF InOrder
<1>5. InOrder(rest, next)
  <2>1. \A n \in 1 .. Len(rest) : rest[n].first <= rest[n].last /\ rest[n].last < next
                                  /\ (rest[n].kind # "lag" => rest[n].first = rest[n].last)
    BY <1>1, <1>3 DEF InOrder
  <2>2. ASSUME NEW m \in 1 .. Len(rest), NEW n \in 1 .. Len(rest), m < n
        PROVE  rest[m].last < rest[n].first
    <3>1. m + 1 \in 1 .. Len(w) /\ n + 1 \in 1 .. Len(w) /\ m + 1 < n + 1
      BY <1>3, <2>2
    <3>2. w[m + 1].last < w[n + 1].first
      BY <3>1 DEF InOrder
    <3>3. QED
      BY <1>1, <3>2
  <2>3. QED
    BY <2>1, <2>2 DEF InOrder
<1>6. ASSUME NEW i \in Nat, NEW n \in 1 .. Len(w), i \in w[n].first .. w[n].last
      PROVE  /\ Brings(rest, i) \/ i \in w[1].first .. w[1].last
             /\ i >= w[1].first
  <2>1. CASE n = 1
    BY <1>6, <2>1, <1>2
  <2>2. CASE n # 1
    <3>1. n - 1 \in 1 .. Len(rest) /\ (n - 1) + 1 = n
      BY <1>1, <2>2
    <3>2. rest[n - 1] = w[n]
      BY <1>1, <3>1
    <3>3. Brings(rest, i)
      BY <1>6, <3>1, <3>2 DEF Brings
    <3>4. 1 \in 1 .. Len(w) /\ 1 < n
      BY <1>1, <2>2
    <3>5. w[1].last < w[n].first
      BY <3>4 DEF InOrder
    <3>6. QED
      BY <1>2, <1>4, <1>6, <3>3, <3>4, <3>5
  <2>3. QED
    BY <2>1, <2>2
<1>7. \A i \in Nat : /\ Brings(w, i) => Brings(rest, i) \/ i \in w[1].first .. w[1].last
                     /\ Brings(w, i) => i >= w[1].first
  BY <1>6 DEF Brings
<1>8. 1 \in 1 .. Len(w)
  BY <1>1
<1>9. QED
  BY <1>1, <1>2, <1>4, <1>5, <1>7, <1>8 DEF rest
-----------------------------------------------------------------------------
(* The types.                                                              *)

(* What the client and the wire hold besides their types: the order of the *)
(* frames, an empty wire without a connection, and a receiver that does    *)
(* not run ahead of the channel.                                           *)
Sound ==
  /\ InOrder(wire, rx) /\ rx <= sent + 1
  /\ conn \in {"accepted", "open"} => rx # 0
  /\ conn \in {"none", "connecting"} => wire = << >>
  /\ timer => conn = "none"

(* An empty wire is in order.                                              *)
LEMMA EmptyInOrder == \A next \in Nat : << >> \in Seq(WireFrame) /\ InOrder(<< >>, next)
<1>1. Len(<< >>) = 0 /\ << >> \in Seq(WireFrame)
  OBVIOUS
<1>2. 1 .. 0 = {}
  OBVIOUS
<1>3. QED
  BY <1>1, <1>2 DEF InOrder

LEMMA InitType == Init => TypeOK /\ Sound
<1> SUFFICES ASSUME Init PROVE TypeOK /\ Sound
  OBVIOUS
<1>1. 0 \in 0 .. MaxSent + 1 /\ 0 \in 0 .. MaxFailures /\ sent \in 0 .. MaxSent /\ 0 \in 0 .. sent
  BY SseAssumption DEF Init
<1>2. wire \in Seq(WireFrame) /\ InOrder(wire, rx) /\ wire = << >>
  BY EmptyInOrder DEF Init
<1>3. sent \in Nat /\ lastId \in 0 .. sent /\ origin \in 0 .. sent
  BY <1>1 DEF Init
<1>4. TypeOK
  BY <1>1, <1>2, <1>3 DEF Init, TypeOK, WireFrame
<1>5. Sound
  BY <1>1, <1>2, <1>3 DEF Init, Sound
<1>6. QED
  BY <1>4, <1>5

LEMMA NextType == TypeOK /\ Sound /\ [Next]_vars => TypeOK' /\ Sound'
<1> SUFFICES ASSUME TypeOK, Sound, [Next]_vars PROVE TypeOK' /\ Sound'
  OBVIOUS
<1> USE SseAssumption
<1>1. sent \in Nat /\ rx \in Nat /\ wire \in Seq(WireFrame) /\ lastId \in Nat
  BY DEF TypeOK, WireFrame
<1>2. CASE UNCHANGED vars \/ Quiesce
  <2>1. UNCHANGED vars
    BY <1>2 DEF Quiesce
  <2>2. TypeOK'
    BY <2>1 DEF vars, TypeOK
  <2>3. Sound'
    BY <2>1 DEF vars, Sound
  <2>4. QED
    BY <2>2, <2>3
<1>3. CASE Publish
  BY <1>3 DEF Publish, TypeOK, Sound
<1>4. CASE Accept
  <2>1. Start(lastId) \in 1 .. sent + 1 /\ wire = << >>
    BY <1>4 DEF Accept, Start, Subscribed, None, TypeOK, Sound
  <2>2. InOrder(wire', rx')
    BY <1>4, <2>1 DEF Accept, InOrder
  <2>3. rx' \in 1 .. sent + 1
    BY <1>4, <2>1 DEF Accept
  <2>4. origin' \in 0 .. sent
    BY <1>4 DEF Accept, TypeOK
  <2>5. QED
    BY <1>1, <1>4, <2>1, <2>2, <2>3, <2>4 DEF Accept, TypeOK, Sound
<1>5. CASE Stream
  <2> DEFINE frame == NextFrame(rx, sent)
             onWire == IF frame.kind = "event" /\ frame.first \in Unwritable
                       THEN [frame EXCEPT !.kind = "error"] ELSE frame
  <2>1. rx \in Nat \ {0} /\ sent \in 1 .. MaxSent /\ Ready(rx, sent)
    BY <1>5, <1>1 DEF Stream, Ready, TypeOK, Sound
  <2>2. /\ frame.first = rx /\ frame \in WireFrame /\ rx <= frame.last /\ frame.last <= sent
        /\ (frame.kind # "lag" => frame.first = frame.last)
        /\ frame.kind \in {"event", "lag"}
    BY <2>1, NextFrameCovers
  <2>3. wire' = Append(wire, onWire) /\ rx' = frame.last + 1
    BY <1>5 DEF Stream
  <2> HIDE DEF frame
  <2>4. /\ onWire \in WireFrame /\ onWire.first = frame.first /\ onWire.last = frame.last
        /\ (onWire.kind # "lag" => onWire.first = onWire.last)
    BY <2>2 DEF WireFrame
  <2> HIDE DEF onWire
  <2>5. InOrder(wire', rx')
    BY <1>1, <2>2, <2>3, <2>4, AppendInOrder DEF Sound
  <2>6. wire' \in Seq(WireFrame) /\ rx' \in 1 .. sent + 1
    BY <1>1, <2>2, <2>3, <2>4 DEF WireFrame
  <2>7. QED
    BY <1>1, <1>5, <2>5, <2>6 DEF Stream, TypeOK, Sound, WireFrame
<1>6. CASE Open
  BY <1>1, <1>6 DEF Open, TypeOK, Sound
<1>7. CASE OnEvent \/ OnLag \/ OnErrorEvent
  <2>1. wire # << >> /\ conn = "open"
    BY <1>7 DEF OnEvent, OnLag, OnErrorEvent, Arrives
  <2>2. /\ Head(wire) \in WireFrame /\ Tail(wire) \in Seq(WireFrame)
        /\ Head(wire).last < rx /\ Head(wire).first <= Head(wire).last
        /\ InOrder(Tail(wire), rx)
    BY <1>1, <2>1, TailInOrder DEF Sound
  <2>3. /\ Head(wire).first \in 1 .. sent /\ Head(wire).last \in 1 .. sent
    BY <1>1, <2>2 DEF WireFrame, Sound
  <2>4. CASE OnEvent \/ OnLag
    <3>1. handled' \subseteq 1 .. sent /\ lastId' \in 0 .. sent
      <4>1. Head(wire).first .. Head(wire).last \subseteq 1 .. sent
        BY <1>1, <2>3
      <4>2. Head(wire).last \in 0 .. sent /\ handled \subseteq 1 .. sent
        BY <1>1, <2>3 DEF TypeOK
      <4>3. CASE OnEvent
        BY <2>3, <4>2, <4>3 DEF OnEvent
      <4>4. CASE OnLag
        BY <4>1, <4>2, <4>4 DEF OnLag, TypeOK
      <4>5. QED
        BY <2>4, <4>3, <4>4
    <3>2. wire' = Tail(wire)
      BY <2>4 DEF OnEvent, OnLag
    <3>3. UNCHANGED <<sent, rx, conn, timer>>
      BY <2>4 DEF OnEvent, OnLag
    <3>4. Sound'
      BY <2>1, <2>2, <3>2, <3>3 DEF Sound
    <3>5. TypeOK'
      BY <2>2, <2>4, <3>1, <3>2, <3>3 DEF OnEvent, OnLag, TypeOK, WireFrame
    <3>6. QED
      BY <3>4, <3>5
  <2>5. CASE OnErrorEvent
    <3>1. handled' \subseteq 1 .. sent
      BY <2>3, <2>5 DEF OnErrorEvent, TypeOK
    <3>2. QED
      BY <1>1, <2>5, <3>1, EmptyInOrder DEF OnErrorEvent, OnError, TypeOK, Sound, WireFrame
  <2>6. QED
    BY <1>7, <2>4, <2>5
<1>8. CASE Fail \/ Unsubscribe
  <2>1. CASE Fail
    <3>1. failures' \in 0 .. MaxFailures
      BY <2>1 DEF Fail, TypeOK
    <3>2. QED
      BY <1>1, <2>1, <3>1, EmptyInOrder DEF Fail, OnError, TypeOK, Sound, WireFrame
  <2>2. CASE Unsubscribe
    BY <1>1, <2>2, EmptyInOrder DEF Unsubscribe, TypeOK, Sound, WireFrame
  <2>3. QED
    BY <1>8, <2>1, <2>2
<1>9. CASE Connect
  <2>1. conn' \in {"none", "connecting"}
    BY <1>9 DEF Connect
  <2>2. timer /\ wire = << >>
    BY <1>9 DEF Connect, Sound
  <2>3. QED
    BY <1>1, <1>9, <2>1, <2>2 DEF Connect, TypeOK, Sound
<1>10. QED
  BY <1>2, <1>3, <1>4, <1>5, <1>6, <1>7, <1>8, <1>9 DEF Next

(* Every variable of SseClient has its type: the client never resumes      *)
(* after an item that was not sent.                                        *)
THEOREM TypeCorrect == Spec => []TypeOK
  BY InitType, NextType, PTL DEF Spec

-----------------------------------------------------------------------------
(* What a step does to the frames under way.                               *)

LEMMA StreamBrings ==
  ASSUME TypeOK, Sound, Stream
  PROVE  /\ UNCHANGED <<replays, sent, conn, lastId, handled, read, origin>>
         /\ rx' \in Nat
         /\ \A i \in Nat : (i < rx' <=> i < rx \/ i \in rx .. rx' - 1)
                           /\ (Brings(wire', i) <=> Brings(wire, i) \/ i \in rx .. rx' - 1)
<1> USE SseAssumption
<1> DEFINE frame == NextFrame(rx, sent)
           onWire == IF frame.kind = "event" /\ frame.first \in Unwritable
                     THEN [frame EXCEPT !.kind = "error"] ELSE frame
<1>1. /\ rx \in Nat \ {0} /\ sent \in 1 .. MaxSent /\ Ready(rx, sent)
      /\ wire \in Seq(WireFrame) /\ InOrder(wire, rx)
  BY DEF Stream, Ready, TypeOK, Sound, WireFrame
<1>2. /\ frame.first = rx /\ frame \in WireFrame /\ rx <= frame.last
      /\ (frame.kind # "lag" => frame.first = frame.last)
      /\ frame.kind \in {"event", "lag"}
  BY <1>1, NextFrameCovers
<1>3. /\ wire' = Append(wire, onWire) /\ rx' = frame.last + 1
      /\ UNCHANGED <<replays, sent, conn, lastId, handled, read, origin>>
  BY DEF Stream
<1> HIDE DEF frame
<1>4. /\ onWire \in WireFrame /\ onWire.first = frame.first /\ onWire.last = frame.last
      /\ (onWire.kind # "lag" => onWire.first = onWire.last)
  BY <1>2 DEF WireFrame
<1> HIDE DEF onWire
<1>5. \A i \in Nat : Brings(wire', i) <=> Brings(wire, i) \/ i \in onWire.first .. onWire.last
  BY <1>1, <1>2, <1>3, <1>4, AppendInOrder
<1>6. frame.last \in Nat /\ rx' - 1 = frame.last
  BY <1>2, <1>3 DEF WireFrame
<1>7. QED
  BY <1>1, <1>2, <1>3, <1>4, <1>5, <1>6

LEMMA ArrivalBrings ==
  ASSUME TypeOK, Sound, OnEvent \/ OnLag
  PROVE  /\ UNCHANGED <<replays, sent, conn, rx, read, origin>> /\ conn = "open"
         /\ handled \subseteq handled'
         /\ \A i \in Nat : Brings(wire, i) => Brings(wire', i) \/ i \in handled'
         /\ \/ lastId' = lastId
            \/ /\ lastId' < rx /\ lastId' \in Nat /\ lastId' \in handled'
               /\ \A i \in Nat : Brings(wire, i) => i >= lastId'
<1> USE SseAssumption
<1>1. /\ wire \in Seq(WireFrame) /\ InOrder(wire, rx) /\ wire # << >> /\ rx \in Nat
      /\ UNCHANGED <<replays, sent, conn, rx, read, origin>> /\ conn = "open"
      /\ wire' = Tail(wire)
  <2>1. wire \in Seq(WireFrame) /\ rx \in Nat /\ InOrder(wire, rx)
    BY DEF TypeOK, Sound, WireFrame
  <2>2. /\ UNCHANGED <<replays, sent, conn, rx, read, origin>>
        /\ wire # << >> /\ conn = "open" /\ wire' = Tail(wire)
    <3>1. CASE OnEvent
      BY <3>1 DEF OnEvent, Arrives
    <3>2. CASE OnLag
      BY <3>2 DEF OnLag, Arrives
    <3>3. QED
      BY <3>1, <3>2
  <2>3. QED
    BY <2>1, <2>2
<1>2. /\ Head(wire) \in WireFrame /\ Head(wire).last < rx
      /\ (Head(wire).kind # "lag" => Head(wire).first = Head(wire).last)
      /\ \A i \in Nat : /\ Brings(wire, i) => Brings(Tail(wire), i)
                                               \/ i \in Head(wire).first .. Head(wire).last
                        /\ Brings(wire, i) => i >= Head(wire).first
  BY <1>1, TailInOrder
<1>3. Head(wire).last \in Nat /\ Head(wire).first \in Nat
  BY <1>2 DEF WireFrame
<1>4. CASE OnEvent
  <2>1. /\ Head(wire).first = Head(wire).last
        /\ lastId' = Head(wire).last /\ handled' = handled \cup {Head(wire).first}
    BY <1>2, <1>4 DEF OnEvent, Arrives
  <2>2. \A i \in Nat : i \in Head(wire).first .. Head(wire).last => i = Head(wire).first
    BY <1>3, <2>1
  <2>3. QED
    BY <1>1, <1>2, <1>3, <2>1, <2>2
<1>5. CASE OnLag
  <2>1. /\ lastId' = lastId
        /\ handled' = handled \cup (Head(wire).first .. Head(wire).last)
    BY <1>5 DEF OnLag
  <2>2. \A i \in Nat : Brings(wire, i) => Brings(wire', i) \/ i \in handled'
    BY <1>1, <1>2, <2>1
  <2>3. handled \subseteq handled'
    BY <2>1
  <2>4. UNCHANGED <<replays, sent, conn, rx, read, origin>> /\ conn = "open"
    BY <1>1
  <2>5. QED
    BY <2>1, <2>2, <2>3, <2>4
<1>6. QED
  BY <1>4, <1>5

-----------------------------------------------------------------------------
(* Unsubscribing.                                                          *)

(* After unsubscribing, also from inside onError, no connection is left    *)
(* and the reconnect that was scheduled makes none.                        *)
THEOREM UnsubscribedForGood == Spec => []ClosedStaysClosed
<1>1. Init => ClosedStaysClosed
  BY DEF Init, ClosedStaysClosed
<1>2. ClosedStaysClosed /\ [Next]_vars => ClosedStaysClosed'
  <2> SUFFICES ASSUME ClosedStaysClosed, [Next]_vars PROVE ClosedStaysClosed'
    OBVIOUS
  <2>1. CASE UNCHANGED vars \/ Quiesce \/ Publish \/ Accept \/ Stream
    BY <2>1 DEF vars, Quiesce, Publish, Accept, Stream, ClosedStaysClosed
  <2>2. CASE Open \/ OnEvent \/ OnLag
    BY <2>2 DEF Open, OnEvent, OnLag, ClosedStaysClosed
  <2>3. CASE OnErrorEvent \/ Fail \/ Connect \/ Unsubscribe
    BY <2>3 DEF OnErrorEvent, Fail, OnError, Connect, Unsubscribe, ClosedStaysClosed
  <2>4. QED
    BY <2>1, <2>2, <2>3 DEF Next
<1>3. QED
  BY <1>1, <1>2, PTL DEF Spec

-----------------------------------------------------------------------------
(* What a consumer is told.                                                *)

(* The items behind the receiver are handled or on their way.              *)
Covered ==
  /\ ResumeLosesNothing
  /\ replays /\ conn \in {"accepted", "open"} =>
       \A i \in Nat : origin < i /\ i < rx => i \in handled \/ Brings(wire, i)

LEMMA NextCovered == TypeOK /\ Sound /\ Covered /\ [Next]_vars => Covered'
<1> SUFFICES ASSUME TypeOK, Sound, Covered, [Next]_vars PROVE Covered'
  OBVIOUS
<1>1. sent \in Nat /\ rx \in Nat /\ lastId \in Nat /\ origin \in Nat
  BY SseAssumption DEF TypeOK
<1>2. CASE UNCHANGED vars \/ Quiesce \/ Publish \/ Unsubscribe \/ Fail \/ Connect
  <2>1. UNCHANGED <<replays, origin, lastId, rx, handled>>
    BY <1>2 DEF vars, Quiesce, Publish, Unsubscribe, Fail, Connect
  <2>2. conn' \in {"none", "connecting"} \/ UNCHANGED <<conn, wire>>
    BY <1>2 DEF vars, Quiesce, Publish, Unsubscribe, Fail, OnError, Connect
  <2>3. QED
    BY <2>1, <2>2 DEF Covered, ResumeLosesNothing
<1>3. CASE Accept
  <2>1. CASE lastId = None
    BY <1>1, <1>3, <2>1 DEF Accept, Start, Subscribed, Covered, ResumeLosesNothing, None
  <2>2. CASE lastId # None
    BY <1>1, <1>3, <2>2 DEF Accept, Start, Covered, ResumeLosesNothing
  <2>3. QED
    BY <2>1, <2>2
<1>4. CASE Stream
  BY <1>1, <1>4, StreamBrings DEF Stream, Covered, ResumeLosesNothing
<1>5. CASE Open
  BY <1>5 DEF Open, Covered, ResumeLosesNothing
<1>6. CASE OnEvent \/ OnLag
  <2>1. /\ UNCHANGED <<replays, sent, conn, rx, read, origin>> /\ conn = "open"
        /\ handled \subseteq handled'
        /\ \A i \in Nat : Brings(wire, i) => Brings(wire', i) \/ i \in handled'
        /\ \/ lastId' = lastId
           \/ /\ lastId' < rx /\ lastId' \in Nat /\ lastId' \in handled'
              /\ \A i \in Nat : Brings(wire, i) => i >= lastId'
    BY <1>6, ArrivalBrings
  <2>2. ASSUME replays, NEW i \in Nat, origin < i, i < rx PROVE i \in handled' \/ Brings(wire', i)
    BY <2>1, <2>2 DEF Covered
  <2>3. ASSUME replays, NEW i \in (origin + 1) .. lastId' PROVE i \in handled'
    <3>1. CASE lastId' = lastId
      BY <2>1, <2>3, <3>1 DEF Covered, ResumeLosesNothing
    <3>2. CASE lastId' # lastId
      <4>1. /\ lastId' < rx /\ lastId' \in Nat /\ lastId' \in handled'
            /\ \A j \in Nat : Brings(wire, j) => j >= lastId'
        BY <2>1, <3>2
      <4>2. i \in Nat /\ origin < i /\ i <= lastId' /\ i < rx
        BY <1>1, <2>3, <4>1
      <4>3. i \in handled \/ Brings(wire, i)
        BY <2>1, <2>3, <4>2 DEF Covered
      <4>4. i \in handled \/ i = lastId'
        BY <4>1, <4>2, <4>3
      <4>5. QED
        BY <2>1, <4>1, <4>4
    <3>3. QED
      BY <3>1, <3>2
  <2>4. QED
    BY <2>1, <2>2, <2>3 DEF Covered, ResumeLosesNothing
<1>7. CASE OnErrorEvent
  BY <1>7 DEF OnErrorEvent, OnError, Covered, ResumeLosesNothing
<1>8. QED
  BY <1>2, <1>3, <1>4, <1>5, <1>6, <1>7 DEF Next

(* Resuming after the last seen id loses nothing when the event fn         *)
(* replays: whatever lies before that id was handled or reported, however  *)
(* often the connection broke and whatever was on the wire then.           *)
THEOREM ResumeIsComplete == Spec => []ResumeLosesNothing
<1>1. Init => Covered
  <2> SUFFICES ASSUME Init PROVE Covered
    OBVIOUS
  <2>1. lastId \in Nat /\ origin = lastId /\ conn = "connecting"
    BY DEF Init
  <2>2. QED
    BY <2>1 DEF Covered, ResumeLosesNothing
<1>2. Covered => ResumeLosesNothing
  BY DEF Covered
<1>3. QED
  BY <1>1, <1>2, InitType, NextType, NextCovered, PTL DEF Spec

(* While the connection is open: read, handled, or on the way.             *)
Told ==
  conn = "open" =>
    \A i \in Nat : 1 <= i /\ i <= sent => i <= read \/ i \in handled \/ rx <= i \/ Brings(wire, i)

LEMMA NextTold == TypeOK /\ Sound /\ Told /\ [Next]_vars => Told'
<1> SUFFICES ASSUME TypeOK, Sound, Told, [Next]_vars PROVE Told'
  OBVIOUS
<1>1. sent \in Nat /\ rx \in Nat /\ read \in Nat /\ rx <= sent + 1
  BY SseAssumption DEF TypeOK, Sound
<1>2. CASE UNCHANGED vars \/ Quiesce
  BY <1>2 DEF vars, Quiesce, Told
<1>3. CASE Publish
  BY <1>1, <1>3 DEF Publish, Told
<1>4. CASE Unsubscribe \/ Fail \/ OnErrorEvent \/ Accept \/ Connect
  BY <1>4 DEF Unsubscribe, Fail, OnErrorEvent, OnError, Accept, Connect, Told
<1>5. CASE Stream
  BY <1>1, <1>5, StreamBrings DEF Told
<1>6. CASE Open
  BY <1>1, <1>6 DEF Open, Told
<1>7. CASE OnEvent \/ OnLag
  <2>1. /\ UNCHANGED <<sent, conn, rx, read>> /\ handled \subseteq handled'
        /\ \A i \in Nat : Brings(wire, i) => Brings(wire', i) \/ i \in handled'
    BY <1>7, ArrivalBrings
  <2>2. QED
    BY <2>1 DEF Told
<1>8. QED
  BY <1>2, <1>3, <1>4, <1>5, <1>6, <1>7 DEF Next

(* While the connection is open, an item the consumer was not told of is   *)
(* still to come, or was there for its read at onOpen.                     *)
THEOREM NoSilentMiss == Spec => []NothingMissedSilently
<1>1. Init => Told
  BY DEF Init, Told
<1>2. TypeOK /\ Told => NothingMissedSilently
  <2> SUFFICES ASSUME TypeOK, Told, conn = "open", NEW i \in 1 .. sent
               PROVE  i <= read \/ i \in handled \/ i \in ToCome
    BY DEF NothingMissedSilently
  <2>1. i \in Nat /\ sent \in Nat /\ rx \in Nat /\ 1 <= i /\ i <= sent
    BY SseAssumption DEF TypeOK
  <2>2. CASE rx <= i
    BY <2>1, <2>2 DEF ToCome
  <2>3. CASE Brings(wire, i)
    BY <2>3 DEF ToCome, Brings
  <2>4. QED
    BY <2>1, <2>2, <2>3 DEF Told
<1>3. QED
  BY <1>1, <1>2, InitType, NextType, NextTold, PTL DEF Spec
=============================================================================
