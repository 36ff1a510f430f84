----------------------------- MODULE SseClient -----------------------------
(***************************************************************************)
(* One `subscribeSse` of the generated HTTP client                         *)
(* (src/src/clients/generators/transport.rs) against the SSE handler and   *)
(* stream of the generated server (src/src/servers/generators/http.rs).    *)
(*                                                                         *)
(* The client's callbacks run one at a time.  The connection can fail at   *)
(* any point, and what was on the wire is then lost.  What resuming means  *)
(* is up to the event fn: it either replays from the history it keeps, or  *)
(* starts at the present.  The delay of a retry is abstracted: the timer   *)
(* fires at any time.                                                      *)
(*                                                                         *)
(* MaxSent, MaxWire and MaxFailures bound the model; a full wire is a      *)
(* connection whose buffers are full.                                      *)
(***************************************************************************)
EXTENDS Broadcast, Sequences

CONSTANTS
  MaxSent,      \* items sent on the channel
  MaxWire,      \* frames on the wire
  MaxFailures,  \* times a connection breaks or is refused
  Unwritable    \* items whose `data:` fails to serialize

ASSUME SseAssumption ==
  /\ MaxSent \in Nat \ {0} /\ MaxWire \in Nat \ {0} /\ MaxFailures \in Nat
  /\ Unwritable \subseteq Nat

None == 0       \* no resume id

VARIABLES
  replays,   \* whether the event fn replays what follows a resume id
  sent,      \* items sent so far
  rx,        \* the connection's receiver
  wire,      \* its frames the client has not been given yet
  conn,      \* the client's EventSource, as far as both sides know
  timer,     \* a reconnect is scheduled
  lastId,    \* the last id the client saw
  closed,    \* unsubscribed
  failures,  \* connections that failed so far
  handled,   \* items given to onEvent, or reported by onLag or onError
  read,      \* the items up to here were there at the last onOpen
  origin     \* the items up to here precede the subscription

vars == <<replays, sent, rx, wire, conn, timer, lastId, closed, failures, handled, read, origin>>

Init ==
  /\ replays \in BOOLEAN
  /\ sent \in 0..1
  /\ lastId \in 0..sent /\ origin = lastId
  /\ rx = 0 /\ wire = <<>>
  /\ conn = "connecting" /\ timer = FALSE
  /\ closed = FALSE /\ failures = 0
  /\ handled = {} /\ read = 0

-----------------------------------------------------------------------------
(* The server.                                                             *)

Publish ==
  /\ sent < MaxSent
  /\ sent' = sent + 1
  /\ UNCHANGED <<replays, rx, wire, conn, timer, lastId, closed, failures, handled, read, origin>>

(* The receiver the event fn returns.                                      *)
Start(resume) == IF replays /\ resume # None THEN resume + 1 ELSE Subscribed(sent)

(* Mutant: the resume id does not reach the event fn.                      *)
AcceptFresh ==
  /\ conn = "connecting"
  /\ conn' = "accepted"
  /\ rx' = Start(None)
  /\ origin' = IF lastId = None THEN sent ELSE origin
  /\ UNCHANGED <<replays, sent, wire, timer, lastId, closed, failures, handled, read>>

(* The handler calls the event fn before it answers.                       *)
Accept ==
  /\ conn = "connecting"
  /\ conn' = "accepted"
  /\ rx' = Start(lastId)
  /\ origin' = IF lastId = None THEN sent ELSE origin
  /\ UNCHANGED <<replays, sent, wire, timer, lastId, closed, failures, handled, read>>

(* The stream's next frame; an item that cannot be written becomes an      *)
(* event named `error`.                                                    *)
Stream ==
  /\ conn \in {"accepted", "open"}
  /\ Ready(rx, sent) /\ Len(wire) < MaxWire
  /\ LET frame == NextFrame(rx, sent) IN
       /\ wire' = Append(wire, IF frame.kind = "event" /\ frame.first \in Unwritable
                               THEN [frame EXCEPT !.kind = "error"] ELSE frame)
       /\ rx' = frame.last + 1
  /\ UNCHANGED <<replays, sent, conn, timer, lastId, closed, failures, handled, read, origin>>

-----------------------------------------------------------------------------
(* The client.                                                             *)

(* `onopen`; the consumer's catch-up read sees what was sent before it.    *)
Open ==
  /\ conn = "accepted"
  /\ conn' = "open"
  /\ read' = sent
  /\ UNCHANGED <<replays, sent, rx, wire, timer, lastId, closed, failures, handled, origin>>

Arrives(kind) == conn = "open" /\ wire # <<>> /\ Head(wire).kind = kind

(* The id is kept before the payload is decoded; an item on which `decode` *)
(* throws goes to onError instead of onEvent, and counts as reported.      *)
OnEvent ==
  /\ Arrives("event")
  /\ lastId' = Head(wire).last
  /\ handled' = handled \cup {Head(wire).first}
  /\ wire' = Tail(wire)
  /\ UNCHANGED <<replays, sent, rx, conn, timer, closed, failures, read, origin>>

(* Mutant: a lag frame has no listener.                                    *)
OnLagIgnored ==
  /\ Arrives("lag")
  /\ wire' = Tail(wire)
  /\ UNCHANGED <<replays, sent, rx, conn, timer, lastId, closed, failures, handled, read, origin>>

OnLag ==
  /\ Arrives("lag")
  /\ handled' = handled \cup (Head(wire).first .. Head(wire).last)
  /\ wire' = Tail(wire)
  /\ UNCHANGED <<replays, sent, rx, conn, timer, lastId, closed, failures, read, origin>>

(* Mutant: an error ends the subscription.                                 *)
OnErrorGivesUp ==
  /\ conn' = "none" /\ wire' = <<>> /\ timer' = FALSE
  /\ closed' \in {FALSE, TRUE}

(* `onerror` closes the source, tells the consumer, who may unsubscribe    *)
(* there and then, and schedules the reconnect all the same.               *)
OnError ==
  /\ conn' = "none" /\ wire' = <<>> /\ timer' = TRUE
  /\ closed' \in {FALSE, TRUE}

(* The connection breaks, or the server refuses it.                        *)
Fail ==
  /\ conn # "none" /\ failures < MaxFailures
  /\ failures' = failures + 1
  /\ OnError
  /\ UNCHANGED <<replays, sent, rx, lastId, handled, read, origin>>

(* The browser gives an event named `error` to `onerror` as well.          *)
OnErrorEvent ==
  /\ Arrives("error")
  /\ handled' = handled \cup {Head(wire).first}
  /\ OnError
  /\ UNCHANGED <<replays, sent, rx, lastId, failures, read, origin>>

(* Mutant: `connect` does not look at `closed`.                            *)
ConnectBlind ==
  /\ timer /\ timer' = FALSE
  /\ conn' = "connecting"
  /\ UNCHANGED <<replays, sent, rx, wire, lastId, closed, failures, handled, read, origin>>

Connect ==
  /\ timer /\ timer' = FALSE
  /\ conn' = IF closed THEN "none" ELSE "connecting"
  /\ UNCHANGED <<replays, sent, rx, wire, lastId, closed, failures, handled, read, origin>>

Unsubscribe ==
  /\ ~closed /\ closed' = TRUE
  /\ conn' = "none" /\ wire' = <<>> /\ timer' = FALSE
  /\ UNCHANGED <<replays, sent, rx, lastId, failures, handled, read, origin>>

Quiesce == closed /\ ~timer /\ sent = MaxSent /\ UNCHANGED vars

Next ==
  \/ Publish \/ Accept \/ Stream
  \/ Open \/ OnEvent \/ OnLag \/ OnErrorEvent
  \/ Fail \/ Connect \/ Unsubscribe
  \/ Quiesce

Spec == Init /\ [][Next]_vars

(* The server answers and streams, the browser delivers, the timer fires.  *)
FairSpec ==
  /\ Spec
  /\ WF_vars(Accept) /\ WF_vars(Stream)
  /\ WF_vars(Open) /\ WF_vars(OnEvent \/ OnLag \/ OnErrorEvent) /\ WF_vars(Connect)

-----------------------------------------------------------------------------
(* Properties.                                                             *)

(* Every variable has its type, and the client resumes after an item that  *)
(* was sent.                                                               *)
TypeOK ==
  /\ replays \in BOOLEAN
  /\ sent \in 0..MaxSent /\ rx \in 0..MaxSent + 1
  /\ wire \in Seq([kind : {"event", "lag", "error"}, first : 1..MaxSent, last : 1..MaxSent])
  /\ conn \in {"none", "connecting", "accepted", "open"}
  /\ timer \in BOOLEAN /\ closed \in BOOLEAN /\ failures \in 0..MaxFailures
  /\ lastId \in 0..sent
  /\ handled \subseteq 1..sent /\ read \in 0..sent /\ origin \in 0..sent

(* The items the open connection has still to hand to the client.          *)
ToCome == (rx..sent) \cup UNION {wire[n].first .. wire[n].last : n \in 1..Len(wire)}

(* onLag and onOpen "together ... are where a consumer runs its own        *)
(* catch-up read": while the connection is open, an item that is not to    *)
(* come was handled, reported, or there for the read at onOpen.  A         *)
(* connection that is not open has its onOpen ahead.                       *)
NothingMissedSilently ==
  conn = "open" => \A i \in 1..sent : i <= read \/ i \in handled \/ i \in ToCome

(* With an event fn that replays, reconnecting with the last seen id needs *)
(* no catch-up: every item from the first one on up to that id was handled *)
(* or reported, however often the connection broke.                        *)
ResumeLosesNothing ==
  replays => \A i \in (origin + 1)..lastId : i \in handled

(* After unsubscribing, also from inside onError, no connection is left    *)
(* and none is made.                                                       *)
ClosedStaysClosed == closed => conn = "none"

(* If the connection fails finitely often, every item is handled, reported *)
(* or read at an onOpen, unless the consumer unsubscribes, or an event fn  *)
(* that replays comes back to an item that cannot be written.              *)
EveryItemHandled ==
  \A i \in 1..MaxSent :
    (sent >= i /\ ~(replays /\ \E u \in Unwritable : u <= i))
      ~> (i \in handled \/ i <= read \/ closed)
=============================================================================
