----------------------------- MODULE Broadcast -----------------------------
(***************************************************************************)
(* What crates/ontogen-core/src/events.rs uses of a tokio broadcast        *)
(* channel, and `next_frame` over it.  Items are numbered from 1 in the    *)
(* order they are sent.  The channel keeps the last Cap of them; a         *)
(* receiver is the number of the next item it is to take.                  *)
(***************************************************************************)
EXTENDS Naturals

CONSTANT Cap    \* how many items the channel keeps

ASSUME CapAssumption == Cap \in Nat \ {0}

(* The oldest item the channel still holds after `sent` items.             *)
Oldest(sent) == IF sent > Cap THEN sent - Cap + 1 ELSE 1

(* A new receiver takes the items sent from now on.                        *)
Subscribed(sent) == sent + 1

Ready(next, sent) == next <= sent

(* A frame covers the items from `first` to `last`: one, for an event, or  *)
(* all those dropped since the last frame.                                 *)
Frame == [kind : {"event", "lag"}, first : Nat, last : Nat]

Event(i)   == [kind |-> "event", first |-> i, last |-> i]
Lag(i, j)  == [kind |-> "lag", first |-> i, last |-> j]

(* Mutant: a lagged receiver skips ahead without a word.                   *)
NextFrameSilent(next, sent) == Event(IF next < Oldest(sent) THEN Oldest(sent) ELSE next)

(* `next_frame` on a receiver for which an item is ready.                  *)
NextFrame(next, sent) ==
  IF next < Oldest(sent) THEN Lag(next, Oldest(sent) - 1) ELSE Event(next)
=============================================================================
