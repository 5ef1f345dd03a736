----------------------------- MODULE Publication -----------------------------
(***************************************************************************)
(* What the activation queue of the dev sandbox promises its callers       *)
(* (blocks/dev/activation.rs), without queue, journal, files or crashes.   *)
(*                                                                         *)
(* Generations are numbered as they are composed.  One generation is live  *)
(* at a time, and going live only ever moves forward.  A caller that is    *)
(* told its change is live was told so after a generation went live that   *)
(* was composed after the caller asked.                                    *)
(***************************************************************************)
EXTENDS Integers

CONSTANTS
  Client,
  First    \* the generation that is live at first

VARIABLES
  newest,  \* the generation composed last
  live,    \* the generation that is live
  asked,   \* newest when a caller asked
  told     \* what a caller knows

promise == <<newest, live, asked, told>>

Answers == {"new", "waiting", "live", "refused", "gone"}

Init ==
  /\ newest = First /\ live = First
  /\ asked = [c \in Client |-> 0]
  /\ told = [c \in Client |-> "new"]

Ask(c) ==
  /\ told[c] = "new"
  /\ told' = [told EXCEPT ![c] = "waiting"]
  /\ asked' = [asked EXCEPT ![c] = newest]
  /\ UNCHANGED <<newest, live>>

Compose ==
  /\ newest' = newest + 1
  /\ UNCHANGED <<live, asked, told>>

GoLive ==
  /\ live' \in live + 1 .. newest
  /\ UNCHANGED <<newest, asked, told>>

(* Any set of callers is answered at once: a coalesced activation answers  *)
(* everybody that was folded into it.                                      *)
Tell ==
  /\ told' \in [Client -> Answers]
  /\ \A c \in Client : told'[c] # told[c] =>
       \/ told[c] \in {"new", "waiting"} /\ told'[c] = "gone"
       \/ told[c] = "waiting" /\ told'[c] = "refused"
       \/ told[c] = "waiting" /\ told'[c] = "live" /\ live > asked[c]
  /\ UNCHANGED <<newest, live, asked>>

Next == (\E c \in Client : Ask(c)) \/ Compose \/ GoLive \/ Tell

Spec == Init /\ [][Next]_promise
=============================================================================
