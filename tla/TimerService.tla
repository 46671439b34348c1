----------------------------- MODULE TimerService ---------------------------
(***************************************************************************)
(* What the timer wheel promises its callers, without levels, slots or     *)
(* cascades (wheel.rs, documentation of `advance_one` and `TimerWheel`):   *)
(* an armed entry fires on precisely the tick that reaches its deadline,   *)
(* one armed when already due fires on the next tick, and a catch-up over  *)
(* several ticks wakes entries in the order of their deadlines.            *)
(***************************************************************************)
EXTENDS Integers, Sequences, Functions

CONSTANTS Entries,    \* timer entries
          Deadlines,  \* deadlines callers ask for
          MaxTick     \* bound on the tick counter

VARIABLES now,     \* the tick counter
          due,     \* armed entry -> the tick it fires at
          woken    \* entries woken by the last step, in order

vars == <<now, due, woken>>

Init == now = 0 /\ due = <<>> /\ woken = <<>>

Arm(e, deadline) ==
  /\ e \notin DOMAIN due
  /\ due' = [x \in DOMAIN due \cup {e} |->
               IF x # e THEN due[x]
               ELSE IF deadline > now THEN deadline ELSE now + 1]
  /\ woken' = <<>>
  /\ now' = now

Disarm(e) ==
  /\ due' = Restrict(due, DOMAIN due \ {e})
  /\ woken' = <<>>
  /\ now' = now

\* Time moves to t: exactly the entries due by then fire, earliest first.
Advance(t) ==
  LET firing == {e \in DOMAIN due : due[e] <= t}
  IN  /\ now' = t
      /\ due' = Restrict(due, DOMAIN due \ firing)
      /\ woken' \in Seq(firing) /\ Range(woken') = firing
      /\ \A i, j \in DOMAIN woken' :
           i < j => woken'[i] # woken'[j] /\ due[woken'[i]] <= due[woken'[j]]

Next ==
  \/ \E e \in Entries, deadline \in Deadlines : Arm(e, deadline)
  \/ \E e \in Entries : Disarm(e)
  \/ \E t \in now..MaxTick : Advance(t)

Spec == Init /\ [][Next]_vars

=============================================================================
