----------------------------- MODULE DelayFifo -----------------------------
(***************************************************************************)
(* What delay_queue promises (inc/delay_queue.hpp): a fixed-size queue that *)
(* keeps order and releases its members only after a delay.  Each member   *)
(* carries the cycles it still has to wait; once per cycle the longest     *)
(* prefix of members that wait no more is released.                        *)
(***************************************************************************)
EXTENDS Naturals, Sequences

CONSTANTS Size, Latency, Items

VARIABLES
  q,         \* members, oldest first: [item, delay]
  released   \* how many of them, from the front, may be popped

Countdown(d) == IF d > 0 THEN d - 1 ELSE 0

Init == q = <<>> /\ released = 0

Push(x, d) ==
  /\ Len(q) < Size
  /\ q' = Append(q, [item |-> x, delay |-> d])
  /\ UNCHANGED released

Pop ==
  /\ released > 0
  /\ q' = Tail(q)
  /\ released' = released - 1

Tick ==
  /\ q' = [i \in DOMAIN q |-> [q[i] EXCEPT !.delay = Countdown(@)]]
  /\ released' \in 0 .. Len(q)
  /\ \A i \in DOMAIN q : i <= released' => q'[i].delay = 0
  /\ released' < Len(q) => q'[released' + 1].delay > 0

Next ==
  \/ \E x \in Items, d \in {0, Latency} : Push(x, d)
  \/ Pop
  \/ Tick

Spec == Init /\ [][Next]_<<q, released>>
=============================================================================
