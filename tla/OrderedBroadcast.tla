-------------------------- MODULE OrderedBroadcast --------------------------
(***************************************************************************)
(* What can.VirtualBus promises in its doc comment, without locks, queues  *)
(* or channels: one bus order, read by every member from the place where   *)
(* it joined, own frames left out, nothing skipped.                        *)
(***************************************************************************)
EXTENDS Naturals, Sequences

CONSTANT Member

VARIABLES bus,    \* the senders of the frames so far, in bus order
          at,     \* the last frame each member has received
          stage   \* out (never joined), in, left

Init == /\ bus = <<>>
        /\ at = [m \in Member |-> 0]
        /\ stage = [m \in Member |-> "out"]

Join(m) == /\ stage[m] = "out"
           /\ stage' = [stage EXCEPT ![m] = "in"]
           /\ at' = [at EXCEPT ![m] = Len(bus)]
           /\ UNCHANGED bus

\* A Send that was let through before Close may still reach the bus.
Publish(m) == /\ stage[m] # "out"
              /\ bus' = Append(bus, m)
              /\ UNCHANGED <<at, stage>>

\* The next frame of another member, and none between it and the last one.
NextFor(m, k) == /\ k \in at[m] + 1 .. Len(bus)
                 /\ bus[k] # m
                 /\ \A j \in at[m] + 1 .. k - 1 : bus[j] = m

Read(m) == /\ stage[m] = "in"
           /\ \E k \in 1 .. Len(bus) : /\ NextFor(m, k)
                                       /\ at' = [at EXCEPT ![m] = k]
           /\ UNCHANGED <<bus, stage>>

Leave(m) == /\ stage[m] = "in"
            /\ stage' = [stage EXCEPT ![m] = "left"]
            /\ UNCHANGED <<bus, at>>

Next == \E m \in Member : Join(m) \/ Publish(m) \/ Read(m) \/ Leave(m)

Spec == Init /\ [][Next]_<<bus, at, stage>>
=============================================================================
