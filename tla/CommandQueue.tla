---------------------------- MODULE CommandQueue ----------------------------
(***************************************************************************)
(* What the link promises to the two programs at its ends while the line   *)
(* damages nothing: commands come out as they went in, all of them, in     *)
(* their order and once each.                                              *)
(***************************************************************************)
EXTENDS Naturals, Sequences

CONSTANT Parcel

VARIABLES
  given,       \* what the CPU has asked for, oldest first
  taken        \* what the MCU's consumer was called with, oldest first

queue == <<given, taken>>

QueueInit == given = <<>> /\ taken = <<>>

Give ==
  /\ \E parcel \in Parcel : given' = Append(given, parcel)
  /\ UNCHANGED taken

Take ==
  /\ Len(taken) < Len(given)
  /\ taken' = Append(taken, given[Len(taken) + 1])
  /\ UNCHANGED given

QueueNext == Give \/ Take

QueueSpec == QueueInit /\ [][QueueNext]_queue
=============================================================================
