------------------------------ MODULE LossyFifo ------------------------------
(****************************************************************************)
(* What the receive ring of a UART promises the service that reads it.      *)
(*                                                                          *)
(* Items are numbered in the order in which the interrupt handler accepts   *)
(* them.  The queue keeps the newest Capacity of them, so it is             *)
(* always the interval (arrived - fill + 1)..arrived and needs no sequence. *)
(*                                                                          *)
(*   Spec      the queue loses exactly the oldest item, and only when an    *)
(*             item arrives while the queue is full;                        *)
(*   WeakSpec  as Spec, but a read during which an arrival overruns the     *)
(*             queue may skip items; it still never returns an old or       *)
(*             a repeated one.                                              *)
(****************************************************************************)
EXTENDS Naturals

CONSTANT Capacity    \* the most unread items the queue keeps

VARIABLES
  arrived,    \* items accepted so far
  fill,       \* how many of them are unread
  last,       \* the number of the last item handed to the reader
  overran     \* an arrival found the queue full during the current read

vars == <<arrived, fill, last, overran>>

Init ==
  /\ arrived = 0
  /\ fill = 0
  /\ last = 0
  /\ overran = FALSE

Arrive ==
  /\ arrived' = arrived + 1
  /\ fill' = IF fill = Capacity THEN fill ELSE fill + 1
  /\ overran' = (overran \/ fill = Capacity)
  /\ UNCHANGED last

Take ==
  /\ fill > 0
  /\ last' = arrived - fill + 1
  /\ fill' = fill - 1
  /\ overran' = FALSE
  /\ UNCHANGED arrived

(* A read begins: overruns from now on may disturb it. *)
Begin ==
  /\ overran' = FALSE
  /\ UNCHANGED <<arrived, fill, last>>

(* A disturbed read that keeps the order. *)
TakeSkipping ==
  /\ overran
  /\ last' \in (last + 1)..arrived
  /\ fill' \in 0..(arrived - last')
  /\ overran' = FALSE
  /\ UNCHANGED arrived

Next == Arrive \/ Begin \/ Take

WeakNext == Next \/ TakeSkipping

Spec == Init /\ [][Next]_vars

WeakSpec == Init /\ [][WeakNext]_vars

=============================================================================
