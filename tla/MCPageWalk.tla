----------------------------- MODULE MCPageWalk -----------------------------
(* Small instances of PageWalk for TLC. *)
EXTENDS PageWalk

(* From no memory to two full pages and one memory more. *)
MCLists == {[k \in 1 .. n |-> k] : n \in 0 .. 5}
MCFresh == <<6, 7>>
=============================================================================
