----------------------------- MODULE Pagination -----------------------------
(***************************************************************************)
(* paginate() of memcp/types.py: a page of a list from an integer cursor.  *)
(* The cursor comes from the client, so it may be negative, and the list   *)
(* is then sliced the way Python slices: from the end, clipped to it.      *)
(*                                                                         *)
(* A definition named for what it gets wrong, just before the one it       *)
(* resembles, is a mutant: the properties of PageWalk are checked to fail  *)
(* when it takes the other's place.                                        *)
(***************************************************************************)
EXTENDS Integers, Sequences

(* The position in a list of length n that the Python slice bound i means. *)
SliceBound(n, i) ==
  LET j == IF i < 0 THEN n + i ELSE i
  IN  IF j < 0 THEN 0 ELSE IF j > n THEN n ELSE j

PageOneMore(list, start, limit) ==
  SubSeq(list, SliceBound(Len(list), start) + 1, SliceBound(Len(list), start + limit + 1))

Page(list, start, limit) ==
  SubSeq(list, SliceBound(Len(list), start) + 1, SliceBound(Len(list), start + limit))

NextCursorOverlaps(list, start, limit) ==
  IF start + limit < Len(list) THEN {start + limit - 1} ELSE {}
NextCursorEndsEarly(list, start, limit) ==
  IF start + limit < Len(list) - 1 THEN {start + limit} ELSE {}
NextCursorOfFirstPage(list, start, limit) ==
  IF start + limit < Len(list) THEN {limit} ELSE {}

(* next_cursor: the end of this page, and no cursor when the list ends.    *)
NextCursor(list, start, limit) ==
  IF start + limit < Len(list) THEN {start + limit} ELSE {}

Paginate(list, start, limit) ==
  [page |-> Page(list, start, limit), next |-> NextCursor(list, start, limit)]

=============================================================================
