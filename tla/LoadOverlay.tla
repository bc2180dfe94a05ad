---------------------------- MODULE LoadOverlay ----------------------------
(* The loading overlay that every page of the web application shares:       *)
(* tmcpe.loadData counts the requests under way, lists what they load and   *)
(* covers the page with one modal dialog until the count is zero again.     *)
(* The count goes down at the end of the callback, so it stays up when the  *)
(* server sends nothing or a handler of the answer throws.                  *)
EXTENDS Naturals, Sequences

\* The overlay before the first request: nothing counted, nothing listed, dialog hidden.
NothingLoading == [count |-> 0, whats |-> <<>>, up |-> FALSE]

\* The records an overlay can be, for loads named in Whats.
Overlay(Whats) == [count : Nat, whats : Seq(Whats), up : BOOLEAN]

\* A request for w begins.
Requested(o, w) == [count |-> o.count + 1, whats |-> Append(o.whats, w), up |-> TRUE]

\* The list without the first entry w.
Without(s, w) ==
  LET k == CHOOSE i \in DOMAIN s : s[i] = w /\ \A j \in 1..(i - 1) : s[j] # w
  IN  [i \in 1..(Len(s) - 1) |-> IF i < k THEN s[i] ELSE s[i + 1]]

\* Mutant: the end of the callback counts twice.
FinishedTwice(o, w) ==
  [count |-> o.count - 2, whats |-> Without(o.whats, w), up |-> o.up /\ o.count > 1]

\* The callback for w came to its end: the entry and its count go, and the
\* last one hides the dialog.
Finished(o, w) ==
  [count |-> o.count - 1, whats |-> Without(o.whats, w), up |-> o.up /\ o.count > 1]

\* The user closes the dialog (Escape, or a click beside it).
Dismissed(o) == [o EXCEPT !.up = FALSE]
=============================================================================
