------------------------------ MODULE RRBitmap ------------------------------
(***************************************************************************)
(* pkg/lib/bitmap: the round-robin bitmap from which the scheduler draws   *)
(* the port of each pod manager.  A bitmap of l positions is the set of    *)
(* its masked positions together with the position the next search starts  *)
(* at.  The words of Bitmap64 are abstracted to that set.                  *)
(***************************************************************************)
EXTENDS Integers, FiniteSetsExt

\* Position i of a search that began at `current`, folded back into 0 .. l-1.
Wrap(i, l) == IF i >= l THEN i - l ELSE i

\* The steps of one round, from `current`, that meet an unmasked position.
Unmasked(masked, current, l) ==
  {i \in current .. current + l - 1 : Wrap(i, l) \notin masked}

\* FindNextFromCurrent: the first unmasked position of the round, -1 if none.
FindNextFromCurrent(masked, current, l) ==
  IF Unmasked(masked, current, l) = {}
    THEN -1
    ELSE Wrap(Min(Unmasked(masked, current, l)), l)

\* Mutations: the position found is not masked; the next search skips one.
MaskedAfter_Unset(masked, ii)    == masked
CurrentAfter_Skips(current, ii)  == IF ii = -1 THEN current ELSE ii + 2

\* What FindNextFromCurrentAndSet leaves behind when the search returned ii.
MaskedAfter(masked, ii)   == IF ii = -1 THEN masked ELSE masked \cup {ii}
CurrentAfter(current, ii) == IF ii = -1 THEN current ELSE ii + 1

=============================================================================
