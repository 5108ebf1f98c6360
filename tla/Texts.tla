--------------------------------- MODULE Texts ---------------------------------
(***************************************************************************)
(* Strings taken apart and put together (str::split and slice::join), as     *)
(* sequences of the pieces that matter.                                      *)
(***************************************************************************)
EXTENDS Naturals, Sequences, SequencesExt

\* The last of the parts so far goes on with t, or ends at a mark.
Split(parts, t, mark) ==
  IF t = mark THEN Append(parts, << >>) ELSE [parts EXCEPT ![Len(parts)] = Append(@, t)]
SplitAt(s, mark) == FoldLeft(LAMBDA parts, t : Split(parts, t, mark), << << >> >>, s)

Join(sofar, part, mark) == IF sofar = << >> THEN part ELSE sofar \o <<mark>> \o part
Joined(parts, mark) == FoldLeft(LAMBDA sofar, part : Join(sofar, part, mark), << >>, parts)
=============================================================================
