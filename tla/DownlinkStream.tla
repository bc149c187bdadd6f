--------------------------- MODULE DownlinkStream ---------------------------
(***************************************************************************)
(* What the base may rely on about the frames it dispatches, however the   *)
(* radio loses, repeats and flushes: the downlink is a stream that may     *)
(* lose frames but never repeats, reorders or invents one.                 *)
(***************************************************************************)
EXTENDS Sequences, SequencesExt, Integers

VARIABLES
  pipe,      \* the frames staged and not yet taken, oldest first
  taken      \* the frame taken last

streamVars == <<pipe, taken>>

\* What may be left of s when some of its elements are lost: every element of t
\* has its place in s, and later ones have later places.
IsLossyCopy(t, s) ==
  \E place \in [DOMAIN t -> DOMAIN s] :
    /\ \A i \in DOMAIN t : t[i] = s[place[i]]
    /\ \A i, j \in DOMAIN t : i < j => place[i] < place[j]

Init == Len(pipe) <= 1

\* A frame is staged behind the others, some of which may be discarded.
Stage == /\ pipe' # <<>>
         /\ IsLossyCopy(Front(pipe'), pipe)
         /\ UNCHANGED taken

Lose == IsLossyCopy(pipe', pipe) /\ UNCHANGED taken

\* The base takes a frame; those staged before it are gone.
Take == \E i \in 1 .. Len(pipe) :
          /\ taken' = pipe[i]
          /\ pipe' = SubSeq(pipe, i + 1, Len(pipe))

Next == Stage \/ Lose \/ Take

Spec == Init /\ [][Next]_streamVars
=============================================================================
