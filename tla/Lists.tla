------------------------------- MODULE Lists -------------------------------
(***************************************************************************)
(* Lists, as far as several modules of a conversion need the same of them. *)
(***************************************************************************)
EXTENDS Naturals, Sequences, SequencesExt

\* What stands at these places, in its order.
Filtered(list, places) ==
    FlattenSeq([i \in DOMAIN list |-> IF i \in places THEN <<list[i]>> ELSE <<>>])
=============================================================================
