--------------------------- MODULE MCComposition ---------------------------
(* A group of a pipeline of two messages and a message.  The middleware is
   the default one, with Results and then GroupCallbacks added to it, and
   emit_after goes through it from the end.                                *)
EXTENDS Composition, SequencesExt

CONSTANTS c1, c2

MCChildren == {c1, c2}
MCLength == [c \in MCChildren |-> IF c = c1 THEN 2 ELSE 1]
MCHooks == Reverse(<<"pipe", "retries", "results", "group">>)
=============================================================================
