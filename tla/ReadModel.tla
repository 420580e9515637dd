------------------------------ MODULE ReadModel ------------------------------
(***************************************************************************)
(* What a Redis copy promises to those who read it, whichever copy it is   *)
(* and whatever carries the refreshes.  A copy may be outdated, but then a *)
(* current one is under way, unless that repair was forgone.  What is      *)
(* outdated comes from before a commit or from the copy itself: nothing    *)
(* else makes a current copy outdated.  And a repair is forgone only by    *)
(* dropping something that was under way, or by passing on the outdated    *)
(* copy.                                                                   *)
(*                                                                         *)
(* DeliveryProjection and FullCopyProjection implement this specification  *)
(* (ImplementsReadModel).                                                  *)
(***************************************************************************)

CONSTANT
  Nothing   \* there is nothing to read

VARIABLES
  stored,   \* what the database would give now, or Nothing
  shown,    \* what Redis gives, or Nothing
  due,      \* what is stored is on its way to Redis
  behind,   \* something else is
  waived    \* a repair of the copy was forgone

vars == <<stored, shown, due, behind, waived>>

Init ==
  /\ stored = Nothing
  /\ shown = Nothing
  /\ due = FALSE
  /\ behind = FALSE
  /\ waived = FALSE

(* An outdated copy is owed a current one. *)
Owed == stored # Nothing /\ shown # stored => due \/ waived

(* A step that writes nothing to the database and reads nothing outdated:  *)
(* a repair is forgone with something that was under way, and taken up     *)
(* again only with a current copy.                                         *)
Honest ==
  /\ behind' => behind
  /\ waived' => waived \/ due \/ behind
  /\ waived => waived' \/ due'
  /\ Owed'

(* What was under way may be outdated now, or there is nothing to read.    *)
Commit ==
  /\ stored' # stored \/ stored' = Nothing
  /\ shown' = shown
  /\ Owed'

(* Redis gets a current copy. *)
Show ==
  /\ stored' = stored
  /\ shown' = stored
  /\ Honest

(* Redis gets an outdated one.  Without anything stored there is nothing   *)
(* it could agree with.                                                    *)
Slip ==
  /\ behind \/ stored = Nothing
  /\ stored' = stored
  /\ shown' \notin {stored, Nothing}
  /\ Honest

(* Somebody takes the outdated copy to pass it on. *)
Echo ==
  /\ shown # stored
  /\ UNCHANGED <<stored, shown>>
  /\ behind' /\ waived'

(* Whatever is under way moves on, arrives nowhere, or is dropped. *)
Carry ==
  /\ UNCHANGED <<stored, shown>>
  /\ Honest

Next == Commit \/ Show \/ Slip \/ Echo \/ Carry

Spec == Init /\ [][Next]_vars

=============================================================================
