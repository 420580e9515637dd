----------------------------- MODULE EventLedger -----------------------------
(***************************************************************************)
(* What a consumer of this service promises about each event, however its  *)
(* messages are duplicated, redelivered, retried or spread over replicas:  *)
(* it takes effect at most once, and never after it was spent, that is,    *)
(* after a handling ended with its claim left behind.  A dead letter alone *)
(* excludes nothing: another message of the event may have been handled or *)
(* may still be.                                                           *)
(*                                                                         *)
(* EventConsumer and RecoveryConsumer implement this specification         *)
(* (ImplementsLedger).                                                     *)
(***************************************************************************)
EXTENDS Naturals

CONSTANTS Events

VARIABLES
  owed,     \* the events that were published
  effects,  \* how often each one was handled with success
  spent,    \* the events that will not be handled any more
  buried    \* the events that were dead-lettered, or given up without that

vars == <<owed, effects, spent, buried>>

Init ==
  /\ owed = {}
  /\ effects = [e \in Events |-> 0]
  /\ spent = {}
  /\ buried = {}

Arrive(e) ==
  /\ owed' = owed \cup {e}
  /\ UNCHANGED <<effects, spent, buried>>

Succeed(e) ==
  /\ e \in owed \ spent
  /\ effects[e] = 0
  /\ effects' = [effects EXCEPT ![e] = 1]
  /\ UNCHANGED <<owed, spent, buried>>

(* Several events at once when a replica stops. *)
Abandon(spending, burying) ==
  /\ \A e \in spending : effects[e] = 0
  /\ spent' = spent \cup spending
  /\ buried' = buried \cup burying
  /\ UNCHANGED <<owed, effects>>

Next ==
  \/ \E e \in Events : Arrive(e) \/ Succeed(e)
  \/ \E spending, burying \in SUBSET owed : Abandon(spending, burying)

Spec == Init /\ [][Next]_vars

=============================================================================
