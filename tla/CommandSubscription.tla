------------------------- MODULE CommandSubscription -------------------------
(***************************************************************************)
(* commandSubscriber.Subscribe: the saga's create, confirm and fail        *)
(* commands come on three topics, and the subscriber calls the broker's    *)
(* Subscribe for one after the other.  The Kafka broker's Subscribe runs   *)
(* the consumer loop in the caller: it returns nil only after it has       *)
(* written a dead letter, and an error otherwise.                          *)
(***************************************************************************)
EXTENDS Naturals, Sequences

CONSTANT MaxCommands   \* bound on the commands published per topic

(* In the order of the three calls. *)
Topics == <<"create", "confirm", "fail">>

Commands == (1..Len(Topics)) \X (1..MaxCommands)

VARIABLES
  stage,      \* which Subscribe call is running; past the last, none is
  published,  \* commands the saga has published
  handled,    \* commands whose handler has succeeded
  dead        \* commands dead-lettered

vars == <<stage, published, handled, dead>>

Init ==
  /\ stage = 1
  /\ published = {}
  /\ handled = {}
  /\ dead = {}

Ended == stage > Len(Topics)

Waiting(c) == c \in published \ (handled \cup dead)

Publish(c) ==
  /\ c \notin published
  /\ published' = published \cup {c}
  /\ UNCHANGED <<stage, handled, dead>>

(* The running loop handles a command of its topic and goes on. *)
Handle(c) ==
  /\ Waiting(c)
  /\ c[1] = stage
  /\ handled' = handled \cup {c}
  /\ UNCHANGED <<stage, published, dead>>

(* It gives up on a command: Subscribe returns nil after the dead letter,  *)
(* and the next topic's turn comes.                                        *)
DeadLetter(c) ==
  /\ Waiting(c)
  /\ c[1] = stage
  /\ dead' = dead \cup {c}
  /\ stage' = stage + 1
  /\ UNCHANGED <<published, handled>>

(* Subscribe returns an error: no further call is made. *)
SubscribeFails ==
  /\ ~Ended
  /\ stage' = Len(Topics) + 1
  /\ UNCHANGED <<published, handled, dead>>

Next ==
  \/ \E c \in Commands : Publish(c) \/ Handle(c) \/ DeadLetter(c)
  \/ SubscribeFails

(* The running loop handles what is waiting on its topic; nothing obliges  *)
(* the saga to publish, a command to be dead-lettered or a call to fail.   *)
Spec ==
  /\ Init
  /\ [][Next]_vars
  /\ \A c \in Commands : WF_vars(Handle(c))

(* "OrderCommandSubscriber consumes order commands from Kafka": unless the *)
(* subscription has failed, a command that was published is handled or     *)
(* dead-lettered.  The code consumes one topic at a time, create commands  *)
(* first: its loop handles them and waits for more, and the call that      *)
(* subscribes to the next topic is not reached before it has written a     *)
(* dead letter, after which it consumes no longer.                         *)
CommandsConsumed ==
  \A c \in Commands :
    c \in published ~> c \in handled \cup dead \/ Ended

=============================================================================
