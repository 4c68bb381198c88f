------------------------------- MODULE Mailbox -------------------------------
(***************************************************************************)
(* What the dispatcher of Lab8 promises to its clients, without queues,    *)
(* threads or a server: for every ordered pair of clients there is a       *)
(* channel, a client shows the messages of a channel in the order they     *)
(* were sent, each exactly once, and none that was not sent.  The promise  *)
(* ends when some process is told to stop or crashes (interrupted): from   *)
(* then on messages may be lost and old ones may be shown again, but still *)
(* no message is shown that was never sent.                                *)
(***************************************************************************)
EXTENDS Integers

CONSTANT Clients

VARIABLES
  sent,         \* sent[s][d]: how many messages s has sent to d
  shown,        \* shown[d][s]: the number of the next message of s for d to show
  interrupted   \* some process was told to stop, or crashed

vars == <<sent, shown, interrupted>>

Init ==
  /\ sent = [s \in Clients |-> [d \in Clients |-> 0]]
  /\ shown = [d \in Clients |-> [s \in Clients |-> 0]]
  /\ interrupted = FALSE

(* Sending may itself be what the interruption cuts short. *)
Send(s, d) ==
  /\ sent' = [sent EXCEPT ![s][d] = @ + 1]
  /\ interrupted' \in {interrupted, TRUE}
  /\ UNCHANGED shown

Show(d, s) ==
  /\ shown[d][s] < sent[s][d]
  /\ shown' = [shown EXCEPT ![d][s] = @ + 1]
  /\ UNCHANGED <<sent, interrupted>>

(* After an interruption the next message may be any one that was sent. *)
ShowAny(d, s) ==
  /\ interrupted
  /\ \E n \in 1 .. sent[s][d] : shown' = [shown EXCEPT ![d][s] = n]
  /\ UNCHANGED <<sent, interrupted>>

Interrupt ==
  /\ interrupted' = TRUE
  /\ UNCHANGED <<sent, shown>>

Next ==
  \/ \E s, d \in Clients : Send(s, d) \/ Show(d, s) \/ ShowAny(d, s)
  \/ Interrupt

Spec == Init /\ [][Next]_vars
=============================================================================
