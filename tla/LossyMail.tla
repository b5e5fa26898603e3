------------------------------ MODULE LossyMail -----------------------------
(***************************************************************************)
(* What the post office promises (network/post.h): "unreliable, ordered,   *)
(* fixed-size message delivery to mailboxes on other machines".  A message *)
(* is lost when it is sent or not at all; those that are not lost reach    *)
(* the mailbox they are addressed to, once each and in the order they were *)
(* sent to their machine, and leave the mailbox in that order.             *)
(***************************************************************************)
EXTENDS Sequences

CONSTANTS Machines, Boxes, Message

VARIABLES transit,     \* [Machines -> Seq(Message)], on the way to a machine
          boxes        \* [Machines -> [Boxes -> Seq(Message)]]

mailVars == <<transit, boxes>>

MailInit ==
    /\ transit = [m \in Machines |-> <<>>]
    /\ boxes = [m \in Machines |-> [b \in Boxes |-> <<>>]]

(* A message sets out.  (A lost one changes nothing here.)                 *)
Post(msg) ==
    /\ transit' = [transit EXCEPT ![msg.to] = Append(@, msg)]
    /\ UNCHANGED boxes

(* The oldest message on the way to machine m arrives in its mailbox.      *)
Deliver(m) ==
    /\ transit[m] # <<>>
    /\ transit' = [transit EXCEPT ![m] = Tail(@)]
    /\ boxes' = [boxes EXCEPT ![m][Head(transit[m]).box] = Append(@, Head(transit[m]))]

(* The oldest message in a mailbox is taken out.                           *)
Take(m, b) ==
    /\ boxes[m][b] # <<>>
    /\ boxes' = [boxes EXCEPT ![m][b] = Tail(@)]
    /\ UNCHANGED transit

MailNext ==
    \/ \E msg \in Message : Post(msg)
    \/ \E m \in Machines : Deliver(m)
    \/ \E m \in Machines, b \in Boxes : Take(m, b)

MailSpec == MailInit /\ [][MailNext]_mailVars
=============================================================================
