------------------------------- MODULE Mailbox -------------------------------
(***************************************************************************)
(* What the hub and a spoke promise together about directives, whatever    *)
(* fails: directives wait in one box, leave it from the front for the      *)
(* handler, each at most once, and may be lost from any place in it.       *)
(* A directive is the number of the EnqueueDirective call that posted it.  *)
(***************************************************************************)
EXTENDS Naturals, Sequences

VARIABLES box, posted, handled

mailVars == <<box, posted, handled>>

MailInit ==
  /\ box = <<>>
  /\ posted = 0
  /\ handled = <<>>

Post ==
  /\ posted' = posted + 1
  /\ box' = Append(box, posted')
  /\ UNCHANGED handled

Take ==
  /\ box # <<>>
  /\ handled' = Append(handled, Head(box))
  /\ box' = Tail(box)
  /\ UNCHANGED posted

\* Those that are left keep their order.
Lose ==
  /\ box' \in Seq(Nat)
  /\ \E place \in [DOMAIN box' -> DOMAIN box] :
       /\ \A i, j \in DOMAIN box' : i < j => place[i] < place[j]
       /\ \A i \in DOMAIN box' : box'[i] = box[place[i]]
  /\ UNCHANGED <<posted, handled>>

MailNext == Post \/ Take \/ Lose

MailSpec == MailInit /\ [][MailNext]_mailVars
=============================================================================
