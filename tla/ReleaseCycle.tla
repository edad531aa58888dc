---------------------------- MODULE ReleaseCycle ----------------------------
(***************************************************************************)
(* What version control promises the rest of the system: the record in     *)
(* force changes only by releasing, unchanged, the content a reviewer      *)
(* approved.  Versioning implements it as long as requests do not overlap. *)
(***************************************************************************)
CONSTANTS Contents, Blank

VARIABLES
  inForce,   \* the content everybody works to
  proposal   \* the change being prepared: its content and how far it has got

NoProposal == [stage |-> "none", content |-> Blank]

Init ==
  /\ inForce \in Contents
  /\ \/ proposal = NoProposal
     \/ proposal = [stage |-> "draft", content |-> inForce]

Propose(c) ==
  /\ proposal.stage = "none"
  /\ proposal' = [stage |-> "draft", content |-> c]
  /\ UNCHANGED inForce

Edit(c) ==
  /\ proposal.stage = "draft"
  /\ proposal' = [proposal EXCEPT !.content = c]
  /\ UNCHANGED inForce

Move(from, to) ==
  /\ proposal.stage = from
  /\ proposal' = [proposal EXCEPT !.stage = to]
  /\ UNCHANGED inForce

Submit == proposal.content # Blank /\ Move("draft", "review")
Approve == Move("review", "approved")
SendBack == Move("review", "draft") \/ Move("approved", "draft")

Withdraw ==
  /\ proposal.stage # "none"
  /\ proposal' = NoProposal
  /\ UNCHANGED inForce

Release ==
  /\ proposal.stage = "approved"
  /\ inForce' = proposal.content
  /\ proposal' = NoProposal

Next ==
  \/ \E c \in Contents : Propose(c) \/ Edit(c)
  \/ Submit \/ Approve \/ SendBack \/ Withdraw \/ Release

Spec == Init /\ [][Next]_<<inForce, proposal>>

=============================================================================
