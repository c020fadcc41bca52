-------------------------- MODULE MCAgentFeedback --------------------------
(***************************************************************************)
(* Small instances of AgentFeedback for TLC.                               *)
(***************************************************************************)
EXTENDS AgentFeedback, TLC

CONSTANTS s1, s2, m1, m2, a1, a2

\* Two reminder slots, due one and two days after the request.
TwoSlots == <<1, 2>>

FeedbackSymmetry == Permutations(Senders \ Operators) \union Permutations(Reminders)
                      \union Permutations(Submits)
=============================================================================
