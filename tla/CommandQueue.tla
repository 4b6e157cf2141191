---------------------------- MODULE CommandQueue ----------------------------
(***************************************************************************)
(* What a consumer of internal/consuming promises those who put commands   *)
(* into its queue, whatever the queue is: only a command that was sent is  *)
(* processed, one at a time and maybe again and again, and a command is    *)
(* settled - committed, deleted, acknowledged - only after it was          *)
(* processed, and for good.                                                *)
(***************************************************************************)

VARIABLES
    sent,     \* commands in the queue, or that were in it
    done,     \* commands that were processed
    settled   \* commands the queue will not hand out again

commandVars == <<sent, done, settled>>

Init == done = {} /\ settled = {}

Enqueue == sent \subseteq sent' /\ UNCHANGED <<done, settled>>

Process == (\E c \in sent : done' = done \cup {c}) /\ UNCHANGED <<sent, settled>>

Settle == settled \subseteq settled' /\ settled' \subseteq done /\ UNCHANGED <<sent, done>>

Next == Enqueue \/ Process \/ Settle

Spec == Init /\ [][Next]_commandVars
=============================================================================
