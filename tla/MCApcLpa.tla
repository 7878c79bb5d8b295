------------------------------- MODULE MCApcLpa -------------------------------
(* An instance of ApcLpa: "long" decodes past its prompt, so a preemption may *)
(* restore more than the prompt; "short" is the next turn of that             *)
(* conversation, its prompt the first one and the start of its answer.        *)
EXTENDS ApcLpa

Texts(long, short) == [r \in Requests |-> IF r = "long" THEN long ELSE short]

Turns == Texts(<<1, 1, 2, 9, 9, 9>>, <<1, 1, 2, 9>>)
TurnPrompt == Texts(3, 4)
=============================================================================
