----------------------------- MODULE MCFrontend -----------------------------
(* Frontend with a few requests under way at a time.  Every text is short  *)
(* but the second reply, whose bytes leave room for no question after it.  *)
EXTENDS Frontend

Texts ==
  [t \in {"user", "assistant"} \X (1..MaxTurns) |->
     IF t = <<"assistant", 2>> THEN [chars |-> MaxLength, bytes |-> MaxBytes]
                               ELSE [chars |-> 1, bytes |-> 1]]

=============================================================================
