----------------------------- MODULE MCLifespan -----------------------------
(* Lifespan on two requests to the model besides the lifespan's own.       *)
EXTENDS Lifespan
=============================================================================
