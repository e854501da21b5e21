----------------------------- MODULE MCCallout ------------------------------
(* Model checking of Callout: by how much the time is set. *)
EXTENDS Callout, TLC

SetEitherWay == {-2, 1}
=============================================================================
