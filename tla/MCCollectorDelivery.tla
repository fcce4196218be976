------------------------ MODULE MCCollectorDelivery ------------------------
(* Small instances of CollectorDelivery. *)
EXTENDS CollectorDelivery

CONSTANTS good, other, bad, worse

OneSource  == <<"acs">>

NoKeys     == {}
BadKeys    == Source \X {bad}
WorseKeys  == Source \X {worse}
=============================================================================
