------------------------------- MODULE MCVCar -------------------------------
(* VCar for TLC: a child gets in, the car is parked, the child gets out.    *)
EXTENDS VCar
MCDriven == {<<TRUE, LV_ON>>, <<TRUE, LV_LOCK>>, <<FALSE, LV_OFF>>}
=============================================================================
