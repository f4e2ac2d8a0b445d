--------------------------------- MODULE MCSaga ---------------------------------
(* Two sagas of one user, one of which compensates and one without compensation  *)
(* attempts, and one alone with its user whose amount is refused. A step between *)
(* those of the worked example may fail to be compensated.                       *)
EXTENDS Saga
CONSTANTS s1, s2, s3, u1, u2

MCSagas == {s1, s2, s3}
MCUsers == {u1, u2}
MCUserOf == [s \in MCSagas |-> IF s = s3 THEN u2 ELSE u1]
MCSteps == <<Charge, "other", Subscribe, Email>>
MCBadAmount == {s3}
MCMaxAttempts == [s \in MCSagas |-> IF s = s2 THEN 0 ELSE 2]
=============================================================================
