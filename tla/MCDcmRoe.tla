------------------------------ MODULE MCDcmRoe ------------------------------
EXTENDS DcmRoe
MCRoePreconfig == <<"x">>
MCDidLength == [d \in RoeDids |-> IF d = "a" THEN 2 ELSE 1]
RoeSpec == RoeInit /\ [][RoeNext]_roeVars /\ WF_roeVars(PollDataIdentifiers)
=============================================================================
