------------------------------ MODULE MCSurvey ------------------------------
(* Two surveys, two connections from the surveyor or a device to one        *)
(* respondent.                                                              *)
EXTENDS Survey, TLC

CONSTANTS p1, p2, r1

MCPipe == {p1, p2}
MCRespondent == {r1}
\* Passed on by one device and by too many, and malformed.
MCDeviceHeader ==
    {[stack |-> <<7>>, id |-> 1], [stack |-> <<7, 7>>, id |-> 1], [stack |-> <<>>, id |-> NULL]}
=============================================================================
