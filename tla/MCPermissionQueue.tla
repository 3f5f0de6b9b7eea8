-------------------------- MODULE MCPermissionQueue --------------------------
\* Requests of each kind for TLC.
EXTENDS PermissionQueue

CONSTANTS m1, m2, t1, w1

OneMain == {m1}
TwoMains == {m1, m2}
OneTeammate == {t1}
OneWorker == {w1}
None == {}
=============================================================================
