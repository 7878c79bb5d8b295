SPECIFICATION MCSpec
CONSTANTS
  Ranks = {0, 1}
  Texts = {t1, t2, t3}
  Explicit = {t2}
  Ordered = {t1}
  MaxChanges = 2
  Downloaders = {d1, d2}
  Pieces = {1, 2, 3}
  Damages = 2
INVARIANTS SameLaunch RecoveryIsReady AcceptedIsServed FabricAgrees CompleteIsSettled
           PatchedAsRecorded
PROPERTY InstallKeeps
\* A switch, a download or an edited profile may come to its end.
CHECK_DEADLOCK FALSE
