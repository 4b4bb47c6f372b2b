--------------------------- MODULE MCLearningQuota ---------------------------
(* LearningQuota for TLC.  Requests, browsers, addresses and ids are         *)
(* interchangeable.                                                          *)
EXTENDS LearningQuota, TLC

Symmetry == Permutations(Requests) \cup Permutations(Browsers)
            \cup Permutations(Ips) \cup Permutations(Uuids)
=============================================================================
