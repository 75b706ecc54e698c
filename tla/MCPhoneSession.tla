--------------------------- MODULE MCPhoneSession ---------------------------
(* Model checking of PhoneSession: the symmetry of its identifiers.         *)
EXTENDS PhoneSession, TLC

Symmetry == Permutations(OnlineSessions) \cup Permutations(OfflineSessions)
            \cup Permutations(Scans) \cup Permutations(Syncs)
=============================================================================
