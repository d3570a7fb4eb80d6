-------------------------- MODULE MCValidatorParts --------------------------
(* ValidatorParts for TLC.                                                 *)
EXTENDS ValidatorParts

\* Five registrations on four uids: uid 1 changes its hotkey, uid 3 is the owner's.
MCRegistered == {"a1", "b1", "c0", "d2", "o3"}
MCUidOf == [m \in MCRegistered |-> CASE m \in {"a1", "b1"} -> 1 [] m = "c0" -> 0
                                     [] m = "d2" -> 2 [] OTHER -> 3]

\* A record that fits, one that is trimmed of its failed check, and one too large.
MCRecords == {[base |-> 2, reason |-> 0, check |-> 0],
              [base |-> 2, reason |-> 1, check |-> 2],
              [base |-> 4, reason |-> 0, check |-> 0]}
=============================================================================
