--------------------------- MODULE MCSessionStore ---------------------------
EXTENDS SessionStore, TLC

(* Servers, hook processes and host sessions are interchangeable. *)
Symmetry == Permutations(Servers) \cup Permutations(Hooks)
            \cup Permutations(HostSessions)

(* A consumer pages through the worktree or through a host's session.       *)
MCInit == Init /\ \A c \in Consumers : cursor[c].scope \notin Servers

MCSpec == MCInit /\ [][Next]_vars
=============================================================================
