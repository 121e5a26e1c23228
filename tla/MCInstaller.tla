----------------------------- MODULE MCInstaller -----------------------------
(* Values for TLC. *)
EXTENDS Installer

CONSTANTS theirs, path1, path2

(* A tool's hook, an event with no group, and "hooks" with no event.        *)
MCFound ==
  LET Keyed(hooks) == [rest |-> "none", keyed |-> TRUE, hooks |-> hooks]
  IN { Keyed([e \in {"Stop"} |-> <<Group("any", <<theirs>>)>>]),
       Keyed([e \in {"Stop"} |-> <<>>]), Keyed(NoHooks) }

(* The two paths of the emitter are alike. *)
Symmetry == Permutations({path1, path2})
=============================================================================
