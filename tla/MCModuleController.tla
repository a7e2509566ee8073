------------------------- MODULE MCModuleController -------------------------
(***************************************************************************)
(* An instance of ModuleController for TLC: inline code, two repositories,  *)
(* and the default branch, a tag and a commit of one of them.              *)
(***************************************************************************)
EXTENDS ModuleController

MCSpecs ==
    LET git(url, ref, commit) ==
            [inline |-> None, url |-> url, ref |-> ref, commit |-> commit]
    IN  {[inline |-> "code", url |-> None, ref |-> None, commit |-> None],
         git("a", None, None), git("b", None, None), git("a", "v1", None),
         git("a", None, [url |-> "a", ref |-> None, n |-> 0])}

=============================================================================
