------------------------------- MODULE Policy -------------------------------
(***************************************************************************)
(* evaluate_authorization: who may do what to which paths.                 *)
(*                                                                         *)
(* A path is the sequence of its segments.  "/" as a segment stands for an *)
(* absolute path, "\\" for a backslash anywhere.  An actor is a record of  *)
(* its id, group and role ids, workspace and context version; a grant of   *)
(* its principal and the kind of it, workspace, context version, action,   *)
(* path prefix and effect.                                                 *)
(***************************************************************************)
EXTENDS Naturals, Sequences

Valid(path) == path # <<>> /\ \A i \in DOMAIN path : path[i] \notin {"/", "\\", ".."}

\* PurePosixPath drops "." segments; what is left of "." alone is "." again.
Normalize(path) ==
  LET kept == SelectSeq(path, LAMBDA segment : segment # ".")
  IN  IF kept = <<>> THEN <<".">> ELSE kept

\* A prefix ends at a segment: "docs" covers "docs/a", not "docs2/a".
Within(path, prefix) ==
  /\ Valid(prefix)
  /\ LET p == Normalize(path)  q == Normalize(prefix)
     IN  Len(q) <= Len(p) /\ SubSeq(p, 1, Len(q)) = q

MatchesPrincipal(actor, grant) ==
  \/ grant.kind = "user"  /\ grant.principal = actor.id
  \/ grant.kind = "group" /\ grant.principal \in actor.groups
  \/ grant.kind = "role"  /\ grant.principal \in actor.roles

\* The grants that say something about an action of the actor on a path.
Applicable(actor, grants, action, path) ==
  {g \in grants :
     /\ MatchesPrincipal(actor, g)
     /\ g.workspace = actor.workspace /\ g.context = actor.context
     /\ g.action = action /\ Within(path, g.prefix)}

HasEffect(grants, effect) == \E g \in grants : g.effect = effect

RiskState(action) ==
  CASE action = "trash"                           -> "APPROVAL_REQUIRED"
    [] action \in {"move_rename", "create_folder"} -> "SELF_CONFIRM"
    [] OTHER                                      -> "DIRECT"

\* Any denied path denies all; every path needs a grant that allows it.
Evaluate_AnyPathAllowed(actor, grants, action, paths, overwrite) ==
  LET on(path)  == Applicable(actor, grants, action, path)
      allowed   == \E path \in paths : HasEffect(on(path), "ALLOW")
      forbidden == \E path \in paths : HasEffect(on(path), "DENY")
  IN  IF /\ paths # {} /\ \A path \in paths : Valid(path)
         /\ ~(action = "upload" /\ overwrite)
         /\ ~forbidden /\ allowed
      THEN RiskState(action)
      ELSE "DENY"

Evaluate(actor, grants, action, paths, overwrite) ==
  LET on(path)  == Applicable(actor, grants, action, path)
      allowed   == \A path \in paths : HasEffect(on(path), "ALLOW")
      forbidden == \E path \in paths : HasEffect(on(path), "DENY")
  IN  IF /\ paths # {} /\ \A path \in paths : Valid(path)
         /\ ~(action = "upload" /\ overwrite)
         /\ ~forbidden /\ allowed
      THEN RiskState(action)
      ELSE "DENY"
=============================================================================
