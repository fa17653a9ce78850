---------------------------- MODULE Permissions ----------------------------
(***************************************************************************)
(* app/core/permissions.py and permission_profiles.py: what                *)
(* PermissionEngine.request_permission() decides before it asks anybody.   *)
(*                                                                         *)
(* A configuration is the record of the settings the engine looks at:      *)
(*   mode     permission_mode                                              *)
(*   profile  permission_profile                                           *)
(*   sandbox  sandbox_mode                                                 *)
(*   allow, deny   the commands that match command_allowlist, _denylist    *)
(***************************************************************************)
EXTENDS Naturals, FiniteSets

CONSTANT Commands   \* the commands a model may ask for

Modes == {"ask", "auto_approve", "deny_all"}
Sandboxes == {"workspace", "read_only", "disabled"}

\* The kinds that tool calls come under.  The callback hands over "read" for
\* read_file, list_dir and fetch_url, which the engine does not know and
\* takes for "write".
Kinds == {"write", "execute"}
KindOf(opType) == IF opType = "execute" THEN "execute" ELSE "write"

\* PROFILES, in the two columns that _apply_profile looks up for those kinds.
Everywhere(behavior) == [kind \in Kinds |-> behavior]
Profiles == [safe   |-> Everywhere("ask"),
             coding |-> Everywhere("ask"),
             review |-> Everywhere("deny"),
             ci     |-> Everywhere("auto"),
             locked |-> Everywhere("deny")]

Configuration ==
  [mode : Modes, profile : DOMAIN Profiles, sandbox : Sandboxes,
   allow : SUBSET Commands, deny : SUBSET Commands]

\* _check_command_lists(): the denylist is read first.
ListDecision(cfg, command) ==
  CASE command \in cfg.deny -> "deny"
    [] command \in cfg.allow \ cfg.deny -> "allow"
    [] OTHER -> "none"

\* Refused without a question.  listed is the ListDecision of the text the
\* engine is shown; the lists only count for commands, and what they say
\* goes before the sandbox, the mode and the profile.
Refused(cfg, kind, listed) ==
  \/ kind = "execute" /\ listed = "deny"
  \/ /\ ~(kind = "execute" /\ listed = "allow")
     /\ \/ kind = "execute" /\ cfg.sandbox = "read_only"
        \/ cfg.mode = "deny_all"
        \/ Profiles[cfg.profile][kind] = "deny"

\* Granted without a question.
Granted(cfg, kind, listed) ==
  /\ ~Refused(cfg, kind, listed)
  /\ \/ kind = "execute" /\ listed = "allow"
     \/ Profiles[cfg.profile][kind] = "auto"
     \/ cfg.mode = "auto_approve"
=============================================================================
