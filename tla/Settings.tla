------------------------------ MODULE Settings ------------------------------
(***************************************************************************)
(* The settings that decide what is allowed and where requests go: the     *)
(* live AppConfig, the commands that change it (/perms, /permission,       *)
(* /sandbox, /allow, /deny, /allowlist, /route and the plain ones of       *)
(* cli/commands/settings.py), ConfigManager.load and save, and the store   *)
(* behind them, which is written once for every setting that changed.      *)
(*                                                                         *)
(* A write of the store is one step here; JsonStore shows what it is made  *)
(* of.  Writes fail (a full disk), the program may stop between two, and   *)
(* its next start may find that it cannot read the file.                   *)
(***************************************************************************)
EXTENDS Permissions, Sequences

CONSTANTS
  Routes,       \* the values of route_strategy that the runs use
  MaxFaults     \* bound: writes that fail, stops between two, reads that fail

ASSUME SettingsAssumption ==
  /\ {"auto", "free-only"} \subseteq Routes
  /\ MaxFaults \in Nat

VARIABLES
  cfg,      \* the live AppConfig
  memory,   \* JsonStore._data
  disk,     \* config.json
  saving,   \* the settings that ConfigManager.save has still to set
  before,   \* ghost: the configuration before the command under way, if one is
  inStep,   \* ghost: the file had what the store holds, since the command began
  behind,   \* ghost: the file has missed a change, or not been read, and had
            \* none since
  faults

setVars == <<cfg, memory, disk, saving, before, inStep, behind, faults>>

Defaults == [mode |-> "ask", profile |-> "coding", route |-> "auto",
             allow |-> {}, deny |-> {}, other |-> FALSE]
Saved == DOMAIN Defaults

\* Mutant of the next: the denylist is forgotten.
SaveOrderWithoutDeny == <<"mode", "other", "route", "profile", "allow">>

\* ConfigManager.save, in its order: sandbox_mode is not among them.  The
\* settings that decide nothing here are one, set in the middle.
SaveOrder == <<"mode", "other", "route", "profile", "allow", "deny">>

\* ConfigManager.load: what the file does not have is at its default, as the
\* sandbox, which is not even looked for, always is; and the environment may put
\* the route over the file's.
Loaded(file, freeTier) ==
  [k \in Saved \cup {"sandbox"} |->
     CASE k = "sandbox" -> "workspace"
       [] k = "route" /\ freeTier -> "free-only"
       [] OTHER -> file[k]]

SettingsInit ==
  /\ cfg = Loaded(Defaults, FALSE)
  /\ memory = Defaults /\ disk = Defaults
  /\ saving = <<>>
  /\ before = cfg /\ inStep = TRUE
  /\ behind = FALSE
  /\ faults = 0

SettingsIdle == saving = <<>>

\* Mutant of the next: the file is reset before it is written again.
ChangeFromDefaults(new) ==
  /\ SettingsIdle
  /\ cfg' = new
  /\ inStep' = TRUE
  /\ saving' = SaveOrder
  /\ memory' = Defaults /\ disk' = Defaults
  /\ UNCHANGED <<before, behind, faults>>

\* A command changes the configuration and saves it.
Change(new) ==
  /\ SettingsIdle
  /\ cfg' = new
  /\ inStep' = (disk = memory)
  /\ saving' = SaveOrder
  /\ UNCHANGED <<memory, disk, before, behind, faults>>

SetMode(m) == Change([cfg EXCEPT !.mode = m])

ModeOf(profile) ==
  CASE profile = "locked" -> "deny_all"
    [] profile = "ci" -> "auto_approve"
    [] OTHER -> "ask"

SetProfile(p) == Change([cfg EXCEPT !.profile = p, !.mode = ModeOf(p)])

\* "read-only" is how the command spells it; the engine looks for "read_only".
\* The command saves, and the save leaves out what it has set.
SetSandbox(s) == Change([cfg EXCEPT !.sandbox = s])

SetRoute(r) == Change([cfg EXCEPT !.route = r])

SetOther == Change([cfg EXCEPT !.other = ~@])

\* A command that is on the list already may be on the other one too, after a
\* stop between the writes of the two: it leaves that one, but nothing is saved.
AddTo(list, from, c) ==
  IF c \in cfg[list]
  THEN /\ SettingsIdle
       /\ cfg' = [cfg EXCEPT ![from] = @ \ {c}]
       /\ before' = cfg'
       /\ behind' = (behind \/ cfg' # cfg)
       /\ UNCHANGED <<memory, disk, saving, inStep, faults>>
  ELSE Change([cfg EXCEPT ![list] = @ \cup {c}, ![from] = @ \ {c}])

Allow(c) == AddTo("allow", "deny", c)
Deny(c) == AddTo("deny", "allow", c)

RemoveFromLists(c) ==
  /\ c \in cfg.allow \cup cfg.deny
  /\ Change([cfg EXCEPT !.allow = @ \ {c}, !.deny = @ \ {c}])

ClearLists == Change([cfg EXCEPT !.allow = {}, !.deny = {}])

-----------------------------------------------------------------------------
(* The store.                                                              *)

\* setValue: a value that the store holds already is not written, whether or
\* not the file has it; otherwise everything is.
SetValue ==
  /\ ~SettingsIdle
  /\ LET k == Head(saving) IN
       IF memory[k] = cfg[k]
       THEN UNCHANGED <<memory, disk, inStep, behind, faults>>
       ELSE /\ memory' = [memory EXCEPT ![k] = cfg[k]]
            /\ \/ /\ disk' = memory' /\ inStep' = TRUE
                  /\ behind' = FALSE
                  /\ UNCHANGED faults
               \/ /\ faults < MaxFaults
                  /\ faults' = faults + 1
                  /\ behind' = TRUE
                  /\ UNCHANGED <<disk, inStep>>
  /\ saving' = Tail(saving)
  /\ before' = IF saving' = <<>> THEN cfg ELSE before
  /\ UNCHANGED cfg

\* The program ends, by /quit or in the middle of a save, and is started again,
\* with or without ILX_FREE_TIER.
StartAgain(freeTier) ==
  /\ SettingsIdle \/ faults < MaxFaults
  /\ faults' = IF SettingsIdle THEN faults ELSE faults + 1
  /\ memory' = disk
  /\ cfg' = Loaded(disk, freeTier)
  /\ saving' = <<>>
  /\ before' = cfg'
  /\ behind' = FALSE
  /\ UNCHANGED <<disk, inStep>>

\* The same where the file, whole as it is, cannot be read: everything is at its
\* default, and the file is put aside or stays.
StartWithNothing(freeTier) ==
  /\ faults < MaxFaults
  /\ faults' = faults + 1
  /\ memory' = Defaults
  /\ disk' \in {disk, Defaults}
  /\ cfg' = Loaded(Defaults, freeTier)
  /\ saving' = <<>>
  /\ before' = cfg'
  /\ behind' = (disk' # Defaults)
  /\ UNCHANGED inStep

SettingsNext ==
  \/ \E m \in Modes : SetMode(m)
  \/ \E p \in DOMAIN Profiles : SetProfile(p)
  \/ \E s \in {"workspace", "read-only", "disabled"} : SetSandbox(s)
  \/ \E r \in Routes : SetRoute(r)
  \/ SetOther
  \/ \E c \in Commands : Allow(c) \/ Deny(c) \/ RemoveFromLists(c)
  \/ ClearLists
  \/ SetValue
  \/ \E freeTier \in BOOLEAN : StartAgain(freeTier) \/ StartWithNothing(freeTier)

SettingsSpec == SettingsInit /\ [][SettingsNext]_setVars

-----------------------------------------------------------------------------
(* What the module promises.                                               *)

\* When a command has returned, the next start finds every setting as it is now,
\* unless a write failed, or the last read, and no write has succeeded since.
\* There are two exceptions: the route, which the environment may decide, and the
\* sandbox, which is back at "workspace" whatever /sandbox has set and saved
\* (ConfigManager.save and load, JsonStore.setValue, the commands that save).
SettingsKept ==
  SettingsIdle /\ ~behind =>
    \A k \in DOMAIN cfg \ {"route"} :
      Loaded(disk, FALSE)[k] = IF k = "sandbox" THEN "workspace" ELSE cfg[k]

\* A program that stopped within a save comes back granting nothing without a
\* question that neither the old settings nor the new ones grant; and, if it can
\* read the file, refusing what both refuse.  That is provided that the mode was
\* the one of the profile, and that the file had the old settings or took a part
\* of the new ones: after a write that failed it has settings from before that
\* (/permission, /allow, /deny).
Own(c) == c.mode = ModeOf(c.profile)
Grants(s, kind, c) == Granted(s, kind, ListDecision(s, c))
Refuses(s, kind, c) == Refused(s, kind, ListDecision(s, c))

WidensNothing(old, new, now) ==
  \A kind \in Kinds, c \in Commands :
    Grants(now, kind, c) => Grants(old, kind, c) \/ Grants(new, kind, c)
RefusesAsBoth(old, new, now) ==
  \A kind \in Kinds, c \in Commands :
    Refuses(old, kind, c) /\ Refuses(new, kind, c) => Refuses(now, kind, c)

CrashWidensNothing ==
  [][~SettingsIdle /\ SettingsIdle' /\ inStep /\ Own(before) /\ Own(cfg) /\ faults' > faults
     => /\ WidensNothing(before, cfg, cfg')
        /\ memory' = disk => RefusesAsBoth(before, cfg, cfg')]_setVars

\* What a settings command leaves: all it has set when it returns, and no more
\* than it may grant when it does not (the two above).
SettingsHold == []SettingsKept /\ CrashWidensNothing

\* sandbox_cmds.py:17: "No writes anywhere".  Under /sandbox read-only no command
\* is run without a question.
ReadOnlyBlocks ==
  cfg.sandbox = "read-only" =>
    \A c \in Commands : Refused(cfg, "execute", ListDecision(cfg, c))
=============================================================================
