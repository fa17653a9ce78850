------------------------------ MODULE JsonStore ------------------------------
(***************************************************************************)
(* app/core/json_store.py: config.json, which every program of the user    *)
(* loads at its start and replaces as a whole at every change, by way of   *)
(* config.json.tmp.  Inside a program a lock keeps saves apart; two        *)
(* programs share both names.  A name is a link to a file: a program that  *)
(* has opened a file goes on writing to it after somebody renamed it.      *)
(***************************************************************************)
EXTENDS Naturals, FiniteSets

CONSTANTS
  Programs,    \* the programs that run at the same time
  Files,       \* the files of the directory, linked or only open
  NoLink,
  Contents,    \* the settings that the runs use, each set as a whole
  NoSettings,  \* {}: nothing is set
  Torn     \* what a file has whose writing has not come to its end

ASSUME StoreAssumption ==
  /\ NoLink \notin Files
  /\ IsFiniteSet(Files) /\ IsFiniteSet(Programs)
  /\ Cardinality(Files) >= Cardinality(Programs) + 3
  /\ NoSettings \in Contents /\ Torn \notin Contents

VARIABLES
  config, tmp, corrupt,   \* what the three names link to
  content,                \* content[f]: what file f has
  held,                   \* held[p]: JsonStore._data of program p
  storePc,                \* where the save of each program is
  handle,                 \* handle[p]: the file p has open
  overlapped              \* ghost: two saves have overlapped

storeVars == <<config, tmp, corrupt, content, held, storePc, handle, overlapped>>

StoreInit ==
  /\ config = NoLink /\ tmp = NoLink /\ corrupt = NoLink
  /\ content = [f \in Files |-> Torn]
  /\ held = [p \in Programs |-> NoSettings]
  /\ storePc = [p \in Programs |-> "down"]
  /\ handle = [p \in Programs |-> NoLink]
  /\ overlapped = FALSE

\* A new file is one that nothing links to and nobody has open.
NewFile ==
  CHOOSE f \in Files : f \notin {config, tmp, corrupt} \cup {handle[p] : p \in Programs}
Names == <<config, tmp, corrupt>>
Saving == {p \in Programs : storePc[p] \in {"open", "written"}}

\* What config.json has for a program that can read it.
Found == IF config = NoLink THEN NoSettings ELSE content[config]

\* _load and _read_json.  With a file that does not parse, or cannot be read this
\* once though it is whole, the program starts with nothing, and the file is moved
\* out of the way if it can be.  (Where the text is cut within a character the
\* program does not start at all: that changes nothing here.)
Load(p) ==
  /\ storePc[p] = "down"
  /\ storePc' = [storePc EXCEPT ![p] = "up"]
  /\ \/ /\ Found # Torn
        /\ held' = [held EXCEPT ![p] = Found]
        /\ UNCHANGED <<config, corrupt>>
     \/ /\ config # NoLink
        /\ held' = [held EXCEPT ![p] = NoSettings]
        /\ \/ corrupt' = config /\ config' = NoLink
           \/ UNCHANGED <<config, corrupt>>
  /\ UNCHANGED <<tmp, content, handle, overlapped>>

\* setValue and remove do nothing when nothing changes; reset always saves.
Changes(p, settings) == settings # held[p] \/ settings = NoSettings

\* Mutant of the next: the configuration file itself is opened.
OpenInPlace(p, settings) ==
  /\ storePc[p] = "up" /\ Changes(p, settings)
  /\ held' = [held EXCEPT ![p] = settings]
  /\ tmp' = IF config = NoLink THEN NewFile ELSE config
  /\ content' = [content EXCEPT ![tmp'] = Torn]
  /\ handle' = [handle EXCEPT ![p] = tmp']
  /\ storePc' = [storePc EXCEPT ![p] = "open"]
  /\ overlapped' = (overlapped \/ Saving # {})
  /\ UNCHANGED <<config, corrupt>>

\* setValue, remove and reset change the memory and come to _save_locked, which
\* empties the temporary file or makes one.
OpenTmp(p, settings) ==
  /\ storePc[p] = "up" /\ Changes(p, settings)
  /\ held' = [held EXCEPT ![p] = settings]
  /\ tmp' = IF tmp = NoLink THEN NewFile ELSE tmp
  /\ content' = [content EXCEPT ![tmp'] = Torn]
  /\ handle' = [handle EXCEPT ![p] = tmp']
  /\ storePc' = [storePc EXCEPT ![p] = "open"]
  /\ overlapped' = (overlapped \/ Saving # {})
  /\ UNCHANGED <<config, corrupt>>

\* The same where the directory is not there and cannot be made, or the temporary
\* file not be opened: then the one of that name goes, whoever made it.
NotOpened(p, settings) ==
  /\ storePc[p] = "up" /\ Changes(p, settings)
  /\ held' = [held EXCEPT ![p] = settings]
  /\ tmp' \in {tmp, NoLink}
  /\ UNCHANGED <<config, corrupt, content, storePc, handle, overlapped>>

FillTmp(p) ==
  /\ storePc[p] = "open"
  /\ content' = [content EXCEPT ![handle[p]] = held[p]]
  /\ handle' = [handle EXCEPT ![p] = NoLink]
  /\ storePc' = [storePc EXCEPT ![p] = "written"]
  /\ UNCHANGED <<Names, held, overlapped>>

\* os.replace moves whatever has the name now; without one it is an OSError.
Replace(p) ==
  /\ storePc[p] = "written"
  /\ config' = IF tmp = NoLink THEN config ELSE tmp
  /\ tmp' = NoLink
  /\ storePc' = [storePc EXCEPT ![p] = "up"]
  /\ UNCHANGED <<corrupt, content, held, handle, overlapped>>

\* The write or the replacement fails (a full disk): the temporary file goes,
\* or stays as it is if it cannot be removed.
SaveFails(p) ==
  /\ storePc[p] \in {"open", "written"}
  /\ tmp' \in {tmp, NoLink}
  /\ handle' = [handle EXCEPT ![p] = NoLink]
  /\ storePc' = [storePc EXCEPT ![p] = "up"]
  /\ UNCHANGED <<config, corrupt, content, held, overlapped>>

\* The program ends, at any point, and its memory with it.
Down(p) ==
  /\ storePc[p] # "down"
  /\ storePc' = [storePc EXCEPT ![p] = "down"]
  /\ handle' = [handle EXCEPT ![p] = NoLink]
  /\ held' = [held EXCEPT ![p] = NoSettings]
  /\ UNCHANGED <<Names, content, overlapped>>

StoreNext ==
  \E p \in Programs :
    \/ Load(p) \/ FillTmp(p) \/ Replace(p) \/ SaveFails(p) \/ Down(p)
    \/ \E settings \in Contents : OpenTmp(p, settings) \/ NotOpened(p, settings)

StoreSpec == StoreInit /\ [][StoreNext]_storeVars

-----------------------------------------------------------------------------
Whole == INSTANCE SettingsFile WITH
  file <- Found,
  place <- [p \in Programs |-> IF p \in Saving THEN "saving" ELSE storePc[p]]

\* Whatever moment a program starts at, and wherever another one has stopped or
\* failed, a save has come into the configuration file as a whole or has left the
\* one before: every step is one of a file that is written in one step, until two
\* programs have saved at the same time.  Settings are lost only to a program that
\* starts and cannot read the file, which it may put aside, whole as it is, and
\* begin with nothing (JsonStore._save_locked, _read_json).
SavesAreWhole ==
  [][overlapped' \/ UNCHANGED Whole!wholeVars \/ Whole!WholeNext]_storeVars
=============================================================================
