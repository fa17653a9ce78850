---------------------------- MODULE SettingsFile ----------------------------
(***************************************************************************)
(* What JsonStore promises the programs that share a configuration file,   *)
(* with the temporary file and the steps of a save left out: the file      *)
(* always has the whole of what one program held; a program starts with    *)
(* what the file has, or with nothing if the read fails, and then the file *)
(* may be gone; what a program has changed comes into the file in one step *)
(* or not at all, whatever fails and whoever stops.                        *)
(*                                                                         *)
(* The file is no place to meet: a program never looks at it again, and    *)
(* writes all it holds over what the others have written.                  *)
(***************************************************************************)

CONSTANTS
  Programs,     \* the programs that share the file
  Contents,     \* the settings that a program may hold
  NoSettings    \* none of them set, which is also what no file means

VARIABLES
  file,     \* the settings in the file
  held,     \* held[p]: the settings in p's memory
  place     \* place[p]: whether p runs, and has a change to write

wholeVars == <<file, held, place>>

WholeInit ==
  /\ file = NoSettings
  /\ held = [p \in Programs |-> NoSettings]
  /\ place = [p \in Programs |-> "down"]

Start(p) ==
  /\ place[p] = "down"
  /\ place' = [place EXCEPT ![p] = "up"]
  /\ held' = [held EXCEPT ![p] = file]
  /\ UNCHANGED file

\* The file cannot be read, and is put aside or stays.
StartUnread(p) ==
  /\ place[p] = "down"
  /\ place' = [place EXCEPT ![p] = "up"]
  /\ held' = [held EXCEPT ![p] = NoSettings]
  /\ file' \in {file, NoSettings}

\* What is changed stays in the memory even if it cannot be written.
Change(p, settings) ==
  /\ place[p] = "up"
  /\ held' = [held EXCEPT ![p] = settings]
  /\ \E to \in {"up", "saving"} : place' = [place EXCEPT ![p] = to]
  /\ UNCHANGED file

Write(p) ==
  /\ place[p] = "saving"
  /\ file' = held[p]
  /\ place' = [place EXCEPT ![p] = "up"]
  /\ UNCHANGED held

GiveUp(p) ==
  /\ place[p] = "saving"
  /\ place' = [place EXCEPT ![p] = "up"]
  /\ UNCHANGED <<file, held>>

Stop(p) ==
  /\ place[p] # "down"
  /\ place' = [place EXCEPT ![p] = "down"]
  /\ held' = [held EXCEPT ![p] = NoSettings]
  /\ UNCHANGED file

WholeNext ==
  \E p \in Programs :
    \/ Start(p) \/ StartUnread(p) \/ Write(p) \/ GiveUp(p) \/ Stop(p)
    \/ \E settings \in Contents : Change(p, settings)

WholeSpec == WholeInit /\ [][WholeNext]_wholeVars
=============================================================================
