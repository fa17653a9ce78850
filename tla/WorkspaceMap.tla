---------------------------- MODULE WorkspaceMap ----------------------------
(***************************************************************************)
(* cli/context.py (ContextManager) and app/core/repo_map.py (RepoMap): the *)
(* map of the workspace's signatures that goes into every system prompt.   *)
(* A prompt takes the block that is ready and starts a thread that makes   *)
(* the next one; so do a start and a change of workspace, which also make  *)
(* a new RepoMap.  Threads share the RepoMap without a lock, and one that  *)
(* was started for the last workspace may finish after one for this.       *)
(***************************************************************************)
EXTENDS Naturals, Sequences

CONSTANTS
  Folders,      \* the workspaces that are directories
  NoFolder,     \* one that is not
  Sources,      \* the names of the files in them
  Builders,     \* bound: the builder threads at a time
  MaxEdits,     \* bound: the changes of files
  MaxMaps       \* bound: the RepoMaps, one for every change of workspace

ASSUME MapAssumption == NoFolder \notin Folders /\ MaxEdits \in Nat /\ MaxMaps \in Nat

VARIABLES
  folder,     \* cfg.working_folder
  source,     \* source[d][f]: the stamp and the text of a file, 0 for none
  edits,      \* the changes so far
  maps,       \* the RepoMaps: folder, entries, _loaded, and whether ever built
  current,    \* the one in _repo_map, 0 for None
  cache,      \* cache[d]: what repo_map.json of folder d gives
  block,      \* _repo_map_block
  builder     \* builder[b]: a thread

mapVars == <<folder, source, edits, maps, current, cache, block, builder>>
world == <<folder, source, edits, current>>

None == [stamp |-> 0, text |-> 0]
NoEntries == [f \in Sources |-> None]
NewMap(d) == [folder |-> d, entries |-> NoEntries, loaded |-> FALSE, built |-> FALSE]

\* The prompt shows signatures only.
Block(map) == [folder |-> map.folder, shown |-> [f \in Sources |-> map.entries[f].text]]
NoBlock == [folder |-> NoFolder, shown |-> [f \in Sources |-> 0]]

Vacant == [at |-> "free"]
Thread(place, m) ==
  [at |-> place, map |-> m, stamp |-> [f \in Sources |-> 0], todo |-> {},
   text |-> NoEntries, block |-> NoBlock]
Started == [at |-> "begin"]

\* An earlier run of the program has left its cache.
MapInit ==
  /\ folder \in Folders
  /\ source = [d \in Folders |-> [f \in Sources |-> 1]]
  /\ edits = 0
  /\ maps = <<NewMap(folder)>>
  /\ current = 1
  /\ cache = [d \in Folders |-> [f \in Sources |-> [stamp |-> 1, text |-> 1]]]
  /\ block = NoBlock
  /\ LET first == CHOOSE b \in Builders : TRUE
     IN builder = [b \in Builders |-> IF b = first THEN Started ELSE Vacant]

-----------------------------------------------------------------------------
(* The main thread, and the user's editor.                                 *)

\* _schedule_repo_map_rebuild: a thread of its own, in any slot that is free.
StartBuilder ==
  /\ \E b \in Builders : builder[b] = Vacant
  /\ LET slot == CHOOSE b \in Builders : builder[b] = Vacant
     IN builder' = [builder EXCEPT ![slot] = Started]

\* build_system_prompt
Prompt ==
  /\ current # 0
  /\ StartBuilder
  /\ UNCHANGED <<world, maps, cache, block>>

\* set_workspace, _refresh_repo_map
SetFolder ==
  /\ Len(maps) < MaxMaps
  /\ folder' \in (Folders \cup {NoFolder}) \ {folder}
  /\ IF folder' \in Folders
     THEN /\ maps' = Append(maps, NewMap(folder'))
          /\ current' = Len(maps')
          /\ StartBuilder
     ELSE current' = 0 /\ UNCHANGED <<maps, builder>>
  /\ UNCHANGED <<source, edits, cache, block>>

\* A file is written, made or deleted.  A new text comes with a new stamp.
EditSource ==
  /\ edits < MaxEdits
  /\ edits' = edits + 1
  /\ \E d \in Folders, f \in Sources, v \in {0, edits' + 1} :
       source' = [source EXCEPT ![d][f] = v]
  /\ UNCHANGED <<folder, maps, current, cache, block, builder>>

-----------------------------------------------------------------------------
(* A builder: _build, RepoMap.build, to_prompt_block.                      *)

At(b, place) == builder[b].at = place
Map(b) == maps[builder[b].map]
Move(b, place) == builder' = [builder EXCEPT ![b].at = place]
End(b) == builder' = [builder EXCEPT ![b] = Vacant]
SetEntries(b, entries) == maps' = [maps EXCEPT ![builder[b].map].entries = entries]

\* _load_cache marks the map as loaded before it reads.
BeginBuild(b) ==
  /\ At(b, "begin")
  /\ IF current = 0 THEN End(b) /\ UNCHANGED maps
     ELSE /\ builder' = [builder EXCEPT
               ![b] = Thread(IF maps[current].loaded THEN "list" ELSE "load", current)]
          /\ maps' = [maps EXCEPT ![current].loaded = TRUE]
  /\ UNCHANGED <<world, cache, block>>

LoadCache(b) ==
  /\ At(b, "load")
  /\ LET saved == cache[Map(b).folder]
     IN SetEntries(b, [f \in Sources |->
                         IF saved[f] = None THEN Map(b).entries[f] ELSE saved[f]])
  /\ Move(b, "list")
  /\ UNCHANGED <<world, cache, block>>

\* The files are listed with their stamps; those whose entry has another one are
\* read, and all of them in a first build or five minutes after the last one.
ListSources(b) ==
  /\ At(b, "list")
  /\ LET files == source[Map(b).folder]
         present == {f \in Sources : files[f] # 0}
     IN \E force \in IF Map(b).built THEN BOOLEAN ELSE {TRUE} :
          builder' = [builder EXCEPT
            ![b].at = "index",
            ![b].stamp = files,
            ![b].todo = {f \in present : force \/ Map(b).entries[f].stamp # files[f]}]
  /\ UNCHANGED <<world, maps, cache, block>>

\* _index_file, in a pool; a file that is gone has no signatures.
ReadSource(b, f) ==
  /\ At(b, "index") /\ f \in builder[b].todo /\ builder[b].text[f] = None
  /\ builder' = [builder EXCEPT
       ![b].text[f] = [stamp |-> builder[b].stamp[f], text |-> source[Map(b).folder][f]]]
  /\ UNCHANGED <<world, maps, cache, block>>

\* Mutant of the next: the stamp is looked up again.
StoreRestamped(b, f) ==
  /\ At(b, "index") /\ f \in builder[b].todo /\ builder[b].text[f] # None
  /\ SetEntries(b, [Map(b).entries EXCEPT ![f] =
                      [stamp |-> source[Map(b).folder][f], text |-> builder[b].text[f].text]])
  /\ builder' = [builder EXCEPT ![b].todo = @ \ {f}]
  /\ UNCHANGED <<world, cache, block>>

\* The entry gets the stamp of the listing.
StoreEntry(b, f) ==
  /\ At(b, "index") /\ f \in builder[b].todo /\ builder[b].text[f] # None
  /\ SetEntries(b, [Map(b).entries EXCEPT ![f] = builder[b].text[f]])
  /\ builder' = [builder EXCEPT ![b].todo = @ \ {f}]
  /\ UNCHANGED <<world, cache, block>>

\* The entries of files that were not listed go.
Prune(b) ==
  /\ At(b, "index") /\ builder[b].todo = {}
  /\ LET listed == [f \in Sources |->
                      IF builder[b].stamp[f] = 0 THEN None ELSE Map(b).entries[f]]
     IN maps' = [maps EXCEPT ![builder[b].map].entries = listed,
                             ![builder[b].map].built = TRUE]
  /\ builder' = [builder EXCEPT ![b] = Thread("save", builder[b].map)]
  /\ UNCHANGED <<world, cache, block>>

\* Another thread is about to put a name into the entries of map m, or to take
\* one out: whoever runs through them meanwhile gets a RuntimeError.
Resizes(c, m) ==
  /\ builder[c].at \in {"load", "index"}
  /\ builder[c].map = m
  /\ \E f \in Sources :
       \/ At(c, "load") /\ cache[maps[m].folder][f] # None /\ maps[m].entries[f] = None
       \/ At(c, "index") /\ f \in builder[c].todo /\ maps[m].entries[f] = None
       \/ At(c, "index") /\ builder[c].stamp[f] = 0 /\ maps[m].entries[f] # None

Disturbed(b, m) == \E c \in Builders \ {b} : Resizes(c, m)

\* _save_cache: an error leaves a file that does not parse.
SaveCache(b) ==
  /\ At(b, "save")
  /\ \/ /\ \E saved \in {Map(b).entries, NoEntries} :
             cache' = [cache EXCEPT ![Map(b).folder] = saved]
        /\ Move(b, "render")
     \/ /\ Disturbed(b, builder[b].map)
        /\ End(b) /\ UNCHANGED cache
  /\ UNCHANGED <<world, maps, block>>

\* to_prompt_block is asked of the map that is in _repo_map now.
Render(b) ==
  /\ At(b, "render")
  /\ \/ /\ current # 0
        /\ builder' = [builder EXCEPT ![b].at = "publish", ![b].block = Block(maps[current])]
     \/ /\ current = 0 \/ Disturbed(b, current)
        /\ End(b)
  /\ UNCHANGED <<world, maps, cache, block>>

Publish(b) ==
  /\ At(b, "publish")
  /\ block' = builder[b].block
  /\ End(b)
  /\ UNCHANGED <<world, maps, cache>>

BuilderStep(b) ==
  \/ BeginBuild(b) \/ LoadCache(b) \/ ListSources(b)
  \/ \E f \in Sources : ReadSource(b, f) \/ StoreEntry(b, f)
  \/ Prune(b) \/ SaveCache(b) \/ Render(b) \/ Publish(b)

MapNext ==
  \/ Prompt \/ SetFolder \/ EditSource
  \/ \E b \in Builders : BuilderStep(b)

\* A started thread goes on.
MapFairness == \A b \in Builders : WF_mapVars(BuilderStep(b))

MapSpec == MapInit /\ [][MapNext]_mapVars /\ MapFairness

-----------------------------------------------------------------------------
\* Once the user leaves the workspace and its files alone but goes on asking,
\* every prompt has the map of this workspace as its files are, whatever threads
\* of earlier workspaces were under way (build_system_prompt, _build, build).
Ready ==
  current # 0 =>
    block = [folder |-> folder, shown |-> source[folder]]

MapCatchesUp == []<><<Prompt>>_mapVars => <>[]Ready
=============================================================================
