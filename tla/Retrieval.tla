------------------------------ MODULE Retrieval ------------------------------
(***************************************************************************)
(* /index over app/core/hybrid_retriever.py, semantic_rag.py and rag.py:   *)
(* the files of the index in memory, their embeddings, embeddings.db,      *)
(* which programs and workspaces share by file name, and the cached        *)
(* answers of queries.  The index does not follow the workspace: a build   *)
(* adds what is there, and nothing is taken out but by the limit or        *)
(* /index clear.                                                           *)
(***************************************************************************)
EXTENDS Naturals, Sequences, SequencesExt

CONSTANTS
  Paths,       \* the files, by their names within a workspace
  Texts,       \* what they may hold; "blank" has no chunks
  MaxFiles     \* RAG._MAX_FILES

ASSUME RetrievalAssumption == "none" \notin Texts /\ MaxFiles \in Nat \ {0}

VARIABLES
  source,      \* source[f]: the text of f in the workspace, or "none"
  indexed,     \* RAG._files, the oldest first
  vectors,     \* vectors[f]: _embeddings: whose text they are of, and whether the
               \* embedding server made them
  embedDb,     \* embedDb[f]: the same for embeddings.db
  toIndex,     \* the files that the build under way has read, with their texts
  answered     \* the files a cached answer was given from, or {}

indexVars == <<source, indexed, vectors, embedDb, toIndex, answered>>

NoVectors == [of |-> "none", made |-> FALSE]
Entry(f, text) == [path |-> f, text |-> text]

RetrievalInit ==
  /\ source = [f \in Paths |-> "none"]
  /\ indexed = <<>>
  /\ vectors = [f \in Paths |-> NoVectors]
  /\ embedDb = [f \in Paths |-> NoVectors]
  /\ toIndex = {}
  /\ answered = {}

RetrievalIdle == toIndex = {}

\* index_folder reads all files first.  One that cannot be read is left out.
BuildIndex ==
  /\ RetrievalIdle
  /\ \E read \in SUBSET {f \in Paths : source[f] # "none"} :
       toIndex' = {Entry(f, source[f]) : f \in read}
  /\ UNCHANGED <<source, indexed, vectors, embedDb, answered>>

\* RAG.add: a file that is there keeps its place; the oldest one goes when
\* there are too many, its embeddings stay.
Put(files, e) ==
  LET known == \E i \in 1..Len(files) : files[i].path = e.path
      all == IF known
             THEN [i \in 1..Len(files) |-> IF files[i].path = e.path THEN e ELSE files[i]]
             ELSE Append(files, e)
  IN IF Len(all) > MaxFiles THEN Tail(all) ELSE all

\* Mutant of the next: what the file was, is not asked.
EmbeddedOnce(e) == embedDb[e.path].of # "none"

\* get_vectors: by the name and the hash of the text.
Embedded(e) == embedDb[e.path].of = e.text

\* SemanticRAG.add: the database's embeddings serve if they are of this text,
\* whether or not the server made them; otherwise it is asked, and what it does
\* not make is filed as empty.
IndexFile ==
  \E e \in toIndex :
    /\ toIndex' = toIndex \ {e}
    /\ indexed' = Put(indexed, e)
    /\ answered' = {}
    /\ IF e.text = "blank"
       THEN /\ vectors' = [vectors EXCEPT ![e.path] = NoVectors]
            /\ UNCHANGED embedDb
       ELSE IF Embedded(e)
       THEN /\ vectors' = [vectors EXCEPT ![e.path] = embedDb[e.path]]
            /\ UNCHANGED embedDb
       ELSE \E made \in BOOLEAN :
              /\ vectors' = [vectors EXCEPT ![e.path] = [of |-> e.text, made |-> made]]
              /\ embedDb' = [embedDb EXCEPT ![e.path] = [of |-> e.text, made |-> made]]
    /\ UNCHANGED source

\* Another program, another workspace, or the runner that /index explain makes
\* for an empty index embeds a file of that name.
IndexElsewhere(f, text) ==
  /\ text # "blank" /\ embedDb[f].of # text
  /\ \E made \in BOOLEAN : embedDb' = [embedDb EXCEPT ![f] = [of |-> text, made |-> made]]
  /\ UNCHANGED <<source, indexed, vectors, toIndex, answered>>

\* A query that the embeddings do not serve, or that cannot be embedded, is
\* answered by RAG.query, which keeps its answers.
QueryIndex ==
  /\ RetrievalIdle /\ indexed # <<>>
  /\ answered' \in {ToSet(indexed), answered}
  /\ answered' = {} => \E e \in ToSet(indexed) : vectors[e.path].made
  /\ UNCHANGED <<source, indexed, vectors, embedDb, toIndex>>

\* clear() of the retriever empties the files, not the embeddings.
ClearIndex ==
  /\ RetrievalIdle
  /\ indexed' = <<>>
  /\ answered' = {}
  /\ UNCHANGED <<source, vectors, embedDb, toIndex>>

\* Somebody edits, makes or removes a file, or the workspace is another one.
SourceChanges ==
  /\ RetrievalIdle
  /\ \E f \in Paths, text \in Texts \cup {"none"} : source' = [source EXCEPT ![f] = text]
  /\ UNCHANGED <<indexed, vectors, embedDb, toIndex, answered>>

\* The program ends, in a build perhaps; the database stays.
IndexLost ==
  /\ indexed' = <<>>
  /\ vectors' = [f \in Paths |-> NoVectors]
  /\ toIndex' = {}
  /\ answered' = {}
  /\ UNCHANGED <<source, embedDb>>

RetrievalNext ==
  \/ BuildIndex \/ IndexFile \/ QueryIndex \/ ClearIndex
  \/ \E f \in Paths, text \in Texts : IndexElsewhere(f, text)
  \/ SourceChanges \/ IndexLost

RetrievalSpec == RetrievalInit /\ [][RetrievalNext]_indexVars

-----------------------------------------------------------------------------
\* What a query looks at is of one piece: every embedding is of the text that is
\* indexed under its name, and a cached answer was given from the files that are
\* there now; over files that change, are left out, come back or are pushed out
\* by the limit, and a database that others write to (SemanticRAG.add, RAG.add,
\* RAG.query).
IndexIsCoherent ==
  /\ \A e \in ToSet(indexed) : vectors[e.path].of \in {e.text, "none"}
  /\ answered # {} => answered = ToSet(indexed)
=============================================================================
