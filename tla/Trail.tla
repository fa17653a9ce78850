------------------------------- MODULE Trail --------------------------------
(***************************************************************************)
(* app/core/audit.py and its readers: the audit trail that every program   *)
(* of the user appends to.  A program's threads log one at a time; other   *)
(* programs know nothing of its lock.  Whoever finds the file too long     *)
(* renames it by the second and removes the oldest of those files but      *)
(* MAX_KEEP; /audit and /trust read only the one that is written to now.   *)
(* A record is its session, its event and its number in the session; what  *)
(* else is in it, with secrets struck out, is left out.                    *)
(***************************************************************************)
EXTENDS Integers, SequencesExt, FiniteSets

CONSTANTS
  Loggers,      \* the programs that run at a time
  MaxBytes,     \* _MAX_BYTES, in records
  MaxKeep,      \* _MAX_KEEP
  EventNames,   \* the kinds of records
  QueryLimit,   \* the records a query returns at most
  TailLengths,  \* the numbers given to /audit replay and explain
  MaxLogged,    \* bound: the records of all programs
  MaxSecond,    \* bound: the seconds that pass
  MaxSids       \* bound: the sessions

ASSUME TrailAssumption ==
  /\ IsFiniteSet(Loggers)
  /\ MaxBytes \in Nat \ {0} /\ MaxKeep \in Nat \ {0} /\ QueryLimit \in Nat \ {0}
  /\ TailLengths \subseteq Int

VARIABLES
  trail,      \* audit.log: the number of a file, 0 for none
  filed,    \* filed[i]: the records of file i
  rotated,    \* rotated[t]: the file whose name has second t
  second,     \* the time
  logger,     \* logger[p]: the session of program p, and where log_event is
  appended,   \* appended[s]: the records session s has written
  told,       \* the records the last step has shown, if it was /audit or /trust
  lapse       \* ghost: a write failed, or two files were given one name

trailFiles == <<trail, filed, rotated>>
trailVars == <<trailFiles, second, logger, appended, told, lapse>>

NewLogger(s) == [sid |-> s, at |-> "idle", event |-> "none", file |-> 0]

TrailInit ==
  /\ trail = 0 /\ filed = <<>>
  /\ rotated = [t \in {} |-> 0]
  /\ second = 0
  /\ logger = LET sid == CHOOSE f \in [Loggers -> 1..Cardinality(Loggers)] :
                          \A p, q \in Loggers : p # q => f[p] # f[q]
              IN [p \in Loggers |-> NewLogger(sid[p])]
  /\ appended = [i \in 1..Cardinality(Loggers) |-> 0]
  /\ told = <<>>
  /\ lapse = FALSE

-----------------------------------------------------------------------------
(* log_event, under the lock of its program.                               *)

Goes(p, place) == logger' = [logger EXCEPT ![p].at = place]
ShowsNothing == told' = <<>>
NumberLogged == FoldSeq(LAMBDA n, sum : n + sum, 0, appended)

LogEvent(p) ==
  /\ logger[p].at = "idle"
  /\ NumberLogged < MaxLogged
  /\ \E e \in EventNames : logger' = [logger EXCEPT ![p].at = "check", ![p].event = e]
  /\ ShowsNothing /\ UNCHANGED <<trailFiles, second, appended, lapse>>

\* _rotate_if_needed: the length, the new name, and what is removed.
CheckLength(p) ==
  /\ logger[p].at = "check"
  /\ Goes(p, IF trail # 0 /\ Len(filed[trail]) >= MaxBytes THEN "rename" ELSE "open")
  /\ ShowsNothing /\ UNCHANGED <<trailFiles, second, appended, lapse>>

\* The file may be gone, or be a new one.
RenameTrail(p) ==
  /\ logger[p].at = "rename"
  /\ IF trail = 0
     THEN Goes(p, "open") /\ UNCHANGED <<trail, rotated, lapse>>
     ELSE /\ trail' = 0
          /\ rotated' = [t \in DOMAIN rotated \cup {second} |->
                           IF t = second THEN trail ELSE rotated[t]]
          /\ lapse' = (lapse \/ second \in DOMAIN rotated)
          /\ Goes(p, "prune")
  /\ ShowsNothing /\ UNCHANGED <<filed, second, appended>>

\* Mutant of the next: the first MaxKeep names go.
OldestKept(names) == {t \in names : Cardinality({u \in names : u < t}) < MaxKeep}
\* siblings[:-_MAX_KEEP], by name
Surplus(names) == {t \in names : Cardinality({u \in names : u > t}) >= MaxKeep}

PruneRotated(p) ==
  /\ logger[p].at = "prune"
  /\ rotated' = [t \in DOMAIN rotated \ Surplus(DOMAIN rotated) |-> rotated[t]]
  /\ Goes(p, "open")
  /\ ShowsNothing /\ UNCHANGED <<trail, filed, second, appended, lapse>>

OpenTrail(p) ==
  /\ logger[p].at = "open"
  /\ IF trail = 0
     THEN trail' = Len(filed) + 1 /\ filed' = Append(filed, <<>>)
     ELSE UNCHANGED <<trail, filed>>
  /\ logger' = [logger EXCEPT ![p].at = "write", ![p].file = trail']
  /\ ShowsNothing /\ UNCHANGED <<rotated, second, appended, lapse>>

\* The file that was opened is written to, whatever its name is by now.  An
\* error loses the record, and nobody is told.
AppendRecord(p) ==
  /\ logger[p].at = "write"
  /\ LET s == logger[p].sid
     IN \/ /\ filed' = [filed EXCEPT ![logger[p].file] =
                            Append(@, [sid |-> s, event |-> logger[p].event,
                                       number |-> appended[s] + 1])]
           /\ appended' = [appended EXCEPT ![s] = @ + 1]
           /\ UNCHANGED lapse
        \/ /\ lapse' = TRUE
           /\ UNCHANGED <<filed, appended>>
  /\ logger' = [logger EXCEPT ![p] = NewLogger(@.sid)]
  /\ ShowsNothing /\ UNCHANGED <<trail, rotated, second>>

\* A program ends wherever it is; the next one calls init_session.
StartSession(p) ==
  /\ Len(appended) < MaxSids
  /\ appended' = Append(appended, 0)
  /\ logger' = [logger EXCEPT ![p] = NewLogger(Len(appended'))]
  /\ ShowsNothing /\ UNCHANGED <<trailFiles, second, lapse>>

SecondPasses ==
  /\ second < MaxSecond
  /\ second' = second + 1
  /\ ShowsNothing /\ UNCHANGED <<trailFiles, logger, appended, lapse>>

-----------------------------------------------------------------------------
(* The readers, in the main thread of a program.                           *)

\* _read_log_records; a file that is not there, or not readable, has none.
LogRecords == IF trail = 0 THEN <<>> ELSE filed[trail]

\* records[-limit:]: 0 gives them all, and a negative number drops the first.
LastRecords(limit) ==
  LET n == Len(LogRecords)
      first == IF limit > 0 THEN n - limit ELSE -limit
  IN SubSeq(LogRecords, (IF first < 0 THEN 0 ELSE first) + 1, n)

\* audit.query: the newest come first, and no more than the limit.
Query(event, sid) ==
  LET places == {i \in DOMAIN LogRecords : LogRecords[i].event = event /\ LogRecords[i].sid = sid}
      found == Cardinality(places)
      Newest(n) == CHOOSE i \in places : Cardinality({j \in places : j > i}) = n - 1
  IN [n \in 1..(IF found < QueryLimit THEN found ELSE QueryLimit) |-> LogRecords[Newest(n)]]

Reads == UNCHANGED <<trailFiles, second, logger, appended, lapse>>

\* /audit replay shows the last records, or those of today, which are all here.
Replay ==
  /\ \/ \E limit \in TailLengths : told' = LastRecords(limit)
     \/ told' = LogRecords
  /\ Reads

\* /audit explain gives the last records to the model, or counts them when that
\* fails.
Explain ==
  /\ \E limit \in TailLengths : told' = LastRecords(limit)
  /\ Reads

\* for_current_session asks for one kind of event after the other; /trust shows
\* them as they come.
SessionRecords(sid) == {Query(e, sid) : e \in EventNames}

Trust(p) ==
  /\ told' \in SessionRecords(logger[p].sid)
  /\ Reads

\* /audit export shows all records, or puts them into a file.
Export ==
  /\ LogRecords # <<>>
  /\ told' = LogRecords
  /\ Reads

TrailNext ==
  \/ \E p \in Loggers :
       \/ LogEvent(p) \/ CheckLength(p) \/ RenameTrail(p) \/ PruneRotated(p)
       \/ OpenTrail(p) \/ AppendRecord(p)
       \/ StartSession(p) \/ Trust(p)
  \/ SecondPasses
  \/ Replay \/ Explain \/ Export

TrailSpec == TrailInit /\ [][TrailNext]_trailVars

-----------------------------------------------------------------------------
(* What can still be read: the files by name, the one that is written to   *)
(* now last, and of a session its records by the file and the line.        *)
FileNames == DOMAIN rotated \cup (IF trail = 0 THEN {} ELSE {second + 1})
FileOf(name) == filed[IF name \in DOMAIN rotated THEN rotated[name] ELSE trail]

RecordsOf(sid, these) == {i \in DOMAIN these : these[i].sid = sid}
StillThere(sid) == UNION {{name} \X RecordsOf(sid, FileOf(name)) : name \in FileNames}
NumberAt(place) == FileOf(place[1])[place[2]].number
Above(place, other) == place[1] < other[1] \/ (place[1] = other[1] /\ place[2] < other[2])

\* Of every session the last records can be read, in order and without a gap, and
\* all of them as long as fewer than _MAX_KEEP files have been put aside, unless
\* a write failed or two files got one name (log_event, _rotate_if_needed, by
\* programs that share the file).
LastRecordsThere(sid) ==
  LET left == StillThere(sid)
      numbers == {NumberAt(place) : place \in left}
  IN /\ \A place, other \in left : Above(place, other) => NumberAt(place) < NumberAt(other)
     /\ \A n \in numbers : n \in 1..appended[sid] /\ n..appended[sid] \subseteq numbers
     /\ numbers = 1..appended[sid] \/ Cardinality(DOMAIN rotated) >= MaxKeep

\* What is shown of a session is in order, or the other way round.
ShownInOrder(sid) ==
  \/ \A i, j \in RecordsOf(sid, told) : i < j => told[i].number < told[j].number
  \/ \A i, j \in RecordsOf(sid, told) : i < j => told[i].number > told[j].number

\* The trail loses nothing but the oldest, and its readers keep the order.
TrailKept == \A sid \in DOMAIN appended : (~lapse => LastRecordsThere(sid)) /\ ShownInOrder(sid)
=============================================================================
