------------------------------ MODULE DebugRun ------------------------------
(***************************************************************************)
(* cli/debug_runner.py: run_interactive, as /debug calls it.  The main     *)
(* thread asks the terminal for lines and looks at the process between     *)
(* them, one thread feeds it the lines, and one thread for each of stdout  *)
(* and stderr records what it writes: in the list that the JSON log is     *)
(* made of, and then in the text log, which is open until the main thread  *)
(* has waited for both.  Lines of a stream keep their order, so a number   *)
(* says how many of them have come how far.  Every write of a log may fail *)
(* (a full disk): that of a line ends the thread that makes it.            *)
(***************************************************************************)
EXTENDS Naturals

CONSTANTS
  MaxLines    \* bound: the lines of a stream

ASSUME DebugAssumption == MaxLines \in Nat

VARIABLES
  process,    \* "none", "running", "stopping" (after SIGTERM), "exited"
  keepers,    \* the pipes that a process started by this one still holds
  written,    \* written[s]: the lines of stream s so far
  listed,     \* listed[s]: those of them in the list of lines
  logged,     \* logged[s]: those in the text log
  json,       \* json[s]: those in the JSON log
  logOpen,    \* whether the text log is open
  main,       \* where run_interactive is
  outputReader, \* outputReader[s]: where the thread of stream s is
  feeder,     \* where the thread that writes to stdin is
  queue,      \* the lines in stdin_q
  asking,     \* stdin_available
  gaveUp,     \* the threads that join has not waited for to the end
  failed,     \* the streams whose thread a failed write has ended, and "json"
  raising     \* run_interactive ends by an exception

debugVars == <<process, keepers, written, listed, logged, json, logOpen, main,
               outputReader, feeder, queue, asking, gaveUp, failed, raising>>
records == <<listed, logged>>
pipes == <<keepers, written>>
threads == <<outputReader, feeder>>

Outputs == {"stdout", "stderr"}
Recorded == Outputs \cup {"stdin"}
Nothing == [s \in Recorded |-> 0]

DebugInit ==
  /\ process = "none" /\ keepers = {}
  /\ written = Nothing /\ listed = Nothing /\ logged = Nothing /\ json = Nothing
  /\ logOpen = FALSE
  /\ main = "start"
  /\ outputReader = [s \in Outputs |-> "none"] /\ feeder = "none"
  /\ queue = 0 /\ asking = TRUE
  /\ gaveUp = {} /\ failed = {} /\ raising = FALSE

-----------------------------------------------------------------------------
(* The main thread.                                                        *)

\* The log is opened; Popen starts the program or fails, and then there is a
\* report and a text log but no JSON log.  A log that cannot be opened, or takes
\* no line, ends it all.
LaunchProgram ==
  /\ main = "start"
  /\ \/ /\ process' = "running" /\ main' = "poll" /\ logOpen' = TRUE
        /\ outputReader' = [s \in Outputs |-> "reading"] /\ feeder' = "waiting"
        /\ UNCHANGED raising
     \/ /\ main' = "launch failed"
        /\ UNCHANGED <<process, logOpen, threads, raising>>
     \/ /\ main' = "raised" /\ raising' = TRUE
        /\ UNCHANGED <<process, logOpen, threads>>
  /\ UNCHANGED <<pipes, records, json, queue, asking, gaveUp, failed>>

InMain ==
  UNCHANGED <<pipes, records, threads, gaveUp, failed>>

\* poll, and then the terminal; once that has failed, a nap of 50 ms.
Poll ==
  /\ main = "poll"
  /\ main' = IF process = "exited" THEN "finally" ELSE IF asking THEN "input" ELSE "nap"
  /\ InMain /\ UNCHANGED <<process, json, logOpen, queue, asking, raising>>

\* input() gives a line or fails, whatever has become of the process.
Input ==
  /\ main = "input"
  /\ main' = "poll"
  /\ \/ asking' = FALSE /\ UNCHANGED <<queue, written>>
     \/ /\ written["stdin"] < MaxLines
        /\ written' = [written EXCEPT !["stdin"] = @ + 1]
        /\ queue' = queue + 1
        /\ UNCHANGED asking
  /\ UNCHANGED <<process, keepers, records, json, logOpen, threads, gaveUp, failed, raising>>

NapOver ==
  /\ main = "nap"
  /\ main' = "poll"
  /\ InMain /\ UNCHANGED <<process, json, logOpen, queue, asking, raising>>

\* Ctrl-C is caught at the terminal only, where it terminates the process once
\* the log has taken a line that says so.
Interrupted ==
  /\ main \in {"input", "nap"}
  /\ main' = "finally"
  /\ \/ /\ main = "input"
        /\ process' = IF process = "running" THEN "stopping" ELSE process
        /\ UNCHANGED raising
     \/ raising' = TRUE /\ UNCHANGED process
  /\ InMain /\ UNCHANGED <<json, logOpen, queue, asking>>

\* None goes into stdin_q behind the lines, stdin is closed, and the process
\* has five seconds: the exception of a wait that fails leaves the log open.
WaitForProcess ==
  /\ main = "finally"
  /\ IF process = "exited"
     THEN main' = "join stdout" /\ UNCHANGED raising
     ELSE main' = "raised" /\ raising' = TRUE
  /\ InMain /\ UNCHANGED <<process, json, logOpen, queue, asking>>

\* Mutant of the next: the threads are not waited for.
JoinNobody(s, here, next) ==
  /\ main = here
  /\ main' = next
  /\ UNCHANGED <<process, pipes, records, threads, gaveUp, failed, json, logOpen, queue, asking, raising>>

\* join waits for an output reader for two seconds.
Join(s, here, next) ==
  /\ main = here
  /\ main' = next
  /\ gaveUp' = IF outputReader[s] \in {"done", "dead"} THEN gaveUp ELSE gaveUp \cup {s}
  /\ UNCHANGED <<process, pipes, records, threads, failed, json, logOpen, queue, asking, raising>>

\* "Exit" is recorded, and the text log closed; either may raise.
CloseLog ==
  /\ main = "close"
  /\ \/ /\ logOpen' = FALSE
        /\ main' = IF raising THEN "raised" ELSE "json"
        /\ UNCHANGED raising
     \/ main' = "raised" /\ raising' = TRUE /\ UNCHANGED logOpen
  /\ InMain /\ UNCHANGED <<process, json, queue, asking>>

\* The JSON log is made of the list as it is now.  If it cannot be written, it is
\* missing or cut, of no use to anybody, and the run is reported all the same.
WriteJson ==
  /\ main = "json"
  /\ main' = "reported"
  /\ \/ json' = listed /\ UNCHANGED failed
     \/ failed' = failed \cup {"json"} /\ UNCHANGED json
  /\ UNCHANGED <<process, pipes, records, threads, gaveUp, logOpen, queue, asking, raising>>

-----------------------------------------------------------------------------
(* The threads: _read_stream, _write_stdin, _record.                       *)

Elsewhere == UNCHANGED <<process, json, logOpen, main, asking, gaveUp, raising>>

Listed(s) == listed' = [listed EXCEPT ![s] = @ + 1]

\* A line comes into the text log, or its write fails: then it may be there all
\* the same, if what is buffered is written later.  A file that was closed raises
\* a ValueError.  Either exception ends the thread.
Logged(s, ends) ==
  \/ /\ logOpen /\ ~ends
     /\ logged' = [logged EXCEPT ![s] = @ + 1]
     /\ UNCHANGED failed
  \/ /\ logOpen /\ ends
     /\ logged' \in {logged, [logged EXCEPT ![s] = @ + 1]}
     /\ failed' = failed \cup {s}
  \/ ~logOpen /\ ends /\ UNCHANGED <<logged, failed>>

ReadLine(s) ==
  /\ outputReader[s] = "reading"
  /\ listed[s] < written[s]
  /\ Listed(s)
  /\ outputReader' = [outputReader EXCEPT ![s] = "listed"]
  /\ Elsewhere /\ UNCHANGED <<pipes, logged, failed, feeder, queue>>

LogLine(s) ==
  /\ outputReader[s] = "listed"
  /\ \E ends \in BOOLEAN :
       /\ Logged(s, ends)
       /\ outputReader' = [outputReader EXCEPT ![s] = IF ends THEN "dead" ELSE "reading"]
  /\ Elsewhere /\ UNCHANGED <<pipes, listed, feeder, queue>>

\* The end of a pipe comes when nobody has it open for writing.
EndOfPipe(s) ==
  /\ outputReader[s] = "reading"
  /\ listed[s] = written[s]
  /\ process = "exited" /\ s \notin keepers
  /\ outputReader' = [outputReader EXCEPT ![s] = "done"]
  /\ Elsewhere /\ UNCHANGED <<pipes, records, failed, feeder, queue>>

\* A line from the queue goes to the process; a pipe that is broken is an
\* OSError, one that the main thread has closed a ValueError.
Ending == main \notin {"start", "poll", "input", "nap"}

Feed ==
  /\ feeder = "waiting"
  /\ \/ /\ queue > 0
        /\ queue' = queue - 1
        /\ \/ Listed("stdin") /\ feeder' = "listed"
           \/ /\ process = "exited" \/ Ending
              /\ feeder' = "done" /\ UNCHANGED listed
     \/ /\ queue = 0 /\ Ending
        /\ feeder' = "done"
        /\ UNCHANGED <<queue, listed>>
  /\ Elsewhere /\ UNCHANGED <<pipes, logged, failed, outputReader>>

LogFed ==
  /\ feeder = "listed"
  /\ \E ends \in BOOLEAN :
       Logged("stdin", ends) /\ feeder' = IF ends THEN "done" ELSE "waiting"
  /\ Elsewhere /\ UNCHANGED <<pipes, listed, outputReader, queue>>

-----------------------------------------------------------------------------
(* The process.                                                            *)

\* It writes, or a process that it has left its pipe to does.
ProgramWrites ==
  /\ \E s \in Outputs :
       /\ process \in {"running", "stopping"} \/ s \in keepers
       /\ written[s] < MaxLines
       /\ written' = [written EXCEPT ![s] = @ + 1]
  /\ UNCHANGED <<process, keepers, records, json, logOpen, main, threads, queue, asking, gaveUp, failed, raising>>

ProgramExits ==
  /\ process \in {"running", "stopping"}
  /\ process' = "exited"
  /\ keepers' \in SUBSET Outputs
  /\ UNCHANGED <<written, records, json, logOpen, main, threads, queue, asking, gaveUp, failed, raising>>

KeeperExits ==
  /\ \E s \in keepers : keepers' = keepers \ {s}
  /\ UNCHANGED <<process, written, records, json, logOpen, main, threads, queue, asking, gaveUp, failed, raising>>

DebugNext ==
  \/ LaunchProgram \/ Poll \/ Input \/ NapOver \/ Interrupted \/ WaitForProcess
  \/ Join("stdout", "join stdout", "join stderr") \/ Join("stderr", "join stderr", "close")
  \/ CloseLog \/ WriteJson
  \/ \E s \in Outputs : ReadLine(s) \/ LogLine(s) \/ EndOfPipe(s)
  \/ Feed \/ LogFed
  \/ ProgramWrites \/ ProgramExits \/ KeeperExits

DebugSpec == DebugInit /\ [][DebugNext]_debugVars

-----------------------------------------------------------------------------
\* When /debug reports, the two logs have every line of a stream that the program
\* wrote, unless its pipe outlived the join or the text log failed its thread; and
\* whatever the text log has, of the lines typed too, is in the JSON log.  A JSON
\* log that could not be written, of which the report says nothing, has neither
\* (run_interactive, _record).
ReportIsWhole ==
  main = "reported" =>
    /\ \A s \in Outputs \ (gaveUp \cup failed) :
         logged[s] = written[s] /\ ("json" \notin failed => json[s] = written[s])
    /\ "json" \notin failed => \A s \in Recorded : logged[s] <= json[s]
=============================================================================
