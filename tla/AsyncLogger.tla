---------------------------- MODULE AsyncLogger ----------------------------
(***************************************************************************)
(* The asynchronous logger: threads append lines to a front buffer under a *)
(* mutex, a writer thread takes full buffers, or after three seconds any,  *)
(* and writes them without the mutex to the console and to a file that is  *)
(* rotated, and Stop writes what is left and deletes the logger.           *)
(*                                                                         *)
(* A critical section is one step, and so is the handling of one line in   *)
(* the writer's unlocked loop.  nextBuffer_ never holds a line: it is only *)
(* ever swapped and cleared, so that Append never finds it non-empty.      *)
(* The process may be killed and started again over the same files.        *)
(***************************************************************************)
EXTENDS Integers, FiniteSets, SequencesExt

CONSTANTS
  Threads,          \* the threads that log
  MaxLines,         \* bound: lines each thread logs
  BufferThreshold,  \* kBufferThreshold
  MaxFileSize,      \* maxFileSize_, in lines
  MaxFiles,         \* maxFiles_: server.log, server.log.1, ...
  MaxRestarts       \* bound: how often the process is killed

ASSUME BoundAssumption ==
  /\ {MaxLines, BufferThreshold, MaxFileSize} \subseteq Nat \ {0}
  /\ MaxFiles \in Nat \ {0, 1}
  /\ MaxRestarts \in Nat

Lines == Threads \X (1 .. MaxLines)

VARIABLES
  instance,  \* s_instance: "up", or "none" after Stop
  current,   \* currentBuffer_
  flush,     \* flushBuffers_
  running,   \* running_
  writer,    \* ThreadFunc: where it is, and the lines its loop has yet to write
  stopping,  \* Stop: "no", "join", "flush", "delete" or "done"
  thread,    \* thread -> whether it is inside Append, past the check of s_instance
  logged,    \* thread -> lines logged so far
  console,   \* history: lines that reached the console
  files,     \* the log files, the current one first; the first is logFile_
  isOpen,    \* logFile_.is_open()
  size,      \* currentFileSize_
  synced,    \* lines of the current file that have left the stream's buffer
  inFile,    \* history: lines that reached a file
  pushed,    \* history: lines that reached a buffer
  raced,     \* history: a buffer was pushed while the writer worked unlocked,
             \* or a line came after Stop had joined the writer
  undefined, \* a data race or a use after delete has happened
  restarts

bufferVars == <<current, flush>>
fileVars == <<files, isOpen, size, synced, inFile>>
history == <<pushed, raced>>
logVars ==
  <<instance, bufferVars, running, writer, stopping, thread, logged, console,
     fileVars, history, undefined, restarts>>

Idle == [at |-> "loop", left |-> <<>>]

LogInit ==
  /\ instance = "up"
  /\ current = <<>>
  /\ flush = <<>>
  /\ running = TRUE
  /\ writer = Idle
  /\ stopping = "no"
  /\ thread = [t \in Threads |-> FALSE]
  /\ logged = [t \in Threads |-> 0]
  /\ console = <<>>
  /\ files = [i \in 1 .. MaxFiles |-> <<>>]
  /\ isOpen \in BOOLEAN
  /\ size = 0
  /\ synced = 0
  /\ inFile = <<>>
  /\ pushed = {}
  /\ raced = FALSE
  /\ undefined = FALSE
  /\ restarts = 0

-----------------------------------------------------------------------------
(* Files.                                                                  *)

\* The oldest file is unlinked, every other one renamed, and a new one opened.
Rotated(fs) == [i \in 1 .. MaxFiles |-> IF i = 1 THEN <<>> ELSE fs[i - 1]]

\* Mutant: the size is not read back from a file that exists.
FreshSize(fs) == 0

\* OpenLogFile appends to the file, at its end.
OpenedSize(fs) == Len(fs[1])

\* A line goes to the file, which is rotated when it has reached its size.
WriteToFile(line) ==
  IF ~isOpen THEN UNCHANGED fileVars
  ELSE /\ inFile' = Append(inFile, line)
       /\ LET fs == [files EXCEPT ![1] = Append(@, line)]
          IN  IF size + 1 >= MaxFileSize
              THEN /\ files' = Rotated(fs)
                   /\ isOpen' \in BOOLEAN
                   /\ size' = IF isOpen' THEN OpenedSize(files') ELSE size + 1
                   /\ synced' = 0
              ELSE /\ files' = fs
                   /\ size' = size + 1
                   /\ UNCHANGED <<isOpen, synced>>

-----------------------------------------------------------------------------
(* The threads that log.                                                   *)

Line(t) == <<t, logged[t] + 1>>

\* No logger: the line goes to the console at once.
AppendSync(t) ==
  /\ ~undefined
  /\ instance = "none"
  /\ ~thread[t]
  /\ logged[t] < MaxLines
  /\ logged' = [logged EXCEPT ![t] = @ + 1]
  /\ console' = Append(console, Line(t))
  /\ UNCHANGED <<instance, bufferVars, running, writer, stopping, thread, fileVars,
                 history, undefined, restarts>>

\* s_instance is there: the line is formatted, the mutex awaited.
EnterAppend(t) ==
  /\ ~undefined
  /\ instance = "up"
  /\ ~thread[t]
  /\ logged[t] < MaxLines
  /\ thread' = [thread EXCEPT ![t] = TRUE]
  /\ UNCHANGED <<instance, bufferVars, running, writer, stopping, logged, console,
                 fileVars, history, undefined, restarts>>

\* The line fills the buffer.
Fills == Len(current) + 1 >= BufferThreshold

\* The writer uses flushBuffers_ without the mutex.
Unlocked == writer.at \in {"write", "clear"} \/ stopping \in {"flush", "delete"}

\* The critical section.  A notification only makes TakeBuffers come sooner.
PushLine(t) ==
  /\ ~undefined
  /\ instance = "up"
  /\ thread[t]
  /\ thread' = [thread EXCEPT ![t] = FALSE]
  /\ logged' = [logged EXCEPT ![t] = @ + 1]
  /\ pushed' = pushed \cup {Line(t)}
  /\ IF Fills THEN /\ flush' = Append(flush, Append(current, Line(t)))
                   /\ current' = <<>>
     ELSE /\ current' = Append(current, Line(t))
          /\ UNCHANGED flush
  /\ raced' = (raced \/ (Fills /\ writer.at \in {"write", "recycle", "clear"})
                     \/ stopping = "delete")
  /\ UNCHANGED <<instance, running, writer, stopping, console, fileVars, undefined, restarts>>

\* A push_back under the writer's feet, or under Stop's, or into a logger that
\* has been deleted: what happens is not any interleaving's outcome.
Undefined ==
  /\ ~undefined
  /\ \E t \in Threads :
       /\ thread[t]
       /\ \/ Fills /\ Unlocked
          \/ stopping \in {"flush", "delete"}
          \/ instance = "none"
  /\ undefined' = TRUE
  /\ UNCHANGED <<instance, bufferVars, running, writer, stopping, thread, logged, console,
                 fileVars, history, restarts>>

-----------------------------------------------------------------------------
(* The writer.                                                             *)

WriterAt(at) == ~undefined /\ writer.at = at

CheckRunning ==
  /\ WriterAt("loop")
  /\ writer' = [writer EXCEPT !.at = IF running THEN "wait" ELSE "done"]
  /\ UNCHANGED <<instance, bufferVars, running, stopping, thread, logged, console,
                 fileVars, history, undefined, restarts>>

\* Mutant: the wait has no timeout, and a part of a buffer has to wait.
TakeFullBuffers ==
  /\ WriterAt("wait")
  /\ flush # <<>> \/ ~running
  /\ LET taken == IF current = <<>> THEN flush ELSE Append(flush, current)
     IN  IF taken = <<>> THEN writer' = Idle /\ UNCHANGED bufferVars
         ELSE /\ flush' = taken
              /\ current' = <<>>
              /\ writer' = [at |-> "write", left |-> FlattenSeq(taken)]
  /\ UNCHANGED <<instance, running, stopping, thread, logged, console, fileVars, history,
                 undefined, restarts>>

\* wait_for ends by notification or after three seconds: at any time.
TakeBuffers ==
  /\ WriterAt("wait")
  /\ LET taken == IF current = <<>> THEN flush ELSE Append(flush, current)
     IN  IF taken = <<>> THEN writer' = Idle /\ UNCHANGED bufferVars
         ELSE /\ flush' = taken
              /\ current' = <<>>
              /\ writer' = [at |-> "write", left |-> FlattenSeq(taken)]
  /\ UNCHANGED <<instance, running, stopping, thread, logged, console, fileVars, history,
                 undefined, restarts>>

\* One line of the loop; the loop's end was taken when it began.
WriteLine ==
  /\ WriterAt("write")
  /\ writer.left # <<>>
  /\ console' = Append(console, Head(writer.left))
  /\ WriteToFile(Head(writer.left))
  /\ writer' = [writer EXCEPT !.left = Tail(@)]
  /\ UNCHANGED <<instance, bufferVars, running, stopping, thread, logged, history,
                 undefined, restarts>>

FlushFile ==
  /\ WriterAt("write")
  /\ writer.left = <<>>
  /\ synced' = IF isOpen THEN Len(files[1]) ELSE synced
  /\ writer' = [writer EXCEPT !.at = "recycle"]
  /\ UNCHANGED <<instance, bufferVars, running, stopping, thread, logged, console,
                 files, isOpen, size, inFile, history, undefined, restarts>>

\* Under the mutex the last buffer becomes nextBuffer_ and is cleared.
Recycle ==
  /\ WriterAt("recycle")
  /\ flush' = [flush EXCEPT ![Len(flush)] = <<>>]
  /\ writer' = [writer EXCEPT !.at = "clear"]
  /\ UNCHANGED <<instance, current, running, stopping, thread, logged, console,
                 fileVars, history, undefined, restarts>>

\* Without it, all of flushBuffers_ goes.
Clear ==
  /\ WriterAt("clear")
  /\ flush' = <<>>
  /\ writer' = Idle
  /\ UNCHANGED <<instance, current, running, stopping, thread, logged, console,
                 fileVars, history, undefined, restarts>>

-----------------------------------------------------------------------------
(* Stop, on the main thread.                                               *)

StopRunning ==
  /\ ~undefined
  /\ stopping = "no"
  /\ running' = FALSE
  /\ stopping' = "join"
  /\ UNCHANGED <<instance, bufferVars, writer, thread, logged, console, fileVars,
                 history, undefined, restarts>>

Join ==
  /\ ~undefined
  /\ stopping = "join"
  /\ writer.at = "done"
  /\ stopping' = "flush"
  /\ UNCHANGED <<instance, bufferVars, running, writer, thread, logged, console,
                 fileVars, history, undefined, restarts>>

\* What Stop writes to the file is not counted, and does not rotate it.
WriteRest(rest) ==
  /\ console' = console \o rest
  /\ IF ~isOpen THEN UNCHANGED fileVars
     ELSE /\ files' = [files EXCEPT ![1] = @ \o rest]
          /\ inFile' = inFile \o rest
          /\ synced' = Len(files'[1])
          /\ UNCHANGED <<isOpen, size>>
  /\ stopping' = "delete"
  /\ UNCHANGED <<instance, bufferVars, running, writer, thread, logged, history,
                 undefined, restarts>>

\* Mutant: only flushBuffers_ is written.
StopFlushBuffersOnly ==
  /\ ~undefined
  /\ stopping = "flush"
  /\ WriteRest(FlattenSeq(flush))

StopFlush ==
  /\ ~undefined
  /\ stopping = "flush"
  /\ WriteRest(FlattenSeq(flush) \o current)

StopDelete ==
  /\ ~undefined
  /\ stopping = "delete"
  /\ instance' = "none"
  /\ stopping' = "done"
  /\ current' = <<>>
  /\ flush' = <<>>
  /\ UNCHANGED <<running, writer, thread, logged, console, fileVars, history,
                 undefined, restarts>>

-----------------------------------------------------------------------------
\* The process is killed and started again: the buffers are gone, of the file
\* what the stream had passed on is there, and OpenLogFile appends to it.
Restart ==
  /\ restarts < MaxRestarts
  /\ restarts' = restarts + 1
  /\ instance' = "up" /\ running' = TRUE /\ stopping' = "no" /\ writer' = Idle
  /\ current' = <<>> /\ flush' = <<>>
  /\ thread' = [t \in Threads |-> FALSE]
  /\ \E kept \in synced .. Len(files[1]) :
       /\ files' = [files EXCEPT ![1] = SubSeq(@, 1, kept)]
       /\ inFile' = SubSeq(inFile, 1, Len(inFile) - (Len(files[1]) - kept))
       /\ synced' = kept
  /\ isOpen' \in BOOLEAN
  /\ size' = IF isOpen' THEN OpenedSize(files') ELSE 0
  /\ pushed' = pushed \cap Range(console)
  /\ undefined' = FALSE
  /\ UNCHANGED <<logged, console, raced>>

WriterStep == CheckRunning \/ TakeBuffers \/ WriteLine \/ FlushFile \/ Recycle \/ Clear

StopStep == Join \/ StopFlush \/ StopDelete

LogNext ==
  \/ \E t \in Threads : AppendSync(t) \/ EnterAppend(t) \/ PushLine(t)
  \/ WriterStep
  \/ StopRunning \/ StopStep
  \/ Undefined
  \/ Restart

LogSpec == LogInit /\ [][LogNext]_logVars

\* The writer and Stop are scheduled, and wait_for ends.  Nobody has to log.
FairLogSpec == LogSpec /\ WF_logVars(WriterStep) /\ WF_logVars(StopStep)

-----------------------------------------------------------------------------
(* Properties.                                                             *)

\* Every variable has its type.
LogTypeOK ==
  /\ instance \in {"up", "none"}
  /\ current \in Seq(Lines) /\ Len(current) < BufferThreshold
  /\ flush \in Seq(Seq(Lines))
  /\ running \in BOOLEAN
  /\ writer \in [ at : {"loop", "wait", "write", "recycle", "clear", "done"},
                  left : Seq(Lines) ]
  /\ stopping \in {"no", "join", "flush", "delete", "done"}
  /\ thread \in [Threads -> BOOLEAN]
  /\ logged \in [Threads -> 0 .. MaxLines]
  /\ console \in Seq(Lines)
  /\ files \in [1 .. MaxFiles -> Seq(Lines)]
  /\ isOpen \in BOOLEAN
  /\ size \in Nat /\ synced \in Nat
  /\ inFile \in Seq(Lines)
  /\ pushed \subseteq Lines
  /\ raced \in BOOLEAN /\ undefined \in BOOLEAN
  /\ restarts \in 0 .. MaxRestarts

\* No line that Append accepted is lost, through any number of buffers, flushes
\* and a Stop, as long as no buffer fills up while the writer is at work.
NoneLost ==
  ~raced => pushed \subseteq Range(console) \cup Range(current) \cup Range(FlattenSeq(flush))

\* Also when lines are lost, those of one thread come out in their order, and
\* none twice.
ThreadOrder ==
  \A i, j \in DOMAIN console :
    i < j /\ console[i][1] = console[j][1] => console[i][2] < console[j][2]

\* Between Append and the console lines are neither lost nor put out of order.
LinesIntact == LogTypeOK /\ NoneLost /\ ThreadOrder

\* The files together, from the oldest to the current one, are the last lines
\* written, with none missing in between, and as many of them as fit, also when
\* the process was killed and started again.  For that currentFileSize_, which
\* decides on rotation, is the size of the file until Stop writes past it.
FilesAreTheEnd ==
  LET all == FlattenSeq(Reverse(files))
  IN  /\ isOpen /\ stopping \notin {"delete", "done"} => size = Len(files[1])
      /\ IsSuffix(all, inFile)
      /\ Len(all) < Len(inFile) => Len(all) >= (MaxFiles - 1) * MaxFileSize

\* A buffer that does not fill up does not keep its lines: the writer comes for
\* them by itself.
LinesDoNotLinger == current # <<>> ~> current = <<>> \/ undefined
=============================================================================
