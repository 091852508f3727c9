------------------------- MODULE CommandQueueProofs -------------------------
(***************************************************************************)
(* For any number of notification threads, any size of the queue and any   *)
(* sequence of commands: the handler runs on one thread at a time, and the *)
(* flag, the file and the rows of the export agree.                        *)
(***************************************************************************)
EXTENDS CommandQueue, TLAPS

PCs == {"none", "drain", "handle", "flag", "unflag", "rearm", "arm"}
Destinations == {Failed, Closed} \cup 1 .. files

\* The part of TypeOK the proofs rest on.
Types ==
    /\ queue \in Seq(Commands)
    /\ thread \in [Threads -> [pc : PCs, msg : Commands]]
    /\ exporting \in BOOLEAN
    /\ files \in Nat
    /\ file \in Destinations
    /\ stopped \in BOOLEAN

\* HandlerAlone, and why the first registration finds no thread.
Alone ==
    /\ HandlerAlone
    /\ sched = "opened" => ~armed /\ \A t \in Threads : thread[t].pc = "none"

Collecting == sched \in {"opened", "collect", "dump"}
At(pc) == \E t \in Threads : thread[t].pc = pc

\* The flag and the file, also while a command is half done.
ExportInv ==
    Collecting =>
      /\ At("flag") => file # Closed /\ ~exporting
      /\ At("unflag") => file \in {Closed, Failed}
      /\ ~At("flag") /\ ~At("unflag") =>
           (file \in 1 .. files => exporting) /\ (exporting => file # Closed)

\* The rows of the last Dump, as long as nobody has stopped the export: while it
\* goes on, the file is the one Dump found.
RowsInv ==
    /\ sched = "dump" /\ ~stopped =>
         exporting /\ ~At("unflag") /\ file # Closed /\ rowsIn \subseteq {file}
    /\ rowsIn # {} /\ ~stopped => rowsIn \in {{f} : f \in {Failed} \cup 1 .. files}

Inv == Types /\ Alone /\ ExportInv /\ RowsInv

-----------------------------------------------------------------------------
LEMMA InvInit == Init => Inv
<1> SUFFICES ASSUME Init PROVE Inv
  OBVIOUS
<1>1. Types
  <2>1. NoThread \in [pc : PCs, msg : Commands]
    BY DEF NoThread, PCs, Commands
  <2>2. thread \in [Threads -> [pc : PCs, msg : Commands]]
    BY <2>1 DEF Init
  <2>3. queue \in Seq(Commands)
    BY DEF Init
  <2> QED BY <2>2, <2>3 DEF Init, Types, Destinations
<1>2. \A t \in Threads : thread[t].pc = "none"
  BY DEF Init, NoThread
<1>3. Alone
  BY <1>2 DEF Init, Alone, HandlerAlone
<1>4. ExportInv /\ RowsInv
  BY <1>2 DEF Init, ExportInv, RowsInv, At, Closed
<1> QED BY <1>1, <1>3, <1>4 DEF Inv

LEMMA TypesStep == Types /\ [Next]_vars => Types'
<1> SUFFICES ASSUME Types, [Next]_vars PROVE Types'
  OBVIOUS
<1> USE DEF Types, Destinations
<1>1. ASSUME NEW m \in Commands, Send(m) PROVE Types'
  <2>1. queue' \in Seq(Commands)
    BY <1>1 DEF Send
  <2>2. \/ thread' = thread
        \/ \E t \in Threads : thread' = [thread EXCEPT ![t].pc = "drain"]
    BY <1>1 DEF Send
  <2>3. thread' \in [Threads -> [pc : PCs, msg : Commands]]
    BY <2>2 DEF PCs
  <2> QED BY <1>1, <2>1, <2>3 DEF Send, exportVars, dumpVars
<1>2. ASSUME NEW t \in Threads, Notify(t) PROVE Types'
  <2>1. CASE Receive(t)
    <3>1. queue # <<>> /\ Head(queue) \in Commands /\ Tail(queue) \in Seq(Commands)
      BY <2>1 DEF Receive
    <3> QED BY <2>1, <3>1 DEF Receive, PCs, exportVars, dumpVars
  <2>2. CASE ReceiveEmpty(t)
    BY <2>2 DEF ReceiveEmpty, PCs, queueVars, exportVars, dumpVars
  <2>3. CASE Rearm(t)
    BY <2>3 DEF Rearm, NoThread, Commands, PCs, queueVars, exportVars, dumpVars
  <2>4. CASE ArmNotify(t)
    BY <2>4 DEF ArmNotify, NoThread, Commands, PCs, queueVars, exportVars, dumpVars
  <2>5. CASE HandleStart(t)
    BY <2>5 DEF HandleStart, PCs, queueVars, dumpVars, Closed, Failed
  <2>6. CASE HandleStartFlag(t)
    BY <2>6 DEF HandleStartFlag, PCs, queueVars, dumpVars
  <2>7. CASE HandleEnd(t)
    BY <2>7 DEF HandleEnd, CloseFile, PCs, queueVars, dumpVars
  <2>8. CASE HandleEndFlag(t)
    BY <2>8 DEF HandleEndFlag, PCs, queueVars, dumpVars
  <2> QED BY <1>2, <2>1, <2>2, <2>3, <2>4, <2>5, <2>6, <2>7, <2>8 DEF Notify
<1>3. CASE Run
  BY <1>3 DEF Run, Listen, Dump, DumpRow, DumpEnd, Race, RunEnd, RunEndFlag, StopListening,
       CloseFile, queueVars, exportVars, dumpVars
<1>4. CASE UNCHANGED vars
  BY <1>4 DEF vars, queueVars, exportVars, dumpVars
<1> QED BY <1>1, <1>2, <1>3, <1>4 DEF Next

\* A step of a notification thread: that thread was running, moves alone, and is
\* not in two places.
LEMMA Moves ==
  ASSUME Types, NEW t \in Threads, Notify(t)
  PROVE  /\ thread[t].pc # "none"
         /\ \A u \in Threads : u # t => thread'[u] = thread[u]
         /\ armed' = armed \/ (armed' = TRUE /\ thread'[t].pc = "none")
         /\ sched' = sched \/ sched' = "crashed"
BY DEF Notify, Types, Receive, ReceiveEmpty, Rearm, ArmNotify, HandleStart, HandleStartFlag,
       HandleEnd, HandleEndFlag, NoThread

LEMMA AloneStep == Types /\ Alone /\ [Next]_vars => Alone'
<1> SUFFICES ASSUME Types, Alone, [Next]_vars PROVE Alone'
  OBVIOUS
<1>1. ASSUME NEW m \in Commands, Send(m) PROVE Alone'
  <2>1. \/ armed' = armed /\ thread' = thread
        \/ /\ armed /\ ~armed'
           /\ \E t \in Threads : thread' = [thread EXCEPT ![t].pc = "drain"]
    BY <1>1 DEF Send
  <2>2. sched' = sched
    BY <1>1 DEF Send
  <2>3. CASE armed' = armed /\ thread' = thread
    BY <2>2, <2>3 DEF Alone, HandlerAlone
  <2>4. ASSUME armed, ~armed', NEW t \in Threads, thread' = [thread EXCEPT ![t].pc = "drain"]
        PROVE  Alone'
    BY <2>2, <2>4 DEF Alone, HandlerAlone, Types
  <2> QED BY <2>1, <2>3, <2>4
<1>2. ASSUME NEW t \in Threads, Notify(t) PROVE Alone'
  <2>1. ~armed /\ \A u \in Threads : u # t => thread'[u].pc = "none"
    BY <1>2, Moves DEF Alone, HandlerAlone
  <2>2. sched' # "opened"
    BY <1>2, Moves DEF Alone
  <2>3. armed' => thread'[t].pc = "none"
    BY <1>2, <2>1, Moves
  <2> QED BY <2>1, <2>2, <2>3 DEF Alone, HandlerAlone
<1>3. CASE Run
  <2>1. thread' = thread /\ sched' # "opened"
    BY <1>3 DEF Run, Listen, Dump, DumpRow, DumpEnd, Race, RunEnd, RunEndFlag, StopListening
  <2>2. sched = "opened" \/ armed' = armed \/ armed' = FALSE
    BY <1>3 DEF Run, Listen, Dump, DumpRow, DumpEnd, Race, RunEnd, RunEndFlag, StopListening
  <2>3. armed' => \A t \in Threads : thread[t].pc = "none"
    BY <2>2 DEF Alone, HandlerAlone
  <2> QED BY <2>1, <2>3 DEF Alone, HandlerAlone
<1>4. CASE UNCHANGED vars
  BY <1>4 DEF vars, Alone, HandlerAlone
<1> QED BY <1>1, <1>2, <1>3, <1>4 DEF Next

-----------------------------------------------------------------------------
\* The rest of TypeOK: the queue never holds more than it may, and no row goes to
\* a file that was not opened yet.
Rest ==
    /\ Len(queue) <= MaxMessages
    /\ sends \in 0 .. MaxSends
    /\ armed \in BOOLEAN
    /\ listening \in BOOLEAN
    /\ sched \in {"opened", "collect", "dump", "ending", "stop", "exited", "crashed"}
    /\ rowsIn \in SUBSET Destinations

LEMMA RestStep == Types /\ Rest /\ [Next]_vars => Rest'
<1> SUFFICES ASSUME Types, Rest, [Next]_vars PROVE Rest'
  OBVIOUS
<1>1. ASSUME NEW m \in Commands, Send(m) PROVE Rest'
  <2>1. Len(queue') <= MaxMessages
    <3>1. CASE Len(queue) < MaxMessages /\ queue' = Append(queue, m)
      <4>1. Len(queue') = Len(queue) + 1 /\ Len(queue) \in Nat
        BY <3>1 DEF Types
      <4> QED BY <3>1, <4>1, QueueAssumption
    <3>2. CASE queue' = queue
      BY <3>2 DEF Rest
    <3> QED BY <1>1, <3>1, <3>2 DEF Send
  <2>2. sends' \in 0 .. MaxSends
    BY <1>1, QueueAssumption DEF Send, Rest
  <2>3. armed' \in BOOLEAN
    BY <1>1 DEF Send, Rest
  <2>4. UNCHANGED <<listening, sched, files, rowsIn>>
    BY <1>1 DEF Send, exportVars, dumpVars
  <2> QED BY <2>1, <2>2, <2>3, <2>4 DEF Rest, Destinations
<1>2. ASSUME NEW t \in Threads, Notify(t) PROVE Rest'
  <2>1. Len(queue') <= MaxMessages
    <3>1. CASE queue # <<>> /\ queue' = Tail(queue)
      <4>1. Len(queue') = Len(queue) - 1 /\ Len(queue) \in Nat
        BY <3>1 DEF Types
      <4> QED BY <4>1, QueueAssumption DEF Rest
    <3>2. CASE queue' = queue
      BY <3>2 DEF Rest
    <3> QED BY <1>2, <3>1, <3>2 DEF Notify, Receive, ReceiveEmpty, Rearm, ArmNotify, HandleStart,
              HandleStartFlag, HandleEnd, HandleEndFlag, queueVars
  <2>2. armed' \in BOOLEAN
    BY <1>2, Moves DEF Rest
  <2>3. UNCHANGED <<sends, listening, rowsIn>> /\ (sched' = sched \/ sched' = "crashed")
    BY <1>2 DEF Notify, Receive, ReceiveEmpty, Rearm, ArmNotify, HandleStart,
         HandleStartFlag, HandleEnd, HandleEndFlag, queueVars, dumpVars
  <2>4. files' \in {files, files + 1}
    BY <1>2 DEF Notify, Receive, ReceiveEmpty, Rearm, ArmNotify, HandleStart,
         HandleStartFlag, HandleEnd, HandleEndFlag, exportVars
  <2>5. Destinations \subseteq Destinations'
    BY <2>4 DEF Destinations, Types
  <2> QED BY <2>1, <2>2, <2>3, <2>5 DEF Rest
<1>3. CASE Run
  BY <1>3 DEF Rest, Types, Destinations, Run, Listen, Dump, DumpRow, DumpEnd, Race, RunEnd,
       RunEndFlag, StopListening, queueVars, exportVars, dumpVars
<1>4. CASE UNCHANGED vars
  BY <1>4 DEF Rest, Destinations, vars, queueVars, exportVars, dumpVars
<1> QED BY <1>1, <1>2, <1>3, <1>4 DEF Next

-----------------------------------------------------------------------------
\* Steps that neither enter nor leave the middle of a command.
LEMMA ExportFrame ==
  ASSUME ExportInv, RowsInv, UNCHANGED <<exportVars, dumpVars, sched>>,
         At("flag")' <=> At("flag"), At("unflag")' <=> At("unflag")
  PROVE  ExportInv' /\ RowsInv'
BY DEF ExportInv, RowsInv, Collecting, exportVars, dumpVars

LEMMA ExportStep == Inv /\ [Next]_vars => ExportInv' /\ RowsInv'
<1> SUFFICES ASSUME Inv, [Next]_vars PROVE ExportInv' /\ RowsInv'
  OBVIOUS
<1>t. Types /\ HandlerAlone /\ ExportInv /\ RowsInv
  BY DEF Inv, Alone
<1>1. ASSUME NEW m \in Commands, Send(m) PROVE ExportInv' /\ RowsInv'
  <2>1. \/ thread' = thread
        \/ \E t \in Threads : thread[t].pc = "none" /\ thread' = [thread EXCEPT ![t].pc = "drain"]
    BY <1>1 DEF Send
  <2>2. (At("flag")' <=> At("flag")) /\ (At("unflag")' <=> At("unflag"))
    BY <1>t, <2>1 DEF At, Types
  <2>3. UNCHANGED <<exportVars, dumpVars, sched>>
    BY <1>1 DEF Send
  <2> QED BY <1>t, <2>2, <2>3, ExportFrame
<1>2. ASSUME NEW t \in Threads, Notify(t), sched # "crashed" PROVE ExportInv' /\ RowsInv'
  <2>1. \A u \in Threads : u # t => thread[u].pc = "none" /\ thread'[u].pc = "none"
    <3>1. thread[t].pc # "none" /\ \A u \in Threads : u # t => thread'[u] = thread[u]
      BY <1>t, <1>2, Moves
    <3> QED BY <1>t, <3>1 DEF HandlerAlone
  <2>2. \A pc \in {"flag", "unflag"} :
          (At(pc) <=> thread[t].pc = pc) /\ (At(pc)' <=> thread'[t].pc = pc)
    BY <2>1 DEF At
  <2>3. CASE Receive(t) \/ ReceiveEmpty(t) \/ Rearm(t) \/ ArmNotify(t)
    <3>1. thread[t].pc \notin {"flag", "unflag"} /\ thread'[t].pc \notin {"flag", "unflag"}
      BY <1>t, <2>3 DEF Types, Receive, ReceiveEmpty, Rearm, ArmNotify, NoThread
    <3>2. UNCHANGED <<exportVars, dumpVars, sched>>
      BY <2>3 DEF Receive, ReceiveEmpty, Rearm, ArmNotify
    <3> QED BY <1>t, <2>2, <3>1, <3>2, ExportFrame
  <2>4. CASE HandleStart(t)
    <3>1. thread[t].pc = "handle" /\ UNCHANGED <<exporting, rowsIn, stopped>>
      BY <2>4 DEF HandleStart, dumpVars
    <3>2. CASE UNCHANGED <<file, files>> /\ thread'[t].pc \notin {"flag", "unflag"}
      BY <1>t, <2>2, <2>4, <3>1, <3>2 DEF HandleStart, ExportInv, RowsInv, Collecting
    <3>3. CASE /\ ~exporting /\ sched' = sched /\ thread'[t].pc = "flag"
               /\ files' \in {files, files + 1}
               /\ file' \in {Failed, files'} \cup {file} /\ file' # Closed
      <4>1. 1 .. files \subseteq 1 .. files'
        BY <1>t, <3>3 DEF Types
      <4>2. ExportInv'
        BY <2>2, <3>1, <3>3 DEF ExportInv
      <4>3. sched = "dump" => stopped
        BY <1>t, <3>3 DEF RowsInv
      <4> QED BY <1>t, <3>1, <3>3, <4>1, <4>2, <4>3 DEF RowsInv
    <3>4. thread' = thread \/ thread'[t].pc \in {"drain", "flag"}
      BY <1>t, <2>4 DEF HandleStart, Types
    <3> QED BY <1>t, <2>4, <3>1, <3>2, <3>3, <3>4 DEF HandleStart, Types, Destinations, Closed, Failed
  <2>5. CASE HandleStartFlag(t)
    <3>1. /\ thread[t].pc = "flag" /\ thread'[t].pc = "drain" /\ exporting' = TRUE
          /\ UNCHANGED <<file, files, rowsIn, stopped, sched>>
      BY <1>t, <2>5 DEF HandleStartFlag, dumpVars, Types
    <3> QED BY <1>t, <2>2, <3>1 DEF ExportInv, RowsInv, Collecting
  <2>6. CASE HandleEnd(t)
    <3>1. /\ thread[t].pc = "handle" /\ thread'[t].pc = "unflag" /\ stopped' = TRUE
          /\ file' \in {Closed, Failed}
          /\ UNCHANGED <<exporting, files, rowsIn, sched>>
      BY <1>t, <2>6 DEF HandleEnd, CloseFile, Types
    <3> QED BY <1>t, <2>2, <3>1 DEF ExportInv, RowsInv, Collecting
  <2>7. CASE HandleEndFlag(t)
    <3>1. /\ thread[t].pc = "unflag" /\ thread'[t].pc = "drain" /\ exporting' = FALSE
          /\ UNCHANGED <<file, files, rowsIn, stopped, sched>>
      BY <1>t, <2>7 DEF HandleEndFlag, dumpVars, Types
    <3>2. Closed \notin 1 .. files /\ Failed \notin 1 .. files
      BY <1>t DEF Types, Closed, Failed
    <3> QED BY <1>t, <2>2, <3>1, <3>2 DEF ExportInv, RowsInv, Collecting
  <2> QED BY <1>2, <2>3, <2>4, <2>5, <2>6, <2>7 DEF Notify
<1>3. CASE Run
  <2>1. thread' = thread
    BY <1>3 DEF Run, Listen, Dump, DumpRow, DumpEnd, Race, RunEnd, RunEndFlag, StopListening
  <2>2. (At("flag")' <=> At("flag")) /\ (At("unflag")' <=> At("unflag"))
    BY <2>1 DEF At
  <2>3. CASE Listen \/ DumpEnd \/ Race
    BY <1>t, <2>2, <2>3 DEF Listen, DumpEnd, Race, exportVars, dumpVars, ExportInv, RowsInv, Collecting
  <2>4. CASE Dump
    <3>1. /\ sched = "collect" /\ exporting /\ rowsIn' = {} /\ stopped' = At("unflag")
          /\ UNCHANGED <<exporting, file, files>>
      BY <2>4 DEF Dump, At, exportVars
    <3>2. ~At("unflag") => file # Closed
      BY <1>t, <3>1 DEF ExportInv, Collecting
    <3> QED BY <1>t, <2>2, <2>4, <3>1, <3>2 DEF Dump, ExportInv, RowsInv, Collecting
  <2>5. CASE DumpRow
    <3>1. sched = "dump" /\ rowsIn' = rowsIn \cup {file} /\ UNCHANGED <<exporting, file, files, stopped, sched>>
      BY <2>5 DEF DumpRow, exportVars
    <3>2. ~stopped => rowsIn' = {file} /\ file \in {Failed} \cup 1 .. files
      BY <1>t, <3>1 DEF RowsInv, Types, Destinations
    <3> QED BY <1>t, <2>2, <3>1, <3>2 DEF ExportInv, RowsInv, Collecting
  <2>6. CASE RunEnd \/ RunEndFlag \/ StopListening
    BY <1>t, <2>6 DEF RunEnd, RunEndFlag, StopListening, exportVars, dumpVars, ExportInv, RowsInv, Collecting
  <2> QED BY <1>3, <2>3, <2>4, <2>5, <2>6 DEF Run
<1>4. CASE UNCHANGED vars
  BY <1>t, <1>4, ExportFrame DEF vars, At
<1> QED BY <1>1, <1>2, <1>3, <1>4 DEF Next

\* The inductive invariant of the command queue and the export.
THEOREM CommandInvariant == Spec => []Inv
<1>1. Inv /\ [Next]_vars => Inv'
  BY TypesStep, AloneStep, ExportStep DEF Inv
<1> QED BY <1>1, InvInit, PTL DEF Spec

\* Every variable keeps its type: the queue of the kernel never exceeds its limit
\* and no row is written to a file that was never opened.
THEOREM CommandTypeCorrect == Spec => []TypeOK
<1>1. Init => Rest
  <2> SUFFICES ASSUME Init PROVE Rest
    OBVIOUS
  <2>1. Len(queue) = 0 /\ sends = 0
    BY DEF Init
  <2>2. Len(queue) <= MaxMessages /\ sends \in 0 .. MaxSends
    BY <2>1, QueueAssumption
  <2> QED BY <2>2 DEF Init, Rest
<1>2. Inv => Types
  BY DEF Inv
<1>3. Types /\ Rest => TypeOK
  BY DEF Types, Rest, TypeOK, PCs, Destinations
<1> QED BY <1>1, <1>2, <1>3, RestStep, CommandInvariant, PTL DEF Spec

\* The handler of Scheduler::Run, which takes no lock, never runs on two of the
\* threads that SIGEV_THREAD starts.
THEOREM HandlerAlwaysAlone == Spec => []HandlerAlone
<1>1. Inv => HandlerAlone
  BY DEF Inv, Alone
<1> QED BY <1>1, CommandInvariant, PTL

\* No sequence of starts and stops, with directories and opens that fail, leaves a
\* file open without the flag or the flag set without a file.
THEOREM ExportAlwaysConsistent == Spec => []ExportConsistent
<1>1. Inv => ExportConsistent
  BY DEF Inv, ExportInv, ExportConsistent, Collecting, At
<1> QED BY <1>1, CommandInvariant, PTL

\* Without a stop in between, Dump, which tests the flag once and takes no lock,
\* writes all its rows to one file whose opening was tried.
THEOREM RowsAlwaysTogether == Spec => []RowsStayTogether
<1>1. Inv => RowsStayTogether
  BY DEF Inv, RowsInv, RowsStayTogether
<1> QED BY <1>1, CommandInvariant, PTL

=============================================================================
